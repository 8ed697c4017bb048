SPECIFICATION Spec
CONSTANTS
    Dir <- Dirs
    Links = {"ts"}
    Backup <- Backups
    Changing = {"a"}
    Options <- OptionsAll
    Clusters <- ClustersAll
    Clients = 2
    Now = 9
    Ordered = TRUE
    FaultKinds = {{"kill"}, {"host"}}
    MaxFault = 1
INVARIANTS
    TypeOK
    NeverHalfRestored
    RestoredAsAsked
    CanContinue
PROPERTIES
    OnlyOwnDirectory
    Ends
