SPECIFICATION Spec
CONSTANTS
    Dir <- Dirs
    Links = {"ts"}
    Backup <- Backups
    Changing = {"a"}
    Options <- OptionsAll
    Clusters <- ClustersAll
    Clients = 1
    Now = 9
    Ordered = TRUE
    FaultKinds = {{"kill", "host"}}
    MaxFault = 2
INVARIANT NeverHalfRestored
