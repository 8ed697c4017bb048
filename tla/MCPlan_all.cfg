SPECIFICATION Spec
CONSTANTS
    SetCalls <- MCSetCalls
    TimelineCalls <- MCTimelineCalls
    MapCalls <- MCMapCalls
    SelectCalls <- MCSelectCalls
    RecoveryCalls <- MCRecoveryCalls
    ReadCalls <- MCReadCalls
    MaxSession = 3
    MaxBlock = 2
    FreeEarly = FALSE
    Affinity <- MCAffinity
    RetryCalls <- MCRetryCalls
    RemoteCalls <- MCRemoteCalls
    AuthorizeCalls <- MCAuthorizeCalls
    VerifyRepos <- MCVerifyRepos
    VerifyClients = 2
    BlockSize = 2
    BlockCalls <- MCBlockCalls
    PageCalls <- MCPageCalls
    SizeFactor = 4
    ChecksumSizeMin = 6
    ZeroChecksum = "zero"
    SaveCalls <- MCSaveCalls
    NameOrder <- MCNameOrder
    Oids <- MCOids
    Kind <- MCKind
    TablespaceId = "PG_16"
    BuildCalls <- MCBuildCalls
    LinkCalls <- MCLinkCalls
    IncrCalls <- MCIncrCalls
    CopyNames <- MCCopyNames
    TargetOf <- MCTargetOf
    OnStandby <- MCOnStandby
    PgControl = "control"
    ReadBuffer = 3
    FirstBackups <- MCFirstBackups
    NextBackups <- MCNextBackups
    InitCalls <- MCInitCalls
    MaxHttp = 3
    HttpReplies <- MCHttpReplies
    HttpRetries = 1
    BodyCalls <- MCBodyCalls
    UriCalls <- MCUriCalls
    UrlCalls <- MCUrlCalls
    QueryCalls <- MCQueryCalls
    HeaderCalls <- MCHeaderCalls
    MultiCalls <- MCMultiCalls
    ListCalls <- MCListCalls
    PathRemoveCalls <- MCPathRemoveCalls
    FileCalls <- MCFileCalls
    PartSize = 2
    MaxUpload = 3
    UploadKinds = {"s3","azure","gcs"}
    RenewMargin = 1
    DayLength = 3
    MaxNow = 6
    Clusters = {7, 8}
    MaxHistory = 3
    MaxFault = 1
    MaxKill = 2
    MaxPass = 4
    MaxList = 1
    InfoCalls <- MCInfoCalls
    LoadFileCalls <- MCLoadFileCalls
    IniCalls <- MCIniCalls
    RowCalls <- MCRowCalls
    ReconstructCalls <- MCReconstructCalls
    SizeCalls <- MCSizeCalls
    AnnotationCalls <- MCAnnotationCalls
    CheckCalls <- MCCheckCalls
    ReportCalls <- MCReportCalls
    ArchiveIdCalls <- MCArchiveIdCalls
    AnnotateCalls <- MCAnnotateCalls
    Rule <- MCRule
    Resolve <- MCResolve
    KeyMax = 3
    OptionName <- MCOptionName
    Deprecated <- MCDeprecated
    NumberOf <- MCNumber
    TrimmedPath <- MCTrimmed
    NameCalls <- MCNameCalls
    NumberCalls <- MCNumberCalls
    ConfigFileCalls <- MCConfigFileCalls
    StanzaListCalls <- MCStanzaListCalls
    ParseCalls <- MCParseCalls
    ExecCalls <- MCExecCalls
    UpdateCalls <- MCUpdateCalls
    BadPaths = {"x", "//"}
    Pairs = {"k=v"}
    InitialSize = 1
    TryMax = 2
    MaxBuffer = 5
    Scopes <- MCScopes
    TraceBuffer = 40
    ParamMax = 8
    ParamNames = {1, 4}
    ParamValues = {0, 1, 7}
    MaxFunction = 4
    CipherUnit = 2
    MaxDigits = 3
    ReaderCalls <- MCReaderCalls
    WriterCalls <- MCWriterCalls
    CopyCalls <- MCCopyCalls
    PollCalls <- MCPollCalls
INVARIANTS
    RestorePlanSound
    ProtocolSound
    VerifySound
    BlocksSound
    ManifestSound
    BackupPlanSound
    RequestsSound
    ObjectStoreSound
    StanzaKept
    StanzaSound
    ConfigSound
    MemorySound
    StreamsSound
CHECK_DEADLOCK FALSE
