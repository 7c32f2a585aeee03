SPECIFICATION FairFaultSpec
CONSTANTS
    main_rs = main_rs
    lib_rs = lib_rs
    write1 = write1
    write2 = write2
    write3 = write3
    Paths <- MCPaths
    PlainFiles = {}
    Requests = {}
    ExternalWrites <- MCExternalWrites
    Original = Original
    NoVersion = NoVersion
    Untracked = Untracked
    Absent = Absent
    NoPath = NoPath
    Existing <- MCPaths
    Tracked <- MCTracked
    ExternalOps <- AllExternalOps
    ReportsOpens = TRUE
    WatchLimit = 2
    MaxVersion = 8
    MaxLosses = 2
INVARIANTS
    WatcherTypeOK
    OnlyLossesAreMissed
PROPERTIES
    ConvergesUnlessLost
    ChannelDrains
