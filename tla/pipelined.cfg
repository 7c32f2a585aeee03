SPECIFICATION FairSpec
CONSTANTS
    main_rs = main_rs
    lib_rs = lib_rs
    call1 = call1
    call2 = call2
    call3 = call3
    write1 = write1
    Paths <- TwoFiles
    PlainFiles <- Plain
    Requests <- TwoCalls
    ExternalWrites <- OneWrite
    Original = Original
    NoVersion = NoVersion
    Untracked = Untracked
    Absent = Absent
    NoPath = NoPath
    Existing <- TwoFiles
    Tracked <- OneFile
    ExternalOps <- AllExternalOps
    ReportsOpens = TRUE
    WatchLimit = 1
    MaxVersion = 12
    Tools <- AllTools
    Denied <- SomeDenied
    ExpectedVersions <- Unguarded
    Pipeline = 2
    IOFails = TRUE
INVARIANTS
    TypeOK
    DetachedOrInSync
PROPERTIES
    ReloadOnlyAdvances
    ImplementsSnapshots
    Answered
    Settles
