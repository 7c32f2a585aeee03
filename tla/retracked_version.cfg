SPECIFICATION Spec
CONSTANTS
    main_rs = main_rs
    lib_rs = lib_rs
    call1 = call1
    call2 = call2
    call3 = call3
    write1 = write1
    Paths <- OneFile
    PlainFiles = {}
    Requests <- TwoCalls
    ExternalWrites <- OneWrite
    Original = Original
    NoVersion = NoVersion
    Untracked = Untracked
    Absent = Absent
    NoPath = NoPath
    Existing <- OneFile
    Tracked <- OneFile
    ExternalOps <- WritesOnly
    ReportsOpens = FALSE
    WatchLimit = 2
    MaxVersion = 12
    Tools <- TrackOnly
    Denied = {}
    ExpectedVersions <- Unguarded
    Pipeline = 1
    IOFails = FALSE
PROPERTIES
    VersionsOnlyRise
SYMMETRY Symmetry
