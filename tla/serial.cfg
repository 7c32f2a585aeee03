SPECIFICATION ClientSpec
CONSTANTS
    main_rs = main_rs
    lib_rs = lib_rs
    call1 = call1
    call2 = call2
    call3 = call3
    write1 = write1
    Paths <- OneFile
    PlainFiles = {}
    Requests <- ThreeCalls
    ExternalWrites <- OneWrite
    Original = Original
    NoVersion = NoVersion
    Untracked = Untracked
    Absent = Absent
    NoPath = NoPath
    Existing <- OneFile
    Tracked <- OneFile
    ExternalOps <- WritesOnly
    ReportsOpens = TRUE
    WatchLimit = 2
    MaxVersion = 12
    Tools <- AllTools
    Denied = {}
    ExpectedVersions <- AnyVersion
    Pipeline = 1
    IOFails = FALSE
INVARIANTS
    GivenVersionsNameTexts
    WatchedIffTracked
PROPERTIES
    SaveIsLossless
    OnlyReloadsAreOverwritten
    OnlyTrackingTracks
SYMMETRY Symmetry
