\* Lists of up to two tsconfigs, that may grow to three.
SPECIFICATION Spec
CONSTANTS
    main = main
    page = page
    root = root
    web = web
    ui = ui
    Orphan = Orphan
    None = None
    Files <- AllFiles
    TsConfigs <- AllTsConfigs
    PathOf <- Paths
    References <- Refs
    InitialLists <- ListsOfTwo
INVARIANTS
    CoveredFileIsNoOrphan
PROPERTIES
    SelectionIsStable
