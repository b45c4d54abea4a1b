\* All modes, programs, references and cancellations.  An analysis stops.
SPECIFICATION FairSpec
CONSTANTS
    module = module
    script = script
    style = style
    library = library
    base = base
    package = package
    Files <- AllFiles
    JsTsFiles <- Scripts
    OtherFiles <- Libraries
    TsConfigs <- AllTsConfigs
INVARIANTS
    EachFileInOneLoop
    TypedWherePossible
PROPERTIES
    ResultsSpec
    AnalysisEnds
CHECK_DEADLOCK FALSE
