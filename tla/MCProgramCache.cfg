\* Programs that share files; lib may be an orphan; the cache may evict one.
SPECIFICATION Spec
CONSTANTS
    app = app
    lib = lib
    v1 = v1
    v2 = v2
    Files <- Two
    Contents <- TwoContents
    Imports <- AppImportedLib
    TsConfigLists <- EachBothOrApp
    OrphanSettings <- Either
    MaxSizes <- OneOrTwo
    MaxRequests = 3
INVARIANTS
    ParsedIsCurrent
PROPERTIES
    BuildsReadTheRequest
