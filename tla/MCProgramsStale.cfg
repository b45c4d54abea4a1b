\* Two programs share lib.
SPECIFICATION Spec
CONSTANTS
    app = app
    lib = lib
    v1 = v1
    v2 = v2
    Files <- Two
    Contents <- TwoContents
    Imports <- AppImportedLib
    TsConfigLists <- Each
    OrphanSettings <- Always
    MaxSizes <- OnlyTwo
    MaxRequests = 3
INVARIANTS
    ServedContentIsTheRequests
