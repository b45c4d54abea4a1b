\* Two workers record one path of every kind in the same archive, flush over each
\* other, die with the lock file, and replay under another checkout.  Paths do not meet
\* in an archive: one is enough.  The operations left out differ from those given in the
\* slot they fill.
SPECIFICATION Spec
CONSTANTS
    Workers = {w1, w2}
    Paths = {p}
    Kinds = {"file", "dir", "link", "locked", "stale",
             "missing", "dangling", "loop", "unreachable", "belowFile"}
    Versions = {v1, v2}
    Ops = {"exists", "readFile", "stat", "statSoft", "statBigint", "lstat",
           "readdir", "opendir", "open"}
    None = None
    MaxObservations = 3
SYMMETRY Symmetry
CONSTRAINT Bounded
INVARIANTS
    RecordedAnswersAreNative
    ReplayAnswersTheRecordedTree
    OpenedFileCanBeRead
PROPERTIES
    FlushKeepsAnswers
