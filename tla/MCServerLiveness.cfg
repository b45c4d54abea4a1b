\* Every actor keeps going except clients, who may cancel, and the worker, which
\* may die.
SPECIFICATION FairServerSpec
CONSTANTS
    r1 = r1
    r2 = r2
    x1 = x1
    Requests <- TwoRequests
    Streams <- FirstIsUnary
    CancelCalls = {}
    Cancellers <- MCCancellers
    MaxPending = 1
    Files = 1
    LeaseCalls = {l1}
    NoLease = NoLease
    HasTimeout = FALSE
    FragileStart = FALSE
    None = None
INVARIANTS
    UnaryComplete
PROPERTIES
    EveryCallAnswered
    WorkerFailureClosesQueue
CHECK_DEADLOCK FALSE
