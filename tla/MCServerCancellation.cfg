\* Two stream calls and a CancelAnalysis call race with completions, time-outs,
\* a lost lease and a dying worker; the queue holds both calls.
SPECIFICATION ServerSpec
CONSTANTS
    r1 = r1
    r2 = r2
    x1 = x1
    Requests <- TwoRequests
    Streams <- TwoRequests
    CancelCalls <- OneCancelCall
    Cancellers <- MCCancellers
    MaxPending = 1
    Files = 1
    LeaseCalls = {l1}
    NoLease = NoLease
    HasTimeout = FALSE
    FragileStart = FALSE
    None = None
SYMMETRY Symmetry
INVARIANTS
    NoCrossCancellation
    StreamComplete
    AcknowledgedCancellationHonoured
    NothingIsLost
PROPERTIES
    StreamSpec
CHECK_DEADLOCK FALSE
