\* The worker may stop making progress at any point, and die before anyone listens to
\* it: nothing is assumed of it.  One of the two Lease calls may be lost, the other take
\* the lease in the window before the scheduled shutdown, or be refused.
SPECIFICATION StuckWorkerSpec
CONSTANTS
    r1 = r1
    r2 = r2
    x1 = x1
    Requests = {r1}
    Streams = {r1}
    CancelCalls <- OneCancelCall
    Cancellers <- MCCancellers
    MaxPending = 0
    Files = 0
    LeaseCalls = {l1, l2}
    NoLease = NoLease
    HasTimeout = TRUE
    FragileStart = TRUE
    None = None
INVARIANTS
    ShutdownInOrder
PROPERTIES
    HolderKeepsServerUp
    LostLeaseStopsServer
    UnleasedServerStops
    EveryCancelAnswered
CHECK_DEADLOCK FALSE
