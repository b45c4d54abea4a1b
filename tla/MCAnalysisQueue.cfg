\* Four requests over a line of two waiting places: one executes, two wait and
\* one is refused; two cancellers race for signals.
SPECIFICATION QueueSpec
CONSTANTS
    Requests = {r1, r2, r3, r4}
    Cancellers = {c1, c2}
    MaxPending = 2
    None = None
SYMMETRY Symmetry
INVARIANTS
    Bookkeeping
    OneSignal
PROPERTIES
    NoSignalAfterAcknowledgement
    LineSpec
CHECK_DEADLOCK FALSE
