\* The JVM may end, and everything with it.
CHECK_DEADLOCK FALSE
SPECIFICATION FairSpec
CONSTANTS
    Nodes = {n1, n2}
    NoNode = NoNode
    MaxIncidents = 2
    Calls = {c1}
    NoCall = NoCall
    Files = 1
INVARIANTS
    OutcomeIsTrue
    NoUnattendedCall
PROPERTIES
    AnalysisBeginsLeased
    CancelEndsCall
    EndedCallLeavesNothing
    UnownedProcessStops
    ServerComesBack
