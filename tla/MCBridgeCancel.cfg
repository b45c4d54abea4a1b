\* One process and one call are enough for a cancellation to meet its request.
CHECK_DEADLOCK FALSE
SPECIFICATION Spec
CONSTANTS
    Nodes = {n1}
    NoNode = NoNode
    MaxIncidents = 0
    Calls = {c1}
    NoCall = NoCall
    Files = 1
INVARIANTS
    CancelIsNotFailure
