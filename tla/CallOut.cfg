SPECIFICATION Spec
CONSTANTS
    o1 = o1  o2 = o2  u1 = u1  u2 = u2
    Obj = {o1, o2}
    NULL = NULL
    User = {u1, u2}
    Owner <- TwoOwners
    max_callouts = 3
    MaxDelay = 2
    MaxStep = 2
    EvalLimit = 2
SYMMETRY Swaps
INVARIANTS TypeOK QueueExact
PROPERTIES NothingLeftBehind FailedUserRests ImplementsQueue
