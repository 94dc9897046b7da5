SPECIFICATION Spec
CONSTANTS
    Obj = {o1, o2, o3}
    NULL = NULL
    heart_beat_interval = 2
    MinPlayers = 0
    MaxPlayers = 1
INVARIANTS Linked ListReachesAll IInv
PROPERTIES BeatSpacing ImplementsQueue
