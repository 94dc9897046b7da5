SPECIFICATION Spec
CONSTANTS
    Obj = {m, u, v, k}
    NULL = NULL
    master_ob = m
    User = {u, v}
    Npc = {}
    Caller = {k}
    MAX_PLAYERS = 2
    May <- ComingAndGoing
    MaxDepth = 3
INVARIANTS TypeOK TwoWay Reached RefsExact MasterFree
SYMMETRY Alike
