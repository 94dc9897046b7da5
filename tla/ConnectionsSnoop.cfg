SPECIFICATION Spec
CONSTANTS
    Obj = {m, u, v, w, n}
    NULL = NULL
    master_ob = m
    User = {u, v, w}
    Npc = {n}
    Caller = {}
    MAX_PLAYERS = 3
    May <- Snooping
    MaxDepth = 2
INVARIANTS SnoopLinked NoSnoopLoop RefsExact
SYMMETRY Alike
