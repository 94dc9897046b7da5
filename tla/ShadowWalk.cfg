SPECIFICATION Spec
CONSTANTS
    Obj = {a, p, s, t}
    NULL = NULL
    Giver = {p, s}
    Interactive = {p}
    Shadower = {s, t}
    Container = {a}
    MasterMay = {"destruct"}
    MaxAsking = 1
    MaxActions = 2
INVARIANTS WalksOwnShadows
