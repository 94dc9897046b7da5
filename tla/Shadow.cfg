SPECIFICATION Spec
CONSTANTS
    Obj = {a, p, s, t}
    NULL = NULL
    Giver = {p}
    Interactive = {p, s}
    Shadower = {s, t}
    Container = {a}
    MasterMay = {"destruct"}
    MaxAsking = 1
    MaxActions = 2
INVARIANTS TypeOK Mutual Anchored Grounded ShadowsOutside Forgotten ActionsNear
PROPERTIES ImplementsStacks
