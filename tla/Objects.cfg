SPECIFICATION FairSpec
CONSTANTS
    Obj = {a, b, c}
    NULL = NULL
    Blueprint = {a}
    Holder = {b}
INVARIANTS TypeOK ListsExact RefsExact ObjAtHand
PROPERTIES EveryoneVisited FreedEventually
