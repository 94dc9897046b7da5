SPECIFICATION FairSpec
CONSTANTS
    Obj = {o1, o2, o3}
    NULL = NULL
    heart_beat_interval = 2
    MinPlayers = 1
    MaxPlayers = 1
PROPERTIES BreakMeansAllProcessed EveryHeartBeats
