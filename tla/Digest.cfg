SPECIFICATION FairSpec
CONSTANTS
    r1 = r1
    r2 = r2
    NoZone = NoZone
    Replicas = {r1, r2}
    Zones = {0}
    Hours = {1, 2}
    HoursPerDay = 3
    Start = 3
    MaxTime = 8
    MaxLag = 1
    MaxSaves = 2
    Worlds <- MCWorlds
INVARIANTS
    OncePerDayInTime
PROPERTIES
    NobodyDueForever
CHECK_DEADLOCK FALSE
