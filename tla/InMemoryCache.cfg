SPECIFICATION FairSpec
CONSTANTS
    a = a
    b = b
    c = c
    x = x
    y = y
    c1 = c1
    c2 = c2
    Unknown = Unknown
    NoLoad = NoLoad
    Keys = {a, b, c}
    Values = {x, y}
    Ttl <- AccessTtl
    Callers = {c1, c2}
    Worlds <- MCWorlds
    Prefixes = {{a}, {a, b}}
    MAX_ENTRIES = 2
    MaxLoad = 1
INVARIANTS
    Sound
PROPERTIES
    EvictsStalestFirst
    EveryoneHears
CHECK_DEADLOCK FALSE
