CONSTANTS
    Tabs = {t1, t2}
    Requests = {q1, q2}
    Sessions = {1, 2}
    AccessTtl = 2
    RefreshTtl = 3
    Margin = 1
    Worlds <- MCWorlds
    People = {p1, p2}
    Handles = {h1, h2, h3}
    Nobody = Nobody
    NoHandle = NoHandle
    Ids = {1, 2, 3}
    Logins = {l1, l2}
    Readers = {r1}
    Writers = {w1}
    AccountWorlds <- MCAccountWorlds
SPECIFICATION OnlineSpec
INVARIANTS
    OutlivesByATtl
    KeepsAndLeaves
PROPERTIES
    KeptSignedIn
    EveryRequestEnds
    LoginsStand
CHECK_DEADLOCK FALSE
