SPECIFICATION FairSpec
CONSTANTS
    r1 = r1
    r2 = r2
    u1 = u1
    u2 = u2
    Replicas = {r1, r2}
    Users = {u1}
    Announcements = 2
    Concurrency = 1
    MaxStarts = 3
    MaxLinks = 1
    Faults = {"crash", "slack", "database"}
INVARIANTS
    OneCopyToTheInvited
    CompletedReachedAll
PROPERTIES
    EverythingCompletes
\* A process makes one pass in its life.
CHECK_DEADLOCK FALSE
