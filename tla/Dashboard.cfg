SPECIFICATION MCSpec
CONSTANTS
    Users = {u1, u2}
    Owner = u1
    Slots = {1, 2}
    ConnectionWorlds <- MCConnectionWorlds
    Words = {"", "ghost", "me", "ann", "cy", "late", "robot[bot]", "core", "all"}
    Githubs <- MCGithubs
    Rows <- MCRows
    Typed <- MCTyped
    MaxTeams = 2
    MaxPresses = 2
    Types = {"review_requested", "pull_request_comment"}
    Logins = {"ann", "fred", "mergify", "x-bot"}
    Spellings = {"ann", "fred", "mergify", "mergify[bot]", "x-bot", " "}
    LoginOf <- Spelled
    NoLogin = ""
    Hours = {9, 17}
    HourNow = 12
    Worlds <- MCWorlds
    Pokes <- MCPokes
    NoPiece = "none"
    Talking = {"pull_request_comment"}
    POKE_SENDERS_MAX = 2
    POKE_SENDERS_WINDOW = 1
    MAX_SUGGESTIONS = 1
INVARIANTS
    ActsOnlyWithStanding
    GoneLeavesNothing
    RowKeepsItsWord
    RowsWhereTheyBelong
    SavedAsPressed
    SuggestsWhoPoked
PROPERTIES
    SavesTouchTheirOwn
    RoomIsMadeByPeople
\* A person may stop pressing and nobody need poke them.
CHECK_DEADLOCK FALSE
