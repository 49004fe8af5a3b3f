SPECIFICATION Spec
CONSTANTS
    Types = {"review_requested", "pull_request_comment"}
    Logins = {"ann", "fred", "mergify", "x-bot"}
    Spellings = {"ann", "fred", "mergify", "mergify[bot]", "x-bot", " "}
    LoginOf <- Spelled
    NoLogin = ""
    Hours = {9, 17}
    HourNow = 12
    Worlds <- Reopened
    Pokes <- MCPokes
    NoPiece = "none"
    Talking = {"pull_request_comment"}
    POKE_SENDERS_MAX = 2
    POKE_SENDERS_WINDOW = 1
    MAX_SUGGESTIONS = 1
\* A person may stop pressing and nobody need poke them.
CHECK_DEADLOCK FALSE
PROPERTY FirstFrameIsTheTruth
