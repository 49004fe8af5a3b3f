SPECIFICATION PageFairSpec
CONSTANTS
    Users = {1, 2}
    Me = 1
    Calls = {1, 2, 3}
    Workers = {9}
    Settings <- AllSettings
    Stories <- MCStories
INVARIANTS
    ShownAsSet
PROPERTIES
    ComesRightUnblanked
    SweptRightly
\* A page that is closed, where there is no sweep, asks for nothing.
CHECK_DEADLOCK FALSE
