CONSTANTS
    Service = {1, 2}
    Manager = 0
    Look <- MCLook
    MaxQueue = 1
SPECIFICATION FairSpec
INVARIANT KeysAreForTheChosen
INVARIANT CursorOnSelection
INVARIANT PanicsOnlyAfterError
PROPERTY PasswordIsAskedFor
PROPERTY RefusalIsForgotten
CHECK_DEADLOCK FALSE
VIEW readVars
