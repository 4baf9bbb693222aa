\* A second call within the window of the first.
CONSTANTS
    Limit = 2
    Window = 3
    MaxCalls = 3
SPECIFICATION LimitsSpec
PROPERTY NewKeysExpire
CHECK_DEADLOCK FALSE
