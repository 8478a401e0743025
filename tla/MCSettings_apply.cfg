SPECIFICATION Spec
CONSTANTS
    Null = Null
    Default = Default
    Unreadable = Unreadable
    Inputs <- AllInputs
    Foreign <- ForeignStates
    MaxChanges = 2
INVARIANTS RoundTrip WriteBack NoStaleCredentials
CHECK_DEADLOCK FALSE
