CONSTANTS
    h1 = h1
    h2 = h2
    NoStream = NoStream
    NoHall = NoHall
    Halls <- MCHalls
    MaxMsgs = 3
    MaxHallCrashes = 2
    SendMayLose = FALSE
SPECIFICATION Spec
CHECK_DEADLOCK FALSE
INVARIANT FailoverKeepsSession
