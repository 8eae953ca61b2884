SPECIFICATION LimitSpec
CONSTANTS
    Requests = {r1, r2, r3}
    Limit = 2
    Window = 6
    TicksPerSecond = 3
    MaxCount = 4
    MaxFaults = 1
INVARIANTS LimitTypeOK AtMostTwiceTheLimit CounterWillExpire RetryAfterIsNear
CHECK_DEADLOCK FALSE
