SPECIFICATION FeedSpec
CONSTANTS
    Mark = {2, 4}
    Day = {0, 1}
    Start = 4
    End = 5
    MaxItems = 3
    Limit = 1
    NoValue = NoValue
INVARIANT NoHole
CHECK_DEADLOCK FALSE
