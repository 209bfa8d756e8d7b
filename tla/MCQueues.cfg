SPECIFICATION QueuesSpec
CHECK_DEADLOCK FALSE
INVARIANTS
    DeliveryIsOrderly
    LogIsComplete
    RpcIsSafe
    WireFollowsCapture
    RateIsKept
PROPERTIES
    DelaysAreKept
    OwedIsDone
