CONSTANTS
    cassi = cassi
    api = api
    Producers = {cassi}
    Size = 4
    Wrap = 8
    MaxMsgs = 10
SPECIFICATION FairSpec
CHECK_DEADLOCK FALSE
INVARIANTS NoEnqueueException NoLostWakeup AcceptedIsKept
PROPERTIES FifoSpec AcceptedIsDelivered
