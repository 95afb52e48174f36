CONSTANTS
    cassi = cassi
    api = api
    Producers = {cassi, api}
    Size = 4
    Wrap = 8
    MaxMsgs = 2
SPECIFICATION Spec
CHECK_DEADLOCK FALSE
INVARIANTS AcceptedIsKept
