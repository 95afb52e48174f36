CONSTANTS
    c1 = c1
    c2 = c2
    Clients = {c1}
    BundleSizes = {1, 2}
    MaxMsgs = 2
    MaxTopo = 0
    MaxDrops = 1
    MaxOpens = 1
    QueueCap = 4
SPECIFICATION FairSpec
CHECK_DEADLOCK FALSE
PROPERTIES RejoinsAfterDisconnect
