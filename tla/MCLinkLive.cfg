CONSTANTS
    c1 = c1
    c2 = c2
    Clients = {c1, c2}
    BundleSizes = {1}
    MaxMsgs = 1
    MaxTopo = 0
    MaxDrops = 1
    MaxOpens = 2
    QueueCap = 1
SPECIFICATION FairSpec
CHECK_DEADLOCK FALSE
PROPERTIES RequestAnswered RejoinsWhenIdle
