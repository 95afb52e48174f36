CONSTANTS
    c1 = c1
    c2 = c2
    Clients = {c1}
    BundleSizes = {1, 2}
    MaxMsgs = 2
    MaxTopo = 0
    MaxDrops = 0
    MaxOpens = 1
    QueueCap = 1
SPECIFICATION FairSpec
CHECK_DEADLOCK FALSE
PROPERTIES ServerAnswers
