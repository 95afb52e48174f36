CONSTANTS
    c1 = c1
    c2 = c2
    Clients = {c1, c2}
    BundleSizes = {3}
    MaxMsgs = 3
    MaxTopo = 1
    MaxDrops = 1
    MaxOpens = 3
    QueueCap = 2
SPECIFICATION Spec
SYMMETRY ClientSymmetry
CHECK_DEADLOCK FALSE
INVARIANTS TypeOK NoEFSM PendingOnlyInProgress WholeBundles OneOutstanding BundlesContiguous
