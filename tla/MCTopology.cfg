CONSTANTS
    a = a
    b = b
    c = c
    Nodes = {a, b, c}
    Links <- Ring
    MaxOpens = 3
    MaxDrops = 1
    MaxRestarts = 0
    CassiFull = {TRUE, FALSE}
SPECIFICATION FairSpec
CHECK_DEADLOCK FALSE
INVARIANTS TypeOK OwnEntryIsCurrent OwnerIsNewest EqualSequenceNoChange
PROPERTIES GossipStops PeersLearn
