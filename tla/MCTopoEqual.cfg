CONSTANTS
    a = a
    b = b
    c = c
    Nodes = {a, b, c}
    Links <- Fork
    MaxOpens = 3
    MaxDrops = 0
    MaxRestarts = 1
    CassiFull = {FALSE}
SPECIFICATION RestartSpec
CHECK_DEADLOCK FALSE
INVARIANTS EqualSequenceNoChange
