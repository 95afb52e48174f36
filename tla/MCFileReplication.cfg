CONSTANTS
    FILE_BUNDLE_SIZE = 3
    Uses <- TransferUses
    MaxDrops = 2
SPECIFICATION FairSpec
CHECK_DEADLOCK FALSE
INVARIANTS TypeOK FlowControl ClosedFileIsWhole
PROPERTIES TransferCompletes
