CONSTANTS
    FILE_BUNDLE_SIZE = 3
    Uses <- OldFileUses
    MaxDrops = 0
SPECIFICATION FairSpec
CHECK_DEADLOCK FALSE
PROPERTIES AnyTransferCompletes
