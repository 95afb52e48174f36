CONSTANTS
    FILE_BUNDLE_SIZE = 3
    Uses <- OldFileUses
    MaxDrops = 0
SPECIFICATION Spec
CHECK_DEADLOCK FALSE
INVARIANTS WholeFile
