CONSTANTS
    FILE_BUNDLE_SIZE = 3
    Uses <- CodeUses
    MaxDrops = 1
SPECIFICATION Spec
CHECK_DEADLOCK FALSE
INVARIANTS WholeFile
