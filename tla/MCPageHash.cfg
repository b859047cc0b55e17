SPECIFICATION HSpec
CONSTANTS
    Byte = {0, 1, 127, 128, 255}
    pageSize = 5
CHECK_DEADLOCK FALSE
INVARIANT OneByteTells
