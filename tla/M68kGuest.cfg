SPECIFICATION GuestSpec
CONSTANTS
    WORD = 4
    LONG = 8
    Edge = {0, 1, 7, 8, 15}
    LongEdge = {0, 1, 15, 16, 127, 128, 129, 254, 255}
INVARIANTS MultiPrecision ConditionsCompare ShiftsRepeat ProductsAndQuotients ConditionsDecide FieldsInMemory OperandsInMemory BlocksMoved FramesUnwound
CHECK_DEADLOCK FALSE
