SPECIFICATION ArithmeticSpec
INVARIANTS BinaryArithmetic DecimalArithmetic DecimalFlags
CHECK_DEADLOCK FALSE
