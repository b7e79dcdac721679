SPECIFICATION GcdSpec
CONSTANTS
    W = 4
    Operands <- MCOperands
    Thresholds <- MCThresholds
INVARIANT DivRemMatchesBigint
CHECK_DEADLOCK FALSE
