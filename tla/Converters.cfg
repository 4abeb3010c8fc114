SPECIFICATION MCSpec
INVARIANTS
    IndexingAsTorch
    ArithmeticAsTorch
    NormsAsTorch
    WindowsAsTorch
CHECK_DEADLOCK FALSE
