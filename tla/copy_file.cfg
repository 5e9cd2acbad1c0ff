CONSTANT FileOperationAttempts = 5
SPECIFICATION Spec
INVARIANTS TypeOK InUseLeavesItWhole
PROPERTIES ImplementsContract
CHECK_DEADLOCK FALSE
