\* Calls of up to two bytes each way.
CONSTANT MaxLen = 2
SPECIFICATION Spec
INVARIANT TransferMeansAccepted
CHECK_DEADLOCK FALSE
