SPECIFICATION Spec
CONSTANT MaxEdits = 1
INVARIANTS TypeOK ReceiptMatches RollbackRestores
PROPERTIES UntouchedRestored ForeignConfirmed UserKeepsSettings
CHECK_DEADLOCK FALSE
