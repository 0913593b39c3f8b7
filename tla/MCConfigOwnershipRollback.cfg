\* A failed fresh installation against its own report.
SPECIFICATION Spec
CONSTANT MaxEdits = 1
PROPERTY InstallRolledBack
CHECK_DEADLOCK FALSE
