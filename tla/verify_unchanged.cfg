SPECIFICATION Spec
CONSTANTS
  Cap = 3
  MaxFailures = 1
INVARIANT Unchanged
CHECK_DEADLOCK FALSE
