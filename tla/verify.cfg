SPECIFICATION Spec
CONSTANTS
  Cap = 4
  MaxFailures = 2
INVARIANTS TypeOK Restored RangeFound Consented
CHECK_DEADLOCK FALSE
