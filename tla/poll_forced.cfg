SPECIFICATION Spec
CONSTANTS
  Wrap = 4
  HasPacks = TRUE
  MaxWrites = 2
  MaxMishaps = 0
  MaxQueue = 3
PROPERTY NextPollFull
CHECK_DEADLOCK FALSE
