SPECIFICATION FairSpec
CONSTANTS
  Wrap = 4
  HasPacks = TRUE
  MaxWrites = 2
  MaxMishaps = 1
  MaxQueue = 3
PROPERTY CommandRouted
CHECK_DEADLOCK FALSE
