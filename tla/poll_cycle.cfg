SPECIFICATION FairSpec
CONSTANTS
  Wrap = 4
  HasPacks = TRUE
  MaxWrites = 2
  MaxMishaps = 2
  MaxQueue = 3
INVARIANTS TypeOK SlowBlocksRead
PROPERTIES StoreNeverGoesBack SlowBlocksReadAgain
CHECK_DEADLOCK FALSE
