SPECIFICATION Spec
CONSTANTS
  Addresses = {a1}
  MaxReloads = 2
  MaxRequests = 1
  Devices = {d1, d2}
  Discovery = TRUE
  MaxMessages = 3
  MaxConnections = 3
  Threshold = 2
  Grace = 8
  Readings = {1, 2, 3}
  Retry = 5
  MaxRestarts = 1
INVARIANTS ManagerTyped BridgeTyped WatchTyped HandlersOwned OneTaker PublishedInOrder LossBounded
PROPERTIES GraceGiven Released ShutdownEnds EachHandled RecoveryIgnored
CHECK_DEADLOCK FALSE
