SPECIFICATION Spec
CONSTANTS
  Devices <- DevicesListed
  Sessions = {"s1", "s2"}
  Room = 2
  MaxUpdates = 2
  Addresses = {"a1", "a2", "a3"}
  Allowed = {"a1", "a2"}
  Window = 3
  Limit = 2
  Tracked = 1
  Horizon = 6
  Editors = {"e1", "e2"}
  MaxCommands = 2
  MaxStarts = 2
  Powers = {2}
  Interval = 2
  MAX_BLE_RETRIES = 2
  Lasts = 5
INVARIANTS ShowsTheStore RateBounded StaleTold EnergyOfTheLog
PROPERTIES NeverBack BusGoesOn EndsClean
CHECK_DEADLOCK FALSE
