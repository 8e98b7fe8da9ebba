SPECIFICATION FairSpec
CONSTANTS
  pack1 = pack1
  pack2 = pack2
  home = home
  write = write
  Commands = {pack1, home}
  Tlv = {home}
  Callers = {poll, bus}
  poll = poll
  bus = bus
  Owner = poll
  Expect <- MCExpect
  ExceptionUnits = 1
  Faults <- PromptFaults
  MaxRetries = 2
  MaxCalls = 3
  MaxMishaps = 2
INVARIANTS OwnReply
PROPERTY CallsEnd
CHECK_DEADLOCK FALSE
