SPECIFICATION Spec
CONSTANTS
  pack1 = pack1
  pack2 = pack2
  home = home
  write = write
  Commands = {write, pack1, home}
  Tlv = {pack1, home}
  Callers = {poll, bus}
  poll = poll
  bus = bus
  Owner = poll
  Expect <- MCExpect
  ExceptionUnits = 1
  Faults <- AllFaults
  MaxRetries = 2
  MaxCalls = 2
  MaxMishaps = 2
INVARIANTS TypeOK OneInFlight RetriesNotInterleaved AttemptsBounded PlainReadsFit
PROPERTY ChannelSpec
CHECK_DEADLOCK FALSE
