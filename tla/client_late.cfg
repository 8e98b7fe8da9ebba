SPECIFICATION Spec
CONSTANTS
  pack1 = pack1
  pack2 = pack2
  home = home
  write = write
  Commands = {pack1, pack2}
  Tlv = {}
  Callers = {poll, bus}
  poll = poll
  bus = bus
  Owner = poll
  Expect <- MCExpect
  ExceptionUnits = 1
  Faults <- LateOnly
  MaxRetries = 2
  MaxCalls = 3
  MaxMishaps = 0
INVARIANTS OwnCommand

CHECK_DEADLOCK FALSE
