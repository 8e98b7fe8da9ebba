SPECIFICATION Spec
CONSTANTS
  Addresses = {a1}
  MaxReloads = 0
  MaxCommands = 1
INVARIANT CommandTaken
CHECK_DEADLOCK FALSE
