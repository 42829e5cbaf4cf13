CONSTANTS
  MaxLogs = 1
  MaxItems = 1
  BufCap = 2
  WithBit = {"crit", "err"}
  Unreadable = TRUE
  Faults = {}
SPECIFICATION Spec
INVARIANTS
  EveryBit
