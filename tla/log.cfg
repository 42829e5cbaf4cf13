CONSTANTS
  MaxLogs = 2
  MaxItems = 1
  BufCap = 2
  WithBit = {"crit", "err"}
  Unreadable = TRUE
  Faults = {"thread", "info", "core", "exec"}
SPECIFICATION Spec
INVARIANTS
  TypeOK
  BitsHonest
  UsedWhileOpen
  LinesUnbroken
  MessagesKept
PROPERTIES
  BitsStay
