CONSTANTS
  Letters = {"@", "p", "Q", "e", "E", "x"}
  MaxName = 4
  Sizes = {3, 5, 6, 7, 8, 14}
  Exes <- MCExes
  PidText <- MCPid
  Limits = {0, 10, 11, 100, 101}
  Counters = {9, 10, 100}
SPECIFICATION Spec
INVARIANTS
  TypeOK
  Expands
  SourceKept
  RefusedForSize
