CONSTANTS
  Sizes = {0, 1}
  Needs = {1}
  Wants = {0}
  BufSize = 2
  PipeCap = 2
  MaxTries = 2
  Unwinds = {TRUE}
  Pids <- MCPids
  Stdins = {"none", "core"}
  Confs <- MCNamed
  Faults = {}
SPECIFICATION FairSpec
PROPERTIES
  AlwaysReturns
CHECK_DEADLOCK FALSE
