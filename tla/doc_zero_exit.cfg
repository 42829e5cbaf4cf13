CONSTANTS
  Sizes = {1, 3}
  Needs = {1}
  Wants = {0}
  BufSize = 2
  PipeCap = 2
  MaxTries = 2
  Unwinds = {TRUE}
  Pids <- MCPids
  Stdins = {"core"}
  Confs <- MCNamed
  Faults = {"write", "read"}
SPECIFICATION Spec
INVARIANTS
  ZeroMeansSuccess
