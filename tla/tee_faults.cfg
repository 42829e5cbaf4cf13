CONSTANTS
  Sizes = {0, 1, 3}
  Needs = {1, 2}
  Wants = {1, 3}
  BufSize = 2
  PipeCap = 1
  MaxTries = 2
  Unwinds = {TRUE, FALSE}
  Pids <- MCPids
  Stdins = {"core", "none"}
  Confs <- MCConfs
  Faults = {"pipe", "fcntl", "thread", "unwind", "proc", "output", "write", "info", "read"}
SPECIFICATION Spec
INVARIANTS
  IndInv
  CoreInOrder
CHECK_DEADLOCK FALSE
