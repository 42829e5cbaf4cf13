CONSTANTS
  Sizes = {0, 1, 3, 5}
  Needs = {1, 2, 4}
  Wants = {0, 2, 5}
  BufSize = 2
  PipeCap = 1
  MaxTries = 2
  Unwinds = {TRUE}
  Pids <- MCPids
  Stdins = {"core"}
  Confs <- MCConfs
  Faults = {"pipe", "unwind", "proc", "output", "info"}
SPECIFICATION FairSpec
INVARIANTS
  TypeOK
  UnwinderSeesPrefix
  UnwinderServed
  CoreCopied
  DumpOwnsOutputs
  PidSettled
PROPERTIES
  Returns
  ImplementsTee
