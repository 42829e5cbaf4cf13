CONSTANTS
  MaxFd = 12
  Unwinds = {TRUE, FALSE}
  CorePaths = {"stdin", "path"}
  Outputs = {"null", "file", "filter"}
  Blocks = 2
  Items = 2
  Faults = {"core", "infopipe", "proc", "filterpipe"}
SPECIFICATION Spec
INVARIANTS
  OwnDescriptors
  StraysHarmless
