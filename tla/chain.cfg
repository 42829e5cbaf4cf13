CONSTANTS
  Kinds = {"copy", "head", "bad", "missing"}
  MaxFilters = 3
  Lens = {0, 3}
  HeadLen = 1
  PipeCap = 1
  Faults = {"pipe", "fork", "write"}
SPECIFICATION FairSpec
INVARIANTS
  TypeOK
  FilePrefix
  LossReported
  AllReaped
PROPERTIES
  Closes
