CONSTANTS
  Runs = {r1, r2, r3}
  Confs <- MCAllConfs
  Old = 1
  DataLen = 2
  MaxCounter = 4
  Faults = {"open", "mkdir", "kill"}
SPECIFICATION FairSpec
INVARIANTS
  TypeOK
  OneWriter
  Gapless
  GivesUpHonestly
PROPERTIES
  DataKept
  Opens
  ImplementsNumbering
