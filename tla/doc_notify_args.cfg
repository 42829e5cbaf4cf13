CONSTANTS
  MaxWords = 3
  Slots = 6
SPECIFICATION Spec
INVARIANTS
  NamesReplaced
