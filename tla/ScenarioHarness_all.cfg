SPECIFICATION Spec
CONSTANTS
  first = first
  second = second
  free = free
  Free = free
  Harnesses <- MCHarnesses
  CasesOf <- MCAllCases
  MaxTrouble = 1
INVARIANTS JournalBeforeWrite LeftoverExplained
PROPERTIES ForeignKept LatchProtocol RunEnds
CHECK_DEADLOCK FALSE
