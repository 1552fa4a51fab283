SPECIFICATION Spec
CONSTANTS
  first = first
  second = second
  free = free
  Free = free
  Harnesses <- MCHarnesses
  CasesOf <- MCEviction
  MaxTrouble = 1
INVARIANT KubeletRestored
CHECK_DEADLOCK FALSE
