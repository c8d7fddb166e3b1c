CONSTANTS
  Programs <- MCPrograms
  Chains <- MCChains
  ULIM = 8
  MinGap = 2
SPECIFICATION Spec
INVARIANT BacktraceRight
PROPERTY BacktraceEnds
