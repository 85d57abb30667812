SPECIFICATION Spec
CONSTANTS
  main = main
  exp = exp
  Baseline = Baseline
  Runtime = Runtime
  None = None
  Disabled = Disabled
  Slate = {main, exp}
  Main = main
  Configs <- RetainOne
  Faults <- NoFaults
  Bases <- EntryBasis
  Aged = 0
  MaxWork = 1
  MaxSeq = 4
PROPERTIES
  NewSlateStartsClean
