SPECIFICATION Spec
CONSTANTS
  main = main
  exp = exp
  Baseline = Baseline
  Runtime = Runtime
  None = None
  Disabled = Disabled
  Slate = {main}
  Main = main
  Configs <- RetainTwo
  Faults <- NoFaults
  Bases <- EntryBasis
  Aged = 7
  MaxWork = 1
  MaxSeq = 11
INVARIANTS
  BootLeavesRollbackPoint
