SPECIFICATION Spec
CONSTANTS
  main = main
  exp = exp
  Baseline = Baseline
  Runtime = Runtime
  None = None
  Disabled = Disabled
  Slate = {main, exp}
  Main = main
  Configs <- RetainOne
  Faults <- StoreFaults
  Bases <- ForkBasis
  Aged = 0
  MaxWork = 1
  MaxSeq = 3
INVARIANTS
  BootDelivers
PROPERTIES
  StorePromises
  BootSparesStagedSource
