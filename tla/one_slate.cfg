SPECIFICATION Spec
CONSTANTS
  main = main
  exp = exp
  Baseline = Baseline
  Runtime = Runtime
  None = None
  Disabled = Disabled
  Slate = {main}
  Main = main
  Configs <- AnyConfig
  Faults <- AnyFault
  Bases <- EntryBasis
  Aged = 0
  MaxWork = 1
  MaxSeq = 4
INVARIANTS
  TypeOK
  BootDelivers
  BootLeavesRollbackPoint
  UnambiguousRefs
  RunningSlateStays
PROPERTIES
  PruneSparesNewest
  BootSettles
  StagedTriedOnce
