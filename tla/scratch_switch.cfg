SPECIFICATION Spec
CONSTANTS
  main = main
  exp = exp
  t1 = t1
  t2 = t2
  Baseline = Baseline
  Runtime = Runtime
  None = None
  Disabled = Disabled
  Slate = {main, exp}
  Main = main
  Configs <- Defaults
  Faults <- NoSlips
  Session = {t1, t2}
  Asks <- SwitchExp
  MaxCommands = 3
  Aged = 0
  MaxWork = 0
  MaxSeq = 3
SYMMETRY Terminals
CHECK_DEADLOCK FALSE
PROPERTIES
  ScratchRunCopiesSlate
