CONSTANTS
  Viewers = {v1, v2}
  Operators = {o1}
  Server = server
  Procs = {p1, p2, p3}
  hw = hw
  cpu = cpu
  Configs <- MCConfigs
  Default = hw
  Fallback <- VideoFallback
  HasRestart = FALSE
  None = None
SPECIFICATION Spec
INVARIANTS OneCapture
