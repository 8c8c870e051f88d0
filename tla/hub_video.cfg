CONSTANTS
  Viewers = {v1, v2, v3}
  Operators = {o1}
  Server = server
  Procs = {p1, p2, p3, p4}
  hw = hw
  cpu = cpu
  Configs <- MCConfigs
  Default = hw
  Fallback <- VideoFallback
  HasRestart = FALSE
  None = None
SYMMETRY Symmetry
SPECIFICATION Spec
INVARIANTS Accounting NoOrphanCapture
PROPERTIES ExplicitSettingsStay KeepsSharedCapture
