CONSTANTS
  Viewers = {v1, v2}
  Operators = {o1}
  Server = server
  Procs = {p1, p2, p3}
  hw = hw
  cpu = cpu
  Configs = {hw}
  Default = hw
  Fallback <- AudioFallback
  HasRestart = TRUE
  None = None
SPECIFICATION FairSpec
PROPERTIES AcquireEnds RemovedCaptureStops
