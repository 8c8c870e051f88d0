CONSTANTS
  Browsers = {b1}
  MaxConns = 3
  x264 = x264
  nvenc = nvenc
  qsv = qsv
  kbps = kbps
  Values <- OfTwo
  Broken = {}
  Cpu = cpu
  CpuShown = x264
  Stored <- MCStored
  Combined = FALSE
  MaxEvents = 1
  MaxInbox = 1
  Unset = Unset
SPECIFICATION SyncSpec
INVARIANT LastPickRuns
CHECK_DEADLOCK FALSE
