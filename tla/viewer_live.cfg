CONSTANTS
  Vias = {"socket", "stream", "channel"}
  Restarts = 0
  Gop = 2
  Ring = 1
  Channel = 1
  MaxQueued = 2
  Wire = 1
  SeqSpace = 4
  Join = 0
  MaxFrames = 3
  None = None
  here = here
  coming = coming
  Browsers = {here, coming}
  MaxConns = 3
  x264 = x264
  nvenc = nvenc
  qsv = qsv
  kbps = kbps
  Values <- MCValues
  Broken = {qsv}
  Cpu = cpu
  CpuShown = x264
  Stored <- MCStored
  Combined = TRUE
  MaxEvents = 1
  MaxInbox = 1
  Unset = Unset
SPECIFICATION ViewerSpec
PROPERTIES QueueDrains WriterEnds Settles
CHECK_DEADLOCK FALSE
