CONSTANT
  InCap = 1
SPECIFICATION RtcFairSpec
PROPERTY SessionAlwaysEnds
CHECK_DEADLOCK FALSE
