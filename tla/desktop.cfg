CONSTANTS
  Sessions = {s1, s2, s3}
  MaxQueue = 3
  None = None
  Wheels <- MCWheels
  MaxPending = 2
  MaxAge = 1
  IdleAfter = 2
  MaxEvents = 4
  Uplinks = {s1, s2}
  MicSockets = {s2}
  Injectors = {p1, p2, p3}
  MaxStream = 2
  MaxChunk = 2
  w1 = w1
  w2 = w2
  Switchers = {w1, w2}
  Wanted <- MCWanted
  Real = {"real", "usb"}
  Players = {a1, a2}
  Callers = {c1, c2, c3}
  Tries = 3
  Lockout = 2
  MaxTime = 5
  b1 = b1
  b2 = b2
  Copies = {b1, b2}
  Copy <- MCCopy
  Pastes = {t1}
  AppCopies = 1
  Streams <- MCStreams
  Lace = 3
SPECIFICATION DesktopSpec
INVARIANTS DesktopTypeOK
  OneWriter RelayIsMinded WheelIsAwake StepsFollowWheel MicStreamsApart MicIsMinded SoundIsHeard
  CutsDoNotMatter SetsAreWhole GuessesAreSlow LastCopyIsOffered
PROPERTIES SilentSessionEnds PlaceholderReturns
CHECK_DEADLOCK FALSE
