CONSTANTS
  Vias = {"socket", "stream", "channel"}
  Restarts = 1
  Gop = 2
  Ring = 1
  Channel = 1
  MaxQueued = 2
  Wire = 2
  SeqSpace = 4
  Join = 2
  MaxFrames = 3
  None = None
SPECIFICATION Spec
INVARIANTS NoGap FreshestFirst
PROPERTIES DecodesChain
