SPECIFICATION Spec
CONSTANTS
  Client = {a, b}
  None = None
  RingSlots = 8
  SeqMod = 8
  MaxBuffers = 1
  MaxSubmits = 9
  MaxFaults = 2
SYMMETRY Symmetry
CHECK_DEADLOCK FALSE
INVARIANTS
  WholeSubmissions
  FenceMeansExecuted
  WritesOnlyLive
  Accounted
  NothingStuck
