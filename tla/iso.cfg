SPECIFICATION MCSpec
CONSTANTS
  Endpoint = {1, 2}
  InEndpoint = {1}
  TD = {1, 2, 3, 4}
  FrameMod = 8
  FirstFrame = 6
  Window = 5
  Offsets = {2}
  MaxFrames = 2
  MaxRequests = 2
  MaxCalls = 3
  IntEndpoint = {1, 2, 3, 4}
  IsoEndpoint = {1, 2}
  Heads = 4
  MaxAlloc = 150
  Desc <- MCDesc
  Size = {1, 2, 3}
  Total = 4
INVARIANTS
  RealLoadsFit
  EveryTDInOnePlace
  SentWithData
  FramesBeforeAnswer
PROPERTIES
  AcceptedIsAnswered
CHECK_DEADLOCK FALSE
