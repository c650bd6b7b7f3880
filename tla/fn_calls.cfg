SPECIFICATION NumberSpec

CONSTANTS
  Half = 4
  WrapWindow = 2
  FilterDelay = 2
  CallFrames = 2
  MaxFrame = 40

INVARIANTS FrameIsCurrent OneWrapOffAtWorst

CHECK_DEADLOCK FALSE
