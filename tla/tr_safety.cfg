SPECIFICATION Spec
CONSTANTS
  TD = {1, 2, 3, 4, 5}
  Endpoint = {e1, e2}
  Transfer = {x1, x2}
  Null = Null
  Pool <- PoolInOrder
  MaxChunks = 2
  Ops = {"abort", "clear", "delete"}
  MaxOps = 1
  TransferErrors = TRUE
  PromptHandler = FALSE
  ResubmitAfter = {"clear", "delete"}
SYMMETRY Symmetry
INVARIANTS
  EveryTDInOnePlace
  ControllerOwnsItsTD
  NotServedWhileRemoved

CHECK_DEADLOCK FALSE
