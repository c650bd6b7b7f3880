SPECIFICATION FairSpec

CONSTANTS
  TD = {1, 2, 3, 4, 5}
  Endpoint = {e1, e2}
  Transfer = {x1, x2}
  Null = Null
  Pool <- PoolInOrder
  MaxChunks = 2
  Ops = {"abort", "clear", "delete"}
  MaxOps = 1
  TransferErrors = FALSE
  PromptHandler = TRUE
  ResubmitAfter = {}

 
PROPERTIES ImplementsPipe

CHECK_DEADLOCK FALSE
