SPECIFICATION FairSpec
CONSTANTS
  Pipe = {in, out}
  InPipe = {in}
  Transfer = {1, 2}
  QTD = {1, 2, 3, 4}
  Pool <- PoolInOrder
  MaxChunks = 2
  MaxOps = 3
  MaxTimeouts = 1
  ResubmitIn = {"scan", "abort", "delete"}
  None = None
INVARIANTS EveryQTDInOnePlace ControllerOwnsItsQTD
PROPERTIES ImplementsPipe AnsweredUnlessLost AbortAnswersAll
CHECK_DEADLOCK FALSE
