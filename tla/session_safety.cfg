SPECIFICATION Spec
CONSTANTS
  Clients = {c1}
  Owner = owner
  Nobody = nobody
  Faults = {"kill", "poll", "wait", "read", "reader_lost"}
  Status = {"code"}
  NoStatus = NoStatus
  PollError = PollError
  NoOutcome = NoOutcome
  UnknownExit = "unknown"
  NoEnd = NoEnd
  NoObservation = NoObservation
  Batch <- QueryBatch
  DataQueueBatches = 1
  FeedBudget = 2
  UsizeMod = 8
  StdinCap = 1
  WriteChunks = 2
  EventCap = 1
  OutputCap = 2
  RecordOutput = FALSE
  ClientOps = {}
  ClientWaits = {}
  Signals = {TRUE}
  OwnerCalls = {"close","finish"}
  MaxOps = 1
  MaxBatches = 2
  Descendants = TRUE
  CallsExpire = FALSE
INVARIANT ClosedLeavesNothing
INVARIANT NoStrayKill
INVARIANT OutcomeMatchesCapture
INVARIANT CleanEofComplete
INVARIANT NoBatchLost
INVARIANT QueueDepthLags
INVARIANT AbortIsTruthful
INVARIANT FinishOkIsNatural
PROPERTY ImplementsCapture
