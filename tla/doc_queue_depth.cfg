SPECIFICATION Spec
CONSTANTS
  Clients = {c1}
  Owner = owner
  Nobody = nobody
  Faults = {}
  Status = {"code"}
  NoStatus = NoStatus
  PollError = PollError
  NoOutcome = NoOutcome
  UnknownExit = "unknown"
  NoEnd = NoEnd
  NoObservation = NoObservation
  Batch <- PlainBatch
  DataQueueBatches = 1
  FeedBudget = 2
  UsizeMod = 8
  StdinCap = 1
  WriteChunks = 2
  EventCap = 1
  OutputCap = 2
  RecordOutput = FALSE
  ClientOps = {"observe"}
  ClientWaits = {}
  Signals = {}
  OwnerCalls = {"close"}
  MaxOps = 1
  MaxBatches = 1
  Descendants = FALSE
  CallsExpire = FALSE
INVARIANT QueuedBatchesBounded
