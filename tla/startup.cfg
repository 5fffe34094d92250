SPECIFICATION StartupSpec
CONSTANTS
  Clients = {c1}
  Owner = owner
  Nobody = nobody
  Faults = {"poll", "read", "write"}
  Status = {"code"}
  NoStatus = NoStatus
  PollError = PollError
  NoOutcome = NoOutcome
  UnknownExit = "unknown"
  NoEnd = NoEnd
  NoObservation = NoObservation
  Batch <- QueryBatch
  DataQueueBatches = 1
  FeedBudget = 2
  UsizeMod = 8
  StdinCap = 1
  WriteChunks = 2
  EventCap = 1
  OutputCap = 2
  RecordOutput = FALSE
  ClientOps = {}
  ClientWaits = {}
  Signals = {}
  OwnerCalls = {}
  MaxOps = 0
  MaxBatches = 2
  Descendants = TRUE
  CallsExpire = TRUE
  FailingStages = {"reader", "writer", "poll", "worker_thread", "reader_thread", "setup"}
INVARIANT NoStrayKill
INVARIANT FailedLeavesNothing
PROPERTY SpawnReturnsUnlessHeld
