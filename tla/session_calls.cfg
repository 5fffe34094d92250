SPECIFICATION CallsSpec
CONSTANTS
  Clients = {c1, c2}
  Owner = owner
  Nobody = nobody
  Faults = {"write", "resize"}
  Status = {"code"}
  NoStatus = NoStatus
  PollError = PollError
  NoOutcome = NoOutcome
  UnknownExit = "unknown"
  NoEnd = NoEnd
  NoObservation = NoObservation
  Batch <- CallBatches
  DataQueueBatches = 2
  FeedBudget = 2
  UsizeMod = 8
  StdinCap = 1
  WriteChunks = 2
  EventCap = 2
  OutputCap = 3
  RecordOutput = TRUE
  ClientOps = {"observe", "snapshot", "events", "close_input", "write", "set_colors", "resize"}
  ClientWaits = {"outcome", "revision", "frames"}
  Signals = {}
  OwnerCalls = {"finish", "close"}
  MaxOps = 2
  MaxBatches = 3
  Descendants = FALSE
  CallsExpire = TRUE
SYMMETRY ClientSymmetry
INVARIANT NoLostWakeup
INVARIANT RevisionNamesState
INVARIANT OutputLogIsPrefix
INVARIANT EventsAccounted
INVARIANT FramesCounted
INVARIANT RepliesAccounted
INVARIANT AnswersOwnCall
