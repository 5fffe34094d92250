SPECIFICATION FairSpec
CONSTANTS
  Handles = {h1, h2}
  Pids = {1, 2}
  Workloads <- McWorkloads
  Files <- McFiles
  Directories <- McDirectories
  Names = {"bin", "work", "sub", "etc", "home", "nowhere", "opt", "locked", "passwd"}
  ParentPath <- McParentPath
  ParentCwd <- McParentCwd
  AtomicPipe = FALSE
  SpawnsFail = TRUE
  Signals = {"fatal", "benign", "unknown"}
  Nobody = Nobody
  NoPath = NoPath
INVARIANTS NoStraySignal StatusTruthful NoInheritedEnds DirectExecUnlessHidden
PROPERTY WaitReturns
