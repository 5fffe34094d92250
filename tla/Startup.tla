------------------------------ MODULE Startup ------------------------------
(***************************************************************************)
(* How a session comes up, or does not (spawn_with_faults in session.rs,   *)
(* StartupGuard in session_worker.rs).  The child already runs when the    *)
(* guard is armed; the reader and writer handles, the first poll, the two  *)
(* threads and the handshake follow.  An early return drops the guard,     *)
(* which kills, joins and reaps; after the guard is defused a failed       *)
(* handshake goes through the session's own teardown.                      *)
(*                                                                         *)
(* The threads are those of SessionWorker and start in the middle of this; *)
(* until then their program counters are "unborn".                         *)
(***************************************************************************)
EXTENDS PtySession

CONSTANT
  FailingStages  (* the stages of a startup that may fail: a subset of Stages *)

Stages == {"reader", "writer", "poll", "worker_thread", "reader_thread", "setup"}

ASSUME StartupAssumption == FailingStages \subseteq Stages

VARIABLE
  spc            (* the stage the spawning thread is in: see StartupPC         *)

startupVars == <<vars, spc>>

StartupPC == Stages \cup {"handshake", "closing", "guard_kill", "guard_ctl", "guard_join",
                          "guard_wait", "failed", "up"}

(* spawn_pty returned and the guard is armed.  writer is FALSE until the     *)
(* writer handle is taken.                                                   *)
StartupInit ==
  /\ ChildInit /\ SharedInit /\ ChannelInit
  /\ produced = <<>> /\ slave_held = FALSE /\ stdin = 0
  /\ reader_pc = "unborn" /\ reader_msg = NoMsg /\ taken = 0
  /\ wpc = "unborn" /\ wret = "exit" /\ budget = 0 /\ cur = 0 /\ wop = NoWrite
  /\ writer = FALSE /\ stream_end = NoEnd /\ final_stream = NoEnd
  /\ exited = NoStatus /\ finalized = FALSE /\ grace_over = FALSE
  /\ fed = <<>> /\ dropped_after_drain = 0 /\ pump = PumpInit
  /\ ops_left = [c \in Clients |-> 0]
  /\ hpc = "open" /\ verdict = "none"
  /\ spc = "reader"

-----------------------------------------------------------------------------
(* Going forward.                                                            *)

try_clone_reader ==
  /\ spc = "reader" /\ spc' = "writer"
  /\ UNCHANGED vars

take_writer ==
  /\ spc = "writer" /\ spc' = "poll"
  /\ writer' = TRUE
  /\ UNCHANGED <<childVars, sharedVars, ptyVars, readerVars, dataVars, ctlVars, callVars,
                 shutdown, controlVars, captureVars, pump, grace_over, ops_left, ownerVars>>

(* The first poll: its status is dropped, so a child that died at once is    *)
(* reaped here and nobody but the SharedChild knows.                         *)
initial_poll ==
  /\ spc = "poll" /\ spc' = "worker_thread"
  /\ \E r \in PollResults \ {PollError} : poll(r)
  /\ UNCHANGED <<sharedVars, ptyVars, readerVars, dataVars, ctlVars, callVars, shutdown,
                 workerVars, grace_over, ops_left, ownerVars>>

(* The worker starts and the guard learns of it.                             *)
set_worker ==
  /\ spc = "worker_thread" /\ spc' = "reader_thread"
  /\ wpc' = "top"
  /\ UNCHANGED <<childVars, sharedVars, ptyVars, readerVars, dataVars, ctlVars, callVars,
                 shutdown, wret, budget, cur, wop, writer, captureVars, pump, grace_over,
                 ops_left, ownerVars>>

(* Both threads run: the session takes the worker and defuses the guard.     *)
defuse ==
  /\ spc = "reader_thread" /\ spc' = "setup"
  /\ reader_pc' = "read"
  /\ UNCHANGED <<childVars, sharedVars, ptyVars, reader_msg, taken, dataVars, ctlVars,
                 callVars, shutdown, workerVars, grace_over, ops_left, ownerVars>>

(* The handshake asks the worker for a snapshot.                             *)
handshake ==
  /\ spc = "setup" /\ spc' = "handshake"
  /\ ctl_queue' = Append(ctl_queue, [op |-> "snapshot", from |-> Owner])
  /\ call' = [call EXCEPT ![Owner] = "await"]
  /\ UNCHANGED <<childVars, sharedVars, ptyVars, readerVars, dataVars, ctl_open, seen,
                 shutdown, workerVars, grace_over, ops_left, ownerVars>>

(* The worker answered, or REPLY_TIMEOUT passed and the session is closed.   *)
handshake_reply ==
  /\ spc = "handshake" /\ call[Owner] # "await"
  /\ IF call[Owner] = "ok"
     THEN spc' = "up" /\ UNCHANGED <<hpc, shutdown>>
     ELSE spc' = "closing" /\ Teardown
  /\ UNCHANGED <<childVars, sharedVars, ptyVars, readerVars, dataVars, ctlVars, callVars,
                 workerVars, grace_over, ops_left, verdict>>

handshake_timeout == CallsExpire /\ reply_timeout(Owner) /\ UNCHANGED spc

(* fail_setup: the session is assembled without a sender and closed.         *)
setup_fails ==
  /\ "setup" \in FailingStages
  /\ spc = "setup" /\ spc' = "closing"
  /\ Teardown
  /\ UNCHANGED <<childVars, sharedVars, ptyVars, readerVars, dataVars, ctlVars, callVars,
                 workerVars, grace_over, ops_left, verdict>>

(* close sends Shutdown when the session has a sender, that is when it got   *)
(* as far as the handshake.  The defused guard still holds a clone of that   *)
(* sender, so the channel stays connected until spawn returns: without a     *)
(* Shutdown op only the flag stops the worker.                               *)
closing_ctl ==
  /\ hpc = "ctl" /\ hpc' = "join_worker"
  /\ ctl_queue' = (IF call[Owner] = "none" \/ wpc = "done" THEN ctl_queue
                   ELSE Append(ctl_queue, [op |-> "shutdown", from |-> Nobody]))
  /\ UNCHANGED <<childVars, sharedVars, ptyVars, readerVars, dataVars, ctl_open, callVars,
                 shutdown, workerVars, grace_over, ops_left, verdict>>

(* The teardown of a session that never came up.                             *)
closing ==
  /\ spc = "closing"
  /\ teardown_kill \/ closing_ctl \/ join_worker \/ join_reader \/ teardown_reap
  /\ spc' = (IF hpc' = "closed" THEN "failed" ELSE "closing")

-----------------------------------------------------------------------------
(* Going back: the stage fails, the locals are dropped (a writer not yet     *)
(* moved into the worker injects its EOF, the reader's sender disconnects    *)
(* the channel), and the guard's Drop raises the flag.                       *)
early_return ==
  /\ spc \in Stages \ {"setup"}
  /\ spc \in FailingStages
  /\ spc' = "guard_kill"
  /\ shutdown' = TRUE
  /\ reader_pc' = "done"
  /\ IF wpc = "unborn" /\ writer
     THEN WriteStdin /\ writer' = FALSE
     ELSE UNCHANGED <<stdin, writer>>
  /\ UNCHANGED <<childVars, sharedVars, produced, slave_held, reader_msg, taken, dataVars,
                 ctlVars, callVars, controlVars, captureVars, pump, grace_over, ops_left,
                 ownerVars>>

(* Mutant: the guard joins a child it did not kill.                          *)
GuardSparesChild ==
  /\ spc = "guard_kill" /\ spc' = "guard_ctl"
  /\ UNCHANGED vars

guard_kill ==
  /\ spc = "guard_kill" /\ spc' = "guard_ctl"
  /\ \E ok \in BOOLEAN : kill_locked(ok)
  /\ UNCHANGED <<sharedVars, ptyVars, readerVars, dataVars, ctlVars, callVars, shutdown,
                 workerVars, grace_over, ops_left, ownerVars>>

(* The guard's sender exists once the worker does.                           *)
guard_ctl ==
  /\ spc = "guard_ctl" /\ spc' = "guard_join"
  /\ ctl_open' = FALSE
  /\ ctl_queue' = (IF wpc \in {"unborn", "done"} THEN ctl_queue
                   ELSE Append(ctl_queue, [op |-> "shutdown", from |-> Nobody]))
  /\ UNCHANGED <<childVars, sharedVars, ptyVars, readerVars, dataVars, callVars, shutdown,
                 workerVars, grace_over, ops_left, ownerVars>>

(* Mutant: the guard forgets the worker it was told of.                      *)
GuardDetachesWorker ==
  /\ spc = "guard_join" /\ spc' = "guard_wait"
  /\ UNCHANGED vars

guard_join ==
  /\ spc = "guard_join" /\ spc' = "guard_wait"
  /\ wpc \in {"unborn", "done"}
  /\ UNCHANGED vars

guard_wait ==
  /\ spc = "guard_wait" /\ spc' = "failed"
  /\ \E ok \in BOOLEAN : wait_locked(ok)
  /\ UNCHANGED <<sharedVars, ptyVars, readerVars, dataVars, ctlVars, callVars, shutdown,
                 workerVars, grace_over, ops_left, ownerVars>>

-----------------------------------------------------------------------------
SpawnNext ==
  \/ try_clone_reader \/ take_writer \/ initial_poll \/ set_worker \/ defuse \/ handshake
  \/ handshake_reply \/ setup_fails \/ closing \/ early_return
  \/ guard_kill \/ guard_ctl \/ guard_join \/ guard_wait

StartupNext ==
  \/ SpawnNext
  \/ handshake_timeout
  \/ (PumpNext \/ ChildNext) /\ UNCHANGED spc
  \/ spc \in {"failed", "up"} /\ UNCHANGED startupVars

(* As in PtySession: the threads run, a clock passes, a killed child dies;   *)
(* the spawning thread runs, and REPLY_TIMEOUT is a clock too.               *)
StartupFairness ==
  /\ WF_startupVars(SpawnNext)
  /\ WF_startupVars(handshake_timeout)
  /\ WF_startupVars(WorkerNext /\ PumpFrame /\ UNCHANGED spc)
  /\ WF_startupVars((read \/ send \/ count) /\ PumpFrame /\ UNCHANGED spc)
  /\ WF_startupVars(killed /\ child_ends /\ UNCHANGED spc)

StartupSafe == StartupInit /\ [][StartupNext]_startupVars
StartupSpec == StartupSafe /\ StartupFairness

-----------------------------------------------------------------------------
(* "No spawn failure can leak a child or a thread": when spawn has returned  *)
(* an error no thread of the session is left, and its child is reaped unless *)
(* the wait itself failed.                                                   *)
FailedLeavesNothing ==
  spc = "failed" =>
    /\ wpc \in {"unborn", "done"} /\ reader_pc \in {"unborn", "done"}
    /\ reaped \/ "wait" \in Faults

(* spawn returns, whatever stage fails and whatever the child does with its  *)
(* terminal: a worker stuck writing a reply to a child that never reads is   *)
(* given up after REPLY_TIMEOUT and freed by the kill.  The one exception is *)
(* TeardownUnlessHeld's: the session is closed after its threads started,    *)
(* the child is dead, and a descendant never lets go of the slave, where the *)
(* reader, or a worker in a write, is blocked for ever.  The guard's         *)
(* rollback has no such exception: it never has a reader to join.            *)
SpawnReturnsUnlessHeld ==
  <>(spc \in {"failed", "up"} \/ [](spc = "closing" /\ slave_held /\ proc # "running"))
=============================================================================
