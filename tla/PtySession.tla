----------------------------- MODULE PtySession -----------------------------
(***************************************************************************)
(* A live PTY session (session.rs): the handle and the threads that use    *)
(* it, composed with the pump threads of SessionWorker, the SharedChild    *)
(* and the Shared rendezvous.                                              *)
(*                                                                         *)
(* Clients call the &self methods concurrently.  The owner calls finish,   *)
(* close or drops the session; those take &mut self or self, so they start *)
(* only when no client is inside a call.  After teardown every method      *)
(* returns Closed without touching the session, so no client step follows. *)
(***************************************************************************)
EXTENDS SessionWorker

CONSTANTS
  ClientOps,     (* the control ops clients issue: a subset of ControlOps     *)
  ClientWaits,   (* the condvar waits clients issue                           *)
  Signals,       (* for each signal clients send: is it fatal                 *)
  OwnerCalls,    (* how the owner ends the session: "finish", "close" (or Drop) *)
  MaxOps,        (* bound: calls per client                                   *)
  MaxBatches,    (* bound: batches the child and its descendants write        *)
  Descendants,   (* may the child leave a descendant holding the slave        *)
  CallsExpire    (* may REPLY_TIMEOUT and wait deadlines pass                 *)

ControlOps == {"observe", "snapshot", "events", "resize", "set_colors", "close_input", "write"}
Callers    == Clients \cup {Owner}

ASSUME SessionAssumption ==
  /\ ClientOps \subseteq ControlOps
  /\ ClientWaits \subseteq {"outcome", "revision", "frames"}
  /\ Signals \subseteq BOOLEAN
  /\ OwnerCalls \subseteq {"finish", "close"}
  /\ MaxOps \in Nat
  /\ MaxBatches \in Nat
  /\ Descendants \in BOOLEAN
  /\ CallsExpire \in BOOLEAN

VARIABLES
  ops_left,   (* per client: calls it may still make                          *)
  hpc,        (* where the owner is: see OwnerPC                               *)
  verdict     (* what finish will return: "none" until it decides              *)

ownerVars == <<hpc, verdict>>
vars == <<childVars, sharedVars, ptyVars, readerVars, dataVars, ctlVars, callVars, shutdown,
          workerVars, grace_over, ops_left, ownerVars>>

OwnerPC == {"open", "finish_input", "finish_wait", "kill", "ctl", "join_worker",
            "join_reader", "reap", "closed"}

Init ==
  /\ ChildInit /\ SharedInit /\ WorkerInit
  /\ ops_left = [c \in Clients |-> MaxOps]
  /\ hpc = "open"
  /\ verdict = "none"

-----------------------------------------------------------------------------
(* The clients.                                                              *)

(* A client is between calls.                                                *)
Idle(c) == call[c] \notin {"await", "signal"} /\ waiter[c] = NotWaiting

Begins(c) ==
  /\ hpc = "open"
  /\ Idle(c) /\ ops_left[c] > 0
  /\ ops_left' = [ops_left EXCEPT ![c] = @ - 1]

(* PtySession::send, then recv_timeout on the reply channel.                 *)
send_op(c, op) ==
  /\ Begins(c)
  /\ ctl_queue' = Append(ctl_queue, [op |-> op, from |-> c])
  /\ call' = [call EXCEPT ![c] = "await"]
  /\ UNCHANGED <<childVars, sharedVars, ptyVars, readerVars, dataVars, ctl_open, seen,
                 shutdown, workerVars, grace_over, ownerVars>>

(* Mutant: the op an expired call leaves behind still answers its caller.    *)
OrphanAnswers(c) ==
  /\ call' = [call EXCEPT ![c] = "timeout"]
  /\ UNCHANGED <<ctl_queue, wop>>

(* A caller that gives up drops its receiver; its op stays queued or keeps   *)
(* running and takes effect later all the same.                              *)
Orphan(c) ==
  /\ ctl_queue' = [i \in 1..Len(ctl_queue) |->
                     IF ctl_queue[i].from = c THEN [ctl_queue[i] EXCEPT !.from = Nobody]
                     ELSE ctl_queue[i]]
  /\ wop' = (IF wop.from = c THEN [wop EXCEPT !.from = Nobody] ELSE wop)
  /\ call' = [call EXCEPT ![c] = "timeout"]

(* recv_reply, recv_value: REPLY_TIMEOUT passes.                             *)
reply_timeout(c) ==
  /\ CallsExpire
  /\ call[c] = "await"
  /\ Orphan(c)
  /\ UNCHANGED <<childVars, sharedVars, ptyVars, readerVars, dataVars, ctl_open, seen,
                 shutdown, wpc, wret, budget, cur, writer, captureVars, pump, grace_over,
                 ops_left, ownerVars>>

(* PtySession::signal reads the outcome first; the lock is taken later.      *)
signal_check(c) ==
  /\ Signals # {}
  /\ Begins(c)
  /\ call' = [call EXCEPT ![c] = IF outcome = NoOutcome THEN "signal" ELSE "exited"]
  /\ UNCHANGED <<childVars, sharedVars, ptyVars, readerVars, dataVars, ctlVars, seen,
                 shutdown, workerVars, grace_over, ownerVars>>

signal_send(c) ==
  /\ call[c] = "signal"
  /\ \E fatal \in Signals, ok \in BOOLEAN :
       /\ signal_locked(fatal, ok)
       /\ call' = [call EXCEPT ![c] = IF ok THEN "ok" ELSE "exited"]
  /\ UNCHANGED <<sharedVars, ptyVars, readerVars, dataVars, ctlVars, seen, shutdown,
                 workerVars, grace_over, ops_left, ownerVars>>

(* wait_outcome, wait_revision (for the next revision) and wait_frame.       *)
wait_on(c, on) ==
  /\ Begins(c)
  /\ wait_begin(c, on, [outcome |-> 0, revision |-> revision + 1, frames |-> frames][on])
  /\ UNCHANGED <<childVars, ptyVars, readerVars, dataVars, ctlVars, callVars, shutdown,
                 workerVars, grace_over, ownerVars>>

wait_wakes(c) ==
  /\ wait_recheck(c) \/ (CallsExpire /\ wait_expire(c))
  /\ UNCHANGED <<childVars, ptyVars, readerVars, dataVars, ctlVars, callVars, shutdown,
                 workerVars, grace_over, ops_left, ownerVars>>

ClientNext(c) ==
  \/ \E op \in ClientOps : send_op(c, op)
  \/ reply_timeout(c)
  \/ signal_check(c)
  \/ signal_send(c)
  \/ \E on \in ClientWaits : wait_on(c, on)
  \/ wait_wakes(c)

-----------------------------------------------------------------------------
(* The owner.                                                                *)

NoClientInside == \A c \in Clients : Idle(c)

(* finish: ask for EOF on stdin and wait for the reply.                      *)
finish ==
  /\ "finish" \in OwnerCalls
  /\ hpc = "open" /\ NoClientInside
  /\ hpc' = "finish_input"
  /\ ctl_queue' = Append(ctl_queue, [op |-> "close_input", from |-> Owner])
  /\ call' = [call EXCEPT ![Owner] = "await"]
  /\ UNCHANGED <<childVars, sharedVars, ptyVars, readerVars, dataVars, ctl_open, seen,
                 shutdown, workerVars, grace_over, ops_left, verdict>>

(* teardown's first statement: the flag, before anything else.               *)
Teardown ==
  /\ hpc' = "kill"
  /\ shutdown' = TRUE

(* finish gets close_input's answer: on success, or when the child is gone,  *)
(* it goes on to wait; any other error returns, and Drop tears down.         *)
finish_reply ==
  /\ hpc = "finish_input"
  /\ call[Owner] # "await"
  /\ IF call[Owner] \in {"ok", "exited"}
     THEN hpc' = "finish_wait" /\ UNCHANGED <<verdict, shutdown>>
     ELSE verdict' = "error" /\ Teardown
  /\ UNCHANGED <<childVars, sharedVars, ptyVars, readerVars, dataVars, ctlVars, callVars,
                 workerVars, grace_over, ops_left>>

(* Mutant: finish takes the end of its wait for the child's exit.            *)
FinishWaitsBlindly ==
  /\ hpc = "finish_wait"
  /\ verdict' = "ok"
  /\ Teardown
  /\ UNCHANGED <<childVars, sharedVars, ptyVars, readerVars, dataVars, ctlVars, callVars,
                 workerVars, grace_over, ops_left>>

(* wait_exit: the outcome is declared, or finish's deadline passes.          *)
finish_wait ==
  /\ hpc = "finish_wait"
  /\ \/ outcome # NoOutcome /\ verdict' = "ok"
     \/ outcome = NoOutcome /\ verdict' = "timeout"
  /\ Teardown
  /\ UNCHANGED <<childVars, sharedVars, ptyVars, readerVars, dataVars, ctlVars, callVars,
                 workerVars, grace_over, ops_left>>

(* close, or Drop of a session nobody finished.                              *)
close ==
  /\ "close" \in OwnerCalls
  /\ hpc = "open" /\ NoClientInside
  /\ Teardown
  /\ UNCHANGED <<childVars, sharedVars, ptyVars, readerVars, dataVars, ctlVars, callVars,
                 workerVars, grace_over, ops_left, verdict>>

(* Mutant: teardown joins a child it never killed.                           *)
TeardownWithoutKill ==
  /\ hpc = "kill"
  /\ hpc' = "ctl"
  /\ UNCHANGED <<childVars, sharedVars, ptyVars, readerVars, dataVars, ctlVars, callVars,
                 shutdown, workerVars, grace_over, ops_left, verdict>>

(* Kill through the shared handle: unblocks reads and writes of the PTY.     *)
teardown_kill ==
  /\ hpc = "kill"
  /\ hpc' = "ctl"
  /\ \E ok \in BOOLEAN : kill_locked(ok) /\ record_teardown(~ok)
  /\ UNCHANGED <<ptyVars, readerVars, dataVars, ctlVars, callVars, shutdown, workerVars,
                 grace_over, ops_left, verdict>>

(* Send Shutdown and drop the sender; a worker already gone ignores both.    *)
teardown_ctl ==
  /\ hpc = "ctl"
  /\ hpc' = "join_worker"
  /\ ctl_queue' = (IF wpc = "done" THEN ctl_queue
                   ELSE Append(ctl_queue, [op |-> "shutdown", from |-> Nobody]))
  /\ ctl_open' = FALSE
  /\ UNCHANGED <<childVars, sharedVars, ptyVars, readerVars, dataVars, callVars, shutdown,
                 workerVars, grace_over, ops_left, verdict>>

(* Mutant: the worker is detached instead of joined.                         *)
DetachWorker ==
  /\ hpc = "join_worker"
  /\ hpc' = "join_reader"
  /\ UNCHANGED <<childVars, sharedVars, ptyVars, readerVars, dataVars, ctlVars, callVars,
                 shutdown, workerVars, grace_over, ops_left, verdict>>

(* join_threads: the worker first, which releases a reader blocked on a full *)
(* channel; then the reader; then mark_closed.                               *)
join_worker ==
  /\ hpc = "join_worker" /\ wpc = "done"
  /\ hpc' = "join_reader"
  /\ UNCHANGED <<childVars, sharedVars, ptyVars, readerVars, dataVars, ctlVars, callVars,
                 shutdown, workerVars, grace_over, ops_left, verdict>>

join_reader ==
  /\ hpc = "join_reader" /\ reader_pc = "done"
  /\ hpc' = "reap"
  /\ mark_closed
  /\ UNCHANGED <<childVars, ptyVars, readerVars, dataVars, ctlVars, callVars, shutdown,
                 workerVars, grace_over, ops_left, verdict>>

(* The final reap; finish's close()? turns a teardown error into its result. *)
teardown_reap ==
  /\ hpc = "reap"
  /\ hpc' = "closed"
  /\ \E ok \in BOOLEAN :
       /\ wait_locked(ok)
       /\ record_teardown(~ok)
       /\ verdict' = (IF verdict = "ok" /\ teardown_error' THEN "teardown" ELSE verdict)
  /\ UNCHANGED <<ptyVars, readerVars, dataVars, ctlVars, callVars, shutdown, workerVars,
                 grace_over, ops_left>>

TeardownNext ==
  teardown_kill \/ teardown_ctl \/ join_worker \/ join_reader \/ teardown_reap

OwnerNext ==
  \/ finish \/ reply_timeout(Owner) \/ finish_reply \/ finish_wait \/ close \/ TeardownNext

-----------------------------------------------------------------------------
(* The child's side of the PTY.                                              *)

SlaveOpen == proc = "running" \/ slave_held

PtyStep == UNCHANGED <<sharedVars, readerVars, dataVars, ctlVars, callVars, shutdown,
                       workerVars, grace_over, ops_left, ownerVars>>

child_writes(b) ==
  /\ SlaveOpen /\ Len(produced) < MaxBatches
  /\ produced' = Append(produced, b)
  /\ UNCHANGED <<childVars, slave_held, stdin>>
  /\ PtyStep

child_reads ==
  /\ SlaveOpen /\ stdin > 0
  /\ stdin' = stdin - 1
  /\ UNCHANGED <<childVars, produced, slave_held>>
  /\ PtyStep

child_forks ==
  /\ Descendants /\ proc = "running" /\ ~slave_held
  /\ slave_held' = TRUE
  /\ UNCHANGED <<childVars, produced, stdin>>
  /\ PtyStep

descendant_exits ==
  /\ slave_held
  /\ slave_held' = FALSE
  /\ UNCHANGED <<childVars, produced, stdin>>
  /\ PtyStep

child_ends == child_exits /\ UNCHANGED ptyVars /\ PtyStep

ChildNext ==
  (\E b \in Batch : child_writes(b)) \/ child_reads \/ child_forks \/ descendant_exits \/ child_ends

-----------------------------------------------------------------------------
(* Everything is over.                                                       *)
Finished == hpc = "closed" /\ UNCHANGED vars

PumpFrame == UNCHANGED <<ops_left, ownerVars>>

PumpNext ==
  \/ worker_top /\ PumpFrame
  \/ recv_timeout /\ PumpFrame
  \/ ctl_observe /\ PumpFrame
  \/ ctl_snapshot /\ PumpFrame
  \/ ctl_events /\ PumpFrame
  \/ apply_resize /\ PumpFrame
  \/ ctl_set_colors /\ PumpFrame
  \/ ctl_shutdown /\ PumpFrame
  \/ close_input /\ PumpFrame
  \/ apply_write /\ PumpFrame
  \/ write_check /\ PumpFrame
  \/ write_chunk /\ PumpFrame
  \/ feed /\ PumpFrame
  \/ route_reply /\ PumpFrame
  \/ reply_write /\ PumpFrame
  \/ drain_stream_end /\ PumpFrame
  \/ drain_empty /\ PumpFrame
  \/ poll_exit_state /\ PumpFrame
  \/ shutdown_poll /\ PumpFrame
  \/ shutdown_kill /\ PumpFrame
  \/ shutdown_reap /\ PumpFrame
  \/ shutdown_final /\ PumpFrame
  \/ shutdown_close /\ PumpFrame
  \/ worker_drop /\ PumpFrame
  \/ read /\ PumpFrame
  \/ send /\ PumpFrame
  \/ count /\ PumpFrame
  \/ reader_lost /\ PumpFrame
  \/ drain_grace /\ PumpFrame

Next ==
  \/ PumpNext
  \/ \E c \in Clients : ClientNext(c)
  \/ OwnerNext
  \/ ChildNext
  \/ Finished

Spec == Init /\ [][Next]_vars

(* The threads the session starts are scheduled, a teardown that began goes  *)
(* on, the drain grace is a clock, a killed child dies, a woken client runs. *)
(* Nothing makes the child read, write or exit, a descendant let go, a       *)
(* client call, or the owner close.                                          *)
Fairness ==
  /\ WF_vars(WorkerNext /\ PumpFrame)
  /\ WF_vars((read \/ send \/ count) /\ PumpFrame)
  /\ WF_vars(drain_grace /\ PumpFrame)
  /\ WF_vars(finish_reply \/ TeardownNext)
  /\ WF_vars(killed /\ child_ends)
  /\ \A c \in Clients : WF_vars(wait_wakes(c)) /\ WF_vars(signal_send(c))

FairSpec == Spec /\ Fairness

-----------------------------------------------------------------------------
CtlMsg == [op : ControlOps \cup {"shutdown"}, from : Callers \cup {Nobody}]
Observation == [revision : Nat, stream : StreamStates, finalized : BOOLEAN, feeds : Nat,
                queued_batches : 0..UsizeMod-1]
Outcome == [exit : Status \cup {UnknownExit}, stream : StreamStates \ {"Streaming"},
            revision : Nat, bytes_pumped : Nat]

(* The sentinels of an Option are none of its values.                        *)
ASSUME SentinelAssumption ==
  /\ NoOutcome \notin Outcome
  /\ NoObservation \notin Observation

PumpState ==
  [ bytes_pumped : Nat, output_log : Seq(Nat), output_bytes_total : Nat,
    output_truncated : BOOLEAN, emitted : Nat, events : Seq(Nat),
    events_dropped : Nat, drained : Nat, was_in_sync : BOOLEAN,
    replies_routed : Nat, replies_dropped_no_writer : Nat,
    reply_write_errors : Nat, resizes : Nat ]

SharedTypeOK ==
  /\ outcome \in Outcome \cup {NoOutcome}
  /\ revision \in Nat /\ frames \in Nat
  /\ closed \in BOOLEAN /\ teardown_error \in BOOLEAN
  /\ waiter \in [Clients -> Waiter]

PtyTypeOK == produced \in Seq(Batch) /\ slave_held \in BOOLEAN /\ stdin \in Nat

ReaderTypeOK ==
  /\ reader_pc \in {"read", "send", "count", "done"}
  /\ reader_msg \in DataMsg
  /\ taken \in Nat

DataTypeOK == data_queue \in Seq(DataMsg) /\ inflight \in 0..UsizeMod-1

CallResult == {"none", "await", "signal", "timeout", "ok", "exited", "closed", "io"}

CallTypeOK ==
  /\ ctl_queue \in Seq(CtlMsg) /\ ctl_open \in BOOLEAN
  /\ call \in [Callers -> CallResult]
  /\ seen \in [Clients -> Observation \cup {NoObservation}]
  /\ wop \in [from : Callers \cup {Nobody}, left : Nat]

ControlTypeOK ==
  /\ wpc \in {"top", "ctl", "drain", "exit", "write", "write_chunk", "reply", "reply_write",
              "sd_poll", "sd_kill", "sd_reap", "sd_final", "sd_close", "sd_drop", "done"}
  /\ wret \in {"exit", "sd_poll"}
  /\ budget \in Nat /\ cur \in Nat

CaptureTypeOK ==
  /\ writer \in BOOLEAN
  /\ stream_end \in EndKind \cup {NoEnd}
  /\ final_stream \in (StreamStates \ {"Streaming"}) \cup {NoEnd}
  /\ exited \in Status \cup {NoStatus}
  /\ finalized \in BOOLEAN /\ grace_over \in BOOLEAN
  /\ fed \in Seq(Nat) /\ dropped_after_drain \in Nat

OwnerTypeOK ==
  /\ ops_left \in [Clients -> 0..MaxOps]
  /\ shutdown \in BOOLEAN
  /\ hpc \in OwnerPC
  /\ verdict \in {"none", "ok", "timeout", "error", "teardown"}

(* The type invariant.                                                       *)
TypeOK ==
  /\ ChildTypeOK /\ SharedTypeOK /\ PtyTypeOK /\ ReaderTypeOK /\ DataTypeOK
  /\ CallTypeOK /\ ControlTypeOK /\ CaptureTypeOK /\ pump \in PumpState /\ OwnerTypeOK

-----------------------------------------------------------------------------
(* Safety.                                                                   *)

(* The declared outcome stays true of the capture: whatever the reader, late *)
(* stream ends or control ops do afterwards, the bytes it counts are still   *)
(* the bytes pumped, its stream is the one the worker finalized with, and    *)
(* its exit is the reaped status (or unknown when no reap succeeded).        *)
OutcomeMatchesCapture ==
  outcome # NoOutcome =>
    /\ finalized
    /\ outcome.stream = final_stream
    /\ outcome.bytes_pumped = pump.bytes_pumped
    /\ outcome.revision <= revision
    /\ outcome.exit # UnknownExit => reaped /\ outcome.exit = status

(* CleanEof is "the only state that proves completeness": an outcome that    *)
(* says so has captured every batch the child and its descendants ever       *)
(* wrote, and nobody is left to write another.                               *)
CleanEofComplete ==
  outcome # NoOutcome /\ outcome.stream = "CleanEof" =>
    SlaveClosed /\ Len(fed) = Len(produced)

(* Bytes reach the grid in the order the child wrote them, without a gap.    *)
CaptureInOrder == \A i \in 1..Len(fed) : fed[i] = i

QueuedBytes == Cardinality({i \in 1..Len(data_queue) : data_queue[i].type = "bytes"})
InHand      == IF reader_pc = "send" /\ reader_msg.type = "bytes" THEN 1 ELSE 0
Lost        == IF reader_pc = "done" /\ reader_msg.type = "bytes" THEN 1 ELSE 0

(* Nothing is silently lost: while the worker lives, every batch read from   *)
(* the PTY was fed, or dropped after finalization and counted, or is queued, *)
(* or is in the hand of a reader blocked on the full channel, or died with   *)
(* the reader thread that had it in hand.                                    *)
NoBatchLost ==
  wpc # "done" =>
    taken = Len(fed) + dropped_after_drain + QueuedBytes + InHand + Lost

(* An outcome that gives up on the stream says why: Aborted only when a      *)
(* teardown asked for it, DrainExpired only when the child was reaped and    *)
(* the whole drain grace has passed since.                                   *)
AbortIsTruthful ==
  outcome # NoOutcome /\ outcome.stream \in {"DrainExpired", "Aborted"} =>
    /\ outcome.stream = "Aborted" => shutdown
    /\ outcome.stream = "DrainExpired" => outcome.exit # UnknownExit /\ grace_over

(* A session that finished closing left nothing behind: both threads are     *)
(* joined, an outcome was declared, and the child is reaped unless teardown  *)
(* reports an error.                                                         *)
ClosedLeavesNothing ==
  hpc = "closed" =>
    /\ wpc = "done" /\ reader_pc = "done" /\ closed
    /\ outcome # NoOutcome
    /\ teardown_error \/ reaped

(* finish returns Ok only for a child whose exit was reaped and whose stream *)
(* was resolved before the teardown killed anything.                         *)
FinishOkIsNatural ==
  verdict = "ok" => outcome # NoOutcome /\ outcome.exit \in Status /\ outcome.stream # "Aborted"

Owned(c) == Cardinality({i \in 1..Len(ctl_queue) : ctl_queue[i].from = c})
            + (IF wop.from = c THEN 1 ELSE 0)

(* A caller that gave up and calls again is answered for its own call: the   *)
(* worker holds one op for each caller that waits and none for the others,   *)
(* and the ops abandoned at REPLY_TIMEOUT answer nobody.                     *)
AnswersOwnCall == \A c \in Callers : Owned(c) = (IF call[c] = "await" THEN 1 ELSE 0)

(* The counter lags by the message that the reader has sent and not counted  *)
(* yet, and by no more: whatever batches and stream ends passed meanwhile it *)
(* is back at the depth of the queue once the reader's fetch_add is done.    *)
(* While the reader is between the two and the worker has drained the queue, *)
(* that is one less than zero, as a usize; see QueuedBatchesBounded.         *)
QueueDepthLags ==
  inflight = (UsizeMod + Len(data_queue) - (IF reader_pc = "count" THEN 1 ELSE 0)) % UsizeMod

(* One revision names one grid: two observations with the same revision saw  *)
(* the same fed batches ("all facts share one revision").                    *)
RevisionNamesState ==
  \A c, d \in Clients :
    /\ seen[c] # NoObservation /\ seen[d] # NoObservation
    /\ seen[c].revision = seen[d].revision
    => seen[c].feeds = seen[d].feeds

-----------------------------------------------------------------------------
(* The session implements Capture.                                           *)

C == INSTANCE Capture WITH
       Streams <- StreamStates \ {"Streaming"}, Exits <- Status, NotEnded <- NoStatus,
       UnknownEnd <- UnknownExit, NotDeclared <- NoOutcome,
       written <- Len(produced), writable <- ~SlaveClosed, ended <- exit_code,
       captured <- Len(fed),
       declared <- IF outcome = NoOutcome THEN NoOutcome
                   ELSE [stream |-> outcome.stream, exit |-> outcome.exit]

(* Every step of the threads is a step of Capture or invisible to it.        *)
ImplementsCapture == C!Spec

-----------------------------------------------------------------------------
(* Liveness, under Fairness.                                                 *)

(* Teardown ends: whatever the child does with its stdin, and wherever the   *)
(* worker and the reader were blocked, kill-then-join gets through, unless a *)
(* descendant of the dead child never lets go of the slave, where the reader *)
(* or a worker in a write may be blocked for ever.                           *)
TeardownUnlessHeld ==
  (hpc = "kill") ~> (hpc = "closed" \/ [](slave_held /\ proc # "running"))

(* The worker can be blocked writing to a terminal that nobody reads.        *)
StuckWriting == slave_held /\ stdin = StdinCap

(* Once the child is dead the outcome is declared, also while a descendant   *)
(* keeps the slave open: the drain grace bounds the wait.  Only a full input *)
(* queue that the descendant holds and never reads prevents it.              *)
OutcomeDeclared == (proc # "running") ~> (outcome # NoOutcome \/ []StuckWriting)

-----------------------------------------------------------------------------
(* What the documentation says and the code does not do (see README).        *)

(* Every teardown ends: "Drop never hangs".                                  *)
TeardownCompletes == (hpc = "kill") ~> (hpc = "closed")

(* Diagnostics.queued_batches, as an observation reports it, is "bounded by  *)
(* the data channel depth".                                                  *)
QueuedBatchesBounded ==
  \A c \in Clients : seen[c] # NoObservation => seen[c].queued_batches <= DataQueueBatches
=============================================================================
