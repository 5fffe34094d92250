-------------------------- MODULE PtySessionHandle --------------------------
(***************************************************************************)
(* What the users of a session's handle may rely on.  First how a session  *)
(* ends: what a declared outcome says about why, what finish may return,   *)
(* what a closed session leaves behind, and what a spawn that fails does.  *)
(* The invariant relates the owner's progress through teardown to the      *)
(* worker's through shutdown_and_exit: nobody starts the second without    *)
(* the first.  Then the calls: no client sleeps through the news it waits  *)
(* for, two observations of one revision are of one grid, and each op that *)
(* answers somebody answers the call its sender is waiting in, also after  *)
(* a caller gave up at REPLY_TIMEOUT and called again.                     *)
(***************************************************************************)
EXTENDS PtySessionCapture, Startup

(* The owner's states from teardown's first statement on.                   *)
TornDown == {"kill", "ctl", "join_worker", "join_reader", "reap", "closed"}

(* The worker's states past the last drain of shutdown_and_exit.            *)
ShuttingDown == {"sd_poll", "sd_kill", "sd_reap", "sd_final", "sd_close", "sd_drop", "done"}

(* The flag, the control channel and the joins, by the owner's progress.    *)
OwnerInv ==
  /\ shutdown <=> hpc \in TornDown
  /\ ~ctl_open => shutdown
  /\ \A i \in 1..Len(ctl_queue) : ctl_queue[i].op = "shutdown" => shutdown

(* The worker shuts down only when teardown asked for it, and has declared  *)
(* the outcome before it closes.                                            *)
WorkerInv ==
  /\ wpc \in ShuttingDown \/ wret = "sd_poll" => shutdown
  /\ wpc \in {"sd_close", "sd_drop", "done"} => finalized

(* What each join and the last reap have established.                       *)
JoinInv ==
  /\ hpc \in {"join_reader", "reap", "closed"} => wpc = "done"
  /\ hpc \in {"reap", "closed"} => reader_pc = "done" /\ closed
  /\ hpc = "closed" => teardown_error \/ reaped

(* Before teardown began an outcome is that of a reaped child.              *)
NaturalInv == outcome # NoOutcome /\ ~shutdown => outcome.exit \in Status

(* How a session ends.                                                      *)
TeardownInv ==
  OwnerInv /\ WorkerInv /\ JoinInv /\ NaturalInv /\ AbortIsTruthful /\ FinishOkIsNatural

-----------------------------------------------------------------------------
(* The flag is set once; the channel is dropped after it.                   *)
LEMMA OwnerMoves == TypeOK /\ OwnerInv /\ [Next]_vars =>
                      /\ shutdown' <=> hpc' \in TornDown
                      /\ shutdown => shutdown'
                      /\ ~ctl_open' => shutdown'
<1> SUFFICES ASSUME TypeOK, OwnerInv, [Next]_vars
             PROVE  /\ shutdown' <=> hpc' \in TornDown
                    /\ shutdown => shutdown'
                    /\ ~ctl_open' => shutdown'
  OBVIOUS
<1>0. CallFrames /\ shutdown \in BOOLEAN /\ ctl_open \in BOOLEAN
  BY StepCallFrames DEF TypeOK, OwnerTypeOK, CallTypeOK
<1> USE DEF OwnerInv, TornDown
<1>1. CASE UNCHANGED <<shutdown, ownerVars>>
  <2>1. UNCHANGED <<shutdown, hpc>>
    BY <1>1 DEF ownerVars
  <2> QED
    BY <1>0, <2>1 DEF CallFrames, teardown_ctl
<1>2. CASE OwnerNext
  <2>1. CASE finish \/ finish_reply \/ finish_wait \/ close
    BY <1>0, <2>1 DEF finish, finish_reply, finish_wait, close, Teardown, ctlVars
  <2>2. CASE reply_timeout(Owner)
    BY <1>0, <2>2 DEF reply_timeout, ownerVars
  <2>3. CASE TeardownNext
    BY <1>0, <2>3 DEF TeardownNext, teardown_kill, teardown_ctl, join_worker, join_reader,
       teardown_reap, ctlVars
  <2> QED
    BY <1>2, <2>1, <2>2, <2>3 DEF OwnerNext
<1> QED
  BY <1>0, <1>1, <1>2 DEF CallFrames

(* An abandoned op is still the same op.                                    *)
LEMMA OrphanKeepsOps ==
  ASSUME TypeOK, NEW c \in Callers, Orphan(c)
  PROVE  /\ Len(ctl_queue') = Len(ctl_queue)
         /\ \A i \in 1..Len(ctl_queue) : ctl_queue'[i].op = ctl_queue[i].op
<1>1. \A i \in 1..Len(ctl_queue) : ctl_queue[i] \in CtlMsg
  BY ElementOfSeq DEF TypeOK, CallTypeOK
<1>2. Len(ctl_queue) \in Nat
  BY DEF TypeOK, CallTypeOK
<1>3. ctl_queue' = [i \in 1..Len(ctl_queue) |->
                     IF ctl_queue[i].from = c THEN [ctl_queue[i] EXCEPT !.from = Nobody]
                     ELSE ctl_queue[i]]
  BY DEF Orphan
<1>4. Len(ctl_queue') = Len(ctl_queue)
  BY <1>2, <1>3
<1>5. ASSUME NEW i \in 1..Len(ctl_queue) PROVE ctl_queue'[i].op = ctl_queue[i].op
  BY <1>1, <1>3 DEF CtlMsg
<1> QED
  BY <1>4, <1>5

(* The control channel after an append or a take.                           *)
LEMMA CtlShapes ==
  ASSUME NEW q \in Seq(CtlMsg), NEW m \in CtlMsg
  PROVE  /\ Len(Append(q, m)) = Len(q) + 1
         /\ \A i \in 1..Len(q) : Append(q, m)[i] = q[i]
         /\ Append(q, m)[Len(q) + 1] = m
         /\ \A i \in 1..Len(Append(q, m)) : i \in 1..Len(q) \/ i = Len(q) + 1
         /\ q # <<>> => /\ Len(Tail(q)) = Len(q) - 1 /\ Len(q) >= 1
                        /\ \A i \in 1..Len(Tail(q)) : Tail(q)[i] = q[i + 1] /\ i + 1 \in 1..Len(q)
                        /\ Head(q) = q[1] /\ 1 \in 1..Len(q)
OBVIOUS

(* Only teardown puts a Shutdown into the control channel.                  *)
LEMMA ShutdownQueued ==
  TypeOK /\ OwnerInv /\ [Next]_vars =>
    \A i \in 1..Len(ctl_queue') : ctl_queue'[i].op = "shutdown" => shutdown'
<1> SUFFICES ASSUME TypeOK, OwnerInv, [Next]_vars, NEW i \in 1..Len(ctl_queue'),
                    ctl_queue'[i].op = "shutdown"
             PROVE  shutdown'
  OBVIOUS
<1>0. CallFrames /\ ctl_queue \in Seq(CtlMsg) /\ (shutdown => shutdown')
  BY StepCallFrames, OwnerMoves DEF TypeOK, CallTypeOK
<1>1. \A j \in 1..Len(ctl_queue) : ctl_queue[j].op = "shutdown" => shutdown
  BY DEF OwnerInv
<1>2. ASSUME NEW op \in ControlOps \cup {"shutdown"}, NEW c \in Callers \cup {Nobody},
             ctl_queue' = Append(ctl_queue, [op |-> op, from |-> c])
      PROVE  op = "shutdown" \/ shutdown
  <2>1. [op |-> op, from |-> c] \in CtlMsg
    BY DEF CtlMsg
  <2> QED
    BY <1>0, <1>1, <1>2, <2>1, CtlShapes
<1>3. ASSUME NEW c \in Clients, NEW op \in ClientOps, send_op(c, op) PROVE shutdown'
  <2>1. op \in ControlOps /\ op # "shutdown" /\ c \in Callers
    BY SessionAssumption DEF ControlOps, Callers
  <2> QED
    BY <1>0, <1>2, <1>3, <2>1 DEF send_op
<1>4. CASE finish
  <2>1. "close_input" \in ControlOps /\ Owner \in Callers
    BY DEF ControlOps, Callers
  <2> QED
    BY <1>0, <1>2, <1>4, <2>1 DEF finish
<1>5. CASE teardown_ctl
  <2>1. shutdown
    BY <1>5 DEF teardown_ctl, OwnerInv, TornDown
  <2> QED
    BY <1>0, <2>1
<1>6. ASSUME NEW op, TakeOp(op) PROVE shutdown'
  <2>1. ctl_queue # <<>> /\ ctl_queue' = Tail(ctl_queue)
    BY <1>6 DEF TakeOp
  <2>2. Head(ctl_queue) \in CtlMsg
    BY <1>0, <2>1
  <2> QED
    BY <1>0, <1>1, <2>1, <2>2, CtlShapes
<1>7. ASSUME NEW c \in Callers, Orphan(c) PROVE shutdown'
  BY <1>0, <1>1, <1>7, OrphanKeepsOps
<1>8. CASE UNCHANGED ctl_queue
  BY <1>0, <1>1, <1>8
<1> QED
  BY <1>0, <1>3, <1>4, <1>5, <1>6, <1>7, <1>8 DEF CallFrames, CtlStep

(* The three ways into shutdown_and_exit, and the one into its last steps.  *)
LEMMA WorkerMoves ==
  TypeOK /\ [Next]_vars =>
    /\ wpc' \in ShuttingDown \/ wret' = "sd_poll" =>
         \/ wpc \in ShuttingDown \/ wret = "sd_poll" \/ shutdown \/ ~ctl_open
         \/ ctl_queue # <<>> /\ Head(ctl_queue).op = "shutdown"
    /\ wpc' \in {"sd_close", "sd_drop", "done"} =>
         shutdown_final \/ wpc \in {"sd_close", "sd_drop", "done"}
<1> SUFFICES ASSUME TypeOK, [Next]_vars
    PROVE /\ wpc' \in ShuttingDown \/ wret' = "sd_poll" =>
               \/ wpc \in ShuttingDown \/ wret = "sd_poll" \/ shutdown \/ ~ctl_open
               \/ ctl_queue # <<>> /\ Head(ctl_queue).op = "shutdown"
          /\ wpc' \in {"sd_close", "sd_drop", "done"} =>
               shutdown_final \/ wpc \in {"sd_close", "sd_drop", "done"}
  OBVIOUS
<1>0. wret \in {"exit", "sd_poll"}
  BY DEF TypeOK, ControlTypeOK
<1> USE DEF ShuttingDown
<1>1. CASE UNCHANGED <<wpc, wret, budget, cur>>
  BY <1>1
<1>2. CASE worker_top \/ recv_timeout \/ ctl_shutdown
  BY <1>2 DEF worker_top, recv_timeout, ctl_shutdown, shutdown_and_exit, EnterDrain, TakeOp
<1>3. CASE ctl_observe \/ ctl_snapshot \/ ctl_events \/ ctl_set_colors
  BY <1>3 DEF ctl_observe, ctl_snapshot, ctl_events, ctl_set_colors, EnterDrain
<1>4. CASE apply_resize \/ close_input \/ apply_write
  BY <1>4 DEF apply_resize, close_input, apply_write, EnterDrain
<1>5. CASE write_check \/ write_chunk
  BY <1>5 DEF write_check, write_chunk, WriteReturns, EnterDrain
<1>6. CASE feed \/ route_reply \/ reply_write \/ drain_stream_end \/ drain_empty
  BY <1>0, <1>6 DEF feed, route_reply, reply_write, drain_stream_end, drain_empty, DrainNext,
     controlVars
<1>7. CASE poll_exit_state
  BY <1>7 DEF poll_exit_state
<1>8. CASE shutdown_poll \/ shutdown_kill \/ shutdown_reap \/ shutdown_final \/ shutdown_close
           \/ worker_drop
  BY <1>8 DEF shutdown_poll, shutdown_kill, shutdown_reap, shutdown_final, shutdown_close,
     worker_drop, ShutdownStep
<1>9. CASE read \/ send \/ count \/ reader_lost \/ drain_grace
  BY <1>9 DEF read, send, count, reader_lost, drain_grace, workerVars, controlVars
<1> QED
  BY <1>1, <1>2, <1>3, <1>4, <1>5, <1>6, <1>7, <1>8, <1>9, StepCallFrames DEF CallFrames, PumpNext

(* The worker's part is inductive.                                          *)
LEMMA WorkerStep == TypeOK /\ OwnerInv /\ WorkerInv /\ [Next]_vars => WorkerInv'
<1> SUFFICES ASSUME TypeOK, OwnerInv, WorkerInv, [Next]_vars PROVE WorkerInv'
  OBVIOUS
<1>1. shutdown => shutdown'
  BY OwnerMoves
<1>2. ctl_queue # <<>> /\ Head(ctl_queue).op = "shutdown" => shutdown
  <2>1. ctl_queue # <<>> => 1 \in 1..Len(ctl_queue) /\ Head(ctl_queue) = ctl_queue[1]
    BY DEF TypeOK, CallTypeOK
  <2> QED
    BY <2>1 DEF OwnerInv
<1>3. shutdown_final => finalized'
  BY DEF shutdown_final, Finalize
<1> QED
  BY <1>1, <1>2, <1>3, WorkerMoves, FinalizedStays DEF WorkerInv, OwnerInv

-----------------------------------------------------------------------------
(* The closed flag and the teardown error are never taken back.             *)
LEMMA FlagsStay ==
  TypeOK /\ [Next]_vars => (closed => closed') /\ (teardown_error => teardown_error')
<1> SUFFICES ASSUME TypeOK, [Next]_vars
             PROVE  (closed => closed') /\ (teardown_error => teardown_error')
  OBVIOUS
<1>0. StepFrames
  BY Frames
<1>1. CASE UNCHANGED <<closed, teardown_error>>
  BY <1>1
<1>2. CASE poll_exit_state \/ shutdown_final
  BY <1>2 DEF poll_exit_state, shutdown_final, Finalize, publish_outcome, Publish, sharedVars
<1>3. CASE feed \/ bump_revision \/ mark_closed
  BY <1>3 DEF feed, bump_revision, mark_closed, Publish, sharedVars
<1>4. ASSUME NEW happened \in BOOLEAN, record_teardown(happened)
      PROVE  (closed => closed') /\ (teardown_error => teardown_error')
  BY <1>4 DEF record_teardown
<1>5. ASSUME NEW c, NEW on, wait_on(c, on) PROVE UNCHANGED <<closed, teardown_error>>
  BY <1>5 DEF wait_on, wait_begin, Sleep, sharedVars
<1>6. ASSUME NEW c, wait_recheck(c) \/ wait_expire(c) PROVE UNCHANGED <<closed, teardown_error>>
  BY <1>6 DEF wait_recheck, wait_expire, Sleep, Leave
<1>7. CASE UNCHANGED sharedVars
  BY <1>7 DEF sharedVars
<1> QED
  BY <1>0, <1>1, <1>2, <1>3, <1>4, <1>5, <1>6, <1>7 DEF StepFrames, SharedStep

(* A reader that returned stays returned.                                   *)
LEMMA ReaderDoneStays == [Next]_vars /\ reader_pc = "done" => reader_pc' = "done"
BY Frames DEF StepFrames, read, send, count, reader_lost, readerVars

(* The last reap leaves a reaped child or a recorded error.                 *)
LEMMA ReapedOrRecorded ==
  ChildInv /\ teardown_reap => teardown_error' \/ reaped'
<1> SUFFICES ASSUME ChildInv, NEW ok \in BOOLEAN, wait_locked(ok), record_teardown(~ok)
             PROVE  teardown_error' \/ reaped'
  BY DEF teardown_reap
<1>1. CASE ok
  BY <1>1 DEF wait_locked, Reap, childVars, ChildInv, ReapedIsReleased
<1>2. CASE ~ok
  BY <1>2 DEF record_teardown
<1> QED
  BY <1>1, <1>2

(* The joins' part is inductive.                                            *)
LEMMA JoinStep == TypeOK /\ ChildInv /\ JoinInv /\ [Next]_vars => JoinInv'
<1> SUFFICES ASSUME TypeOK, ChildInv, JoinInv, [Next]_vars PROVE JoinInv'
  OBVIOUS
<1>0. /\ wpc = "done" => wpc' = "done"
      /\ reader_pc = "done" => reader_pc' = "done"
      /\ closed => closed'
      /\ teardown_error \/ reaped => teardown_error' \/ reaped'
  BY DoneStays, ReaderDoneStays, FlagsStay, ReapedStays
<1>1. CASE UNCHANGED hpc
  BY <1>0, <1>1 DEF JoinInv
<1>2. CASE OwnerNext
  <2>1. CASE finish \/ finish_reply \/ finish_wait \/ close \/ teardown_kill \/ teardown_ctl
    BY <2>1 DEF finish, finish_reply, finish_wait, close, Teardown, teardown_kill, teardown_ctl,
       JoinInv
  <2>2. CASE reply_timeout(Owner)
    BY <1>1, <2>2 DEF reply_timeout, ownerVars
  <2>3. CASE join_worker
    BY <1>0, <2>3 DEF join_worker, JoinInv
  <2>4. CASE join_reader
    <3>1. closed'
      BY <2>4 DEF join_reader, mark_closed
    <3> QED
      BY <1>0, <2>4, <3>1 DEF join_reader, JoinInv
  <2>5. CASE teardown_reap
    <3>1. teardown_error' \/ reaped'
      BY <2>5, ReapedOrRecorded
    <3>2. hpc = "reap" /\ hpc' = "closed"
      BY <2>5 DEF teardown_reap
    <3> QED
      BY <1>0, <3>1, <3>2 DEF JoinInv
  <2> QED
    BY <1>2, <2>1, <2>2, <2>3, <2>4, <2>5 DEF OwnerNext, TeardownNext
<1> QED
  BY <1>1, <1>2, StepCallFrames DEF CallFrames, ownerVars

-----------------------------------------------------------------------------
(* The two steps that declare an outcome, and what each says.               *)
DeclaredByPoll ==
  /\ outcome'.exit \in Status
  /\ outcome'.stream = FinalStream("DrainExpired") /\ StreamResolved

DeclaredByShutdown ==
  /\ wpc = "sd_final"
  /\ outcome'.stream = FinalStream("Aborted")

(* Every change of the outcome is one of the two.                            *)
LEMMA WhoDeclares ==
  IInv /\ [Next]_vars => UNCHANGED outcome \/ DeclaredByPoll \/ DeclaredByShutdown
<1> SUFFICES ASSUME IInv, [Next]_vars, ~(UNCHANGED outcome)
             PROVE  DeclaredByPoll \/ DeclaredByShutdown
  OBVIOUS
<1>0. TypeOK /\ InRange /\ OutcomeInv /\ StepFrames
  BY Frames DEF IInv, CaptureInv
<1>1. Declares
  BY <1>0, OutcomeSteps
<1>2. outcome = NoOutcome /\ ~finalized
  BY <1>0, <1>1 DEF Declares, OutcomeInv
<1>3. ASSUME NEW exit, NEW absent, Finalize(exit, absent)
      PROVE  outcome'.exit = exit /\ outcome'.stream = FinalStream(absent) /\ finalized'
  BY <1>2, <1>3 DEF Finalize, publish_outcome, Publish
<1>4. CASE poll_exit_state
  <2>1. poll_exit_observed /\ exited' # NoStatus /\ StreamResolved /\ Finalize(exited', "DrainExpired")
    BY <1>2, <1>4 DEF poll_exit_state, sharedVars
  <2>2. exited' \in Status
    BY <1>0, <2>1, ExitedTyped
  <2> QED
    BY <1>3, <2>1, <2>2 DEF DeclaredByPoll
<1>5. CASE shutdown_final
  <2>1. wpc = "sd_final"
    BY <1>5 DEF shutdown_final, ShutdownStep
  <2>2. \E exit : Finalize(exit, "Aborted")
    BY <1>2, <1>5 DEF shutdown_final
  <2> QED
    BY <1>3, <2>1, <2>2 DEF DeclaredByShutdown
<1>6. finalized'
  BY <1>1, <1>3 DEF Declares
<1> QED
  BY <1>0, <1>2, <1>4, <1>5, <1>6 DEF StepFrames

(* Why an outcome gives up on the stream, and whose exit it has.            *)
LEMMA WhyStep ==
  IInv /\ OwnerInv /\ WorkerInv /\ AbortIsTruthful /\ NaturalInv /\ [Next]_vars =>
    AbortIsTruthful' /\ NaturalInv'
<1> SUFFICES ASSUME IInv, OwnerInv, WorkerInv, AbortIsTruthful, NaturalInv, [Next]_vars
             PROVE  AbortIsTruthful' /\ NaturalInv'
  OBVIOUS
<1>0. TypeOK /\ (shutdown => shutdown')
  BY OwnerMoves DEF IInv
<1>1. grace_over => grace_over'
  BY Frames DEF StepFrames, drain_grace
<1>2. CASE UNCHANGED outcome
  BY <1>0, <1>1, <1>2 DEF AbortIsTruthful, NaturalInv
<1>3. stream_end \notin {"DrainExpired", "Aborted"} /\ UnknownExit \notin Status
  BY <1>0, WorkerAssumption DEF TypeOK, CaptureTypeOK, EndKind
<1>4. CASE DeclaredByPoll
  <2>1. outcome'.stream # "Aborted" /\ (outcome'.stream = "DrainExpired" => grace_over)
    BY <1>3, <1>4 DEF DeclaredByPoll, FinalStream, StreamResolved
  <2>2. outcome'.exit \in Status
    BY <1>4 DEF DeclaredByPoll
  <2> QED
    BY <1>1, <1>3, <2>1, <2>2 DEF AbortIsTruthful, NaturalInv
<1>5. CASE DeclaredByShutdown
  <2>1. shutdown'
    BY <1>0, <1>5 DEF DeclaredByShutdown, WorkerInv, ShuttingDown
  <2>2. outcome'.stream # "DrainExpired"
    BY <1>3, <1>5 DEF DeclaredByShutdown, FinalStream
  <2> QED
    BY <2>1, <2>2 DEF AbortIsTruthful, NaturalInv
<1> QED
  BY <1>2, <1>4, <1>5, WhoDeclares

(* A declared outcome is never replaced.                                    *)
LEMMA OutcomeStays == IInv /\ outcome # NoOutcome /\ [Next]_vars => outcome' = outcome
BY OutcomeSteps DEF IInv, CaptureInv, OutcomeInv, Declares

(* finish says Ok only of an outcome declared before teardown began.        *)
LEMMA FinishStep ==
  IInv /\ OwnerInv /\ AbortIsTruthful /\ NaturalInv /\ FinishOkIsNatural /\ [Next]_vars =>
    FinishOkIsNatural'
<1> SUFFICES ASSUME IInv, OwnerInv, AbortIsTruthful, NaturalInv, FinishOkIsNatural, [Next]_vars,
                    verdict' = "ok"
             PROVE  /\ outcome' # NoOutcome /\ outcome'.exit \in Status
                    /\ outcome'.stream # "Aborted"
  BY DEF FinishOkIsNatural
<1>1. CASE verdict = "ok"
  BY <1>1, OutcomeStays DEF FinishOkIsNatural
<1>2. CASE finish_wait /\ outcome # NoOutcome
  <2>1. ~shutdown
    BY <1>2 DEF finish_wait, OwnerInv, TornDown
  <2> QED
    BY <1>2, <2>1, OutcomeStays DEF AbortIsTruthful, NaturalInv
<1>3. verdict = "ok" \/ (finish_wait /\ outcome # NoOutcome)
  <2>1. CASE OwnerNext
    BY <2>1 DEF OwnerNext, TeardownNext, finish, reply_timeout, finish_reply, finish_wait, close,
       teardown_kill, teardown_ctl, join_worker, join_reader, teardown_reap, ownerVars
  <2> QED
    BY <2>1, StepCallFrames DEF CallFrames, ownerVars
<1> QED
  BY <1>1, <1>2, <1>3

(* In every reachable state the worker's shutdown and the owner's teardown  *)
(* agree (teardown, join_threads, shutdown_and_exit, finish).               *)
THEOREM TeardownInvariant == Spec => []TeardownInv
<1>1. Init => TeardownInv
  <2> SUFFICES ASSUME Init PROVE TeardownInv
    OBVIOUS
  <2>1. /\ shutdown = FALSE /\ hpc = "open" /\ ctl_open = TRUE /\ ctl_queue = <<>>
        /\ wpc = "top" /\ wret = "exit" /\ outcome = NoOutcome /\ verdict = "none"
    BY DEF Init, SharedInit, WorkerInit, ChannelInit, ThreadInit
  <2>2. Len(ctl_queue) = 0
    BY <2>1
  <2> QED
    BY <2>1, <2>2 DEF TeardownInv, OwnerInv, WorkerInv, JoinInv, NaturalInv, AbortIsTruthful,
       FinishOkIsNatural, TornDown, ShuttingDown
<1>2. IInv /\ TeardownInv /\ [Next]_vars => TeardownInv'
  <2> SUFFICES ASSUME IInv, TeardownInv, [Next]_vars PROVE TeardownInv'
    OBVIOUS
  <2>1. TypeOK /\ ChildInv /\ OwnerInv /\ WorkerInv /\ JoinInv /\ NaturalInv /\ AbortIsTruthful
        /\ FinishOkIsNatural
    BY DEF IInv, TeardownInv
  <2>2. OwnerInv'
    BY <2>1, OwnerMoves, ShutdownQueued DEF OwnerInv
  <2>3. WorkerInv' /\ JoinInv'
    BY <2>1, WorkerStep, JoinStep
  <2>4. AbortIsTruthful' /\ NaturalInv' /\ FinishOkIsNatural'
    BY <2>1, WhyStep, FinishStep
  <2> QED
    BY <2>2, <2>3, <2>4 DEF TeardownInv
<1> QED
  BY <1>1, <1>2, CaptureInvariant, PTL DEF Spec

(* An outcome says Aborted only when a teardown asked for it, and           *)
(* DrainExpired only for a reaped child and after the drain grace           *)
(* (poll_exit_state, shutdown_and_exit).                                    *)
THEOREM AbortsAreTruthful == Spec => []AbortIsTruthful
<1>1. TeardownInv => AbortIsTruthful
  BY DEF TeardownInv
<1> QED
  BY <1>1, TeardownInvariant, PTL

(* finish returns Ok only for a child that was reaped and a stream that     *)
(* was resolved before the teardown killed anything.                        *)
THEOREM FinishOkMeansNatural == Spec => []FinishOkIsNatural
<1>1. TeardownInv => FinishOkIsNatural
  BY DEF TeardownInv
<1> QED
  BY <1>1, TeardownInvariant, PTL

(* When close, finish or Drop is over, both threads are joined, the outcome *)
(* is declared, and the child is reaped unless an error was recorded.       *)
THEOREM NothingLeftBehind == Spec => []ClosedLeavesNothing
<1>1. IInv /\ TeardownInv => ClosedLeavesNothing
  BY DEF IInv, CaptureInv, OutcomeInv, TeardownInv, JoinInv, WorkerInv, ClosedLeavesNothing
<1> QED
  BY <1>1, CaptureInvariant, TeardownInvariant, PTL

-----------------------------------------------------------------------------
(* A startup that fails (StartupGuard, and close after fail_setup or a      *)
(* handshake that timed out).                                               *)

(* No thread runs, or none ever did.                                        *)
WorkerGone == wpc \in {"unborn", "done"}
ReaderGone == reader_pc \in {"unborn", "done"}

(* What the guard's Drop has established: the reader was never started and  *)
(* its end of the channel is gone, and after the join so is the worker.     *)
GuardInv ==
  /\ spc \in {"guard_kill", "guard_ctl", "guard_join", "guard_wait"} => ReaderGone
  /\ spc = "guard_wait" => WorkerGone

(* What teardown has established for a session that never came up.  Before  *)
(* it begins the owner has called nothing.                                  *)
ClosingInv ==
  /\ spc \notin {"closing", "failed"} => hpc = "open"
  /\ spc = "closing" =>
       /\ hpc \in {"kill", "ctl", "join_worker", "join_reader", "reap"}
       /\ hpc \in {"join_reader", "reap"} => WorkerGone
       /\ hpc = "reap" => ReaderGone

(* The inductive invariant of a startup.                                    *)
StartupInv == ChildInv /\ GuardInv /\ ClosingInv /\ FailedLeavesNothing

(* A thread that is gone does not come back by a step of its own, and the   *)
(* session's threads leave the spawning thread's progress alone.            *)
LEMMA GoneStaysGone ==
  PumpNext => /\ WorkerGone => wpc' = wpc
              /\ ReaderGone => reader_pc' = reader_pc
              /\ hpc' = hpc
<1> SUFFICES ASSUME PumpNext
             PROVE  /\ WorkerGone => wpc' = wpc
                    /\ ReaderGone => reader_pc' = reader_pc
                    /\ hpc' = hpc
  OBVIOUS
<1>1. hpc' = hpc
  BY PumpCallFrames DEF PumpNext, PumpFrame, ownerVars
<1>2. ReaderGone => reader_pc' = reader_pc
  BY PumpFrames DEF StepFrames, ReaderGone, readerVars, read, send, count, reader_lost
<1>3. WorkerGone => wpc' = wpc
  <2>1. CASE worker_top \/ recv_timeout \/ write_check \/ write_chunk \/ feed \/ route_reply
             \/ reply_write \/ drain_stream_end \/ drain_empty \/ poll_exit_state
    BY <2>1 DEF worker_top, recv_timeout, write_check, write_chunk, feed, route_reply,
       reply_write, drain_stream_end, drain_empty, poll_exit_state, WorkerGone
  <2>2. CASE ctl_observe \/ ctl_snapshot \/ ctl_events \/ apply_resize \/ ctl_set_colors
             \/ close_input \/ apply_write \/ ctl_shutdown
    BY <2>2 DEF ctl_observe, ctl_snapshot, ctl_events, apply_resize, ctl_set_colors,
       close_input, apply_write, ctl_shutdown, TakeOp, WorkerGone
  <2>3. CASE shutdown_poll \/ shutdown_kill \/ shutdown_reap \/ shutdown_final
             \/ shutdown_close \/ worker_drop
    BY <2>3 DEF shutdown_poll, shutdown_kill, shutdown_reap, shutdown_final, shutdown_close,
       worker_drop, ShutdownStep, WorkerGone
  <2>4. CASE read \/ send \/ count \/ reader_lost \/ drain_grace
    BY <2>4 DEF read, send, count, reader_lost, drain_grace, workerVars, controlVars
  <2> QED
    BY <2>1, <2>2, <2>3, <2>4 DEF PumpNext
<1> QED
  BY <1>1, <1>2, <1>3

(* The steps of the session's threads, the child and the clock.             *)
Background == PumpNext \/ ChildNext \/ handshake_timeout

(* Every step of a startup is a step of SharedChild or leaves the child     *)
(* alone.                                                                   *)
LEMMA StartupChildFrame == [StartupNext]_startupVars => ChildStep \/ UNCHANGED childVars
<1> SUFFICES ASSUME [StartupNext]_startupVars PROVE ChildStep \/ UNCHANGED childVars
  OBVIOUS
<1>1. CASE try_clone_reader \/ take_writer \/ set_worker \/ defuse \/ handshake
           \/ handshake_reply \/ setup_fails \/ early_return \/ guard_ctl \/ guard_join
  BY <1>1 DEF try_clone_reader, take_writer, set_worker, defuse, handshake, handshake_reply,
     setup_fails, early_return, guard_ctl, guard_join, vars
<1>2. CASE initial_poll
  BY <1>2 DEF initial_poll, ChildStep
<1>3. CASE closing
  BY <1>3 DEF closing, teardown_kill, closing_ctl, join_worker, join_reader, teardown_reap,
     ChildStep
<1>4. CASE guard_kill \/ guard_wait
  BY <1>4 DEF guard_kill, guard_wait, ChildStep
<1>5. CASE handshake_timeout
  BY <1>5 DEF handshake_timeout, reply_timeout
<1>6. CASE PumpNext \/ ChildNext
  <2>1. [Next]_vars
    BY <1>6 DEF Next
  <2> QED
    BY <2>1, Frames DEF StepFrames
<1>7. CASE UNCHANGED startupVars
  BY <1>7 DEF startupVars, vars
<1> QED
  BY <1>1, <1>2, <1>3, <1>4, <1>5, <1>6, <1>7 DEF StartupNext, SpawnNext

(* A reaped child stays reaped.                                             *)
LEMMA ReapKept == ChildInv /\ ChildStep /\ reaped => reaped'
BY DEF ChildInv, ReapedIsReleased, ChildStep, child_ends, child_exits, poll, signal_locked,
   kill_locked, wait_locked, Reap, Deliver, childVars

(* A blocking wait leaves a reaped child, or failed.                        *)
LEMMA WaitReaps ==
  ASSUME ChildInv, NEW ok \in BOOLEAN, wait_locked(ok)
  PROVE  reaped' \/ "wait" \in Faults
BY DEF ChildInv, ReapedIsReleased, wait_locked, Reap, childVars

(* What the background leaves alone.                                        *)
LEMMA BackgroundFrame ==
  Background => /\ WorkerGone => wpc' = wpc
                /\ ReaderGone => reader_pc' = reader_pc
                /\ hpc' = hpc
<1>1. CASE PumpNext
  BY <1>1, GoneStaysGone
<1>2. CASE ChildNext
  BY <1>2 DEF ChildNext, child_writes, child_reads, child_forks, descendant_exits, child_ends,
     PtyStep, readerVars, workerVars, controlVars, ownerVars
<1>3. CASE handshake_timeout
  BY <1>3 DEF handshake_timeout, reply_timeout, readerVars, ownerVars
<1> QED
  BY <1>1, <1>2, <1>3 DEF Background

(* The guard's progress and the teardown's keep what they have established, *)
(* and a spawn that fails leaves nothing behind.                            *)
LEMMA StartupStep == StartupInv /\ [StartupNext]_startupVars => StartupInv'
<1> SUFFICES ASSUME StartupInv, [StartupNext]_startupVars PROVE StartupInv'
  OBVIOUS
<1>1. ChildInv' /\ (reaped => reaped')
  <2>1. ChildInv /\ UNCHANGED childVars => ChildInv' /\ (reaped => reaped')
    BY DEF ChildInv, ChildTypeOK, ReapedIsReleased, NoStrayKill, childVars
  <2> QED
    BY <2>1, StartupChildFrame, ChildStepKeeps, ReapKept DEF StartupInv
<1> USE DEF StartupInv, GuardInv, ClosingInv, FailedLeavesNothing, WorkerGone, ReaderGone
<1>2. CASE try_clone_reader \/ take_writer \/ initial_poll \/ set_worker \/ defuse \/ handshake
  BY <1>1, <1>2 DEF try_clone_reader, take_writer, initial_poll, set_worker, defuse, handshake,
     vars, ownerVars
<1>3. CASE handshake_reply \/ setup_fails
  BY <1>1, <1>3 DEF handshake_reply, setup_fails, Teardown
<1>4. CASE early_return
  BY <1>1, <1>4 DEF early_return, Stages, ownerVars
<1>5. CASE guard_kill \/ guard_ctl \/ guard_join
  BY <1>1, <1>5 DEF guard_kill, guard_ctl, guard_join, vars, readerVars, workerVars, controlVars,
     ownerVars
<1>6. CASE guard_wait
  BY <1>1, <1>6, WaitReaps DEF guard_wait, readerVars, workerVars, controlVars, ownerVars
<1>7. CASE closing
  <2>1. CASE teardown_kill \/ closing_ctl
    BY <1>1, <1>7, <2>1 DEF closing, teardown_kill, closing_ctl
  <2>2. CASE join_worker
    BY <1>1, <1>7, <2>2 DEF closing, join_worker, workerVars, controlVars
  <2>3. CASE join_reader
    BY <1>1, <1>7, <2>3 DEF closing, join_reader, readerVars, workerVars, controlVars
  <2>4. CASE teardown_reap
    BY <1>1, <1>7, <2>4, WaitReaps DEF closing, teardown_reap, readerVars, workerVars, controlVars
  <2> QED
    BY <1>7, <2>1, <2>2, <2>3, <2>4 DEF closing
<1>8. CASE Background /\ UNCHANGED spc
  BY <1>1, <1>8, BackgroundFrame
<1>9. CASE UNCHANGED startupVars
  BY <1>1, <1>9 DEF startupVars, vars, readerVars, workerVars, controlVars, ownerVars
<1> QED
  BY <1>2, <1>3, <1>4, <1>5, <1>6, <1>7, <1>8, <1>9
     DEF StartupNext, SpawnNext, Background, handshake_timeout

(* In every state of a startup the guard and the teardown have done what    *)
(* their progress says (StartupGuard::drop, PtySession::close).             *)
THEOREM StartupInvariant == StartupSafe => []StartupInv
<1>1. StartupInit => StartupInv
  BY DEF StartupInit, ChildInit, StartupInv, ChildInv, ChildTypeOK, ReapedIsReleased, NoStrayKill,
     GuardInv, ClosingInv, FailedLeavesNothing
<1> QED
  BY <1>1, StartupStep, PTL DEF StartupSafe

(* F03 for the startup: the rollback of any stage, racing the worker it has *)
(* started, never signals a pid that was reaped, by the first poll or later.*)
THEOREM RollbackSignalsLive == StartupSafe => []NoStrayKill
<1>1. StartupInv => NoStrayKill
  BY DEF StartupInv, ChildInv
<1> QED
  BY <1>1, StartupInvariant, PTL

(* No spawn failure leaks a child or a thread, whichever stage fails and    *)
(* whatever the threads already started are doing.                          *)
THEOREM NoSpawnLeaks == StartupSafe => []FailedLeavesNothing
<1>1. StartupInv => FailedLeavesNothing
  BY DEF StartupInv
<1> QED
  BY <1>1, StartupInvariant, PTL

-----------------------------------------------------------------------------
(* After notify_all nobody sleeps un-notified.                              *)
LEMMA NotifiedAwake ==
  ASSUME SharedTypeOK, waiter' = Notified
  PROVE  NoLostWakeup'
<1>1. ASSUME NEW c \in Clients, waiter'[c].on # "none" PROVE waiter'[c].awake
  <2>1. waiter[c] \in Waiter
    BY DEF SharedTypeOK
  <2>2. waiter'[c] = [waiter[c] EXCEPT !.awake = (waiter[c].awake \/ waiter[c].on # "none")]
    BY DEF Notified
  <2> QED
    BY <1>1, <2>1, <2>2 DEF Waiter
<1> QED
  BY <1>1 DEF NoLostWakeup

(* A publisher that changes nothing wakes nobody; one that does wakes all.  *)
LEMMA PublishWakes ==
  ASSUME SharedTypeOK, NoLostWakeup, NEW o, NEW rev, NEW fr, Publish(o, rev, fr)
  PROVE  NoLostWakeup'
<1>1. CASE waiter' = Notified
  BY <1>1, NotifiedAwake
<1>2. CASE UNCHANGED <<outcome, revision, frames, waiter>>
  BY <1>2 DEF Publish, NoLostWakeup, Satisfied
<1> QED
  BY <1>1, <1>2 DEF Publish

(* A client goes to sleep only on a condition it found false under the      *)
(* lock.                                                                    *)
LEMMA SleepUnsatisfied ==
  ASSUME SharedTypeOK, NoLostWakeup, NEW c \in Clients, NEW w \in Waiter,
         Leave(c) \/ (~Satisfied(w) /\ Sleep(c, w))
  PROVE  NoLostWakeup'
<1> SUFFICES ASSUME NEW d \in Clients, waiter'[d].on # "none", ~waiter'[d].awake
             PROVE  ~Satisfied(waiter[d])'
  BY DEF NoLostWakeup
<1>0. UNCHANGED <<outcome, revision, frames, closed>>
  BY DEF Leave, Sleep
<1>1. CASE d # c
  <2>1. waiter'[d] = waiter[d]
    BY <1>1 DEF Leave, Sleep, SharedTypeOK
  <2> QED
    BY <1>0, <2>1 DEF NoLostWakeup, Satisfied
<1>2. CASE d = c
  <2>1. ~Leave(c)
    BY <1>2 DEF Leave, NotWaiting, SharedTypeOK
  <2>2. waiter'[d] = [w EXCEPT !.awake = FALSE] /\ ~Satisfied(w)
    BY <1>2, <2>1 DEF Sleep, SharedTypeOK
  <2>3. waiter'[d].on = w.on /\ waiter'[d].arg = w.arg
    BY <2>2 DEF Waiter
  <2> QED
    BY <1>0, <2>2, <2>3 DEF Satisfied
<1> QED
  BY <1>1, <1>2

(* Every step of the session keeps its sleepers honest.                     *)
LEMMA WakeupStep == TypeOK /\ InRange /\ NoLostWakeup /\ [Next]_vars => NoLostWakeup'
<1> SUFFICES ASSUME TypeOK, InRange, NoLostWakeup, [Next]_vars PROVE NoLostWakeup'
  OBVIOUS
<1>0. SharedTypeOK /\ StepFrames /\ revision \in Nat /\ frames \in Nat
  BY Frames DEF TypeOK, SharedTypeOK
<1>1. CASE UNCHANGED sharedVars
  BY <1>1 DEF sharedVars, NoLostWakeup, Satisfied
<1>2. ASSUME NEW exit, NEW absent, Finalize(exit, absent) PROVE NoLostWakeup'
  BY <1>0, <1>2, PublishWakes DEF Finalize, publish_outcome
<1>3. CASE poll_exit_state \/ shutdown_final
  BY <1>1, <1>2, <1>3 DEF poll_exit_state, shutdown_final
<1>4. CASE feed
  <2>1. UNCHANGED sharedVars \/ \E fr : Publish(outcome, revision, fr)
    BY <1>4 DEF feed
  <2> QED
    BY <1>0, <1>1, <2>1, PublishWakes
<1>5. CASE bump_revision
  BY <1>0, <1>5, PublishWakes DEF bump_revision
<1>6. CASE mark_closed
  BY <1>0, <1>6, NotifiedAwake DEF mark_closed
<1>7. ASSUME NEW happened \in BOOLEAN, record_teardown(happened) PROVE NoLostWakeup'
  BY <1>7 DEF record_teardown, NoLostWakeup, Satisfied
<1>8. ASSUME NEW c \in Clients, NEW on \in ClientWaits, wait_on(c, on) PROVE NoLostWakeup'
  <2> DEFINE arg == [outcome |-> 0, revision |-> revision + 1, frames |-> frames][on]
             w   == [on |-> on, arg |-> arg, awake |-> FALSE]
  <2>1. arg \in Nat
    BY <1>0, SessionAssumption
  <2>2. w \in Waiter
    BY <2>1, SessionAssumption DEF Waiter
  <2>3. UNCHANGED sharedVars \/ (~Satisfied(w) /\ Sleep(c, w))
    BY <1>8 DEF wait_on, wait_begin
  <2> HIDE DEF w
  <2> QED
    BY <1>0, <1>1, <2>2, <2>3, SleepUnsatisfied
<1>9. ASSUME NEW c \in Clients, wait_recheck(c) \/ wait_expire(c) PROVE NoLostWakeup'
  <2>1. waiter[c] \in Waiter
    BY <1>0 DEF SharedTypeOK
  <2>2. Leave(c) \/ (~Satisfied(waiter[c]) /\ Sleep(c, waiter[c]))
    BY <1>9 DEF wait_recheck, wait_expire
  <2> QED
    BY <1>0, <2>1, <2>2, SleepUnsatisfied
<1> QED
  BY <1>0, <1>1, <1>3, <1>4, <1>5, <1>6, <1>7, <1>8, <1>9 DEF StepFrames, SharedStep

(* For any number of clients and any interleaving with the publishers: a    *)
(* client asleep in wait_outcome, wait_revision or wait_frame that nobody   *)
(* notified has nothing to wake up for.                                     *)
THEOREM NoWakeupLost == Spec => []NoLostWakeup
<1>1. Init => NoLostWakeup
  BY DEF Init, SharedInit, NoLostWakeup, NotWaiting
<1> QED
  BY <1>1, WakeupStep, Typing, PTL DEF Spec

-----------------------------------------------------------------------------
(* The grid an observer may have seen under the current revision is the     *)
(* current one, except between a feed and the bump that names it, when no   *)
(* op is served.                                                            *)
SeenInv ==
  \A c \in Clients : seen[c] # NoObservation =>
    /\ seen[c].revision <= revision
    /\ wpc \notin {"reply", "reply_write"} /\ seen[c].revision = revision =>
         seen[c].feeds = Len(fed)

(* Every step names its grid: the revision moves on with a feed, and before *)
(* the worker leaves the feed.                                              *)
LEMMA RevisionMoves ==
  TypeOK /\ InRange /\ [Next]_vars =>
    /\ revision' \in Nat /\ revision <= revision'
    /\ \/ revision < revision'
       \/ wpc' \in {"reply", "reply_write"}
       \/ UNCHANGED fed /\ wpc \notin {"reply", "reply_write"}
<1> SUFFICES ASSUME TypeOK, InRange, [Next]_vars
             PROVE  /\ revision' \in Nat /\ revision <= revision'
                    /\ \/ revision < revision'
                       \/ wpc' \in {"reply", "reply_write"}
                       \/ UNCHANGED fed /\ wpc \notin {"reply", "reply_write"}
  OBVIOUS
<1>0. revision \in Nat /\ StepFrames /\ CallFrames
  BY Frames, StepCallFrames DEF TypeOK, SharedTypeOK
<1>1. revision' \in Nat
  BY SharedTyped DEF SharedTypeOK
<1>2. revision <= revision'
  <2>1. Declares => revision' = revision
    BY DEF Declares, Finalize, publish_outcome, Publish
  <2> QED
    BY <1>0, <2>1, OutcomeSteps
<1>3. CASE feed
  <2>1. wpc' = "reply" \/ UNCHANGED fed
    BY <1>3 DEF feed
  <2>2. wpc = "drain"
    BY <1>3 DEF feed
  <2> QED
    BY <1>1, <1>2, <2>1, <2>2
<1>4. CASE route_reply \/ reply_write
  <2>1. bump_revision => revision' = revision + 1
    BY DEF bump_revision, Publish
  <2>2. bump_revision \/ wpc' = "reply_write"
    BY <1>4 DEF route_reply, reply_write
  <2> QED
    BY <1>0, <1>1, <1>2, <2>1, <2>2
<1>5. CASE ~feed /\ ~route_reply /\ ~reply_write
  <2>1. UNCHANGED fed
    BY <1>0, <1>5 DEF StepFrames
  <2>2. wpc \in {"reply", "reply_write"} => wpc' = wpc
    <3>1. CASE worker_top \/ recv_timeout \/ ctl_observe \/ ctl_snapshot \/ ctl_events \/ apply_resize
               \/ ctl_set_colors \/ ctl_shutdown \/ close_input \/ apply_write
      BY <3>1 DEF worker_top, recv_timeout, ctl_observe, ctl_snapshot, ctl_events, apply_resize,
         ctl_set_colors, ctl_shutdown, close_input, apply_write, TakeOp
    <3>2. CASE write_check \/ write_chunk \/ drain_stream_end \/ drain_empty \/ poll_exit_state
      BY <3>2 DEF write_check, write_chunk, drain_stream_end, drain_empty, poll_exit_state
    <3>3. CASE shutdown_poll \/ shutdown_kill \/ shutdown_reap \/ shutdown_final \/ shutdown_close
               \/ worker_drop
      BY <3>3 DEF shutdown_poll, shutdown_kill, shutdown_reap, shutdown_final, shutdown_close,
         worker_drop, ShutdownStep
    <3>4. CASE read \/ send \/ count \/ reader_lost \/ drain_grace
      BY <3>4 DEF read, send, count, reader_lost, drain_grace, workerVars, controlVars
    <3> QED
      BY <1>0, <1>5, <3>1, <3>2, <3>3, <3>4 DEF CallFrames, PumpNext
  <2> QED
    BY <1>1, <1>2, <2>1, <2>2
<1> QED
  BY <1>3, <1>4, <1>5

(* Both parts are inductive together.                                       *)
LEMMA SeenStep ==
  TypeOK /\ InRange /\ SeenInv /\ RevisionNamesState /\ [Next]_vars =>
    SeenInv' /\ RevisionNamesState'
<1> SUFFICES ASSUME TypeOK, InRange, SeenInv, RevisionNamesState, [Next]_vars
             PROVE  SeenInv' /\ RevisionNamesState'
  OBVIOUS
<1>0. /\ revision \in Nat /\ revision' \in Nat /\ revision <= revision'
      /\ seen \in [Clients -> Observation \cup {NoObservation}]
  BY RevisionMoves DEF TypeOK, SharedTypeOK, CallTypeOK
<1>1. \A c \in Clients : seen[c] # NoObservation => seen[c].revision \in Nat
  BY <1>0 DEF Observation
<1>2. CASE UNCHANGED seen
  <2>1. RevisionNamesState'
    BY <1>2 DEF RevisionNamesState
  <2>2. SeenInv'
    <3> SUFFICES ASSUME NEW c \in Clients, seen[c] # NoObservation
                 PROVE  /\ seen[c].revision <= revision'
                        /\ wpc' \notin {"reply", "reply_write"} /\ seen[c].revision = revision' =>
                             seen[c].feeds = Len(fed')
      BY <1>2 DEF SeenInv
    <3>1. seen[c].revision \in Nat /\ seen[c].revision <= revision
      BY <1>1 DEF SeenInv
    <3>2. CASE revision < revision'
      BY <1>0, <3>1, <3>2
    <3>3. CASE wpc' \in {"reply", "reply_write"}
      BY <1>0, <3>1, <3>3
    <3>4. CASE UNCHANGED fed /\ wpc \notin {"reply", "reply_write"} /\ revision' = revision
      BY <3>1, <3>4 DEF SeenInv
    <3> QED
      BY <1>0, <3>2, <3>3, <3>4, RevisionMoves
  <2> QED
    BY <2>1, <2>2
<1>3. CASE ctl_observe
  <2>1. UNCHANGED <<revision, fed>> /\ wpc = "ctl"
    BY <1>3 DEF ctl_observe, TakeOp, sharedVars, captureVars
  <2>2. \A c \in Clients : seen'[c] = seen[c] \/ seen'[c] = observe
    BY <1>0, <1>3 DEF ctl_observe
  <2>3. \A c \in Clients : seen[c] # NoObservation =>
          seen[c].revision <= revision /\ (seen[c].revision = revision => seen[c].feeds = Len(fed))
    BY <2>1 DEF SeenInv
  <2>4. observe.revision = revision /\ observe.feeds = Len(fed) /\ revision <= revision
    BY <1>0 DEF observe
  <2>5. SeenInv'
    BY <2>1, <2>2, <2>3, <2>4 DEF SeenInv
  <2>6. RevisionNamesState'
    BY <2>2, <2>3, <2>4 DEF RevisionNamesState
  <2> QED
    BY <2>5, <2>6
<1> QED
  BY <1>2, <1>3, StepCallFrames DEF CallFrames

(* For any number of clients: two observations with the same revision saw   *)
(* the same grid, since feed bumps the revision before the next op is       *)
(* served (feed, bump_revision, observe).                                   *)
THEOREM RevisionsNameStates == Spec => []RevisionNamesState
<1>1. Init => SeenInv /\ RevisionNamesState
  BY DEF Init, WorkerInit, ChannelInit, SeenInv, RevisionNamesState
<1> QED
  BY <1>1, SeenStep, Typing, PTL DEF Spec

-----------------------------------------------------------------------------
(* How many ops of caller c a control queue holds: none, exactly one.       *)
NoneFrom(q, c) == \A i \in 1..Len(q) : q[i].from # c
OneFrom(q, c)  == \E i \in 1..Len(q) : \A j \in 1..Len(q) : q[j].from = c <=> j = i

(* A caller that waits has one op, queued or running; any other has none.   *)
OwnsOne(c) ==
  /\ call[c] = "await" =>
       IF wop.from = c THEN NoneFrom(ctl_queue, c) ELSE OneFrom(ctl_queue, c)
  /\ call[c] # "await" => wop.from # c /\ NoneFrom(ctl_queue, c)

(* What AnswersOwnCall rests on: the worker runs at most one write, and     *)
(* nobody waits for a Shutdown.                                             *)
CallInv ==
  /\ \A c \in Callers : OwnsOne(c)
  /\ wpc \notin {"write", "write_chunk"} => wop.from = Nobody
  /\ \A i \in 1..Len(ctl_queue) : ctl_queue[i].op = "shutdown" => ctl_queue[i].from = Nobody
  /\ hpc = "open" => call[Owner] # "await"

(* An op sent is counted for its sender only.                               *)
LEMMA AppendOwns ==
  ASSUME NEW q \in Seq(CtlMsg), NEW m \in CtlMsg, NEW c \in Callers
  PROVE  /\ m.from # c /\ NoneFrom(q, c) => NoneFrom(Append(q, m), c)
         /\ m.from # c /\ OneFrom(q, c) => OneFrom(Append(q, m), c)
         /\ m.from = c /\ NoneFrom(q, c) => OneFrom(Append(q, m), c)
<1>0. /\ Len(Append(q, m)) = Len(q) + 1 /\ Len(q) \in Nat
      /\ \A i \in 1..Len(q) : Append(q, m)[i] = q[i] /\ i \in 1..Len(Append(q, m))
      /\ Append(q, m)[Len(q) + 1] = m /\ Len(q) + 1 \in 1..Len(Append(q, m))
      /\ \A i \in 1..Len(Append(q, m)) : i \in 1..Len(q) \/ i = Len(q) + 1
  OBVIOUS
<1>1. m.from # c /\ NoneFrom(q, c) => NoneFrom(Append(q, m), c)
  BY <1>0 DEF NoneFrom
<1>2. ASSUME m.from # c, OneFrom(q, c) PROVE OneFrom(Append(q, m), c)
  <2>1. PICK i \in 1..Len(q) : \A j \in 1..Len(q) : q[j].from = c <=> j = i
    BY <1>2 DEF OneFrom
  <2>2. \A j \in 1..Len(Append(q, m)) : Append(q, m)[j].from = c <=> j = i
    BY <1>0, <1>2, <2>1
  <2> QED
    BY <1>0, <2>2 DEF OneFrom
<1>3. ASSUME m.from = c, NoneFrom(q, c) PROVE OneFrom(Append(q, m), c)
  <2>1. \A j \in 1..Len(Append(q, m)) : Append(q, m)[j].from = c <=> j = Len(q) + 1
    BY <1>0, <1>3 DEF NoneFrom
  <2> QED
    BY <1>0, <2>1 DEF OneFrom
<1> QED
  BY <1>1, <1>2, <1>3

(* An op taken is no longer counted for its sender.                         *)
LEMMA TailOwns ==
  ASSUME NEW q \in Seq(CtlMsg), q # <<>>, NEW c \in Callers
  PROVE  /\ NoneFrom(q, c) => Head(q).from # c /\ NoneFrom(Tail(q), c)
         /\ Head(q).from # c /\ OneFrom(q, c) => OneFrom(Tail(q), c)
         /\ Head(q).from = c /\ OneFrom(q, c) => NoneFrom(Tail(q), c)
<1>0. /\ Len(Tail(q)) = Len(q) - 1 /\ Len(q) >= 1 /\ Len(q) \in Nat
      /\ \A i \in 1..Len(Tail(q)) : Tail(q)[i] = q[i + 1] /\ i + 1 \in 1..Len(q)
      /\ Head(q) = q[1] /\ 1 \in 1..Len(q)
  OBVIOUS
<1>1. NoneFrom(q, c) => Head(q).from # c /\ NoneFrom(Tail(q), c)
  BY <1>0 DEF NoneFrom
<1>2. ASSUME OneFrom(q, c)
      PROVE  /\ Head(q).from # c => OneFrom(Tail(q), c)
             /\ Head(q).from = c => NoneFrom(Tail(q), c)
  <2>1. PICK i \in 1..Len(q) : \A j \in 1..Len(q) : q[j].from = c <=> j = i
    BY <1>2 DEF OneFrom
  <2>2. CASE Head(q).from = c
    <3>1. i = 1
      BY <1>0, <2>1, <2>2
    <3>2. \A j \in 1..Len(Tail(q)) : j + 1 # 1
      BY <1>0
    <3> QED
      BY <1>0, <2>1, <2>2, <3>1, <3>2 DEF NoneFrom
  <2>3. CASE Head(q).from # c
    <3>1. i # 1
      BY <1>0, <2>1, <2>3
    <3>2. i - 1 \in 1..Len(Tail(q)) /\ \A j \in 1..Len(Tail(q)) : j + 1 = i <=> j = i - 1
      BY <1>0, <3>1
    <3>3. \A j \in 1..Len(Tail(q)) : Tail(q)[j].from = c <=> j = i - 1
      BY <1>0, <2>1, <3>2
    <3> QED
      BY <2>3, <3>2, <3>3 DEF OneFrom
  <2> QED
    BY <2>2, <2>3
<1> QED
  BY <1>1, <1>2

(* The steps of a call, by what they do to the queue, the write and the     *)
(* callers.                                                                 *)
Asks(d) ==
  /\ call[d] # "await" /\ call' = [call EXCEPT ![d] = "await"]
  /\ \E op \in ControlOps : ctl_queue' = Append(ctl_queue, [op |-> op, from |-> d])
  /\ wop'.from = wop.from /\ (d = Owner => hpc' # "open")

Notifies ==
  /\ ctl_queue' = Append(ctl_queue, [op |-> "shutdown", from |-> Nobody])
  /\ UNCHANGED call /\ wop'.from = wop.from

Answers ==
  /\ ctl_queue # <<>> /\ ctl_queue' = Tail(ctl_queue)
  /\ \E result \in CallResult \ {"await"} : Reply(From, result)
  /\ wop'.from = wop.from

StartsWrite ==
  /\ ctl_queue # <<>> /\ ctl_queue' = Tail(ctl_queue)
  /\ UNCHANGED call /\ wop'.from = From /\ wop.from = Nobody

EndsWrite ==
  /\ UNCHANGED ctl_queue /\ wop'.from = Nobody
  /\ \E result \in CallResult \ {"await"} : Reply(wop.from, result)

SignalMoves(d) ==
  /\ call[d] # "await" /\ UNCHANGED ctl_queue /\ wop'.from = wop.from
  /\ \E result \in CallResult \ {"await"} : call' = [call EXCEPT ![d] = result]

CallShapes ==
  \/ \E d \in Callers : Asks(d) \/ SignalMoves(d) \/ Orphan(d)
  \/ Notifies \/ Answers \/ StartsWrite \/ EndsWrite
  \/ UNCHANGED <<ctl_queue, call>> /\ wop'.from = wop.from

(* Each of them keeps one op for each caller that waits.                    *)
LEMMA ShapesOwn ==
  ASSUME TypeOK, CallInv, CallShapes, NEW c \in Callers
  PROVE  OwnsOne(c)'
<1>0. /\ ctl_queue \in Seq(CtlMsg) /\ call \in [Callers -> CallResult] /\ OwnsOne(c)
      /\ c # Nobody /\ Nobody \notin Callers /\ wop.from \in Callers \cup {Nobody}
  BY WorkerAssumption DEF TypeOK, CallTypeOK, CallInv, Callers
<1>1. ASSUME NEW d \in Callers, Asks(d) PROVE OwnsOne(c)'
  <2>1. PICK op \in ControlOps : ctl_queue' = Append(ctl_queue, [op |-> op, from |-> d])
    BY <1>1 DEF Asks
  <2> DEFINE m == [op |-> op, from |-> d]
  <2>2. m \in CtlMsg /\ m.from = d
    BY DEF CtlMsg
  <2> HIDE DEF m
  <2>3. ctl_queue' = Append(ctl_queue, m)
    BY <2>1 DEF m
  <2>4. wop'.from = wop.from /\ call[d] # "await" /\ call'[d] = "await"
        /\ (c # d => call'[c] = call[c])
    BY <1>0, <1>1 DEF Asks
  <2> QED
    BY <1>0, <2>2, <2>3, <2>4, AppendOwns DEF OwnsOne
<1>2. CASE Notifies
  <2> DEFINE m == [op |-> "shutdown", from |-> Nobody]
  <2>1. m \in CtlMsg /\ m.from = Nobody
    BY DEF CtlMsg
  <2> HIDE DEF m
  <2>2. ctl_queue' = Append(ctl_queue, m) /\ call' = call /\ wop'.from = wop.from
    BY <1>2 DEF Notifies, m
  <2> QED
    BY <1>0, <2>1, <2>2, AppendOwns DEF OwnsOne
<1>3. CASE Answers
  <2>1. PICK result \in CallResult \ {"await"} : Reply(From, result)
    BY <1>3 DEF Answers
  <2>2. ctl_queue # <<>> /\ ctl_queue' = Tail(ctl_queue) /\ wop'.from = wop.from
    BY <1>3 DEF Answers
  <2>3. CASE Head(ctl_queue).from = c
    <3>1. call'[c] # "await"
      BY <1>0, <2>1, <2>3 DEF Reply, From
    <3>2. ~NoneFrom(ctl_queue, c)
      BY <1>0, <2>2, <2>3, TailOwns
    <3>3. wop.from # c /\ OneFrom(ctl_queue, c)
      BY <1>0, <3>2 DEF OwnsOne
    <3> QED
      BY <1>0, <2>2, <2>3, <3>1, <3>3, TailOwns DEF OwnsOne
  <2>4. CASE Head(ctl_queue).from # c
    <3>1. call'[c] = call[c]
      BY <1>0, <2>1, <2>4 DEF Reply, From
    <3> QED
      BY <1>0, <2>2, <2>4, <3>1, TailOwns DEF OwnsOne
  <2> QED
    BY <2>3, <2>4
<1>4. CASE StartsWrite
  <2>1. /\ ctl_queue # <<>> /\ ctl_queue' = Tail(ctl_queue) /\ call' = call
        /\ wop'.from = Head(ctl_queue).from /\ wop.from # c
    BY <1>0, <1>4 DEF StartsWrite, From
  <2>2. CASE Head(ctl_queue).from = c
    <3>1. ~NoneFrom(ctl_queue, c)
      BY <1>0, <2>1, <2>2, TailOwns
    <3>2. call[c] = "await" /\ OneFrom(ctl_queue, c)
      BY <1>0, <2>1, <3>1 DEF OwnsOne
    <3> QED
      BY <1>0, <2>1, <2>2, <3>2, TailOwns DEF OwnsOne
  <2>3. CASE Head(ctl_queue).from # c
    BY <1>0, <2>1, <2>3, TailOwns DEF OwnsOne
  <2> QED
    BY <2>2, <2>3
<1>5. CASE EndsWrite
  <2>1. PICK result \in CallResult \ {"await"} : Reply(wop.from, result)
    BY <1>5 DEF EndsWrite
  <2>2. ctl_queue' = ctl_queue /\ wop'.from # c
    BY <1>0, <1>5 DEF EndsWrite
  <2>3. CASE wop.from = c
    <3>1. call'[c] # "await"
      BY <1>0, <2>1, <2>3 DEF Reply
    <3> QED
      BY <1>0, <2>2, <2>3, <3>1 DEF OwnsOne
  <2>4. CASE wop.from # c
    <3>1. call'[c] = call[c]
      BY <1>0, <2>1, <2>4 DEF Reply
    <3> QED
      BY <1>0, <2>2, <2>4, <3>1 DEF OwnsOne
  <2> QED
    BY <2>3, <2>4
<1>6. ASSUME NEW d \in Callers, SignalMoves(d) PROVE OwnsOne(c)'
  <2>1. ctl_queue' = ctl_queue /\ wop'.from = wop.from /\ (call'[c] = "await" <=> call[c] = "await")
    BY <1>0, <1>6 DEF SignalMoves
  <2> QED
    BY <1>0, <2>1 DEF OwnsOne
<1>7. ASSUME NEW d \in Callers, Orphan(d) PROVE OwnsOne(c)'
  <2>1. Len(ctl_queue) \in Nat /\ \A i \in 1..Len(ctl_queue) : ctl_queue[i] \in CtlMsg
    BY <1>0, ElementOfSeq
  <2>2. ctl_queue' = [i \in 1..Len(ctl_queue) |->
                     IF ctl_queue[i].from = d THEN [ctl_queue[i] EXCEPT !.from = Nobody]
                     ELSE ctl_queue[i]]
    BY <1>7 DEF Orphan
  <2>3. Len(ctl_queue') = Len(ctl_queue)
    BY <2>1, <2>2
  <2>4. \A i \in 1..Len(ctl_queue) :
          ctl_queue'[i].from = (IF ctl_queue[i].from = d THEN Nobody ELSE ctl_queue[i].from)
    BY <2>1, <2>2 DEF CtlMsg
  <2>5. wop'.from = IF wop.from = d THEN Nobody ELSE wop.from
    BY <1>7 DEF Orphan, TypeOK, CallTypeOK
  <2>6. call'[d] = "timeout" /\ (c # d => call'[c] = call[c])
    BY <1>0, <1>7 DEF Orphan
  <2>7. CASE c = d
    BY <1>0, <2>3, <2>4, <2>5, <2>6, <2>7 DEF OwnsOne, NoneFrom
  <2>8. CASE c # d
    <3>1. \A i \in 1..Len(ctl_queue) : ctl_queue'[i].from = c <=> ctl_queue[i].from = c
      BY <1>0, <2>4, <2>8
    <3>2. NoneFrom(ctl_queue', c) <=> NoneFrom(ctl_queue, c)
      BY <2>3, <3>1 DEF NoneFrom
    <3>3. OneFrom(ctl_queue, c) => OneFrom(ctl_queue', c)
      <4> SUFFICES ASSUME NEW i \in 1..Len(ctl_queue),
                          \A j \in 1..Len(ctl_queue) : ctl_queue[j].from = c <=> j = i
                   PROVE  OneFrom(ctl_queue', c)
        BY DEF OneFrom
      <4>1. \A j \in 1..Len(ctl_queue) : ctl_queue'[j].from = c <=> j = i
        BY <3>1
      <4> QED
        BY <2>3, <4>1 DEF OneFrom
    <3>4. wop'.from = c <=> wop.from = c
      BY <1>0, <2>5, <2>8
    <3> QED
      BY <1>0, <2>6, <2>8, <3>2, <3>3, <3>4 DEF OwnsOne
  <2> QED
    BY <2>7, <2>8
<1>8. CASE UNCHANGED <<ctl_queue, call>> /\ wop'.from = wop.from
  BY <1>0, <1>8 DEF OwnsOne
<1> QED
  BY <1>1, <1>2, <1>3, <1>4, <1>5, <1>6, <1>7, <1>8 DEF CallShapes

(* What a step of the worker does to the calls.                             *)
LEMMA PumpShapes == TypeOK /\ CallInv /\ PumpNext => CallShapes
<1> SUFFICES ASSUME TypeOK, CallInv, PumpNext PROVE CallShapes
  OBVIOUS
<1> USE DEF CallShapes
<1>0. wop \in [from : Callers \cup {Nobody}, left : Nat] /\ ctl_queue \in Seq(CtlMsg)
  BY DEF TypeOK, CallTypeOK
<1>1. ASSUME NEW op, NEW result \in CallResult \ {"await"}, TakeOp(op), Reply(From, result), UNCHANGED wop
      PROVE  Answers
  BY <1>1 DEF Answers, TakeOp
<1>2. CASE ctl_observe \/ ctl_snapshot \/ ctl_events \/ ctl_set_colors
  BY <1>1, <1>2 DEF ctl_observe, ctl_snapshot, ctl_events, ctl_set_colors, CallResult
<1>3. CASE apply_resize
  BY <1>1, <1>3 DEF apply_resize, CallResult
<1>4. CASE close_input
  BY <1>1, <1>4 DEF close_input, CallResult
<1>5. CASE ctl_shutdown
  <2>1. From = Nobody
    <3>1. ctl_queue # <<>> /\ Head(ctl_queue).op = "shutdown"
      BY <1>5 DEF ctl_shutdown, TakeOp
    <3>2. Head(ctl_queue) = ctl_queue[1] /\ 1 \in 1..Len(ctl_queue)
      BY <1>0, <3>1
    <3> QED
      BY <3>1, <3>2 DEF CallInv, From
  <2>2. Reply(From, "ok") /\ "ok" \in CallResult \ {"await"}
    BY <1>5, <2>1 DEF Reply, ctl_shutdown, callVars, CallResult
  <2> QED
    BY <1>1, <1>5, <2>2 DEF ctl_shutdown
<1>6. CASE apply_write
  <2>1. TakeOp("write")
    BY <1>6 DEF apply_write
  <2>2. CASE exited = NoStatus /\ ~shutdown /\ writer
    <3>1. wop'.from = From /\ UNCHANGED call
      BY <1>6, <2>2 DEF apply_write
    <3>2. wop.from = Nobody
      BY <2>1 DEF TakeOp, CallInv
    <3> QED
      BY <2>1, <3>1, <3>2 DEF StartsWrite, TakeOp
  <2>3. CASE ~(exited = NoStatus /\ ~shutdown /\ writer)
    BY <1>1, <1>6, <2>3 DEF apply_write, CallResult
  <2> QED
    BY <2>2, <2>3
<1>7. ASSUME NEW result \in CallResult \ {"await"}, WriteReturns(result), UNCHANGED ctl_queue
      PROVE  EndsWrite
  BY <1>7 DEF WriteReturns, EndsWrite, NoWrite
<1>8. CASE write_check
  <2>1. UNCHANGED ctl_queue
    BY <1>8 DEF write_check, ctlVars
  <2>2. \/ \E result \in CallResult \ {"await"} : WriteReturns(result)
        \/ UNCHANGED <<call, wop>>
    BY <1>8 DEF write_check, CallResult
  <2> QED
    BY <1>7, <2>1, <2>2
<1>9. CASE write_chunk
  <2>1. UNCHANGED ctl_queue
    BY <1>9 DEF write_chunk, ctlVars
  <2>2. CASE wop' = [wop EXCEPT !.left = wop.left - 1] /\ UNCHANGED call
    BY <1>0, <2>1, <2>2
  <2>3. CASE WriteReturns("io")
    BY <1>7, <2>1, <2>3 DEF CallResult
  <2> QED
    BY <1>9, <2>2, <2>3 DEF write_chunk
<1>10. CASE UNCHANGED <<ctl_queue, call, wop>>
  BY <1>10
<1>11. CASE worker_top \/ recv_timeout \/ feed \/ route_reply \/ reply_write \/ drain_stream_end
            \/ drain_empty \/ poll_exit_state
  BY <1>10, <1>11 DEF worker_top, recv_timeout, feed, route_reply, reply_write, drain_stream_end,
     drain_empty, poll_exit_state, ctlVars, callVars, controlVars
<1>12. CASE shutdown_poll \/ shutdown_kill \/ shutdown_reap \/ shutdown_final \/ shutdown_close
            \/ worker_drop
  BY <1>10, <1>12 DEF shutdown_poll, shutdown_kill, shutdown_reap, shutdown_final, shutdown_close,
     worker_drop, ShutdownStep, ctlVars, callVars
<1>13. CASE read \/ send \/ count \/ reader_lost \/ drain_grace
  BY <1>10, <1>13 DEF read, send, count, reader_lost, drain_grace, workerVars, controlVars, ctlVars,
     callVars
<1> QED
  BY <1>2, <1>3, <1>4, <1>5, <1>6, <1>8, <1>9, <1>11, <1>12, <1>13 DEF PumpNext

(* What any step does to the calls.                                         *)
LEMMA StepShapes == TypeOK /\ CallInv /\ [Next]_vars => CallShapes
<1> SUFFICES ASSUME TypeOK, CallInv, [Next]_vars PROVE CallShapes
  OBVIOUS
<1> USE DEF CallShapes
<1>1. CASE PumpNext
  BY <1>1, PumpShapes DEF CallShapes
<1>2. CASE UNCHANGED <<ctl_queue, call, wop>>
  BY <1>2
<1>3. ASSUME NEW c \in Clients, ClientNext(c) PROVE CallShapes
  <2>0. c \in Callers
    BY DEF Callers
  <2>1. ASSUME NEW op \in ClientOps, send_op(c, op) PROVE Asks(c)
    <3>1. op \in ControlOps
      BY SessionAssumption
    <3>2. UNCHANGED wop /\ call[c] # "await"
      BY <2>1 DEF send_op, Begins, Idle, workerVars, controlVars
    <3> QED
      BY <2>1, <3>1, <3>2, WorkerAssumption DEF send_op, Asks
  <2>2. CASE reply_timeout(c)
    BY <2>0, <2>2 DEF reply_timeout
  <2>3. CASE signal_check(c)
    BY <2>0, <2>3 DEF signal_check, Begins, Idle, SignalMoves, CallResult, ctlVars, workerVars, controlVars
  <2>4. CASE signal_send(c)
    BY <2>0, <2>4 DEF signal_send, SignalMoves, CallResult, ctlVars, workerVars, controlVars
  <2>5. ASSUME NEW on, wait_on(c, on) PROVE UNCHANGED <<ctl_queue, call, wop>>
    BY <2>5 DEF wait_on, ctlVars, callVars, workerVars, controlVars
  <2>6. CASE wait_wakes(c)
    BY <1>2, <2>6 DEF wait_wakes, ctlVars, callVars, workerVars, controlVars
  <2> QED
    BY <1>2, <1>3, <2>0, <2>1, <2>2, <2>3, <2>4, <2>5, <2>6 DEF ClientNext
<1>4. CASE OwnerNext
  <2>0. Owner \in Callers
    BY DEF Callers
  <2>1. CASE finish
    <3>1. call[Owner] # "await" /\ "close_input" \in ControlOps
      BY <2>1 DEF finish, CallInv, ControlOps
    <3>2. Asks(Owner)
      BY <2>1, <3>1 DEF finish, Asks, workerVars, controlVars
    <3> QED
      BY <2>0, <3>2
  <2>2. CASE reply_timeout(Owner)
    BY <2>0, <2>2 DEF reply_timeout
  <2>3. CASE teardown_ctl
    BY <2>3 DEF teardown_ctl, Notifies, callVars, workerVars, controlVars
  <2>4. CASE finish_reply \/ finish_wait \/ close \/ teardown_kill \/ join_worker \/ join_reader
             \/ teardown_reap
    BY <1>2, <2>4 DEF finish_reply, finish_wait, close, teardown_kill, join_worker, join_reader,
       teardown_reap, ctlVars, callVars, workerVars, controlVars
  <2> QED
    BY <1>4, <2>1, <2>2, <2>3, <2>4 DEF OwnerNext, TeardownNext
<1>5. CASE ChildNext
  BY <1>2, <1>5 DEF ChildNext, child_writes, child_reads, child_forks, descendant_exits, child_ends,
     PtyStep, ctlVars, callVars, workerVars, controlVars
<1>6. CASE UNCHANGED vars
  BY <1>2, <1>6 DEF vars, ctlVars, callVars, workerVars, controlVars
<1> QED
  BY <1>1, <1>3, <1>4, <1>5, <1>6 DEF Next, Finished

(* The worker holds a write only while it writes.                           *)
LEMMA WriteHeld ==
  TypeOK /\ CallInv /\ [Next]_vars => (wpc' \notin {"write", "write_chunk"} => wop'.from = Nobody)
<1> SUFFICES ASSUME TypeOK, CallInv, [Next]_vars, wpc' \notin {"write", "write_chunk"}
             PROVE  wop'.from = Nobody
  OBVIOUS
<1>0. CallFrames /\ wop \in [from : Callers \cup {Nobody}, left : Nat]
  BY StepCallFrames DEF TypeOK, CallTypeOK
<1>1. ASSUME NEW result, WriteReturns(result) PROVE wop'.from = Nobody
  BY <1>1 DEF WriteReturns, NoWrite
<1>2. CASE apply_write
  BY <1>2 DEF apply_write, TakeOp, CallInv
<1>3. CASE write_check
  BY <1>1, <1>3 DEF write_check
<1>4. CASE write_chunk
  BY <1>1, <1>4 DEF write_chunk
<1>5. wpc \in {"write", "write_chunk"} => write_check \/ write_chunk \/ UNCHANGED wpc
  <2>1. CASE worker_top \/ recv_timeout \/ ctl_observe \/ ctl_snapshot \/ ctl_events \/ apply_resize
             \/ ctl_set_colors \/ ctl_shutdown \/ close_input \/ apply_write
    BY <2>1 DEF worker_top, recv_timeout, ctl_observe, ctl_snapshot, ctl_events, apply_resize,
       ctl_set_colors, ctl_shutdown, close_input, apply_write, TakeOp
  <2>2. CASE feed \/ route_reply \/ reply_write \/ drain_stream_end \/ drain_empty \/ poll_exit_state
    BY <2>2 DEF feed, route_reply, reply_write, drain_stream_end, drain_empty, poll_exit_state
  <2>3. CASE shutdown_poll \/ shutdown_kill \/ shutdown_reap \/ shutdown_final \/ shutdown_close
             \/ worker_drop
    BY <2>3 DEF shutdown_poll, shutdown_kill, shutdown_reap, shutdown_final, shutdown_close,
       worker_drop, ShutdownStep
  <2>4. CASE read \/ send \/ count \/ reader_lost \/ drain_grace
    BY <2>4 DEF read, send, count, reader_lost, drain_grace, workerVars, controlVars
  <2> QED
    BY <1>0, <2>1, <2>2, <2>3, <2>4 DEF CallFrames, PumpNext
<1>6. CASE wpc \notin {"write", "write_chunk"} /\ ~apply_write
  <2>1. wop.from = Nobody
    BY <1>6 DEF CallInv
  <2>2. ASSUME NEW c \in Callers, Orphan(c) PROVE wop'.from = Nobody
    BY <1>0, <2>1, <2>2 DEF Orphan
  <2> QED
    BY <1>0, <1>3, <1>4, <1>6, <2>1, <2>2 DEF CallFrames
<1> QED
  BY <1>2, <1>3, <1>4, <1>5, <1>6

(* Nobody waits for a Shutdown.                                             *)
LEMMA ShutdownFromNobody ==
  TypeOK /\ CallInv /\ CallShapes =>
    \A i \in 1..Len(ctl_queue') : ctl_queue'[i].op = "shutdown" => ctl_queue'[i].from = Nobody
<1> SUFFICES ASSUME TypeOK, CallInv, CallShapes, NEW i \in 1..Len(ctl_queue'),
                    ctl_queue'[i].op = "shutdown"
             PROVE  ctl_queue'[i].from = Nobody
  OBVIOUS
<1>0. /\ ctl_queue \in Seq(CtlMsg)
      /\ \A j \in 1..Len(ctl_queue) : ctl_queue[j].op = "shutdown" => ctl_queue[j].from = Nobody
  BY DEF TypeOK, CallTypeOK, CallInv
<1>1. ASSUME NEW m \in CtlMsg, ctl_queue' = Append(ctl_queue, m), m.op = "shutdown" => m.from = Nobody
      PROVE  ctl_queue'[i].from = Nobody
  BY <1>0, <1>1, CtlShapes
<1>2. ASSUME NEW d \in Callers, Asks(d) PROVE ctl_queue'[i].from = Nobody
  <2>1. PICK op \in ControlOps : ctl_queue' = Append(ctl_queue, [op |-> op, from |-> d])
    BY <1>2 DEF Asks
  <2>2. [op |-> op, from |-> d] \in CtlMsg /\ op # "shutdown"
    BY DEF CtlMsg, ControlOps
  <2> QED
    BY <1>1, <2>1, <2>2
<1>3. CASE Notifies
  <2>1. [op |-> "shutdown", from |-> Nobody] \in CtlMsg
    BY DEF CtlMsg
  <2> QED
    BY <1>1, <1>3, <2>1 DEF Notifies
<1>4. CASE Answers \/ StartsWrite
  <2>1. ctl_queue # <<>> /\ ctl_queue' = Tail(ctl_queue)
    BY <1>4 DEF Answers, StartsWrite
  <2>2. Head(ctl_queue) \in CtlMsg
    BY <1>0, <2>1
  <2> QED
    BY <1>0, <2>1, <2>2, CtlShapes
<1>5. ASSUME NEW d \in Callers, Orphan(d) PROVE ctl_queue'[i].from = Nobody
  <2>1. Len(ctl_queue') = Len(ctl_queue) /\ ctl_queue'[i].op = ctl_queue[i].op
    BY <1>5, OrphanKeepsOps
  <2>2. ctl_queue[i] \in CtlMsg /\ ctl_queue[i].from = Nobody
    BY <1>0, <2>1, ElementOfSeq
  <2>3. ctl_queue'[i] = IF ctl_queue[i].from = d THEN [ctl_queue[i] EXCEPT !.from = Nobody] ELSE ctl_queue[i]
    BY <1>5, <2>1 DEF Orphan
  <2> QED
    BY <2>2, <2>3 DEF CtlMsg
<1>6. CASE UNCHANGED ctl_queue
  BY <1>0, <1>6
<1> QED
  BY <1>2, <1>3, <1>4, <1>5, <1>6 DEF CallShapes, SignalMoves, EndsWrite

(* The owner waits for a reply only after finish has asked.                 *)
LEMMA OwnerAsks == TypeOK /\ CallInv /\ [Next]_vars => (hpc' = "open" => call'[Owner] # "await")
<1> SUFFICES ASSUME TypeOK, CallInv, [Next]_vars, hpc' = "open" PROVE call'[Owner] # "await"
  OBVIOUS
<1>0. call \in [Callers -> CallResult] /\ Owner \in Callers /\ Owner \notin Clients
  BY WorkerAssumption DEF TypeOK, CallTypeOK, Callers
<1>1. hpc = "open" /\ ~finish
  BY StepCallFrames DEF CallFrames, OwnerNext, TeardownNext, finish, reply_timeout, finish_reply,
     finish_wait, close, Teardown, teardown_kill, teardown_ctl, join_worker, join_reader,
     teardown_reap, ownerVars
<1>2. call[Owner] # "await"
  BY <1>1 DEF CallInv
<1>3. ASSUME NEW from, NEW result \in CallResult \ {"await"}, Reply(from, result)
      PROVE  call'[Owner] # "await"
  BY <1>0, <1>2, <1>3 DEF Reply
<1>4. ASSUME NEW d \in Callers, Asks(d) \/ SignalMoves(d) \/ Orphan(d)
      PROVE  call'[Owner] # "await" \/ (d = Owner /\ Asks(d))
  BY <1>0, <1>2, <1>4 DEF Asks, SignalMoves, Orphan
<1>5. ~Asks(Owner)
  BY DEF Asks
<1> QED
  BY <1>2, <1>3, <1>4, <1>5, StepShapes
     DEF CallShapes, Notifies, Answers, StartsWrite, EndsWrite

(* Every step of the session keeps one op for each caller that waits.       *)
LEMMA CallsKept == TypeOK /\ CallInv /\ [Next]_vars => CallInv'
<1> SUFFICES ASSUME TypeOK, CallInv, [Next]_vars PROVE CallInv'
  OBVIOUS
<1>1. CallShapes
  BY StepShapes
<1>2. (\A c \in Callers : OwnsOne(c))'
  BY <1>1, ShapesOwn DEF Callers
<1> QED
  BY <1>1, <1>2, WriteHeld, ShutdownFromNobody, OwnerAsks DEF CallInv

(* What CallInv says of the number of ops.                                  *)
LEMMA OwnsCounts == TypeOK /\ CallInv => AnswersOwnCall
<1> SUFFICES ASSUME TypeOK, CallInv, NEW c \in Callers
             PROVE  Owned(c) = (IF call[c] = "await" THEN 1 ELSE 0)
  BY DEF AnswersOwnCall
<1> DEFINE mine == {i \in 1..Len(ctl_queue) : ctl_queue[i].from = c}
<1>0. OwnsOne(c)
  BY DEF CallInv
<1>1. NoneFrom(ctl_queue, c) => Cardinality(mine) = 0
  <2>1. NoneFrom(ctl_queue, c) => mine = {}
    BY DEF NoneFrom
  <2> QED
    BY <2>1, FS_EmptySet
<1>2. OneFrom(ctl_queue, c) => Cardinality(mine) = 1
  <2> SUFFICES ASSUME NEW i \in 1..Len(ctl_queue),
                      \A j \in 1..Len(ctl_queue) : ctl_queue[j].from = c <=> j = i
               PROVE  Cardinality(mine) = 1
    BY DEF OneFrom
  <2>1. mine = {i}
    OBVIOUS
  <2> QED
    BY <2>1, FS_Singleton
<1> HIDE DEF mine
<1>3. Owned(c) = Cardinality(mine) + (IF wop.from = c THEN 1 ELSE 0)
  BY DEF Owned, mine
<1> QED
  BY <1>0, <1>1, <1>2, <1>3 DEF OwnsOne

(* For any number of clients and any queue: the worker holds exactly one op *)
(* for a caller that waits and none for the others, so an answer is never   *)
(* taken for another call's, and an op abandoned at REPLY_TIMEOUT answers   *)
(* nobody (send_op, apply_op, the dropped reply receiver).                  *)
THEOREM CallersAnswered == Spec => []AnswersOwnCall
<1>1. Init => CallInv
  <2> SUFFICES ASSUME Init PROVE CallInv
    OBVIOUS
  <2>1. /\ ctl_queue = <<>> /\ call = [c \in Callers |-> "none"] /\ wop.from = Nobody
        /\ hpc = "open" /\ Owner \in Callers /\ Nobody \notin Callers
    BY WorkerAssumption DEF Init, WorkerInit, ChannelInit, ThreadInit, Callers, NoWrite
  <2>2. 1..Len(ctl_queue) = {}
    BY <2>1
  <2> QED
    BY <2>1, <2>2 DEF CallInv, OwnsOne, NoneFrom
<1> QED
  BY <1>1, CallsKept, OwnsCounts, Typing, PTL DEF Spec
=============================================================================
