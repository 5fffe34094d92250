-------------------------- MODULE PtySessionTyping --------------------------
(***************************************************************************)
(* Which actions of PtySession touch which variables, stated and proved    *)
(* once; the first invariant, which needs nothing else: no signal is sent  *)
(* to a reaped child; and the type invariant, part by part: each lemma     *)
(* goes through the few actions that the frames leave for the part.        *)
(***************************************************************************)
EXTENDS PtySession, FiniteSetTheorems, SequenceTheorems, TLAPS

(* The critical sections that touch the child.                              *)
ChildStep ==
  \/ child_ends
  \/ \E r \in PollResults : poll(r)
  \/ \E fatal \in BOOLEAN, ok \in BOOLEAN : signal_locked(fatal, ok)
  \/ \E ok \in BOOLEAN : kill_locked(ok)
  \/ \E ok \in BOOLEAN : wait_locked(ok)

(* The critical sections that touch the Shared rendezvous.                  *)
SharedStep ==
  \/ poll_exit_state \/ shutdown_final \/ feed
  \/ bump_revision \/ mark_closed
  \/ \E happened \in BOOLEAN : record_teardown(happened)
  \/ \E c \in Clients, on \in ClientWaits : wait_on(c, on)
  \/ \E c \in Clients : wait_recheck(c) \/ wait_expire(c)

(* Who changes what: every step either leaves a group of variables alone or  *)
(* is one of the few actions listed for it.                                  *)
StepFrames ==
  /\ ChildStep \/ UNCHANGED childVars
  /\ SharedStep \/ UNCHANGED sharedVars
  /\ (\E b \in Batch : child_writes(b)) \/ UNCHANGED produced
  /\ child_forks \/ descendant_exits \/ UNCHANGED slave_held
  /\ WriteStdin \/ child_reads \/ UNCHANGED stdin
  /\ read \/ send \/ count \/ reader_lost \/ UNCHANGED readerVars
  /\ send \/ count \/ feed \/ drain_stream_end \/ UNCHANGED dataVars
  /\ feed \/ UNCHANGED <<fed, dropped_after_drain>>
  /\ drain_stream_end \/ drain_empty \/ UNCHANGED stream_end
  /\ poll_exit_state \/ shutdown_final \/ UNCHANGED <<finalized, final_stream>>
  /\ write_check \/ poll_exit_state \/ shutdown_final \/ UNCHANGED exited
  /\ feed \/ route_reply \/ reply_write \/ ctl_events \/ apply_resize \/ UNCHANGED pump
  /\ drain_grace \/ UNCHANGED grace_over
  /\ close_input \/ worker_drop \/ UNCHANGED writer

(* The steps of the pump threads respect the frames.                        *)
LEMMA PumpFrames == PumpNext => StepFrames
<1> SUFFICES ASSUME PumpNext PROVE StepFrames
  OBVIOUS
<1> USE DEF StepFrames, childVars, sharedVars, ptyVars, readerVars, dataVars,
         workerVars, controlVars, captureVars
<1>1. CASE worker_top \/ recv_timeout \/ ctl_observe \/ ctl_snapshot \/ ctl_shutdown
  BY <1>1 DEF worker_top, recv_timeout, ctl_observe, ctl_snapshot, ctl_shutdown
<1>2. CASE ctl_events
  BY <1>2 DEF ctl_events
<1>3. CASE apply_resize
  BY <1>3 DEF apply_resize, SharedStep
<1>4. CASE ctl_set_colors
  BY <1>4 DEF ctl_set_colors, SharedStep
<1>5. CASE close_input
  BY <1>5 DEF close_input, SharedStep
<1>6. CASE apply_write
  BY <1>6 DEF apply_write
<1>7. CASE write_check
  BY <1>7 DEF write_check, ChildStep
<1>8. CASE write_chunk
  BY <1>8 DEF write_chunk
<1>9. CASE feed
  BY <1>9 DEF feed, SharedStep
<1>10. CASE route_reply
  BY <1>10 DEF route_reply, SharedStep
<1>11. CASE reply_write
  BY <1>11 DEF reply_write, SharedStep
<1>12. CASE drain_stream_end \/ drain_empty \/ drain_grace
  BY <1>12 DEF drain_stream_end, drain_empty, drain_grace
<1>13. CASE poll_exit_state
  BY <1>13 DEF poll_exit_state, poll_exit_observed, SharedStep, ChildStep
<1>14. CASE shutdown_poll \/ shutdown_reap
  BY <1>14 DEF shutdown_poll, shutdown_reap, SharedStep, ChildStep
<1>15. CASE shutdown_kill
  BY <1>15 DEF shutdown_kill, SharedStep, ChildStep
<1>16. CASE shutdown_final
  BY <1>16 DEF shutdown_final, poll_exit_observed, SharedStep, ChildStep
<1>17. CASE shutdown_close
  BY <1>17 DEF shutdown_close, SharedStep
<1>18. CASE worker_drop
  BY <1>18 DEF worker_drop
<1>19. CASE read \/ send \/ count \/ reader_lost
  BY <1>19 DEF read, send, count, reader_lost
<1> QED
  BY <1>1, <1>2, <1>3, <1>4, <1>5, <1>6, <1>7, <1>8, <1>9, <1>10, <1>11, <1>12, <1>13, <1>14,
     <1>15, <1>16, <1>17, <1>18, <1>19 DEF PumpNext

(* Every step respects the frames.                                          *)
LEMMA Frames == [Next]_vars => StepFrames
<1> SUFFICES ASSUME [Next]_vars PROVE StepFrames
  OBVIOUS
<1> USE DEF StepFrames, childVars, sharedVars, ptyVars, readerVars, dataVars,
         workerVars, controlVars, captureVars
<1>1. CASE PumpNext
  BY <1>1, PumpFrames
<1>2. ASSUME NEW c \in Clients, ClientNext(c) PROVE StepFrames
  <2>1. ASSUME NEW op \in ClientOps, send_op(c, op) PROVE StepFrames
    BY <2>1 DEF send_op
  <2>2. CASE reply_timeout(c)
    BY <2>2 DEF reply_timeout
  <2>3. CASE signal_check(c)
    BY <2>3 DEF signal_check
  <2>4. CASE signal_send(c)
    BY <2>4, SessionAssumption DEF signal_send, ChildStep
  <2>5. ASSUME NEW on \in ClientWaits, wait_on(c, on) PROVE StepFrames
    <3>1. SharedStep
      BY <2>5 DEF SharedStep
    <3> QED
      BY <3>1, <2>5 DEF wait_on
  <2>6. CASE wait_wakes(c)
    <3>1. SharedStep
      BY <2>6 DEF wait_wakes, SharedStep
    <3> QED
      BY <3>1, <2>6 DEF wait_wakes
  <2> QED
    BY <1>2, <2>1, <2>2, <2>3, <2>4, <2>5, <2>6 DEF ClientNext
<1>3. CASE OwnerNext
  <2>1. CASE finish \/ reply_timeout(Owner) \/ finish_reply \/ finish_wait \/ close
    BY <2>1 DEF finish, reply_timeout, finish_reply, finish_wait, close
  <2>2. CASE teardown_kill
    BY <2>2 DEF teardown_kill, ChildStep, SharedStep
  <2>3. CASE teardown_ctl \/ join_worker
    BY <2>3 DEF teardown_ctl, join_worker
  <2>4. CASE join_reader
    BY <2>4 DEF join_reader, SharedStep
  <2>5. CASE teardown_reap
    BY <2>5 DEF teardown_reap, ChildStep, SharedStep
  <2> QED
    BY <1>3, <2>1, <2>2, <2>3, <2>4, <2>5 DEF OwnerNext, TeardownNext
<1>4. CASE ChildNext
  <2>1. ASSUME NEW b \in Batch, child_writes(b) PROVE StepFrames
    BY <2>1 DEF child_writes, PtyStep
  <2>2. CASE child_reads \/ child_forks \/ descendant_exits
    BY <2>2 DEF child_reads, child_forks, descendant_exits, PtyStep
  <2>3. CASE child_ends
    BY <2>3 DEF child_ends, PtyStep, ChildStep
  <2> QED
    BY <1>4, <2>1, <2>2, <2>3 DEF ChildNext
<1>5. CASE UNCHANGED vars
  BY <1>5 DEF vars
<1> QED
  BY <1>1, <1>2, <1>3, <1>4, <1>5 DEF Next, Finished

-----------------------------------------------------------------------------
(* Who touches the control channel: the worker takes, callers and           *)
(* teardown send, a caller that times out abandons its op.                  *)
CtlStep ==
  \/ \E op \in ControlOps \cup {"shutdown"} : TakeOp(op)
  \/ \E c \in Clients, op \in ClientOps : send_op(c, op)
  \/ finish \/ teardown_ctl
  \/ \E c \in Callers : Orphan(c)

(* Who touches a call: the worker replies, or the caller moves on.          *)
CallStep ==
  \/ \E result \in CallResult : Reply(Head(ctl_queue).from, result) /\ ctl_queue # <<>>
  \/ \E result \in CallResult : Reply(wop.from, result)
  \/ \E c \in Callers, result \in CallResult : call' = [call EXCEPT ![c] = result]

(* The same for the calls, the worker's control state and the owner.         *)
CallFrames ==
  /\ CtlStep \/ UNCHANGED ctl_queue
  /\ teardown_ctl \/ UNCHANGED ctl_open
  /\ CallStep \/ UNCHANGED call
  /\ ctl_observe \/ UNCHANGED seen
  /\ \/ apply_write \/ write_check \/ write_chunk \/ UNCHANGED wop
     \/ UNCHANGED wpc /\ \E c \in Callers : Orphan(c)
  /\ PumpNext \/ UNCHANGED <<wpc, wret, budget, cur>>
  /\ (\E c \in Clients : Begins(c)) \/ UNCHANGED ops_left
  /\ OwnerNext \/ UNCHANGED <<shutdown, ownerVars>>

(* The steps of the pump threads respect the call frames.                   *)
LEMMA PumpCallFrames == PumpNext => CallFrames
<1> SUFFICES ASSUME PumpNext PROVE CallFrames
  OBVIOUS
<1>0. UNCHANGED <<ops_left, shutdown, ownerVars>>
  <2>1. UNCHANGED <<ops_left, ownerVars>>
    BY Zenon DEF PumpNext, PumpFrame
  <2>2. UNCHANGED shutdown
    BY DEF PumpNext, worker_top, recv_timeout, ctl_observe, ctl_snapshot, ctl_events, apply_resize,
      ctl_set_colors, ctl_shutdown, close_input, apply_write, write_check, write_chunk,
      feed, route_reply, reply_write, drain_stream_end, drain_empty, poll_exit_state,
      shutdown_poll, shutdown_kill, shutdown_reap, shutdown_final, shutdown_close, worker_drop,
      read, send, count, reader_lost, drain_grace
  <2> QED
    BY <2>1, <2>2
<1> USE <1>0 DEF CallFrames, ctlVars, callVars, workerVars, controlVars
<1>1. CASE worker_top \/ recv_timeout
  BY <1>1 DEF worker_top, recv_timeout
<1>2. CASE ctl_shutdown
  BY <1>2 DEF ctl_shutdown, CtlStep, TakeOp
<1>3. ASSUME NEW op \in ControlOps, NEW result \in CallResult, TakeOp(op), Reply(From, result),
             UNCHANGED wop, ctl_observe \/ UNCHANGED seen
      PROVE  CallFrames
  BY <1>3 DEF CtlStep, CallStep, TakeOp, From
<1>4. CASE ctl_observe \/ ctl_snapshot \/ ctl_events \/ ctl_set_colors
  BY <1>3, <1>4 DEF ctl_observe, ctl_snapshot, ctl_events, ctl_set_colors, ControlOps, CallResult
<1>5. CASE apply_resize
  BY <1>3, <1>5 DEF apply_resize, ControlOps, CallResult
<1>6. CASE close_input
  BY <1>3, <1>6 DEF close_input, ControlOps, CallResult
<1>7. CASE apply_write
  <2>1. TakeOp("write") /\ UNCHANGED seen
    BY <1>7 DEF apply_write
  <2>2. UNCHANGED call \/ \E result \in CallResult : Reply(From, result)
    BY <1>7 DEF apply_write, CallResult
  <2> QED
    BY <1>7, <2>1, <2>2 DEF CtlStep, CallStep, TakeOp, From, ControlOps
<1>8. CASE write_check \/ write_chunk
  <2>1. UNCHANGED <<ctl_queue, ctl_open, seen>>
    BY <1>8 DEF write_check, write_chunk
  <2>2. UNCHANGED call \/ \E result \in CallResult : Reply(wop.from, result)
    BY <1>8 DEF write_check, write_chunk, WriteReturns, CallResult
  <2> QED
    BY <1>8, <2>1, <2>2 DEF CallStep
<1>9. CASE feed \/ route_reply \/ reply_write \/ drain_stream_end \/ drain_empty \/ poll_exit_state
  BY <1>9 DEF feed, route_reply, reply_write, drain_stream_end, drain_empty, poll_exit_state
<1>10. CASE shutdown_poll \/ shutdown_kill \/ shutdown_reap \/ shutdown_final \/ shutdown_close
            \/ worker_drop
  BY <1>10 DEF shutdown_poll, shutdown_kill, shutdown_reap, shutdown_final, shutdown_close,
      worker_drop, ShutdownStep
<1>11. CASE read \/ send \/ count \/ reader_lost \/ drain_grace
  BY <1>11 DEF read, send, count, reader_lost, drain_grace
<1> QED
  BY <1>1, <1>2, <1>4, <1>5, <1>6, <1>7, <1>8, <1>9, <1>10, <1>11 DEF PumpNext

(* Every step respects the call frames.                                     *)
LEMMA StepCallFrames == [Next]_vars => CallFrames
<1> SUFFICES ASSUME [Next]_vars PROVE CallFrames
  OBVIOUS
<1> USE DEF CallFrames, ctlVars, callVars, workerVars, controlVars, ownerVars
<1>1. CASE PumpNext
  BY <1>1, PumpCallFrames
<1>2. ASSUME NEW c \in Clients, ClientNext(c) PROVE CallFrames
  <2>0. c \in Callers
    BY DEF Callers
  <2>1. ASSUME NEW op \in ClientOps, send_op(c, op) PROVE CallFrames
    <3>1. CtlStep
      BY <2>1 DEF CtlStep
    <3>2. CallStep
      BY <2>0, <2>1 DEF send_op, CallStep, CallResult
    <3> QED
      BY <2>1, <3>1, <3>2 DEF send_op
  <2>2. CASE reply_timeout(c)
    BY <2>0, <2>2 DEF reply_timeout, Orphan, CtlStep, CallStep, CallResult
  <2>3. CASE signal_check(c)
    BY <2>0, <2>3 DEF signal_check, CallStep, CallResult
  <2>4. CASE signal_send(c)
    BY <2>0, <2>4 DEF signal_send, CallStep, CallResult
  <2>5. ASSUME NEW on \in ClientWaits, wait_on(c, on) PROVE CallFrames
    BY <2>5 DEF wait_on
  <2>6. CASE wait_wakes(c)
    BY <2>6 DEF wait_wakes
  <2> QED
    BY <1>2, <2>1, <2>2, <2>3, <2>4, <2>5, <2>6 DEF ClientNext
<1>3. CASE OwnerNext
  <2>0. Owner \in Callers
    BY DEF Callers
  <2>1. CASE finish
    BY <2>0, <2>1, <1>3 DEF finish, CtlStep, CallStep, CallResult
  <2>2. CASE reply_timeout(Owner)
    BY <2>0, <2>2, <1>3 DEF reply_timeout, Orphan, CtlStep, CallStep, CallResult
  <2>3. CASE finish_reply \/ finish_wait \/ close \/ teardown_kill \/ join_worker \/ join_reader
             \/ teardown_reap
    BY <2>3, <1>3 DEF finish_reply, finish_wait, close, teardown_kill, join_worker, join_reader,
        teardown_reap
  <2>4. CASE teardown_ctl
    BY <2>4, <1>3 DEF teardown_ctl, CtlStep
  <2> QED
    BY <1>3, <2>1, <2>2, <2>3, <2>4 DEF OwnerNext, TeardownNext
<1>4. CASE ChildNext
  BY <1>4 DEF ChildNext, child_writes, child_reads, child_forks, descendant_exits, child_ends, PtyStep
<1>5. CASE UNCHANGED vars
  BY <1>5 DEF vars
<1> QED
  BY <1>1, <1>2, <1>3, <1>4, <1>5 DEF Next, Finished

-----------------------------------------------------------------------------
(* The inductive invariant of SharedChild: NoStrayKill holds because the    *)
(* reaped flag and the kernel never disagree.                               *)
ChildInv == ChildTypeOK /\ ReapedIsReleased /\ NoStrayKill

(* Each critical section of SharedChild keeps the flag and the kernel in    *)
(* agreement.                                                               *)
LEMMA ChildStepKeeps == ChildInv /\ ChildStep => ChildInv'
<1> SUFFICES ASSUME ChildInv, ChildStep PROVE ChildInv'
  OBVIOUS
<1> USE ChildAssumption DEF ChildInv, ChildTypeOK, ReapedIsReleased, NoStrayKill
<1>1. CASE child_ends
  BY <1>1 DEF child_ends, child_exits
<1>2. CASE UNCHANGED childVars
  BY <1>2 DEF childVars
<1>3. CASE Reap
  BY <1>3 DEF Reap
<1>4. ASSUME NEW fatal \in BOOLEAN, ~reaped, Deliver(fatal) PROVE ChildInv'
  BY <1>4 DEF Deliver
<1> QED
  BY <1>1, <1>2, <1>3, <1>4 DEF ChildStep, poll, signal_locked, kill_locked, wait_locked

(* So does every step of the session.                                       *)
LEMMA ChildInvStep == ChildInv /\ [Next]_vars => ChildInv'
<1>1. ChildInv /\ UNCHANGED childVars => ChildInv'
  BY DEF ChildInv, ChildTypeOK, ReapedIsReleased, NoStrayKill, childVars
<1> QED
  BY <1>1, Frames, ChildStepKeeps DEF StepFrames

(* In every reachable state the pid is released exactly when reaped is      *)
(* set and the cached status is the real one (poll, wait_locked).           *)
THEOREM ChildInvariant == Spec => []ChildInv
<1>1. Init => ChildInv
  BY DEF Init, ChildInit, ChildInv, ChildTypeOK, ReapedIsReleased, NoStrayKill
<1> QED
  BY <1>1, ChildInvStep, PTL DEF Spec

(* F03, for any number of clients and any interleaving: signal_locked and   *)
(* kill_locked never address a pid that poll or wait_locked has released.   *)
THEOREM NoSignalAfterReap == Spec => []NoStrayKill
<1>1. ChildInv => NoStrayKill
  BY DEF ChildInv
<1> QED
  BY <1>1, ChildInvariant, PTL

-----------------------------------------------------------------------------
(* saturating_sub stays in range.                                           *)
LEMMA MinusType == ASSUME NEW a \in Nat, NEW b \in Nat PROVE Minus(a, b) \in 0..a
BY DEF Minus

(* min stays in range.                                                      *)
LEMMA AtMostType == ASSUME NEW a \in Nat, NEW b \in Nat PROVE AtMost(a, b) \in 0..b
BY DEF AtMost

(* The fields of a PumpState.                                               *)
LEMMA PumpFields ==
  ASSUME NEW p \in PumpState
  PROVE  /\ p.bytes_pumped \in Nat /\ p.output_log \in Seq(Nat) /\ p.output_bytes_total \in Nat
         /\ p.output_truncated \in BOOLEAN /\ p.emitted \in Nat /\ p.events \in Seq(Nat)
         /\ p.events_dropped \in Nat /\ p.drained \in Nat /\ p.was_in_sync \in BOOLEAN
         /\ p.replies_routed \in Nat /\ p.replies_dropped_no_writer \in Nat
         /\ p.reply_write_errors \in Nat /\ p.resizes \in Nat
BY DEF PumpState

(* The samples of a batch are values of the bit.                            *)
LEMMA SampledTyped ==
  ASSUME NEW b, b.sync \in Seq(BOOLEAN)
  PROVE  Sampled(b) \in Seq(BOOLEAN)
<1>1. ASSUME NEW s \in Seq(BOOLEAN), s # <<>> PROVE <<s[Len(s)]>> \in Seq(BOOLEAN)
  <2>1. s[Len(s)] \in BOOLEAN
    BY <1>1
  <2> QED
    BY <2>1
<1>2. \A s \in Seq(BOOLEAN) : Final(s) \in Seq(BOOLEAN)
  BY <1>1 DEF Final
<1> QED
  BY <1>2 DEF Sampled

(* note_sync_sample counts.                                                 *)
LEMMA SyncTyped ==
  ASSUME NEW samples \in Seq(BOOLEAN) PROVE note_sync_sample(samples) \in Nat
<1> DEFINE S == {i \in 1..Len(samples) :
                 /\ ~samples[i]
                 /\ IF i = 1 THEN pump.was_in_sync ELSE samples[i-1]}
<1>1. IsFiniteSet(1..Len(samples))
  BY FS_Interval
<1>2. IsFiniteSet(S)
  BY <1>1, FS_Subset
<1> QED
  BY <1>2, FS_CardinalityType DEF note_sync_sample

(* stash_event keeps a sequence of event numbers and counts the rest.       *)
LEMMA StashTyped ==
  ASSUME pump \in PumpState, NEW k \in Nat
  PROVE  stash_event(k).kept \in Seq(Nat) /\ stash_event(k).lost \in Nat
<1> DEFINE new  == [i \in 1..k |-> pump.emitted + i]
           all  == pump.events \o new
           cap  == IF EventCap = 0 THEN 1 ELSE EventCap
           over == Minus(Len(all), cap)
<1>1. pump.events \in Seq(Nat) /\ pump.emitted \in Nat
  BY PumpFields
<1>2. new \in Seq(Nat)
  <2>1. \A i \in 1..k : pump.emitted + i \in Nat
    BY <1>1
  <2> QED
    BY <2>1
<1>3. all \in Seq(Nat)
  BY <1>1, <1>2
<1>4. cap \in Nat
  BY WorkerAssumption
<1> HIDE DEF cap
<1>5. Len(all) \in Nat
  BY <1>3
<1>6. over \in 0..Len(all)
  BY <1>4, <1>5, MinusType
<1> HIDE DEF all, over
<1>7. SubSeq(all, over + 1, Len(all)) \in Seq(Nat)
  <2>1. \A i \in (over + 1)..Len(all) : all[i] \in Nat
    BY <1>3, <1>6, ElementOfSeq
  <2> QED
    BY <1>3, <1>6, <2>1, SubSeqProperties
<1> QED
  BY <1>6, <1>7 DEF stash_event, all, over, cap

(* A feed of a well-shaped batch leaves a PumpState.                        *)
LEMMA FeedTyped ==
  ASSUME pump \in PumpState, NEW b \in Batch PROVE FeedPump(b) \in PumpState
<1> DEFINE len == Len(b.bytes)
           take == LogTake(len)
           logs == RecordOutput /\ ~pump.output_truncated
           total == IF RecordOutput THEN pump.output_bytes_total + len
                    ELSE pump.output_bytes_total
           log == IF logs THEN pump.output_log \o SubSeq(b.bytes, 1, take) ELSE pump.output_log
           cut == pump.output_truncated \/ (logs /\ take < len)
           stash == stash_event(b.events)
<1>1. b.bytes \in Seq(Nat) /\ b.events \in Nat /\ b.sync \in Seq(BOOLEAN)
  BY WorkerAssumption DEF BatchShape
<1>2. LastSample(Sampled(b)) \in BOOLEAN
  BY <1>1, SampledTyped, PumpFields DEF LastSample
<1>3. len \in Nat /\ Len(pump.output_log) \in Nat
  BY <1>1, PumpFields
<1>4. take \in 0..len
  BY <1>3, WorkerAssumption DEF LogTake, Minus, AtMost
<1>5. SubSeq(b.bytes, 1, take) \in Seq(Nat)
  <2>1. \A i \in 1..take : b.bytes[i] \in Nat
    BY <1>1, <1>4, ElementOfSeq
  <2> QED
    BY <1>1, <1>4, <2>1, SubSeqProperties
<1>6. stash.kept \in Seq(Nat) /\ stash.lost \in Nat
  BY <1>1, StashTyped
<1> HIDE DEF len, take, stash
<1>7. total \in Nat
  BY <1>3, PumpFields
<1>8. log \in Seq(Nat)
  BY <1>5, PumpFields
<1>9. cut \in BOOLEAN
  BY PumpFields, Zenon
<1> HIDE DEF total, log, cut
<1>10. /\ pump.bytes_pumped + len \in Nat
       /\ pump.emitted + b.events \in Nat
       /\ pump.events_dropped + stash.lost \in Nat
  BY <1>1, <1>3, <1>6, PumpFields
<1>11. FeedPump(b) =
         [pump EXCEPT !.bytes_pumped = pump.bytes_pumped + len,
            !.was_in_sync = LastSample(Sampled(b)), !.output_bytes_total = total,
            !.output_log = log, !.output_truncated = cut,
            !.emitted = pump.emitted + b.events, !.events = stash.kept,
            !.events_dropped = pump.events_dropped + stash.lost]
  BY Zenon DEF FeedPump, total, log, cut, stash, take, len
<1> QED
  BY <1>2, <1>6, <1>7, <1>8, <1>9, <1>10, <1>11 DEF PumpState

(* Every batch number in flight names a written batch, and a write that     *)
(* is about to push a chunk has one left.  TypeOK is not inductive          *)
(* without it: feed looks the batch up, and write_chunk counts down.        *)
InRange ==
  /\ taken <= Len(produced)
  /\ reader_pc = "send" /\ reader_msg.type = "bytes" => reader_msg.n \in 1..Len(produced)
  /\ \A i \in 1..Len(data_queue) :
       data_queue[i].type = "bytes" => data_queue[i].n \in 1..Len(produced)
  /\ wpc = "write_chunk" => wop.left > 0

(* The inflight counter wraps inside its width.                             *)
LEMMA ModType == ASSUME NEW a \in Nat PROVE a % UsizeMod \in 0..UsizeMod-1
BY WorkerAssumption

(* The reader thread keeps its types.                                       *)
LEMMA ReaderTyped == TypeOK /\ InRange /\ [Next]_vars => ReaderTypeOK'
<1> SUFFICES ASSUME TypeOK, InRange, [Next]_vars PROVE ReaderTypeOK'
  OBVIOUS
<1> USE DEF TypeOK, ReaderTypeOK, DataMsg, EndKind
<1>1. CASE read
  BY <1>1 DEF read, ReaderSends, Bytes, StreamEnd
<1>2. CASE send
  BY <1>2 DEF send
<1>3. CASE count
  BY <1>3 DEF count, NoMsg, StreamEnd
<1>4. CASE reader_lost
  BY <1>4 DEF reader_lost
<1>5. CASE UNCHANGED readerVars
  BY <1>5 DEF readerVars
<1> QED
  BY <1>1, <1>2, <1>3, <1>4, <1>5, Frames DEF StepFrames

(* A received message leaves a well-typed channel and counter.              *)
LEMMA ReceivedTyped ==
  ASSUME DataTypeOK, data_queue # <<>>, Received PROVE DataTypeOK'
<1>1. inflight + UsizeMod - 1 \in Nat
  BY WorkerAssumption DEF DataTypeOK
<1>2. inflight' \in 0..UsizeMod-1
  BY <1>1, ModType DEF Received
<1> QED
  BY <1>2 DEF DataTypeOK, Received

(* The data channel keeps its types.                                        *)
LEMMA DataTyped == TypeOK /\ InRange /\ [Next]_vars => DataTypeOK'
<1> SUFFICES ASSUME TypeOK, InRange, [Next]_vars PROVE DataTypeOK'
  OBVIOUS
<1>1. CASE send
  BY <1>1 DEF send, TypeOK, DataTypeOK, ReaderTypeOK
<1>2. CASE count
  <2>1. inflight + 1 \in Nat
    BY DEF TypeOK, DataTypeOK
  <2>2. inflight' \in 0..UsizeMod-1
    BY <1>2, <2>1, ModType DEF count
  <2> QED
    BY <1>2, <2>2 DEF count, TypeOK, DataTypeOK
<1>3. CASE feed
  BY <1>3, ReceivedTyped DEF feed, TypeOK
<1>4. CASE drain_stream_end
  BY <1>4, ReceivedTyped DEF drain_stream_end, TypeOK
<1>5. CASE UNCHANGED dataVars
  BY <1>5 DEF dataVars, TypeOK, DataTypeOK
<1> QED
  BY <1>1, <1>2, <1>3, <1>4, <1>5, Frames DEF StepFrames

(* The PTY keeps its types.                                                 *)
LEMMA PtyTyped == TypeOK /\ InRange /\ [Next]_vars => PtyTypeOK'
<1> SUFFICES ASSUME TypeOK, InRange, [Next]_vars PROVE PtyTypeOK'
  OBVIOUS
<1> USE Frames DEF StepFrames, TypeOK, PtyTypeOK
<1>1. produced' \in Seq(Batch)
  BY DEF child_writes
<1>2. slave_held' \in BOOLEAN
  BY DEF child_forks, descendant_exits
<1>3. stdin' \in Nat
  BY DEF WriteStdin, child_reads
<1> QED
  BY <1>1, <1>2, <1>3

(* The batch at the head of the channel was written by somebody.            *)
LEMMA HeadBatch ==
  ASSUME TypeOK, InRange, data_queue # <<>>, Head(data_queue).type = "bytes"
  PROVE  /\ Head(data_queue).n \in 1..Len(produced)
         /\ produced[Head(data_queue).n] \in Batch
<1>1. data_queue \in Seq(DataMsg) /\ Len(data_queue) \in Nat /\ Len(data_queue) # 0
  BY DEF TypeOK, DataTypeOK
<1>2. Head(data_queue) = data_queue[1] /\ 1 \in 1..Len(data_queue)
  BY <1>1
<1>3. Head(data_queue).n \in 1..Len(produced)
  BY <1>2 DEF InRange
<1> QED
  BY <1>3, ElementOfSeq DEF TypeOK, PtyTypeOK

(* The counters outside feed keep a PumpState.                              *)
LEMMA PumpCounts ==
  ASSUME NEW p \in PumpState, NEW k \in {0, 1}
  PROVE  /\ [p EXCEPT !.replies_dropped_no_writer = p.replies_dropped_no_writer + k] \in PumpState
         /\ [p EXCEPT !.replies_routed = p.replies_routed + 1] \in PumpState
         /\ [p EXCEPT !.reply_write_errors = p.reply_write_errors + 1] \in PumpState
         /\ [p EXCEPT !.resizes = p.resizes + 1] \in PumpState
         /\ [p EXCEPT !.events = <<>>, !.drained = p.drained + Len(p.events)] \in PumpState
<1>1. /\ p.replies_dropped_no_writer + k \in Nat /\ p.replies_routed + 1 \in Nat
      /\ p.reply_write_errors + 1 \in Nat /\ p.resizes + 1 \in Nat
      /\ p.drained + Len(p.events) \in Nat /\ <<>> \in Seq(Nat)
  BY PumpFields
<1> QED
  BY <1>1 DEF PumpState

(* Every step keeps the diagnostics well typed.                             *)
LEMMA PumpTyped == TypeOK /\ InRange /\ [Next]_vars => pump' \in PumpState
<1> SUFFICES ASSUME TypeOK, InRange, [Next]_vars PROVE pump' \in PumpState
  OBVIOUS
<1>0. pump \in PumpState
  BY DEF TypeOK
<1>1. CASE feed
  <2>1. CASE LateBatch
    BY <1>0, <1>1, <2>1 DEF feed
  <2>2. CASE ~LateBatch
    BY <1>0, <1>1, <2>2, HeadBatch, FeedTyped DEF feed
  <2> QED
    BY <2>1, <2>2
<1>2. CASE route_reply
  <2>1. pump' = pump \/ \E k \in {0, 1} :
          pump' = [pump EXCEPT !.replies_dropped_no_writer = pump.replies_dropped_no_writer + k]
    BY <1>2 DEF route_reply
  <2> QED
    BY <1>0, <2>1, PumpCounts
<1>3. CASE reply_write
  <2>1. \/ pump' = [pump EXCEPT !.replies_routed = pump.replies_routed + 1]
        \/ pump' = [pump EXCEPT !.reply_write_errors = pump.reply_write_errors + 1]
    BY <1>3 DEF reply_write
  <2> QED
    BY <1>0, <2>1, PumpCounts
<1>4. CASE ctl_events
  BY <1>0, <1>4, PumpCounts DEF ctl_events
<1>5. CASE apply_resize
  <2>1. pump' = pump \/ pump' = [pump EXCEPT !.resizes = pump.resizes + 1]
    BY <1>5 DEF apply_resize
  <2> QED
    BY <1>0, <2>1, PumpCounts
<1> QED
  BY <1>0, <1>1, <1>2, <1>3, <1>4, <1>5, Frames DEF StepFrames

(* poll_exit_observed never stores the error of a failed poll.              *)
LEMMA ExitedTyped == TypeOK /\ poll_exit_observed => exited' \in Status \cup {NoStatus}
BY DEF TypeOK, CaptureTypeOK, poll_exit_observed

(* The capture state keeps its types.                                       *)
LEMMA CaptureTyped == TypeOK /\ InRange /\ [Next]_vars => CaptureTypeOK'
<1> SUFFICES ASSUME TypeOK, InRange, [Next]_vars PROVE CaptureTypeOK'
  OBVIOUS
<1>0. CaptureTypeOK /\ StepFrames
  BY Frames DEF TypeOK
<1> USE DEF CaptureTypeOK, StepFrames
<1>1. writer' \in BOOLEAN
  BY <1>0 DEF close_input, worker_drop
<1>2. stream_end' \in EndKind \cup {NoEnd}
  <2>1. CASE drain_stream_end
    <3>1. Head(data_queue) \in DataMsg
      BY <2>1 DEF TypeOK, DataTypeOK, drain_stream_end
    <3>2. Head(data_queue).kind \in EndKind
      BY <2>1, <3>1 DEF DataMsg, drain_stream_end
    <3> QED
      BY <1>0, <2>1, <3>2 DEF drain_stream_end
  <2>2. CASE drain_empty
    BY <1>0, <2>2 DEF drain_empty, EndKind
  <2> QED
    BY <1>0, <2>1, <2>2
<1>3. /\ final_stream' \in (StreamStates \ {"Streaming"}) \cup {NoEnd}
      /\ finalized' \in BOOLEAN
  BY <1>0 DEF poll_exit_state, shutdown_final, Finalize, FinalStream, StreamStates, EndKind
<1>4. exited' \in Status \cup {NoStatus}
  BY <1>0, ExitedTyped DEF write_check, poll_exit_state, shutdown_final
<1>5. grace_over' \in BOOLEAN
  BY <1>0 DEF drain_grace
<1>6. fed' \in Seq(Nat) /\ dropped_after_drain' \in Nat
  <2>1. CASE feed /\ ~LateBatch
    <3>1. Head(data_queue).n \in Nat
      BY <2>1, HeadBatch DEF feed
    <3> QED
      BY <1>0, <2>1, <3>1 DEF feed
  <2>2. CASE feed /\ LateBatch
    BY <1>0, <2>2 DEF feed
  <2> QED
    BY <1>0, <2>1, <2>2
<1> QED
  BY <1>1, <1>2, <1>3, <1>4, <1>5, <1>6

(* The child keeps its types.                                               *)
LEMMA ChildTyped == TypeOK /\ [Next]_vars => ChildTypeOK'
<1> SUFFICES ASSUME TypeOK, [Next]_vars PROVE ChildTypeOK'
  OBVIOUS
<1> USE DEF TypeOK, ChildTypeOK
<1>1. CASE child_ends
  BY <1>1 DEF child_ends, child_exits
<1>2. CASE UNCHANGED childVars
  BY <1>2 DEF childVars
<1>3. CASE Reap
  BY <1>3 DEF Reap
<1>4. ASSUME NEW fatal \in BOOLEAN, Deliver(fatal) PROVE ChildTypeOK'
  BY <1>4 DEF Deliver
<1> QED
  BY <1>1, <1>2, <1>3, <1>4, Frames
     DEF StepFrames, ChildStep, poll, signal_locked, kill_locked, wait_locked

(* The worker's control state keeps its types.                              *)
LEMMA ControlTyped == TypeOK /\ InRange /\ [Next]_vars => ControlTypeOK'
<1> SUFFICES ASSUME TypeOK, InRange, [Next]_vars PROVE ControlTypeOK'
  OBVIOUS
<1>0. ControlTypeOK /\ FeedBudget \in Nat
  BY WorkerAssumption DEF TypeOK
<1> USE DEF ControlTypeOK
<1>1. CASE UNCHANGED <<wpc, wret, budget, cur>>
  BY <1>0, <1>1
<1>2. CASE worker_top \/ recv_timeout \/ ctl_observe \/ ctl_snapshot \/ ctl_events \/ ctl_shutdown
           \/ ctl_set_colors
  BY <1>0, <1>2 DEF worker_top, recv_timeout, ctl_observe, ctl_snapshot, ctl_events, ctl_shutdown,
     ctl_set_colors, shutdown_and_exit, EnterDrain
<1>3. CASE apply_resize \/ close_input \/ apply_write
  BY <1>0, <1>3 DEF apply_resize, close_input, apply_write, EnterDrain
<1>4. CASE write_check \/ write_chunk
  BY <1>0, <1>4 DEF write_check, write_chunk, WriteReturns, EnterDrain
<1>5. CASE feed
  <2> DEFINE n == Head(data_queue).n
  <2>1. n \in Nat /\ Len(produced[n].bytes) \in Nat
    BY <1>5, HeadBatch, WorkerAssumption DEF feed, BatchShape
  <2>2. Minus(budget, Len(produced[n].bytes)) \in Nat
    BY <1>0, <2>1 DEF Minus
  <2> QED
    BY <1>0, <1>5, <2>1, <2>2 DEF feed, DrainNext
<1>6. CASE route_reply \/ reply_write \/ drain_stream_end \/ drain_empty
  BY <1>0, <1>6 DEF route_reply, reply_write, drain_stream_end, drain_empty, DrainNext, controlVars
<1>7. CASE poll_exit_state
  BY <1>0, <1>7 DEF poll_exit_state
<1>8. CASE shutdown_poll \/ shutdown_kill \/ shutdown_reap \/ shutdown_final \/ shutdown_close
           \/ worker_drop
  BY <1>0, <1>8 DEF shutdown_poll, shutdown_kill, shutdown_reap, shutdown_final, shutdown_close,
      worker_drop, ShutdownStep
<1>9. CASE read \/ send \/ count \/ reader_lost \/ drain_grace
  BY <1>0, <1>9 DEF read, send, count, reader_lost, drain_grace, workerVars, controlVars
<1> QED
  BY <1>1, <1>2, <1>3, <1>4, <1>5, <1>6, <1>7, <1>8, <1>9, StepCallFrames DEF CallFrames, PumpNext

(* The owner and the call budgets keep their types.                         *)
LEMMA OwnerTyped == TypeOK /\ [Next]_vars => OwnerTypeOK'
<1> SUFFICES ASSUME TypeOK, [Next]_vars PROVE OwnerTypeOK'
  OBVIOUS
<1> USE DEF TypeOK, OwnerTypeOK, OwnerPC
<1>1. ops_left' \in [Clients -> 0..MaxOps]
  BY StepCallFrames, SessionAssumption DEF CallFrames, Begins
<1>2. CASE UNCHANGED <<shutdown, ownerVars>>
  BY <1>1, <1>2 DEF ownerVars
<1>3. CASE OwnerNext
  BY <1>1, <1>3 DEF OwnerNext, TeardownNext, finish, reply_timeout, finish_reply, finish_wait, close,
     Teardown, teardown_kill, teardown_ctl, join_worker, join_reader, teardown_reap, ownerVars
<1> QED
  BY <1>2, <1>3, StepCallFrames DEF CallFrames

(* Abandoning a call keeps the queue and the write well typed.              *)
LEMMA OrphanTyped ==
  ASSUME TypeOK, NEW c \in Callers, Orphan(c)
  PROVE  ctl_queue' \in Seq(CtlMsg) /\ wop' \in [from : Callers \cup {Nobody}, left : Nat]
<1> USE DEF TypeOK, CallTypeOK
<1>1. wop' \in [from : Callers \cup {Nobody}, left : Nat]
  BY DEF Orphan
<1>2. \A i \in 1..Len(ctl_queue) : ctl_queue[i] \in CtlMsg
  BY ElementOfSeq
<1>3. \A i \in 1..Len(ctl_queue) : ctl_queue'[i] \in CtlMsg
  BY <1>2 DEF Orphan, CtlMsg
<1>4. Len(ctl_queue) \in Nat
  OBVIOUS
<1> QED
  BY <1>1, <1>3, <1>4 DEF Orphan

(* The control channel and the calls keep their types.                      *)
LEMMA CallTyped == TypeOK /\ InRange /\ [Next]_vars => CallTypeOK'
<1> SUFFICES ASSUME TypeOK, InRange, [Next]_vars PROVE CallTypeOK'
  OBVIOUS
<1>0. CallTypeOK /\ CallFrames
  BY StepCallFrames DEF TypeOK
<1>1. ctl_queue # <<>> => Head(ctl_queue) \in CtlMsg /\ Tail(ctl_queue) \in Seq(CtlMsg)
  BY <1>0 DEF CallTypeOK
<1>2. ctl_queue' \in Seq(CtlMsg)
  <2>1. \A op \in ControlOps \cup {"shutdown"}, c \in Callers \cup {Nobody} :
          Append(ctl_queue, [op |-> op, from |-> c]) \in Seq(CtlMsg)
    BY <1>0 DEF CallTypeOK, CtlMsg
  <2>2. ASSUME NEW c \in Clients, NEW op \in ClientOps, send_op(c, op) PROVE ctl_queue' \in Seq(CtlMsg)
    BY <2>1, <2>2, SessionAssumption DEF send_op, Callers
  <2>3. CASE finish
    BY <2>1, <2>3 DEF finish, Callers, ControlOps
  <2>4. CASE teardown_ctl
    BY <1>0, <2>1, <2>4 DEF teardown_ctl, CallTypeOK
  <2>5. ASSUME NEW op \in ControlOps \cup {"shutdown"}, TakeOp(op) PROVE ctl_queue' \in Seq(CtlMsg)
    BY <1>1, <2>5 DEF TakeOp
  <2>6. CASE UNCHANGED ctl_queue
    BY <1>0, <2>6 DEF CallTypeOK
  <2> QED
    BY <1>0, <2>2, <2>3, <2>4, <2>5, <2>6, OrphanTyped DEF CallFrames, CtlStep
<1>3. ctl_open' \in BOOLEAN
  BY <1>0 DEF CallFrames, CallTypeOK, teardown_ctl
<1>4. call' \in [Callers -> CallResult]
  BY <1>0, <1>1 DEF CallFrames, CallTypeOK, CallStep, Reply, CtlMsg
<1>5. seen' \in [Clients -> Observation \cup {NoObservation}]
  <2>1. observe \in Observation
    <3>1. stream_state \in StreamStates
      BY WorkerAssumption DEF stream_state, TypeOK, CaptureTypeOK, StreamStates
    <3>2. revision \in Nat /\ finalized \in BOOLEAN /\ Len(fed) \in Nat /\ inflight \in 0..UsizeMod-1
      BY DEF TypeOK, SharedTypeOK, CaptureTypeOK, DataTypeOK
    <3> QED
      BY <3>1, <3>2 DEF observe, Observation
  <2> QED
    BY <1>0, <2>1 DEF CallFrames, CallTypeOK, ctl_observe
<1>6. wop' \in [from : Callers \cup {Nobody}, left : Nat]
  <2>1. CASE apply_write
    BY <1>0, <1>1, <2>1, WorkerAssumption DEF apply_write, TakeOp, From, CallTypeOK, CtlMsg
  <2>2. NoWrite \in [from : Callers \cup {Nobody}, left : Nat]
    BY DEF NoWrite
  <2>3. CASE write_check
    BY <1>0, <2>2, <2>3 DEF write_check, WriteReturns, CallTypeOK
  <2>4. CASE write_chunk
    <3>1. wop.left \in Nat /\ wop.left > 0
      BY <1>0, <2>4 DEF write_chunk, InRange, CallTypeOK
    <3>2. [wop EXCEPT !.left = wop.left - 1] \in [from : Callers \cup {Nobody}, left : Nat]
      BY <1>0, <3>1 DEF CallTypeOK
    <3> QED
      BY <2>2, <2>4, <3>2 DEF write_chunk, WriteReturns
  <2> QED
    BY <1>0, <2>1, <2>3, <2>4, OrphanTyped DEF CallFrames, CallTypeOK
<1> QED
  BY <1>2, <1>3, <1>4, <1>5, <1>6 DEF CallTypeOK

(* Only write_check leads to write_chunk, and only with a chunk left.       *)
LEMMA WriteChunkPending ==
  TypeOK /\ InRange /\ [Next]_vars => (wpc' = "write_chunk" => wop'.left > 0)
<1> SUFFICES ASSUME TypeOK, InRange, [Next]_vars, wpc' = "write_chunk" PROVE wop'.left > 0
  OBVIOUS
<1>0. ControlTypeOK /\ CallTypeOK /\ CallFrames
  BY StepCallFrames DEF TypeOK
<1>1. write_check \/ UNCHANGED wpc
  <2>1. CASE worker_top \/ recv_timeout \/ ctl_observe \/ ctl_snapshot \/ ctl_events \/ ctl_shutdown
             \/ ctl_set_colors \/ apply_resize \/ close_input \/ apply_write
    BY <2>1 DEF worker_top, recv_timeout, ctl_observe, ctl_snapshot, ctl_events, ctl_shutdown,
       ctl_set_colors, shutdown_and_exit, EnterDrain, apply_resize, close_input, apply_write
  <2>2. CASE write_chunk
    BY <2>2 DEF write_chunk, WriteReturns, EnterDrain
  <2>3. CASE feed \/ route_reply \/ reply_write \/ drain_stream_end \/ drain_empty
    BY <1>0, <2>3 DEF feed, route_reply, reply_write, drain_stream_end, drain_empty, DrainNext,
       ControlTypeOK, controlVars
  <2>4. CASE poll_exit_state \/ shutdown_poll \/ shutdown_kill \/ shutdown_reap \/ shutdown_final
             \/ shutdown_close \/ worker_drop
    BY <2>4 DEF poll_exit_state, shutdown_poll, shutdown_kill, shutdown_reap, shutdown_final,
       shutdown_close, worker_drop, ShutdownStep
  <2>5. CASE read \/ send \/ count \/ reader_lost \/ drain_grace
    BY <2>5 DEF read, send, count, reader_lost, drain_grace, workerVars, controlVars
  <2> QED
    BY <1>0, <2>1, <2>2, <2>3, <2>4, <2>5 DEF CallFrames, PumpNext
<1>2. CASE write_check
  BY <1>2 DEF write_check, WriteReturns, EnterDrain
<1>3. CASE UNCHANGED wpc
  <2>1. wop.left > 0
    BY <1>3 DEF InRange
  <2>2. ~apply_write /\ ~write_chunk
    BY <1>3 DEF apply_write, write_chunk, TakeOp, WriteReturns, EnterDrain
  <2>3. ASSUME NEW c \in Callers, Orphan(c) PROVE wop'.left = wop.left
    BY <1>0, <2>3 DEF Orphan, CallTypeOK
  <2> QED
    BY <1>0, <1>2, <2>1, <2>2, <2>3 DEF CallFrames
<1> QED
  BY <1>1, <1>2, <1>3

(* Every step keeps InRange.                                                *)
LEMMA IndicesInRange == TypeOK /\ InRange /\ [Next]_vars => InRange'
<1> SUFFICES ASSUME TypeOK, InRange, [Next]_vars PROVE InRange'
  OBVIOUS
<1>0. StepFrames /\ PtyTypeOK /\ ReaderTypeOK /\ DataTypeOK
  BY Frames DEF TypeOK
<1>1. Len(produced) \in Nat /\ Len(produced)' \in Nat /\ Len(produced) <= Len(produced)'
  <2>1. ASSUME NEW b \in Batch, child_writes(b) PROVE Len(produced') = Len(produced) + 1
    BY <1>0, <2>1 DEF child_writes, PtyTypeOK
  <2> QED
    BY <1>0, <2>1 DEF StepFrames, PtyTypeOK
<1>2. taken' <= Len(produced)'
  BY <1>0, <1>1 DEF StepFrames, InRange, ReaderTypeOK, read, send, count, reader_lost, readerVars, ptyVars
<1>3. reader_pc' = "send" /\ reader_msg'.type = "bytes" => reader_msg'.n \in 1..Len(produced)'
  BY <1>0, <1>1 DEF StepFrames, InRange, ReaderTypeOK, read, ReaderSends, Bytes, StreamEnd,
     send, count, reader_lost, readerVars, ptyVars
<1>4. \A i \in 1..Len(data_queue') :
         data_queue'[i].type = "bytes" => data_queue'[i].n \in 1..Len(produced)'
  <2>1. CASE send /\ wpc # "done"
    <3>1. data_queue' = Append(data_queue, reader_msg) /\ reader_pc = "send"
      BY <2>1 DEF send
    <3>2. \A i \in 1..Len(data_queue') :
            data_queue'[i] = IF i <= Len(data_queue) THEN data_queue[i] ELSE reader_msg
      BY <1>0, <3>1 DEF DataTypeOK
    <3>3. \A i \in 1..Len(data_queue') : i \in 1..Len(data_queue) \/ i > Len(data_queue)
      BY <1>0, <3>1 DEF DataTypeOK
    <3> QED
      BY <1>1, <3>1, <3>2, <3>3 DEF InRange
  <2>2. CASE feed \/ drain_stream_end
    <3>1. data_queue # <<>> /\ data_queue' = Tail(data_queue)
      BY <2>2 DEF feed, drain_stream_end, Received
    <3>2. /\ Len(data_queue') = Len(data_queue) - 1
          /\ \A i \in 1..Len(data_queue') : data_queue'[i] = data_queue[i+1]
      BY <1>0, <3>1 DEF DataTypeOK
    <3>3. \A i \in 1..Len(data_queue') : i + 1 \in 1..Len(data_queue)
      BY <1>0, <3>1, <3>2 DEF DataTypeOK
    <3> QED
      BY <1>1, <3>2, <3>3 DEF InRange
  <2>3. CASE UNCHANGED data_queue
    BY <1>1, <2>3 DEF InRange
  <2> QED
    BY <1>0, <2>1, <2>2, <2>3 DEF StepFrames, send, count, dataVars
<1> QED
  BY <1>2, <1>3, <1>4, WriteChunkPending DEF InRange

(* notify_all keeps the waiters well typed.                                 *)
LEMMA NotifiedTyped == waiter \in [Clients -> Waiter] => Notified \in [Clients -> Waiter]
BY DEF Notified, Waiter

(* A publisher keeps the rendezvous well typed.                             *)
LEMMA PublishTyped ==
  ASSUME SharedTypeOK, NEW o \in Outcome \cup {NoOutcome}, NEW rev \in Nat, NEW fr \in Nat,
         Publish(o, rev, fr)
  PROVE  SharedTypeOK'
BY NotifiedTyped DEF SharedTypeOK, Publish

(* So do going to sleep and leaving a wait.                                 *)
LEMMA WaitTyped ==
  ASSUME SharedTypeOK, NEW c \in Clients, NEW w \in Waiter, Sleep(c, w) \/ Leave(c)
  PROVE  SharedTypeOK'
<1>1. NotWaiting \in Waiter /\ [w EXCEPT !.awake = FALSE] \in Waiter
  BY DEF NotWaiting, Waiter
<1> QED
  BY <1>1 DEF SharedTypeOK, Sleep, Leave

(* A declared outcome is a CaptureOutcome: its stream is never Streaming.   *)
LEMMA FinalizeTyped ==
  ASSUME TypeOK, NEW exit \in Status \cup {UnknownExit}, NEW absent \in {"DrainExpired", "Aborted"},
         Finalize(exit, absent)
  PROVE  SharedTypeOK'
<1> DEFINE o == [exit |-> exit, stream |-> FinalStream(absent), revision |-> revision,
                 bytes_pumped |-> pump.bytes_pumped]
<1>1. FinalStream(absent) \in StreamStates \ {"Streaming"}
  BY DEF FinalStream, TypeOK, CaptureTypeOK, StreamStates, EndKind
<1>2. revision \in Nat /\ frames \in Nat /\ pump.bytes_pumped \in Nat
  BY PumpFields DEF TypeOK, SharedTypeOK
<1>3. o \in Outcome
  BY <1>1, <1>2 DEF Outcome
<1>4. publish_outcome(o)
  BY DEF Finalize
<1> HIDE DEF o
<1> QED
  BY <1>2, <1>3, <1>4, PublishTyped DEF publish_outcome, TypeOK, SharedTypeOK

(* The rendezvous keeps its types.                                          *)
LEMMA SharedTyped == TypeOK /\ InRange /\ [Next]_vars => SharedTypeOK'
<1> SUFFICES ASSUME TypeOK, InRange, [Next]_vars PROVE SharedTypeOK'
  OBVIOUS
<1>0. /\ SharedTypeOK /\ StepFrames
      /\ outcome \in Outcome \cup {NoOutcome} /\ revision \in Nat /\ frames \in Nat
  BY Frames DEF TypeOK, SharedTypeOK
<1>1. CASE poll_exit_state
  <2>1. CASE finalized \/ UNCHANGED sharedVars
    BY <1>0, <1>1, <2>1 DEF poll_exit_state, sharedVars, SharedTypeOK
  <2>2. CASE exited' # NoStatus /\ Finalize(exited', "DrainExpired")
    <3>1. exited' \in Status
      BY <1>1, <2>2, ExitedTyped DEF poll_exit_state, TypeOK, CaptureTypeOK
    <3> QED
      BY <2>2, <3>1, FinalizeTyped
  <2> QED
    BY <1>1, <2>1, <2>2 DEF poll_exit_state
<1>2. CASE shutdown_final
  <2>1. CASE finalized
    BY <1>0, <1>2, <2>1 DEF shutdown_final, sharedVars, SharedTypeOK
  <2>2. CASE ~finalized
    <3>1. exited' \in Status \cup {NoStatus}
      BY <1>2, ExitedTyped DEF shutdown_final
    <3>2. (IF exited' = NoStatus THEN UnknownExit ELSE exited') \in Status \cup {UnknownExit}
      BY <3>1
    <3> QED
      BY <1>2, <2>2, <3>2, FinalizeTyped DEF shutdown_final
  <2> QED
    BY <2>1, <2>2
<1>3. CASE feed
  <2>1. CASE LateBatch
    BY <1>0, <1>3, <2>1 DEF feed, sharedVars, SharedTypeOK
  <2>2. CASE ~LateBatch
    <3> DEFINE b == produced[Head(data_queue).n]
    <3>1. b.sync \in Seq(BOOLEAN)
      BY <1>3, HeadBatch, WorkerAssumption DEF feed, BatchShape
    <3>a. Sampled(b) \in Seq(BOOLEAN)
      BY <3>1, SampledTyped
    <3>2. frames + note_sync_sample(Sampled(b)) \in Nat
      BY <1>0, <3>a, SyncTyped
    <3>3. Publish(outcome, revision, frames + note_sync_sample(Sampled(b)))
      BY <1>3, <2>2 DEF feed
    <3> QED
      BY <1>0, <3>2, <3>3, PublishTyped
  <2> QED
    BY <2>1, <2>2
<1>4. CASE bump_revision
  <2>1. revision + 1 \in Nat
    BY <1>0
  <2> QED
    BY <1>0, <1>4, <2>1, PublishTyped DEF bump_revision
<1>5. CASE mark_closed
  BY <1>0, <1>5, NotifiedTyped DEF mark_closed, SharedTypeOK
<1>6. ASSUME NEW happened \in BOOLEAN, record_teardown(happened) PROVE SharedTypeOK'
  BY <1>0, <1>6 DEF record_teardown, SharedTypeOK
<1>7. ASSUME NEW c \in Clients, NEW on \in ClientWaits, wait_on(c, on) PROVE SharedTypeOK'
  <2> DEFINE arg == [outcome |-> 0, revision |-> revision + 1, frames |-> frames][on]
             w   == [on |-> on, arg |-> arg, awake |-> FALSE]
  <2>1. arg \in Nat
    BY <1>0, SessionAssumption
  <2> HIDE DEF arg
  <2>2. w \in Waiter
    BY <2>1, SessionAssumption DEF Waiter
  <2>3. Sleep(c, w) \/ UNCHANGED sharedVars
    BY <1>7 DEF wait_on, wait_begin, arg
  <2> HIDE DEF w
  <2> QED
    BY <1>0, <2>2, <2>3, WaitTyped DEF sharedVars, SharedTypeOK
<1>8. ASSUME NEW c \in Clients, wait_recheck(c) \/ wait_expire(c) PROVE SharedTypeOK'
  <2>1. waiter[c] \in Waiter
    BY <1>0 DEF SharedTypeOK
  <2> QED
    BY <1>0, <1>8, <2>1, WaitTyped DEF wait_recheck, wait_expire
<1>9. CASE UNCHANGED sharedVars
  BY <1>0, <1>9 DEF sharedVars, SharedTypeOK
<1> QED
  BY <1>0, <1>1, <1>2, <1>3, <1>4, <1>5, <1>6, <1>7, <1>8, <1>9 DEF StepFrames, SharedStep

(* A session starts well typed.                                             *)
LEMMA InitTyped == Init => TypeOK /\ InRange
<1> SUFFICES ASSUME Init PROVE TypeOK /\ InRange
  OBVIOUS
<1>0. ChildInit /\ SharedInit /\ WorkerInit
  BY DEF Init
<1>1. ChildTypeOK
  BY <1>0 DEF ChildInit, ChildTypeOK
<1>2. SharedTypeOK
  BY <1>0 DEF SharedInit, SharedTypeOK, NotWaiting, Waiter
<1>3. PtyTypeOK
  <2>1. produced = <<>> /\ slave_held = FALSE /\ stdin = 0
    BY <1>0 DEF WorkerInit
  <2>2. produced \in Seq(Batch)
    BY <2>1
  <2> QED
    BY <2>1, <2>2 DEF PtyTypeOK
<1>4. ReaderTypeOK
  BY <1>0 DEF WorkerInit, ReaderInit, ReaderTypeOK, NoMsg, StreamEnd, DataMsg, EndKind
<1>5. DataTypeOK
  BY <1>0, WorkerAssumption DEF WorkerInit, ChannelInit, DataTypeOK
<1>6. CallTypeOK
  BY <1>0 DEF WorkerInit, ChannelInit, ThreadInit, CallTypeOK, Callers, CallResult, NoWrite
<1>7. ControlTypeOK
  BY <1>0 DEF WorkerInit, ThreadInit, ControlTypeOK
<1>8. CaptureTypeOK
  <2>1. fed = <<>> /\ dropped_after_drain = 0
    BY <1>0 DEF WorkerInit, ThreadInit
  <2>2. fed \in Seq(Nat) /\ dropped_after_drain \in Nat
    BY <2>1
  <2> QED
    BY <1>0, <2>2 DEF WorkerInit, ThreadInit, CaptureTypeOK
<1>9. pump \in PumpState
  BY <1>0 DEF WorkerInit, ThreadInit, PumpInit, PumpState
<1>10. OwnerTypeOK
  <2>1. MaxOps \in 0..MaxOps
    BY SessionAssumption
  <2>2. ops_left \in [Clients -> 0..MaxOps]
    BY <2>1 DEF Init
  <2> QED
    BY <1>0, <2>2 DEF Init, WorkerInit, ChannelInit, OwnerTypeOK, OwnerPC
<1>11. InRange
  BY <1>0 DEF WorkerInit, ReaderInit, ChannelInit, ThreadInit, InRange
<1> QED
  BY <1>1, <1>2, <1>3, <1>4, <1>5, <1>6, <1>7, <1>8, <1>9, <1>10, <1>11 DEF TypeOK

(* The invariant is inductive.                                              *)
LEMMA TypingStep == TypeOK /\ InRange /\ [Next]_vars => (TypeOK /\ InRange)'
BY ChildTyped, SharedTyped, PtyTyped, ReaderTyped, DataTyped, CallTyped, ControlTyped,
   CaptureTyped, PumpTyped, OwnerTyped, IndicesInRange DEF TypeOK

(* Every reachable state of a session is well typed and has its indices     *)
(* in range.                                                                *)
THEOREM Typing == Spec => [](TypeOK /\ InRange)
BY InitTyped, TypingStep, PTL DEF Spec

(* The type invariant, for every value of the constants: no step of the     *)
(* worker, the reader, a client or the owner leaves the types, in           *)
(* particular the outcome is a final one and the inflight counter stays     *)
(* in its width.                                                            *)
THEOREM TypeCorrect == Spec => []TypeOK
BY Typing, PTL
=============================================================================
