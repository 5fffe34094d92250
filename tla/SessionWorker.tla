--------------------------- MODULE SessionWorker ---------------------------
(***************************************************************************)
(* The two pump threads of a session (session_worker.rs) and the PTY       *)
(* between them and the child.                                             *)
(*                                                                         *)
(*   child --output--> reader --bounded data channel--> worker --> grid    *)
(*   child <--stdin--- worker (writes, emulator replies)                   *)
(*                                                                         *)
(* A batch is named by its position in produced, the history of everything *)
(* written to the PTY slave; produced[n] says what batch n does to the     *)
(* emulator.  A thread's program counter splits a function only where      *)
(* another thread can see the difference or where the thread can block.    *)
(***************************************************************************)
EXTENDS SharedChild, Shared, Sequences, FiniteSets

CONSTANTS
  Batch,           (* the output batches a child may write: BatchShape       *)
  DataQueueBatches,(* DATA_QUEUE_BATCHES, the data channel's depth           *)
  FeedBudget,      (* FEED_BUDGET_PER_TICK                                   *)
  UsizeMod,        (* 2^w of the usize behind the inflight counter           *)
  StdinCap,        (* chunks the PTY input queue holds before writes block   *)
  WriteChunks,     (* WRITE_CHUNK pieces of one stdin write                  *)
  EventCap,        (* SessionOptions.event_cap                               *)
  OutputCap,       (* SessionOptions.output_cap_bytes                        *)
  RecordOutput,    (* SessionOptions.record_output                           *)
  UnknownExit,     (* ExitStatus::unknown()                                  *)
  NoEnd,           (* Option::None of a StreamEndKind or a StreamState       *)
  NoObservation,   (* no Observation received yet                            *)
  Owner,           (* the thread that owns the session: finish, close, Drop  *)
  Nobody           (* the reply channel of a caller that gave up             *)

(* What a batch does: its bytes, how many passthrough events and whether a   *)
(* Reply it makes the emulator emit, whether it contains an ESC, and the     *)
(* synchronized-update bit after each sequence in it that sets or clears the *)
(* bit.  Without an ESC it can end a sequence begun before, and no other.    *)
BatchShape ==
  {b \in [bytes : Seq(Nat), events : Nat, reply : BOOLEAN, esc : BOOLEAN, sync : Seq(BOOLEAN)] :
     b.esc \/ Len(b.sync) <= 1}

ASSUME WorkerAssumption ==
  /\ Batch \subseteq BatchShape
  /\ DataQueueBatches \in Nat \ {0}
  /\ FeedBudget \in Nat \ {0}
  /\ UsizeMod \in Nat /\ UsizeMod > DataQueueBatches
  /\ StdinCap \in Nat \ {0}
  /\ WriteChunks \in Nat \ {0}
  /\ EventCap \in Nat
  /\ OutputCap \in Nat
  /\ RecordOutput \in BOOLEAN
  /\ NoEnd \notin {"CleanEof", "ReadFailed", "DrainExpired", "Aborted"}
  /\ Nobody \notin Clients \cup {Owner}
  /\ Owner \notin Clients
  /\ UnknownExit \notin Status \cup {NoStatus}

VARIABLES
  (* the PTY *)
  produced,        (* history: every batch written to the slave              *)
  slave_held,      (* a descendant of the child keeps the slave open         *)
  stdin,           (* chunks in the PTY input queue the child has not read   *)
  (* the reader thread *)
  reader_pc,       (* "read", "send", "count" or "done"                      *)
  reader_msg,      (* the DataMsg it is sending                              *)
  taken,           (* batches read from the master                           *)
  (* the channels *)
  data_queue,      (* the bounded data channel                               *)
  inflight,        (* the AtomicUsize behind Diagnostics.queued_batches      *)
  ctl_queue,       (* the control channel                                    *)
  ctl_open,        (* the handle still holds its sender                      *)
  call,            (* per caller: "await" or the last reply it received      *)
  seen,            (* per client: the last Observation it received           *)
  shutdown,        (* the shutdown flag                                      *)
  (* the worker thread: control *)
  wpc, wret, budget, cur, wop,
  (* the worker thread: capture state *)
  writer, stream_end, final_stream, exited, finalized, grace_over,
  fed, dropped_after_drain,
  (* the worker thread: what a feed accumulates *)
  pump

ptyVars     == <<produced, slave_held, stdin>>
readerVars  == <<reader_pc, reader_msg, taken>>
dataVars    == <<data_queue, inflight>>
ctlVars     == <<ctl_queue, ctl_open>>
callVars    == <<call, seen>>
controlVars == <<wpc, wret, budget, cur, wop>>
captureVars == <<stream_end, final_stream, exited, finalized, fed, dropped_after_drain>>
workerVars  == <<controlVars, writer, captureVars, pump>>

EndKind     == {"CleanEof", "ReadFailed"}
StreamStates == EndKind \cup {"DrainExpired", "Aborted", "Streaming"}
DataMsg     == [type : {"bytes"}, n : Nat] \cup [type : {"end"}, kind : EndKind]
Bytes(n)    == [type |-> "bytes", n |-> n]
StreamEnd(k) == [type |-> "end", kind |-> k]
NoMsg       == StreamEnd("CleanEof")  \* reader_msg while nothing is being sent
NoWrite     == [from |-> Nobody, left |-> 0]

(* PumpState: the diagnostics a feed updates.  events holds the stashed      *)
(* passthrough events by their emission number.                              *)
PumpInit ==
  [ bytes_pumped |-> 0, output_log |-> <<>>, output_bytes_total |-> 0,
    output_truncated |-> FALSE, emitted |-> 0, events |-> <<>>,
    events_dropped |-> 0, drained |-> 0, was_in_sync |-> FALSE,
    replies_routed |-> 0, replies_dropped_no_writer |-> 0,
    reply_write_errors |-> 0, resizes |-> 0 ]

ReaderInit  == reader_pc = "read" /\ reader_msg = NoMsg /\ taken = 0

ChannelInit ==
  /\ data_queue = <<>> /\ inflight = 0
  /\ ctl_queue = <<>> /\ ctl_open = TRUE
  /\ call = [c \in Clients \cup {Owner} |-> "none"]
  /\ seen = [c \in Clients |-> NoObservation]
  /\ shutdown = FALSE

ThreadInit ==
  /\ wpc = "top" /\ wret = "exit" /\ budget = 0 /\ cur = 0 /\ wop = NoWrite
  /\ writer = TRUE /\ stream_end = NoEnd /\ final_stream = NoEnd
  /\ exited = NoStatus /\ finalized = FALSE /\ grace_over = FALSE
  /\ fed = <<>> /\ dropped_after_drain = 0
  /\ pump = PumpInit

WorkerInit ==
  /\ produced = <<>> /\ slave_held = FALSE /\ stdin = 0
  /\ ReaderInit /\ ChannelInit /\ ThreadInit

-----------------------------------------------------------------------------
(* The reader thread (run_reader).                                           *)

(* The last slave descriptor is closed: reads see EOF, writes are discarded. *)
SlaveClosed == proc # "running" /\ ~slave_held

ReaderSends(msg) ==
  /\ reader_msg' = msg
  /\ reader_pc' = "send"

(* One read(2): a batch, the qualified EOF (Ok(0) or EIO) once everything    *)
(* written was read and the slave is closed, or any other error.  An         *)
(* Interrupted read goes around the loop and changes nothing.                *)
read ==
  /\ reader_pc = "read"
  /\ \/ /\ taken < Len(produced)
        /\ ReaderSends(Bytes(taken + 1))
        /\ taken' = taken + 1
     \/ /\ taken = Len(produced) /\ SlaveClosed
        /\ ReaderSends(StreamEnd("CleanEof"))
        /\ UNCHANGED taken
     \/ /\ "read" \in Faults
        /\ ReaderSends(StreamEnd("ReadFailed"))
        /\ UNCHANGED taken
  /\ UNCHANGED <<childVars, sharedVars, ptyVars, dataVars, ctlVars, callVars,
                 shutdown, workerVars, grace_over>>

(* Mutant: a full channel loses the batch instead of blocking the reader.    *)
SendLosesWhenFull ==
  /\ reader_pc = "send"
  /\ IF wpc = "done"
     THEN reader_pc' = "done" /\ UNCHANGED data_queue
     ELSE /\ data_queue' = (IF Len(data_queue) < DataQueueBatches
                            THEN Append(data_queue, reader_msg) ELSE data_queue)
          /\ reader_pc' = "count"
  /\ UNCHANGED <<childVars, sharedVars, ptyVars, reader_msg, taken, inflight, ctlVars,
                 callVars, shutdown, workerVars, grace_over>>

(* send_counted, the send: blocks on a full channel, fails once the worker   *)
(* has dropped its receiver.                                                 *)
send ==
  /\ reader_pc = "send"
  /\ IF wpc = "done"
     THEN reader_pc' = "done" /\ UNCHANGED data_queue
     ELSE /\ Len(data_queue) < DataQueueBatches
          /\ data_queue' = Append(data_queue, reader_msg)
          /\ reader_pc' = "count"
  /\ UNCHANGED <<childVars, sharedVars, ptyVars, reader_msg, taken, inflight, ctlVars,
                 callVars, shutdown, workerVars, grace_over>>

(* Mutant: the terminal message is sent without being counted.               *)
CountsBatchesOnly ==
  /\ reader_pc = "count"
  /\ inflight' = (IF reader_msg.type = "end" THEN inflight ELSE (inflight + 1) % UsizeMod)
  /\ reader_pc' = (IF reader_msg.type = "end" THEN "done" ELSE "read")
  /\ reader_msg' = NoMsg
  /\ UNCHANGED <<childVars, sharedVars, ptyVars, taken, data_queue, ctlVars,
                 callVars, shutdown, workerVars, grace_over>>

(* send_counted, the fetch_add that follows a successful send.               *)
count ==
  /\ reader_pc = "count"
  /\ inflight' = (inflight + 1) % UsizeMod
  /\ reader_pc' = (IF reader_msg.type = "end" THEN "done" ELSE "read")
  /\ reader_msg' = NoMsg
  /\ UNCHANGED <<childVars, sharedVars, ptyVars, taken, data_queue, ctlVars,
                 callVars, shutdown, workerVars, grace_over>>

(* The thread dies without a terminal message.                               *)
reader_lost ==
  /\ "reader_lost" \in Faults
  /\ reader_pc \in {"read", "send"}
  /\ reader_pc' = "done"
  /\ UNCHANGED <<childVars, sharedVars, ptyVars, reader_msg, taken, dataVars, ctlVars,
                 callVars, shutdown, workerVars, grace_over>>

ReaderNext == read \/ send \/ count \/ reader_lost

-----------------------------------------------------------------------------
(* The worker thread (run_worker): top -> ctl -> drain -> exit -> top.       *)

EnterDrain(ret) ==
  /\ wpc' = "drain" /\ wret' = ret /\ budget' = FeedBudget
  /\ UNCHANGED cur

(* The head of shutdown_and_exit: a last drain unless already finalized.     *)
shutdown_and_exit ==
  /\ wpc' = (IF finalized THEN "sd_poll" ELSE "drain")
  /\ wret' = "sd_poll" /\ budget' = FeedBudget
  /\ UNCHANGED cur

(* The loop head reads the shutdown flag.                                    *)
worker_top ==
  /\ wpc = "top"
  /\ IF shutdown THEN shutdown_and_exit
     ELSE wpc' = "ctl" /\ UNCHANGED <<wret, budget, cur>>
  /\ UNCHANGED <<childVars, sharedVars, ptyVars, readerVars, dataVars, ctlVars, callVars,
                 shutdown, wop, writer, captureVars, pump, grace_over>>

(* recv_timeout without an op: the tick passed, or every sender is gone.     *)
recv_timeout ==
  /\ wpc = "ctl" /\ ctl_queue = <<>>
  /\ IF ctl_open THEN EnterDrain("exit") ELSE shutdown_and_exit
  /\ UNCHANGED <<childVars, sharedVars, ptyVars, readerVars, dataVars, ctlVars, callVars,
                 shutdown, wop, writer, captureVars, pump, grace_over>>

(* A reply channel whose receiver was dropped swallows the reply.            *)
Reply(from, result) ==
  call' = (IF from = Nobody THEN call ELSE [call EXCEPT ![from] = result])

TakeOp(op) ==
  /\ wpc = "ctl" /\ ctl_queue # <<>> /\ Head(ctl_queue).op = op
  /\ ctl_queue' = Tail(ctl_queue)
  /\ UNCHANGED ctl_open

From == Head(ctl_queue).from

(* Worker::stream_state.                                                     *)
stream_state ==
  CASE stream_end # NoEnd   -> stream_end
    [] stream_end = NoEnd /\ final_stream # NoEnd -> final_stream
    [] OTHER                -> "Streaming"

(* Worker::observe, the facts the properties are about.                      *)
observe ==
  [ revision |-> revision, stream |-> stream_state, finalized |-> finalized,
    feeds |-> Len(fed), queued_batches |-> inflight ]

ctl_observe ==
  /\ TakeOp("observe")
  /\ Reply(From, "ok")
  /\ seen' = (IF From \in Clients THEN [seen EXCEPT ![From] = observe] ELSE seen)
  /\ EnterDrain("exit")
  /\ UNCHANGED <<childVars, sharedVars, ptyVars, readerVars, dataVars, shutdown, wop,
                 writer, captureVars, pump, grace_over>>

(* Snapshot, StateBytes, DirtySpans, OutputLog: read the grid, reply.        *)
ctl_snapshot ==
  /\ TakeOp("snapshot")
  /\ Reply(From, "ok")
  /\ EnterDrain("exit")
  /\ UNCHANGED <<childVars, sharedVars, ptyVars, readerVars, dataVars, seen, shutdown, wop,
                 writer, captureVars, pump, grace_over>>

(* Events: hand over the whole stash.                                        *)
ctl_events ==
  /\ TakeOp("events")
  /\ Reply(From, "ok")
  /\ pump' = [pump EXCEPT !.events = <<>>, !.drained = @ + Len(pump.events)]
  /\ EnterDrain("exit")
  /\ UNCHANGED <<childVars, sharedVars, ptyVars, readerVars, dataVars, seen, shutdown, wop,
                 writer, captureVars, grace_over>>

(* apply_resize: the ioctl first; when the kernel refuses nothing changes.   *)
apply_resize ==
  /\ TakeOp("resize")
  /\ \/ /\ Reply(From, "ok")
        /\ pump' = [pump EXCEPT !.resizes = @ + 1]
        /\ bump_revision
     \/ /\ "resize" \in Faults
        /\ Reply(From, "io")
        /\ UNCHANGED <<sharedVars, pump>>
  /\ EnterDrain("exit")
  /\ UNCHANGED <<childVars, ptyVars, readerVars, dataVars, seen, shutdown, wop, writer,
                 captureVars, grace_over>>

ctl_set_colors ==
  /\ TakeOp("set_colors")
  /\ Reply(From, "ok")
  /\ bump_revision
  /\ EnterDrain("exit")
  /\ UNCHANGED <<childVars, ptyVars, readerVars, dataVars, seen, shutdown, wop, writer,
                 captureVars, pump, grace_over>>

ctl_shutdown ==
  /\ TakeOp("shutdown")
  /\ shutdown_and_exit
  /\ UNCHANGED <<childVars, sharedVars, ptyVars, readerVars, dataVars, callVars, shutdown,
                 wop, writer, captureVars, pump, grace_over>>

-----------------------------------------------------------------------------
(* Writes into the PTY.                                                      *)

(* write_all on the master returns: the input queue has room, or the slave   *)
(* is closed and the kernel discards the bytes.                              *)
StdinAccepts == stdin < StdinCap \/ SlaveClosed
WriteStdin   == StdinAccepts /\ stdin' = (IF SlaveClosed THEN stdin ELSE stdin + 1)

(* close_input: dropping the writer injects the EOF bytes.                   *)
close_input ==
  /\ TakeOp("close_input")
  /\ \/ /\ exited # NoStatus
        /\ Reply(From, "exited")
        /\ UNCHANGED <<writer, stdin, sharedVars>>
     \/ /\ exited = NoStatus /\ writer
        /\ WriteStdin
        /\ writer' = FALSE
        /\ bump_revision
        /\ Reply(From, "ok")
     \/ /\ exited = NoStatus /\ ~writer
        /\ Reply(From, "closed")
        /\ UNCHANGED <<writer, stdin, sharedVars>>
  /\ EnterDrain("exit")
  /\ UNCHANGED <<childVars, produced, slave_held, readerVars, dataVars, seen, shutdown, wop,
                 captureVars, pump, grace_over>>

(* apply_write up to its chunk loop.                                         *)
apply_write ==
  /\ TakeOp("write")
  /\ IF exited = NoStatus /\ ~shutdown /\ writer
     THEN /\ wpc' = "write"
          /\ wop' = [from |-> From, left |-> WriteChunks]
          /\ UNCHANGED <<call, wret, budget, cur>>
     ELSE /\ Reply(From, IF exited # NoStatus THEN "exited" ELSE "closed")
          /\ EnterDrain("exit")
          /\ UNCHANGED wop
  /\ UNCHANGED <<childVars, sharedVars, ptyVars, readerVars, dataVars, seen, shutdown, writer,
                 captureVars, pump, grace_over>>

WriteReturns(result) ==
  /\ Reply(wop.from, result)
  /\ wop' = NoWrite
  /\ EnterDrain("exit")

(* The loop head of apply_write: done, aborted by the shutdown flag, aborted *)
(* by the child's death (poll_exit_observed), or on to the next chunk.       *)
write_check ==
  /\ wpc = "write"
  /\ \/ /\ wop.left = 0
        /\ WriteReturns("ok")
        /\ UNCHANGED <<childVars, exited>>
     \/ /\ wop.left > 0 /\ shutdown
        /\ WriteReturns("closed")
        /\ UNCHANGED <<childVars, exited>>
     \/ /\ wop.left > 0 /\ ~shutdown
        /\ \E r \in PollResults :
             /\ poll(r)
             /\ IF r \in Status
                THEN exited' = r /\ WriteReturns("exited")
                ELSE /\ wpc' = "write_chunk"
                     /\ UNCHANGED <<exited, call, wop, wret, budget, cur>>
  /\ UNCHANGED <<sharedVars, ptyVars, readerVars, dataVars, ctlVars, seen, shutdown, writer,
                 stream_end, final_stream, finalized, fed, dropped_after_drain, pump, grace_over>>

(* The blocking write_all of one chunk.                                      *)
write_chunk ==
  /\ wpc = "write_chunk"
  /\ \/ /\ WriteStdin
        /\ wop' = [wop EXCEPT !.left = @ - 1]
        /\ wpc' = "write"
        /\ UNCHANGED <<call, wret, budget, cur>>
     \/ /\ "write" \in Faults
        /\ WriteReturns("io")
        /\ UNCHANGED stdin
  /\ UNCHANGED <<childVars, sharedVars, produced, slave_held, readerVars, dataVars, ctlVars,
                 seen, shutdown, writer, captureVars, pump, grace_over>>

-----------------------------------------------------------------------------
(* drain_data and feed.                                                      *)

AtMost(a, b)  == IF a < b THEN a ELSE b
Minus(a, b)   == IF a < b THEN 0 ELSE a - b

(* What a single sample after the whole batch sees of its changes.           *)
Final(sync) == IF sync = <<>> THEN <<>> ELSE <<sync[Len(sync)]>>

(* Mutant: every batch takes the fast path.                                  *)
SampledOnce(b) == Final(b.sync)

(* The changes feed's samples see: one after each byte of a batch with an    *)
(* ESC, one after the whole batch without.                                   *)
Sampled(b) == IF b.esc THEN b.sync ELSE Final(b.sync)

(* note_sync_sample over the samples of a batch: on-to-off transitions.      *)
note_sync_sample(samples) ==
  Cardinality({i \in 1..Len(samples) :
                 /\ ~samples[i]
                 /\ IF i = 1 THEN pump.was_in_sync ELSE samples[i-1]})

LastSample(samples) ==
  IF samples = <<>> THEN pump.was_in_sync ELSE samples[Len(samples)]

(* Mutant: a full stash refuses the newest events.                           *)
StashRefusesNewest(k) ==
  LET all  == pump.events \o [i \in 1..k |-> pump.emitted + i]
      over == Minus(Len(all), IF EventCap = 0 THEN 1 ELSE EventCap)
  IN  [kept |-> SubSeq(all, 1, Len(all) - over), lost |-> over]

(* stash_event for each event of the batch: past the cap the oldest go.      *)
stash_event(k) ==
  LET all  == pump.events \o [i \in 1..k |-> pump.emitted + i]
      over == Minus(Len(all), IF EventCap = 0 THEN 1 ELSE EventCap)
  IN  [kept |-> SubSeq(all, over + 1, Len(all)), lost |-> over]

(* Mutant: a batch is recorded whole while there is any room.                *)
LogWholeBatch(len) == IF Len(pump.output_log) < OutputCap THEN len ELSE 0

(* How many bytes of a batch still fit the output log.                       *)
LogTake(len) == AtMost(Minus(OutputCap, Len(pump.output_log)), len)

(* The part of feed before the events are routed: the grid, the counters,    *)
(* the output log up to its cap, the stash.                                  *)
FeedPump(b) ==
  LET len  == Len(b.bytes)
      take == LogTake(len)
      logs == RecordOutput /\ ~pump.output_truncated
  IN  [pump EXCEPT
         !.bytes_pumped = @ + len,
         !.was_in_sync = LastSample(Sampled(b)),
         !.output_bytes_total = IF RecordOutput THEN @ + len ELSE @,
         !.output_log = IF logs THEN @ \o SubSeq(b.bytes, 1, take) ELSE @,
         !.output_truncated = @ \/ (logs /\ take < len),
         !.emitted = @ + b.events,
         !.events = stash_event(b.events).kept,
         !.events_dropped = @ + stash_event(b.events).lost]

(* A successful try_recv and the fetch_sub, which wraps below zero.          *)
Received ==
  /\ data_queue' = Tail(data_queue)
  /\ inflight' = (inflight + UsizeMod - 1) % UsizeMod

(* After a feed: the tick's budget is spent, or the loop goes on.            *)
DrainNext(left) == wpc' = (IF left = 0 THEN wret ELSE "drain")

(* Mutant: late output is applied like any other.                            *)
NeverLate == FALSE

(* Declared-drained output is immutable.                                     *)
LateBatch == finalized

(* try_recv returns a batch; feed drops and counts it once finalized.        *)
feed ==
  /\ wpc = "drain"
  /\ data_queue # <<>> /\ Head(data_queue).type = "bytes"
  /\ Received
  /\ LET n == Head(data_queue).n
         b == produced[n]
         left == Minus(budget, Len(b.bytes))
     IN  /\ budget' = left
         /\ IF LateBatch
            THEN /\ dropped_after_drain' = dropped_after_drain + 1
                 /\ DrainNext(left)
                 /\ UNCHANGED <<sharedVars, fed, pump, cur>>
            ELSE /\ fed' = Append(fed, n)
                 /\ pump' = FeedPump(b)
                 /\ Publish(outcome, revision, frames + note_sync_sample(Sampled(b)))
                 /\ cur' = n
                 /\ wpc' = "reply"
                 /\ UNCHANGED dropped_after_drain
  /\ UNCHANGED <<childVars, ptyVars, readerVars, ctlVars, callVars, shutdown, wret, wop,
                 writer, stream_end, final_stream, exited, finalized, grace_over>>

(* Mutant: a reply without a writer is dropped silently.                     *)
RouteReplySilently ==
  /\ wpc = "reply"
  /\ IF produced[cur].reply /\ writer /\ ~shutdown
     THEN /\ wpc' = "reply_write"
          /\ UNCHANGED <<sharedVars, pump, cur>>
     ELSE /\ bump_revision
          /\ cur' = 0
          /\ DrainNext(budget)
          /\ UNCHANGED pump
  /\ UNCHANGED <<childVars, ptyVars, readerVars, dataVars, ctlVars, callVars, shutdown, wret,
                 budget, wop, writer, captureVars, grace_over>>

(* The tail of feed: route_reply's checks, then bump_revision.  A reply that *)
(* passes the checks is written by reply_write, which no longer looks at the *)
(* shutdown flag.                                                            *)
route_reply ==
  /\ wpc = "reply"
  /\ IF produced[cur].reply /\ writer /\ ~shutdown
     THEN /\ wpc' = "reply_write"
          /\ UNCHANGED <<sharedVars, pump, cur>>
     ELSE /\ pump' = [pump EXCEPT !.replies_dropped_no_writer =
                                    @ + IF produced[cur].reply THEN 1 ELSE 0]
          /\ bump_revision
          /\ cur' = 0
          /\ DrainNext(budget)
  /\ UNCHANGED <<childVars, ptyVars, readerVars, dataVars, ctlVars, callVars, shutdown, wret,
                 budget, wop, writer, captureVars, grace_over>>

reply_write ==
  /\ wpc = "reply_write"
  /\ \/ /\ WriteStdin
        /\ pump' = [pump EXCEPT !.replies_routed = @ + 1]
     \/ /\ "write" \in Faults
        /\ pump' = [pump EXCEPT !.reply_write_errors = @ + 1]
        /\ UNCHANGED stdin
  /\ bump_revision
  /\ cur' = 0
  /\ DrainNext(budget)
  /\ UNCHANGED <<childVars, produced, slave_held, readerVars, dataVars, ctlVars, callVars,
                 shutdown, wret, budget, wop, writer, captureVars, grace_over>>

(* try_recv returns the reader's terminal message: the first one is kept.    *)
drain_stream_end ==
  /\ wpc = "drain"
  /\ data_queue # <<>> /\ Head(data_queue).type = "end"
  /\ Received
  /\ stream_end' = (IF stream_end = NoEnd THEN Head(data_queue).kind ELSE stream_end)
  /\ UNCHANGED <<childVars, sharedVars, ptyVars, readerVars, ctlVars, callVars, shutdown,
                 controlVars, writer, final_stream, exited, finalized, fed,
                 dropped_after_drain, pump, grace_over>>

(* Mutant: a bare disconnect is taken for the end of output.                 *)
LostReaderIsEof ==
  /\ wpc = "drain" /\ data_queue = <<>>
  /\ stream_end' = (IF reader_pc = "done" /\ stream_end = NoEnd THEN "CleanEof" ELSE stream_end)
  /\ wpc' = wret /\ budget' = 0
  /\ UNCHANGED <<childVars, sharedVars, ptyVars, readerVars, dataVars, ctlVars, callVars,
                 shutdown, wret, cur, wop, writer, final_stream, exited, finalized,
                 fed, dropped_after_drain, pump, grace_over>>

(* try_recv finds the channel empty; a disconnect without a terminal message *)
(* means the reader thread was lost.                                         *)
drain_empty ==
  /\ wpc = "drain" /\ data_queue = <<>>
  /\ stream_end' = (IF reader_pc = "done" /\ stream_end = NoEnd THEN "ReadFailed" ELSE stream_end)
  /\ wpc' = wret /\ budget' = 0
  /\ UNCHANGED <<childVars, sharedVars, ptyVars, readerVars, dataVars, ctlVars, callVars,
                 shutdown, wret, cur, wop, writer, final_stream, exited, finalized,
                 fed, dropped_after_drain, pump, grace_over>>

-----------------------------------------------------------------------------
(* Declaring the outcome.                                                    *)

(* Mutant: running out of patience is reported as the end of output.         *)
AbsentIsEof(absent) == IF stream_end = NoEnd THEN "CleanEof" ELSE stream_end

(* Both finalizing paths name the stream by its end; they differ in what an  *)
(* absent end means.                                                         *)
FinalStream(absent) == IF stream_end = NoEnd THEN absent ELSE stream_end

Finalize(exit, absent) ==
  LET stream == FinalStream(absent)
  IN  /\ finalized' = TRUE
      /\ final_stream' = stream
      /\ publish_outcome([exit |-> exit, stream |-> stream, revision |-> revision,
                          bytes_pumped |-> pump.bytes_pumped])

(* DRAIN_GRACE has elapsed since exit_seen_at.                               *)
drain_grace ==
  /\ exited # NoStatus /\ ~grace_over
  /\ grace_over' = TRUE
  /\ UNCHANGED <<childVars, sharedVars, ptyVars, readerVars, dataVars, ctlVars, callVars,
                 shutdown, workerVars>>

(* poll_exit_observed: poll unless the exit was already seen.                *)
poll_exit_observed ==
  \/ exited # NoStatus /\ UNCHANGED <<childVars, exited>>
  \/ /\ exited = NoStatus
     /\ \E r \in PollResults :
          /\ poll(r)
          /\ exited' = (IF r \in Status THEN r ELSE NoStatus)

(* Mutants: the stream is not waited for; the grace never ends the wait.     *)
AlwaysResolved == TRUE
ResolvedByEndOnly == stream_end # NoEnd

(* The stream is resolved: it ended, or the drain grace is over.             *)
StreamResolved == stream_end # NoEnd \/ grace_over

(* poll_exit_state: finalize once the child is reaped and the stream ended   *)
(* or the grace is over.                                                     *)
poll_exit_state ==
  /\ wpc = "exit"
  /\ wpc' = "top"
  /\ \/ /\ finalized
        /\ UNCHANGED <<childVars, sharedVars, exited, finalized, final_stream>>
     \/ /\ ~finalized
        /\ poll_exit_observed
        /\ IF exited' # NoStatus /\ StreamResolved
           THEN Finalize(exited', "DrainExpired")
           ELSE UNCHANGED <<sharedVars, finalized, final_stream>>
  /\ UNCHANGED <<ptyVars, readerVars, dataVars, ctlVars, callVars, shutdown, wret, budget,
                 cur, wop, writer, stream_end, fed, dropped_after_drain, pump, grace_over>>

-----------------------------------------------------------------------------
(* shutdown_and_exit after its drain: shutdown_child, the final outcome,     *)
(* mark_closed, and the drop of everything the worker owns.                  *)

ShutdownStep(from, to) ==
  /\ wpc = from
  /\ wpc' = to
  /\ UNCHANGED <<wret, budget, cur, wop>>

(* shutdown_child polls before it kills; a failed poll is recorded.          *)
shutdown_poll ==
  /\ \E r \in PollResults :
       /\ poll(r)
       /\ record_teardown(r = PollError)
       /\ ShutdownStep("sd_poll", IF r \in Status THEN "sd_final" ELSE "sd_kill")
  /\ UNCHANGED <<ptyVars, readerVars, dataVars, ctlVars, callVars, shutdown, writer,
                 captureVars, pump, grace_over>>

shutdown_kill ==
  /\ \E ok \in BOOLEAN : kill_locked(ok) /\ record_teardown(~ok)
  /\ ShutdownStep("sd_kill", "sd_reap")
  /\ UNCHANGED <<ptyVars, readerVars, dataVars, ctlVars, callVars, shutdown, writer,
                 captureVars, pump, grace_over>>

(* The reap loop ends with the status, with an error, or when KILL_GRACE is  *)
(* over and the child still runs (recorded too).                             *)
shutdown_reap ==
  /\ \E r \in PollResults :
       /\ poll(r)
       /\ record_teardown(r \notin Status)
  /\ ShutdownStep("sd_reap", "sd_final")
  /\ UNCHANGED <<ptyVars, readerVars, dataVars, ctlVars, callVars, shutdown, writer,
                 captureVars, pump, grace_over>>

(* One last poll for the exit, then the outcome unless already declared.     *)
shutdown_final ==
  /\ ShutdownStep("sd_final", "sd_close")
  /\ poll_exit_observed
  /\ IF finalized
     THEN UNCHANGED <<sharedVars, finalized, final_stream>>
     ELSE Finalize(IF exited' = NoStatus THEN UnknownExit ELSE exited', "Aborted")
  /\ UNCHANGED <<ptyVars, readerVars, dataVars, ctlVars, callVars, shutdown, writer,
                 stream_end, fed, dropped_after_drain, pump, grace_over>>

shutdown_close ==
  /\ ShutdownStep("sd_close", "sd_drop")
  /\ mark_closed
  /\ UNCHANGED <<childVars, ptyVars, readerVars, dataVars, ctlVars, callVars, shutdown,
                 writer, captureVars, pump, grace_over>>

(* run_worker returns: an open writer injects its EOF bytes as it is         *)
(* dropped, then both receivers go.                                          *)
worker_drop ==
  /\ ShutdownStep("sd_drop", "done")
  /\ IF writer THEN WriteStdin ELSE UNCHANGED stdin
  /\ writer' = FALSE
  /\ UNCHANGED <<childVars, sharedVars, produced, slave_held, readerVars, dataVars, ctlVars,
                 callVars, shutdown, captureVars, pump, grace_over>>

handle_ctl ==
  \/ ctl_observe \/ ctl_snapshot \/ ctl_events \/ apply_resize \/ ctl_set_colors
  \/ close_input \/ apply_write \/ ctl_shutdown

drain_data ==
  \/ feed \/ route_reply \/ reply_write \/ drain_stream_end \/ drain_empty

shutdown_child ==
  \/ shutdown_poll \/ shutdown_kill \/ shutdown_reap
  \/ shutdown_final \/ shutdown_close \/ worker_drop

WorkerNext ==
  \/ worker_top \/ recv_timeout \/ handle_ctl \/ write_check \/ write_chunk
  \/ drain_data \/ poll_exit_state \/ shutdown_child
=============================================================================
