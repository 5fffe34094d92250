------------------------- MODULE PtySessionCapture -------------------------
(***************************************************************************)
(* The capture is in order, its outcome stays true and CleanEof means      *)
(* complete.  The invariant behind all three follows the output from the   *)
(* PTY through the reader's hand and the data channel to the grid: what is *)
(* queued continues what was received, and what ends the stream ends it    *)
(* for good.  From the same invariant: the channel's counter lags by the   *)
(* uncounted message and no more, and no batch is lost without a trace;    *)
(* and PtySession implements Capture.                                      *)
(***************************************************************************)
EXTENDS PtySessionTyping

(* Batches the worker has received, fed or dropped.                          *)
Recv == Len(fed) + dropped_after_drain

(* No terminal message is queued or received.                                *)
StreamOpen ==
  /\ stream_end = NoEnd
  /\ \A i \in 1..Len(data_queue) : data_queue[i].type = "bytes"

(* All output there will ever be was read.                                   *)
AllRead == taken = Len(produced) /\ SlaveClosed

(* The queue carries the batches that follow the received ones, in order,    *)
(* and at most one terminal message, at its end.                             *)
QueueInv ==
  \A i \in 1..Len(data_queue) :
    /\ data_queue[i].type = "bytes" => data_queue[i].n = Recv + i
    /\ data_queue[i].type = "end" =>
         /\ i = Len(data_queue)
         /\ taken = Recv + Len(data_queue) - 1
         /\ data_queue[i].kind = "CleanEof" => AllRead

(* What the reader has in hand continues the queue.                          *)
HandInv ==
  /\ reader_pc \in {"read", "send"} => StreamOpen
  /\ reader_pc = "count" /\ reader_msg.type = "bytes" => StreamOpen
  /\ reader_pc # "done" /\ StreamOpen => taken = Recv + Len(data_queue) + InHand
  /\ reader_pc = "send" /\ reader_msg.type = "bytes" => reader_msg.n = taken
  /\ reader_pc = "send" /\ reader_msg.type = "end" /\ reader_msg.kind = "CleanEof" => AllRead

(* After the terminal message nothing follows.                               *)
EndInv ==
  /\ stream_end # NoEnd => data_queue = <<>>
  /\ stream_end = "CleanEof" => AllRead /\ taken = Recv

(* Only a finalized capture drops batches.                                   *)
DropInv == ~finalized => dropped_after_drain = 0

(* The path from the PTY to the grid.                                       *)
StreamInv == QueueInv /\ HandInv /\ EndInv /\ DropInv /\ CaptureInOrder

(* The exit the worker has seen was reaped.                                 *)
ExitInv == exited # NoStatus => reaped /\ exited = status

(* The outcome is declared once, from what the worker knows.                 *)
OutcomeInv ==
  /\ finalized <=> outcome # NoOutcome
  /\ OutcomeMatchesCapture
  /\ finalized /\ final_stream = "CleanEof" => stream_end = "CleanEof" /\ dropped_after_drain = 0

(* The capture: its stream, the exit it has seen, its outcome.              *)
CaptureInv == StreamInv /\ ExitInv /\ OutcomeInv

-----------------------------------------------------------------------------
(* The variables StreamInv is about, the PTY aside.                         *)
streamVars == <<reader_pc, reader_msg, taken, data_queue, fed, dropped_after_drain, stream_end>>

(* Once the last slave descriptor is closed nothing is ever written.        *)
LEMMA ClosedStays == TypeOK /\ SlaveClosed /\ [Next]_vars => SlaveClosed' /\ produced' = produced
<1> SUFFICES ASSUME TypeOK, SlaveClosed, [Next]_vars PROVE SlaveClosed' /\ produced' = produced
  OBVIOUS
<1>0. StepFrames /\ proc # "running" /\ slave_held = FALSE
  BY Frames DEF SlaveClosed, TypeOK, PtyTypeOK
<1>1. produced' = produced
  BY <1>0 DEF StepFrames, child_writes, SlaveOpen
<1>2. slave_held' = FALSE
  BY <1>0 DEF StepFrames, child_forks, descendant_exits
<1>3. proc' # "running"
  BY <1>0 DEF StepFrames, ChildStep, child_ends, child_exits, poll, signal_locked, kill_locked, wait_locked,
     Reap, Deliver, childVars
<1> QED
  BY <1>1, <1>2, <1>3 DEF SlaveClosed

(* Complete output stays complete.                                          *)
LEMMA AllReadStays == TypeOK /\ AllRead /\ [Next]_vars /\ taken' = taken => AllRead'
BY ClosedStays DEF AllRead

(* The finalized flag is never cleared.                                     *)
LEMMA FinalizedStays == finalized /\ [Next]_vars => finalized'
BY Frames DEF StepFrames, poll_exit_state, shutdown_final, Finalize

(* Shapes of the queue after an append or a take.                            *)
LEMMA AppendShape ==
  ASSUME NEW q \in Seq(DataMsg), NEW m \in DataMsg
  PROVE  /\ Append(q, m) \in Seq(DataMsg) /\ Len(Append(q, m)) = Len(q) + 1
         /\ \A i \in 1..Len(q) : Append(q, m)[i] = q[i]
         /\ Append(q, m)[Len(q) + 1] = m
         /\ \A i \in 1..Len(Append(q, m)) : i \in 1..Len(q) \/ i = Len(q) + 1
OBVIOUS

(* The queue after the worker took its head.                                *)
LEMMA TailShape ==
  ASSUME NEW q \in Seq(DataMsg), q # <<>>
  PROVE  /\ Tail(q) \in Seq(DataMsg) /\ Len(Tail(q)) = Len(q) - 1 /\ Len(q) >= 1
         /\ \A i \in 1..Len(Tail(q)) : Tail(q)[i] = q[i + 1] /\ i + 1 \in 1..Len(q)
         /\ Head(q) = q[1] /\ 1 \in 1..Len(q)
OBVIOUS

(* The quantities the arithmetic is about are natural numbers.              *)
LEMMA RecvNat == TypeOK => Recv \in Nat /\ Len(data_queue) \in Nat /\ taken \in Nat /\ Len(fed) \in Nat
BY DEF TypeOK, CaptureTypeOK, DataTypeOK, ReaderTypeOK, Recv

(* read continues the queue with the next batch, or ends the stream.        *)
LEMMA ReadKeeps == TypeOK /\ StreamInv /\ read => StreamInv'
<1> SUFFICES ASSUME TypeOK, StreamInv, read PROVE StreamInv'
  OBVIOUS
<1> USE DEF StreamInv
<1>0. /\ UNCHANGED <<data_queue, fed, dropped_after_drain, stream_end, finalized, proc, slave_held, produced>>
      /\ reader_pc = "read" /\ reader_pc' = "send"
  BY DEF read, dataVars, workerVars, captureVars, childVars, ptyVars, ReaderSends
<1>1. StreamOpen /\ taken = Recv + Len(data_queue) + InHand /\ InHand = 0
  BY <1>0 DEF HandInv, InHand
<1>2. StreamOpen' /\ Recv' = Recv
  BY <1>0, <1>1 DEF StreamOpen, Recv
<1>3. QueueInv'
  BY <1>0, <1>1, <1>2 DEF QueueInv, StreamOpen
<1>4. HandInv'
  <2>1. CASE taken < Len(produced) /\ ReaderSends(Bytes(taken + 1)) /\ taken' = taken + 1
    BY <1>0, <1>1, <1>2, <2>1, RecvNat DEF HandInv, InHand, ReaderSends, Bytes
  <2>2. CASE taken = Len(produced) /\ SlaveClosed /\ taken' = taken /\ ReaderSends(StreamEnd("CleanEof"))
    BY <1>0, <1>1, <1>2, <2>2, RecvNat DEF HandInv, InHand, ReaderSends, StreamEnd, AllRead, SlaveClosed
  <2>3. CASE taken' = taken /\ ReaderSends(StreamEnd("ReadFailed"))
    BY <1>0, <1>1, <1>2, <2>3, RecvNat DEF HandInv, InHand, ReaderSends, StreamEnd
  <2> QED
    BY <2>1, <2>2, <2>3 DEF read
<1>5. EndInv'
  BY <1>2, WorkerAssumption DEF EndInv, StreamOpen
<1>6. DropInv' /\ CaptureInOrder'
  BY <1>0 DEF DropInv, CaptureInOrder
<1> QED
  BY <1>3, <1>4, <1>5, <1>6

(* send moves what the reader holds to the end of the queue.                *)
LEMMA SendKeeps == TypeOK /\ StreamInv /\ send => StreamInv'
<1> SUFFICES ASSUME TypeOK, StreamInv, send PROVE StreamInv'
  OBVIOUS
<1> USE DEF StreamInv
<1>0. /\ UNCHANGED <<reader_msg, taken, fed, dropped_after_drain, stream_end, finalized, proc, slave_held, produced>>
      /\ reader_pc = "send"
  BY DEF send, workerVars, captureVars, childVars, ptyVars
<1>1. StreamOpen /\ taken = Recv + Len(data_queue) + InHand /\ stream_end = NoEnd
  BY <1>0 DEF HandInv, StreamOpen
<1>2. Recv' = Recv /\ (AllRead => AllRead')
  BY <1>0 DEF Recv, AllRead, SlaveClosed
<1>3. DropInv' /\ CaptureInOrder'
  BY <1>0 DEF DropInv, CaptureInOrder
<1>4. EndInv'
  BY <1>0, <1>1, WorkerAssumption DEF EndInv
<1>5. CASE wpc = "done"
  <2>1. reader_pc' = "done" /\ UNCHANGED data_queue
    BY <1>5 DEF send
  <2>2. QueueInv'
    BY <1>0, <1>1, <1>2, <2>1 DEF QueueInv, StreamOpen
  <2>3. HandInv'
    BY <2>1 DEF HandInv
  <2> QED
    BY <1>3, <1>4, <2>2, <2>3
<1>6. CASE wpc # "done"
  <2>1. reader_pc' = "count" /\ data_queue' = Append(data_queue, reader_msg)
    BY <1>6 DEF send
  <2>2. data_queue \in Seq(DataMsg) /\ reader_msg \in DataMsg
    BY DEF TypeOK, DataTypeOK, ReaderTypeOK
  <2>3. /\ Len(data_queue') = Len(data_queue) + 1
        /\ \A i \in 1..Len(data_queue) : data_queue'[i] = data_queue[i]
        /\ data_queue'[Len(data_queue) + 1] = reader_msg
        /\ \A i \in 1..Len(data_queue') : i \in 1..Len(data_queue) \/ i = Len(data_queue) + 1
    BY <2>1, <2>2, AppendShape
  <2>4. InHand = (IF reader_msg.type = "bytes" THEN 1 ELSE 0) /\ InHand' = 0
    BY <1>0, <2>1 DEF InHand
  <2>5. reader_msg.type = "end" /\ reader_msg.kind = "CleanEof" => AllRead'
    BY <1>0, <1>2 DEF HandInv
  <2>6. QueueInv'
    <3>1. Recv \in Nat /\ Len(data_queue) \in Nat /\ taken \in Nat /\ Recv' = Recv /\ taken' = taken
      BY <1>0, <1>2, RecvNat
    <3>2. \A i \in 1..Len(data_queue) : data_queue'[i].type = "bytes" /\ data_queue'[i].n = Recv + i
      BY <1>1, <2>3 DEF QueueInv, StreamOpen
    <3>3. reader_msg.type = "bytes" => reader_msg.n = Recv + (Len(data_queue) + 1)
      BY <1>0, <1>1, <2>4, <3>1 DEF HandInv
    <3>4. reader_msg.type = "end" => taken = Recv + (Len(data_queue) + 1) - 1
      BY <1>1, <2>4, <3>1
    <3> QED
      BY <2>3, <2>5, <3>1, <3>2, <3>3, <3>4 DEF QueueInv
  <2>7. reader_msg.type = "bytes" => StreamOpen'
    BY <1>0, <1>1, <2>3 DEF StreamOpen
  <2>8. reader_msg.type = "end" => ~StreamOpen'
    <3>1. Len(data_queue) + 1 \in 1..Len(data_queue')
      BY <2>3, RecvNat
    <3> QED
      BY <2>3, <3>1 DEF StreamOpen
  <2>9. reader_msg.type \in {"bytes", "end"}
    BY <2>2 DEF DataMsg
  <2>10. HandInv'
    BY <1>0, <1>1, <1>2, <2>1, <2>3, <2>4, <2>7, <2>8, <2>9, RecvNat DEF HandInv
  <2> QED
    BY <1>3, <1>4, <2>6, <2>10
<1> QED
  BY <1>5, <1>6

(* count and a lost reader touch neither queue nor capture.                 *)
LEMMA CountKeeps == TypeOK /\ StreamInv /\ (count \/ reader_lost) => StreamInv'
<1> SUFFICES ASSUME TypeOK, StreamInv, count \/ reader_lost PROVE StreamInv'
  OBVIOUS
<1> USE DEF StreamInv
<1>0. UNCHANGED <<taken, data_queue, fed, dropped_after_drain, stream_end, finalized, proc,
                  slave_held, produced>>
  BY DEF count, reader_lost, workerVars, captureVars, childVars, ptyVars, dataVars
<1>1. Recv' = Recv /\ AllRead' = AllRead /\ StreamOpen' = StreamOpen
  BY <1>0 DEF Recv, AllRead, SlaveClosed, StreamOpen
<1>2. QueueInv'
  BY <1>0, <1>1 DEF QueueInv
<1>3. EndInv' /\ DropInv' /\ CaptureInOrder'
  BY <1>0, <1>1 DEF EndInv, DropInv, CaptureInOrder
<1>4. HandInv'
  <2>1. CASE reader_pc' = "done"
    BY <2>1 DEF HandInv
  <2>2. CASE reader_pc' # "done"
    <3>1. reader_pc = "count" /\ reader_pc' = "read" /\ reader_msg.type = "bytes"
      BY <2>2 DEF count, reader_lost, TypeOK, ReaderTypeOK, DataMsg
    <3> QED
      BY <1>0, <1>1, <3>1 DEF HandInv, InHand
  <2> QED
    BY <2>1, <2>2
<1> QED
  BY <1>2, <1>3, <1>4

(* feed takes exactly the batch that follows the received ones.             *)
LEMMA FeedKeeps == TypeOK /\ StreamInv /\ feed => StreamInv'
<1> SUFFICES ASSUME TypeOK, StreamInv, feed PROVE StreamInv'
  OBVIOUS
<1> USE DEF StreamInv
<1>0. /\ UNCHANGED <<reader_pc, reader_msg, taken, stream_end, finalized, proc, slave_held, produced>>
      /\ data_queue # <<>> /\ data_queue' = Tail(data_queue) /\ Head(data_queue).type = "bytes"
  BY DEF feed, Received, readerVars, childVars, ptyVars
<1>1. data_queue \in Seq(DataMsg) /\ fed \in Seq(Nat) /\ dropped_after_drain \in Nat
  BY DEF TypeOK, DataTypeOK, CaptureTypeOK
<1>2. /\ Len(data_queue') = Len(data_queue) - 1 /\ Len(data_queue) >= 1
      /\ \A i \in 1..Len(data_queue') :
           data_queue'[i] = data_queue[i + 1] /\ i + 1 \in 1..Len(data_queue)
      /\ Head(data_queue) = data_queue[1] /\ 1 \in 1..Len(data_queue)
  BY <1>0, <1>1, TailShape
<1>3. Head(data_queue).n = Recv + 1
  BY <1>0, <1>2 DEF QueueInv
<1>4. Recv' = Recv + 1 /\ DropInv' /\ CaptureInOrder'
  <2>1. CASE LateBatch
    BY <1>0, <1>1, <2>1 DEF feed, Recv, DropInv, CaptureInOrder, LateBatch
  <2>2. CASE ~LateBatch
    <3>1. fed' = Append(fed, Recv + 1) /\ UNCHANGED dropped_after_drain
      BY <1>3, <2>2 DEF feed
    <3>2. dropped_after_drain = 0 /\ Recv = Len(fed) /\ Len(fed) \in Nat
      BY <1>1, <2>2 DEF DropInv, LateBatch, Recv
    <3>3. CaptureInOrder'
      BY <1>1, <3>1, <3>2 DEF CaptureInOrder
    <3> QED
      BY <1>0, <1>1, <3>1, <3>2, <3>3 DEF DropInv, Recv
  <2> QED
    BY <2>1, <2>2
<1>5. (AllRead' = AllRead) /\ stream_end = NoEnd
  BY <1>0 DEF AllRead, SlaveClosed, EndInv
<1>6. QueueInv'
  <2> SUFFICES ASSUME NEW i \in 1..Len(data_queue')
               PROVE  /\ data_queue[i + 1].type = "bytes" => data_queue[i + 1].n = Recv + 1 + i
                      /\ data_queue[i + 1].type = "end" =>
                           /\ i = Len(data_queue')
                           /\ taken = Recv + 1 + Len(data_queue') - 1
                           /\ data_queue[i + 1].kind = "CleanEof" => AllRead
    BY <1>0, <1>2, <1>4, <1>5 DEF QueueInv
  <2>1. i + 1 \in 1..Len(data_queue)
    BY <1>2
  <2>2. /\ data_queue[i + 1].type = "bytes" => data_queue[i + 1].n = Recv + (i + 1)
        /\ data_queue[i + 1].type = "end" =>
             /\ i + 1 = Len(data_queue)
             /\ taken = Recv + Len(data_queue) - 1
             /\ data_queue[i + 1].kind = "CleanEof" => AllRead
    BY <2>1 DEF QueueInv
  <2>3. Recv + 1 + i = Recv + (i + 1)
    BY RecvNat
  <2>4. i + 1 = Len(data_queue) => i = Len(data_queue')
    BY <1>2, RecvNat
  <2>5. Recv + 1 + Len(data_queue') - 1 = Recv + Len(data_queue) - 1
    BY <1>2, RecvNat
  <2> QED
    BY <2>2, <2>3, <2>4, <2>5, Zenon
<1>7. EndInv'
  BY <1>0, <1>5, WorkerAssumption DEF EndInv
<1>8. StreamOpen' => StreamOpen
  <2> SUFFICES ASSUME StreamOpen', NEW i \in 1..Len(data_queue) PROVE data_queue[i].type = "bytes"
    BY <1>5 DEF StreamOpen
  <2>1. CASE i = 1
    BY <1>0, <1>2, <2>1
  <2>2. CASE i # 1
    <3>1. i - 1 \in 1..Len(data_queue') /\ (i - 1) + 1 = i
      BY <1>2, <2>2, RecvNat
    <3> QED
      BY <1>2, <3>1 DEF StreamOpen
  <2> QED
    BY <2>1, <2>2
<1>9. StreamOpen => StreamOpen'
  BY <1>0, <1>2 DEF StreamOpen
<1>10. HandInv'
  BY <1>0, <1>2, <1>4, <1>5, <1>8, <1>9, RecvNat DEF HandInv, InHand
<1> QED
  BY <1>4, <1>6, <1>7, <1>10

(* The terminal message leaves an empty queue; so does its absence.         *)
LEMMA EndKeeps == TypeOK /\ StreamInv /\ (drain_stream_end \/ drain_empty) => StreamInv'
<1> SUFFICES ASSUME TypeOK, StreamInv, drain_stream_end \/ drain_empty PROVE StreamInv'
  OBVIOUS
<1> USE DEF StreamInv
<1>0. UNCHANGED <<reader_pc, reader_msg, taken, fed, dropped_after_drain, finalized, proc, slave_held,
                  produced>>
  BY DEF drain_stream_end, drain_empty, readerVars, childVars, ptyVars
<1>1. Recv' = Recv /\ AllRead' = AllRead /\ DropInv' /\ CaptureInOrder'
  BY <1>0 DEF Recv, AllRead, SlaveClosed, DropInv, CaptureInOrder
<1>2. CASE drain_stream_end
  <2>1. data_queue # <<>> /\ data_queue' = Tail(data_queue) /\ Head(data_queue).type = "end"
    BY <1>2 DEF drain_stream_end, Received
  <2>2. data_queue \in Seq(DataMsg)
    BY DEF TypeOK, DataTypeOK
  <2>3. /\ Len(data_queue') = Len(data_queue) - 1
        /\ Head(data_queue) = data_queue[1] /\ 1 \in 1..Len(data_queue)
        /\ data_queue' \in Seq(DataMsg)
    BY <2>1, <2>2, TailShape
  <2>4. /\ Len(data_queue) = 1 /\ taken = Recv
        /\ Head(data_queue).kind = "CleanEof" => AllRead
    <3>1. /\ 1 = Len(data_queue) /\ taken = Recv + Len(data_queue) - 1
          /\ Head(data_queue).kind = "CleanEof" => AllRead
      BY <2>1, <2>3 DEF QueueInv
    <3>2. 1 = Len(data_queue) /\ taken = Recv + Len(data_queue) - 1
      BY <3>1, Zenon
    <3>3. Recv + 1 - 1 = Recv
      BY RecvNat
    <3> QED
      BY <3>1, <3>2, <3>3, Zenon
  <2>5. data_queue' = <<>>
    BY <2>3, <2>4
  <2>6. stream_end = NoEnd /\ stream_end' = Head(data_queue).kind
    BY <1>2, <2>1 DEF drain_stream_end, EndInv
  <2>7. Head(data_queue).kind \in EndKind
    BY <2>1, <2>2, <2>3, ElementOfSeq DEF DataMsg
  <2>8. stream_end' # NoEnd
    BY <2>6, <2>7, WorkerAssumption DEF EndKind
  <2>9. ~StreamOpen /\ ~StreamOpen'
    BY <2>1, <2>3, <2>8 DEF StreamOpen
  <2>10. QueueInv'
    BY <2>5 DEF QueueInv
  <2>11. EndInv'
    BY <1>0, <1>1, <2>4, <2>5, <2>6 DEF EndInv
  <2>12. HandInv'
    BY <1>0, <2>9 DEF HandInv
  <2> QED
    BY <1>1, <2>10, <2>11, <2>12
<1>3. CASE drain_empty
  <2>1. data_queue = <<>> /\ UNCHANGED data_queue
    BY <1>3 DEF drain_empty, dataVars
  <2>2. QueueInv'
    BY <2>1 DEF QueueInv
  <2>3. EndInv'
    BY <1>0, <1>1, <1>3, <2>1 DEF drain_empty, EndInv
  <2>4. CASE UNCHANGED stream_end
    <3>1. StreamOpen' = StreamOpen
      BY <2>1, <2>4 DEF StreamOpen
    <3>2. HandInv'
      BY <1>0, <1>1, <2>1, <3>1 DEF HandInv, InHand
    <3> QED
      BY <1>1, <2>2, <2>3, <3>2
  <2>5. CASE reader_pc = "done"
    BY <1>0, <1>1, <2>2, <2>3, <2>5 DEF HandInv
  <2> QED
    BY <1>3, <2>4, <2>5 DEF drain_empty
<1> QED
  BY <1>2, <1>3

(* StreamInv is inductive.                                                  *)
LEMMA StreamStep == TypeOK /\ StreamInv /\ [Next]_vars => StreamInv'
<1> SUFFICES ASSUME TypeOK, StreamInv, [Next]_vars PROVE StreamInv'
  OBVIOUS
<1>1. CASE UNCHANGED streamVars
  <2>1. UNCHANGED <<reader_pc, reader_msg, taken, data_queue, fed, dropped_after_drain, stream_end>>
    BY <1>1 DEF streamVars
  <2>2. Recv' = Recv /\ StreamOpen' = StreamOpen /\ InHand' = InHand /\ (AllRead => AllRead')
    BY <2>1, AllReadStays DEF Recv, StreamOpen, InHand
  <2>3. QueueInv'
    BY <2>1, <2>2 DEF StreamInv, QueueInv
  <2>4. HandInv' /\ EndInv'
    BY <2>1, <2>2 DEF StreamInv, HandInv, EndInv
  <2>5. DropInv' /\ CaptureInOrder'
    BY <2>1, FinalizedStays DEF StreamInv, DropInv, CaptureInOrder
  <2> QED
    BY <2>3, <2>4, <2>5 DEF StreamInv
<1> QED
  BY <1>1, Frames, ReadKeeps, SendKeeps, CountKeeps, FeedKeeps, EndKeeps
     DEF StepFrames, streamVars, readerVars, dataVars

-----------------------------------------------------------------------------
(* A poll that returns a status has reaped the child with that status.       *)
LEMMA PollTells ==
  ASSUME ChildInv, NEW r \in Status, poll(r) PROVE reaped' /\ status' = r
BY ChildAssumption DEF ChildInv, ChildTypeOK, ReapedIsReleased, poll, Reap, childVars

(* A reaped child stays reaped, with its status.                            *)
LEMMA ReapedStays ==
  ChildInv /\ reaped /\ [Next]_vars => reaped' /\ status' = status
<1> SUFFICES ASSUME ChildInv, reaped, [Next]_vars PROVE reaped' /\ status' = status
  OBVIOUS
<1>1. proc = "gone"
  BY DEF ChildInv, ReapedIsReleased
<1>2. CASE child_ends \/ UNCHANGED childVars
  BY <1>2 DEF child_ends, child_exits, childVars
<1>3. ~Reap
  BY <1>1 DEF Reap
<1>4. ASSUME NEW fatal, Deliver(fatal) PROVE reaped' /\ status' = status
  BY <1>4 DEF Deliver
<1> QED
  BY <1>2, <1>3, <1>4, Frames DEF StepFrames, ChildStep, poll, signal_locked, kill_locked, wait_locked

(* The exit the worker has seen is the reaped one.                          *)
LEMMA ExitStep == TypeOK /\ ChildInv /\ ExitInv /\ [Next]_vars => ExitInv'
<1> SUFFICES ASSUME TypeOK, ChildInv, ExitInv, [Next]_vars PROVE ExitInv'
  OBVIOUS
<1>1. CASE UNCHANGED exited
  BY <1>1, ReapedStays DEF ExitInv
<1>2. ASSUME NEW r \in PollResults, poll(r), exited' = (IF r \in Status THEN r ELSE NoStatus)
      PROVE  ExitInv'
  BY <1>2, PollTells DEF ExitInv
<1>3. CASE poll_exit_observed
  BY <1>1, <1>2, <1>3 DEF poll_exit_observed
<1>4. CASE write_check
  <2>1. UNCHANGED exited \/ \E r \in PollResults : poll(r) /\ r \in Status /\ exited' = r
    BY <1>4 DEF write_check
  <2> QED
    BY <1>1, <1>2, <2>1
<1>5. CASE poll_exit_state \/ shutdown_final
  BY <1>1, <1>3, <1>5 DEF poll_exit_state, shutdown_final
<1> QED
  BY <1>1, <1>4, <1>5, Frames DEF StepFrames

(* The step that declares the outcome.                                       *)
Declares ==
  /\ ~finalized
  /\ UNCHANGED <<pump, stream_end, dropped_after_drain, fed, produced, slave_held, exit_code>>
  /\ \E exit \in Status \cup {UnknownExit}, absent \in {"DrainExpired", "Aborted"} :
       Finalize(exit, absent) /\ (exit # UnknownExit => exited' = exit)

(* A poll does not change how the process ended.                            *)
LEMMA PollKeepsExit == (\E r \in PollResults : poll(r)) => UNCHANGED exit_code
BY DEF poll, Reap, childVars

(* Every step declares the outcome or leaves it alone.                      *)
LEMMA OutcomeSteps ==
  TypeOK /\ InRange /\ [Next]_vars =>
    \/ Declares
    \/ UNCHANGED <<outcome, finalized, final_stream>> /\ revision <= revision'
<1> SUFFICES ASSUME TypeOK, InRange, [Next]_vars
             PROVE  Declares \/ (UNCHANGED <<outcome, finalized, final_stream>> /\ revision <= revision')
  OBVIOUS
<1>0. StepFrames /\ revision \in Nat /\ exited \in Status \cup {NoStatus}
  BY Frames DEF TypeOK, SharedTypeOK, CaptureTypeOK
<1>1. CASE poll_exit_state
  <2>1. CASE UNCHANGED <<sharedVars, finalized, final_stream>>
    BY <1>0, <2>1 DEF sharedVars
  <2>2. CASE ~finalized /\ exited' # NoStatus /\ Finalize(exited', "DrainExpired")
    <3>1. exited' \in Status
      BY <1>0, <1>1, <2>2, ExitedTyped DEF poll_exit_state
    <3> QED
      BY <1>1, <2>2, <3>1, PollKeepsExit DEF Declares, poll_exit_state, poll_exit_observed, ptyVars, childVars
  <2> QED
    BY <1>1, <2>1, <2>2 DEF poll_exit_state
<1>2. CASE shutdown_final
  <2>1. CASE finalized
    BY <1>0, <1>2, <2>1 DEF shutdown_final, sharedVars
  <2>2. CASE ~finalized
    <3> DEFINE exit == IF exited' = NoStatus THEN UnknownExit ELSE exited'
    <3>1. exit \in Status \cup {UnknownExit} /\ (exit # UnknownExit => exited' = exit)
      BY <1>2, ExitedTyped DEF shutdown_final
    <3>2. Finalize(exit, "Aborted")
      BY <1>2, <2>2 DEF shutdown_final
    <3> HIDE DEF exit
    <3> QED
      BY <1>2, <2>2, <3>1, <3>2, PollKeepsExit
         DEF Declares, shutdown_final, poll_exit_observed, ptyVars, childVars
  <2> QED
    BY <2>1, <2>2
<1>3. CASE UNCHANGED <<finalized, final_stream>>
  <2>1. CASE SharedStep /\ ~poll_exit_state /\ ~shutdown_final
    <3>1. CASE feed
      BY <1>0, <1>3, <3>1 DEF feed, Publish, sharedVars
    <3>2. CASE bump_revision \/ mark_closed
      BY <1>0, <1>3, <3>2 DEF bump_revision, Publish, mark_closed
    <3>3. ASSUME NEW happened, record_teardown(happened) PROVE UNCHANGED <<outcome, revision>>
      BY <3>3 DEF record_teardown
    <3>4. ASSUME NEW c, NEW on, wait_on(c, on) PROVE UNCHANGED <<outcome, revision>>
      BY <3>4 DEF wait_on, wait_begin, Sleep, sharedVars
    <3>5. ASSUME NEW c, wait_recheck(c) \/ wait_expire(c) PROVE UNCHANGED <<outcome, revision>>
      BY <3>5 DEF wait_recheck, wait_expire, Sleep, Leave
    <3> QED
      BY <1>0, <1>3, <2>1, <3>1, <3>2, <3>3, <3>4, <3>5 DEF SharedStep
  <2> QED
    BY <1>0, <1>1, <1>2, <1>3, <2>1 DEF StepFrames, sharedVars
<1> QED
  BY <1>0, <1>1, <1>2, <1>3 DEF StepFrames

(* Nothing is pumped into a finalized capture.                              *)
LEMMA FinalizedBytes ==
  TypeOK /\ finalized /\ [Next]_vars => pump'.bytes_pumped = pump.bytes_pumped
<1> SUFFICES ASSUME TypeOK, finalized, [Next]_vars PROVE pump'.bytes_pumped = pump.bytes_pumped
  OBVIOUS
<1>0. StepFrames /\ pump \in PumpState
  BY Frames DEF TypeOK
<1>1. CASE feed
  BY <1>1 DEF feed, LateBatch
<1>2. CASE route_reply
  BY <1>0, <1>2 DEF route_reply, PumpState
<1>3. CASE reply_write
  BY <1>0, <1>3 DEF reply_write, PumpState
<1>4. CASE ctl_events
  BY <1>0, <1>4 DEF ctl_events, PumpState
<1>5. CASE apply_resize
  BY <1>0, <1>5 DEF apply_resize, PumpState
<1> QED
  BY <1>0, <1>1, <1>2, <1>3, <1>4, <1>5 DEF StepFrames

(* OutcomeInv is inductive.                                                 *)
LEMMA OutcomeStep ==
  TypeOK /\ InRange /\ ChildInv /\ StreamInv /\ ExitInv /\ OutcomeInv /\ [Next]_vars => OutcomeInv'
<1> SUFFICES ASSUME TypeOK, InRange, ChildInv, StreamInv, ExitInv, OutcomeInv, [Next]_vars
             PROVE  OutcomeInv'
  OBVIOUS
<1>0. ExitInv'
  BY ExitStep
<1>1. CASE Declares
  <2>1. PICK exit \in Status \cup {UnknownExit}, absent \in {"DrainExpired", "Aborted"} :
          Finalize(exit, absent) /\ (exit # UnknownExit => exited' = exit)
    BY <1>1 DEF Declares
  <2> DEFINE o == [exit |-> exit, stream |-> FinalStream(absent), revision |-> revision,
                   bytes_pumped |-> pump.bytes_pumped]
  <2>2. outcome = NoOutcome
    BY <1>1 DEF Declares, OutcomeInv
  <2>3. /\ outcome' = o /\ finalized' = TRUE /\ final_stream' = FinalStream(absent)
        /\ revision' = revision
    BY <2>1, <2>2 DEF Finalize, publish_outcome, Publish
  <2>4. o \in Outcome
    <3>1. FinalStream(absent) \in StreamStates \ {"Streaming"}
      BY DEF FinalStream, TypeOK, CaptureTypeOK, StreamStates, EndKind
    <3>2. revision \in Nat /\ pump.bytes_pumped \in Nat
      BY PumpFields DEF TypeOK, SharedTypeOK
    <3> QED
      BY <3>1, <3>2 DEF Outcome
  <2>5. outcome' # NoOutcome
    BY <2>3, <2>4, SentinelAssumption
  <2>6. o.exit = exit /\ o.stream = FinalStream(absent) /\ o.revision = revision
        /\ o.bytes_pumped = pump.bytes_pumped
    OBVIOUS
  <2> HIDE DEF o
  <2>7. exit # UnknownExit => reaped' /\ exit = status'
    <3>1. exit # UnknownExit => exit # NoStatus
      BY ChildAssumption
    <3> QED
      BY <1>0, <2>1, <3>1 DEF ExitInv
  <2>8. revision <= revision
    BY DEF TypeOK, SharedTypeOK
  <2>9. OutcomeMatchesCapture'
    BY <1>1, <2>3, <2>6, <2>7, <2>8 DEF OutcomeMatchesCapture, Declares
  <2>10. final_stream' = "CleanEof" => stream_end' = "CleanEof" /\ dropped_after_drain' = 0
    BY <1>1, <2>3 DEF FinalStream, Declares, StreamInv, DropInv
  <2> QED
    BY <2>3, <2>5, <2>9, <2>10 DEF OutcomeInv
<1>2. CASE UNCHANGED <<outcome, finalized, final_stream>> /\ revision <= revision'
  <2>1. CASE ~finalized
    BY <1>2, <2>1 DEF OutcomeInv, OutcomeMatchesCapture
  <2>2. CASE finalized
    <3>1. outcome # NoOutcome
      BY <2>2 DEF OutcomeInv
    <3>2. pump'.bytes_pumped = pump.bytes_pumped
      BY <2>2, FinalizedBytes
    <3>3. outcome.revision <= revision'
      <4>1. outcome.revision \in Nat /\ revision \in Nat
        BY <3>1 DEF TypeOK, SharedTypeOK, Outcome
      <4>2. revision' \in Nat
        BY SharedTyped DEF SharedTypeOK
      <4>3. outcome.revision <= revision
        BY <3>1 DEF OutcomeInv, OutcomeMatchesCapture
      <4> QED
        BY <1>2, <4>1, <4>2, <4>3
    <3>4. OutcomeMatchesCapture'
      BY <1>2, <3>1, <3>2, <3>3, ReapedStays DEF OutcomeInv, OutcomeMatchesCapture
    <3>5. final_stream = "CleanEof" => stream_end' = "CleanEof" /\ dropped_after_drain' = 0
      <4> SUFFICES ASSUME final_stream = "CleanEof"
                   PROVE  stream_end' = "CleanEof" /\ dropped_after_drain' = 0
        OBVIOUS
      <4>1. stream_end = "CleanEof" /\ dropped_after_drain = 0 /\ data_queue = <<>>
        BY <2>2, WorkerAssumption DEF OutcomeInv, StreamInv, EndInv
      <4> QED
        BY <4>1, Frames, WorkerAssumption DEF StepFrames, feed, drain_stream_end, drain_empty
    <3> QED
      BY <1>2, <2>2, <3>1, <3>4, <3>5 DEF OutcomeInv
  <2> QED
    BY <2>1, <2>2 DEF TypeOK, CaptureTypeOK
<1> QED
  BY <1>1, <1>2, OutcomeSteps

-----------------------------------------------------------------------------
(* The inductive invariant of the capture.                                  *)
IInv == TypeOK /\ InRange /\ ChildInv /\ CaptureInv

(* The inductive invariant holds in every reachable state of a session      *)
(* (run_reader, drain_data, feed, poll_exit_state, shutdown_and_exit).      *)
THEOREM CaptureInvariant == Spec => []IInv
<1>1. Init => IInv
  <2> SUFFICES ASSUME Init PROVE CaptureInv /\ ChildInv
    BY InitTyped DEF IInv
  <2>1. /\ data_queue = <<>> /\ fed = <<>> /\ dropped_after_drain = 0 /\ taken = 0
        /\ reader_pc = "read" /\ stream_end = NoEnd /\ finalized = FALSE /\ exited = NoStatus
        /\ outcome = NoOutcome
    BY DEF Init, SharedInit, WorkerInit, ReaderInit, ChannelInit, ThreadInit
  <2>2. QueueInv /\ EndInv /\ DropInv /\ CaptureInOrder
    BY <2>1, WorkerAssumption DEF QueueInv, EndInv, DropInv, CaptureInOrder
  <2>3. HandInv
    BY <2>1 DEF HandInv, StreamOpen, InHand, Recv
  <2>4. ExitInv /\ OutcomeInv
    BY <2>1 DEF ExitInv, OutcomeInv, OutcomeMatchesCapture
  <2>5. ChildInv
    BY DEF Init, ChildInit, ChildInv, ChildTypeOK, ReapedIsReleased, NoStrayKill
  <2> QED
    BY <2>2, <2>3, <2>4, <2>5 DEF CaptureInv, StreamInv
<1>2. IInv /\ [Next]_vars => IInv'
  <2> SUFFICES ASSUME IInv, [Next]_vars PROVE IInv'
    OBVIOUS
  <2>1. TypeOK /\ InRange /\ ChildInv /\ StreamInv /\ ExitInv /\ OutcomeInv
    BY DEF IInv, CaptureInv
  <2>2. (TypeOK /\ InRange)'
    BY <2>1, TypingStep
  <2>3. ChildInv'
    BY <2>1, ChildInvStep
  <2>4. StreamInv' /\ ExitInv' /\ OutcomeInv'
    BY <2>1, StreamStep, ExitStep, OutcomeStep
  <2> QED
    BY <2>2, <2>3, <2>4 DEF IInv, CaptureInv
<1> QED
  BY <1>1, <1>2, PTL DEF Spec

(* For any output, channel depth and feed budget, feed applies the          *)
(* batches in the order the child wrote them and without a gap.             *)
THEOREM CapturedInOrder == Spec => []CaptureInOrder
<1>1. IInv => CaptureInOrder
  BY DEF IInv, CaptureInv, StreamInv
<1> QED
  BY <1>1, CaptureInvariant, PTL

(* The outcome publish_outcome declares stays true of the capture           *)
(* whatever the threads do afterwards: feed drops late batches, the exit    *)
(* is the reaped one.                                                       *)
THEOREM OutcomeStaysTrue == Spec => []OutcomeMatchesCapture
<1>1. IInv => OutcomeMatchesCapture
  BY DEF IInv, CaptureInv, OutcomeInv
<1> QED
  BY <1>1, CaptureInvariant, PTL

(* An outcome with the stream CleanEof has all output: the reader saw the   *)
(* qualified EOF, drain_data received everything before it and feed         *)
(* dropped nothing.                                                         *)
THEOREM CleanEofMeansComplete == Spec => []CleanEofComplete
<1>1. IInv => CleanEofComplete
  <2> SUFFICES ASSUME IInv, outcome # NoOutcome, outcome.stream = "CleanEof"
               PROVE  SlaveClosed /\ Len(fed) = Len(produced)
    BY DEF CleanEofComplete
  <2>1. stream_end = "CleanEof" /\ dropped_after_drain = 0
    BY DEF IInv, CaptureInv, OutcomeInv, OutcomeMatchesCapture
  <2>2. AllRead /\ taken = Recv
    BY <2>1 DEF IInv, CaptureInv, StreamInv, EndInv
  <2>3. Recv = Len(fed)
    BY <2>1, RecvNat DEF Recv, IInv
  <2> QED
    BY <2>2, <2>3 DEF AllRead
<1> QED
  BY <1>1, CaptureInvariant, PTL

-----------------------------------------------------------------------------
(* A usize holds any depth from one below zero to the channel's capacity.   *)
LEMMA DepthValue ==
  ASSUME NEW d \in Int, -1 <= d, d < UsizeMod
  PROVE  (UsizeMod + d) % UsizeMod = IF d = -1 THEN UsizeMod - 1 ELSE d
<1>1. UsizeMod \in Nat /\ UsizeMod > 0
  BY WorkerAssumption
<1>2. CASE d = -1
  BY <1>1, <1>2
<1>3. CASE d # -1
  BY <1>1, <1>3
<1> QED
  BY <1>2, <1>3

(* What the counter stands for: the queued messages, less the one that was  *)
(* sent and not counted yet.                                                *)
Depth == Len(data_queue) - (IF reader_pc = "count" THEN 1 ELSE 0)

(* The inflight counter lags as stated; the channel never exceeds its depth;*)
(* without the second the first is not inductive, since a counter that      *)
(* wraps at the top would be ambiguous.                                     *)
DepthInv == QueueDepthLags /\ Len(data_queue) <= DataQueueBatches

(* The counter as a case distinction instead of a remainder.                *)
LEMMA DepthCases ==
  ASSUME TypeOK, Len(data_queue) <= DataQueueBatches
  PROVE  /\ Depth \in -1..UsizeMod-1
         /\ QueueDepthLags <=> inflight = IF Depth = -1 THEN UsizeMod - 1 ELSE Depth
<1>1. Len(data_queue) \in Nat /\ UsizeMod \in Nat /\ DataQueueBatches \in Nat /\ DataQueueBatches < UsizeMod
  BY RecvNat, WorkerAssumption
<1>2. Depth \in Int /\ -1 <= Depth /\ Depth < UsizeMod
  BY <1>1 DEF Depth
<1>3. UsizeMod + Len(data_queue) - (IF reader_pc = "count" THEN 1 ELSE 0) = UsizeMod + Depth
  BY <1>1 DEF Depth
<1>4. (UsizeMod + Depth) % UsizeMod = IF Depth = -1 THEN UsizeMod - 1 ELSE Depth
  BY <1>2, DepthValue
<1> QED
  BY <1>1, <1>2, <1>3, <1>4 DEF QueueDepthLags

(* The same of the state after a step.                                      *)
LEMMA DepthCasesPrimed ==
  ASSUME TypeOK', Len(data_queue') <= DataQueueBatches,
         inflight' = IF Depth' = -1 THEN UsizeMod - 1 ELSE Depth'
  PROVE  QueueDepthLags'
<1>1. Len(data_queue') \in Nat /\ UsizeMod \in Nat /\ DataQueueBatches \in Nat /\ DataQueueBatches < UsizeMod
  BY WorkerAssumption DEF TypeOK, DataTypeOK
<1>2. Depth' \in Int /\ -1 <= Depth' /\ Depth' < UsizeMod
  BY <1>1 DEF Depth
<1>3. UsizeMod + Len(data_queue') - (IF reader_pc' = "count" THEN 1 ELSE 0) = UsizeMod + Depth'
  BY <1>1 DEF Depth
<1>4. (UsizeMod + Depth') % UsizeMod = IF Depth' = -1 THEN UsizeMod - 1 ELSE Depth'
  BY <1>2, DepthValue
<1> QED
  BY <1>1, <1>2, <1>3, <1>4 DEF QueueDepthLags

(* The channel never holds more than its depth.                             *)
LEMMA QueueBounded ==
  TypeOK /\ Len(data_queue) <= DataQueueBatches /\ [Next]_vars => Len(data_queue') <= DataQueueBatches
<1> SUFFICES ASSUME TypeOK, Len(data_queue) <= DataQueueBatches, [Next]_vars
             PROVE  Len(data_queue') <= DataQueueBatches
  OBVIOUS
<1>0. data_queue \in Seq(DataMsg) /\ reader_msg \in DataMsg /\ DataQueueBatches \in Nat
  BY WorkerAssumption DEF TypeOK, DataTypeOK, ReaderTypeOK
<1>1. CASE send
  BY <1>0, <1>1, AppendShape DEF send
<1>2. CASE feed \/ drain_stream_end
  BY <1>0, <1>2, TailShape DEF feed, drain_stream_end, Received
<1>3. CASE count \/ UNCHANGED dataVars
  BY <1>3 DEF count, dataVars
<1> QED
  BY <1>1, <1>2, <1>3, Frames DEF StepFrames

(* A message taken: the counter goes down by one, below zero it wraps.      *)
LEMMA ReceivedCounts ==
  ASSUME TypeOK, TypeOK', DepthInv, Len(data_queue') <= DataQueueBatches,
         data_queue # <<>>, Received, UNCHANGED reader_pc
  PROVE  QueueDepthLags'
<1>0. UsizeMod \in Nat /\ UsizeMod > 0
  BY WorkerAssumption
<1>1. Depth' = Depth - 1 /\ Depth \in 0..UsizeMod-1
  <2>1. Len(data_queue') = Len(data_queue) - 1 /\ Len(data_queue) \in Nat /\ Len(data_queue) >= 1
    BY TailShape, RecvNat DEF TypeOK, DataTypeOK, Received
  <2>2. Depth \in -1..UsizeMod-1
    BY DepthCases DEF DepthInv
  <2> QED
    BY <1>0, <2>1, <2>2 DEF Depth
<1>2. inflight = Depth
  BY <1>0, <1>1, DepthCases DEF DepthInv
<1>3. inflight' = (UsizeMod + (Depth - 1)) % UsizeMod
  BY <1>0, <1>1, <1>2 DEF Received
<1>4. inflight' = IF Depth - 1 = -1 THEN UsizeMod - 1 ELSE Depth - 1
  BY <1>0, <1>1, <1>3, DepthValue
<1> QED
  BY <1>1, <1>4, DepthCasesPrimed

(* The late fetch_add: the counter catches up with the send.                *)
LEMMA CountCounts ==
  ASSUME TypeOK, TypeOK', DepthInv, Len(data_queue') <= DataQueueBatches, count
  PROVE  QueueDepthLags'
<1>0. UsizeMod \in Nat /\ UsizeMod > 0 /\ DataQueueBatches < UsizeMod /\ DataQueueBatches \in Nat
  BY WorkerAssumption
<1>1. Depth' = Depth + 1 /\ Depth = Len(data_queue) - 1 /\ Len(data_queue) \in Nat
  BY RecvNat DEF Depth, count
<1>2. Len(data_queue) <= DataQueueBatches
  BY DEF DepthInv
<1>3. inflight = IF Depth = -1 THEN UsizeMod - 1 ELSE Depth
  BY DepthCases DEF DepthInv
<1>4. inflight' = (inflight + 1) % UsizeMod
  BY DEF count
<1>5. CASE Depth = -1
  <2>1. inflight + 1 = UsizeMod + 0
    BY <1>0, <1>3, <1>5
  <2>2. inflight' = 0
    BY <1>0, <1>4, <2>1, DepthValue
  <2> QED
    BY <1>1, <1>5, <2>2, DepthCasesPrimed
<1>6. CASE Depth # -1
  <2>1. inflight + 1 \in 0..UsizeMod-1 /\ inflight + 1 = Depth + 1
    BY <1>0, <1>1, <1>2, <1>3, <1>6
  <2>2. inflight' = Depth + 1
    BY <1>0, <1>4, <2>1
  <2> QED
    BY <1>1, <2>1, <2>2, DepthCasesPrimed
<1> QED
  BY <1>5, <1>6

(* Every step keeps the counter at what it stands for.                      *)
LEMMA DepthStep == TypeOK /\ TypeOK' /\ DepthInv /\ [Next]_vars => DepthInv'
<1> SUFFICES ASSUME TypeOK, TypeOK', DepthInv, [Next]_vars PROVE DepthInv'
  OBVIOUS
<1>0. Len(data_queue') <= DataQueueBatches
  BY QueueBounded DEF DepthInv
<1>1. CASE count
  BY <1>0, <1>1, CountCounts DEF DepthInv
<1>2. CASE feed \/ drain_stream_end
  <2>1. data_queue # <<>> /\ Received /\ UNCHANGED reader_pc
    BY <1>2 DEF feed, drain_stream_end, readerVars
  <2> QED
    BY <1>0, <2>1, ReceivedCounts DEF DepthInv
<1>3. CASE Depth' = Depth /\ UNCHANGED inflight
  <2>1. inflight' = IF Depth' = -1 THEN UsizeMod - 1 ELSE Depth'
    BY <1>3, DepthCases DEF DepthInv
  <2> QED
    BY <1>0, <2>1, DepthCasesPrimed DEF DepthInv
<1>4. CASE send
  <2>1. UNCHANGED inflight /\ reader_pc = "send"
    BY <1>4 DEF send
  <2>2. CASE wpc = "done"
    BY <1>3, <1>4, <2>1, <2>2 DEF send, Depth
  <2>3. CASE wpc # "done"
    <3>1. Len(data_queue') = Len(data_queue) + 1 /\ Len(data_queue) \in Nat /\ reader_pc' = "count"
      BY <1>4, <2>3, AppendShape DEF send, TypeOK, DataTypeOK, ReaderTypeOK
    <3> QED
      BY <1>3, <2>1, <3>1 DEF Depth
  <2> QED
    BY <2>2, <2>3
<1>5. CASE UNCHANGED dataVars /\ ~send /\ ~count
  <2>1. reader_pc' = "count" <=> reader_pc = "count"
    BY <1>5, Frames DEF StepFrames, read, ReaderSends, reader_lost, readerVars
  <2> QED
    BY <1>3, <1>5, <2>1 DEF Depth, dataVars
<1> QED
  BY <1>1, <1>2, <1>4, <1>5, Frames DEF StepFrames

(* For any channel depth and counter width: Diagnostics.queued_batches is   *)
(* the number of queued messages, less the one that send_counted has sent   *)
(* and not counted yet: it lags by one at most and never drifts.            *)
THEOREM QueuedBatchesLag == Spec => []QueueDepthLags
<1>1. Init => DepthInv
  <2> SUFFICES ASSUME Init PROVE DepthInv
    OBVIOUS
  <2>1. data_queue = <<>> /\ inflight = 0 /\ reader_pc = "read" /\ TypeOK
    BY InitTyped DEF Init, WorkerInit, ReaderInit, ChannelInit
  <2>2. Len(data_queue) = 0 /\ Len(data_queue) <= DataQueueBatches
    BY <2>1, WorkerAssumption
  <2> QED
    BY <2>1, <2>2, DepthCases DEF DepthInv, Depth
<1>2. DepthInv => QueueDepthLags
  BY DEF DepthInv
<1>3. TypeOK /\ TypeOK' /\ DepthInv /\ [Next]_vars => DepthInv'
  BY DepthStep
<1> QED
  BY <1>1, <1>2, <1>3, TypeCorrect, PTL DEF Spec

-----------------------------------------------------------------------------
(* The batches of a queue whose first m messages are its batches.           *)
LEMMA BytesCounted ==
  ASSUME TypeOK, NEW m \in Nat, m <= Len(data_queue),
         \A i \in 1..Len(data_queue) : data_queue[i].type = "bytes" <=> i <= m
  PROVE  QueuedBytes = m
<1>1. Len(data_queue) \in Nat
  BY RecvNat
<1>2. {i \in 1..Len(data_queue) : data_queue[i].type = "bytes"} = 1..m
  BY <1>1
<1>3. Cardinality(1..m) = m
  BY FS_Interval
<1> QED
  BY <1>2, <1>3 DEF QueuedBytes

(* A worker that returned stays returned.                                   *)
LEMMA DoneStays == TypeOK /\ wpc = "done" /\ [Next]_vars => wpc' = "done"
<1> SUFFICES ASSUME TypeOK, wpc = "done", [Next]_vars PROVE wpc' = "done"
  OBVIOUS
<1>1. CASE PumpNext
  <2>1. CASE worker_top \/ recv_timeout \/ ctl_observe \/ ctl_snapshot \/ ctl_events \/ apply_resize
             \/ ctl_set_colors \/ ctl_shutdown \/ close_input \/ apply_write
    BY <2>1 DEF worker_top, recv_timeout, ctl_observe, ctl_snapshot, ctl_events, apply_resize,
       ctl_set_colors, ctl_shutdown, close_input, apply_write, TakeOp
  <2>2. CASE write_check \/ write_chunk \/ feed \/ route_reply \/ reply_write \/ drain_stream_end
             \/ drain_empty \/ poll_exit_state
    BY <2>2 DEF write_check, write_chunk, feed, route_reply, reply_write, drain_stream_end,
       drain_empty, poll_exit_state
  <2>3. CASE shutdown_poll \/ shutdown_kill \/ shutdown_reap \/ shutdown_final \/ shutdown_close
             \/ worker_drop
    BY <2>3 DEF shutdown_poll, shutdown_kill, shutdown_reap, shutdown_final, shutdown_close,
       worker_drop, ShutdownStep
  <2>4. CASE read \/ send \/ count \/ reader_lost \/ drain_grace
    BY <2>4 DEF read, send, count, reader_lost, drain_grace, workerVars, controlVars
  <2> QED
    BY <1>1, <2>1, <2>2, <2>3, <2>4 DEF PumpNext
<1> QED
  BY <1>1, StepCallFrames DEF CallFrames

(* Where the batches are once the reader is gone or the stream has ended:   *)
(* the cases in which HandInv and QueueInv say nothing of taken.            *)
LossInv ==
  /\ reader_pc = "read" => reader_msg.type = "end"
  /\ wpc # "done" =>
       /\ reader_pc = "done" /\ StreamOpen => taken = Recv + Len(data_queue) + Lost
       /\ stream_end # NoEnd => taken = Recv + Lost
       /\ ~StreamOpen /\ stream_end = NoEnd => Lost = 0

(* Together with the path from the PTY to the grid, that accounts for every *)
(* batch.                                                                   *)
LEMMA Accounted == TypeOK /\ StreamInv /\ LossInv => NoBatchLost
<1> SUFFICES ASSUME TypeOK, StreamInv, LossInv, wpc # "done"
             PROVE  taken = Recv + QueuedBytes + InHand + Lost
  BY DEF NoBatchLost, Recv
<1>0. Recv \in Nat /\ Len(data_queue) \in Nat /\ data_queue \in Seq(DataMsg)
      /\ InHand \in {0, 1} /\ Lost \in {0, 1}
  BY RecvNat DEF TypeOK, DataTypeOK, InHand, Lost
<1>1. CASE StreamOpen
  <2>1. QueuedBytes = Len(data_queue)
    BY <1>0, <1>1, BytesCounted DEF StreamOpen
  <2>2. CASE reader_pc = "done"
    BY <1>0, <1>1, <2>1, <2>2 DEF LossInv, InHand
  <2>3. CASE reader_pc # "done"
    BY <1>0, <1>1, <2>1, <2>3 DEF StreamInv, HandInv, Lost
  <2> QED
    BY <2>2, <2>3
<1>2. CASE ~StreamOpen
  <2>1. reader_pc \notin {"read", "send"} /\ InHand = 0
    BY <1>2 DEF StreamInv, HandInv, InHand
  <2>2. CASE stream_end # NoEnd
    <3>1. data_queue = <<>>
      BY <2>2 DEF StreamInv, EndInv
    <3>2. QueuedBytes = 0
      BY <1>0, <3>1, BytesCounted
    <3> QED
      BY <1>0, <2>1, <2>2, <3>2 DEF LossInv
  <2>3. CASE stream_end = NoEnd
    <3>1. PICK e \in 1..Len(data_queue) : data_queue[e].type # "bytes"
      BY <1>2, <2>3 DEF StreamOpen
    <3>2. \A i \in 1..Len(data_queue) : data_queue[i].type \in {"bytes", "end"}
      BY <1>0, ElementOfSeq DEF DataMsg
    <3>3. e = Len(data_queue) /\ taken = Recv + Len(data_queue) - 1
      BY <3>1, <3>2 DEF StreamInv, QueueInv
    <3>4. \A i \in 1..Len(data_queue) : data_queue[i].type = "bytes" <=> i <= Len(data_queue) - 1
      BY <1>0, <3>1, <3>2, <3>3 DEF StreamInv, QueueInv
    <3>5. QueuedBytes = Len(data_queue) - 1
      <4>1. Len(data_queue) - 1 \in Nat /\ Len(data_queue) - 1 <= Len(data_queue)
        BY <1>0, <3>1
      <4> QED
        BY <3>4, <4>1, BytesCounted
    <3> QED
      BY <1>0, <1>2, <2>1, <2>3, <3>3, <3>5 DEF LossInv
  <2> QED
    BY <2>2, <2>3
<1> QED
  BY <1>1, <1>2

(* The reader's steps: what it dies with is what it had in hand.            *)
LEMMA ReaderLoses ==
  TypeOK /\ StreamInv /\ LossInv /\ (read \/ send \/ count \/ reader_lost) => LossInv'
<1> SUFFICES ASSUME TypeOK, StreamInv, LossInv, read \/ send \/ count \/ reader_lost PROVE LossInv'
  OBVIOUS
<1>0. UNCHANGED <<wpc, fed, dropped_after_drain, stream_end>>
  BY DEF read, send, count, reader_lost, workerVars, controlVars, captureVars
<1>1. Recv' = Recv
  BY <1>0 DEF Recv
<1>2. CASE read
  <2>1. reader_pc' = "send" /\ StreamOpen /\ UNCHANGED data_queue
    BY <1>2 DEF read, ReaderSends, StreamInv, HandInv, dataVars
  <2>2. StreamOpen'
    BY <1>0, <2>1 DEF StreamOpen
  <2> QED
    BY <2>1, <2>2 DEF LossInv, StreamOpen
<1>3. CASE send /\ wpc = "done"
  BY <1>0, <1>3 DEF send, LossInv
<1>4. CASE send /\ wpc # "done"
  <2>1. reader_pc' = "count" /\ stream_end' = NoEnd
    BY <1>0, <1>4 DEF send, StreamInv, HandInv, StreamOpen
  <2>2. Lost' = 0
    BY <2>1 DEF Lost
  <2> QED
    BY <2>1, <2>2 DEF LossInv
<1>5. CASE count
  <2>1. /\ reader_pc = "count" /\ reader_msg' = NoMsg /\ UNCHANGED <<taken, data_queue>>
        /\ reader_pc' \in {"read", "done"}
    BY <1>5 DEF count
  <2>2. reader_msg'.type = "end" /\ Lost' = 0 /\ Lost = 0 /\ InHand = 0
    BY <2>1 DEF NoMsg, StreamEnd, Lost, InHand
  <2>3. StreamOpen' = StreamOpen
    BY <1>0, <2>1 DEF StreamOpen
  <2>4. StreamOpen => taken = Recv + Len(data_queue)
    BY <2>1, <2>2, RecvNat DEF StreamInv, HandInv
  <2>5. Recv + Len(data_queue) = Recv + Len(data_queue) + 0
    BY RecvNat
  <2> QED
    BY <1>0, <1>1, <2>1, <2>2, <2>3, <2>4, <2>5 DEF LossInv
<1>6. CASE reader_lost
  <2>1. /\ reader_pc \in {"read", "send"} /\ reader_pc' = "done"
        /\ UNCHANGED <<reader_msg, taken, data_queue>>
    BY <1>6 DEF reader_lost, dataVars
  <2>2. StreamOpen /\ StreamOpen' /\ stream_end = NoEnd
    BY <1>0, <2>1 DEF StreamInv, HandInv, StreamOpen
  <2>3. Lost' = InHand
    BY <2>1 DEF Lost, InHand, LossInv
  <2>4. taken = Recv + Len(data_queue) + InHand
    BY <2>1, <2>2 DEF StreamInv, HandInv
  <2> QED
    BY <1>0, <1>1, <2>1, <2>2, <2>3, <2>4 DEF LossInv
<1> QED
  BY <1>2, <1>3, <1>4, <1>5, <1>6

(* The worker's steps: it takes a batch, the terminal message, or finds     *)
(* that the reader is gone.                                                 *)
LEMMA WorkerLoses ==
  TypeOK /\ TypeOK' /\ StreamInv /\ StreamInv' /\ LossInv /\ (feed \/ drain_stream_end \/ drain_empty) => LossInv'
<1> SUFFICES ASSUME TypeOK, TypeOK', StreamInv, StreamInv', LossInv,
                    feed \/ drain_stream_end \/ drain_empty
             PROVE  LossInv'
  OBVIOUS
<1>0. UNCHANGED <<reader_pc, reader_msg, taken>> /\ wpc # "done"
  BY DEF feed, drain_stream_end, drain_empty, readerVars
<1>1. Lost' = Lost /\ Lost \in {0, 1}
  BY <1>0 DEF Lost
<1>2. Recv \in Nat /\ Len(data_queue) \in Nat /\ data_queue \in Seq(DataMsg)
  BY RecvNat DEF TypeOK, DataTypeOK
<1>3. CASE feed
  <2>1. data_queue # <<>> /\ data_queue' = Tail(data_queue) /\ UNCHANGED stream_end
        /\ Head(data_queue).type = "bytes"
    BY <1>3 DEF feed, Received
  <2>2. /\ Len(data_queue') = Len(data_queue) - 1
        /\ \A i \in 1..Len(data_queue') :
             data_queue'[i] = data_queue[i + 1] /\ i + 1 \in 1..Len(data_queue)
        /\ Head(data_queue) = data_queue[1]
    BY <1>2, <2>1, TailShape
  <2>3. stream_end = NoEnd
    BY <2>1 DEF StreamInv, EndInv
  <2>4. Recv' = Recv + 1
    <3>0. fed \in Seq(Nat) /\ dropped_after_drain \in Nat
      BY DEF TypeOK, CaptureTypeOK
    <3>1. CASE LateBatch
      <4>1. UNCHANGED fed /\ dropped_after_drain' = dropped_after_drain + 1
        BY <1>3, <3>1 DEF feed, LateBatch
      <4> QED
        BY <3>0, <4>1 DEF Recv
    <3>2. CASE ~LateBatch
      <4>1. fed' = Append(fed, Head(data_queue).n) /\ UNCHANGED dropped_after_drain
        BY <1>3, <3>2 DEF feed
      <4>2. Len(fed') = Len(fed) + 1 /\ Len(fed) \in Nat
        BY <3>0, <4>1
      <4> QED
        BY <3>0, <4>1, <4>2 DEF Recv
    <3> QED
      BY <3>1, <3>2
  <2>5. StreamOpen' <=> StreamOpen
    <3>1. StreamOpen => StreamOpen'
      BY <2>1, <2>2 DEF StreamOpen
    <3>2. ASSUME StreamOpen', NEW i \in 1..Len(data_queue) PROVE data_queue[i].type = "bytes"
      <4>1. CASE i = 1
        BY <2>1, <2>2, <4>1
      <4>2. CASE i # 1
        <5>1. i - 1 \in 1..Len(data_queue') /\ (i - 1) + 1 = i
          BY <1>2, <2>2, <4>2
        <5> QED
          BY <2>2, <3>2, <5>1 DEF StreamOpen
      <4> QED
        BY <4>1, <4>2
    <3> QED
      BY <2>3, <3>1, <3>2 DEF StreamOpen
  <2>6. Recv' + Len(data_queue') = Recv + Len(data_queue)
    BY <1>2, <2>2, <2>4
  <2> QED
    BY <1>0, <1>1, <2>1, <2>3, <2>5, <2>6 DEF LossInv
<1>4. CASE drain_stream_end
  <2>1. data_queue # <<>> /\ Head(data_queue).type = "end" /\ UNCHANGED <<fed, dropped_after_drain>>
    BY <1>4 DEF drain_stream_end
  <2>2. Head(data_queue) = data_queue[1] /\ 1 \in 1..Len(data_queue)
    BY <1>2, <2>1, TailShape
  <2>3. stream_end = NoEnd /\ ~StreamOpen /\ 1 = Len(data_queue) /\ taken = Recv + Len(data_queue) - 1
    BY <2>1, <2>2 DEF StreamInv, EndInv, QueueInv, StreamOpen
  <2>4. taken = Recv + Lost /\ Recv' = Recv
    <3>1. Lost = 0
      BY <1>0, <2>3 DEF LossInv
    <3>2. taken = Recv + Lost
      <4>1. taken = Recv + 1 - 1
        BY <2>3
      <4>2. Recv + 1 - 1 = Recv + 0
        BY <1>2
      <4> QED
        BY <3>1, <4>1, <4>2
    <3> QED
      BY <2>1, <3>2 DEF Recv
  <2>5. stream_end' # NoEnd
    <3>1. Head(data_queue) \in DataMsg
      BY <1>2, <2>1
    <3> QED
      BY <1>4, <2>1, <2>3, <3>1, WorkerAssumption DEF drain_stream_end, DataMsg, EndKind
  <2> QED
    BY <1>0, <1>1, <2>4, <2>5 DEF LossInv, StreamOpen
<1>5. CASE drain_empty
  <2>1. data_queue = <<>> /\ UNCHANGED <<data_queue, fed, dropped_after_drain>>
    BY <1>5 DEF drain_empty, dataVars
  <2>2. Recv' = Recv /\ Len(data_queue) = 0
    BY <2>1 DEF Recv
  <2>3. CASE reader_pc = "done" /\ stream_end = NoEnd
    <3>1. StreamOpen
      BY <2>2, <2>3 DEF StreamOpen
    <3>2. taken = Recv + Lost
      BY <1>0, <1>1, <1>2, <2>2, <2>3, <3>1 DEF LossInv
    <3>3. stream_end' = "ReadFailed"
      BY <1>5, <2>3 DEF drain_empty
    <3> QED
      BY <1>0, <1>1, <2>2, <3>2, <3>3, WorkerAssumption DEF LossInv, StreamOpen
  <2>4. CASE UNCHANGED stream_end
    <3>1. StreamOpen' = StreamOpen
      BY <2>1, <2>4 DEF StreamOpen
    <3> QED
      BY <1>0, <1>1, <2>1, <2>2, <2>4, <3>1 DEF LossInv
  <2> QED
    BY <1>5, <2>3, <2>4 DEF drain_empty
<1> QED
  BY <1>3, <1>4, <1>5

(* Every step accounts for the batches.                                     *)
LEMMA LossStep == IInv /\ IInv' /\ LossInv /\ [Next]_vars => LossInv'
<1> SUFFICES ASSUME IInv, IInv', LossInv, [Next]_vars PROVE LossInv'
  OBVIOUS
<1>0. TypeOK /\ TypeOK' /\ StreamInv /\ StreamInv' /\ StepFrames
  BY Frames DEF IInv, CaptureInv
<1>1. CASE read \/ send \/ count \/ reader_lost
  BY <1>0, <1>1, ReaderLoses
<1>2. CASE feed \/ drain_stream_end \/ drain_empty
  BY <1>0, <1>2, WorkerLoses
<1>3. CASE UNCHANGED streamVars
  <2>1. wpc' # "done" => wpc # "done"
    BY <1>0, DoneStays
  <2>2. Recv' = Recv /\ StreamOpen' = StreamOpen /\ Lost' = Lost
    BY <1>3 DEF streamVars, Recv, StreamOpen, Lost
  <2> QED
    BY <1>3, <2>1, <2>2 DEF streamVars, LossInv
<1> QED
  BY <1>0, <1>1, <1>2, <1>3 DEF StepFrames, streamVars, readerVars, dataVars

(* For any output, channel depth and schedule, also when the reader thread  *)
(* dies: no batch read from the PTY is lost between run_reader and feed     *)
(* without a trace while the worker lives.                                  *)
THEOREM NothingSilentlyLost == Spec => []NoBatchLost
<1>1. Init => LossInv
  BY WorkerAssumption DEF Init, WorkerInit, ReaderInit, ChannelInit, ThreadInit, LossInv, NoMsg, StreamEnd,
     StreamOpen
<1>2. IInv /\ LossInv => NoBatchLost
  BY Accounted DEF IInv, CaptureInv
<1> QED
  BY <1>1, <1>2, LossStep, CaptureInvariant, PTL DEF Spec

-----------------------------------------------------------------------------
(* PtySession implements Capture, under the refinement mapping C.            *)

(* A new session is a new Capture.                                          *)
LEMMA InitRefines == Init => C!Init
<1> SUFFICES ASSUME Init PROVE C!Init
  OBVIOUS
<1>1. produced = <<>> /\ fed = <<>> /\ proc = "running" /\ exit_code = NoStatus /\ outcome = NoOutcome
  BY DEF Init, ChildInit, SharedInit, WorkerInit, ThreadInit
<1>2. Len(produced) = 0 /\ Len(fed) = 0
  BY <1>1
<1> QED
  BY <1>1, <1>2 DEF C!Init, SlaveClosed

(* Only the child's own end changes its exit status.                         *)
LEMMA ExitSteps == [Next]_vars => child_ends \/ UNCHANGED <<exit_code>>
<1> SUFFICES ASSUME [Next]_vars PROVE child_ends \/ UNCHANGED exit_code
  OBVIOUS
<1> QED
  BY Frames DEF StepFrames, ChildStep, poll, signal_locked, kill_locked, wait_locked, Reap,
     Deliver, childVars

(* Finalizing, by poll_exit_state or by shutdown_and_exit, is a Declare.    *)
LEMMA DeclareRefines ==
  ASSUME IInv, IInv', [Next]_vars, Declares
  PROVE  C!Next
<1>1. PICK exit \in Status \cup {UnknownExit}, absent \in {"DrainExpired", "Aborted"} :
        Finalize(exit, absent) /\ (exit # UnknownExit => exited' = exit)
  BY DEF Declares
<1> DEFINE stream == FinalStream(absent)
<1>2. /\ UNCHANGED <<stream_end, dropped_after_drain, fed, produced, slave_held, exit_code>>
      /\ ~finalized
  BY DEF Declares
<1>3. outcome = NoOutcome /\ outcome' # NoOutcome
  <2>1. finalized' = TRUE
    BY <1>1 DEF Finalize
  <2> QED
    BY <1>2, <2>1 DEF IInv, CaptureInv, OutcomeInv
<1>4. outcome'.stream = stream /\ outcome'.exit = exit
  BY <1>1, <1>3 DEF Finalize, publish_outcome, Publish
<1>5. SlaveClosed' = SlaveClosed
  <2>1. proc' = "running" <=> proc = "running"
    BY <1>2 DEF IInv, ChildInv, ReapedIsReleased
  <2> QED
    BY <1>2, <2>1 DEF SlaveClosed
<1>6. stream = "CleanEof" => SlaveClosed /\ Len(fed) = Len(produced)
  <2> SUFFICES ASSUME stream = "CleanEof" PROVE SlaveClosed /\ Len(fed) = Len(produced)
    OBVIOUS
  <2>1. stream_end = "CleanEof"
    BY DEF FinalStream
  <2>2. AllRead /\ taken = Recv /\ dropped_after_drain = 0
    BY <1>2, <2>1 DEF IInv, CaptureInv, StreamInv, EndInv, DropInv
  <2>3. Recv = Len(fed)
    BY <2>2, RecvNat DEF Recv, IInv
  <2> QED
    BY <2>2, <2>3 DEF AllRead
<1>7. exit # UnknownExit => exit = exit_code
  <2> SUFFICES ASSUME exit # UnknownExit PROVE exit = exit_code
    OBVIOUS
  <2>1. exited' = exit /\ exited' # NoStatus
    BY <1>1, ChildAssumption
  <2>2. reaped' /\ exited' = status'
    BY <2>1 DEF IInv, CaptureInv, ExitInv
  <2>3. status' = exit_code'
    BY <2>2 DEF IInv, ChildInv, ReapedIsReleased
  <2> QED
    BY <1>2, <2>1, <2>2, <2>3
<1>8. stream \in StreamStates \ {"Streaming"}
  BY DEF FinalStream, IInv, TypeOK, CaptureTypeOK, StreamStates, EndKind
<1> HIDE DEF stream
<1>9. C!Declare(stream, exit)
  BY <1>2, <1>3, <1>4, <1>5, <1>6, <1>7 DEF C!Declare
<1> QED
  BY <1>8, <1>9 DEF C!Next

(* Every other step is a Write, an End, a HangUp, a Take or invisible.      *)
LEMMA StepRefines == IInv /\ IInv' /\ [Next]_vars => [C!Next]_(C!vars)
<1> SUFFICES ASSUME IInv, IInv', [Next]_vars PROVE C!Next \/ UNCHANGED C!vars
  OBVIOUS
<1>0. TypeOK /\ InRange /\ ChildInv /\ ChildInv' /\ StepFrames
  BY Frames DEF IInv
<1>1. CASE Declares
  BY <1>1, DeclareRefines
<1>2. CASE UNCHANGED outcome
  <2>1. CASE feed
    <3>1. UNCHANGED <<produced, proc, slave_held, exit_code>>
      BY <2>1 DEF feed, ptyVars, childVars
    <3>2. CASE LateBatch
      BY <1>2, <2>1, <3>1, <3>2 DEF feed, C!vars, SlaveClosed
    <3>3. CASE ~LateBatch
      <4>1. outcome = NoOutcome
        BY <3>3 DEF LateBatch, IInv, CaptureInv, OutcomeInv
      <4>2. Len(fed') = Len(fed) + 1 /\ Len(fed) \in Nat
        BY <1>0, <2>1, <3>3 DEF feed, TypeOK, CaptureTypeOK
      <4>3. Len(fed) < Len(produced)
        <5>1. dropped_after_drain = 0 /\ Recv = Len(fed)
          BY <1>0, <3>3, RecvNat DEF LateBatch, IInv, CaptureInv, StreamInv, DropInv, Recv
        <5>2. Head(data_queue) = data_queue[1] /\ 1 \in 1..Len(data_queue)
          BY <1>0, <2>1, TailShape DEF feed, TypeOK, DataTypeOK
        <5>3. Head(data_queue).n = Recv + 1
          BY <2>1, <5>2 DEF feed, IInv, CaptureInv, StreamInv, QueueInv
        <5>4. Recv + 1 \in 1..Len(produced)
          BY <1>0, <2>1, <5>3, HeadBatch DEF feed
        <5> QED
          BY <1>0, <5>1, <5>4 DEF TypeOK, PtyTypeOK
      <4> QED
        BY <1>2, <3>1, <4>1, <4>2, <4>3 DEF C!Next, C!Take, SlaveClosed
    <3> QED
      BY <3>2, <3>3
  <2>2. ASSUME NEW b \in Batch, child_writes(b) PROVE C!Next
    <3>1. /\ UNCHANGED <<proc, exit_code, slave_held, fed>> /\ ~SlaveClosed
      BY <2>2 DEF child_writes, PtyStep, childVars, workerVars, captureVars, SlaveOpen, SlaveClosed
    <3>2. Len(produced') = Len(produced) + 1
      BY <1>0, <2>2 DEF child_writes, TypeOK, PtyTypeOK
    <3> QED
      BY <1>2, <3>1, <3>2 DEF C!Next, C!Write, SlaveClosed
  <2>3. CASE child_ends
    <3>1. /\ UNCHANGED <<produced, fed, slave_held>>
          /\ proc = "running" /\ exit_code' \in Status
      BY <2>3 DEF child_ends, child_exits, PtyStep, ptyVars, workerVars, captureVars
    <3>2. exit_code = NoStatus
      BY <1>0, <3>1 DEF ChildInv, ReapedIsReleased
    <3>3. (~SlaveClosed') \in BOOLEAN
      BY DEF SlaveClosed
    <3> QED
      BY <1>2, <3>1, <3>2, <3>3 DEF C!Next, C!End
  <2>4. CASE child_forks
    <3>1. /\ UNCHANGED <<produced, fed, exit_code, proc>> /\ proc = "running"
      BY <2>4 DEF child_forks, PtyStep, childVars, workerVars, captureVars
    <3> QED
      BY <1>2, <3>1 DEF C!vars, SlaveClosed
  <2>5. CASE descendant_exits
    <3>1. /\ UNCHANGED <<produced, fed, exit_code, proc>> /\ slave_held /\ slave_held' = FALSE
      BY <2>5 DEF descendant_exits, PtyStep, childVars, workerVars, captureVars
    <3>2. CASE proc = "running"
      BY <1>2, <3>1, <3>2 DEF C!vars, SlaveClosed
    <3>3. CASE proc # "running"
      <4>1. exit_code # NoStatus
        BY <1>0, <3>3 DEF ChildInv, ReapedIsReleased
      <4> QED
        BY <1>2, <3>1, <3>3, <4>1 DEF C!Next, C!HangUp, SlaveClosed
    <3> QED
      BY <3>2, <3>3
  <2>6. CASE UNCHANGED <<produced, fed, slave_held, exit_code>>
    <3>1. SlaveClosed' = SlaveClosed
      <4>1. proc' = "running" <=> proc = "running"
        BY <1>0, <2>6 DEF ChildInv, ReapedIsReleased
      <4> QED
        BY <2>6, <4>1 DEF SlaveClosed
    <3> QED
      BY <1>2, <2>6, <3>1 DEF C!vars
  <2> QED
    BY <1>0, <2>1, <2>2, <2>3, <2>4, <2>5, <2>6, ExitSteps DEF StepFrames
<1> QED
  BY <1>0, <1>1, <1>2, OutcomeSteps

(* The threads, channels and clocks of a session implement Capture:         *)
(* batches are taken one at a time in order, one outcome is declared,       *)
(* nothing is taken after it, and CleanEof and the exit status it carries   *)
(* are true.                                                                *)
THEOREM SessionImplementsCapture == Spec => ImplementsCapture
<1>1. Spec => []IInv
  BY CaptureInvariant
<1> QED
  BY <1>1, InitRefines, StepRefines, PTL DEF Spec, ImplementsCapture, C!Spec
=============================================================================
