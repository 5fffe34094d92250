--------------------------- MODULE CaptureHistory ---------------------------
(***************************************************************************)
(* What the pump's accumulators must say of the whole history of fed       *)
(* batches: the output log, the event stash, the frame counter and the     *)
(* reply counters, each compared with what the batches amount to together, *)
(* however the output was cut into batches.                                *)
(***************************************************************************)
EXTENDS PtySession, SequencesExt

(* The history: the fed batches, their bytes, the synchronized-update bit    *)
(* after each change, and for each event the emulator emitted its batch.     *)
FedBatches == [i \in 1..Len(fed) |-> produced[fed[i]]]
Pumped  == FlattenSeq([i \in 1..Len(fed) |-> FedBatches[i].bytes])
Samples == FlattenSeq([i \in 1..Len(fed) |-> FedBatches[i].sync])
Emitted == Len(FlattenSeq([i \in 1..Len(fed) |-> [k \in 1..FedBatches[i].events |-> i]]))
Queries == Cardinality({i \in 1..Len(fed) : FedBatches[i].reply})

(* The recorder: the log is the oldest prefix of the pumped bytes that fits  *)
(* the cap, byte for byte even when the cap falls inside a batch, the total  *)
(* counts every byte, and truncation is reported exactly when bytes were cut *)
(* ("the gap to output_bytes_kept is exactly what was cut").                 *)
OutputLogIsPrefix ==
  RecordOutput =>
    /\ pump.output_log = SubSeq(Pumped, 1, AtMost(OutputCap, Len(Pumped)))
    /\ pump.output_bytes_total = Len(Pumped)
    /\ pump.output_truncated <=> Len(Pumped) > OutputCap

(* The stash: at most event_cap events (at least one), the newest of those   *)
(* not yet drained, in order; every other emitted event was handed over or   *)
(* counted as dropped.                                                       *)
EventsAccounted ==
  /\ Len(pump.events) <= (IF EventCap = 0 THEN 1 ELSE EventCap)
  /\ pump.events = [i \in 1..Len(pump.events) |-> Emitted - Len(pump.events) + i]
  /\ Emitted = pump.drained + pump.events_dropped + Len(pump.events)

(* The frame counter is honest: it counts the on-to-off transitions of the   *)
(* bit in the whole output, however that was split into batches and whether  *)
(* feed sampled after each byte or took its fast path.                       *)
FramesCounted ==
  frames = Cardinality({i \in 2..Len(Samples) : Samples[i-1] /\ ~Samples[i]})

(* Every reply the emulator produced was routed, counted as dropped, counted *)
(* as a failed write, or is being routed now.                                *)
RepliesAccounted ==
  Queries = pump.replies_routed + pump.replies_dropped_no_writer + pump.reply_write_errors
            + (IF wpc \in {"reply", "reply_write"} /\ produced[cur].reply THEN 1 ELSE 0)
=============================================================================
