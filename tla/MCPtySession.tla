---------------------------- MODULE MCPtySession ----------------------------
(***************************************************************************)
(* Instances of PtySession for TLC: the batches a child writes, and the    *)
(* calls of clients while the output is pumped.                            *)
(***************************************************************************)
EXTENDS CaptureHistory

Plain(bytes) == [bytes |-> bytes, events |-> 0, reply |-> FALSE, esc |-> FALSE,
                 sync |-> <<>>]

(* A plain batch, and a terminal query the emulator answers on stdin.        *)
plain == Plain(<<1>>)
query == [Plain(<<2>>) EXCEPT !.reply = TRUE, !.esc = TRUE]

(* A title, the start of a synchronized update and the first bytes of the    *)
(* sequence that ends it; the rest of that sequence without an ESC, and two  *)
(* bells; the end of one update followed by a whole one, and a query.        *)
opens == [Plain(<<5>>) EXCEPT !.events = 1, !.esc = TRUE, !.sync = <<TRUE>>]
noisy == [Plain(<<3, 4>>) EXCEPT !.events = 2, !.sync = <<FALSE>>]
frame == [Plain(<<6>>) EXCEPT !.reply = TRUE, !.esc = TRUE, !.sync = <<FALSE, TRUE, FALSE>>]

flash == [plain EXCEPT !.esc = TRUE, !.sync = <<TRUE, FALSE>>]

PlainBatch   == {plain}
QueryBatch   == {query}
RichBatches  == {noisy, opens, frame}
CallBatches  == RichBatches \cup {flash}

ClientSymmetry == Permutations(Clients)

(* The calls of clients, in two scenes.  One client calls while the pump     *)
(* works off output that is already written: the child is silent and the     *)
(* session stays open, so the worker, the reader and the caller are what     *)
(* interleaves.  Or all clients watch a whole session with one short flash.  *)
(* Which it is shows in the output: only the pump has MaxBatches.            *)
Looks == {"observe", "snapshot"}

PumpedInit ==
  /\ ChildInit /\ SharedInit
  /\ \E out \in [1..MaxBatches -> RichBatches] :
       /\ produced = out
       /\ slave_held = FALSE /\ stdin = 0
       /\ ReaderInit /\ ChannelInit /\ ThreadInit
  /\ \E caller \in Clients : ops_left = [c \in Clients |-> IF c = caller THEN MaxOps ELSE 0]
  /\ hpc = "open" /\ verdict = "none"

WatchInit ==
  /\ ChildInit /\ SharedInit
  /\ produced = <<>> /\ slave_held = FALSE /\ stdin = 0
  /\ ReaderInit /\ ChannelInit /\ ThreadInit
  /\ ops_left = [c \in Clients |-> 1]
  /\ hpc = "open" /\ verdict = "none"

CallerNext(c) == (\E op \in ClientOps \ Looks : send_op(c, op)) \/ reply_timeout(c)

WatcherNext(c) ==
  (\E op \in Looks : send_op(c, op)) \/ (\E on \in ClientWaits : wait_on(c, on))

Flash == produced = <<>> /\ child_writes(flash)

CallsNext ==
  \/ PumpNext
  \/ child_reads
  \/ Len(produced) = MaxBatches /\ \E c \in Clients : CallerNext(c)
  \/ Len(produced) # MaxBatches /\ \E c \in Clients : WatcherNext(c)
  \/ \E c \in Clients : wait_wakes(c)
  \/ Len(produced) # MaxBatches /\ (Flash \/ child_ends \/ OwnerNext)
  \/ Finished

CallsSpec == (PumpedInit \/ WatchInit) /\ [][CallsNext]_vars

=============================================================================
