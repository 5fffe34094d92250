------------------------------- MODULE Input -------------------------------
(* What stands between the bytes of a `read` and the escape-sequence parser  *)
(* (grid.rs `process`, `advance_parser`, `mid_sequence`): the buffer that    *)
(* holds back an incomplete UTF-8 tail (write.rs) and the tracker of the     *)
(* parser's sequence state (grid/midseq.rs).  Bytes are the numbers they     *)
(* are; the stream is cut into chunks anywhere, the way `read` cuts it.      *)
EXTENDS Integers, Sequences, SequencesExt

CONSTANTS Bytes,      \* the bytes a program may write
          MaxBytes,   \* bound: bytes received in a behaviour
          MaxChunk    \* bound: bytes delivered by one `process` call

ASSUME InputConstants == Bytes \subseteq 0 .. 255 /\ {MaxBytes, MaxChunk} \subseteq Nat

VARIABLES received,     \* history: every byte given to `process`, in order
          fed,          \* history: every byte given to the parser, in order
          pending_utf8, \* DamageGrid::pending_utf8
          seq_state     \* DamageGrid::seq_state

vars == <<received, fed, pending_utf8, seq_state>>

BEL == 7
CAN == 24
SUB == 26
ESC == 27
ST == 156      \* the C1 string terminator
IsAscii(b) == b < 128
Cont == 128 .. 191

-----------------------------------------------------------------------------
(* std::str::from_utf8: the well-formed sequences of Unicode's table 3-7.    *)

\* The bytes that may follow lead b at once, and how many bytes follow in all.
SecondByte(b) == CASE b = 224 -> 160 .. 191
                   [] b = 237 -> 128 .. 159
                   [] b = 240 -> 144 .. 191
                   [] b = 244 -> 128 .. 143
                   [] OTHER   -> Cont
TailLen(b) == CASE b \in 194 .. 223 -> 1
                [] b \in 224 .. 239 -> 2
                [] b \in 240 .. 244 -> 3
                [] OTHER            -> 0

\* The encoded character at position i of s has length n.
CharAt(s, i, n) ==
    \/ IsAscii(s[i]) /\ n = 1
    \/ /\ TailLen(s[i]) > 0
       /\ n = 1 + TailLen(s[i])
       /\ i + n - 1 <= Len(s)
       /\ s[i + 1] \in SecondByte(s[i])
       /\ \A k \in i + 2 .. i + n - 1 : s[k] \in Cont

\* Utf8Error::valid_up_to, and the length of s when all of it is well formed.
ValidUpTo(s) ==
    LET upTo[i \in 0 .. Len(s)] ==
            IF i < Len(s) /\ \E n \in 1 .. 4 : CharAt(s, i + 1, n)
            THEN upTo[i + CHOOSE n \in 1 .. 4 : CharAt(s, i + 1, n)]
            ELSE i
    IN  upTo[0]

-----------------------------------------------------------------------------
(* write.rs: the tail `process` keeps for the next call.                     *)

AfterLastAscii(bytes) == SelectLastInSeq(bytes, IsAscii)

\* An invalid tail is held like an incomplete one, and so is what follows it.
incomplete_utf8_suffix_len(bytes) ==
    LET suffix == SubSeq(bytes, AfterLastAscii(bytes) + 1, Len(bytes))
    IN  Len(suffix) - ValidUpTo(suffix)

-----------------------------------------------------------------------------
(* grid/midseq.rs: SeqState.                                                 *)

SeqState == {"Ground", "Escape", "EscapeIntermediate", "Csi", "Osc", "Dcs", "SosPmApc"}

\* CAN and SUB abort to ground, ESC (re)enters the escape state.
anywhere(q, b) == CASE b \in {CAN, SUB} -> "Ground"
                    [] b = ESC          -> "Escape"
                    [] OTHER            -> q

AfterEsc(b) == CASE b \in 32 .. 47      -> "EscapeIntermediate"
                 [] b = 80              -> "Dcs"
                 [] b \in {88, 94, 95}  -> "SosPmApc"
                 [] b = 91              -> "Csi"
                 [] b = 93              -> "Osc"
                 [] OTHER               -> "Ground"

advance(q, b) ==
    CASE q = "Ground" -> IF b = ESC THEN "Escape" ELSE q
      [] q = "Escape" /\ b \in 32 .. 126 -> AfterEsc(b)
      [] q = "EscapeIntermediate" /\ b \in 48 .. 126 -> "Ground"
      [] q = "Csi" /\ b \in 64 .. 126 -> "Ground"
      [] q = "Osc" /\ b = BEL -> "Ground"
      [] q = "Dcs" /\ b = ST -> "Ground"
      [] OTHER -> anywhere(q, b)

\* A plausible slip: the scan at ground resumes on the ESC's successor's
\* successor.
SkipsAfterEsc(q, bytes) ==
    LET n == Len(bytes)
        run[st \in SeqState, i \in 1 .. n + 2] ==
            IF i > n THEN st
            ELSE IF st # "Ground" THEN run[advance(st, bytes[i]), i + 1]
            ELSE LET at == {k \in i .. n : bytes[k] = ESC}
                 IN  IF at = {} THEN st
                     ELSE LET k == CHOOSE k \in at : \A m \in at : k <= m
                          IN  run["Escape", k + 2]
    IN  run[q, 1]

\* At ground the scan jumps to the next ESC; elsewhere it goes byte by byte.
advance_bytes(q, bytes) ==
    LET n == Len(bytes)
        run[at \in SeqState \X (1 .. n + 1)] ==
            LET st == at[1]
                i == at[2]
                escs == {k \in i .. n : bytes[k] = ESC}
            IN  IF i > n THEN st
                ELSE IF st # "Ground" THEN run[<<advance(st, bytes[i]), i + 1>>]
                ELSE IF escs = {} THEN st
                ELSE LET k == CHOOSE k \in escs : \A m \in escs : k <= m
                     IN  run[<<"Escape", k + 1>>]
    IN  run[<<q, 1>>]

is_ground(q) == q = "Ground"

mid_sequence == pending_utf8 # <<>> \/ ~is_ground(seq_state)

-----------------------------------------------------------------------------
(* grid.rs: process.                                                         *)

Init ==
    /\ received = <<>>
    /\ fed = <<>>
    /\ pending_utf8 = <<>>
    /\ seq_state = "Ground"

\* The tracker sees the bytes the parser sees, in the same order.
advance_parser(bytes) ==
    /\ seq_state' = advance_bytes(seq_state, bytes)
    /\ fed' = fed \o bytes

\* A plausible slip: the buffered tail is put behind the new bytes.
ProcessAppendsTail(bytes) ==
    LET combined == bytes \o pending_utf8
        feed_len == Len(combined) - incomplete_utf8_suffix_len(combined)
    IN  /\ advance_parser(SubSeq(combined, 1, feed_len))
        /\ pending_utf8' = SubSeq(combined, feed_len + 1, Len(combined))
        /\ received' = received \o bytes

process(bytes) ==
    LET combined == pending_utf8 \o bytes
        feed_len == Len(combined) - incomplete_utf8_suffix_len(combined)
    IN  /\ advance_parser(SubSeq(combined, 1, feed_len))
        /\ pending_utf8' = SubSeq(combined, feed_len + 1, Len(combined))
        /\ received' = received \o bytes

Next ==
    \E n \in 1 .. MaxChunk :
        /\ Len(received) + n <= MaxBytes
        /\ \E bytes \in [1 .. n -> Bytes] : process(bytes)

Spec == Init /\ [][Next]_vars

-----------------------------------------------------------------------------
(* Properties.                                                               *)

\* However `read` cuts the stream, the parser has been given, and `process`
\* holds back, exactly what one call over the whole stream would have given
\* and held: the tail is decided chunk by chunk, over the previous tail alone.
ChunkingInvisible ==
    /\ received = fed \o pending_utf8
    /\ Len(pending_utf8) = incomplete_utf8_suffix_len(received)

\* A sequence is open at the end of s: after its last ESC nothing aborts it
\* and its own terminator has not come.  (Written from the control-sequence
\* grammar of midseq.rs's module comment, with no automaton.)
OpenSequence(s) ==
    LET esc == SelectLastInSeq(s, LAMBDA b : b = ESC)
        tail == SubSeq(s, esc + 1, Len(s))
        Printing(b) == b \in 32 .. 126
        k == SelectInSeq(tail, Printing)
        body == SubSeq(tail, k + 1, Len(tail))
        Ends(S) == Range(body) \cap S # {}
    IN  /\ esc > 0
        /\ Range(tail) \cap {CAN, SUB} = {}
        /\ k > 0 => CASE tail[k] \in 32 .. 47     -> ~Ends(48 .. 126)
                      [] tail[k] = 91             -> ~Ends(64 .. 126)
                      [] tail[k] = 93             -> ~Ends({BEL})
                      [] tail[k] = 80             -> ~Ends({ST})
                      [] tail[k] \in {88, 94, 95} -> TRUE
                      [] OTHER                    -> FALSE

\* `mid_sequence` is FALSE exactly when all that was received has reached the
\* parser and left no sequence open, whatever the chunks were and although the
\* tracker skips what it meets at ground.
MidSequenceTruthful == mid_sequence <=> pending_utf8 # <<>> \/ OpenSequence(fed)

=============================================================================
