------------------------ MODULE PtySessionAccounting ------------------------
(***************************************************************************)
(* The pump's accumulators tell the truth about everything that was fed:   *)
(* the output log is a prefix of the pumped bytes, every event and every   *)
(* reply is accounted for, every completed frame is counted.  Each         *)
(* accumulator is compared with the flattened history of batches, so the   *)
(* first part proves how FlattenSeq grows by one batch.                    *)
(***************************************************************************)
EXTENDS PtySessionCapture, CaptureHistory, WellFoundedInduction

(* Every non-empty set of naturals has a least element: what the proofs     *)
(* below use for induction.                                                 *)
LEMMA LeastNatural ==
  ASSUME NEW T, T \subseteq Nat, T # {}
  PROVE  \E x \in T : \A y \in T : x <= y
<1> DEFINE R == OpToRel(<, Nat)
<1>1. IsWellFoundedOn(R, Nat)
  BY NatLessThanWellFounded
<1>2. \A x \in Nat, y \in Nat : <<y, x>> \in R <=> y < x
  BY DEF OpToRel
<1> HIDE DEF R
<1>3. PICK x \in T : \A y \in T : <<y, x>> \notin R
  BY <1>1, WFMin
<1>4. \A y \in T : x \in Nat /\ y \in Nat /\ ~(y < x)
  BY <1>2, <1>3
<1>5. \A y \in T : x <= y
  BY <1>4
<1> QED
  BY <1>5

(* f[i] is the concatenation of the first i sequences of ss, for i up to n. *)
Joins(f, ss, n) ==
  \A i \in 1..n : f[i] = IF i = 1 THEN ss[i] ELSE f[i-1] \o ss[i]

(* Concatenation stays in Seq(S).                                           *)
LEMMA ConcatType == ASSUME NEW S, NEW a \in Seq(S), NEW b \in Seq(S) PROVE a \o b \in Seq(S)
OBVIOUS

(* The partial concatenations exist, for any number of sequences: else take *)
(* the least number for which they do not.                                  *)
LEMMA JoinsExist ==
  ASSUME NEW S, NEW ss \in Seq(Seq(S)), NEW n \in Nat, n <= Len(ss)
  PROVE  \E f \in [1..n -> Seq(S)] : Joins(f, ss, n)
<1> DEFINE P(k) == \E f \in [1..k -> Seq(S)] : Joins(f, ss, k)
           T == {k \in Nat : k <= Len(ss) /\ ~P(k)}
<1> HIDE DEF P
<1> SUFFICES ASSUME T # {} PROVE FALSE
  BY DEF P
<1>0. Len(ss) \in Nat /\ \A i \in 1..Len(ss) : ss[i] \in Seq(S)
  OBVIOUS
<1>1. PICK k \in T : \A j \in T : k <= j
  BY LeastNatural
<1>2. k # 0
  <2>1. P(0)
    <3> DEFINE e == [i \in 1..0 |-> <<>>]
    <3>1. e \in [1..0 -> Seq(S)] /\ 1..0 = {}
      OBVIOUS
    <3>2. Joins(e, ss, 0)
      BY <3>1 DEF Joins
    <3> QED
      BY <3>1, <3>2 DEF P
  <2> QED
    BY <2>1
<1>3. k \in Nat /\ k - 1 \in Nat /\ k <= Len(ss) /\ ~P(k) /\ ~(k <= k - 1) /\ k - 1 <= Len(ss)
  BY <1>0, <1>2
<1>4. P(k-1)
  BY <1>1, <1>3
<1>5. PICK f \in [1..(k-1) -> Seq(S)] : Joins(f, ss, k-1)
  BY <1>4 DEF P
<1> DEFINE last == IF k = 1 THEN ss[k] ELSE f[k-1] \o ss[k]
           g == [i \in 1..k |-> IF i = k THEN last ELSE f[i]]
<1>6. last \in Seq(S)
  BY <1>0, <1>3, <1>5, ConcatType
<1> HIDE DEF last
<1>7. g \in [1..k -> Seq(S)]
  BY <1>3, <1>5, <1>6
<1>8. ASSUME NEW i \in 1..k PROVE g[i] = IF i = 1 THEN ss[i] ELSE g[i-1] \o ss[i]
  <2>1. CASE i = k
    <3>1. CASE k = 1
      BY <2>1, <3>1 DEF last
    <3>2. CASE k # 1
      <4>1. k - 1 \in 1..(k-1) /\ g[k-1] = f[k-1]
        BY <1>3, <3>2
      <4> QED
        BY <2>1, <3>2, <4>1 DEF last
    <3> QED
      BY <3>1, <3>2
  <2>2. CASE i # k
    <3>1. i \in 1..(k-1) /\ g[i] = f[i]
      BY <1>3, <2>2
    <3>2. f[i] = IF i = 1 THEN ss[i] ELSE f[i-1] \o ss[i]
      BY <1>5, <3>1 DEF Joins
    <3>3. i # 1 => g[i-1] = f[i-1]
      BY <1>3, <3>1
    <3> QED
      BY <3>1, <3>2, <3>3
  <2> QED
    BY <2>1, <2>2
<1>9. Joins(g, ss, k)
  BY <1>7, <1>8 DEF Joins
<1> QED
  BY <1>3, <1>7, <1>9 DEF P
(* They are unique: else take the first place where two of them differ.     *)
LEMMA JoinsAgree ==
  ASSUME NEW ss, NEW f, NEW g, NEW n \in Nat, Joins(f, ss, n), Joins(g, ss, n)
  PROVE  \A i \in 1..n : f[i] = g[i]
<1> DEFINE T == {i \in 1..n : f[i] # g[i]}
<1> SUFFICES ASSUME T # {} PROVE FALSE
  OBVIOUS
<1>1. T \subseteq Nat
  OBVIOUS
<1>2. PICK i \in T : \A j \in T : i <= j
  BY <1>1, LeastNatural
<1>3. i \in 1..n /\ i \in Nat
  OBVIOUS
<1>4. /\ f[i] = IF i = 1 THEN ss[i] ELSE f[i-1] \o ss[i]
      /\ g[i] = IF i = 1 THEN ss[i] ELSE g[i-1] \o ss[i]
  BY <1>3 DEF Joins
<1>5. i # 1 => i - 1 \in 1..n /\ ~(i <= i - 1)
  BY <1>3
<1>6. i # 1 => f[i-1] = g[i-1]
  BY <1>2, <1>5
<1>7. f[i] = g[i]
  BY <1>4, <1>6
<1> QED
  BY <1>7

(* FlattenSeq is the last partial concatenation.                            *)
LEMMA FlattenJoins ==
  ASSUME NEW S, NEW ss \in Seq(Seq(S)), ss # <<>>
  PROVE  \E f : f \in [1..Len(ss) -> Seq(S)] /\ Joins(f, ss, Len(ss)) /\ FlattenSeq(ss) = f[Len(ss)]
<1>0. Len(ss) \in Nat /\ Len(ss) # 0 /\ Len(ss) <= Len(ss)
  OBVIOUS
<1>1. PICK f \in [1..Len(ss) -> Seq(S)] : Joins(f, ss, Len(ss))
  BY <1>0, JoinsExist
<1> DEFINE E(h) == h = [i \in 1..Len(ss) |-> IF i = 1 THEN ss[i] ELSE h[i-1] \o ss[i]]
           g == CHOOSE h : E(h)
<1>2. FlattenSeq(ss) = g[Len(ss)]
  BY <1>0, Zenon DEF FlattenSeq
<1>3. E(f)
  BY <1>1 DEF Joins
<1>4. E(g)
  <2> HIDE DEF E
  <2> QED
    BY <1>3
<1> HIDE DEF g
<1>5. Joins(g, ss, Len(ss))
  BY <1>4 DEF Joins
<1>6. \A i \in 1..Len(ss) : f[i] = g[i]
  <2> HIDE DEF E
  <2> QED
    BY <1>0, <1>1, <1>5, JoinsAgree
<1>7. Len(ss) \in 1..Len(ss)
  BY <1>0
<1> HIDE DEF E
<1>8. FlattenSeq(ss) = f[Len(ss)]
  BY <1>2, <1>6, <1>7
<1> QED
  BY <1>1, <1>8

(* FlattenSeq concatenates: one more sequence is appended to the result.    *)
LEMMA FlattenAppend ==
  ASSUME NEW S, NEW ss \in Seq(Seq(S)), NEW s \in Seq(S)
  PROVE  /\ FlattenSeq(<<>>) = <<>>
         /\ FlattenSeq(ss) \in Seq(S)
         /\ FlattenSeq(Append(ss, s)) = FlattenSeq(ss) \o s
<1>0. FlattenSeq(<<>>) = <<>>
  BY DEF FlattenSeq
<1>1. PICK m \in Nat, more \in Seq(Seq(S)) : m = Len(more) /\ more = Append(ss, s)
  <2>1. Append(ss, s) \in Seq(Seq(S))
    <3>1. s \in Seq(S)
      OBVIOUS
    <3> QED
      BY <3>1
  <2>2. Len(Append(ss, s)) \in Nat
    BY <2>1
  <2> QED
    BY <2>1, <2>2, Zenon
<1>2. more[m] = s /\ Len(ss) = m - 1 /\ more # <<>> /\ \A i \in 1..(m-1) : ss[i] = more[i]
  <2>1. s \in Seq(S) /\ ss \in Seq(Seq(S))
    OBVIOUS
  <2>2. Len(ss) = m - 1 /\ more[m] = s
    BY <1>1, <2>1
  <2>3. \A i \in 1..(m-1) : ss[i] = more[i]
    BY <1>1, <2>1
  <2>4. more # <<>>
    BY <1>1
  <2> QED
    BY <2>2, <2>3, <2>4
<1>3. PICK g : Joins(g, more, m) /\ FlattenSeq(more) = g[m]
  BY <1>1, <1>2, FlattenJoins
<1>4. CASE ss = <<>>
  <2>1. m = 1 /\ m \in 1..m
    BY <1>2, <1>4
  <2>2. g[m] = more[m]
    BY <1>3, <2>1 DEF Joins
  <2>3. FlattenSeq(ss) = <<>> /\ <<>> \o s = s /\ <<>> \in Seq(S)
    BY <1>0, <1>4
  <2> QED
    BY <1>0, <1>1, <1>2, <1>3, <2>2, <2>3
<1>5. CASE ss # <<>>
  <2>1. PICK n \in Nat : n = m - 1 /\ n = Len(ss) /\ n \in 1..n
    BY <1>2, <1>5
  <2>2. PICK f : f \in [1..n -> Seq(S)] /\ Joins(f, ss, n) /\ FlattenSeq(ss) = f[n]
    <3>1. \E f : f \in [1..Len(ss) -> Seq(S)] /\ Joins(f, ss, Len(ss)) /\ FlattenSeq(ss) = f[Len(ss)]
      BY <1>5, FlattenJoins
    <3> QED
      BY <2>1, <3>1, Zenon
  <2>3. Joins(g, ss, n)
    <3> SUFFICES ASSUME NEW i \in 1..n
                 PROVE  g[i] = IF i = 1 THEN ss[i] ELSE g[i-1] \o ss[i]
      BY DEF Joins
    <3>1. i \in 1..m /\ ss[i] = more[i]
      BY <1>2, <2>1
    <3>2. g[i] = IF i = 1 THEN more[i] ELSE g[i-1] \o more[i]
      BY <1>3, <3>1 DEF Joins
    <3> QED
      BY <3>1, <3>2
  <2>4. f[n] = g[n]
    <3>1. Joins(f, ss, n)
      BY <2>2
    <3>2. \A i \in 1..n : f[i] = g[i]
      BY <2>3, <3>1, JoinsAgree
    <3> QED
      BY <2>1, <3>2
  <2>5. g[m] = g[n] \o more[m]
    <3>1. m \in 1..m /\ m # 1
      BY <2>1
    <3>2. g[m] = g[m-1] \o more[m]
      BY <1>3, <3>1 DEF Joins
    <3> QED
      BY <2>1, <3>2, Zenon
  <2>6. f[n] \in Seq(S)
    BY <2>1, <2>2
  <2> QED
    BY <1>0, <1>1, <1>2, <1>3, <2>2, <2>4, <2>5, <2>6, Zenon
<1> QED
  BY <1>4, <1>5

-----------------------------------------------------------------------------
(* What a history of batches amounts to.                                    *)
BytesOf(h)  == [i \in 1..Len(h) |-> h[i].bytes]
SyncOf(h)   == [i \in 1..Len(h) |-> h[i].sync]
EventsOf(h) == [i \in 1..Len(h) |-> [k \in 1..h[i].events |-> i]]
QueriesOf(h) == {i \in 1..Len(h) : h[i].reply}

(* The fields of a batch have their types.                                  *)
LEMMA BatchFields ==
  ASSUME NEW b \in Batch
  PROVE  b.bytes \in Seq(Nat) /\ b.events \in Nat /\ b.reply \in BOOLEAN /\ b.sync \in Seq(BOOLEAN)
BY WorkerAssumption DEF BatchShape

(* The fast path misses nothing: where feed samples once there is one       *)
(* change of the bit to see, or none.                                       *)
LEMMA SampledAll ==
  ASSUME NEW b \in Batch
  PROVE  Sampled(b) = b.sync
<1>1. b.sync \in Seq(BOOLEAN) /\ (b.esc \/ Len(b.sync) <= 1)
  BY WorkerAssumption DEF BatchShape
<1>2. \A s \in Seq(BOOLEAN) : Len(s) <= 1 => Final(s) = s
  <2>1. ASSUME NEW s \in Seq(BOOLEAN), Len(s) <= 1, s # <<>> PROVE <<s[Len(s)]>> = s
    <3>1. Len(s) = 1
      BY <2>1
    <3> QED
      BY <3>1
  <2> QED
    BY <2>1 DEF Final
<1> QED
  BY <1>1, <1>2 DEF Sampled

(* The events of a history, batch by batch.                                 *)
LEMMA EventsTyped ==
  ASSUME NEW h \in Seq(Batch)
  PROVE  EventsOf(h) \in Seq(Seq(Nat)) /\ Len(EventsOf(h)) = Len(h)
<1>0. Len(h) \in Nat /\ \A i \in 1..Len(h) : h[i] \in Batch
  OBVIOUS
<1>1. ASSUME NEW i \in 1..Len(h) PROVE [k \in 1..h[i].events |-> i] \in Seq(Nat)
  <2>1. h[i].events \in Nat /\ i \in Nat
    BY <1>0, BatchFields
  <2> QED
    BY <2>1
<1> QED
  BY <1>0, <1>1 DEF EventsOf

(* One more batch appends its bytes, its samples and its events, and adds   *)
(* its query, if any.                                                       *)
LEMMA HistoryGrows ==
  ASSUME NEW h \in Seq(Batch), NEW b \in Batch
  PROVE  /\ BytesOf(h) \in Seq(Seq(Nat)) /\ BytesOf(Append(h, b)) = Append(BytesOf(h), b.bytes)
         /\ SyncOf(h) \in Seq(Seq(BOOLEAN)) /\ SyncOf(Append(h, b)) = Append(SyncOf(h), b.sync)
         /\ EventsOf(h) \in Seq(Seq(Nat))
         /\ EventsOf(Append(h, b)) = Append(EventsOf(h), [k \in 1..b.events |-> Len(h) + 1])
         /\ IsFiniteSet(QueriesOf(h)) /\ Len(h) + 1 \notin QueriesOf(h)
         /\ QueriesOf(Append(h, b)) = QueriesOf(h) \cup (IF b.reply THEN {Len(h) + 1} ELSE {})
<1>0. Len(h) \in Nat /\ \A i \in 1..Len(h) : h[i] \in Batch
  OBVIOUS
<1>1. /\ Len(Append(h, b)) = Len(h) + 1 /\ Append(h, b)[Len(h) + 1] = b
      /\ \A i \in 1..Len(h) : Append(h, b)[i] = h[i]
  OBVIOUS
<1>2. \A i \in 1..(Len(h) + 1) : i \in 1..Len(h) \/ i = Len(h) + 1
  BY <1>0
<1>3. BytesOf(h) \in Seq(Seq(Nat)) /\ SyncOf(h) \in Seq(Seq(BOOLEAN))
  <2>1. \A i \in 1..Len(h) : h[i].bytes \in Seq(Nat) /\ h[i].sync \in Seq(BOOLEAN)
    BY <1>0, BatchFields
  <2> QED
    BY <1>0, <2>1 DEF BytesOf, SyncOf
<1>4. EventsOf(h) \in Seq(Seq(Nat))
  BY EventsTyped
<1>5. BytesOf(Append(h, b)) = Append(BytesOf(h), b.bytes)
  BY <1>0, <1>1, <1>2, <1>3 DEF BytesOf
<1>6. SyncOf(Append(h, b)) = Append(SyncOf(h), b.sync)
  BY <1>0, <1>1, <1>2, <1>3 DEF SyncOf
<1>7. EventsOf(Append(h, b)) = Append(EventsOf(h), [k \in 1..b.events |-> Len(h) + 1])
  <2> DEFINE new == [k \in 1..b.events |-> Len(h) + 1]
             all == EventsOf(Append(h, b))
  <2>1. Len(EventsOf(h)) = Len(h) /\ \A i \in 1..Len(h) : EventsOf(h)[i] = [k \in 1..h[i].events |-> i]
    BY <1>0 DEF EventsOf
  <2>2. all \in Seq(Seq(Nat)) /\ Len(all) = Len(h) + 1
    <3>1. Append(h, b) \in Seq(Batch)
      OBVIOUS
    <3> QED
      BY <1>1, <3>1, EventsTyped
  <2>3. all[Len(h) + 1] = new
    <3>1. Len(h) + 1 \in 1..Len(Append(h, b))
      BY <1>0, <1>1
    <3>2. all[Len(h) + 1] = [k \in 1..Append(h, b)[Len(h) + 1].events |-> Len(h) + 1]
      BY <3>1, Zenon DEF EventsOf
    <3> QED
      BY <1>1, <3>2, Zenon
  <2>4. \A i \in 1..Len(h) : all[i] = EventsOf(h)[i]
    BY <1>0, <1>1 DEF EventsOf
  <2>5. new \in Seq(Nat)
    BY <1>0, BatchFields
  <2> HIDE DEF new, all
  <2>6. /\ Append(EventsOf(h), new) \in Seq(Seq(Nat)) /\ Len(Append(EventsOf(h), new)) = Len(h) + 1
        /\ Append(EventsOf(h), new)[Len(h) + 1] = new
        /\ \A i \in 1..Len(h) : Append(EventsOf(h), new)[i] = EventsOf(h)[i]
    BY <1>4, <2>1, <2>5, AppendProperties
  <2>7. all = Append(EventsOf(h), new)
    BY <1>2, <2>2, <2>3, <2>4, <2>6, SeqEqual
  <2> QED
    BY <2>7, Zenon DEF new, all
<1>8. IsFiniteSet(QueriesOf(h))
  <2>1. IsFiniteSet(1..Len(h))
    BY <1>0, FS_Interval
  <2> QED
    BY <2>1, FS_Subset DEF QueriesOf
<1>9. Len(h) + 1 \notin QueriesOf(h)
  BY <1>0 DEF QueriesOf
<1>10. QueriesOf(Append(h, b)) = QueriesOf(h) \cup (IF b.reply THEN {Len(h) + 1} ELSE {})
  BY <1>0, <1>1, <1>2 DEF QueriesOf
<1> QED
  BY <1>3, <1>4, <1>5, <1>6, <1>7, <1>8, <1>9, <1>10

-----------------------------------------------------------------------------
(* Every fed batch was written.                                             *)
HistInv == \A i \in 1..Len(fed) : fed[i] \in 1..Len(produced)

(* The batch at the head of the data channel, and the step that feeds it.   *)
Fresh   == produced[Head(data_queue).n]
FedStep == feed /\ ~LateBatch

(* The history is a sequence of batches.                                    *)
LEMMA FedTyped ==
  ASSUME TypeOK, HistInv PROVE FedBatches \in Seq(Batch) /\ Len(FedBatches) = Len(fed)
<1>1. Len(fed) \in Nat /\ produced \in Seq(Batch)
  BY DEF TypeOK, CaptureTypeOK, PtyTypeOK
<1>2. \A i \in 1..Len(fed) : produced[fed[i]] \in Batch
  BY <1>1, ElementOfSeq DEF HistInv
<1> QED
  BY <1>1, <1>2 DEF FedBatches

(* What the four summaries are of the history, and their types.             *)
LEMMA Summaries ==
  ASSUME TypeOK, HistInv
  PROVE  /\ Pumped = FlattenSeq(BytesOf(FedBatches)) /\ Pumped \in Seq(Nat)
         /\ Samples = FlattenSeq(SyncOf(FedBatches)) /\ Samples \in Seq(BOOLEAN)
         /\ Emitted = Len(FlattenSeq(EventsOf(FedBatches))) /\ Emitted \in Nat
         /\ Queries = Cardinality(QueriesOf(FedBatches)) /\ Queries \in Nat
<1>0. FedBatches \in Seq(Batch) /\ Len(FedBatches) = Len(fed)
  BY FedTyped
<1>1. /\ Pumped = FlattenSeq(BytesOf(FedBatches)) /\ Samples = FlattenSeq(SyncOf(FedBatches))
      /\ Emitted = Len(FlattenSeq(EventsOf(FedBatches)))
      /\ Queries = Cardinality(QueriesOf(FedBatches))
  BY <1>0, Zenon DEF Pumped, Samples, Emitted, Queries, BytesOf, SyncOf, EventsOf, QueriesOf
<1>2. /\ BytesOf(FedBatches) \in Seq(Seq(Nat)) /\ SyncOf(FedBatches) \in Seq(Seq(BOOLEAN))
      /\ EventsOf(FedBatches) \in Seq(Seq(Nat)) /\ IsFiniteSet(QueriesOf(FedBatches))
  <2>1. ASSUME NEW h \in Seq(Batch)
        PROVE  /\ BytesOf(h) \in Seq(Seq(Nat)) /\ SyncOf(h) \in Seq(Seq(BOOLEAN))
               /\ EventsOf(h) \in Seq(Seq(Nat)) /\ IsFiniteSet(QueriesOf(h))
    <3>1. Len(h) \in Nat /\ \A i \in 1..Len(h) : h[i].bytes \in Seq(Nat) /\ h[i].sync \in Seq(BOOLEAN)
      BY BatchFields
    <3>2. IsFiniteSet(1..Len(h))
      BY <3>1, FS_Interval
    <3>3. IsFiniteSet(QueriesOf(h))
      BY <3>2, FS_Subset DEF QueriesOf
    <3> QED
      BY <3>1, <3>3, EventsTyped DEF BytesOf, SyncOf
  <2> QED
    BY <1>0, <2>1
<1>3. /\ FlattenSeq(BytesOf(FedBatches)) \in Seq(Nat)
      /\ FlattenSeq(SyncOf(FedBatches)) \in Seq(BOOLEAN)
      /\ FlattenSeq(EventsOf(FedBatches)) \in Seq(Nat)
  <2>1. \A S, ss : ss \in Seq(Seq(S)) => FlattenSeq(ss) \in Seq(S)
    <3> SUFFICES ASSUME NEW S, NEW ss \in Seq(Seq(S)) PROVE FlattenSeq(ss) \in Seq(S)
      BY Zenon
    <3>1. <<>> \in Seq(S)
      OBVIOUS
    <3> QED
      BY <3>1, FlattenAppend
  <2> QED
    BY <1>2, <2>1, Zenon
<1>4. Cardinality(QueriesOf(FedBatches)) \in Nat
  BY <1>2, FS_CardinalityType
<1>5. Len(FlattenSeq(EventsOf(FedBatches))) \in Nat
  BY <1>3
<1> QED
  BY <1>1, <1>3, <1>4, <1>5

(* A step feeds one batch or leaves the history alone.                      *)
LEMMA HistoryStep ==
  ASSUME TypeOK, TypeOK', InRange, HistInv, [Next]_vars
  PROVE  /\ HistInv'
         /\ \/ /\ FedStep /\ Fresh \in Batch
               /\ FedBatches' = Append(FedBatches, Fresh)
            \/ ~FedStep /\ FedBatches' = FedBatches
<1>0. /\ fed \in Seq(Nat) /\ fed' \in Seq(Nat) /\ produced \in Seq(Batch) /\ Len(produced) \in Nat
      /\ Len(fed) \in Nat
  BY DEF TypeOK, CaptureTypeOK, PtyTypeOK
<1>1. /\ Len(produced') \in Nat /\ Len(produced) <= Len(produced')
      /\ \A n \in 1..Len(produced) : produced'[n] = produced[n]
  <2>1. ASSUME NEW b \in Batch, child_writes(b)
        PROVE  /\ Len(produced') = Len(produced) + 1
               /\ \A n \in 1..Len(produced) : produced'[n] = produced[n]
    BY <1>0, <2>1 DEF child_writes
  <2> QED
    BY <1>0, <2>1, Frames DEF StepFrames
<1>2. CASE FedStep
  <2>1. /\ fed' = Append(fed, Head(data_queue).n) /\ produced' = produced
        /\ Head(data_queue).n \in 1..Len(produced) /\ Fresh \in Batch
    BY <1>2, HeadBatch DEF FedStep, feed, ptyVars, Fresh
  <2>2. /\ Len(fed') = Len(fed) + 1 /\ fed'[Len(fed) + 1] = Head(data_queue).n
        /\ \A i \in 1..Len(fed) : fed'[i] = fed[i]
    BY <1>0, <2>1
  <2>3. \A i \in 1..(Len(fed) + 1) : i \in 1..Len(fed) \/ i = Len(fed) + 1
    BY <1>0
  <2>4. HistInv'
    BY <2>1, <2>2, <2>3 DEF HistInv
  <2>5. FedBatches \in Seq(Batch) /\ Len(FedBatches) = Len(fed)
    BY FedTyped
  <2>6. /\ Append(FedBatches, Fresh) \in Seq(Batch) /\ Len(Append(FedBatches, Fresh)) = Len(fed) + 1
        /\ Append(FedBatches, Fresh)[Len(fed) + 1] = Fresh
        /\ \A i \in 1..Len(fed) : Append(FedBatches, Fresh)[i] = FedBatches[i]
    BY <2>1, <2>5, AppendProperties
  <2>7. FedBatches' \in Seq(Batch) /\ Len(FedBatches') = Len(fed')
    <3>1. \A i \in 1..Len(fed') : produced'[fed'[i]] \in Batch
      BY <1>0, <2>1, <2>4, ElementOfSeq DEF HistInv
    <3> QED
      BY <1>0, <2>2, <3>1 DEF FedBatches
  <2>8. FedBatches'[Len(fed) + 1] = Fresh
    BY <1>0, <2>1, <2>2 DEF FedBatches, Fresh
  <2>9. \A i \in 1..Len(fed) : FedBatches'[i] = FedBatches[i]
    BY <1>0, <2>1, <2>2 DEF FedBatches
  <2>10. FedBatches' = Append(FedBatches, Fresh)
    BY <2>2, <2>3, <2>6, <2>7, <2>8, <2>9, SeqEqual
  <2> QED
    BY <1>2, <2>1, <2>4, <2>10
<1>3. CASE ~FedStep
  <2>1. fed' = fed
    BY <1>3, Frames DEF StepFrames, FedStep, feed
  <2>2. HistInv'
    BY <1>0, <1>1, <2>1 DEF HistInv
  <2>3. FedBatches' = FedBatches
    BY <1>1, <2>1 DEF HistInv, FedBatches
  <2> QED
    BY <1>3, <2>2, <2>3
<1> QED
  BY <1>2, <1>3

(* So the summaries grow by what the fed batch carries.                     *)
LEMMA SummaryStep ==
  ASSUME TypeOK, TypeOK', InRange, HistInv, [Next]_vars
  PROVE  IF FedStep
         THEN /\ Fresh \in Batch
              /\ Pumped' = Pumped \o Fresh.bytes
              /\ Samples' = Samples \o Fresh.sync
              /\ Emitted' = Emitted + Fresh.events
              /\ Queries' = Queries + (IF Fresh.reply THEN 1 ELSE 0)
         ELSE UNCHANGED <<Pumped, Samples, Emitted, Queries>>
<1>0. HistInv' /\ Len(fed) \in Nat
  BY HistoryStep DEF TypeOK, CaptureTypeOK
<1>1. FedBatches \in Seq(Batch) /\ Len(FedBatches) = Len(fed)
  BY FedTyped
<1>2. Len(FedBatches') = Len(fed')
  <2>1. Len(fed') \in Nat
    BY DEF TypeOK, CaptureTypeOK
  <2> QED
    BY <2>1 DEF FedBatches
<1>3. /\ Pumped' = FlattenSeq(BytesOf(FedBatches'))
      /\ Samples' = FlattenSeq(SyncOf(FedBatches'))
      /\ Emitted' = Len(FlattenSeq(EventsOf(FedBatches')))
      /\ Queries' = Cardinality(QueriesOf(FedBatches'))
  BY <1>2, Zenon DEF Pumped, Samples, Emitted, Queries, BytesOf, SyncOf, EventsOf, QueriesOf
<1>4. CASE ~FedStep
  <2>1. FedBatches' = FedBatches
    BY <1>4, HistoryStep
  <2> QED
    BY <1>3, <1>4, <2>1, Summaries
<1>5. CASE FedStep
  <2>1. Fresh \in Batch /\ FedBatches' = Append(FedBatches, Fresh)
    BY <1>5, HistoryStep
  <2> DEFINE h == FedBatches
             b == Fresh
             new == [k \in 1..b.events |-> Len(h) + 1]
  <2>2. h \in Seq(Batch) /\ b \in Batch /\ FedBatches' = Append(h, b)
    BY <1>1, <2>1
  <2>3. b.bytes \in Seq(Nat) /\ b.events \in Nat /\ b.reply \in BOOLEAN /\ b.sync \in Seq(BOOLEAN)
    BY <2>2, BatchFields
  <2>4. new \in Seq(Nat) /\ Len(new) = b.events
    BY <1>0, <1>1, <2>3
  <2> HIDE DEF h, b, new
  <2>5. /\ BytesOf(h) \in Seq(Seq(Nat)) /\ BytesOf(Append(h, b)) = Append(BytesOf(h), b.bytes)
        /\ SyncOf(h) \in Seq(Seq(BOOLEAN)) /\ SyncOf(Append(h, b)) = Append(SyncOf(h), b.sync)
        /\ EventsOf(h) \in Seq(Seq(Nat)) /\ EventsOf(Append(h, b)) = Append(EventsOf(h), new)
        /\ IsFiniteSet(QueriesOf(h)) /\ Len(h) + 1 \notin QueriesOf(h)
        /\ QueriesOf(Append(h, b)) = QueriesOf(h) \cup (IF b.reply THEN {Len(h) + 1} ELSE {})
    BY <2>2, HistoryGrows, Zenon DEF new
  <2>6. Pumped' = Pumped \o b.bytes
    <3>1. FlattenSeq(Append(BytesOf(h), b.bytes)) = FlattenSeq(BytesOf(h)) \o b.bytes
      BY <2>3, <2>5, FlattenAppend
    <3> QED
      BY <1>3, <2>2, <2>5, <3>1, Summaries DEF h
  <2>7. Samples' = Samples \o b.sync
    <3>1. FlattenSeq(Append(SyncOf(h), b.sync)) = FlattenSeq(SyncOf(h)) \o b.sync
      BY <2>3, <2>5, FlattenAppend
    <3> QED
      BY <1>3, <2>2, <2>5, <3>1, Summaries DEF h
  <2>8. Emitted' = Emitted + b.events
    <3>1. /\ FlattenSeq(Append(EventsOf(h), new)) = FlattenSeq(EventsOf(h)) \o new
          /\ FlattenSeq(EventsOf(h)) \in Seq(Nat)
      BY <2>4, <2>5, FlattenAppend
    <3>2. Len(FlattenSeq(EventsOf(h)) \o new) = Len(FlattenSeq(EventsOf(h))) + Len(new)
      BY <2>4, <3>1
    <3> QED
      BY <1>3, <2>2, <2>4, <2>5, <3>1, <3>2, Summaries DEF h
  <2>9. Queries' = Queries + (IF b.reply THEN 1 ELSE 0)
    <3>1. Cardinality(QueriesOf(Append(h, b))) = Cardinality(QueriesOf(h)) + (IF b.reply THEN 1 ELSE 0)
      <4>1. Cardinality(QueriesOf(h)) \in Nat
        BY <2>5, FS_CardinalityType
      <4>2. Cardinality(QueriesOf(h) \cup {Len(h) + 1}) = Cardinality(QueriesOf(h)) + 1
        BY <2>5, FS_AddElement
      <4>3. CASE b.reply
        BY <2>5, <4>2, <4>3
      <4>4. CASE ~b.reply
        <5>1. QueriesOf(Append(h, b)) = QueriesOf(h)
          BY <2>5, <4>4
        <5> QED
          BY <4>1, <4>4, <5>1
      <4> QED
        BY <4>3, <4>4
    <3> QED
      BY <1>3, <2>2, <3>1, Summaries DEF h
  <2> QED
    BY <1>5, <2>1, <2>6, <2>7, <2>8, <2>9 DEF b
<1> QED
  BY <1>4, <1>5

-----------------------------------------------------------------------------
(* What a feed does to each field of the pump.                              *)
LEMMA FeedFields ==
  ASSUME pump \in PumpState, NEW b
  PROVE  /\ FeedPump(b).was_in_sync = LastSample(Sampled(b))
         /\ FeedPump(b).output_bytes_total =
              IF RecordOutput THEN pump.output_bytes_total + Len(b.bytes) ELSE pump.output_bytes_total
         /\ FeedPump(b).output_log =
              IF RecordOutput /\ ~pump.output_truncated
              THEN pump.output_log \o SubSeq(b.bytes, 1, LogTake(Len(b.bytes))) ELSE pump.output_log
         /\ FeedPump(b).output_truncated =
              (pump.output_truncated
                \/ (RecordOutput /\ ~pump.output_truncated /\ LogTake(Len(b.bytes)) < Len(b.bytes)))
         /\ FeedPump(b).emitted = pump.emitted + b.events
         /\ FeedPump(b).events = stash_event(b.events).kept
         /\ FeedPump(b).events_dropped = pump.events_dropped + stash_event(b.events).lost
         /\ FeedPump(b).drained = pump.drained
         /\ FeedPump(b).replies_routed = pump.replies_routed
         /\ FeedPump(b).replies_dropped_no_writer = pump.replies_dropped_no_writer
         /\ FeedPump(b).reply_write_errors = pump.reply_write_errors
BY DEF FeedPump, PumpState

(* Nobody but feed touches the recorder, the emission count or the sync     *)
(* bit; the stash is also emptied, all at once, by an events call.          *)
LEMMA PumpKeeps ==
  ASSUME TypeOK, ~FedStep, [Next]_vars
  PROVE  /\ pump'.output_log = pump.output_log
         /\ pump'.output_bytes_total = pump.output_bytes_total
         /\ pump'.output_truncated = pump.output_truncated
         /\ pump'.emitted = pump.emitted
         /\ pump'.events_dropped = pump.events_dropped
         /\ pump'.was_in_sync = pump.was_in_sync
         /\ \/ pump'.events = pump.events /\ pump'.drained = pump.drained
            \/ pump'.events = <<>> /\ pump'.drained = pump.drained + Len(pump.events)
<1>0. pump \in PumpState
  BY DEF TypeOK
<1>1. CASE feed
  BY <1>1 DEF FedStep, feed
<1>2. CASE route_reply
  BY <1>0, <1>2 DEF route_reply, PumpState
<1>3. CASE reply_write
  BY <1>0, <1>3 DEF reply_write, PumpState
<1>4. CASE ctl_events
  BY <1>0, <1>4 DEF ctl_events, PumpState
<1>5. CASE apply_resize
  BY <1>0, <1>5 DEF apply_resize, PumpState
<1> QED
  BY <1>1, <1>2, <1>3, <1>4, <1>5, Frames DEF StepFrames

(* A prefix of a concatenation, short of its first part or past it.         *)
LEMMA PrefixOfConcat ==
  ASSUME NEW p \in Seq(Nat), NEW b \in Seq(Nat), NEW n \in Nat, n <= Len(p)
  PROVE  SubSeq(p \o b, 1, n) = SubSeq(p, 1, n)
<1>1. Len(p) \in Nat /\ Len(b) \in Nat
  OBVIOUS
<1>2. \A i \in 1..n : (p \o b)[i] = p[i] /\ p[i] \in Nat
  BY <1>1, ConcatProperties, ElementOfSeq
<1>3. /\ SubSeq(p, 1, n) \in Seq(Nat) /\ Len(SubSeq(p, 1, n)) = n
      /\ \A i \in 1..n : SubSeq(p, 1, n)[i] = p[i]
  BY <1>2, SubSeqProperties
<1>4. /\ SubSeq(p \o b, 1, n) \in Seq(Nat) /\ Len(SubSeq(p \o b, 1, n)) = n
      /\ \A i \in 1..n : SubSeq(p \o b, 1, n)[i] = (p \o b)[i]
  BY <1>2, SubSeqProperties
<1> QED
  BY <1>2, <1>3, <1>4, SeqEqual

(* The same past the first part.                                            *)
LEMMA PrefixPastConcat ==
  ASSUME NEW p \in Seq(Nat), NEW b \in Seq(Nat), NEW k \in Nat, k <= Len(b)
  PROVE  SubSeq(p \o b, 1, Len(p) + k) = p \o SubSeq(b, 1, k)
<1> DEFINE n == Len(p) + k
           t == SubSeq(b, 1, k)
           l == SubSeq(p \o b, 1, n)
<1>1. Len(p) \in Nat /\ Len(b) \in Nat /\ n \in Nat
  OBVIOUS
<1>2. /\ p \o b \in Seq(Nat)
      /\ \A i \in 1..n : (p \o b)[i] = (IF i <= Len(p) THEN p[i] ELSE b[i - Len(p)])
  BY <1>1, ConcatProperties
<1>3. \A i \in 1..k : b[i] \in Nat
  BY <1>1, ElementOfSeq
<1>4. t \in Seq(Nat) /\ Len(t) = k /\ \A i \in 1..k : t[i] = b[i]
  BY <1>3, SubSeqProperties
<1>5. \A i \in 1..n : (p \o b)[i] \in Nat
  <2>1. Len(p \o b) = Len(p) + Len(b)
    BY ConcatProperties
  <2> QED
    BY <1>1, <1>2, <2>1, ElementOfSeq
<1>6. l \in Seq(Nat) /\ Len(l) = n /\ \A i \in 1..n : l[i] = (p \o b)[i]
  BY <1>1, <1>5, SubSeqProperties
<1> HIDE DEF t, l
<1>7. /\ p \o t \in Seq(Nat) /\ Len(p \o t) = n
      /\ \A i \in 1..n : (p \o t)[i] = (IF i <= Len(p) THEN p[i] ELSE t[i - Len(p)])
  BY <1>1, <1>4, ConcatProperties
<1>8. ASSUME NEW i \in 1..n PROVE l[i] = (p \o t)[i]
  <2>1. i > Len(p) => i - Len(p) \in 1..k
    BY <1>1
  <2>2. l[i] = (IF i <= Len(p) THEN p[i] ELSE b[i - Len(p)])
    BY <1>2, <1>6
  <2> QED
    BY <1>1, <1>4, <1>7, <2>1, <2>2
<1> HIDE DEF n
<1>9. l = p \o t
  BY <1>6, <1>7, <1>8, SeqEqual
<1> QED
  BY <1>9 DEF l, t, n

(* The recorder keeps the prefix, whatever the batch and the cap.           *)
LEMMA LogStep ==
  ASSUME TypeOK, TypeOK', InRange, HistInv, OutputLogIsPrefix, [Next]_vars
  PROVE  OutputLogIsPrefix'
<1> SUFFICES ASSUME RecordOutput
             PROVE  /\ pump'.output_log = SubSeq(Pumped', 1, AtMost(OutputCap, Len(Pumped')))
                    /\ pump'.output_bytes_total = Len(Pumped')
                    /\ pump'.output_truncated <=> Len(Pumped') > OutputCap
  BY DEF OutputLogIsPrefix
<1>0. /\ Pumped \in Seq(Nat) /\ OutputCap \in Nat /\ pump \in PumpState
      /\ pump.output_truncated \in BOOLEAN /\ pump.output_bytes_total \in Nat
  BY Summaries, WorkerAssumption, PumpFields DEF TypeOK
<1>1. /\ pump.output_log = SubSeq(Pumped, 1, AtMost(OutputCap, Len(Pumped)))
      /\ pump.output_bytes_total = Len(Pumped)
      /\ pump.output_truncated <=> Len(Pumped) > OutputCap
  BY DEF OutputLogIsPrefix
<1>2. CASE ~FedStep
  BY <1>1, <1>2, PumpKeeps, SummaryStep
<1>3. CASE FedStep
  <2> DEFINE b == Fresh.bytes
             p == Pumped
             cap == OutputCap
  <2>1. Fresh \in Batch /\ Pumped' = p \o b /\ b \in Seq(Nat)
    BY <1>3, SummaryStep, BatchFields
  <2>2. /\ pump'.output_bytes_total = pump.output_bytes_total + Len(b)
        /\ pump'.output_log =
              IF ~pump.output_truncated
              THEN pump.output_log \o SubSeq(b, 1, LogTake(Len(b))) ELSE pump.output_log
        /\ pump'.output_truncated =
              (pump.output_truncated \/ (~pump.output_truncated /\ LogTake(Len(b)) < Len(b)))
    <3>1. pump' = FeedPump(Fresh)
      BY <1>3 DEF FedStep, feed, Fresh
    <3> QED
      BY <1>0, <3>1, FeedFields
  <2>3. p \in Seq(Nat) /\ cap \in Nat
    BY <1>0
  <2> HIDE DEF b, p, cap
  <2>4. Len(p) \in Nat /\ Len(b) \in Nat /\ Len(p \o b) = Len(p) + Len(b)
    BY <2>1, <2>3, ConcatProperties
  <2>5. pump'.output_bytes_total = Len(Pumped')
    BY <1>1, <2>1, <2>2, <2>4 DEF p
  <2>6. CASE pump.output_truncated
    <3>1. Len(p) > cap
      BY <1>1, <2>6 DEF p, cap
    <3>2. AtMost(cap, Len(p)) = cap /\ AtMost(cap, Len(p) + Len(b)) = cap /\ Len(p) + Len(b) > cap
      BY <2>3, <2>4, <3>1 DEF AtMost
    <3>3. SubSeq(p \o b, 1, cap) = SubSeq(p, 1, cap)
      BY <2>1, <2>3, <2>4, <3>1, PrefixOfConcat
    <3> QED
      BY <1>1, <2>1, <2>2, <2>4, <2>5, <2>6, <3>2, <3>3 DEF p, cap
  <2>7. CASE ~pump.output_truncated
    <3>1. Len(p) <= cap
      BY <1>1, <2>3, <2>4, <2>7 DEF p, cap
    <3>2. pump.output_log = p
      <4>1. AtMost(cap, Len(p)) = Len(p)
        BY <2>3, <2>4, <3>1 DEF AtMost
      <4>2. SubSeq(p, 1, Len(p)) = p
        BY <2>3, SubSeqFull
      <4> QED
        BY <1>1, <4>1, <4>2 DEF p, cap
    <3> DEFINE take == LogTake(Len(b))
    <3>3. /\ take \in Nat /\ take <= Len(b) /\ (take < Len(b) <=> Len(p) + Len(b) > cap)
          /\ AtMost(cap, Len(p) + Len(b)) = Len(p) + take
      BY <2>3, <2>4, <3>1, <3>2 DEF LogTake, AtMost, Minus, cap
    <3> HIDE DEF take
    <3>4. SubSeq(p \o b, 1, Len(p) + take) = p \o SubSeq(b, 1, take)
      BY <2>1, <2>3, <3>3, PrefixPastConcat
    <3>5. pump'.output_log = p \o SubSeq(b, 1, take)
      BY <2>2, <2>7, <3>2 DEF take
    <3>6. pump'.output_truncated <=> Len(p) + Len(b) > cap
      BY <2>2, <2>7, <3>3 DEF take
    <3> QED
      BY <2>1, <2>4, <2>5, <3>3, <3>4, <3>5, <3>6 DEF cap
  <2> QED
    BY <1>0, <2>6, <2>7
<1> QED
  BY <1>2, <1>3

-----------------------------------------------------------------------------
(* The stash cap: at least one event.                                       *)
StashCap == IF EventCap = 0 THEN 1 ELSE EventCap

(* The emission count is exact and the stash holds the newest events.       *)
EventInv == pump.emitted = Emitted /\ EventsAccounted

(* stash_event on consecutive numbers: it keeps the newest StashCap of them, *)
(* consecutive again, and counts the rest.                                  *)
LEMMA StashKeepsNewest ==
  ASSUME pump \in PumpState, NEW k \in Nat,
         pump.events = [i \in 1..Len(pump.events) |-> pump.emitted - Len(pump.events) + i]
  PROVE  LET kept == stash_event(k).kept
             lost == stash_event(k).lost
         IN  /\ kept \in Seq(Nat) /\ lost \in Nat /\ Len(kept) <= StashCap
             /\ Len(pump.events) + k = Len(kept) + lost
             /\ kept = [i \in 1..Len(kept) |-> pump.emitted + k - Len(kept) + i]
<1> DEFINE new  == [i \in 1..k |-> pump.emitted + i]
           old  == pump.events
           e    == pump.emitted
           all  == old \o new
           over == Minus(Len(all), StashCap)
           kept == SubSeq(all, over + 1, Len(all))
<1>1. old \in Seq(Nat) /\ e \in Nat /\ Len(old) \in Nat /\ StashCap \in Nat
  BY PumpFields, WorkerAssumption DEF StashCap
<1>2. new \in Seq(Nat) /\ Len(new) = k /\ \A i \in 1..k : new[i] = e + i
  <2>1. \A i \in 1..k : pump.emitted + i \in Nat
    BY <1>1
  <2> QED
    BY <2>1
<1>3. \A i \in 1..Len(old) : old[i] = e - Len(old) + i
  OBVIOUS
<1>4. stash_event(k) = [kept |-> kept, lost |-> over]
  BY DEF stash_event, StashCap
<1> HIDE DEF new, old, e
<1>5. /\ all \in Seq(Nat) /\ Len(all) = Len(old) + k
      /\ \A i \in 1..(Len(old) + k) : all[i] = (IF i <= Len(old) THEN old[i] ELSE new[i - Len(old)])
  BY <1>1, <1>2, ConcatProperties
<1>6. \A i \in 1..(Len(old) + k) : all[i] = e - Len(old) + i
  <2> SUFFICES ASSUME NEW i \in 1..(Len(old) + k) PROVE all[i] = e - Len(old) + i
    OBVIOUS
  <2>1. CASE i <= Len(old)
    <3>1. i \in 1..Len(old)
      BY <1>1, <2>1
    <3> QED
      BY <1>3, <1>5, <2>1, <3>1
  <2>2. CASE ~(i <= Len(old))
    <3>1. i - Len(old) \in 1..k /\ e + (i - Len(old)) = e - Len(old) + i
      BY <1>1, <2>2
    <3>2. all[i] = new[i - Len(old)]
      BY <1>5, <2>2
    <3> QED
      BY <1>2, <3>1, <3>2
  <2> QED
    BY <2>1, <2>2
<1> HIDE DEF all
<1>7. over \in 0..Len(all) /\ Len(all) - over <= StashCap /\ Len(all) \in Nat /\ over \in Nat
  BY <1>1, <1>5 DEF Minus
<1> HIDE DEF over
<1>8. /\ kept \in Seq(Nat) /\ Len(kept) = Len(all) - over
      /\ \A i \in 1..(Len(all) - over) : kept[i] = all[over + i]
  <2>1. \A i \in (over + 1)..Len(all) : all[i] \in Nat
    BY <1>5, <1>7, ElementOfSeq
  <2>2. /\ kept \in Seq(Nat)
        /\ Len(kept) = (IF over + 1 <= Len(all) THEN Len(all) - (over + 1) + 1 ELSE 0)
        /\ \A i \in 1..(Len(all) - (over + 1) + 1) : kept[i] = all[over + 1 + i - 1]
    BY <1>7, <2>1, SubSeqProperties
  <2>3. Len(all) - (over + 1) + 1 = Len(all) - over
    BY <1>7
  <2>4. ASSUME NEW i \in 1..(Len(all) - over) PROVE kept[i] = all[over + i]
    <3> HIDE DEF kept
    <3>1. over + 1 + i - 1 = over + i /\ i \in 1..(Len(all) - (over + 1) + 1)
      BY <1>7
    <3>2. kept[i] = all[over + 1 + i - 1]
      BY <2>2, <3>1
    <3> QED
      BY <3>1, <3>2
  <2> HIDE DEF kept
  <2>5. Len(kept) = Len(all) - over
    BY <1>7, <2>2
  <2> QED
    BY <2>2, <2>4, <2>5
<1> HIDE DEF kept
<1>9. ASSUME NEW i \in 1..Len(kept) PROVE kept[i] = e + k - Len(kept) + i
  <2>1. i \in 1..(Len(all) - over) /\ over + i \in 1..(Len(old) + k)
    BY <1>1, <1>5, <1>7, <1>8
  <2>2. kept[i] = e - Len(old) + (over + i)
    BY <1>6, <1>8, <2>1
  <2>3. e - Len(old) + (over + i) = e + k - Len(kept) + i
    BY <1>1, <1>5, <1>7, <1>8
  <2> QED
    BY <2>2, <2>3
<1>10. kept = [i \in 1..Len(kept) |-> kept[i]]
  BY <1>8
<1>11. kept = [i \in 1..Len(kept) |-> e + k - Len(kept) + i]
  BY <1>9, <1>10
<1>12. Len(old) + k = Len(kept) + over /\ Len(kept) <= StashCap
  BY <1>1, <1>5, <1>7, <1>8
<1>13. stash_event(k).kept = kept /\ stash_event(k).lost = over
  BY <1>4
<1> QED
  BY <1>7, <1>8, <1>11, <1>12, <1>13, Zenon DEF old, e

(* Every step keeps the events accounted for.                               *)
LEMMA EventStep ==
  ASSUME TypeOK, TypeOK', InRange, HistInv, EventInv, [Next]_vars
  PROVE  EventInv'
<1>0. /\ pump \in PumpState /\ pump.events \in Seq(Nat) /\ Len(pump.events) \in Nat
      /\ pump.drained \in Nat /\ pump.events_dropped \in Nat /\ pump.emitted \in Nat
  BY PumpFields DEF TypeOK
<1>1. /\ pump.emitted = Emitted /\ Len(pump.events) <= StashCap
      /\ pump.events = [i \in 1..Len(pump.events) |-> Emitted - Len(pump.events) + i]
      /\ Emitted = pump.drained + pump.events_dropped + Len(pump.events)
  BY DEF EventInv, EventsAccounted, StashCap
<1> SUFFICES /\ pump'.emitted = Emitted' /\ Len(pump'.events) <= StashCap
             /\ pump'.events = [i \in 1..Len(pump'.events) |-> Emitted' - Len(pump'.events) + i]
             /\ Emitted' = pump'.drained + pump'.events_dropped + Len(pump'.events)
  BY DEF EventInv, EventsAccounted, StashCap
<1>2. CASE FedStep
  <2> DEFINE k == Fresh.events
             kept == stash_event(k).kept
             lost == stash_event(k).lost
  <2>1. k \in Nat /\ Emitted' = Emitted + k
    BY <1>2, SummaryStep, BatchFields
  <2>2. pump' = FeedPump(Fresh)
    BY <1>2 DEF FedStep, feed, Fresh
  <2>3. /\ pump'.emitted = pump.emitted + k /\ pump'.events = kept
        /\ pump'.events_dropped = pump.events_dropped + lost /\ pump'.drained = pump.drained
    BY <1>0, <2>2, FeedFields
  <2>4. pump.events = [i \in 1..Len(pump.events) |-> pump.emitted - Len(pump.events) + i]
    BY <1>1
  <2> HIDE DEF k
  <2>5. /\ kept \in Seq(Nat) /\ lost \in Nat /\ Len(kept) <= StashCap
        /\ Len(pump.events) + k = Len(kept) + lost
        /\ kept = [i \in 1..Len(kept) |-> pump.emitted + k - Len(kept) + i]
    BY <1>0, <2>1, <2>4, StashKeepsNewest
  <2> HIDE DEF kept, lost
  <2>6. Len(kept) \in Nat
    BY <2>5
  <2>7. Emitted + k = pump.drained + (pump.events_dropped + lost) + Len(kept)
    <3>1. /\ Emitted = pump.drained + pump.events_dropped + Len(pump.events)
          /\ Len(pump.events) + k = Len(kept) + lost /\ lost \in Nat
      BY <1>1, <2>5
    <3>2. \A d, r, l, m, o \in Nat : l + k = m + o => d + r + l + k = d + (r + o) + m
      BY <2>1
    <3> QED
      <4>1. pump.drained \in Nat /\ pump.events_dropped \in Nat /\ Len(pump.events) \in Nat
        BY <1>0
      <4>2. /\ Len(pump.events) + k = Len(kept) + lost /\ lost \in Nat
        BY <3>1
      <4>3. pump.drained + pump.events_dropped + Len(pump.events) + k
              = pump.drained + (pump.events_dropped + lost) + Len(kept)
        BY <2>6, <3>2, <4>1, <4>2
      <4> QED
        BY <3>1, <4>3
  <2>8. kept = [i \in 1..Len(kept) |-> Emitted' - Len(kept) + i]
    BY <1>1, <2>1, <2>5
  <2> QED
    BY <1>1, <2>1, <2>3, <2>5, <2>7, <2>8
<1>3. CASE ~FedStep
  <2>1. Emitted' = Emitted /\ pump'.emitted = pump.emitted /\ pump'.events_dropped = pump.events_dropped
    BY <1>3, SummaryStep, PumpKeeps
  <2>2. CASE pump'.events = pump.events /\ pump'.drained = pump.drained
    BY <1>1, <2>1, <2>2
  <2>3. CASE pump'.events = <<>> /\ pump'.drained = pump.drained + Len(pump.events)
    <3>1. Len(pump'.events) = 0 /\ StashCap \in Nat
      BY <2>3, WorkerAssumption DEF StashCap
    <3>2. <<>> = [i \in 1..0 |-> Emitted' - 0 + i]
      OBVIOUS
    <3>3. Emitted = pump.drained + Len(pump.events) + pump.events_dropped + 0
      BY <1>0, <1>1
    <3> QED
      BY <1>1, <2>1, <2>3, <3>1, <3>2, <3>3
  <2> QED
    BY <1>3, <2>2, <2>3, PumpKeeps
<1> QED
  BY <1>2, <1>3

-----------------------------------------------------------------------------
(* The on-to-off transitions of a sequence of samples, and the ones that    *)
(* new samples t add after a last sample w.                                 *)
Drops(s)       == {i \in 2..Len(s) : s[i-1] /\ ~s[i]}
NewDrops(t, w) == {i \in 1..Len(t) : ~t[i] /\ IF i = 1 THEN w ELSE t[i-1]}
InSync(s)      == s # <<>> /\ s[Len(s)]

(* The frames counted so far, and the bit the next batch is compared with.  *)
FrameInv == FramesCounted /\ pump.was_in_sync = InSync(Samples)

(* Counting batch by batch is counting over the whole history.              *)
LEMMA DropsGrow ==
  ASSUME NEW s \in Seq(BOOLEAN), NEW t \in Seq(BOOLEAN)
  PROVE  /\ Cardinality(Drops(s \o t)) = Cardinality(Drops(s)) + Cardinality(NewDrops(t, InSync(s)))
         /\ InSync(s \o t) = IF t = <<>> THEN InSync(s) ELSE t[Len(t)]
<1> DEFINE m == Len(s)
           n == Len(t)
           u == s \o t
           A == Drops(s)
           B == NewDrops(t, InSync(s))
           D == {j \in (m+1)..(m+n) : j >= 2 /\ u[j-1] /\ ~u[j]}
           f == [i \in B |-> m + i]
<1>1. /\ m \in Nat /\ n \in Nat /\ Len(u) = m + n
      /\ \A j \in 1..(m+n) : u[j] = (IF j <= m THEN s[j] ELSE t[j - m])
  BY ConcatProperties
<1>2. (s = <<>> <=> m = 0) /\ (t = <<>> <=> n = 0)
  OBVIOUS
<1> HIDE DEF m, n, u
<1>3. \A j \in 1..m : u[j] = s[j]
  BY <1>1
<1>4. \A i \in 1..n : m + i \in 1..(m+n) /\ u[m + i] = t[i]
  <2> SUFFICES ASSUME NEW i \in 1..n PROVE m + i \in 1..(m+n) /\ u[m + i] = t[i]
    OBVIOUS
  <2>1. m + i \in 1..(m+n) /\ ~(m + i <= m) /\ (m + i) - m = i
    BY <1>1
  <2> QED
    BY <1>1, <2>1
<1>5. Drops(u) = A \cup D
  <2>1. A = {j \in 2..m : u[j-1] /\ ~u[j]}
    BY <1>1, <1>3 DEF Drops, m
  <2>2. Drops(u) = {j \in 2..(m+n) : u[j-1] /\ ~u[j]}
    BY <1>1 DEF Drops
  <2>3. \A j : j \in 2..(m+n) <=> j \in 2..m \/ (j \in (m+1)..(m+n) /\ j >= 2)
    BY <1>1
  <2> HIDE DEF A
  <2> QED
    BY <2>1, <2>2, <2>3
<1>6. A \cap D = {}
  BY <1>1 DEF Drops, m
<1>7. \A i \in 1..n : i \in B <=> m + i \in D
  <2> SUFFICES ASSUME NEW i \in 1..n
               PROVE  (~t[i] /\ IF i = 1 THEN InSync(s) ELSE t[i-1])
                        <=> (m + i >= 2 /\ u[m + i - 1] /\ ~u[m + i])
    BY <1>1, <1>4 DEF NewDrops, n
  <2>1. u[m + i] = t[i]
    BY <1>4
  <2>2. CASE i = 1
    <3>1. m + i - 1 = m /\ (m + i >= 2 <=> m # 0)
      BY <1>1, <2>2
    <3>2. m # 0 => u[m] = s[m]
      BY <1>1, <1>3
    <3>3. InSync(s) <=> m # 0 /\ s[m]
      BY <1>2 DEF InSync, m
    <3> QED
      BY <2>1, <2>2, <3>1, <3>2, <3>3
  <2>3. CASE i # 1
    <3>1. i - 1 \in 1..n /\ m + (i - 1) = m + i - 1 /\ m + i >= 2
      BY <1>1, <2>3
    <3>2. u[m + i - 1] = t[i - 1]
      BY <1>4, <3>1
    <3> QED
      BY <2>1, <2>3, <3>1, <3>2
  <2> QED
    BY <2>2, <2>3
<1>8. B \subseteq 1..n /\ D \subseteq (m+1)..(m+n) /\ A \subseteq 2..m
  BY DEF NewDrops, Drops, n, m
<1>9. IsFiniteSet(A) /\ IsFiniteSet(B) /\ IsFiniteSet(D)
  <2>1. IsFiniteSet(1..n) /\ IsFiniteSet((m+1)..(m+n)) /\ IsFiniteSet(2..m)
    BY <1>1, FS_Interval
  <2> HIDE DEF A, B, D
  <2> QED
    BY <1>8, <2>1, FS_Subset
<1>10. Cardinality(D) = Cardinality(B)
  <2> HIDE DEF B, D
  <2>1. \A i \in B : m + i \in D
    BY <1>7, <1>8
  <2>2. \A i, j \in B : m + i = m + j => i = j
    BY <1>1, <1>8
  <2>3. \A d \in D : \E i \in B : m + i = d
    <3> SUFFICES ASSUME NEW d \in D PROVE \E i \in B : m + i = d
      OBVIOUS
    <3>1. d - m \in 1..n /\ m + (d - m) = d
      BY <1>1, <1>8
    <3> QED
      BY <1>7, <3>1
  <2>4. f \in Bijection(B, D)
    BY <2>1, <2>2, <2>3 DEF Bijection, Injection, Surjection, IsInjective
  <2> QED
    BY <1>9, <2>4, FS_Bijection DEF ExistsBijection
<1>11. Cardinality(Drops(u)) = Cardinality(A) + Cardinality(B)
  <2> HIDE DEF A, B, D
  <2>1. Cardinality(A \cup D) = Cardinality(A) + Cardinality(D) - Cardinality(A \cap D)
    BY <1>9, FS_Union
  <2>2. Cardinality(A \cap D) = 0 /\ Cardinality(A) \in Nat /\ Cardinality(D) \in Nat
    BY <1>6, <1>9, FS_EmptySet, FS_CardinalityType
  <2> QED
    BY <1>5, <1>10, <2>1, <2>2
<1>12. InSync(u) = IF t = <<>> THEN InSync(s) ELSE t[Len(t)]
  <2>1. CASE t = <<>>
    <3>1. u = s
      BY <2>1 DEF u
    <3> QED
      BY <2>1, <3>1
  <2>2. CASE t # <<>>
    <3>1. n # 0 /\ n \in 1..n
      BY <1>1, <1>2, <2>2
    <3>2. u[m + n] = t[n] /\ u # <<>>
      BY <1>1, <1>4, <3>1
    <3>3. t[n] \in BOOLEAN
      BY <3>1, ElementOfSeq DEF n
    <3> QED
      BY <1>1, <2>2, <3>2, <3>3 DEF InSync, n
  <2> QED
    BY <2>1, <2>2
<1> QED
  BY <1>11, <1>12 DEF u

(* Only a feed publishes frames.                                            *)
LEMMA FramesStay ==
  ASSUME ~FedStep, [Next]_vars PROVE frames' = frames
<1>0. StepFrames
  BY Frames
<1>1. CASE poll_exit_state
  BY <1>1 DEF poll_exit_state, Finalize, publish_outcome, Publish, sharedVars
<1>2. CASE shutdown_final
  BY <1>2 DEF shutdown_final, Finalize, publish_outcome, Publish, sharedVars
<1>3. CASE feed
  BY <1>3 DEF FedStep, feed, sharedVars
<1>4. CASE bump_revision \/ mark_closed \/ \E happened \in BOOLEAN : record_teardown(happened)
  BY <1>4 DEF bump_revision, Publish, mark_closed, record_teardown
<1>5. ASSUME NEW c \in Clients, NEW on \in ClientWaits, wait_on(c, on) PROVE frames' = frames
  BY <1>5 DEF wait_on, wait_begin, Sleep, sharedVars
<1>6. ASSUME NEW c \in Clients, wait_recheck(c) \/ wait_expire(c) PROVE frames' = frames
  BY <1>6 DEF wait_recheck, wait_expire, Sleep, Leave
<1> QED
  BY <1>0, <1>1, <1>2, <1>3, <1>4, <1>5, <1>6 DEF StepFrames, SharedStep, sharedVars

(* Every step keeps the frame count honest.                                 *)
LEMMA FrameStep ==
  ASSUME TypeOK, TypeOK', InRange, HistInv, FrameInv, [Next]_vars
  PROVE  FrameInv'
<1>0. Samples \in Seq(BOOLEAN) /\ pump \in PumpState
  BY Summaries DEF TypeOK
<1>1. frames = Cardinality(Drops(Samples)) /\ pump.was_in_sync = InSync(Samples)
  BY DEF FrameInv, FramesCounted, Drops
<1> SUFFICES frames' = Cardinality(Drops(Samples')) /\ pump'.was_in_sync = InSync(Samples')
  BY DEF FrameInv, FramesCounted, Drops, InSync
<1>2. CASE FedStep
  <2> DEFINE t == Fresh.sync
  <2>1. t \in Seq(BOOLEAN) /\ Samples' = Samples \o t
    BY <1>2, SummaryStep, BatchFields
  <2>a. Sampled(Fresh) = t
    BY <1>2, SummaryStep, SampledAll
  <2>2. pump' = FeedPump(Fresh) /\ frames' = frames + note_sync_sample(t)
    BY <1>2, <2>a DEF FedStep, feed, Fresh, Publish
  <2>3. pump'.was_in_sync = LastSample(t)
    BY <1>0, <2>a, <2>2, FeedFields
  <2> HIDE DEF t
  <2>4. note_sync_sample(t) = Cardinality(NewDrops(t, pump.was_in_sync))
    BY DEF note_sync_sample, NewDrops
  <2>5. LastSample(t) = IF t = <<>> THEN InSync(Samples) ELSE t[Len(t)]
    BY <1>1 DEF LastSample
  <2> QED
    BY <1>0, <1>1, <2>1, <2>2, <2>3, <2>4, <2>5, DropsGrow
<1>3. CASE ~FedStep
  BY <1>1, <1>3, SummaryStep, PumpKeeps, FramesStay
<1> QED
  BY <1>2, <1>3

-----------------------------------------------------------------------------
(* A fed batch is being finished, and its reply has not gone anywhere yet.  *)
Routing == wpc \in {"reply", "reply_write"}
Pending == IF Routing /\ produced[cur].reply THEN 1 ELSE 0

(* The reply counters, and the batch the worker is routing.                 *)
ReplyInv ==
  /\ RepliesAccounted
  /\ Routing => cur \in 1..Len(produced)
  /\ wpc = "reply_write" => produced[cur].reply

(* Who finishes a feed: nobody else enters, leaves or disturbs the routing, *)
(* or touches the reply counters.                                           *)
LEMMA ReplySteps ==
  ASSUME TypeOK, [Next]_vars, ~FedStep, ~route_reply, ~reply_write
  PROVE  /\ pump'.replies_routed = pump.replies_routed
         /\ pump'.replies_dropped_no_writer = pump.replies_dropped_no_writer
         /\ pump'.reply_write_errors = pump.reply_write_errors
         /\ \/ ~Routing /\ ~Routing'
            \/ UNCHANGED <<wpc, cur>>
<1>0. pump \in PumpState /\ wret \in {"exit", "sd_poll"}
  BY DEF TypeOK, ControlTypeOK
<1>1. /\ pump'.replies_routed = pump.replies_routed
      /\ pump'.replies_dropped_no_writer = pump.replies_dropped_no_writer
      /\ pump'.reply_write_errors = pump.reply_write_errors
  <2>1. CASE feed
    BY <2>1 DEF FedStep, feed
  <2>2. CASE ctl_events
    BY <1>0, <2>2 DEF ctl_events, PumpState
  <2>3. CASE apply_resize
    BY <1>0, <2>3 DEF apply_resize, PumpState
  <2> QED
    BY <2>1, <2>2, <2>3, Frames DEF StepFrames
<1>2. (~Routing /\ ~Routing') \/ UNCHANGED <<wpc, cur>>
  <2> USE DEF Routing
  <2>1. CASE PumpNext
    <3>1. CASE worker_top \/ recv_timeout \/ ctl_observe \/ ctl_snapshot \/ ctl_events \/ ctl_shutdown
      BY <3>1 DEF worker_top, recv_timeout, ctl_observe, ctl_snapshot, ctl_events, ctl_shutdown, TakeOp,
         EnterDrain, shutdown_and_exit
    <3>2. CASE apply_resize \/ ctl_set_colors \/ close_input \/ apply_write
      BY <3>2 DEF apply_resize, ctl_set_colors, close_input, apply_write, TakeOp, EnterDrain
    <3>3. CASE write_check \/ write_chunk
      BY <3>3 DEF write_check, write_chunk, WriteReturns, EnterDrain
    <3>4. CASE feed
      BY <1>0, <3>4 DEF FedStep, feed, DrainNext
    <3>5. CASE drain_stream_end \/ drain_empty \/ poll_exit_state
      BY <1>0, <3>5 DEF drain_stream_end, drain_empty, poll_exit_state, controlVars
    <3>6. CASE shutdown_poll \/ shutdown_kill \/ shutdown_reap \/ shutdown_final \/ shutdown_close
               \/ worker_drop
      BY <3>6 DEF shutdown_poll, shutdown_kill, shutdown_reap, shutdown_final, shutdown_close,
         worker_drop, ShutdownStep
    <3>7. CASE read \/ send \/ count \/ reader_lost \/ drain_grace
      BY <3>7 DEF read, send, count, reader_lost, drain_grace, workerVars, controlVars
    <3> QED
      BY <2>1, <3>1, <3>2, <3>3, <3>4, <3>5, <3>6, <3>7 DEF PumpNext
  <2> QED
    BY <2>1, StepCallFrames DEF CallFrames
<1> QED
  BY <1>1, <1>2

(* Every step keeps the replies accounted for.                              *)
LEMMA ReplyStep ==
  ASSUME TypeOK, TypeOK', InRange, HistInv, ReplyInv, [Next]_vars
  PROVE  ReplyInv'
<1>0. /\ pump \in PumpState /\ pump.replies_routed \in Nat /\ pump.replies_dropped_no_writer \in Nat
      /\ pump.reply_write_errors \in Nat /\ wret \in {"exit", "sd_poll"} /\ Queries \in Nat
      /\ produced \in Seq(Batch) /\ Len(produced) \in Nat
  BY PumpFields, Summaries DEF TypeOK, ControlTypeOK, PtyTypeOK
<1>1. /\ Queries = pump.replies_routed + pump.replies_dropped_no_writer + pump.reply_write_errors + Pending
      /\ Pending \in {0, 1}
  BY DEF ReplyInv, RepliesAccounted, Pending, Routing
<1> SUFFICES /\ Queries' = pump'.replies_routed + pump'.replies_dropped_no_writer
                             + pump'.reply_write_errors + Pending'
             /\ Routing' => cur' \in 1..Len(produced')
             /\ wpc' = "reply_write" => produced'[cur'].reply
  BY DEF ReplyInv, RepliesAccounted, Pending, Routing
<1>2. CASE FedStep
  <2> DEFINE n == Head(data_queue).n
  <2>1. /\ wpc = "drain" /\ wpc' = "reply" /\ cur' = n /\ produced' = produced
        /\ pump' = FeedPump(Fresh) /\ Fresh = produced[n]
    BY <1>2 DEF FedStep, feed, ptyVars, Fresh
  <2>2. Queries' = Queries + (IF Fresh.reply THEN 1 ELSE 0)
    BY <1>2, SummaryStep
  <2>3. Pending = 0 /\ Pending' = IF Fresh.reply THEN 1 ELSE 0
    BY <2>1 DEF Pending, Routing
  <2>4. /\ pump'.replies_routed = pump.replies_routed
        /\ pump'.replies_dropped_no_writer = pump.replies_dropped_no_writer
        /\ pump'.reply_write_errors = pump.reply_write_errors
    BY <1>0, <2>1, FeedFields
  <2>5. n \in 1..Len(produced)
    BY <1>2, HeadBatch DEF FedStep, feed
  <2>6. Queries' = pump.replies_routed + pump.replies_dropped_no_writer + pump.reply_write_errors + Pending'
    <3> DEFINE k == IF Fresh.reply THEN 1 ELSE 0
    <3>1. k \in {0, 1} /\ Pending' = k /\ Queries' = Queries + k
      BY <2>2, <2>3
    <3> HIDE DEF k
    <3> QED
      BY <1>0, <1>1, <2>3, <3>1
  <2> QED
    BY <2>1, <2>4, <2>5, <2>6
<1>3. CASE route_reply
  <2>0. wpc = "reply" /\ produced' = produced /\ ~FedStep
    BY <1>3 DEF route_reply, ptyVars, FedStep, feed
  <2>1. Queries' = Queries
    BY <2>0, SummaryStep
  <2>2. CASE produced[cur].reply /\ writer /\ ~shutdown
    <3>1. wpc' = "reply_write" /\ cur' = cur /\ pump' = pump
      BY <1>3, <2>2 DEF route_reply
    <3>2. Pending' = 1 /\ Pending = 1
      BY <2>0, <2>2, <3>1 DEF Pending, Routing
    <3>3. cur \in 1..Len(produced)
      BY <2>0 DEF ReplyInv, Routing
    <3> QED
      BY <1>1, <2>0, <2>1, <2>2, <3>1, <3>2, <3>3
  <2>3. CASE ~(produced[cur].reply /\ writer /\ ~shutdown)
    <3>1. /\ pump' = [pump EXCEPT !.replies_dropped_no_writer =
                            pump.replies_dropped_no_writer + IF produced[cur].reply THEN 1 ELSE 0]
          /\ wpc' = (IF budget = 0 THEN wret ELSE "drain")
      BY <1>3, <2>3 DEF route_reply, DrainNext
    <3>2. Pending = (IF produced[cur].reply THEN 1 ELSE 0) /\ Pending' = 0
          /\ ~Routing' /\ wpc' # "reply_write"
      BY <1>0, <2>0, <3>1 DEF Pending, Routing
    <3>3. /\ pump'.replies_routed = pump.replies_routed
          /\ pump'.replies_dropped_no_writer = pump.replies_dropped_no_writer + Pending
          /\ pump'.reply_write_errors = pump.reply_write_errors
      BY <1>0, <3>1, <3>2 DEF PumpState
    <3>4. Queries' = pump.replies_routed + (pump.replies_dropped_no_writer + Pending)
                       + pump.reply_write_errors + 0
      BY <1>0, <1>1, <2>1
    <3> QED
      BY <3>2, <3>3, <3>4
  <2> QED
    BY <2>2, <2>3
<1>4. CASE reply_write
  <2>0. /\ wpc = "reply_write" /\ ~FedStep /\ wpc' = (IF budget = 0 THEN wret ELSE "drain")
        /\ produced[cur].reply
    BY <1>4 DEF reply_write, DrainNext, FedStep, feed, ReplyInv
  <2>1. Queries' = Queries /\ Pending = 1 /\ Pending' = 0 /\ ~Routing' /\ wpc' # "reply_write"
    BY <1>0, <2>0, SummaryStep DEF Pending, Routing
  <2>2. CASE pump' = [pump EXCEPT !.replies_routed = pump.replies_routed + 1]
    <3>1. /\ pump'.replies_routed = pump.replies_routed + 1
          /\ pump'.replies_dropped_no_writer = pump.replies_dropped_no_writer
          /\ pump'.reply_write_errors = pump.reply_write_errors
      BY <1>0, <2>2 DEF PumpState
    <3>2. Queries' = (pump.replies_routed + 1) + pump.replies_dropped_no_writer
                       + pump.reply_write_errors + 0
      BY <1>0, <1>1, <2>1
    <3> QED
      BY <2>1, <3>1, <3>2
  <2>3. CASE pump' = [pump EXCEPT !.reply_write_errors = pump.reply_write_errors + 1]
    <3>1. /\ pump'.replies_routed = pump.replies_routed
          /\ pump'.replies_dropped_no_writer = pump.replies_dropped_no_writer
          /\ pump'.reply_write_errors = pump.reply_write_errors + 1
      BY <1>0, <2>3 DEF PumpState
    <3>2. Queries' = pump.replies_routed + pump.replies_dropped_no_writer
                       + (pump.reply_write_errors + 1) + 0
      BY <1>0, <1>1, <2>1
    <3> QED
      BY <2>1, <3>1, <3>2
  <2> QED
    BY <1>4, <2>2, <2>3 DEF reply_write
<1>5. CASE ~FedStep /\ ~route_reply /\ ~reply_write
  <2>1. /\ Queries' = Queries
        /\ pump'.replies_routed = pump.replies_routed
        /\ pump'.replies_dropped_no_writer = pump.replies_dropped_no_writer
        /\ pump'.reply_write_errors = pump.reply_write_errors
    BY <1>5, SummaryStep, ReplySteps
  <2>2. CASE ~Routing /\ ~Routing'
    BY <1>1, <2>1, <2>2 DEF Pending, Routing
  <2>3. CASE UNCHANGED <<wpc, cur>>
    <3>1. /\ Len(produced') \in Nat /\ Len(produced) <= Len(produced')
          /\ \A n \in 1..Len(produced) : produced'[n] = produced[n]
      <4>1. ASSUME NEW b \in Batch, child_writes(b)
            PROVE  /\ Len(produced') = Len(produced) + 1
                   /\ \A n \in 1..Len(produced) : produced'[n] = produced[n]
        BY <1>0, <4>1 DEF child_writes
      <4> QED
        BY <1>0, <4>1, Frames DEF StepFrames
    <3>2. Routing' = Routing
      BY <2>3 DEF Routing
    <3>3. Routing => cur \in 1..Len(produced) /\ cur' \in 1..Len(produced') /\ produced'[cur'] = produced[cur]
      BY <1>0, <2>3, <3>1 DEF ReplyInv
    <3>4. Pending' = Pending
      BY <3>2, <3>3 DEF Pending
    <3> QED
      BY <1>1, <2>1, <2>3, <3>2, <3>3, <3>4 DEF ReplyInv, Routing
  <2> QED
    BY <1>5, <2>2, <2>3, ReplySteps
<1> QED
  BY <1>2, <1>3, <1>4, <1>5

-----------------------------------------------------------------------------
(* The inductive invariant of the accumulators.                             *)
AccountInv == HistInv /\ OutputLogIsPrefix /\ EventInv /\ FrameInv /\ ReplyInv

(* It holds of everything feed, route_reply and the control operations      *)
(* accumulate, in every reachable state of a session.                       *)
THEOREM AccountInvariant == Spec => []AccountInv
<1>1. Init => AccountInv
  <2> SUFFICES ASSUME Init PROVE AccountInv
    OBVIOUS
  <2>1. fed = <<>> /\ pump = PumpInit /\ frames = 0 /\ wpc = "top"
    BY DEF Init, SharedInit, WorkerInit, ThreadInit
  <2>2. Len(fed) = 0 /\ 1..0 = {} /\ FlattenSeq(<<>>) = <<>> /\ Len(<<>>) = 0
    BY <2>1 DEF FlattenSeq
  <2>3. HistInv
    BY <2>2 DEF HistInv
  <2>4. Pumped = <<>> /\ Samples = <<>> /\ Emitted = 0
    <3>1. /\ [i \in 1..Len(fed) |-> FedBatches[i].bytes] = <<>>
          /\ [i \in 1..Len(fed) |-> FedBatches[i].sync] = <<>>
          /\ [i \in 1..Len(fed) |-> [k \in 1..FedBatches[i].events |-> i]] = <<>>
      BY <2>2
    <3> QED
      BY <2>2, <3>1, Zenon DEF Pumped, Samples, Emitted
  <2>5. Queries = 0
    BY <2>2, FS_EmptySet DEF Queries
  <2>6. OutputLogIsPrefix
    <3>1. OutputCap \in Nat
      BY WorkerAssumption
    <3>2. AtMost(OutputCap, 0) = 0 /\ SubSeq(<<>>, 1, 0) = <<>> /\ ~(0 > OutputCap)
      BY <3>1 DEF AtMost
    <3> QED
      BY <2>1, <2>2, <2>4, <3>2 DEF OutputLogIsPrefix, PumpInit
  <2>7. EventInv
    <3>1. <<>> = [i \in 1..0 |-> 0 - 0 + i]
      OBVIOUS
    <3>2. 0 <= (IF EventCap = 0 THEN 1 ELSE EventCap)
      BY WorkerAssumption
    <3> QED
      BY <2>1, <2>2, <2>4, <3>1, <3>2 DEF EventInv, EventsAccounted, PumpInit
  <2>8. FrameInv
    <3>1. {i \in 2..Len(Samples) : Samples[i-1] /\ ~Samples[i]} = {}
      BY <2>2, <2>4
    <3> QED
      BY <2>1, <2>4, <3>1, FS_EmptySet DEF FrameInv, FramesCounted, InSync, PumpInit
  <2>9. ReplyInv
    BY <2>1, <2>5 DEF ReplyInv, RepliesAccounted, Routing, PumpInit
  <2> QED
    BY <2>3, <2>6, <2>7, <2>8, <2>9 DEF AccountInv
<1>2. IInv /\ IInv' /\ AccountInv /\ [Next]_vars => AccountInv'
  <2> SUFFICES ASSUME IInv, IInv', AccountInv, [Next]_vars PROVE AccountInv'
    OBVIOUS
  <2>1. TypeOK /\ TypeOK' /\ InRange
    BY DEF IInv
  <2> QED
    BY <2>1, HistoryStep, LogStep, EventStep, FrameStep, ReplyStep DEF AccountInv
<1> QED
  BY <1>1, <1>2, CaptureInvariant, PTL DEF Spec

(* record_output, for any cap and any way the output is cut into batches:   *)
(* the log feed keeps is the oldest part of the pumped bytes that fits the  *)
(* cap, the total is right, and truncation is reported exactly when bytes   *)
(* were cut.                                                                *)
THEOREM LogIsPrefix == Spec => []OutputLogIsPrefix
<1>1. AccountInv => OutputLogIsPrefix
  BY DEF AccountInv
<1> QED
  BY <1>1, AccountInvariant, PTL

(* stash_event and the events call, for any cap: every emitted event is in  *)
(* the stash, was handed over or is counted as dropped, and the stash is    *)
(* the newest of the rest in order.                                         *)
THEOREM EventsAllAccounted == Spec => []EventsAccounted
<1>1. AccountInv => EventsAccounted
  BY DEF AccountInv, EventInv
<1> QED
  BY <1>1, AccountInvariant, PTL

(* note_sync_sample, for any samples in any batches: frames is the number   *)
(* of completed synchronized updates of the whole output.                   *)
THEOREM FramesAllCounted == Spec => []FramesCounted
<1>1. AccountInv => FramesCounted
  BY DEF AccountInv, FrameInv
<1> QED
  BY <1>1, AccountInvariant, PTL

(* route_reply, whatever the writer, the shutdown flag and write errors do: *)
(* no reply of the emulator goes uncounted.                                 *)
THEOREM RepliesAllAccounted == Spec => []RepliesAccounted
<1>1. AccountInv => RepliesAccounted
  BY DEF AccountInv, ReplyInv
<1> QED
  BY <1>1, AccountInvariant, PTL
=============================================================================
