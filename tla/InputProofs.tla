----------------------------- MODULE InputProofs -----------------------------
(***************************************************************************)
(* However a stream of any length is cut into chunks, process gives the    *)
(* parser what one call over the whole stream would give it, and           *)
(* mid_sequence tells the truth.  Both compare loops over the bytes, so    *)
(* the inductions are written out, each from a least counterexample.       *)
(***************************************************************************)
EXTENDS Input, SequenceTheorems, WellFoundedInduction, TLAPS

(* Every non-empty set of naturals has a least element.                     *)
LEMMA LeastNatural ==
  ASSUME NEW T, T \subseteq Nat, T # {}
  PROVE  \E x \in T : \A y \in T : x <= y
<1> DEFINE R == OpToRel(<, Nat)
<1>1. IsWellFoundedOn(R, Nat)
  BY NatLessThanWellFounded
<1>2. \A x \in Nat, y \in Nat : <<y, x>> \in R <=> y < x
  BY DEF OpToRel
<1> HIDE DEF R
<1>3. PICK x \in T : \A y \in T : <<y, x>> \notin R
  BY <1>1, WFMin
<1>4. \A y \in T : x \in Nat /\ y \in Nat /\ ~(y < x)
  BY <1>2, <1>3
<1>5. \A y \in T : x <= y
  BY <1>4
<1> QED
  BY <1>5

-----------------------------------------------------------------------------
(* from_utf8: where its scan goes from each position, and what a function   *)
(* says that gives for each position where the scan from there ends.        *)
StepOf(s) ==
  [i \in 0..Len(s) |->
     IF i < Len(s) /\ \E n \in 1..4 : CharAt(s, i + 1, n)
     THEN i + CHOOSE n \in 1..4 : CharAt(s, i + 1, n) ELSE i]

Climbs(f, s) ==
  /\ f \in [0..Len(s) -> 0..Len(s)]
  /\ \A i \in 0..Len(s) : f[i] = IF StepOf(s)[i] = i THEN i ELSE f[StepOf(s)[i]]

(* How many bytes follow a lead byte; none follows an ASCII byte.           *)
LEMMA TailLenType ==
  ASSUME NEW b \in 0..255
  PROVE  TailLen(b) \in 0..3 /\ (IsAscii(b) => TailLen(b) = 0)
<1>1. CASE b \in 194..223
  BY <1>1 DEF TailLen, IsAscii
<1>2. CASE b \in 224..239
  BY <1>2 DEF TailLen, IsAscii
<1>3. CASE b \in 240..244
  BY <1>3 DEF TailLen, IsAscii
<1>4. CASE b \notin 194..223 /\ b \notin 224..239 /\ b \notin 240..244
  BY <1>4 DEF TailLen
<1> QED
  BY <1>1, <1>2, <1>3, <1>4

(* A character has one length, and ends inside the text.                    *)
LEMMA CharLength ==
  ASSUME NEW s \in Seq(0..255), NEW i \in 1..Len(s)
  PROVE  /\ \A n \in 1..4 : CharAt(s, i, n) => i + n - 1 <= Len(s)
         /\ \A m, n \in 1..4 : CharAt(s, i, m) /\ CharAt(s, i, n) => m = n
<1>0. s[i] \in 0..255 /\ Len(s) \in Nat
  BY ElementOfSeq
<1>1. TailLen(s[i]) \in 0..3 /\ (IsAscii(s[i]) => TailLen(s[i]) = 0)
  BY <1>0, TailLenType
<1> QED
  BY <1>0, <1>1 DEF CharAt

(* A step goes forward by the length of the character, or stays.            *)
LEMMA StepGoes ==
  ASSUME NEW s \in Seq(0..255), NEW i \in 0..Len(s)
  PROVE  /\ StepOf(s)[i] \in i..Len(s)
         /\ \A n \in 1..4 : i < Len(s) /\ CharAt(s, i + 1, n) => StepOf(s)[i] = i + n
         /\ StepOf(s)[i] # i => i < Len(s) /\ \E n \in 1..4 : CharAt(s, i + 1, n) /\ StepOf(s)[i] = i + n
<1>0. Len(s) \in Nat /\ i \in Nat
  OBVIOUS
<1>1. CASE i < Len(s) /\ \E n \in 1..4 : CharAt(s, i + 1, n)
  <2>1. PICK n \in 1..4 : CharAt(s, i + 1, n) /\ StepOf(s)[i] = i + n
    BY <1>1 DEF StepOf
  <2>2. i + 1 \in 1..Len(s)
    BY <1>0, <1>1
  <2>3. /\ \A m \in 1..4 : CharAt(s, i + 1, m) => m = n
        /\ (i + 1) + n - 1 <= Len(s)
    BY <2>1, <2>2, CharLength
  <2> QED
    BY <1>0, <1>1, <2>1, <2>3
<1>2. CASE ~(i < Len(s) /\ \E n \in 1..4 : CharAt(s, i + 1, n))
  BY <1>0, <1>2 DEF StepOf
<1> QED
  BY <1>1, <1>2

(* Such a function exists: else take the longest end of the text it can be  *)
(* defined for, and define it for one position more.                        *)
LEMMA ClimbExists == ASSUME NEW s \in Seq(0..255) PROVE \E f : Climbs(f, s)
<1> DEFINE N == Len(s)
           F == [0..N -> 0..N]
           Fits(f, i) == f[i] = IF StepOf(s)[i] = i THEN i ELSE f[StepOf(s)[i]]
           P(k) == \E f \in F : \A i \in (N - k)..N : Fits(f, i)
           T == {k \in 0..N : ~P(k)}
<1>0. N \in Nat
  OBVIOUS
<1> HIDE DEF N
<1>1. \A i \in 0..N : StepOf(s)[i] \in i..N
  BY StepGoes DEF N
<1>2. P(0)
  <2>1. [i \in 0..N |-> i] \in F
    OBVIOUS
  <2>2. \A i \in (N - 0)..N : i = N /\ StepOf(s)[i] = i /\ i \in 0..N
    BY <1>0, <1>1
  <2> QED
    BY <2>1, <2>2
<1>3. ASSUME NEW k \in 0..N, k < N, P(k) PROVE P(k + 1)
  <2>1. PICK f \in F : \A i \in (N - k)..N : Fits(f, i)
    BY <1>3
  <2> DEFINE j == N - (k + 1)
             g == [f EXCEPT ![j] = IF StepOf(s)[j] = j THEN j ELSE f[StepOf(s)[j]]]
  <2>2. j \in 0..N /\ \A i \in j..N : i = j \/ i \in (N - k)..N
    BY <1>0, <1>3
  <2>3. ASSUME NEW i \in (N - k)..N
        PROVE  i # j /\ i \in 0..N /\ StepOf(s)[i] # j /\ StepOf(s)[i] \in 0..N
    <3>1. i \in 0..N /\ i > j
      BY <1>0, <1>3
    <3>2. StepOf(s)[i] \in i..N
      BY <1>1, <3>1
    <3> QED
      <4>1. \A x \in i..N : x # j /\ x \in 0..N
        BY <1>0, <2>2, <3>1
      <4> QED
        BY <3>1, <3>2, <4>1
  <2>4. StepOf(s)[j] \in 0..N
    BY <1>0, <1>1, <2>2
  <2>5. g \in F
    BY <2>2, <2>4
  <2>6. ASSUME NEW i \in (N - k)..N PROVE Fits(g, i)
    BY <2>1, <2>2, <2>3, <2>6
  <2>7. Fits(g, j)
    BY <2>2, <2>4
  <2> QED
    <3> HIDE DEF g, Fits, F, j
    <3>1. \A i \in j..N : Fits(g, i)
      BY <2>2, <2>6, <2>7
    <3>2. j = N - (k + 1)
      BY DEF j
    <3> QED
      BY <2>5, <3>1, <3>2
<1>4. T = {}
  <2> SUFFICES ASSUME T # {} PROVE FALSE
    OBVIOUS
  <2>1. T \subseteq Nat
    BY <1>0
  <2>2. PICK k \in T : \A m \in T : k <= m
    BY <2>1, LeastNatural
  <2> HIDE DEF P
  <2>3. k # 0 /\ k \in 0..N
    BY <1>2, <2>2
  <2>4. k - 1 \in 0..N /\ k - 1 < N /\ ~(k <= k - 1) /\ (k - 1) + 1 = k
    BY <1>0, <2>3
  <2>5. P(k - 1)
    BY <2>2, <2>4
  <2>6. P((k - 1) + 1)
    BY <1>3, <2>4, <2>5
  <2> QED
    BY <2>2, <2>4, <2>6
<1>5. P(N)
  <2> HIDE DEF P
  <2> QED
    BY <1>0, <1>4
<1>6. (N - N)..N = 0..N
  BY <1>0
<1> QED
  BY <1>5, <1>6 DEF Climbs, N

(* ValidUpTo is what the scan from the beginning gives.                     *)
LEMMA ValidClimbs ==
  ASSUME NEW s \in Seq(0..255) PROVE \E f : Climbs(f, s) /\ ValidUpTo(s) = f[0]
<1> DEFINE Turns(f) == [i \in 0..Len(s) |->
                          IF i < Len(s) /\ \E n \in 1..4 : CharAt(s, i + 1, n)
                          THEN f[i + CHOOSE n \in 1..4 : CharAt(s, i + 1, n)] ELSE i]
           upTo == CHOOSE f : f = Turns(f)
<1>0. ValidUpTo(s) = upTo[0]
  BY DEF ValidUpTo
<1>1. PICK g : Climbs(g, s)
  BY ClimbExists
<1>3. ASSUME NEW f, NEW i \in 0..Len(s)
      PROVE  Turns(f)[i] = IF StepOf(s)[i] = i THEN i ELSE f[StepOf(s)[i]]
  <2>1. CASE i < Len(s) /\ \E n \in 1..4 : CharAt(s, i + 1, n)
    <3>1. StepOf(s)[i] = i + CHOOSE n \in 1..4 : CharAt(s, i + 1, n)
      BY <2>1 DEF StepOf
    <3>2. StepOf(s)[i] # i
      BY <2>1, StepGoes
    <3> QED
      BY <2>1, <3>1, <3>2
  <2>2. CASE ~(i < Len(s) /\ \E n \in 1..4 : CharAt(s, i + 1, n))
    BY <2>2 DEF StepOf
  <2> QED
    BY <2>1, <2>2
<1> HIDE DEF Turns
<1>4. g = Turns(g)
  <2>1. DOMAIN Turns(g) = 0..Len(s) /\ Turns(g) = [i \in DOMAIN Turns(g) |-> Turns(g)[i]]
    BY DEF Turns
  <2>2. g = [i \in 0..Len(s) |-> g[i]]
    BY <1>1 DEF Climbs
  <2>3. \A i \in 0..Len(s) : g[i] = Turns(g)[i]
    BY <1>1, <1>3 DEF Climbs
  <2> QED
    BY <2>1, <2>2, <2>3
<1>5. upTo = Turns(upTo)
  BY <1>4
<1> HIDE DEF upTo
<1>6. \A i \in 0..Len(s) : upTo[i] = g[i]
  <2> DEFINE T == {d \in 0..Len(s) : upTo[Len(s) - d] # g[Len(s) - d]}
  <2>0. Len(s) \in Nat
    OBVIOUS
  <2>1. T = {}
    <3> SUFFICES ASSUME T # {} PROVE FALSE
      OBVIOUS
    <3>1. T \subseteq Nat
      BY <2>0
    <3>2. PICK d \in T : \A e \in T : d <= e
      BY <3>1, LeastNatural
    <3> DEFINE i == Len(s) - d
               j == StepOf(s)[i]
    <3>3. i \in 0..Len(s) /\ d \in 0..Len(s)
      BY <2>0
    <3>4. upTo[i] = (IF j = i THEN i ELSE upTo[j]) /\ g[i] = (IF j = i THEN i ELSE g[j])
      <4>1. upTo[i] = Turns(upTo)[i]
        BY <1>5, Zenon
      <4>2. Turns(upTo)[i] = IF j = i THEN i ELSE upTo[j]
        BY <1>3, <3>3
      <4> QED
        BY <1>1, <3>3, <4>1, <4>2 DEF Climbs
    <3>5. upTo[i] # g[i]
      OBVIOUS
    <3>6. j # i /\ upTo[j] # g[j]
      BY <3>4, <3>5
    <3>7. j \in i..Len(s)
      BY <3>3, StepGoes
    <3> HIDE DEF j
    <3>8. Len(s) - j \in 0..Len(s) /\ Len(s) - (Len(s) - j) = j /\ ~(d <= Len(s) - j)
      BY <2>0, <3>3, <3>6, <3>7
    <3>9. Len(s) - j \in T
      BY <3>6, <3>8
    <3> QED
      BY <3>2, <3>8, <3>9
  <2>2. ASSUME NEW i \in 0..Len(s) PROVE upTo[i] = g[i]
    <3>1. Len(s) - i \in 0..Len(s) /\ Len(s) - (Len(s) - i) = i
      BY <2>0
    <3> QED
      BY <2>1, <3>1
  <2> QED
    BY <2>2
<1>7. 0 \in 0..Len(s)
  OBVIOUS
<1> QED
  BY <1>0, <1>1, <1>6, <1>7

(* A character is one whatever follows it.                                  *)
LEMMA CharPrefix ==
  ASSUME NEW x \in Seq(0..255), NEW t \in Seq(0..255), Len(t) <= Len(x),
         \A k \in 1..Len(t) : x[k] = t[k], NEW i \in 1..Len(t)
  PROVE  \A n \in 1..4 : CharAt(t, i, n) => CharAt(x, i, n)
<1>0. Len(t) \in Nat /\ Len(x) \in Nat /\ x[i] = t[i] /\ t[i] \in 0..255
  <2>1. t[i] \in 0..255
    BY ElementOfSeq
  <2> QED
    BY <2>1
<1>1. TailLen(t[i]) \in 0..3
  BY <1>0, TailLenType
<1> SUFFICES ASSUME NEW n \in 1..4, CharAt(t, i, n) PROVE CharAt(x, i, n)
  OBVIOUS
<1>2. CASE IsAscii(t[i]) /\ n = 1
  BY <1>0, <1>2 DEF CharAt
<1>3. CASE ~(IsAscii(t[i]) /\ n = 1)
  <2>1. /\ TailLen(t[i]) > 0 /\ n = 1 + TailLen(t[i]) /\ i + n - 1 <= Len(t)
        /\ t[i + 1] \in SecondByte(t[i]) /\ \A k \in i + 2 .. i + n - 1 : t[k] \in Cont
    BY <1>3 DEF CharAt
  <2>2. i + 1 \in 1..Len(t) /\ \A k \in i + 2 .. i + n - 1 : k \in 1..Len(t)
    BY <1>0, <1>1, <2>1
  <2>3. x[i + 1] = t[i + 1] /\ \A k \in i + 2 .. i + n - 1 : x[k] = t[k]
    BY <2>2
  <2>4. i + n - 1 <= Len(x)
    BY <1>0, <2>1
  <2> QED
    BY <1>0, <2>1, <2>3, <2>4 DEF CharAt
<1> QED
  BY <1>2, <1>3

(* A character is one whatever stands before it.                            *)
LEMMA CharShift ==
  ASSUME NEW x \in Seq(0..255), NEW y \in Seq(0..255), NEW v \in Nat, Len(x) = v + Len(y),
         \A k \in 1..Len(y) : x[v + k] = y[k], NEW i \in 1..Len(y)
  PROVE  \A n \in 1..4 : CharAt(x, v + i, n) <=> CharAt(y, i, n)
<1>0. Len(y) \in Nat /\ x[v + i] = y[i] /\ y[i] \in 0..255
  BY ElementOfSeq
<1>1. TailLen(y[i]) \in 0..3
  BY <1>0, TailLenType
<1> SUFFICES ASSUME NEW n \in 1..4 PROVE CharAt(x, v + i, n) <=> CharAt(y, i, n)
  OBVIOUS
<1>2. (v + i) + n - 1 <= Len(x) <=> i + n - 1 <= Len(y)
  BY <1>0
<1>3. ASSUME TailLen(y[i]) > 0, n = 1 + TailLen(y[i]), i + n - 1 <= Len(y)
      PROVE  /\ x[(v + i) + 1] = y[i + 1]
             /\ (\A k \in (v + i) + 2 .. (v + i) + n - 1 : x[k] \in Cont) <=>
                (\A k \in i + 2 .. i + n - 1 : y[k] \in Cont)
  <2>1. i + 1 \in 1..Len(y) /\ (v + i) + 1 = v + (i + 1)
    BY <1>0, <1>1, <1>3
  <2>2. ASSUME NEW k \in i + 2 .. i + n - 1
        PROVE  v + k \in (v + i) + 2 .. (v + i) + n - 1 /\ x[v + k] = y[k]
    <3>1. k \in 1..Len(y) /\ v + k \in (v + i) + 2 .. (v + i) + n - 1
      BY <1>0, <1>3
    <3> QED
      BY <3>1
  <2>3. ASSUME NEW k \in (v + i) + 2 .. (v + i) + n - 1
        PROVE  k - v \in i + 2 .. i + n - 1 /\ x[k] = y[k - v]
    <3>0. i \in Nat /\ n \in Nat /\ i + n - 1 <= Len(y) /\ k \in Int /\ i >= 1
          /\ (v + i) + 2 <= k /\ k <= (v + i) + n - 1
      BY <1>0, <1>3
    <3>1. k - v \in 1..Len(y) /\ k - v \in i + 2 .. i + n - 1 /\ v + (k - v) = k
      BY <1>0, <3>0
    <3>2. x[v + (k - v)] = y[k - v]
      BY <3>1
    <3> QED
      BY <3>1, <3>2
  <2>4. x[v + (i + 1)] = y[i + 1]
    BY <2>1
  <2> QED
    BY <2>1, <2>2, <2>3, <2>4
<1> QED
  BY <1>0, <1>2, <1>3 DEF CharAt

(* What comes later does not change where the characters before it end.     *)
LEMMA ClimbPrefix ==
  ASSUME NEW x \in Seq(0..255), NEW t \in Seq(0..255), Len(t) <= Len(x),
         \A k \in 1..Len(t) : x[k] = t[k],
         NEW f, NEW g, Climbs(f, x), Climbs(g, t)
  PROVE  \A i \in 0..Len(t) : f[i] = f[g[i]]
<1>0. Len(t) \in Nat /\ Len(x) \in Nat
  OBVIOUS
<1>1. ASSUME NEW i \in 0..Len(t), StepOf(t)[i] # i
      PROVE  StepOf(x)[i] = StepOf(t)[i] /\ StepOf(t)[i] \in i..Len(t)
  <2>1. PICK n \in 1..4 : i < Len(t) /\ CharAt(t, i + 1, n) /\ StepOf(t)[i] = i + n
    BY <1>1, StepGoes
  <2>2. i + 1 \in 1..Len(t) /\ i \in 0..Len(x) /\ i < Len(x)
    BY <1>0, <2>1
  <2>3. CharAt(x, i + 1, n)
    BY <2>1, <2>2, CharPrefix
  <2> QED
    BY <2>1, <2>2, <2>3, StepGoes
<1> DEFINE T == {d \in 0..Len(t) : f[Len(t) - d] # f[g[Len(t) - d]]}
<1>2. T = {}
  <2> SUFFICES ASSUME T # {} PROVE FALSE
    OBVIOUS
  <2>1. T \subseteq Nat
    BY <1>0
  <2>2. PICK d \in T : \A e \in T : d <= e
    BY <2>1, LeastNatural
  <2>3. PICK i \in 0..Len(t) : i = Len(t) - d /\ d \in 0..Len(t)
    BY <1>0
  <2>4. f[i] # f[g[i]]
    BY <2>2, <2>3
  <2>5. PICK j : j = StepOf(t)[i]
    OBVIOUS
  <2>6. g[i] = (IF j = i THEN i ELSE g[j]) /\ i \in 0..Len(x)
    BY <1>0, <2>5 DEF Climbs
  <2>7. j # i
    BY <2>4, <2>6
  <2>8. StepOf(x)[i] = j /\ j \in i..Len(t)
    BY <1>1, <2>5, <2>7
  <2>9. f[i] = f[j]
    BY <2>6, <2>7, <2>8 DEF Climbs
  <2>10. f[j] # f[g[j]]
    BY <2>4, <2>6, <2>7, <2>9
  <2>11. Len(t) - j \in 0..Len(t) /\ Len(t) - (Len(t) - j) = j /\ ~(d <= Len(t) - j)
    BY <1>0, <2>3, <2>7, <2>8
  <2>12. Len(t) - j \in T
    BY <2>10, <2>11
  <2> QED
    BY <2>2, <2>11, <2>12
<1>3. ASSUME NEW i \in 0..Len(t) PROVE f[i] = f[g[i]]
  <2>1. Len(t) - i \in 0..Len(t) /\ Len(t) - (Len(t) - i) = i
    BY <1>0
  <2> QED
    BY <1>2, <2>1
<1> QED
  BY <1>3

(* t is the beginning of x, and y is x without its first v bytes.           *)
Starts(x, t) == Len(t) <= Len(x) /\ \A k \in 1..Len(t) : x[k] = t[k]
Rest(x, y, v) ==
  v \in Nat /\ Len(x) = v + Len(y) /\ \A k \in 1..Len(y) : x[v + k] = y[k]

(* A scan that starts at a character goes where the scan of the rest goes.  *)
LEMMA ClimbShift ==
  ASSUME NEW x \in Seq(0..255), NEW y \in Seq(0..255), NEW v, Rest(x, y, v)
  PROVE  \A f, h : Climbs(f, x) /\ Climbs(h, y) => \A j \in 0..Len(y) : f[v + j] = v + h[j]
<1> SUFFICES ASSUME NEW f, NEW h, Climbs(f, x), Climbs(h, y), v \in Nat, Len(x) = v + Len(y),
                    \A k \in 1..Len(y) : x[v + k] = y[k]
             PROVE  \A j \in 0..Len(y) : f[v + j] = v + h[j]
  BY DEF Rest
<1>0. Len(y) \in Nat /\ Len(x) \in Nat
  OBVIOUS
<1>1. ASSUME NEW i \in 0..Len(y)
      PROVE  StepOf(x)[v + i] = v + StepOf(y)[i] /\ StepOf(y)[i] \in i..Len(y) /\ v + i \in 0..Len(x)
  <2>1. v + i \in 0..Len(x) /\ (v + i < Len(x) <=> i < Len(y)) /\ (i < Len(y) => i + 1 \in 1..Len(y))
        /\ (v + i) + 1 = v + (i + 1)
    BY <1>0
  <2>2. StepOf(y)[i] \in i..Len(y)
    BY StepGoes
  <2>3. i < Len(y) => \A n \in 1..4 : CharAt(x, (v + i) + 1, n) <=> CharAt(y, i + 1, n)
    <3>1. PICK k : k = i + 1
      OBVIOUS
    <3>2. k \in 1..Len(y) => \A n \in 1..4 : CharAt(x, v + k, n) <=> CharAt(y, k, n)
      BY CharShift
    <3>3. v + k = (v + i) + 1
      BY <2>1, <3>1
    <3> QED
      BY <2>1, <3>1, <3>2, <3>3
  <2>4. CASE StepOf(y)[i] # i
    <3>1. PICK n \in 1..4 : i < Len(y) /\ CharAt(y, i + 1, n) /\ StepOf(y)[i] = i + n
      BY <2>4, StepGoes
    <3>2. StepOf(x)[v + i] = (v + i) + n
      BY <2>1, <2>3, <3>1, StepGoes
    <3> QED
      BY <1>0, <2>1, <2>2, <3>1, <3>2
  <2>5. CASE StepOf(y)[i] = i /\ StepOf(x)[v + i] # v + i
    <3>1. PICK n \in 1..4 : v + i < Len(x) /\ CharAt(x, (v + i) + 1, n)
      BY <2>1, <2>5, StepGoes
    <3>2. StepOf(y)[i] = i + n
      BY <2>1, <2>3, <3>1, StepGoes
    <3> QED
      BY <1>0, <2>5, <3>2
  <2> QED
    BY <1>0, <2>1, <2>2, <2>4, <2>5
<1> DEFINE T == {d \in 0..Len(y) : f[v + (Len(y) - d)] # v + h[Len(y) - d]}
<1>2. T = {}
  <2> SUFFICES ASSUME T # {} PROVE FALSE
    OBVIOUS
  <2>1. T \subseteq Nat
    BY <1>0
  <2>2. PICK d \in T : \A e \in T : d <= e
    BY <2>1, LeastNatural
  <2>3. PICK i \in 0..Len(y) : i = Len(y) - d /\ d \in 0..Len(y)
    BY <1>0
  <2>4. f[v + i] # v + h[i]
    BY <2>2, <2>3
  <2>5. PICK j : j = StepOf(y)[i]
    OBVIOUS
  <2>6. StepOf(x)[v + i] = v + j /\ j \in i..Len(y) /\ v + i \in 0..Len(x)
    BY <1>1, <2>5
  <2>7. h[i] = IF j = i THEN i ELSE h[j]
    BY <2>5 DEF Climbs
  <2>8. f[v + i] = IF v + j = v + i THEN v + i ELSE f[v + j]
    <3>1. PICK a, b : a = v + i /\ b = v + j
      OBVIOUS
    <3>2. a \in 0..Len(x) /\ StepOf(x)[a] = b
      BY <2>6, <3>1
    <3>3. f[a] = IF b = a THEN a ELSE f[b]
      BY <3>2 DEF Climbs
    <3> QED
      BY <3>1, <3>3
  <2>9. v + j = v + i <=> j = i
    BY <1>0, <2>6
  <2>10. j # i /\ f[v + j] # v + h[j]
    BY <2>4, <2>7, <2>8, <2>9
  <2>11. Len(y) - j \in 0..Len(y) /\ Len(y) - (Len(y) - j) = j /\ ~(d <= Len(y) - j)
    BY <1>0, <2>3, <2>6, <2>10
  <2>12. Len(y) - j \in T
    BY <2>10, <2>11
  <2> QED
    BY <2>2, <2>11, <2>12
<1>3. ASSUME NEW i \in 0..Len(y) PROVE f[v + i] = v + h[i]
  <2>1. Len(y) - i \in 0..Len(y) /\ Len(y) - (Len(y) - i) = i
    BY <1>0
  <2> QED
    BY <1>2, <2>1
<1> QED
  BY <1>3

(* The end of a text that is not valid UTF-8 decides how much more bytes    *)
(* make valid: what was valid before it stays so.                           *)
LEMMA ValidExtends ==
  ASSUME NEW x \in Seq(0..255), NEW y \in Seq(0..255), NEW t \in Seq(0..255),
         Starts(x, t), Rest(x, y, ValidUpTo(t))
  PROVE  ValidUpTo(t) \in 0..Len(t) /\ ValidUpTo(x) = ValidUpTo(t) + ValidUpTo(y)
<1>1. PICK f : Climbs(f, x) /\ ValidUpTo(x) = f[0]
  BY ValidClimbs
<1>2. PICK g : Climbs(g, t) /\ ValidUpTo(t) = g[0]
  BY ValidClimbs
<1>3. PICK h : Climbs(h, y) /\ ValidUpTo(y) = h[0]
  BY ValidClimbs
<1>4. 0 \in 0..Len(t) /\ 0 \in 0..Len(y)
  OBVIOUS
<1>5. g[0] \in 0..Len(t)
  BY <1>2, <1>4 DEF Climbs
<1>6. f[0] = f[g[0]]
  BY <1>1, <1>2, <1>4, ClimbPrefix DEF Starts
<1>7. PICK v \in Nat : v = g[0]
  BY <1>5
<1>8. Rest(x, y, v)
  BY <1>2, <1>7
<1>9. \A j \in 0..Len(y) : f[v + j] = v + h[j]
  BY <1>1, <1>3, <1>8, ClimbShift
<1>10. f[v] = v + h[0]
  <2>1. f[v + 0] = v + h[0]
    BY <1>4, <1>9
  <2> QED
    BY <2>1
<1> QED
  BY <1>1, <1>2, <1>3, <1>5, <1>6, <1>7, <1>10

-----------------------------------------------------------------------------
(* incomplete_utf8_suffix_len.                                              *)

(* A bounded set of positions has a last one.                               *)
LEMMA MaxIs ==
  ASSUME NEW N \in Nat, NEW I, I \subseteq 1..N, I # {}
  PROVE  Max(I) \in I /\ \A y \in I : y <= Max(I)
<1> DEFINE T == {d \in 0..N : N - d \in I}
<1>1. T # {} /\ T \subseteq Nat
  <2>1. PICK i : i \in I
    OBVIOUS
  <2>2. i \in 1..N
    BY <2>1
  <2>3. N - i \in 0..N /\ N - (N - i) = i
    BY <2>2
  <2>4. N - i \in T
    BY <2>1, <2>3
  <2> QED
    BY <2>4
<1>2. PICK d \in T : \A e \in T : d <= e
  BY <1>1, LeastNatural
<1>3. PICK m \in I : m = N - d /\ d \in 0..N
  OBVIOUS
<1>4. ASSUME NEW y \in I PROVE m >= y /\ y <= m
  <2>1. y \in 1..N /\ m \in 1..N
    OBVIOUS
  <2>2. N - y \in 0..N /\ N - (N - y) = y
    BY <2>1
  <2>3. N - y \in T
    BY <2>2
  <2>4. d <= N - y
    BY <1>2, <2>3
  <2> QED
    BY <1>3, <2>1, <2>4
<1>5. \E x \in I : \A y \in I : x >= y
  BY <1>4
<1>6. Max(I) \in I /\ \A y \in I : Max(I) >= y
  BY <1>5 DEF Max
<1>7. PICK x \in I : x = Max(I)
  BY <1>6
<1>8. \A y \in I : y <= x
  BY <1>6, <1>7
<1> QED
  BY <1>7, <1>8

(* Where the last ASCII byte stands: at a position with one and none after  *)
(* it, or at 0 when there is none.                                          *)
Ascii(s) == {i \in 1..Len(s) : IsAscii(s[i])}
LastAt(s, a) ==
  a \in 0..Len(s) /\ (a > 0 => IsAscii(s[a])) /\ \A k \in a + 1 .. Len(s) : ~IsAscii(s[k])

(* SelectLastInSeq finds that position and no other.                        *)
LEMMA LastAscii ==
  ASSUME NEW s \in Seq(0..255)
  PROVE  LastAt(s, AfterLastAscii(s)) /\ \A a : LastAt(s, a) => AfterLastAscii(s) = a
<1>0. Len(s) \in Nat
  OBVIOUS
<1>1. AfterLastAscii(s) = IF Ascii(s) # {} THEN Max(Ascii(s)) ELSE 0
  BY DEF AfterLastAscii, SelectLastInSeq, Ascii
<1>2. CASE Ascii(s) = {}
  <2>1. \A i \in 1..Len(s) : ~IsAscii(s[i])
    BY <1>2 DEF Ascii
  <2>2. \A k \in 0 + 1 .. Len(s) : k \in 1..Len(s)
    BY <1>0
  <2>3. LastAt(s, 0)
    BY <1>0, <2>1, <2>2 DEF LastAt
  <2>4. ASSUME NEW a, LastAt(s, a) PROVE a = 0
    <3>1. a \in 0..Len(s) /\ (a > 0 => IsAscii(s[a]))
      BY <2>4 DEF LastAt
    <3>2. a > 0 => a \in 1..Len(s)
      BY <1>0, <3>1
    <3> QED
      BY <1>0, <2>1, <3>1, <3>2
  <2> QED
    BY <1>1, <1>2, <2>3, <2>4
<1>3. CASE Ascii(s) # {}
  <2>0. Ascii(s) \subseteq 1..Len(s)
    BY DEF Ascii
  <2>1. PICK m : m = Max(Ascii(s)) /\ m \in Ascii(s) /\ \A y \in Ascii(s) : y <= m
    BY <1>0, <1>3, <2>0, MaxIs
  <2>2. m \in 1..Len(s) /\ IsAscii(s[m])
    BY <2>1 DEF Ascii
  <2>3. ASSUME NEW k \in m + 1 .. Len(s) PROVE ~IsAscii(s[k])
    <3>1. k \in 1..Len(s) /\ ~(k <= m)
      BY <1>0, <2>2
    <3> QED
      BY <2>1, <3>1 DEF Ascii
  <2>4. LastAt(s, m)
    BY <1>0, <2>2, <2>3 DEF LastAt
  <2>5. ASSUME NEW a, LastAt(s, a) PROVE a = m
    <3>1. a \in 0..Len(s) /\ (a > 0 => IsAscii(s[a])) /\ \A k \in a + 1 .. Len(s) : ~IsAscii(s[k])
      BY <2>5 DEF LastAt
    <3>2. CASE a < m
      <4>1. m \in a + 1 .. Len(s)
        BY <1>0, <2>2, <3>1, <3>2
      <4> QED
        BY <2>2, <3>1, <4>1
    <3>3. CASE a > m
      <4>1. a \in 1..Len(s) /\ a > 0 /\ ~(a <= m)
        BY <1>0, <2>2, <3>1, <3>3
      <4>2. a \in Ascii(s)
        BY <3>1, <4>1 DEF Ascii
      <4> QED
        BY <2>1, <4>1, <4>2
    <3> QED
      BY <1>0, <2>2, <3>1, <3>2, <3>3
  <2> QED
    BY <1>1, <1>3, <2>1, <2>4, <2>5
<1> QED
  BY <1>2, <1>3

(* A valid prefix is one.                                                   *)
LEMMA ValidType == ASSUME NEW s \in Seq(0..255) PROVE ValidUpTo(s) \in 0..Len(s)
<1>1. PICK f : Climbs(f, s) /\ ValidUpTo(s) = f[0]
  BY ValidClimbs
<1>2. 0 \in 0..Len(s)
  OBVIOUS
<1> QED
  BY <1>1, <1>2 DEF Climbs

(* What follows position a.                                                 *)
LEMMA SuffixIs ==
  ASSUME NEW s \in Seq(0..255), NEW a \in 0..Len(s)
  PROVE  LET t == SubSeq(s, a + 1, Len(s)) IN
         /\ t \in Seq(0..255) /\ Len(t) = Len(s) - a
         /\ \A k \in 1..Len(t) : t[k] = s[a + k]
<1> DEFINE t == SubSeq(s, a + 1, Len(s))
<1>0. Len(s) \in Nat
  OBVIOUS
<1>1. \A k \in a + 1 .. Len(s) : k \in 1..Len(s) /\ s[k] \in 0..255
  BY <1>0, ElementOfSeq
<1>2. /\ t \in Seq(0..255) /\ Len(t) = (IF a + 1 <= Len(s) THEN Len(s) - (a + 1) + 1 ELSE 0)
      /\ \A k \in 1 .. Len(s) - (a + 1) + 1 : t[k] = s[(a + 1) + k - 1]
  BY <1>0, <1>1, SubSeqProperties
<1>3. Len(t) = Len(s) - a
  BY <1>0, <1>2
<1>4. ASSUME NEW k \in 1..Len(t) PROVE t[k] = s[a + k]
  <2>1. k \in 1 .. Len(s) - (a + 1) + 1 /\ (a + 1) + k - 1 = a + k
    BY <1>0, <1>3
  <2> QED
    BY <1>2, <2>1
<1> QED
  BY <1>2, <1>3, <1>4

(* What process holds back of s, from its last ASCII byte.                  *)
LEMMA HeldIs ==
  ASSUME NEW s \in Seq(0..255), NEW a, LastAt(s, a)
  PROVE  LET t == SubSeq(s, a + 1, Len(s)) IN
         /\ t \in Seq(0..255) /\ Len(t) = Len(s) - a /\ ValidUpTo(t) \in 0..Len(t)
         /\ \A k \in 1..Len(t) : t[k] = s[a + k]
         /\ incomplete_utf8_suffix_len(s) = Len(t) - ValidUpTo(t)
<1> DEFINE t == SubSeq(s, a + 1, Len(s))
<1>0. Len(s) \in Nat /\ a \in 0..Len(s) /\ AfterLastAscii(s) = a
  BY LastAscii DEF LastAt
<1>1. /\ t \in Seq(0..255) /\ Len(t) = Len(s) - a
      /\ \A k \in 1..Len(t) : t[k] = s[a + k]
  BY <1>0, SuffixIs
<1>2. incomplete_utf8_suffix_len(s) = Len(t) - ValidUpTo(t)
  BY <1>0 DEF incomplete_utf8_suffix_len
<1> HIDE DEF t
<1>3. ValidUpTo(t) \in 0..Len(t)
  BY <1>1, ValidType
<1> QED
  BY <1>1, <1>2, <1>3 DEF t

(* The length and the elements of a concatenation.                          *)
LEMMA Joined ==
  ASSUME NEW w \in Seq(0..255), NEW b \in Seq(0..255)
  PROVE  /\ w \o b \in Seq(0..255) /\ Len(w \o b) = Len(w) + Len(b)
         /\ \A k \in 1..Len(w) : (w \o b)[k] = w[k]
         /\ \A k \in 1..Len(b) : (w \o b)[Len(w) + k] = b[k]
<1>0. Len(w) \in Nat /\ Len(b) \in Nat
  OBVIOUS
<1>1. /\ w \o b \in Seq(0..255) /\ Len(w \o b) = Len(w) + Len(b)
      /\ \A i \in 1 .. Len(w) + Len(b) : (w \o b)[i] = IF i <= Len(w) THEN w[i] ELSE b[i - Len(w)]
  BY ConcatProperties
<1>2. ASSUME NEW k \in 1..Len(w) PROVE (w \o b)[k] = w[k]
  <2>1. k \in 1 .. Len(w) + Len(b) /\ k <= Len(w)
    BY <1>0
  <2> QED
    BY <1>1, <2>1
<1>3. ASSUME NEW k \in 1..Len(b) PROVE (w \o b)[Len(w) + k] = b[k]
  <2>1. PICK i : i = Len(w) + k
    OBVIOUS
  <2>2. i \in 1 .. Len(w) + Len(b) /\ ~(i <= Len(w)) /\ i - Len(w) = k
    BY <1>0, <2>1
  <2>3. (w \o b)[i] = b[i - Len(w)]
    BY <1>1, <2>2
  <2> QED
    BY <2>1, <2>2, <2>3
<1> QED
  BY <1>1, <1>2, <1>3

(* The last ASCII byte of a concatenation is that of its second part, or    *)
(* that of the first when the second has none.                              *)
LEMMA LastOfJoined ==
  ASSUME NEW w \in Seq(0..255), NEW b \in Seq(0..255), NEW a, LastAt(b, a)
  PROVE  /\ a > 0 => LastAt(w \o b, Len(w) + a)
         /\ a = 0 => \A c : LastAt(w, c) => LastAt(w \o b, c)
<1>0. Len(w) \in Nat /\ Len(b) \in Nat /\ a \in 0..Len(b)
  BY DEF LastAt
<1>1. PICK x \in Seq(0..255) : x = w \o b
  BY Joined
<1>2. /\ Len(x) = Len(w) + Len(b)
      /\ \A k \in 1..Len(w) : x[k] = w[k]
      /\ \A k \in 1..Len(b) : x[Len(w) + k] = b[k]
  BY <1>1, Joined
<1>3. ASSUME NEW k \in Len(w) + a + 1 .. Len(x) PROVE ~IsAscii(x[k])
  <2>1. k - Len(w) \in a + 1 .. Len(b) /\ k - Len(w) \in 1..Len(b) /\ Len(w) + (k - Len(w)) = k
    BY <1>0, <1>2
  <2>2. x[Len(w) + (k - Len(w))] = b[k - Len(w)]
    BY <1>2, <2>1
  <2>3. ~IsAscii(b[k - Len(w)])
    BY <2>1 DEF LastAt
  <2> QED
    BY <2>1, <2>2, <2>3
<1>4. ASSUME a > 0 PROVE LastAt(x, Len(w) + a)
  <2>1. a \in 1..Len(b) /\ IsAscii(b[a])
    BY <1>0, <1>4 DEF LastAt
  <2>2. IsAscii(x[Len(w) + a]) /\ Len(w) + a \in 0..Len(x)
    BY <1>0, <1>2, <2>1
  <2> QED
    BY <1>3, <2>2 DEF LastAt
<1>5. ASSUME a = 0, NEW c, LastAt(w, c) PROVE LastAt(x, c)
  <2>1. c \in 0..Len(w) /\ (c > 0 => IsAscii(w[c])) /\ \A k \in c + 1 .. Len(w) : ~IsAscii(w[k])
    BY <1>5 DEF LastAt
  <2>2. c > 0 => c \in 1..Len(w)
    BY <1>0, <2>1
  <2>3. c \in 0..Len(x) /\ (c > 0 => IsAscii(x[c]))
    BY <1>0, <1>2, <2>1, <2>2
  <2>4. ASSUME NEW k \in c + 1 .. Len(x) PROVE ~IsAscii(x[k])
    <3>1. CASE k <= Len(w)
      <4>1. k \in 1..Len(w) /\ k \in c + 1 .. Len(w)
        BY <1>0, <2>1, <3>1
      <4> QED
        BY <1>2, <2>1, <4>1
    <3>2. CASE ~(k <= Len(w))
      <4>1. k \in Len(w) + a + 1 .. Len(x)
        BY <1>0, <1>2, <1>5, <2>1, <3>2
      <4> QED
        BY <1>3, <4>1
    <3> QED
      BY <3>1, <3>2
  <2> QED
    BY <2>3, <2>4 DEF LastAt
<1> QED
  BY <1>1, <1>4, <1>5

(* Past an ASCII byte, what came before does not matter.                    *)
LEMMA HeldAfterAscii ==
  ASSUME NEW w \in Seq(0..255), NEW b \in Seq(0..255), AfterLastAscii(b) > 0
  PROVE  incomplete_utf8_suffix_len(w \o b) = incomplete_utf8_suffix_len(b)
<1>1. PICK a : a = AfterLastAscii(b) /\ LastAt(b, a) /\ a > 0
  BY LastAscii
<1>2. PICK x \in Seq(0..255) : x = w \o b
  BY Joined
<1>3. PICK c : c = Len(w) + a
  OBVIOUS
<1>4. LastAt(x, c)
  BY <1>1, <1>2, <1>3, LastOfJoined
<1> DEFINE t == SubSeq(x, c + 1, Len(x))
           u == SubSeq(b, a + 1, Len(b))
<1>5. /\ t \in Seq(0..255) /\ Len(t) = Len(x) - c /\ \A k \in 1..Len(t) : t[k] = x[c + k]
      /\ incomplete_utf8_suffix_len(x) = Len(t) - ValidUpTo(t)
  BY <1>4, HeldIs
<1>6. /\ u \in Seq(0..255) /\ Len(u) = Len(b) - a /\ \A k \in 1..Len(u) : u[k] = b[a + k]
      /\ incomplete_utf8_suffix_len(b) = Len(u) - ValidUpTo(u)
  BY <1>1, HeldIs
<1> HIDE DEF t, u
<1>7. Len(w) \in Nat /\ Len(b) \in Nat /\ a \in 0..Len(b)
  BY <1>1 DEF LastAt
<1>8. Len(x) = Len(w) + Len(b) /\ \A k \in 1..Len(b) : x[Len(w) + k] = b[k]
  BY <1>2, Joined
<1>9. Len(t) = Len(u)
  BY <1>3, <1>5, <1>6, <1>7, <1>8
<1>10. ASSUME NEW k \in 1..Len(t) PROVE t[k] = u[k]
  <2>1. PICK m : m = a + k
    OBVIOUS
  <2>2. m \in 1..Len(b) /\ Len(w) + m = c + k /\ k \in 1..Len(u)
    BY <1>3, <1>6, <1>7, <1>9, <2>1
  <2>3. x[Len(w) + m] = b[m]
    BY <1>8, <2>2
  <2> QED
    BY <1>5, <1>6, <2>1, <2>2, <2>3
<1>11. t = u
  BY <1>5, <1>6, <1>9, <1>10, SeqEqual
<1> QED
  BY <1>2, <1>5, <1>6, <1>11

(* Of s, what precedes p went to the parser and p is held back.             *)
Held(s, q, p) == s = q \o p /\ Len(p) = incomplete_utf8_suffix_len(s)

(* The bytes held back stand for the whole stream: with more bytes behind   *)
(* them, as much is held back as of the whole.                              *)
LEMMA HeldExtends ==
  ASSUME NEW s \in Seq(0..255), NEW b \in Seq(0..255), NEW p \in Seq(0..255),
         NEW q \in Seq(0..255), Held(s, q, p)
  PROVE  incomplete_utf8_suffix_len(s \o b) = incomplete_utf8_suffix_len(p \o b)
<1>1. CASE AfterLastAscii(b) > 0
  BY <1>1, HeldAfterAscii
<1>2. CASE ~(AfterLastAscii(b) > 0)
  <2>0. LastAt(b, 0) /\ Len(b) \in Nat /\ Len(p) \in Nat /\ Len(s) \in Nat /\ Len(q) \in Nat
    <3>1. LastAt(b, AfterLastAscii(b))
      BY LastAscii
    <3>2. AfterLastAscii(b) = 0
      BY <1>2, <3>1 DEF LastAt
    <3> QED
      BY <3>1, <3>2
  <2>1. PICK a : LastAt(s, a)
    BY LastAscii
  <2> DEFINE t == SubSeq(s, a + 1, Len(s))
  <2>2. /\ t \in Seq(0..255) /\ Len(t) = Len(s) - a /\ ValidUpTo(t) \in 0..Len(t)
        /\ \A k \in 1..Len(t) : t[k] = s[a + k]
        /\ incomplete_utf8_suffix_len(s) = Len(t) - ValidUpTo(t)
    BY <2>1, HeldIs
  <2> HIDE DEF t
  <2>3. PICK v \in 0..Len(t) : v = ValidUpTo(t)
    BY <2>2
  <2>4. /\ a \in 0..Len(s) /\ \A k \in a + 1 .. Len(s) : ~IsAscii(s[k])
        /\ Len(p) = Len(t) - v /\ Len(s) = Len(q) + Len(p) /\ Len(q) = a + v
        /\ \A k \in 1..Len(p) : s[Len(q) + k] = p[k]
    <3>1. a \in 0..Len(s) /\ \A k \in a + 1 .. Len(s) : ~IsAscii(s[k])
      BY <2>1 DEF LastAt
    <3>2. Len(p) = Len(t) - v
      BY <2>2, <2>3 DEF Held
    <3>3. Len(s) = Len(q) + Len(p) /\ \A k \in 1..Len(p) : s[Len(q) + k] = p[k]
      BY Joined DEF Held
    <3>4. Len(q) = a + v
      BY <2>0, <2>2, <3>1, <3>2, <3>3
    <3> QED
      BY <3>1, <3>2, <3>3, <3>4
  <2>5. LastAt(p, 0)
    <3>1. ASSUME NEW k \in 0 + 1 .. Len(p) PROVE ~IsAscii(p[k])
      <4>1. k \in 1..Len(p)
        BY <2>0
      <4>2. PICK m : m = Len(q) + k
        OBVIOUS
      <4>3. m \in a + 1 .. Len(s)
        <5>1. v \in Nat /\ a \in Nat /\ k \in Nat /\ k >= 1 /\ k <= Len(p) /\ Len(q) = a + v
              /\ Len(s) = Len(q) + Len(p)
          BY <2>0, <2>2, <2>3, <2>4, <4>1
        <5> QED
          BY <2>0, <4>2, <5>1
      <4> QED
        BY <2>4, <4>1, <4>2, <4>3
    <3> QED
      BY <2>0, <3>1 DEF LastAt
  <2>6. PICK sb \in Seq(0..255) : sb = s \o b
    BY Joined
  <2>7. PICK pb \in Seq(0..255) : pb = p \o b
    BY Joined
  <2>8. LastAt(sb, a) /\ LastAt(pb, 0)
    BY <2>0, <2>1, <2>5, <2>6, <2>7, LastOfJoined
  <2> DEFINE x == SubSeq(sb, a + 1, Len(sb))
             y == SubSeq(pb, 0 + 1, Len(pb))
  <2>9. /\ x \in Seq(0..255) /\ Len(x) = Len(sb) - a /\ \A k \in 1..Len(x) : x[k] = sb[a + k]
        /\ incomplete_utf8_suffix_len(sb) = Len(x) - ValidUpTo(x) /\ ValidUpTo(x) \in 0..Len(x)
    BY <2>8, HeldIs
  <2>10. /\ y \in Seq(0..255) /\ Len(y) = Len(pb) - 0 /\ \A k \in 1..Len(y) : y[k] = pb[0 + k]
         /\ incomplete_utf8_suffix_len(pb) = Len(y) - ValidUpTo(y) /\ ValidUpTo(y) \in 0..Len(y)
    BY <2>8, HeldIs
  <2> HIDE DEF x, y
  <2>11. /\ Len(sb) = Len(s) + Len(b)
         /\ \A k \in 1..Len(s) : sb[k] = s[k]
         /\ \A k \in 1..Len(b) : sb[Len(s) + k] = b[k]
    BY <2>6, Joined
  <2>12. /\ Len(pb) = Len(p) + Len(b)
         /\ \A k \in 1..Len(p) : pb[k] = p[k]
         /\ \A k \in 1..Len(b) : pb[Len(p) + k] = b[k]
    BY <2>7, Joined
  <2>13. Len(t) <= Len(x) /\ Len(x) = v + Len(y) /\ Len(x) \in Nat /\ Len(y) \in Nat
    <3>1. v \in Nat /\ v <= Len(t) /\ Len(t) \in Nat /\ a \in Nat /\ a <= Len(s)
      BY <2>0, <2>2, <2>3, <2>4
    <3>2. /\ Len(t) = Len(s) - a /\ Len(p) = Len(t) - v /\ Len(x) = Len(sb) - a
          /\ Len(y) = Len(pb) - 0 /\ Len(sb) = Len(s) + Len(b) /\ Len(pb) = Len(p) + Len(b)
      BY <2>2, <2>4, <2>9, <2>10, <2>11, <2>12
    <3> QED
      BY <2>0, <3>1, <3>2
  <2>14. ASSUME NEW k \in 1..Len(t) PROVE x[k] = t[k]
    <3>1. PICK m : m = a + k
      OBVIOUS
    <3>2. m \in 1..Len(s) /\ k \in 1..Len(x)
      BY <2>0, <2>2, <2>4, <2>13, <3>1
    <3> QED
      BY <2>2, <2>9, <2>11, <3>1, <3>2
  <2>15. ASSUME NEW k \in 1..Len(y) PROVE x[v + k] = y[k]
    <3>0. y[k] = pb[k]
      BY <2>10, <2>13
    <3>1. PICK m : m = v + k
      OBVIOUS
    <3>2. PICK n : n = a + m
      OBVIOUS
    <3>3. m \in 1..Len(x) /\ v \in Nat /\ a \in Nat /\ k \in Nat
      <4>1. v \in Nat /\ a \in Nat /\ k \in Nat /\ k >= 1 /\ k <= Len(y)
        BY <2>0, <2>2, <2>3, <2>4, <2>13
      <4> QED
        BY <2>13, <3>1, <4>1
    <3>4. x[m] = sb[n]
      BY <2>9, <3>2, <3>3
    <3>5. CASE k <= Len(p)
      <4>1. k \in 1..Len(p) /\ n = Len(q) + k /\ n \in 1..Len(s)
        BY <2>0, <2>4, <3>1, <3>2, <3>3, <3>5
      <4> QED
        BY <2>4, <2>11, <2>12, <3>0, <3>1, <3>4, <4>1
    <3>6. CASE ~(k <= Len(p))
      <4>1. PICK j : j = k - Len(p)
        OBVIOUS
      <4>2. j \in 1..Len(b) /\ n = Len(s) + j /\ k = Len(p) + j
        BY <2>0, <2>4, <2>10, <2>12, <3>1, <3>2, <3>3, <3>6, <4>1
      <4> QED
        BY <2>11, <2>12, <3>0, <3>1, <3>4, <4>2
    <3> QED
      BY <3>5, <3>6
  <2>16. ValidUpTo(x) = v + ValidUpTo(y)
    <3>1. Starts(x, t)
      BY <2>13, <2>14 DEF Starts
    <3>2. Rest(x, y, v)
      BY <2>3, <2>13, <2>15 DEF Rest
    <3>3. x \in Seq(0..255) /\ y \in Seq(0..255) /\ t \in Seq(0..255)
      BY <2>2, <2>9, <2>10
    <3> QED
      BY <2>3, <3>1, <3>2, <3>3, ValidExtends
  <2> QED
    BY <2>3, <2>6, <2>7, <2>9, <2>10, <2>13, <2>16
<1> QED
  BY <1>1, <1>2

(* No more is held back than there is.                                      *)
LEMMA HeldType ==
  ASSUME NEW s \in Seq(0..255) PROVE incomplete_utf8_suffix_len(s) \in 0..Len(s)
<1>1. PICK a : LastAt(s, a) /\ a \in 0..Len(s)
  BY LastAscii DEF LastAt
<1> DEFINE t == SubSeq(s, a + 1, Len(s))
<1>2. /\ t \in Seq(0..255) /\ Len(t) = Len(s) - a /\ ValidUpTo(t) \in 0..Len(t)
      /\ incomplete_utf8_suffix_len(s) = Len(t) - ValidUpTo(t)
  BY <1>1, HeldIs
<1> HIDE DEF t
<1>3. PICK v, n : v = ValidUpTo(t) /\ n = Len(t) /\ v \in 0..n /\ n = Len(s) - a /\ Len(s) \in Nat
  BY <1>2
<1>4. n - v \in 0..Len(s)
  BY <1>1, <1>3
<1> QED
  BY <1>2, <1>3, <1>4

(* The histories and the tail are bytes.                                    *)
StreamTypeOK ==
  received \in Seq(0..255) /\ fed \in Seq(0..255) /\ pending_utf8 \in Seq(0..255)

(* What a call of process gives the parser and keeps is what was kept and   *)
(* what came.                                                               *)
LEMMA ProcessSplits ==
  ASSUME StreamTypeOK, NEW bytes \in Seq(0..255), process(bytes)
  PROVE  \E more \in Seq(0..255) :
           /\ StreamTypeOK' /\ received' = received \o bytes
           /\ fed' = fed \o more /\ seq_state' = advance_bytes(seq_state, more)
           /\ more \o pending_utf8' = pending_utf8 \o bytes
           /\ Len(pending_utf8') = incomplete_utf8_suffix_len(pending_utf8 \o bytes)
<1>1. PICK c \in Seq(0..255) : c = pending_utf8 \o bytes
  BY Joined DEF StreamTypeOK
<1>2. PICK h \in 0..Len(c) : h = incomplete_utf8_suffix_len(c)
  BY HeldType
<1>3. PICK n \in 0..Len(c) : n = Len(c) - h /\ Len(c) \in Nat
  <2>1. Len(c) \in Nat
    OBVIOUS
  <2>2. Len(c) - h \in 0..Len(c)
    BY <2>1
  <2> QED
    BY <2>1, <2>2
<1>4. /\ seq_state' = advance_bytes(seq_state, SubSeq(c, 1, n)) /\ fed' = fed \o SubSeq(c, 1, n)
      /\ pending_utf8' = SubSeq(c, n + 1, Len(c)) /\ received' = received \o bytes
  BY <1>1, <1>2, <1>3 DEF process, advance_parser
<1>5. \A k \in 1..Len(c) : c[k] \in 0..255
  BY ElementOfSeq
<1>6. SubSeq(c, 1, n) \in Seq(0..255)
  <2>1. ASSUME NEW k \in 1..n PROVE c[k] \in 0..255
    <3>1. Len(c) \in Nat /\ n \in 0..Len(c)
      BY <1>3
    <3>2. k \in 1..Len(c)
      BY <3>1
    <3> QED
      BY <1>5, <3>2
  <2>2. 1 \in Int /\ n \in Int
    BY <1>3
  <2> QED
    BY <2>1, <2>2, SubSeqProperties, Zenon
<1>7. SubSeq(c, n + 1, Len(c)) \in Seq(0..255) /\ Len(SubSeq(c, n + 1, Len(c))) = h
  <2>1. \A k \in n + 1 .. Len(c) : c[k] \in 0..255
    BY <1>3, <1>5
  <2>2. /\ SubSeq(c, n + 1, Len(c)) \in Seq(0..255)
        /\ Len(SubSeq(c, n + 1, Len(c))) = IF n + 1 <= Len(c) THEN Len(c) - (n + 1) + 1 ELSE 0
    BY <1>3, <2>1, SubSeqProperties
  <2>3. (IF n + 1 <= Len(c) THEN Len(c) - (n + 1) + 1 ELSE 0) = h
    BY <1>2, <1>3
  <2> QED
    BY <2>2, <2>3
<1>8. SubSeq(c, 1, n) \o SubSeq(c, n + 1, Len(c)) = c
  <2>1. 1 \in 1 .. Len(c) + 1 /\ n \in 1 - 1 .. Len(c) /\ Len(c) \in n .. Len(c)
    BY <1>3
  <2>2. SubSeq(c, 1, n) \o SubSeq(c, n + 1, Len(c)) = SubSeq(c, 1, Len(c))
    BY <2>1, ConcatAdjacentSubSeq
  <2> QED
    BY <2>2, SubSeqFull
<1>9. received \o bytes \in Seq(0..255) /\ fed \o SubSeq(c, 1, n) \in Seq(0..255)
  BY <1>6, Joined DEF StreamTypeOK
<1> QED
  BY <1>1, <1>2, <1>4, <1>6, <1>7, <1>8, <1>9 DEF StreamTypeOK

(* A step is a call of process on some bytes.                               *)
LEMMA NextGives == Next => \E bytes \in Seq(0..255) : process(bytes)
<1> SUFFICES ASSUME Next PROVE \E bytes \in Seq(0..255) : process(bytes)
  OBVIOUS
<1>1. PICK n \in 1..MaxChunk : \E bytes \in [1..n -> Bytes] : process(bytes)
  BY DEF Next
<1>2. PICK bytes \in [1..n -> Bytes] : process(bytes)
  BY <1>1
<1>3. MaxChunk \in Nat /\ Bytes \subseteq 0..255
  BY InputConstants
<1>4. n \in Nat /\ DOMAIN bytes = 1..n /\ bytes = [i \in 1..n |-> bytes[i]]
  BY <1>3
<1>5. \A i \in 1..n : bytes[i] \in 0..255
  BY <1>3
<1>6. bytes \in [1..n -> 0..255]
  BY <1>4, <1>5
<1>7. bytes \in Seq(0..255)
  BY <1>4, <1>6
<1> QED
  BY <1>2, <1>7

(* Nothing has been received at the beginning.                              *)
LEMMA InitStream ==
  ASSUME Init
  PROVE  StreamTypeOK /\ ChunkingInvisible /\ fed = <<>> /\ seq_state = "Ground"
<1>1. received = <<>> /\ fed = <<>> /\ pending_utf8 = <<>> /\ seq_state = "Ground"
  BY DEF Init
<1>2. <<>> \in Seq(0..255) /\ Len(<<>>) = 0 /\ <<>> \o <<>> = <<>>
  OBVIOUS
<1>3. incomplete_utf8_suffix_len(<<>>) \in 0..0
  BY <1>2, HeldType
<1>4. incomplete_utf8_suffix_len(<<>>) = 0
  BY <1>3
<1> QED
  BY <1>1, <1>2, <1>4 DEF StreamTypeOK, ChunkingInvisible

(* One more chunk: what was held back stands for all that came before it.   *)
LEMMA ChunkingStep ==
  StreamTypeOK /\ ChunkingInvisible /\ [Next]_vars => StreamTypeOK' /\ ChunkingInvisible'
<1> SUFFICES ASSUME StreamTypeOK, ChunkingInvisible, [Next]_vars
             PROVE  StreamTypeOK' /\ ChunkingInvisible'
  OBVIOUS
<1>1. ASSUME NEW bytes \in Seq(0..255), process(bytes) PROVE StreamTypeOK' /\ ChunkingInvisible'
  <2>1. PICK more \in Seq(0..255) :
           /\ StreamTypeOK' /\ received' = received \o bytes
           /\ fed' = fed \o more
           /\ more \o pending_utf8' = pending_utf8 \o bytes
           /\ Len(pending_utf8') = incomplete_utf8_suffix_len(pending_utf8 \o bytes)
    BY <1>1, ProcessSplits
  <2>2. received' = fed' \o pending_utf8'
    <3>1. received' = (fed \o pending_utf8) \o bytes
      BY <2>1 DEF ChunkingInvisible
    <3>2. (fed \o pending_utf8) \o bytes = fed \o (pending_utf8 \o bytes)
      BY ConcatAssociative DEF StreamTypeOK
    <3>3. (fed \o more) \o pending_utf8' = fed \o (more \o pending_utf8')
      <4>1. fed \in Seq(0..255) /\ pending_utf8' \in Seq(0..255)
        BY <2>1 DEF StreamTypeOK
      <4> QED
        BY <4>1, ConcatAssociative
    <3> QED
      BY <2>1, <3>1, <3>2, <3>3
  <2>3. Held(received, fed, pending_utf8)
    BY DEF Held, ChunkingInvisible
  <2>4. incomplete_utf8_suffix_len(received \o bytes) = incomplete_utf8_suffix_len(pending_utf8 \o bytes)
    BY <2>3, HeldExtends DEF StreamTypeOK
  <2> QED
    BY <2>1, <2>2, <2>4 DEF ChunkingInvisible
<1>2. CASE Next
  BY <1>1, <1>2, NextGives
<1>3. CASE UNCHANGED vars
  BY <1>3 DEF vars, StreamTypeOK, ChunkingInvisible
<1> QED
  BY <1>2, <1>3

(* At every moment the histories agree, and are bytes.                      *)
THEOREM StreamInvariant == Spec => [](StreamTypeOK /\ ChunkingInvisible)
<1>1. Init => StreamTypeOK /\ ChunkingInvisible
  BY InitStream
<1> QED
  BY <1>1, ChunkingStep, PTL DEF Spec

(* However read cuts the stream, and however long it is, process gives the  *)
(* parser and holds back what one call over all of it would.                *)
THEOREM ChunksInvisible == Spec => []ChunkingInvisible
<1> QED
  BY StreamInvariant, PTL
-----------------------------------------------------------------------------
(* The sequence state after the first n bytes of x, read off the bytes: the *)
(* last ESC, what aborts after it, the byte that says what kind of sequence *)
(* it is, and what ends one of that kind.                                   *)
LastEsc(x, n, e) == e \in 0..n /\ (e > 0 => x[e] = ESC) /\ \A i \in e + 1 .. n : x[i] # ESC
Aborted(x, n, e) == \E i \in e + 1 .. n : x[i] \in {CAN, SUB}
Kind(x, n, e, k) ==
  k \in e + 1 .. n /\ x[k] \in 32..126 /\ \A i \in e + 1 .. k - 1 : x[i] \notin 32..126

Ending(q) == CASE q = "EscapeIntermediate" -> 48..126
               [] q = "Csi"                -> 64..126
               [] q = "Osc"                -> {BEL}
               [] q = "Dcs"                -> {ST}
               [] OTHER                    -> {}
Over(x, n, k) ==
  AfterEsc(x[k]) = "Ground" \/ \E i \in k + 1 .. n : x[i] \in Ending(AfterEsc(x[k]))

Closed(x, n, e) == e = 0 \/ Aborted(x, n, e) \/ \E k : Kind(x, n, e, k) /\ Over(x, n, k)
Begun(x, n, e) == e > 0 /\ ~Aborted(x, n, e) /\ \A i \in e + 1 .. n : x[i] \notin 32..126
Inside(x, n, e, q) ==
  /\ e > 0 /\ ~Aborted(x, n, e)
  /\ \E k : Kind(x, n, e, k) /\ ~Over(x, n, k) /\ q = AfterEsc(x[k])

StateAt(x, n, q) ==
  \E e : /\ LastEsc(x, n, e)
         /\ \/ q = "Ground" /\ Closed(x, n, e)
            \/ q = "Escape" /\ Begun(x, n, e)
            \/ Inside(x, n, e, q)

(* What a byte does to a state, where the tracker does more than keep it.   *)
LEMMA AdvanceCases ==
  ASSUME NEW b
  PROVE  /\ AfterEsc(b) \in SeqState \ {"Escape"}
         /\ \A q \in SeqState : advance(q, b) \in SeqState
         /\ \A q \in SeqState : b = ESC => advance(q, b) = "Escape"
         /\ b # ESC => advance("Ground", b) = "Ground"
         /\ \A q \in SeqState : b \in {CAN, SUB} => advance(q, b) = "Ground"
         /\ b \notin {ESC, CAN, SUB} =>
              /\ advance("Escape", b) = IF b \in 32..126 THEN AfterEsc(b) ELSE "Escape"
              /\ \A q \in SeqState \ {"Ground", "Escape"} :
                   advance(q, b) = IF b \in Ending(q) THEN "Ground" ELSE q
<1>1. AfterEsc(b) \in SeqState \ {"Escape"}
  BY DEF AfterEsc, SeqState
<1> USE DEF advance, anywhere, SeqState, BEL, CAN, SUB, ESC, ST
<1>2. \A q \in SeqState : b = ESC => advance(q, b) = "Escape"
  OBVIOUS
<1>3. \A q \in SeqState : b \in {CAN, SUB} => advance(q, b) = "Ground"
  OBVIOUS
<1>4. b # ESC => advance("Ground", b) = "Ground"
  OBVIOUS
<1>5. b \notin {ESC, CAN, SUB} => advance("Escape", b) = IF b \in 32..126 THEN AfterEsc(b) ELSE "Escape"
  OBVIOUS
<1>6. ASSUME NEW q \in SeqState \ {"Ground", "Escape"}, b \notin {ESC, CAN, SUB}
      PROVE  advance(q, b) = IF b \in Ending(q) THEN "Ground" ELSE q
  <2>1. CASE q = "EscapeIntermediate"
    BY <1>6, <2>1 DEF Ending
  <2>2. CASE q = "Csi"
    BY <1>6, <2>2 DEF Ending
  <2>3. CASE q = "Osc"
    BY <1>6, <2>3 DEF Ending
  <2>4. CASE q = "Dcs"
    BY <1>6, <2>4 DEF Ending
  <2>5. CASE q = "SosPmApc"
    BY <1>6, <2>5 DEF Ending
  <2> QED
    BY <1>6, <2>1, <2>2, <2>3, <2>4, <2>5
<1>7. \A q \in SeqState : advance(q, b) \in SeqState
  <2> SUFFICES ASSUME NEW q \in SeqState PROVE advance(q, b) \in SeqState
    OBVIOUS
  <2>1. CASE b \in {ESC, CAN, SUB}
    BY <1>2, <1>3, <2>1
  <2>2. CASE b \notin {ESC, CAN, SUB} /\ q \notin {"Ground", "Escape"}
    BY <1>6, <2>2
  <2>3. CASE b \notin {ESC, CAN, SUB} /\ q \in {"Ground", "Escape"}
    BY <1>1, <1>4, <1>5, <2>3
  <2> QED
    BY <2>1, <2>2, <2>3
<1> QED
  BY <1>1, <1>2, <1>3, <1>4, <1>5, <1>6, <1>7

(* While no ESC comes, what is closed stays closed.                         *)
LEMMA GroundStays ==
  ASSUME NEW x, NEW n \in Nat, NEW m \in Nat, n <= m, StateAt(x, n, "Ground"),
         \A i \in n + 1 .. m : x[i] # ESC
  PROVE  StateAt(x, m, "Ground")
<1>1. PICK e : LastEsc(x, n, e) /\ (Closed(x, n, e) \/ Inside(x, n, e, "Ground"))
  BY DEF StateAt
<1>2. Closed(x, n, e)
  BY <1>1 DEF Inside, Over
<1>3. e \in 0..n /\ (e > 0 => x[e] = ESC) /\ \A i \in e + 1 .. n : x[i] # ESC
  BY <1>1 DEF LastEsc
<1>4. LastEsc(x, m, e)
  <2>1. \A i \in e + 1 .. m : i \in e + 1 .. n \/ i \in n + 1 .. m
    BY <1>3
  <2>2. e \in 0..m
    BY <1>3
  <2> QED
    BY <1>3, <2>1, <2>2 DEF LastEsc
<1>5. Aborted(x, n, e) => Aborted(x, m, e)
  <2>1. \A i \in e + 1 .. n : i \in e + 1 .. m
    BY <1>3
  <2> QED
    BY <2>1 DEF Aborted
<1>6. ASSUME NEW k, Kind(x, n, e, k), Over(x, n, k) PROVE Kind(x, m, e, k) /\ Over(x, m, k)
  <2>1. k \in e + 1 .. n
    BY <1>6 DEF Kind
  <2>2. k \in e + 1 .. m /\ \A i \in k + 1 .. n : i \in k + 1 .. m
    BY <1>3, <2>1
  <2> QED
    BY <1>6, <2>2 DEF Kind, Over
<1> QED
  BY <1>2, <1>4, <1>5, <1>6 DEF Closed, StateAt

(* One byte more: the bytes say what the tracker says.                      *)
LEMMA StateSteps ==
  ASSUME NEW x \in Seq(0..255), NEW n \in Nat, n < Len(x), NEW q \in SeqState, StateAt(x, n, q)
  PROVE  StateAt(x, n + 1, advance(q, x[n + 1]))
<1>0. n + 1 \in 1..Len(x) /\ n + 1 \in Nat /\ Len(x) \in Nat
  OBVIOUS
<1>1. PICK m, b : m = n + 1 /\ b = x[m] /\ m \in Nat /\ b \in 0..255
  <2>1. x[n + 1] \in 0..255
    BY <1>0, ElementOfSeq
  <2> QED
    BY <1>0, <2>1
<1>a. /\ b # ESC => advance("Ground", b) = "Ground"
      /\ b = ESC => advance(q, b) = "Escape"
      /\ b \in {CAN, SUB} => advance(q, b) = "Ground"
      /\ b \notin {ESC, CAN, SUB} =>
           /\ advance("Escape", b) = IF b \in 32..126 THEN AfterEsc(b) ELSE "Escape"
           /\ q \notin {"Ground", "Escape"} =>
                advance(q, b) = IF b \in Ending(q) THEN "Ground" ELSE q
  <2>1. /\ b # ESC => advance("Ground", b) = "Ground"
        /\ b = ESC => advance(q, b) = "Escape"
        /\ b \in {CAN, SUB} => advance(q, b) = "Ground"
    BY AdvanceCases
  <2>2. ASSUME b \notin {ESC, CAN, SUB}
        PROVE  advance("Escape", b) = IF b \in 32..126 THEN AfterEsc(b) ELSE "Escape"
    BY <2>2, AdvanceCases
  <2>3. ASSUME b \notin {ESC, CAN, SUB}, q \notin {"Ground", "Escape"}
        PROVE  advance(q, b) = IF b \in Ending(q) THEN "Ground" ELSE q
    <3>1. q \in SeqState \ {"Ground", "Escape"}
      BY <2>3
    <3> QED
      <4>1. \A p \in SeqState \ {"Ground", "Escape"} :
              advance(p, b) = IF b \in Ending(p) THEN "Ground" ELSE p
        BY <2>3, AdvanceCases
      <4> QED
        BY <3>1, <4>1
  <2> QED
    BY <2>1, <2>2, <2>3
<1>2. PICK e : /\ LastEsc(x, n, e)
               /\ \/ q = "Ground" /\ Closed(x, n, e)
                  \/ q = "Escape" /\ Begun(x, n, e)
                  \/ Inside(x, n, e, q)
  BY DEF StateAt
<1>3. e \in 0..n /\ (e > 0 => x[e] = ESC) /\ \A i \in e + 1 .. n : x[i] # ESC
  BY <1>2 DEF LastEsc
<1>4. CASE b = ESC
  <2>1. advance(q, b) = "Escape"
    BY <1>4, <1>a
  <2>2. m \in 0..m /\ m > 0 /\ m + 1 .. m = {}
    BY <1>1
  <2>3. LastEsc(x, m, m) /\ Begun(x, m, m)
    BY <1>1, <1>4, <2>2 DEF LastEsc, Begun, Aborted
  <2>4. StateAt(x, m, "Escape")
    BY <2>3 DEF StateAt
  <2> QED
    BY <1>1, <2>1, <2>4
<1>5. CASE b # ESC
  <2>0. /\ e + 1 .. m = (e + 1 .. n) \cup {m} /\ m \notin e + 1 .. n
        /\ e \in 0..m /\ m \in e + 1 .. m
    BY <1>1, <1>3
  <2>1. LastEsc(x, m, e)
    BY <1>1, <1>3, <1>5, <2>0 DEF LastEsc
  <2>2. Aborted(x, m, e) <=> Aborted(x, n, e) \/ b \in {CAN, SUB}
    BY <1>1, <2>0 DEF Aborted
  <2>3. ASSUME NEW k, Kind(x, n, e, k)
        PROVE  Kind(x, m, e, k) /\ (Over(x, m, k) <=> Over(x, n, k) \/ b \in Ending(AfterEsc(x[k])))
    <3>1. k \in e + 1 .. n
      BY <2>3 DEF Kind
    <3>2. k \in e + 1 .. m /\ k + 1 .. m = (k + 1 .. n) \cup {m}
      BY <1>1, <1>3, <3>1
    <3>3. Kind(x, m, e, k)
      BY <2>3, <3>2 DEF Kind
    <3> QED
      BY <1>1, <3>2, <3>3 DEF Over
  <2>4. CASE q = "Ground"
    <3>1. StateAt(x, m, "Ground")
      <4>1. n <= m /\ \A i \in n + 1 .. m : i = m
        BY <1>1
      <4> QED
        BY <1>1, <1>5, <2>4, <4>1, GroundStays
    <3> QED
      BY <1>1, <1>5, <2>4, <3>1, <1>a
  <2>5. CASE q # "Ground" /\ b \in {CAN, SUB}
    <3>1. StateAt(x, m, "Ground")
      BY <2>1, <2>2, <2>5 DEF StateAt, Closed
    <3> QED
      BY <1>1, <2>5, <3>1, <1>a
  <2>6. CASE q = "Escape" /\ b \notin {CAN, SUB}
    <3>1. Begun(x, n, e)
      <4>1. ~Inside(x, n, e, "Escape")
        <5> SUFFICES ASSUME NEW k, Kind(x, n, e, k) PROVE AfterEsc(x[k]) # "Escape"
          BY DEF Inside
        <5>1. AfterEsc(x[k]) \in SeqState \ {"Escape"}
          BY AdvanceCases
        <5> QED
          BY <5>1
      <4> QED
        BY <1>2, <2>6, <4>1
    <3>2. CASE b \notin 32..126
      <4>1. Begun(x, m, e)
        <5>1. e > 0 /\ ~Aborted(x, n, e) /\ \A i \in e + 1 .. n : x[i] \notin 32..126
          BY <3>1 DEF Begun
        <5>2. \A i \in e + 1 .. m : x[i] \notin 32..126
          <6>1. x[m] \notin 32..126
            BY <1>1, <3>2
          <6> QED
            BY <2>0, <5>1, <6>1
        <5> QED
          BY <2>2, <2>6, <5>1, <5>2 DEF Begun
      <4>2. advance(q, b) = "Escape"
        BY <1>5, <2>6, <3>2, <1>a
      <4>3. StateAt(x, m, "Escape")
        BY <2>1, <4>1 DEF StateAt
      <4> QED
        BY <1>1, <4>2, <4>3
    <3>3. CASE b \in 32..126
      <4>1. Kind(x, m, e, m)
        <5>1. e + 1 .. m - 1 = e + 1 .. n
          BY <1>1
        <5> QED
          BY <1>1, <2>0, <3>1, <3>3, <5>1 DEF Kind, Begun
      <4>2. m + 1 .. m = {}
        BY <1>1
      <4>3. Over(x, m, m) <=> AfterEsc(b) = "Ground"
        BY <1>1, <4>2 DEF Over
      <4>4. advance(q, b) = AfterEsc(b)
        BY <1>5, <2>6, <3>3, <1>a
      <4>5. AfterEsc(b) = "Ground" => Closed(x, m, e)
        BY <4>1, <4>3 DEF Closed
      <4>6. AfterEsc(b) # "Ground" => Inside(x, m, e, AfterEsc(b))
        BY <1>1, <2>2, <2>6, <3>1, <4>1, <4>3 DEF Inside, Begun
      <4>7. StateAt(x, m, AfterEsc(b))
        BY <2>1, <4>5, <4>6 DEF StateAt
      <4> QED
        BY <1>1, <4>4, <4>7
    <3> QED
      BY <3>2, <3>3
  <2>7. CASE q \notin {"Ground", "Escape"} /\ b \notin {CAN, SUB}
    <3>1. PICK k : Kind(x, n, e, k) /\ ~Over(x, n, k) /\ q = AfterEsc(x[k]) /\ e > 0 /\ ~Aborted(x, n, e)
      BY <1>2, <2>7 DEF Inside
    <3>2. Kind(x, m, e, k) /\ (Over(x, m, k) <=> b \in Ending(q))
      BY <2>3, <3>1
    <3>3. advance(q, b) = IF b \in Ending(q) THEN "Ground" ELSE q
      BY <1>5, <2>7, <1>a
    <3>4. CASE b \in Ending(q)
      <4>1. StateAt(x, m, "Ground")
        BY <2>1, <3>2, <3>4 DEF StateAt, Closed
      <4> QED
        BY <1>1, <3>3, <3>4, <4>1
    <3>5. CASE b \notin Ending(q)
      <4>1. Inside(x, m, e, q)
        BY <2>2, <2>7, <3>1, <3>2, <3>5 DEF Inside
      <4>2. StateAt(x, m, q)
        BY <2>1, <4>1 DEF StateAt
      <4> QED
        BY <1>1, <3>3, <3>5, <4>2
    <3> QED
      BY <3>4, <3>5
  <2> QED
    BY <2>4, <2>5, <2>6, <2>7
<1> QED
  BY <1>4, <1>5
-----------------------------------------------------------------------------
(* advance_bytes: what a turn of its loop returns, r standing for the turns *)
(* after it, and what it is for r to stand for all of them.                 *)
EscAt(bytes, i) == {k \in i..Len(bytes) : bytes[k] = ESC}
FirstEsc(bytes, i) == CHOOSE k \in EscAt(bytes, i) : \A m \in EscAt(bytes, i) : k <= m

Turn(r, bytes, st, i) ==
  IF i > Len(bytes) THEN st
  ELSE IF st # "Ground" THEN r[<<advance(st, bytes[i]), i + 1>>]
  ELSE IF EscAt(bytes, i) = {} THEN st
  ELSE r[<<"Escape", FirstEsc(bytes, i) + 1>>]

RunType(bytes) == [SeqState \X (1 .. Len(bytes) + 1) -> SeqState]
Runs(r, bytes) ==
  \A st \in SeqState, i \in 1 .. Len(bytes) + 1 : r[<<st, i>>] = Turn(r, bytes, st, i)

(* The scan at ground finds the first ESC.                                  *)
LEMMA FirstEscIs ==
  ASSUME NEW bytes \in Seq(0..255), NEW i \in 1 .. Len(bytes) + 1, EscAt(bytes, i) # {}
  PROVE  \E k \in i..Len(bytes) : /\ k = FirstEsc(bytes, i) /\ bytes[k] = ESC
                                  /\ \A m \in i .. k - 1 : bytes[m] # ESC
<1>0. Len(bytes) \in Nat
  OBVIOUS
<1>1. EscAt(bytes, i) \subseteq Nat
  BY <1>0 DEF EscAt
<1>2. \E k \in EscAt(bytes, i) : \A m \in EscAt(bytes, i) : k <= m
  BY <1>1, LeastNatural
<1>3. PICK k \in EscAt(bytes, i) : k = FirstEsc(bytes, i) /\ \A m \in EscAt(bytes, i) : k <= m
  BY <1>2 DEF FirstEsc
<1>4. k \in i..Len(bytes) /\ bytes[k] = ESC
  BY <1>3 DEF EscAt
<1>5. ASSUME NEW m \in i .. k - 1 PROVE bytes[m] # ESC
  <2>1. m \in i..Len(bytes) /\ ~(k <= m)
    BY <1>0, <1>4
  <2> QED
    BY <1>3, <2>1 DEF EscAt
<1> QED
  BY <1>3, <1>4, <1>5

(* A turn gives a state, and asks only about later positions.               *)
LEMMA TurnLooksAhead ==
  ASSUME NEW bytes \in Seq(0..255), NEW r \in RunType(bytes),
         NEW st \in SeqState, NEW i \in 1 .. Len(bytes) + 1
  PROVE  /\ Turn(r, bytes, st, i) \in SeqState
         /\ \A g : (\A p \in SeqState, j \in i + 1 .. Len(bytes) + 1 : g[<<p, j>>] = r[<<p, j>>])
                     => Turn(g, bytes, st, i) = Turn(r, bytes, st, i)
<1>0. Len(bytes) \in Nat /\ \A j \in i + 1 .. Len(bytes) + 1 : j \in 1 .. Len(bytes) + 1
  OBVIOUS
<1>1. \A p \in SeqState, j \in 1 .. Len(bytes) + 1 : r[<<p, j>>] \in SeqState
  BY DEF RunType
<1>2. CASE i > Len(bytes)
  BY <1>2 DEF Turn
<1>3. CASE ~(i > Len(bytes)) /\ st # "Ground"
  <2>1. i + 1 \in i + 1 .. Len(bytes) + 1
    BY <1>0, <1>3
  <2>2. PICK p \in SeqState : p = advance(st, bytes[i])
    BY AdvanceCases
  <2>3. \A g : Turn(g, bytes, st, i) = g[<<p, i + 1>>]
    BY <1>3, <2>2 DEF Turn
  <2> QED
    BY <1>0, <1>1, <2>1, <2>3
<1>4. CASE ~(i > Len(bytes)) /\ st = "Ground" /\ EscAt(bytes, i) = {}
  BY <1>4 DEF Turn
<1>5. CASE ~(i > Len(bytes)) /\ st = "Ground" /\ EscAt(bytes, i) # {}
  <2>1. PICK k \in i..Len(bytes) : k = FirstEsc(bytes, i)
    BY <1>5, FirstEscIs
  <2>2. k + 1 \in i + 1 .. Len(bytes) + 1
    BY <1>0, <2>1
  <2>3. \A g : Turn(g, bytes, st, i) = g[<<"Escape", k + 1>>]
    BY <1>5, <2>1 DEF Turn
  <2>4. "Escape" \in SeqState
    BY DEF SeqState
  <2> QED
    BY <1>0, <1>1, <2>2, <2>3, <2>4
<1> QED
  BY <1>2, <1>3, <1>4, <1>5
(* So there is one: else take the longest end of the text that has one, and *)
(* define it for one position more.                                         *)
LEMMA RunExists ==
  ASSUME NEW bytes \in Seq(0..255) PROVE \E r \in RunType(bytes) : Runs(r, bytes)
<1> DEFINE N == Len(bytes) + 1
           Fits(r, i) == \A st \in SeqState : r[<<st, i>>] = Turn(r, bytes, st, i)
           P(k) == \E r \in RunType(bytes) : \A i \in (N - k) + 1 .. N : Fits(r, i)
           T == {k \in 0..N : ~P(k)}
<1>0. N \in Nat /\ N > 0
  OBVIOUS
<1>a. RunType(bytes) = [SeqState \X (1..N) -> SeqState]
  BY DEF RunType
<1>b. ASSUME NEW r \in RunType(bytes), NEW st \in SeqState, NEW i \in 1..N
      PROVE  /\ Turn(r, bytes, st, i) \in SeqState
             /\ \A g : (\A p \in SeqState, j \in i + 1 .. N : g[<<p, j>>] = r[<<p, j>>])
                         => Turn(g, bytes, st, i) = Turn(r, bytes, st, i)
  BY TurnLooksAhead
<1> HIDE DEF N
<1>2. P(0)
  <2>1. [c \in SeqState \X (1..N) |-> "Ground"] \in RunType(bytes)
    BY <1>a DEF SeqState
  <2>2. (N - 0) + 1 .. N = {}
    BY <1>0
  <2> QED
    BY <2>1, <2>2
<1>3. ASSUME NEW k \in 0..N, k < N, P(k) PROVE P(k + 1)
  <2>1. PICK r \in RunType(bytes) : \A i \in (N - k) + 1 .. N : Fits(r, i)
    BY <1>3
  <2>2. PICK j \in 1..N : j = N - k
    BY <1>0, <1>3
  <2> DEFINE g == [c \in SeqState \X (1..N) |-> IF c[2] = j THEN Turn(r, bytes, c[1], j) ELSE r[c]]
  <2>3. g \in RunType(bytes)
    <3>1. ASSUME NEW c \in SeqState \X (1..N)
          PROVE  (IF c[2] = j THEN Turn(r, bytes, c[1], j) ELSE r[c]) \in SeqState
      BY <1>a, <1>b
    <3> QED
      BY <1>a, <3>1
  <2>4. /\ \A p \in SeqState : g[<<p, j>>] = Turn(r, bytes, p, j)
        /\ \A p \in SeqState, i \in j + 1 .. N : g[<<p, i>>] = r[<<p, i>>]
    <3>1. \A i \in j + 1 .. N : i \in 1..N /\ i # j
      OBVIOUS
    <3> QED
      BY <3>1
  <2> HIDE DEF g
  <2>5. ASSUME NEW i \in j..N PROVE Fits(g, i)
    <3> SUFFICES ASSUME NEW st \in SeqState PROVE g[<<st, i>>] = Turn(g, bytes, st, i)
      OBVIOUS
    <3>1. i \in 1..N /\ \A h \in i + 1 .. N : h \in j + 1 .. N
      OBVIOUS
    <3>2. Turn(g, bytes, st, i) = Turn(r, bytes, st, i)
      BY <1>b, <2>4, <3>1
    <3>3. CASE i = j
      BY <2>4, <3>2, <3>3
    <3>4. CASE i # j
      <4>1. i \in j + 1 .. N /\ i \in (N - k) + 1 .. N
        BY <2>2, <3>4
      <4> QED
        BY <2>1, <2>4, <3>2, <4>1
    <3> QED
      BY <3>3, <3>4
  <2>6. (N - (k + 1)) + 1 .. N = j..N
    BY <1>0, <2>2
  <2> QED
    BY <2>3, <2>5, <2>6
<1>4. T = {}
  <2> SUFFICES ASSUME T # {} PROVE FALSE
    OBVIOUS
  <2>1. T \subseteq Nat
    BY <1>0
  <2>2. PICK k \in T : \A m \in T : k <= m
    BY <2>1, LeastNatural
  <2> HIDE DEF P
  <2>3. k # 0 /\ k \in 0..N
    BY <1>2, <2>2
  <2>4. k - 1 \in 0..N /\ k - 1 < N /\ ~(k <= k - 1) /\ (k - 1) + 1 = k
    BY <1>0, <2>3
  <2>5. P(k - 1)
    BY <2>2, <2>4
  <2>6. P((k - 1) + 1)
    BY <1>3, <2>4, <2>5
  <2> QED
    BY <2>2, <2>4, <2>6
<1>5. P(N)
  <2> HIDE DEF P
  <2> QED
    BY <1>0, <1>4
<1>6. (N - N) + 1 .. N = 1..N
  BY <1>0
<1> QED
  BY <1>5, <1>6 DEF Runs, N

(* advance_bytes is what such a function gives from the first byte on.      *)
LEMMA RunMeets ==
  ASSUME NEW bytes \in Seq(0..255)
  PROVE  \E r : Runs(r, bytes) /\ \A q \in SeqState : advance_bytes(q, bytes) = r[<<q, 1>>]
<1> DEFINE Turns(r) == [c \in SeqState \X (1 .. Len(bytes) + 1) |-> Turn(r, bytes, c[1], c[2])]
           run == CHOOSE r : r = Turns(r)
<1>1. ASSUME NEW q PROVE advance_bytes(q, bytes) = run[<<q, 1>>]
  BY DEF advance_bytes, Turn, EscAt, FirstEsc
<1>2. PICK g \in RunType(bytes) : Runs(g, bytes)
  BY RunExists
<1> HIDE DEF Turn
<1>3. g = Turns(g)
  <2>1. g = [c \in SeqState \X (1 .. Len(bytes) + 1) |-> g[c]]
    BY DEF RunType
  <2>2. \A c \in SeqState \X (1 .. Len(bytes) + 1) : g[c] = Turn(g, bytes, c[1], c[2])
    <3> SUFFICES ASSUME NEW st \in SeqState, NEW i \in 1 .. Len(bytes) + 1
                 PROVE  g[<<st, i>>] = Turn(g, bytes, st, i)
      OBVIOUS
    <3> QED
      BY <1>2 DEF Runs
  <2> QED
    BY <2>1, <2>2
<1>4. run = Turns(run)
  BY <1>3
<1> HIDE DEF run
<1>5. Runs(run, bytes)
  <2>1. \A st \in SeqState, i \in 1 .. Len(bytes) + 1 : run[<<st, i>>] = Turn(run, bytes, st, i)
    BY <1>4
  <2> QED
    BY <2>1 DEF Runs
<1> QED
  BY <1>1, <1>5
(* What follows position m does not matter to the state there.              *)
LEMMA StateExtends ==
  ASSUME NEW s, NEW x, NEW m \in Nat, NEW q, StateAt(s, m, q), \A i \in 1..m : x[i] = s[i]
  PROVE  StateAt(x, m, q)
<1>1. PICK e : /\ LastEsc(s, m, e)
               /\ \/ q = "Ground" /\ Closed(s, m, e)
                  \/ q = "Escape" /\ Begun(s, m, e)
                  \/ Inside(s, m, e, q)
  BY DEF StateAt
<1>2. e \in 0..m
  BY <1>1 DEF LastEsc
<1>3. \A i \in e + 1 .. m : i \in 1..m /\ x[i] = s[i]
  BY <1>2
<1>4. LastEsc(x, m, e)
  <2>1. e > 0 => x[e] = s[e]
    BY <1>2
  <2> QED
    BY <1>1, <1>3, <2>1 DEF LastEsc
<1>5. Aborted(x, m, e) <=> Aborted(s, m, e)
  BY <1>3 DEF Aborted
<1>6. ASSUME NEW k, Kind(s, m, e, k)
      PROVE  Kind(x, m, e, k) /\ x[k] = s[k] /\ (Over(x, m, k) <=> Over(s, m, k))
  <2>1. k \in e + 1 .. m /\ s[k] \in 32..126 /\ \A i \in e + 1 .. k - 1 : s[i] \notin 32..126
    BY <1>6 DEF Kind
  <2>2. /\ \A i \in e + 1 .. k - 1 : i \in e + 1 .. m
        /\ \A i \in k + 1 .. m : i \in e + 1 .. m
    BY <1>2, <2>1
  <2>3. x[k] = s[k]
    BY <1>3, <2>1
  <2>4. Kind(x, m, e, k)
    BY <1>3, <2>1, <2>2, <2>3 DEF Kind
  <2>5. \A i \in k + 1 .. m : x[i] = s[i]
    BY <1>3, <2>2
  <2> QED
    BY <2>3, <2>4, <2>5 DEF Over
<1>7. CASE q = "Ground" /\ Closed(s, m, e)
  <2>1. Closed(x, m, e)
    BY <1>5, <1>6, <1>7 DEF Closed
  <2> QED
    BY <1>4, <1>7, <2>1 DEF StateAt
<1>8. CASE q = "Escape" /\ Begun(s, m, e)
  <2>1. Begun(x, m, e)
    BY <1>3, <1>5, <1>8 DEF Begun
  <2> QED
    BY <1>4, <1>8, <2>1 DEF StateAt
<1>9. CASE Inside(s, m, e, q)
  <2>1. Inside(x, m, e, q)
    BY <1>5, <1>6, <1>9 DEF Inside
  <2> QED
    BY <1>4, <2>1 DEF StateAt
<1> QED
  BY <1>1, <1>7, <1>8, <1>9

(* The tracker's loop: after advance_bytes the state is again what the      *)
(* bytes say, although at ground the loop passes over them to the next ESC. *)
LEMMA BytesState ==
  ASSUME NEW s \in Seq(0..255), NEW bytes \in Seq(0..255), NEW q \in SeqState,
         StateAt(s, Len(s), q)
  PROVE  /\ advance_bytes(q, bytes) \in SeqState
         /\ StateAt(s \o bytes, Len(s \o bytes), advance_bytes(q, bytes))
<1> DEFINE n == Len(bytes)
<1>1. PICK x \in Seq(0..255), m \in Nat :
        /\ x = s \o bytes /\ m = Len(s) /\ Len(x) = m + n
        /\ \A i \in 1..m : x[i] = s[i]
        /\ \A i \in 1..n : x[m + i] = bytes[i]
  <2>1. s \o bytes \in Seq(0..255) /\ Len(s) \in Nat /\ n \in Nat
    BY Joined
  <2>2. Len(s \o bytes) = Len(s) + n /\ \A i \in 1..Len(s) : (s \o bytes)[i] = s[i]
    BY Joined
  <2>3. ASSUME NEW i \in 1..n PROVE (s \o bytes)[Len(s) + i] = bytes[i]
    BY Joined
  <2> HIDE DEF n
  <2> QED
    BY <2>1, <2>2, <2>3
<1>2. PICK r : Runs(r, bytes) /\ advance_bytes(q, bytes) = r[<<q, 1>>]
  BY RunMeets
<1>0. n \in Nat
  OBVIOUS
<1> DEFINE At(i, st) == StateAt(x, m + i - 1, st)
           C(i) == \A st \in SeqState : At(i, st) =>
                     r[<<st, i>>] \in SeqState /\ At(n + 1, r[<<st, i>>])
           T == {d \in 0..n : ~C((n + 1) - d)}
<1>3. ASSUME NEW i \in 1 .. n + 1, NEW st \in SeqState
      PROVE  r[<<st, i>>] = Turn(r, bytes, st, i)
  BY <1>2, <1>3 DEF Runs
<1>4. ASSUME NEW i \in 1..n, NEW st \in SeqState, At(i, st)
      PROVE  advance(st, bytes[i]) \in SeqState /\ At(i + 1, advance(st, bytes[i]))
  <2>1. PICK h \in Nat : h = m + i - 1 /\ h + 1 = m + i /\ h < Len(x) /\ (m + (i + 1)) - 1 = h + 1
    <3>1. /\ m + i - 1 \in Nat /\ (m + i - 1) + 1 = m + i
          /\ m + i - 1 < Len(x) /\ (m + (i + 1)) - 1 = (m + i - 1) + 1
      BY <1>0, <1>1
    <3> QED
      BY <3>1
  <2>2. x[h + 1] = bytes[i]
    BY <1>1, <2>1
  <2>3. StateAt(x, h, st)
    BY <1>4, <2>1
  <2>4. StateAt(x, h + 1, advance(st, x[h + 1]))
    BY <2>1, <2>3, StateSteps
  <2>5. PICK p \in SeqState : p = advance(st, bytes[i])
    BY AdvanceCases
  <2>6. StateAt(x, (m + (i + 1)) - 1, p)
    BY <2>1, <2>2, <2>4, <2>5
  <2> QED
    BY <2>5, <2>6
<1>5. ASSUME NEW i \in 1 .. n + 1, NEW k \in i .. n + 1, At(i, "Ground"),
             \A j \in i .. k - 1 : bytes[j] # ESC
      PROVE  At(k, "Ground")
  <2>1. PICK a, b : a \in Nat /\ b \in Nat /\ a = m + i - 1 /\ b = m + k - 1 /\ a <= b
    <3>1. m + i - 1 \in Nat /\ m + k - 1 \in Nat /\ m + i - 1 <= m + k - 1
      BY <1>0, <1>1
    <3> QED
      BY <3>1
  <2>2. ASSUME NEW j \in a + 1 .. b PROVE x[j] # ESC
    <3>1. PICK h : h \in i .. k - 1 /\ h \in 1..n /\ j = m + h
      <4>1. j - m \in i .. k - 1 /\ j - m \in 1..n /\ j = m + (j - m)
        BY <1>0, <1>1, <2>1
      <4> QED
        BY <4>1
    <3> QED
      BY <1>1, <1>5, <3>1
  <2>3. StateAt(x, a, "Ground")
    BY <1>5, <2>1
  <2>4. StateAt(x, b, "Ground")
    BY <2>1, <2>2, <2>3, GroundStays
  <2> QED
    BY <2>1, <2>4
<1> HIDE DEF At, n
<1>6. ASSUME NEW i \in 1 .. n + 1, \A j \in i + 1 .. n + 1 : C(j) PROVE C(i)
  <2> SUFFICES ASSUME NEW st \in SeqState, At(i, st)
               PROVE  r[<<st, i>>] \in SeqState /\ At(n + 1, r[<<st, i>>])
    OBVIOUS
  <2>0. "Ground" \in SeqState /\ "Escape" \in SeqState
    BY DEF SeqState
  <2>1. CASE i > n
    <3>1. i = n + 1
      BY <1>0, <2>1
    <3>2. r[<<st, i>>] = st
      BY <1>3, <2>1 DEF Turn, n
    <3> QED
      BY <3>1, <3>2
  <2>2. CASE ~(i > n) /\ st # "Ground"
    <3>1. r[<<st, i>>] = r[<<advance(st, bytes[i]), i + 1>>]
      BY <1>3, <2>2 DEF Turn, n
    <3>2. i \in 1..n /\ i + 1 \in i + 1 .. n + 1
      BY <1>0, <2>2
    <3>3. PICK p \in SeqState : p = advance(st, bytes[i]) /\ At(i + 1, p)
      BY <1>4, <3>2
    <3>4. r[<<p, i + 1>>] \in SeqState /\ At(n + 1, r[<<p, i + 1>>])
      BY <1>6, <3>2, <3>3
    <3> QED
      BY <3>1, <3>3, <3>4
  <2>3. CASE ~(i > n) /\ st = "Ground" /\ EscAt(bytes, i) = {}
    <3>1. r[<<st, i>>] = st
      BY <1>3, <2>3 DEF Turn, n
    <3>2. \A j \in i .. (n + 1) - 1 : bytes[j] # ESC
      <4>1. (n + 1) - 1 = n
        BY <1>0
      <4> QED
        BY <2>3, <4>1 DEF EscAt, n
    <3>3. n + 1 \in i .. n + 1
      BY <1>0
    <3> QED
      BY <1>5, <2>3, <3>1, <3>2, <3>3
  <2>4. CASE ~(i > n) /\ st = "Ground" /\ EscAt(bytes, i) # {}
    <3>1. PICK k \in i..n : /\ k = FirstEsc(bytes, i) /\ bytes[k] = ESC
                            /\ \A j \in i .. k - 1 : bytes[j] # ESC
      BY <2>4, FirstEscIs DEF n
    <3>2. r[<<st, i>>] = r[<<"Escape", k + 1>>]
      BY <1>3, <2>4, <3>1 DEF Turn, n
    <3>3. k \in 1..n /\ k \in i .. n + 1 /\ k + 1 \in i + 1 .. n + 1
      BY <1>0, <3>1
    <3>4. At(k, "Ground")
      BY <1>5, <2>4, <3>1, <3>3
    <3>5. At(k + 1, advance("Ground", bytes[k]))
      BY <1>4, <2>0, <3>3, <3>4
    <3>6. advance("Ground", bytes[k]) = "Escape"
      BY <2>0, <3>1, AdvanceCases
    <3>7. At(k + 1, "Escape")
      BY <3>5, <3>6
    <3>8. r[<<"Escape", k + 1>>] \in SeqState /\ At(n + 1, r[<<"Escape", k + 1>>])
      BY <1>6, <2>0, <3>3, <3>7
    <3> QED
      BY <3>2, <3>8
  <2> QED
    BY <2>1, <2>2, <2>3, <2>4
<1> HIDE DEF C
<1>7. T = {}
  <2> SUFFICES ASSUME T # {} PROVE FALSE
    OBVIOUS
  <2>1. T \subseteq Nat
    BY <1>0
  <2>2. PICK d \in T : \A y \in T : d <= y
    BY <2>1, LeastNatural
  <2>3. PICK i \in 1 .. n + 1 : i = (n + 1) - d /\ ~C(i) /\ d \in 0..n
    <3>1. d \in 0..n /\ (n + 1) - d \in 1 .. n + 1
      BY <1>0
    <3> QED
      BY <3>1
  <2>4. ASSUME NEW j \in i + 1 .. n + 1 PROVE C(j)
    <3>1. (n + 1) - j \in 0..n /\ (n + 1) - ((n + 1) - j) = j /\ ~(d <= (n + 1) - j)
      BY <1>0, <2>3
    <3> QED
      BY <2>2, <3>1
  <2> QED
    BY <1>6, <2>3, <2>4
<1>8. C(1)
  <2>1. n \in 0..n /\ (n + 1) - n = 1
    BY <1>0
  <2> QED
    BY <1>7, <2>1
<1>9. At(1, q)
  <2>1. StateAt(x, m, q)
    BY <1>1, StateExtends
  <2>2. m + 1 - 1 = m
    BY <1>1
  <2> QED
    BY <2>1, <2>2 DEF At
<1>10. advance_bytes(q, bytes) \in SeqState /\ At(n + 1, advance_bytes(q, bytes))
  BY <1>2, <1>8, <1>9 DEF C
<1>11. m + (n + 1) - 1 = Len(x)
  BY <1>0, <1>1 DEF n
<1> QED
  BY <1>1, <1>10, <1>11 DEF At
-----------------------------------------------------------------------------
(* OpenSequence, in the words of StateAt.                                   *)
Since(s, a) == SubSeq(s, a + 1, Len(s))
Has(t, S) == Range(t) \cap S # {}
Escs(s) == {i \in 1..Len(s) : s[i] = ESC}
Prints(t) == {i \in 1..Len(t) : t[i] \in 32..126}
EscOf(s) == IF Escs(s) # {} THEN Max(Escs(s)) ELSE 0
PrintOf(t) == IF Prints(t) # {} THEN Min(Prints(t)) ELSE 0

Unended(t, k) ==
  CASE t[k] \in 32 .. 47     -> ~Has(Since(t, k), 48 .. 126)
    [] t[k] = 91             -> ~Has(Since(t, k), 64 .. 126)
    [] t[k] = 93             -> ~Has(Since(t, k), {BEL})
    [] t[k] = 80             -> ~Has(Since(t, k), {ST})
    [] t[k] \in {88, 94, 95} -> TRUE
    [] OTHER                 -> FALSE
Opens(t, k) == ~Has(t, {CAN, SUB}) /\ (k > 0 => Unended(t, k))

(* Its parts have these names.                                              *)
LEMMA OpenUnfolds ==
  ASSUME NEW s
  PROVE  OpenSequence(s) <=>
           EscOf(s) > 0 /\ Opens(Since(s, EscOf(s)), PrintOf(Since(s, EscOf(s))))
BY DEF OpenSequence, SelectInSeq, SelectLastInSeq, EscOf, PrintOf, Escs, Prints, Since, Has,
       Opens, Unended

(* The last ESC is the last ESC.                                            *)
LEMMA EscIs == ASSUME NEW s \in Seq(0..255) PROVE LastEsc(s, Len(s), EscOf(s))
<1>0. Len(s) \in Nat
  OBVIOUS
<1>1. CASE Escs(s) = {}
  <2>1. EscOf(s) = 0
    BY <1>1 DEF EscOf
  <2>2. \A i \in 0 + 1 .. Len(s) : s[i] # ESC
    BY <1>1 DEF Escs
  <2>3. LastEsc(s, Len(s), 0)
    BY <1>0, <2>2 DEF LastEsc
  <2> QED
    BY <2>1, <2>3
<1>2. CASE Escs(s) # {}
  <2>1. Escs(s) \subseteq 1..Len(s)
    BY DEF Escs
  <2>2. PICK m : m = EscOf(s) /\ m \in Escs(s) /\ \A y \in Escs(s) : y <= m
    BY <1>0, <1>2, <2>1, MaxIs DEF EscOf
  <2>3. m \in 1..Len(s) /\ s[m] = ESC
    BY <2>2 DEF Escs
  <2>4. ASSUME NEW i \in m + 1 .. Len(s) PROVE s[i] # ESC
    <3>1. i \in 1..Len(s) /\ ~(i <= m)
      BY <1>0, <2>3
    <3> QED
      BY <2>2, <3>1 DEF Escs
  <2>5. LastEsc(s, Len(s), m)
    BY <1>0, <2>3, <2>4 DEF LastEsc
  <2> QED
    BY <2>2, <2>5
<1> QED
  BY <1>1, <1>2

(* The first printing byte is the first printing byte.                      *)
LEMMA PrintIs ==
  ASSUME NEW t \in Seq(0..255)
  PROVE  \/ PrintOf(t) = 0 /\ \A i \in 1..Len(t) : t[i] \notin 32..126
         \/ \E k \in 1..Len(t) : /\ PrintOf(t) = k /\ t[k] \in 32..126
                                 /\ \A i \in 1 .. k - 1 : t[i] \notin 32..126
<1>0. Len(t) \in Nat
  OBVIOUS
<1>1. CASE Prints(t) = {}
  BY <1>1 DEF PrintOf, Prints
<1>2. CASE Prints(t) # {}
  <2>1. Prints(t) \subseteq Nat
    BY <1>0 DEF Prints
  <2>2. \E k \in Prints(t) : \A y \in Prints(t) : k <= y
    BY <1>2, <2>1, LeastNatural
  <2>3. PICK k \in Prints(t) : k = PrintOf(t) /\ \A y \in Prints(t) : k <= y
    BY <1>2, <2>2 DEF PrintOf, Min
  <2>4. k \in 1..Len(t) /\ t[k] \in 32..126
    BY <2>3 DEF Prints
  <2>5. ASSUME NEW i \in 1 .. k - 1 PROVE t[i] \notin 32..126
    <3>1. i \in 1..Len(t) /\ ~(k <= i)
      BY <1>0, <2>4
    <3> QED
      BY <2>3, <3>1 DEF Prints
  <2> QED
    BY <2>3, <2>4, <2>5
<1> QED
  BY <1>1, <1>2

(* A byte of the rest is a byte of the whole, after the cut.                *)
LEMMA HasIs ==
  ASSUME NEW s \in Seq(0..255), NEW a \in 0..Len(s), NEW S
  PROVE  Has(Since(s, a), S) <=> \E i \in a + 1 .. Len(s) : s[i] \in S
<1>0. Len(s) \in Nat
  OBVIOUS
<1>1. PICK t \in Seq(0..255) : /\ t = Since(s, a) /\ Len(t) = Len(s) - a
                               /\ \A k \in 1..Len(t) : t[k] = s[a + k]
  BY SuffixIs DEF Since
<1>2. Range(t) = {t[k] : k \in 1..Len(t)}
  BY DEF Range
<1>3. \A k \in 1..Len(t) : a + k \in a + 1 .. Len(s)
  BY <1>0, <1>1
<1>4. ASSUME NEW i \in a + 1 .. Len(s) PROVE \E k \in 1..Len(t) : s[i] = t[k]
  <2>1. i - a \in 1..Len(t) /\ a + (i - a) = i
    BY <1>0, <1>1
  <2> QED
    BY <1>1, <2>1
<1>5. Has(t, S) <=> \E k \in 1..Len(t) : t[k] \in S
  BY <1>2 DEF Has
<1>6. (\E k \in 1..Len(t) : t[k] \in S) <=> \E i \in a + 1 .. Len(s) : s[i] \in S
  BY <1>1, <1>3, <1>4
<1> QED
  BY <1>1, <1>5, <1>6

(* An intermediate byte begins an escape sequence of its own kind.          *)
LEMMA Intermediates == ASSUME NEW b \in 32..47 PROVE AfterEsc(b) = "EscapeIntermediate"
BY DEF AfterEsc

(* What kind of sequence it is says what ends it.                           *)
LEMMA UnendedIs ==
  ASSUME NEW t \in Seq(0..255), NEW k \in 1..Len(t)
  PROVE  Unended(t, k) <=> ~Over(t, Len(t), k)
<1>0. k \in 0..Len(t) /\ t[k] \in 0..255
  BY ElementOfSeq
<1>1. \A S : Has(Since(t, k), S) <=> \E i \in k + 1 .. Len(t) : t[i] \in S
  BY <1>0, HasIs
<1>2. CASE t[k] \in 32..47
  <2>0. ASSUME NEW b \in 32..47
        PROVE  b # 91 /\ b # 93 /\ b # 80 /\ b \notin {88, 94, 95}
    OBVIOUS
  <2>1. AfterEsc(t[k]) = "EscapeIntermediate" /\ Ending("EscapeIntermediate") = 48..126
    <3>1. Ending("EscapeIntermediate") = 48..126
      BY DEF Ending
    <3> QED
      BY <1>2, <3>1, Intermediates
  <2>2. Unended(t, k) <=> ~Has(Since(t, k), 48..126)
    <3>1. t[k] # 91 /\ t[k] # 93 /\ t[k] # 80 /\ t[k] \notin {88, 94, 95}
      BY <1>2, <2>0
    <3> QED
      BY <1>2, <3>1, Zenon DEF Unended
  <2> QED
    BY <1>1, <2>1, <2>2 DEF Over
<1>3. CASE t[k] = 91
  <2>1. AfterEsc(t[k]) = "Csi" /\ Ending("Csi") = 64..126
    BY <1>3 DEF AfterEsc, Ending
  <2>2. Unended(t, k) <=> ~Has(Since(t, k), 64..126)
    BY <1>3 DEF Unended
  <2> QED
    BY <1>1, <2>1, <2>2 DEF Over
<1>4. CASE t[k] = 93
  <2>1. AfterEsc(t[k]) = "Osc" /\ Ending("Osc") = {BEL}
    BY <1>4 DEF AfterEsc, Ending
  <2>2. Unended(t, k) <=> ~Has(Since(t, k), {BEL})
    BY <1>4 DEF Unended
  <2> QED
    BY <1>1, <2>1, <2>2 DEF Over
<1>5. CASE t[k] = 80
  <2>1. AfterEsc(t[k]) = "Dcs" /\ Ending("Dcs") = {ST}
    BY <1>5 DEF AfterEsc, Ending
  <2>2. Unended(t, k) <=> ~Has(Since(t, k), {ST})
    BY <1>5 DEF Unended
  <2> QED
    BY <1>1, <2>1, <2>2 DEF Over
<1>6. CASE t[k] \in {88, 94, 95}
  <2>1. AfterEsc(t[k]) = "SosPmApc" /\ Ending("SosPmApc") = {}
    BY <1>6 DEF AfterEsc, Ending
  <2>2. Unended(t, k)
    BY <1>6 DEF Unended
  <2> QED
    BY <2>1, <2>2 DEF Over
<1>7. CASE t[k] \notin 32..47 /\ t[k] \notin {91, 93, 80, 88, 94, 95}
  <2>1. AfterEsc(t[k]) = "Ground"
    BY <1>7 DEF AfterEsc
  <2>2. ~Unended(t, k)
    BY <1>7 DEF Unended
  <2> QED
    BY <2>1, <2>2 DEF Over
<1> QED
  BY <1>2, <1>3, <1>4, <1>5, <1>6, <1>7

(* What ends it in the rest ends it in the whole.                           *)
LEMMA OverShifts ==
  ASSUME NEW s \in Seq(0..255), NEW a \in 0..Len(s), NEW k \in 1 .. Len(s) - a
  PROVE  Over(Since(s, a), Len(Since(s, a)), k) <=> Over(s, Len(s), a + k)
<1>0. Len(s) \in Nat
  OBVIOUS
<1>1. PICK t \in Seq(0..255) : /\ t = Since(s, a) /\ Len(t) = Len(s) - a
                               /\ \A i \in 1..Len(t) : t[i] = s[a + i]
  BY SuffixIs DEF Since
<1>2. t[k] = s[a + k]
  BY <1>1
<1>3. \A i \in k + 1 .. Len(t) : a + i \in (a + k) + 1 .. Len(s) /\ t[i] = s[a + i]
  BY <1>0, <1>1
<1>4. ASSUME NEW j \in (a + k) + 1 .. Len(s) PROVE \E i \in k + 1 .. Len(t) : s[j] = t[i]
  <2>1. j - a \in k + 1 .. Len(t) /\ a + (j - a) = j
    BY <1>0, <1>1
  <2> QED
    BY <1>3, <2>1
<1>5. \A S : (\E i \in k + 1 .. Len(t) : t[i] \in S) <=> \E j \in (a + k) + 1 .. Len(s) : s[j] \in S
  BY <1>3, <1>4
<1> QED
  BY <1>1, <1>2, <1>5 DEF Over
(* There is one last ESC.                                                   *)
LEMMA LastEscOne ==
  ASSUME NEW s, NEW n \in Nat, NEW e, NEW d, LastEsc(s, n, e) /\ LastEsc(s, n, d)
  PROVE  e = d
<1>1. /\ e \in 0..n /\ (e > 0 => s[e] = ESC) /\ \A i \in e + 1 .. n : s[i] # ESC
      /\ d \in 0..n /\ (d > 0 => s[d] = ESC) /\ \A i \in d + 1 .. n : s[i] # ESC
  BY DEF LastEsc
<1>2. CASE e < d
  <2>1. d \in e + 1 .. n /\ d > 0
    BY <1>1, <1>2
  <2> QED
    BY <1>1, <2>1
<1>3. CASE d < e
  <2>1. e \in d + 1 .. n /\ e > 0
    BY <1>1, <1>3
  <2> QED
    BY <1>1, <2>1
<1> QED
  BY <1>1, <1>2, <1>3

(* One byte says what kind of sequence it is: the first printing one.       *)
LEMMA KindIs ==
  ASSUME NEW s \in Seq(0..255), NEW e \in 0..Len(s), NEW K
  PROVE  LET p == PrintOf(Since(s, e)) IN
         /\ p \in 0 .. Len(s) - e
         /\ p = 0 => \A i \in e + 1 .. Len(s) : s[i] \notin 32..126
         /\ Kind(s, Len(s), e, K) <=> p > 0 /\ K = e + p
<1>0. Len(s) \in Nat
  OBVIOUS
<1>1. PICK t \in Seq(0..255) : /\ t = Since(s, e) /\ Len(t) = Len(s) - e
                               /\ \A i \in 1..Len(t) : t[i] = s[e + i]
  BY SuffixIs DEF Since
<1>2. ASSUME NEW i \in e + 1 .. Len(s) PROVE \E j \in 1..Len(t) : i = e + j /\ s[i] = t[j]
  <2>1. i - e \in 1..Len(t) /\ i = e + (i - e)
    BY <1>0, <1>1
  <2> QED
    BY <1>1, <2>1
<1>3. CASE PrintOf(t) = 0 /\ \A i \in 1..Len(t) : t[i] \notin 32..126
  <2>1. \A i \in e + 1 .. Len(s) : s[i] \notin 32..126
    BY <1>2, <1>3
  <2>2. ~Kind(s, Len(s), e, K)
    BY <2>1 DEF Kind
  <2>3. 0 \in 0 .. Len(s) - e
    BY <1>0
  <2> QED
    BY <1>1, <1>3, <2>1, <2>2, <2>3
<1>4. ASSUME NEW k \in 1..Len(t), PrintOf(t) = k, t[k] \in 32..126,
             \A i \in 1 .. k - 1 : t[i] \notin 32..126
      PROVE  /\ k \in 0 .. Len(s) - e /\ k > 0
             /\ Kind(s, Len(s), e, K) <=> K = e + k
  <2>1. PICK h : h = e + k /\ h \in e + 1 .. Len(s) /\ h \in Nat
    <3>1. e + k \in e + 1 .. Len(s) /\ e + k \in Nat
      BY <1>0, <1>1
    <3> QED
      BY <3>1
  <2>2. s[h] \in 32..126
    BY <1>1, <1>4, <2>1
  <2>3. ASSUME NEW i \in e + 1 .. h - 1 PROVE s[i] \notin 32..126
    <3>1. i \in e + 1 .. Len(s)
      BY <1>0, <2>1
    <3>2. PICK j \in 1..Len(t) : i = e + j /\ s[i] = t[j]
      BY <1>2, <3>1
    <3>3. j \in 1 .. k - 1
      BY <1>0, <1>1, <2>1, <3>2
    <3> QED
      BY <1>4, <3>2, <3>3
  <2>4. Kind(s, Len(s), e, h)
    BY <2>1, <2>2, <2>3 DEF Kind
  <2>5. ASSUME Kind(s, Len(s), e, K) PROVE K = h
    <3>1. K \in e + 1 .. Len(s) /\ s[K] \in 32..126 /\ \A i \in e + 1 .. K - 1 : s[i] \notin 32..126
      BY <2>5 DEF Kind
    <3>2. CASE K < h
      <4>1. K \in e + 1 .. h - 1
        BY <2>1, <3>1, <3>2
      <4> QED
        BY <2>3, <3>1, <4>1
    <3>3. CASE h < K
      <4>1. h \in e + 1 .. K - 1
        BY <2>1, <3>1, <3>3
      <4> QED
        BY <2>2, <3>1, <4>1
    <3> QED
      BY <2>1, <3>1, <3>2, <3>3
  <2>6. k \in 0 .. Len(s) - e /\ k > 0
    BY <1>0, <1>1
  <2> QED
    BY <2>1, <2>4, <2>5, <2>6
<1>5. \/ PrintOf(t) = 0 /\ \A i \in 1..Len(t) : t[i] \notin 32..126
      \/ \E k \in 1..Len(t) : /\ PrintOf(t) = k /\ t[k] \in 32..126
                              /\ \A i \in 1 .. k - 1 : t[i] \notin 32..126
  BY PrintIs
<1>6. CASE \E k \in 1..Len(t) : /\ PrintOf(t) = k /\ t[k] \in 32..126
                                /\ \A i \in 1 .. k - 1 : t[i] \notin 32..126
  <2>1. PICK k \in 1..Len(t) : /\ PrintOf(t) = k /\ t[k] \in 32..126
                               /\ \A i \in 1 .. k - 1 : t[i] \notin 32..126
    BY <1>6
  <2>2. /\ k \in 0 .. Len(s) - e /\ k > 0
        /\ Kind(s, Len(s), e, K) <=> K = e + k
    BY <1>4, <2>1
  <2>3. k # 0
    BY <2>2
  <2> QED
    BY <1>1, <2>1, <2>2, <2>3
<1> QED
  BY <1>3, <1>5, <1>6

(* The state the bytes say is a sequence's exactly when they leave one open. *)
LEMMA OpenIs ==
  ASSUME NEW s \in Seq(0..255), NEW q, StateAt(s, Len(s), q)
  PROVE  q # "Ground" <=> OpenSequence(s)
<1>0. Len(s) \in Nat
  OBVIOUS
<1>1. PICK e : /\ LastEsc(s, Len(s), e)
               /\ \/ q = "Ground" /\ Closed(s, Len(s), e)
                  \/ q = "Escape" /\ Begun(s, Len(s), e)
                  \/ Inside(s, Len(s), e, q)
  BY DEF StateAt
<1>2. e = EscOf(s) /\ e \in 0..Len(s)
  BY <1>0, <1>1, EscIs, LastEscOne DEF LastEsc
<1>3. PICK p : p = PrintOf(Since(s, e))
  OBVIOUS
<1>4. /\ p \in 0 .. Len(s) - e
      /\ p = 0 => \A i \in e + 1 .. Len(s) : s[i] \notin 32..126
      /\ \A K : Kind(s, Len(s), e, K) <=> p > 0 /\ K = e + p
  BY <1>2, <1>3, KindIs
<1>5. Aborted(s, Len(s), e) <=> Has(Since(s, e), {CAN, SUB})
  BY <1>2, HasIs DEF Aborted
<1>6. p > 0 => (Unended(Since(s, e), p) <=> ~Over(s, Len(s), e + p))
  <2> SUFFICES ASSUME p > 0 PROVE Unended(Since(s, e), p) <=> ~Over(s, Len(s), e + p)
    OBVIOUS
  <2>1. Since(s, e) \in Seq(0..255) /\ Len(Since(s, e)) = Len(s) - e
    BY <1>2, SuffixIs DEF Since
  <2>2. p \in 1 .. Len(s) - e
    BY <1>0, <1>2, <1>4
  <2>3. Unended(Since(s, e), p) <=> ~Over(Since(s, e), Len(Since(s, e)), p)
    BY <2>1, <2>2, UnendedIs
  <2>4. Over(Since(s, e), Len(Since(s, e)), p) <=> Over(s, Len(s), e + p)
    BY <1>2, <2>2, OverShifts
  <2> QED
    BY <2>3, <2>4
<1>7. OpenSequence(s) <=>
        e > 0 /\ ~Aborted(s, Len(s), e) /\ (p > 0 => ~Over(s, Len(s), e + p))
  BY <1>2, <1>3, <1>5, <1>6, OpenUnfolds DEF Opens
<1>8. CASE q = "Ground" /\ Closed(s, Len(s), e)
  BY <1>2, <1>4, <1>7, <1>8 DEF Closed
<1>9. CASE q = "Escape" /\ Begun(s, Len(s), e)
  <2>1. e > 0 /\ ~Aborted(s, Len(s), e) /\ \A i \in e + 1 .. Len(s) : s[i] \notin 32..126
    BY <1>9 DEF Begun
  <2>2. ~Kind(s, Len(s), e, e + p)
    BY <2>1 DEF Kind
  <2> QED
    BY <1>4, <1>7, <1>9, <2>1, <2>2
<1>10. CASE Inside(s, Len(s), e, q)
  <2>1. PICK K : /\ e > 0 /\ ~Aborted(s, Len(s), e)
                 /\ Kind(s, Len(s), e, K) /\ ~Over(s, Len(s), K) /\ q = AfterEsc(s[K])
    BY <1>10 DEF Inside
  <2>2. q # "Ground"
    BY <2>1 DEF Over
  <2> QED
    BY <1>4, <1>7, <2>1, <2>2
<1> QED
  BY <1>1, <1>8, <1>9, <1>10

(* The tracker's state is a state, and the one the bytes given to the       *)
(* parser say.                                                              *)
TracksInv == StreamTypeOK /\ seq_state \in SeqState /\ StateAt(fed, Len(fed), seq_state)

(* A chunk takes the tracker along.                                         *)
LEMMA TracksStep == TracksInv /\ [Next]_vars => TracksInv'
<1> SUFFICES ASSUME TracksInv, [Next]_vars PROVE TracksInv'
  OBVIOUS
<1>0. StreamTypeOK /\ seq_state \in SeqState /\ StateAt(fed, Len(fed), seq_state) /\ fed \in Seq(0..255)
  BY DEF TracksInv, StreamTypeOK
<1>1. ASSUME NEW bytes \in Seq(0..255), process(bytes) PROVE TracksInv'
  <2>1. PICK more \in Seq(0..255) :
          StreamTypeOK' /\ fed' = fed \o more /\ seq_state' = advance_bytes(seq_state, more)
    BY <1>0, <1>1, ProcessSplits
  <2>2. /\ advance_bytes(seq_state, more) \in SeqState
        /\ StateAt(fed \o more, Len(fed \o more), advance_bytes(seq_state, more))
    BY <1>0, BytesState
  <2> QED
    BY <2>1, <2>2 DEF TracksInv
<1>2. CASE Next
  BY <1>1, <1>2, NextGives
<1>3. CASE UNCHANGED vars
  BY <1>3 DEF vars, TracksInv, StreamTypeOK
<1> QED
  BY <1>2, <1>3

(* At every moment the tracker's state is what the bytes say.               *)
THEOREM TracksInvariant == Spec => []TracksInv
<1>1. Init => TracksInv
  <2> SUFFICES ASSUME Init PROVE TracksInv
    OBVIOUS
  <2>1. fed = <<>> /\ seq_state = "Ground" /\ StreamTypeOK
    BY InitStream
  <2>2. LastEsc(<<>>, 0, 0) /\ Closed(<<>>, 0, 0)
    <3>1. 0 \in 0..0 /\ 0 + 1 .. 0 = {}
      OBVIOUS
    <3> QED
      BY <3>1 DEF LastEsc, Closed
  <2>3. StateAt(<<>>, 0, "Ground") /\ Len(<<>>) = 0 /\ "Ground" \in SeqState
    BY <2>2 DEF StateAt, SeqState
  <2> QED
    BY <2>1, <2>3 DEF TracksInv
<1> QED
  BY <1>1, TracksStep, PTL DEF Spec

(* Although the tracker passes over what it meets at ground, and however    *)
(* the stream is cut, mid_sequence is false exactly when all that came has  *)
(* reached the parser and leaves no sequence open.                          *)
THEOREM MidSequenceHonest == Spec => []MidSequenceTruthful
<1>1. TracksInv => MidSequenceTruthful
  <2> SUFFICES ASSUME TracksInv PROVE MidSequenceTruthful
    OBVIOUS
  <2>1. seq_state # "Ground" <=> OpenSequence(fed)
    BY OpenIs DEF TracksInv, StreamTypeOK
  <2> QED
    BY <2>1 DEF MidSequenceTruthful, mid_sequence, is_ground
<1> QED
  BY <1>1, TracksInvariant, PTL
=============================================================================
