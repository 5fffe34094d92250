-------------------------- MODULE ProcessesProofs --------------------------
(***************************************************************************)
(* What piped children may rely on, for any number of handles, pids and    *)
(* spawns: only the holder of the spawn lock has a pipe end that a child   *)
(* could inherit, a handle that knows its child's status has no pid to     *)
(* signal, and a path search reports what execvp in the child reports.     *)
(***************************************************************************)
EXTENDS Processes, WellFoundedInduction, TLAPS

(* Where a handle holds TRANSPORT_SPAWN_LOCK.                               *)
Spawning == {"check", "wire", "cloexec", "spawn"}

(* What the kernel and a handle say of a child.                             *)
ChildTypeOK ==
  /\ proc \in [Handles -> {"none", "running", "zombie", "reaped"}]
  /\ exit \in [Handles -> {"none", "signal", "code"}]
  /\ done \in [Handles -> {"none", "signal", "code"}]
  /\ last \in [Handles -> {"none", "running", "signal", "code"}]

(* The values a handle's state takes.                                       *)
HandleTypeOK ==
  /\ pc \in [Handles -> Spawning \cup {"idle", "live", "wait", "failed"}]
  /\ slot \in [Handles -> Nat]
  /\ inherited \in [Handles -> SUBSET Pipes]
  /\ ChildTypeOK

(* The lock is held by the one handle that is spawning.                     *)
LockInv == \A h \in Handles : lock = h <=> pc[h] \in Spawning

(* A slot is one of the three until the last is wired, and a pipe end is    *)
(* inheritable only between pipe and fcntl.                                 *)
PipeInv ==
  /\ \A h \in Handles : pc[h] \in {"idle", "check", "wire", "cloexec"} => slot[h] \in Slots
  /\ \A x \in exposed : \E h \in Handles : pc[h] = "cloexec" /\ x = <<h, slot[h]>>

(* What a handle knows of its child: a status is cached exactly when the    *)
(* child was reaped, and is the one it ended with.                          *)
ChildInv(h) ==
  /\ pc[h] \in {"live", "wait"} <=> proc[h] # "none"
  /\ done[h] # "none" <=> proc[h] = "reaped"
  /\ proc[h] \in {"zombie", "reaped"} => exit[h] # "none"
  /\ proc[h] \in {"none", "running"} => last[h] \in {"none", "running"}
  /\ last[h] \in {"none", "running", exit[h]} /\ done[h] \in {"none", exit[h]}

ProcessInv ==
  HandleTypeOK /\ LockInv /\ PipeInv /\ (\A h \in Handles : ChildInv(h))
  /\ NoStraySignal /\ NoInheritedEnds

-----------------------------------------------------------------------------
(* The steps of spawn_piped leave the child's handle alone, the steps of    *)
(* the handle leave the spawn alone.                                        *)
SpawnStep(h) ==
  lock_transport_spawn(h) \/ check(h) \/ wire(h) \/ cloexec_pipe(h) \/ spawn(h) \/ spawn_fails(h)

CallStep(h) ==
  try_wait(h) \/ wait(h) \/ wait_returns(h) \/ kill(h) \/ signal(h) \/ take_stdin(h) \/ drop_stdin(h)

(* What a step of spawn_piped does to the lock and the handle's progress.   *)
SpawnMoves(h) ==
  \/ lock = Nobody /\ lock' = h /\ pc[h] = "idle" /\ pc' = [pc EXCEPT ![h] = "check"]
  \/ lock' = lock /\ pc[h] \in Spawning
     /\ \E s \in {"wire", "cloexec", "spawn"} : pc' = [pc EXCEPT ![h] = s]
  \/ lock' = Nobody /\ pc[h] \in Spawning
     /\ \E s \in {"live", "failed"} : pc' = [pc EXCEPT ![h] = s]

(* Each of its actions is one of the three.                                 *)
LEMMA SpawnShapes == \A h \in Handles : SpawnStep(h) => SpawnMoves(h)
<1> SUFFICES ASSUME NEW h \in Handles, SpawnStep(h) PROVE SpawnMoves(h)
  OBVIOUS
<1> USE DEF SpawnMoves, Spawning
<1>1. ASSUME NEW r, Returns(h, r), pc[h] \in Spawning PROVE SpawnMoves(h)
  BY <1>1 DEF Returns
<1>2. CASE lock_transport_spawn(h)
  BY <1>2 DEF lock_transport_spawn
<1>3. CASE check(h)
  BY <1>1, <1>3 DEF check
<1>4. CASE wire(h)
  BY <1>4 DEF wire, Wired
<1>5. CASE cloexec_pipe(h)
  BY <1>5 DEF cloexec_pipe, Wired
<1>6. CASE spawn(h)
  BY <1>1, <1>6 DEF spawn
<1>7. CASE spawn_fails(h)
  BY <1>1, <1>7 DEF spawn_fails
<1> QED
  BY <1>2, <1>3, <1>4, <1>5, <1>6, <1>7 DEF SpawnStep

(* What a call on the handle does to them.                                  *)
LEMMA CallShapes ==
  \A h \in Handles : CallStep(h) =>
    /\ UNCHANGED <<lock, slot, exposed, inherited, params, result>>
    /\ \/ UNCHANGED pc
       \/ pc[h] = "live" /\ pc' = [pc EXCEPT ![h] = "wait"]
       \/ pc[h] = "wait" /\ pc' = [pc EXCEPT ![h] = "live"]
BY DEF CallStep, try_wait, wait, wait_returns, kill, signal, take_stdin, drop_stdin, HandleStep

(* Every step, as one of five.                                              *)
LEMMA StepCases ==
  ASSUME [Next]_vars
  PROVE  \/ \E h \in Handles : SpawnStep(h) \/ CallStep(h) \/ child_ends(h)
         \/ stranger
         \/ UNCHANGED vars
BY DEF Next, HandleNext, SpawnStep, CallStep, Finished

-----------------------------------------------------------------------------
(* The lock and the handles' progress.                                      *)
LEMMA LockKept ==
  ASSUME HandleTypeOK, LockInv, [Next]_vars
  PROVE  LockInv' /\ pc' \in [Handles -> Spawning \cup {"idle", "live", "wait", "failed"}]
<1> USE ProcessAssumption DEF HandleTypeOK, LockInv, Spawning
<1>1. ASSUME NEW h \in Handles, SpawnMoves(h)
      PROVE  LockInv' /\ pc' \in [Handles -> Spawning \cup {"idle", "live", "wait", "failed"}]
  BY <1>1 DEF SpawnMoves
<1>2. ASSUME NEW h \in Handles, CallStep(h)
      PROVE  LockInv' /\ pc' \in [Handles -> Spawning \cup {"idle", "live", "wait", "failed"}]
  BY <1>2, CallShapes
<1>3. CASE UNCHANGED <<lock, pc>>
  BY <1>3
<1> QED
  BY <1>1, <1>2, <1>3, SpawnShapes, StepCases DEF child_ends, stranger, vars, spawnVars

(* The pipe ends and what children inherit of them: the handle that spawns  *)
(* holds the lock, so no other is between pipe and fcntl.                   *)
LEMMA PipeKept ==
  ASSUME HandleTypeOK, LockInv, PipeInv, NoInheritedEnds, [Next]_vars
  PROVE  PipeInv' /\ NoInheritedEnds' /\ slot' \in [Handles -> Nat]
         /\ inherited' \in [Handles -> SUBSET Pipes]
<1> DEFINE Kept == PipeInv' /\ NoInheritedEnds' /\ slot' \in [Handles -> Nat]
                   /\ inherited' \in [Handles -> SUBSET Pipes]
<1> USE DEF HandleTypeOK, ChildTypeOK
<1>0. \A x \in exposed : lock \in Handles /\ pc[lock] = "cloexec" /\ x = <<lock, slot[lock]>>
  BY DEF LockInv, PipeInv, Spawning
<1>1. ASSUME NEW h \in Handles, lock_transport_spawn(h) PROVE Kept
  BY <1>1 DEF lock_transport_spawn, PipeInv, NoInheritedEnds, childVars
<1>2. ASSUME NEW h \in Handles, pc[h] \in Spawning, NEW r, Returns(h, r)
      PROVE  PipeInv' /\ slot' \in [Handles -> Nat] /\ exposed' = {}
  <2>1. lock = h
    BY <1>2 DEF LockInv
  <2>2. exposed' = {}
    BY <1>0, <1>2, <2>1 DEF Returns, PipeInv
  <2> QED
    BY <1>2, <2>2 DEF Returns, PipeInv
<1>3. ASSUME NEW h \in Handles, check(h) PROVE Kept
  <2>1. CASE Returns(h, SpawnChecks(params[h]))
    BY <1>2, <1>3, <2>1 DEF check, childVars, NoInheritedEnds, Spawning
  <2>2. CASE pc' = [pc EXCEPT ![h] = "wire"] /\ UNCHANGED <<slot, exposed>>
    BY <1>3, <2>2 DEF check, childVars, PipeInv, NoInheritedEnds
  <2> QED
    BY <1>3, <2>1, <2>2 DEF check
<1>4. ASSUME NEW h \in Handles, wire(h) PROVE Kept
  <2>0. lock = h /\ slot[h] \in Slots /\ exposed = {} /\ pc[h] = "wire"
    BY <1>0, <1>4 DEF wire, LockInv, PipeInv, Spawning
  <2>1. CASE exposed' = exposed \cup {<<h, slot[h]>>} /\ pc' = [pc EXCEPT ![h] = "cloexec"]
             /\ UNCHANGED slot
    BY <1>4, <2>0, <2>1 DEF wire, childVars, PipeInv, NoInheritedEnds
  <2>2. CASE Wired(h) /\ UNCHANGED exposed
    BY <1>4, <2>0, <2>2 DEF wire, Wired, childVars, PipeInv, NoInheritedEnds, Slots
  <2> QED
    BY <1>4, <2>1, <2>2 DEF wire
<1>5. ASSUME NEW h \in Handles, cloexec_pipe(h) PROVE Kept
  <2>0. lock = h /\ slot[h] \in Slots
    BY <1>5 DEF cloexec_pipe, LockInv, PipeInv, Spawning
  <2>1. exposed' = {}
    BY <1>0, <1>5, <2>0 DEF cloexec_pipe
  <2> QED
    BY <1>5, <2>0, <2>1 DEF cloexec_pipe, Wired, childVars, PipeInv, NoInheritedEnds, Slots
<1>6. ASSUME NEW h \in Handles, spawn(h) PROVE Kept
  <2>1. pc[h] \in Spawning /\ exposed = {}
    BY <1>0, <1>6 DEF spawn, LockInv, Spawning
  <2>2. PipeInv' /\ slot' \in [Handles -> Nat]
    BY <1>2, <1>6, <2>1 DEF spawn
  <2>3. UNCHANGED inherited \/ inherited' = [inherited EXCEPT ![h] = {}]
    BY <1>6, <2>1 DEF spawn, childVars
  <2> QED
    BY <2>2, <2>3 DEF NoInheritedEnds
<1>7. ASSUME NEW h \in Handles, spawn_fails(h) PROVE Kept
  BY <1>2, <1>7 DEF spawn_fails, childVars, NoInheritedEnds, Spawning
<1>8. ASSUME NEW h \in Handles, CallStep(h) PROVE Kept
  BY <1>8, CallShapes DEF PipeInv, NoInheritedEnds
<1>9. CASE UNCHANGED <<pc, slot, exposed, inherited>>
  BY <1>9 DEF PipeInv, NoInheritedEnds
<1> QED
  BY <1>1, <1>3, <1>4, <1>5, <1>6, <1>7, <1>8, <1>9, StepCases
     DEF SpawnStep, child_ends, stranger, vars, spawnVars, childVars

-----------------------------------------------------------------------------
(* A handle's step does not touch the others' children.                     *)
Others(h) ==
  \A k \in Handles \ {h} :
    /\ pc'[k] = pc[k] /\ proc'[k] = proc[k] /\ exit'[k] = exit[k]
    /\ done'[k] = done[k] /\ last'[k] = last[k]

(* waitpid: a zombie's status is cached and handed out, and a handle that   *)
(* has none cached never meets ECHILD.                                      *)
LEMMA ReapKnows ==
  ASSUME HandleTypeOK, NEW h \in Handles, ChildInv(h), pc[h] \in {"live", "wait"},
         pc'[h] \in {"live", "wait"}, UNCHANGED exit,
         IF done[h] # "none"
         THEN last' = [last EXCEPT ![h] = done[h]] /\ UNCHANGED <<proc, done>>
         ELSE Reap(h)
  PROVE  ChildTypeOK' /\ ChildInv(h)'
         /\ \A k \in Handles \ {h} : proc'[k] = proc[k] /\ done'[k] = done[k] /\ last'[k] = last[k]
<1> USE DEF HandleTypeOK, ChildInv, ChildTypeOK
<1>1. CASE done[h] # "none"
  BY <1>1
<1>2. CASE done[h] = "none" /\ proc[h] = "zombie"
  BY <1>2 DEF Reap
<1>3. CASE done[h] = "none" /\ proc[h] # "zombie"
  BY <1>3 DEF Reap
<1> QED
  BY <1>1, <1>2, <1>3

(* A signal goes to a child whose status is not cached: it is not reaped,   *)
(* its pid is its own.                                                      *)
LEMMA DeliverKnows ==
  ASSUME HandleTypeOK, NEW h \in Handles, ChildInv(h), NEW sig, pc[h] = "live",
         IF done[h] # "none" \/ sig = "unknown" THEN UNCHANGED <<exit, stray>> ELSE Deliver(h, sig),
         UNCHANGED <<pc, proc, done, last>>
  PROVE  ChildTypeOK' /\ ChildInv(h)' /\ Others(h) /\ UNCHANGED stray
<1> USE DEF HandleTypeOK, ChildInv, ChildTypeOK, Others
<1>1. CASE UNCHANGED <<exit, stray>>
  BY <1>1
<1>2. CASE done[h] = "none" /\ Deliver(h, sig)
  <2>1. proc[h] # "reaped"
    BY <1>2
  <2>2. UNCHANGED stray
    BY <1>2, <2>1 DEF Deliver
  <2>3. \/ UNCHANGED exit
        \/ proc[h] = "running" /\ exit' = [exit EXCEPT ![h] = "signal"]
    BY <1>2 DEF Deliver
  <2> QED
    BY <1>2, <2>2, <2>3
<1> QED
  BY <1>1, <1>2

(* A handle's step keeps what its handle knows.                             *)
LEMMA HandleKnows ==
  ASSUME HandleTypeOK, NEW h \in Handles, ChildInv(h), SpawnStep(h) \/ CallStep(h) \/ child_ends(h)
  PROVE  ChildTypeOK' /\ ChildInv(h)' /\ Others(h) /\ UNCHANGED stray
<1> USE DEF HandleTypeOK, ChildTypeOK
<1>1. ASSUME SpawnMoves(h), UNCHANGED <<childVars, done, last>>,
             pc'[h] # "live"
      PROVE  ChildTypeOK' /\ ChildInv(h)' /\ Others(h)
  BY <1>1 DEF SpawnMoves, ChildTypeOK, ChildInv, Others, childVars, Spawning
<1>2. CASE spawn(h)
  <2>1. CASE SpawnCall(params[h]) = "ok"
    <3>1. /\ proc' = [proc EXCEPT ![h] = "running"] /\ UNCHANGED <<exit, done, last, stray>>
          /\ pc' = [pc EXCEPT ![h] = "live"] /\ pc[h] = "spawn"
      BY <1>2, <2>1 DEF spawn, Returns
    <3> QED
      BY <3>1 DEF ChildTypeOK, ChildInv, Others
  <2>2. CASE SpawnCall(params[h]) # "ok"
    <3>1. pc' = [pc EXCEPT ![h] = "failed"] /\ UNCHANGED <<childVars, done, last, stray>>
          /\ pc[h] = "spawn"
      BY <1>2, <2>2 DEF spawn, Returns
    <3> QED
      BY <3>1 DEF ChildTypeOK, ChildInv, Others, childVars
  <2> QED
    BY <2>1, <2>2
<1>3. CASE SpawnStep(h) /\ ~spawn(h)
  <2>1. pc'[h] # "live" /\ UNCHANGED <<childVars, done, last, stray>>
    BY <1>3 DEF SpawnStep, lock_transport_spawn, check, wire, cloexec_pipe, spawn_fails, Returns, Wired
  <2> QED
    BY <1>1, <1>3, <2>1, SpawnShapes
<1>4. CASE try_wait(h)
  BY <1>4, ReapKnows DEF try_wait, Others
<1>5. CASE wait(h)
  BY <1>5 DEF wait, ChildTypeOK, ChildInv, Others
<1>6. CASE wait_returns(h)
  <2>1. pc[h] = "wait" /\ pc'[h] = "live" /\ UNCHANGED <<exit, stray>>
    BY <1>6 DEF wait_returns
  <2>2. \A k \in Handles \ {h} : pc'[k] = pc[k] /\ exit'[k] = exit[k]
    BY <1>6 DEF wait_returns
  <2>3. IF done[h] # "none"
        THEN last' = [last EXCEPT ![h] = done[h]] /\ UNCHANGED <<proc, done>>
        ELSE Reap(h)
    BY <1>6 DEF wait_returns
  <2> QED
    BY <2>1, <2>2, <2>3, ReapKnows DEF Others
<1>7. CASE kill(h)
  BY <1>7, DeliverKnows DEF kill
<1>8. CASE signal(h)
  <2>1. PICK sig \in Signals : IF done[h] # "none" \/ sig = "unknown" THEN UNCHANGED <<exit, stray>>
                               ELSE Deliver(h, sig)
    BY <1>8 DEF signal
  <2> QED
    BY <1>8, <2>1, DeliverKnows DEF signal
<1>9. CASE take_stdin(h) \/ drop_stdin(h)
  BY <1>9 DEF take_stdin, drop_stdin, ChildTypeOK, ChildInv, Others
<1>10. CASE child_ends(h)
  BY <1>10 DEF child_ends, spawnVars, ChildTypeOK, ChildInv, Others
<1> QED
  BY <1>2, <1>3, <1>4, <1>5, <1>6, <1>7, <1>8, <1>9, <1>10 DEF CallStep

(* Every step of the program keeps what every handle knows.                 *)
LEMMA ChildKept ==
  ASSUME HandleTypeOK, \A h \in Handles : ChildInv(h), NoStraySignal, [Next]_vars
  PROVE  ChildTypeOK' /\ (\A h \in Handles : ChildInv(h))' /\ NoStraySignal'
<1>1. ASSUME NEW h \in Handles, SpawnStep(h) \/ CallStep(h) \/ child_ends(h)
      PROVE  ChildTypeOK' /\ (\A k \in Handles : ChildInv(k))' /\ NoStraySignal'
  <2>1. ChildTypeOK' /\ ChildInv(h)' /\ Others(h) /\ UNCHANGED stray
    BY <1>1, HandleKnows
  <2>2. ASSUME NEW k \in Handles, k # h PROVE ChildInv(k)'
    BY <2>1, <2>2 DEF Others, ChildInv
  <2> QED
    BY <2>1, <2>2 DEF NoStraySignal
<1>2. CASE UNCHANGED <<pc, proc, exit, done, last, stray>>
  BY <1>2 DEF HandleTypeOK, ChildTypeOK, ChildInv, NoStraySignal
<1> QED
  BY <1>1, <1>2, StepCases DEF stranger, vars, spawnVars, childVars

-----------------------------------------------------------------------------
(* ProcessInv is inductive.                                                 *)
LEMMA ProcessStep == ProcessInv /\ [Next]_vars => ProcessInv'
BY LockKept, PipeKept, ChildKept DEF ProcessInv, HandleTypeOK, ChildTypeOK

(* For any number of handles, spawns and pids: the spawn lock, the          *)
(* inheritable descriptors and the cached statuses fit together.            *)
THEOREM ProcessInvariant == FairSpec => []ProcessInv
<1>1. Init => ProcessInv
  <2> SUFFICES ASSUME Init PROVE ProcessInv
    OBVIOUS
  <2>1. HandleTypeOK
    BY DEF Init, HandleTypeOK, ChildTypeOK, Pipes
  <2>2. LockInv
    BY ProcessAssumption DEF Init, LockInv, Spawning
  <2>3. PipeInv /\ NoInheritedEnds /\ NoStraySignal
    BY DEF Init, PipeInv, NoInheritedEnds, NoStraySignal, Slots
  <2>4. \A h \in Handles : ChildInv(h)
    BY DEF Init, ChildInv
  <2> QED
    BY <2>1, <2>2, <2>3, <2>4 DEF ProcessInv
<1> QED
  BY <1>1, ProcessStep, PTL DEF FairSpec

(* However the kernel uses its pids again: kill and signal never reach a    *)
(* process that is not the handle's own child (PipedChild::kill, signal).   *)
THEOREM SignalsReachTheChild == FairSpec => []NoStraySignal
BY ProcessInvariant, PTL DEF ProcessInv

(* In any order of wait, try_wait, kill and signal: a status once returned  *)
(* is the child's, and every later call gives it again (PipedChild::wait,   *)
(* try_wait).                                                               *)
THEOREM StatusesTruthful == FairSpec => []StatusTruthful
<1>1. ProcessInv => StatusTruthful
  BY DEF ProcessInv, ChildInv, StatusTruthful
<1> QED
  BY <1>1, ProcessInvariant, PTL

(* However many threads spawn at once, with or without pipe2: no child      *)
(* holds a parent end of any handle's pipe (TRANSPORT_SPAWN_LOCK,           *)
(* cloexec_pipe).                                                           *)
THEOREM NoEndsInherited == FairSpec => []NoInheritedEnds
BY ProcessInvariant, PTL DEF ProcessInv

-----------------------------------------------------------------------------
(* A set of naturals has a least element: induction over a path without an  *)
(* operator parameter.                                                      *)
LEMMA LeastNatural ==
  ASSUME NEW T, T \subseteq Nat, T # {}
  PROVE  \E x \in T : \A y \in T : x <= y
<1> DEFINE R == OpToRel(<, Nat)
<1>1. IsWellFoundedOn(R, Nat)
  BY NatLessThanWellFounded
<1>2. \A x \in Nat, y \in Nat : <<y, x>> \in R <=> y < x
  BY DEF OpToRel
<1> HIDE DEF R
<1>3. PICK x \in T : \A y \in T : <<y, x>> \notin R
  BY <1>1, WFMin
<1>4. \A y \in T : x \in Nat /\ y \in Nat /\ ~(y < x)
  BY <1>2, <1>3
<1>5. \A y \in T : x <= y
  BY <1>4
<1> QED
  BY <1>5

(* What a place of PATH holds, and the answer its first n places give.      *)
At(p, dir, i) == classify_candidate(Join(dir, path_var(p)[i]))
Best(p, dir, n) ==
  IF \E i \in 1..n : At(p, dir, i) = "Hit" THEN "ok"
  ELSE search_failed(\E i \in 1..n : At(p, dir, i) = "Poison")

(* One more place changes the answer as one more turn of the loop does.     *)
LEMMA BestExtends ==
  ASSUME NEW p, NEW dir, NEW n \in Nat, n > 0
  PROVE  Best(p, dir, n) = Tried(Best(p, dir, n - 1), At(p, dir, n))
<1>1. \A i \in 1..n : i \in 1..(n - 1) \/ i = n
  OBVIOUS
<1>2. (\A i \in 1..(n - 1) : i \in 1..n) /\ n \in 1..n
  OBVIOUS
<1>3. \A kind : (\E i \in 1..n : At(p, dir, i) = kind) <=>
                (\E i \in 1..(n - 1) : At(p, dir, i) = kind) \/ At(p, dir, n) = kind
  BY <1>1, <1>2
<1> QED
  BY <1>3 DEF Best, Tried, search_failed

(* The loop finds a program that runs wherever PATH has one, and otherwise  *)
(* remembers whether a candidate could not run.                             *)
LEMMA SearchFinds ==
  ASSUME NEW p, NEW dir, path_var(p) \in Seq(Path)
  PROVE  Search(p, dir) = Best(p, dir, Len(path_var(p)))
<1> DEFINE N == 0..Len(path_var(p))
           Turns(f) == [i \in N |-> IF i = 0 THEN search_failed(FALSE)
                                    ELSE Tried(f[i - 1], At(p, dir, i))]
           loop == CHOOSE f : f = Turns(f)
           answers == [i \in N |-> Best(p, dir, i)]
<1>0. Len(path_var(p)) \in Nat
  OBVIOUS
<1>1. Search(p, dir) = loop[Len(path_var(p))]
  BY DEF Search, At
<1>2. Best(p, dir, 0) = search_failed(FALSE)
  BY DEF Best
<1>3. answers = Turns(answers)
  <2>1. ASSUME NEW i \in N PROVE answers[i] = Turns(answers)[i]
    <3>1. CASE i = 0
      BY <1>0, <1>2, <3>1
    <3>2. CASE i # 0
      BY <1>0, <3>2, BestExtends
    <3> QED
      BY <3>1, <3>2
  <2> QED
    BY <2>1
<1>4. loop = Turns(loop)
  BY <1>3
<1> HIDE DEF loop
<1>5. \A i \in N : loop[i] = Best(p, dir, i)
  <2> DEFINE T == {i \in N : loop[i] # Best(p, dir, i)}
  <2> SUFFICES ASSUME T # {} PROVE FALSE
    OBVIOUS
  <2>1. T \subseteq Nat
    BY <1>0
  <2>2. PICK i \in T : \A j \in T : i <= j
    BY <2>1, LeastNatural
  <2>3. i # 0
    BY <1>0, <1>2, <1>4
  <2>4. i - 1 \in N /\ ~(i <= i - 1) /\ i \in Nat /\ i > 0
    BY <1>0, <2>1, <2>3
  <2>5. loop[i - 1] = Best(p, dir, i - 1)
    BY <2>2, <2>4
  <2>6. loop[i] = Tried(loop[i - 1], At(p, dir, i))
    BY <1>4, <2>3, <2>4
  <2> QED
    BY <2>4, <2>5, <2>6, BestExtends
<1> QED
  BY <1>0, <1>1, <1>5

(* The PATH a child gets is one, whatever the parent's and the overrides,   *)
(* and names at least one place.                                            *)
LEMMA PathIsPath ==
  ASSUME NEW p, p.env_path # NoPath => p.env_path \in PathList
  PROVE  path_var(p) \in Seq(Path) /\ Len(path_var(p)) \in Nat /\ Len(path_var(p)) > 0
<1>1. DEFAULT_CHILD_PATH \in PathList
  <2>1. ASSUME NEW S, NEW name \in S PROVE <<name>> \in Seq(S) /\ <<name>> # <<>>
    OBVIOUS
  <2>2. [absolute |-> TRUE, names |-> <<"bin">>] \in Path
    BY <2>1, ProcessAssumption DEF Path
  <2> QED
    BY <2>1, <2>2 DEF DEFAULT_CHILD_PATH, PathList
<1>2. path_var(p) \in PathList
  BY <1>1, ProcessAssumption DEF path_var, merged_env
<1>3. \A path \in PathList : path \in Seq(Path) /\ Len(path) \in Nat /\ Len(path) > 0
  BY DEF PathList
<1> QED
  BY <1>2, <1>3

(* What the code makes of a place, against what execve makes of it: they    *)
(* agree on what runs and on what exists and cannot, and what cannot be     *)
(* looked at is a miss that execve may call otherwise.                      *)
LEMMA PlaceFacts ==
  ASSUME NEW place
  PROVE  /\ classify_candidate(place) \in {"Hit", "Poison", "Miss"}
         /\ classify_candidate(place) = "Hit" <=> Execve(place) = "ok"
         /\ classify_candidate(place) = "Poison" => Execve(place) = "PermissionDenied"
         /\ classify_candidate(place) = "Miss" <=> Stat(KindAt(place)) # "ok"
         /\ classify_candidate(place) = "Miss" => Execve(place) = Stat(KindAt(place))
         /\ Execve(place) \in {"ok", "PermissionDenied", "NotADirectory", "NotFound"}
<1>1. KindAt(place) \in {"missing", "hidden", "under_file", "program", "unrunnable", "directory"}
  BY ProcessAssumption DEF KindAt, FileKind, Nowhere
<1>2. \A kind \in {"missing", "hidden", "under_file", "program", "unrunnable", "directory"} :
        /\ kind = "missing" => Stat(kind) = "NotFound"
        /\ kind = "hidden" => Stat(kind) = "PermissionDenied"
        /\ kind = "under_file" => Stat(kind) = "NotADirectory"
        /\ kind \in {"program", "unrunnable", "directory"} => Stat(kind) = "ok"
  BY DEF Stat
<1>3. /\ KindAt(place) = "program" => Execve(place) = "ok"
      /\ KindAt(place) \in {"unrunnable", "directory", "hidden"} => Execve(place) = "PermissionDenied"
      /\ KindAt(place) = "under_file" => Execve(place) = "NotADirectory"
      /\ KindAt(place) = "missing" => Execve(place) = "NotFound"
  BY DEF Execve
<1> QED
  BY <1>1, <1>2, <1>3 DEF classify_candidate

(* check_detached_cwd reports what chdir will.                              *)
LEMMA CwdIsChdir ==
  ASSUME NEW cwd \in DOMAIN Directories
  PROVE  check_detached_cwd(cwd) = Chdir(cwd)
<1>1. Directories[cwd] \in {"missing", "hidden", "under_file", "searchable", "locked", "file"}
  BY ProcessAssumption DEF DirectoryKind, Nowhere
<1> QED
  BY <1>1 DEF check_detached_cwd, Chdir, Stat

(* What a search reports is right or excused.                               *)
Excused(p, found) ==
  \/ found = Execvp(p)
  \/ /\ found = "NotFound" /\ Execvp(p) \in {"PermissionDenied", "NotADirectory"}
     /\ \A place \in Places(p) : Stat(KindAt(place)) # "ok"
     /\ \E place \in Places(p) : Stat(KindAt(place)) # "NotFound"

(* Where execvp looks, the search before the spawn has looked.              *)
LEMMA SearchIsExecvp ==
  ASSUME NEW p, path_var(p) \in Seq(Path), Len(path_var(p)) \in Nat, Len(path_var(p)) > 0,
         p.slash = NoPath
  PROVE  Excused(p, Search(p, ChildCwd(p)))
<1> DEFINE n == Len(path_var(p))
           place(i) == Join(ChildCwd(p), path_var(p)[i])
           tried(i) == Execve(place(i))
           found(i) == classify_candidate(place(i))
<1>1. DOMAIN path_var(p) = 1..n /\ n \in 1..n
  OBVIOUS
<1>2. Execvp(p) = IF \E i \in 1..n : tried(i) = "ok" THEN "ok"
                  ELSE IF \E i \in 1..n : tried(i) = "PermissionDenied" THEN "PermissionDenied"
                  ELSE tried(n)
  BY <1>1 DEF Execvp
<1>3. Places(p) = {place(i) : i \in 1..n}
  BY <1>1 DEF Places
<1>4. Search(p, ChildCwd(p)) = IF \E i \in 1..n : found(i) = "Hit" THEN "ok"
                               ELSE IF \E i \in 1..n : found(i) = "Poison" THEN "PermissionDenied"
                               ELSE "NotFound"
  BY SearchFinds DEF Best, At, search_failed
<1>5. \A i \in 1..n :
        /\ found(i) \in {"Hit", "Poison", "Miss"}
        /\ found(i) = "Hit" <=> tried(i) = "ok"
        /\ found(i) = "Poison" => tried(i) = "PermissionDenied"
        /\ found(i) = "Miss" <=> Stat(KindAt(place(i))) # "ok"
        /\ found(i) = "Miss" => tried(i) = Stat(KindAt(place(i)))
        /\ tried(i) \in {"ok", "PermissionDenied", "NotADirectory", "NotFound"}
  BY PlaceFacts
<1> HIDE DEF place, n
<1>6. CASE \E i \in 1..n : found(i) = "Hit"
  BY <1>2, <1>4, <1>5, <1>6 DEF Excused
<1>7. CASE (\A i \in 1..n : found(i) # "Hit") /\ (\E i \in 1..n : found(i) = "Poison")
  BY <1>2, <1>4, <1>5, <1>7 DEF Excused
<1>8. CASE \A i \in 1..n : found(i) = "Miss"
  <2>1. Search(p, ChildCwd(p)) = "NotFound"
    BY <1>4, <1>8
  <2>2. \A pl \in Places(p) : Stat(KindAt(pl)) # "ok"
    BY <1>3, <1>5, <1>8
  <2>3. \A i \in 1..n : tried(i) = Stat(KindAt(place(i))) /\ tried(i) # "ok"
    BY <1>5, <1>8
  <2>4. PICK i \in 1..n : Execvp(p) = tried(i)
    BY <1>1, <1>2, <2>3
  <2>5. CASE tried(i) = "NotFound"
    BY <2>1, <2>4, <2>5 DEF Excused
  <2>6. CASE tried(i) # "NotFound"
    <3>1. place(i) \in Places(p) /\ Stat(KindAt(place(i))) # "NotFound"
      BY <1>3, <2>3, <2>6
    <3>2. Execvp(p) \in {"PermissionDenied", "NotADirectory"}
      BY <1>5, <2>3, <2>4, <2>6
    <3> QED
      BY <2>1, <2>2, <3>1, <3>2 DEF Excused
  <2> QED
    BY <2>5, <2>6
<1> QED
  BY <1>5, <1>6, <1>7, <1>8

(* With a slash there is one place to look at.                              *)
LEMMA SlashIsExecvp ==
  ASSUME NEW p, p.slash # NoPath, p.cwd # NoPath
  PROVE  Excused(p, check_program_under_cwd(p))
<1> DEFINE place == Join(p.cwd, p.slash)
<1>1. Execvp(p) = Execve(place) /\ Places(p) = {place}
  BY DEF Execvp, Places, ChildCwd
<1>2. check_program_under_cwd(p) = IF classify_candidate(place) = "Hit" THEN "ok"
                                   ELSE search_failed(classify_candidate(place) = "Poison")
  BY DEF check_program_under_cwd
<1> HIDE DEF place
<1>3. CASE classify_candidate(place) = "Hit"
  BY <1>1, <1>2, <1>3, PlaceFacts DEF Excused
<1>4. CASE classify_candidate(place) = "Poison"
  BY <1>1, <1>2, <1>4, PlaceFacts DEF Excused, search_failed
<1>5. CASE classify_candidate(place) = "Miss"
  BY <1>1, <1>2, <1>5, PlaceFacts DEF Excused, search_failed
<1> QED
  BY <1>3, <1>4, <1>5, PlaceFacts

(* What a detached spawn may report.                                        *)
Right(p, r) ==
  p.detached /\ r \notin {"none", "io"} =>
    \/ r = Expected(p)
    \/ /\ r = "NotFound" /\ NotLookedUp(p)
       /\ Expected(p) \in {"PermissionDenied", "NotADirectory"}

(* A search that is excused is right, once the directory was entered.       *)
LEMMA ExcusedIsRight ==
  ASSUME NEW p, NEW r, p.valid, p.cwd = NoPath => p.slash = NoPath,
         p.cwd # NoPath => Chdir(p.cwd) = "ok", Excused(p, r)
  PROVE  Right(p, r) /\ (r = "ok" => Expected(p) = "ok")
<1>1. Expected(p) = Execvp(p)
  BY DEF Expected, DirectOutcome
<1> QED
  BY <1>1 DEF Right, NotLookedUp, Excused

(* A check that refuses gives execvp's error or is excused; one that passes *)
(* leaves the spawn call to find what execvp finds.                         *)
LEMMA ChecksAreExecvp ==
  ASSUME NEW p, p.valid \in BOOLEAN, p.detached \in BOOLEAN,
         p.env_path # NoPath => p.env_path \in PathList,
         p.cwd # NoPath => p.cwd \in DOMAIN Directories
  PROVE  /\ SpawnChecks(p) # "ok" => Right(p, SpawnChecks(p))
         /\ SpawnChecks(p) = "ok" => Right(p, SpawnCall(p))
<1>0. path_var(p) \in Seq(Path) /\ Len(path_var(p)) \in Nat /\ Len(path_var(p)) > 0
  BY PathIsPath
<1>1. CASE p.valid /\ p.detached /\ p.cwd = NoPath /\ p.slash = NoPath
  <2>1. SpawnChecks(p) = Search(p, ChildCwd(p)) /\ SpawnCall(p) = "ok"
    BY <1>1 DEF SpawnChecks, DetachedChecks, resolve_in_child_path, SpawnCall, ChildCwd
  <2>2. Excused(p, Search(p, ChildCwd(p)))
    BY <1>0, <1>1, SearchIsExecvp
  <2>3. Right(p, SpawnChecks(p)) /\ (SpawnChecks(p) = "ok" => Expected(p) = "ok")
    BY <1>1, <2>1, <2>2, ExcusedIsRight
  <2> QED
    BY <2>1, <2>3
<1>2. CASE p.valid /\ p.detached /\ p.cwd = NoPath /\ p.slash # NoPath
  <2>1. SpawnChecks(p) = "ok" /\ SpawnCall(p) = Expected(p)
    BY <1>2 DEF SpawnChecks, DetachedChecks, resolve_in_child_path, SpawnCall, ChildCwd,
       Expected, DirectOutcome, Execvp
  <2> QED
    BY <2>1 DEF Right
<1>3. CASE p.valid /\ p.detached /\ p.cwd # NoPath /\ Chdir(p.cwd) # "ok"
  <2>1. SpawnChecks(p) = Expected(p) /\ SpawnChecks(p) # "ok"
    BY <1>3, CwdIsChdir DEF SpawnChecks, DetachedChecks, Expected, DirectOutcome
  <2> QED
    BY <2>1 DEF Right
<1>4. CASE p.valid /\ p.detached /\ p.cwd # NoPath /\ Chdir(p.cwd) = "ok"
  <2>1. SpawnChecks(p) = check_program_under_cwd(p) /\ SpawnCall(p) = "ok" /\ ChildCwd(p) = p.cwd
    BY <1>4, CwdIsChdir DEF SpawnChecks, DetachedChecks, SpawnCall, ChildCwd
  <2>2. Excused(p, check_program_under_cwd(p))
    <3>1. CASE p.slash # NoPath
      BY <1>4, <3>1, SlashIsExecvp
    <3>2. CASE p.slash = NoPath
      BY <1>0, <2>1, <3>2, SearchIsExecvp DEF check_program_under_cwd
    <3> QED
      BY <3>1, <3>2
  <2>3. Right(p, SpawnChecks(p)) /\ (SpawnChecks(p) = "ok" => Expected(p) = "ok")
    BY <1>4, <2>1, <2>2, ExcusedIsRight
  <2> QED
    BY <2>1, <2>3
<1>5. CASE ~p.detached
  BY <1>5 DEF Right
<1>6. CASE ~p.valid
  BY <1>6 DEF SpawnChecks, Right, Expected
<1> QED
  BY <1>1, <1>2, <1>3, <1>4, <1>5, <1>6

-----------------------------------------------------------------------------
(* What the property rests on: past the checks they had passed.             *)
ExecInv ==
  /\ params \in Workloads
  /\ DOMAIN result = Handles
  /\ \A h \in Handles : pc[h] \in {"wire", "cloexec", "spawn"} => SpawnChecks(params[h]) = "ok"
  /\ DirectExecUnlessHidden

(* Every step keeps it: check and spawn return what execvp would.           *)
LEMMA ExecKept == HandleTypeOK /\ ExecInv /\ [Next]_vars => ExecInv'
<1> SUFFICES ASSUME HandleTypeOK, ExecInv, [Next]_vars PROVE ExecInv'
  OBVIOUS
<1>0. params' = params
  BY CallShapes, StepCases
     DEF SpawnStep, lock_transport_spawn, check, wire, cloexec_pipe, spawn, spawn_fails, Returns,
         child_ends, stranger, vars, spawnVars
<1>1. \A h \in Handles :
        /\ SpawnChecks(params[h]) # "ok" => Right(params[h], SpawnChecks(params[h]))
        /\ SpawnChecks(params[h]) = "ok" => Right(params[h], SpawnCall(params[h]))
  BY ChecksAreExecvp, ProcessAssumption DEF ExecInv
<1>2. ASSUME NEW h \in Handles, SpawnStep(h) PROVE ExecInv'
  <2>1. \/ UNCHANGED result
        \/ \E r : Right(params[h], r) /\ result' = [result EXCEPT ![h] = r]
    <3>1. CASE check(h)
      BY <1>1, <3>1 DEF check, Returns
    <3>2. CASE spawn(h)
      BY <1>1, <3>2 DEF spawn, Returns, ExecInv
    <3>3. CASE spawn_fails(h)
      BY <3>3 DEF spawn_fails, Returns, Right
    <3> QED
      BY <1>2, <3>1, <3>2, <3>3 DEF SpawnStep, lock_transport_spawn, wire, cloexec_pipe
  <2>2. \A k \in Handles : pc'[k] \in {"wire", "cloexec", "spawn"} => SpawnChecks(params[k]) = "ok"
    BY <1>2 DEF SpawnStep, lock_transport_spawn, check, wire, cloexec_pipe, spawn, spawn_fails,
       Returns, Wired, ExecInv, HandleTypeOK
  <2>3. DOMAIN result' = Handles
    BY <2>1 DEF ExecInv
  <2>4. DirectExecUnlessHidden'
    BY <1>0, <2>1 DEF ExecInv, DirectExecUnlessHidden, Right
  <2> QED
    BY <1>0, <2>2, <2>3, <2>4 DEF ExecInv
<1>3. ASSUME NEW h \in Handles, CallStep(h) PROVE ExecInv'
  BY <1>0, <1>3, CallShapes DEF ExecInv, DirectExecUnlessHidden, HandleTypeOK
<1>4. CASE UNCHANGED <<params, result, pc>>
  BY <1>4 DEF ExecInv, DirectExecUnlessHidden
<1> QED
  BY <1>2, <1>3, <1>4, StepCases DEF child_ends, stranger, vars, spawnVars

(* For any program, PATH, working directory and file system: a detached     *)
(* spawn reports what chdir and execvp in the child would, also when the    *)
(* child is a shell that looks the program up, except that it says NotFound *)
(* where the places it could not look at (an unsearchable directory, a file *)
(* on the way) make execvp say otherwise (resolve_in_child_path,            *)
(* check_detached_cwd, check_program_under_cwd).                            *)
THEOREM ReportsDirectExec == FairSpec => []DirectExecUnlessHidden
<1>1. Init => ExecInv
  BY DEF Init, ExecInv, DirectExecUnlessHidden
<1>2. ProcessInv => HandleTypeOK
  BY DEF ProcessInv
<1>3. ExecInv => DirectExecUnlessHidden
  BY DEF ExecInv
<1> QED
  BY <1>1, <1>2, <1>3, ExecKept, ProcessInvariant, PTL DEF FairSpec
=============================================================================
