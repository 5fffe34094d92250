----------------------------- MODULE Processes -----------------------------
(***************************************************************************)
(* Piped children (process.rs): spawning them attached or in a session of  *)
(* their own, and waiting for, killing and signalling them.                *)
(*                                                                         *)
(* Each handle is used by a thread of its own; what they share is the      *)
(* descriptor table, which a child inherits at the moment it is spawned,   *)
(* the spawn lock and the kernel's pids, which are used again.             *)
(***************************************************************************)
EXTENDS Integers, Sequences, FiniteSets

CONSTANTS
  Handles,       (* the children one process spawns                          *)
  Pids,          (* the pids the kernel hands out                            *)
  Workloads,     (* what they are spawned with: a SpawnParams each           *)
  Files,         (* what the program is at each place: a FileKind            *)
  Directories,   (* what each working directory a caller may name is         *)
  Names,         (* the names of files and directories                       *)
  ParentPath,    (* the parent's own PATH                                    *)
  ParentCwd,     (* the parent's own working directory                       *)
  AtomicPipe,    (* the platform has pipe2(O_CLOEXEC)                        *)
  SpawnsFail,    (* the system may refuse a pipe or a process                *)
  Signals,       (* signals sent: "fatal", "benign", "unknown" number        *)
  Nobody,        (* Option::None of a lock holder                            *)
  NoPath         (* Option::None of a PATH or a working directory            *)

Slots == 0..2
Pipes == Handles \X Slots
Path  == [absolute : BOOLEAN, names : Seq(Names)]

(* A path that leads nowhere: it names nothing, leaves through a directory   *)
(* that may not be searched, or through a file.                              *)
Nowhere       == {"missing", "hidden", "under_file"}
FileKind      == Nowhere \cup {"program", "unrunnable", "directory"}
DirectoryKind == Nowhere \cup {"searchable", "locked", "file"}
PathList      == {path \in Seq(Path) : path # <<>>}

ASSUME ProcessAssumption ==
  /\ Nobody \notin Handles
  /\ AtomicPipe \in BOOLEAN /\ SpawnsFail \in BOOLEAN
  /\ Signals \subseteq {"fatal", "benign", "unknown"}
  /\ "bin" \in Names
  /\ \A place \in DOMAIN Files : Files[place] \in FileKind
  /\ \A cwd \in DOMAIN Directories : Directories[cwd] \in DirectoryKind
  /\ ParentPath # NoPath => ParentPath \in PathList
  /\ \A w \in Workloads : \A h \in Handles :
       /\ w[h].stdio \in [Slots -> {"Null", "Inherit", "Pipe", "File"}]
       /\ w[h].valid \in BOOLEAN /\ w[h].detached \in BOOLEAN
       /\ w[h].env_path # NoPath => w[h].env_path \in PathList
       /\ w[h].cwd # NoPath => w[h].cwd \in DOMAIN Directories

VARIABLES
  lock,       (* TRANSPORT_SPAWN_LOCK                                         *)
  pc,         (* per handle: idle, check, wire, cloexec, spawn, live, wait    *)
  params,     (* per handle: what it was spawned with                         *)
  slot,       (* per handle: the stdio slot being wired                       *)
  exposed,    (* pipes whose parent end is not close-on-exec yet              *)
  inherited,  (* per handle: pipes whose parent end its child also holds      *)
  stdin,      (* per handle: the write end is none, owned, taken or closed    *)
  result,     (* per handle: what spawn_piped returned                        *)
  proc,       (* per handle: none, running, zombie or reaped                  *)
  exit,       (* per handle: how the child ended                              *)
  pid,        (* per handle: PipedChild.pid                                   *)
  done,       (* per handle: the cached ExitStatus                            *)
  last,       (* per handle: what the last wait or try_wait returned          *)
  strangers,  (* pids in use by processes that are not ours                   *)
  stray       (* history: handles that signalled a process not their own      *)

spawnVars == <<lock, pc, params, slot, exposed, result>>
childVars == <<proc, exit, pid, inherited>>
vars == <<spawnVars, childVars, stdin, done, last, strangers, stray>>

Init ==
  /\ lock = Nobody /\ exposed = {} /\ strangers = {} /\ stray = {}
  /\ pc = [h \in Handles |-> "idle"]
  /\ params \in Workloads
  /\ slot = [h \in Handles |-> 0]
  /\ inherited = [h \in Handles |-> {}]
  /\ stdin = [h \in Handles |-> "none"]
  /\ result = [h \in Handles |-> "none"]
  /\ proc = [h \in Handles |-> "none"]
  /\ exit = [h \in Handles |-> "none"]
  /\ pid = [h \in Handles |-> 0]
  /\ done = [h \in Handles |-> "none"]
  /\ last = [h \in Handles |-> "none"]

-----------------------------------------------------------------------------
(* Which program runs.  A place is a sequence of names from the root, a      *)
(* path says whether it starts there; the program is the path with a slash   *)
(* or, without one, looked up as each place of PATH.                         *)

Join(dir, path) == IF path.absolute THEN path.names ELSE dir \o path.names

KindAt(place) == IF place \in DOMAIN Files THEN Files[place] ELSE "missing"

(* stat(2).                                                                  *)
Stat(kind) ==
  CASE kind = "missing"    -> "NotFound"
    [] kind = "hidden"     -> "PermissionDenied"
    [] kind = "under_file" -> "NotADirectory"
    [] OTHER               -> "ok"

(* classify_candidate: only what exists can poison a failed search; what     *)
(* cannot be looked at is as good as absent.                                 *)
classify_candidate(place) ==
  IF Stat(KindAt(place)) # "ok" THEN "Miss"
  ELSE IF KindAt(place) = "program" THEN "Hit" ELSE "Poison"

(* search_failed.                                                            *)
search_failed(saw_eacces) == IF saw_eacces THEN "PermissionDenied" ELSE "NotFound"

(* merged_env, what it says of PATH: parent entries unless cleared, minus    *)
(* removals, plus overrides, in that order.                                  *)
merged_env(p) ==
  LET parent  == IF p.env_clear THEN NoPath ELSE ParentPath
      removed == IF p.env_remove THEN NoPath ELSE parent
  IN IF p.env_path # NoPath THEN p.env_path ELSE removed

DEFAULT_CHILD_PATH == << [absolute |-> TRUE, names |-> <<"bin">>] >>
path_var(p) == IF merged_env(p) = NoPath THEN DEFAULT_CHILD_PATH ELSE merged_env(p)

(* The loop both searches share: the first hit ends it, a candidate that     *)
(* cannot run is remembered.                                                 *)
Tried(before, found) ==
  IF before = "ok" \/ found = "Hit" THEN "ok"
  ELSE search_failed(before = "PermissionDenied" \/ found = "Poison")

Search(p, dir) ==
  LET entries == path_var(p)
      loop[i \in 0..Len(entries)] ==
        IF i = 0 THEN search_failed(FALSE)
        ELSE Tried(loop[i - 1], classify_candidate(Join(dir, entries[i])))
  IN loop[Len(entries)]

(* resolve_in_child_path: a program with a slash is left to the spawn call.  *)
resolve_in_child_path(p) == IF p.slash # NoPath THEN "ok" ELSE Search(p, ParentCwd)

(* Mutant: the shell's program is looked up where the parent is.             *)
CheckUnderParent(p) ==
  IF p.slash = NoPath THEN Search(p, ParentCwd)
  ELSE LET found == classify_candidate(Join(ParentCwd, p.slash)) IN
       IF found = "Hit" THEN "ok" ELSE search_failed(found = "Poison")

(* check_program_under_cwd: looked up where the shell will have changed to.  *)
check_program_under_cwd(p) ==
  IF p.slash = NoPath THEN Search(p, p.cwd)
  ELSE LET found == classify_candidate(Join(p.cwd, p.slash)) IN
       IF found = "Hit" THEN "ok" ELSE search_failed(found = "Poison")

(* check_detached_cwd: the lookup's own error, is_dir, access(X_OK).         *)
check_detached_cwd(cwd) ==
  IF Stat(Directories[cwd]) # "ok" THEN Stat(Directories[cwd])
  ELSE IF Directories[cwd] = "file" THEN "NotADirectory"
  ELSE IF Directories[cwd] = "locked" THEN "PermissionDenied" ELSE "ok"

(* spawn_detached up to its file actions.                                    *)
DetachedChecks(p) ==
  IF p.cwd = NoPath THEN resolve_in_child_path(p)
  ELSE IF check_detached_cwd(p.cwd) # "ok" THEN check_detached_cwd(p.cwd)
  ELSE check_program_under_cwd(p)

(* checked_argv, then the checks of the path taken.                          *)
SpawnChecks(p) ==
  IF ~p.valid THEN "InvalidInput" ELSE IF p.detached THEN DetachedChecks(p) ELSE "ok"

(* What the system calls of an attached spawn do in the child, as the        *)
(* manual pages have it: chdir(2), execve(2), and execvp(3) of glibc, which  *)
(* goes on after an error, remembers EACCES and else keeps the last one.     *)
Chdir(cwd) ==
  CASE Directories[cwd] = "missing"                -> "NotFound"
    [] Directories[cwd] \in {"hidden", "locked"}   -> "PermissionDenied"
    [] Directories[cwd] \in {"under_file", "file"} -> "NotADirectory"
    [] OTHER                                       -> "ok"

Execve(place) ==
  CASE KindAt(place) = "program"                               -> "ok"
    [] KindAt(place) \in {"unrunnable", "directory", "hidden"} -> "PermissionDenied"
    [] KindAt(place) = "under_file"                            -> "NotADirectory"
    [] OTHER                                                   -> "NotFound"

ChildCwd(p) == IF p.cwd = NoPath THEN ParentCwd ELSE p.cwd

Execvp(p) ==
  LET entries  == path_var(p)
      tried(i) == Execve(Join(ChildCwd(p), entries[i]))
  IN IF p.slash # NoPath THEN Execve(Join(ChildCwd(p), p.slash))
     ELSE IF \E i \in DOMAIN entries : tried(i) = "ok" THEN "ok"
     ELSE IF \E i \in DOMAIN entries : tried(i) = "PermissionDenied" THEN "PermissionDenied"
     ELSE tried(Len(entries))

(* What std reports of an attached spawn.                                    *)
DirectOutcome(p) ==
  IF p.cwd # NoPath /\ Chdir(p.cwd) # "ok" THEN Chdir(p.cwd) ELSE Execvp(p)

(* What the spawn call itself can see: std's child reports all of it; a      *)
(* detached spawn execs a path with a slash as it is given, the candidate    *)
(* the search found to run, or the shell that will look for the program.     *)
SpawnCall(p) ==
  IF ~p.detached THEN DirectOutcome(p)
  ELSE IF p.cwd = NoPath /\ p.slash # NoPath THEN Execve(Join(ParentCwd, p.slash))
  ELSE "ok"

-----------------------------------------------------------------------------
(* spawn_piped.                                                              *)

(* The lock is held until spawn_piped returns.                               *)
lock_transport_spawn(h) ==
  /\ pc[h] = "idle" /\ lock = Nobody
  /\ lock' = h
  /\ pc' = [pc EXCEPT ![h] = "check"]
  /\ UNCHANGED <<params, slot, exposed, result, childVars, stdin, done, last,
                 strangers, stray>>

(* spawn_piped returns r; the pipes wired so far go with a failure.          *)
Returns(h, r) ==
  /\ lock' = Nobody
  /\ result' = [result EXCEPT ![h] = r]
  /\ exposed' = exposed \ ({h} \X Slots)
  /\ pc' = [pc EXCEPT ![h] = IF r = "ok" THEN "live" ELSE "failed"]
  /\ UNCHANGED <<params, slot>>

check(h) ==
  /\ pc[h] = "check"
  /\ IF SpawnChecks(params[h]) = "ok"
     THEN pc' = [pc EXCEPT ![h] = "wire"] /\ UNCHANGED <<lock, params, slot, exposed, result>>
     ELSE Returns(h, SpawnChecks(params[h]))
  /\ UNCHANGED <<childVars, stdin, done, last, strangers, stray>>

(* The slot is wired; the third one is followed by the spawn call.           *)
Wired(h) ==
  /\ slot' = [slot EXCEPT ![h] = @ + 1]
  /\ pc' = [pc EXCEPT ![h] = IF slot[h] = 2 THEN "spawn" ELSE "wire"]
  /\ stdin' = [stdin EXCEPT ![h] =
                 IF slot[h] = 0 /\ params[h].stdio[0] = "Pipe" THEN "owned" ELSE @]

(* WireStdio::wire.  Without pipe2 a new pipe is inheritable until fcntl.    *)
wire(h) ==
  /\ pc[h] = "wire"
  /\ IF params[h].stdio[slot[h]] = "Pipe" /\ ~AtomicPipe
     THEN /\ exposed' = exposed \cup {<<h, slot[h]>>}
          /\ pc' = [pc EXCEPT ![h] = "cloexec"]
          /\ UNCHANGED <<slot, stdin>>
     ELSE Wired(h) /\ UNCHANGED exposed
  /\ UNCHANGED <<lock, params, result, childVars, done, last, strangers, stray>>

(* Mutant: only the end given to the child is made close-on-exec.            *)
CloexecOneEnd(h) ==
  /\ pc[h] = "cloexec"
  /\ Wired(h)
  /\ UNCHANGED <<lock, params, exposed, result, childVars, done, last, strangers, stray>>

(* cloexec_pipe, after pipe: FD_CLOEXEC on both ends.                        *)
cloexec_pipe(h) ==
  /\ pc[h] = "cloexec"
  /\ exposed' = exposed \ {<<h, slot[h]>>}
  /\ Wired(h)
  /\ UNCHANGED <<lock, params, result, childVars, done, last, strangers, stray>>

(* A pipe, a descriptor or a process more than the system allows.            *)
spawn_fails(h) ==
  /\ SpawnsFail
  /\ pc[h] \in {"wire", "cloexec", "spawn"}
  /\ stdin' = [stdin EXCEPT ![h] = "none"]
  /\ Returns(h, "io")
  /\ UNCHANGED <<childVars, done, last, strangers, stray>>

Taken == strangers \cup {pid[h] : h \in {k \in Handles : proc[k] \in {"running", "zombie"}}}

(* The spawn call: the child holds every descriptor that is inheritable now. *)
spawn(h) ==
  /\ pc[h] = "spawn"
  /\ IF SpawnCall(params[h]) = "ok"
     THEN \E new \in Pids \ Taken :
            /\ proc' = [proc EXCEPT ![h] = "running"]
            /\ pid' = [pid EXCEPT ![h] = new]
            /\ inherited' = [inherited EXCEPT ![h] = exposed]
            /\ UNCHANGED <<exit, stdin>>
     ELSE /\ stdin' = [stdin EXCEPT ![h] = "none"]
          /\ UNCHANGED childVars
  /\ Returns(h, SpawnCall(params[h]))
  /\ UNCHANGED <<done, last, strangers, stray>>

-----------------------------------------------------------------------------
(* PipedChild.  &mut self: one call at a time per handle.                    *)

HandleStep == UNCHANGED <<lock, params, slot, exposed, result, inherited, pid>>

(* waitpid reaps a zombie; a pid that was reaped before is not our child.    *)
Reap(h) ==
  IF proc[h] = "zombie"
  THEN /\ proc' = [proc EXCEPT ![h] = "reaped"]
       /\ done' = [done EXCEPT ![h] = exit[h]]
       /\ last' = [last EXCEPT ![h] = exit[h]]
  ELSE /\ last' = [last EXCEPT ![h] = IF proc[h] = "running" THEN "running" ELSE "ECHILD"]
       /\ UNCHANGED <<proc, done>>

(* Mutant: a polled exit is reported and forgotten.                          *)
TryWaitForgets(h) ==
  /\ pc[h] = "live"
  /\ proc' = [proc EXCEPT ![h] = IF @ = "zombie" THEN "reaped" ELSE @]
  /\ last' = [last EXCEPT ![h] = IF proc[h] = "zombie" THEN exit[h]
                                 ELSE IF proc[h] = "running" THEN "running" ELSE "ECHILD"]
  /\ HandleStep
  /\ UNCHANGED <<pc, exit, stdin, done, strangers, stray>>

(* try_wait: the cached status, or a poll; never touches stdin.              *)
try_wait(h) ==
  /\ pc[h] = "live"
  /\ IF done[h] # "none"
     THEN last' = [last EXCEPT ![h] = done[h]] /\ UNCHANGED <<proc, done>>
     ELSE Reap(h)
  /\ HandleStep
  /\ UNCHANGED <<pc, exit, stdin, strangers, stray>>

(* Mutant: wait keeps the write end it owns.                                 *)
WaitKeepsStdin(h) ==
  /\ pc[h] = "live"
  /\ pc' = [pc EXCEPT ![h] = "wait"]
  /\ HandleStep
  /\ UNCHANGED <<stdin, proc, exit, done, last, strangers, stray>>

(* wait: close the write end we still own, then block.                       *)
wait(h) ==
  /\ pc[h] = "live"
  /\ pc' = [pc EXCEPT ![h] = "wait"]
  /\ stdin' = [stdin EXCEPT ![h] = IF @ = "owned" THEN "closed" ELSE @]
  /\ HandleStep
  /\ UNCHANGED <<proc, exit, done, last, strangers, stray>>

(* wait returns: the cached status at once, or the child's when it ends.     *)
wait_returns(h) ==
  /\ pc[h] = "wait"
  /\ IF done[h] # "none"
     THEN last' = [last EXCEPT ![h] = done[h]] /\ UNCHANGED <<proc, done>>
     ELSE proc[h] # "running" /\ Reap(h)
  /\ pc' = [pc EXCEPT ![h] = "live"]
  /\ HandleStep
  /\ UNCHANGED <<exit, stdin, strangers, stray>>

(* kill(2): the process that has the pid now gets the signal, whoever it is. *)
Deliver(h, sig) ==
  /\ stray' = (IF proc[h] = "reaped" /\ pid[h] \in Taken THEN stray \cup {h} ELSE stray)
  /\ exit' = [exit EXCEPT ![h] = IF proc[h] = "running" /\ sig = "fatal" THEN "signal" ELSE @]

(* Mutant: the pid is signalled whether or not it is still the child's.      *)
KillAnyway(h) ==
  /\ pc[h] = "live"
  /\ Deliver(h, "fatal")
  /\ HandleStep
  /\ UNCHANGED <<pc, proc, stdin, done, last, strangers>>

(* kill: a no-op once reaped.                                                *)
kill(h) ==
  /\ pc[h] = "live"
  /\ IF done[h] # "none" THEN UNCHANGED <<exit, stray>> ELSE Deliver(h, "fatal")
  /\ HandleStep
  /\ UNCHANGED <<pc, proc, stdin, done, last, strangers>>

(* signal: NotFound once reaped, InvalidSignal before any system call.       *)
signal(h) ==
  /\ pc[h] = "live"
  /\ \E sig \in Signals :
       IF done[h] # "none" \/ sig = "unknown" THEN UNCHANGED <<exit, stray>>
       ELSE Deliver(h, sig)
  /\ HandleStep
  /\ UNCHANGED <<pc, proc, stdin, done, last, strangers>>

(* take_stdin: the caller owns the write end, and drops it when it likes.    *)
take_stdin(h) ==
  /\ pc[h] = "live" /\ stdin[h] = "owned"
  /\ stdin' = [stdin EXCEPT ![h] = "taken"]
  /\ HandleStep
  /\ UNCHANGED <<pc, proc, exit, done, last, strangers, stray>>

drop_stdin(h) ==
  /\ stdin[h] = "taken"
  /\ stdin' = [stdin EXCEPT ![h] = "closed"]
  /\ HandleStep
  /\ UNCHANGED <<pc, proc, exit, done, last, strangers, stray>>

-----------------------------------------------------------------------------
(* The children and the kernel.                                              *)

(* Every write end of the child's stdin is closed.                           *)
StdinAtEof(h) ==
  /\ stdin[h] \notin {"owned", "taken"}
  /\ \A k \in Handles : proc[k] = "running" => <<h, 0>> \notin inherited[k]

(* The child reads its stdin to the end and exits, or dies of a signal.      *)
child_ends(h) ==
  /\ proc[h] = "running"
  /\ exit[h] = "signal" \/ StdinAtEof(h)
  /\ proc' = [proc EXCEPT ![h] = "zombie"]
  /\ exit' = [exit EXCEPT ![h] = IF @ = "signal" THEN @ ELSE "code"]
  /\ UNCHANGED <<spawnVars, pid, inherited, stdin, done, last, strangers, stray>>

(* Another process gets a free pid, or gives it up.                          *)
stranger ==
  /\ \/ \E p \in Pids \ Taken : strangers' = strangers \cup {p}
     \/ \E p \in strangers : strangers' = strangers \ {p}
  /\ UNCHANGED <<spawnVars, childVars, stdin, done, last, stray>>

(* Every handle was spawned, or refused, and its child reaped.               *)
Over == \A h \in Handles : pc[h] = "failed" \/ (pc[h] = "live" /\ done[h] # "none")
Finished == Over /\ UNCHANGED vars

HandleNext(h) ==
  \/ lock_transport_spawn(h) \/ check(h) \/ wire(h) \/ cloexec_pipe(h) \/ spawn(h)
  \/ spawn_fails(h)
  \/ try_wait(h) \/ wait(h) \/ wait_returns(h) \/ kill(h) \/ signal(h)
  \/ take_stdin(h) \/ drop_stdin(h) \/ child_ends(h)

Next == (\E h \in Handles : HandleNext(h)) \/ stranger \/ Finished

(* A child whose input ended exits, and a wait that can return does.         *)
Fairness == \A h \in Handles : WF_vars(child_ends(h)) /\ WF_vars(wait_returns(h))

FairSpec == Init /\ [][Next]_vars /\ Fairness

-----------------------------------------------------------------------------

(* "The pid is never signalled after reaping, so kernel pid reuse cannot     *)
(* redirect the signal at an unrelated process."                             *)
NoStraySignal == stray = {}

(* Waits are repeatable and truthful: whichever of wait and try_wait reaps   *)
(* the child, every later call gives its status again and none fails.        *)
StatusTruthful ==
  \A h \in Handles : last[h] \in {"none", "running", exit[h]} /\ done[h] \in {"none", exit[h]}

(* "Whose child would otherwise inherit the pipe end and suppress EOF": no   *)
(* child holds an end of a pipe another handle was given.                    *)
NoInheritedEnds == \A h \in Handles : inherited[h] = {}

Places(p) ==
  IF p.slash # NoPath THEN {Join(ChildCwd(p), p.slash)}
  ELSE {Join(ChildCwd(p), path_var(p)[i]) : i \in DOMAIN path_var(p)}

(* The code looked for the program itself, found nothing, and one of the     *)
(* places it tried leads through an unsearchable directory or a file.        *)
NotLookedUp(p) ==
  /\ p.cwd = NoPath => p.slash = NoPath
  /\ p.cwd # NoPath => Chdir(p.cwd) = "ok"
  /\ \A place \in Places(p) : Stat(KindAt(place)) # "ok"
  /\ \E place \in Places(p) : Stat(KindAt(place)) # "NotFound"

Expected(p) == IF p.valid THEN DirectOutcome(p) ELSE "InvalidInput"

(* "The direct-exec contract": a detached spawn reports what chdir and       *)
(* execvp in the child would have, also when the child is a shell that looks *)
(* the program up after the spawn returned; where the search before it could *)
(* not look at a place it says NotFound instead of the error of that place,  *)
(* as classify_candidate means it to, though not the contract as it is put.  *)
(* A spawn that succeeds runs the program, and one that could is not refused.*)
DirectExecUnlessHidden ==
  \A h \in Handles :
    params[h].detached /\ result[h] \notin {"none", "io"} =>
      \/ result[h] = Expected(params[h])
      \/ /\ result[h] = "NotFound" /\ NotLookedUp(params[h])
         /\ Expected(params[h]) \in {"PermissionDenied", "NotADirectory"}

(* A wait ends, unless the caller took the write end and holds it: a child   *)
(* that reads its stdin to the end gets one, whatever else was spawned.      *)
WaitReturns ==
  \A h \in Handles : (pc[h] = "wait") ~> (pc[h] = "live" \/ [](stdin[h] = "taken"))

=============================================================================
