---------------------------- MODULE SharedChild ----------------------------
(***************************************************************************)
(* The session child as the worker and the handle share it (SharedChild in *)
(* session_worker.rs): the kernel's process, the reaped flag and the       *)
(* cached exit status, all behind one mutex.  Every operation below runs   *)
(* under that mutex, so each is one atomic action of the thread that calls *)
(* it.                                                                     *)
(***************************************************************************)
CONSTANTS
  Faults,      (* which syscalls may fail: a subset of FaultKinds            *)
  Status,      (* the exit statuses a child may report                       *)
  NoStatus,    (* Option::None of an ExitStatus                              *)
  PollError    (* the Err of a failed try_wait                               *)

FaultKinds == {"kill", "poll", "wait", "write", "read", "resize", "reader_lost"}

ASSUME ChildAssumption ==
  /\ Faults \subseteq FaultKinds
  /\ NoStatus \notin Status
  /\ PollError \notin Status \cup {NoStatus}

VARIABLES
  proc,        (* "running", "zombie" (exited, pid still ours) or "gone"     *)
  exit_code,   (* how the process ended, NoStatus while it runs              *)
  killed,      (* the kernel owes this process a fatal signal                *)
  reaped,      (* SharedChildState.reaped                                    *)
  status,      (* SharedChildState.status                                    *)
  stray        (* history: a signal was addressed at a pid already released  *)

kernelVars == <<proc, exit_code, killed>>
childVars  == <<proc, exit_code, killed, reaped, status, stray>>

ChildTypeOK ==
  /\ proc \in {"running", "zombie", "gone"}
  /\ exit_code \in Status \cup {NoStatus}
  /\ killed \in BOOLEAN
  /\ reaped \in BOOLEAN
  /\ status \in Status \cup {NoStatus}
  /\ stray \in BOOLEAN

ChildInit ==
  /\ proc = "running"
  /\ exit_code = NoStatus
  /\ killed = FALSE
  /\ reaped = FALSE
  /\ status = NoStatus
  /\ stray = FALSE

-----------------------------------------------------------------------------
(* The kernel: the process ends, by itself or by a signal.                   *)
child_exits ==
  /\ proc = "running"
  /\ proc' = "zombie"
  /\ exit_code' \in Status
  /\ UNCHANGED <<killed, reaped, status, stray>>

(* waitpid found the zombie: its pid goes back to the kernel.                *)
Reap ==
  /\ proc = "zombie"
  /\ proc' = "gone"
  /\ reaped' = TRUE
  /\ status' = exit_code
  /\ UNCHANGED <<exit_code, killed, stray>>

(* SharedChild::poll with result r: the cached status once reaped, NoStatus  *)
(* while the child runs, or a failed try_wait that changes nothing.          *)
poll(r) ==
  \/ /\ reaped
     /\ r = status
     /\ UNCHANGED childVars
  \/ /\ ~reaped /\ proc = "running"
     /\ r = NoStatus
     /\ UNCHANGED childVars
  \/ /\ ~reaped
     /\ r = exit_code
     /\ Reap
  \/ /\ ~reaped /\ "poll" \in Faults
     /\ r = PollError
     /\ UNCHANGED childVars

PollResults == Status \cup {NoStatus, PollError}

(* A kill(2) at the pid: a zombie swallows it, a released pid is a stray.    *)
(* PtyChild repeats the callers' reaped check here; it is left out, so that  *)
(* NoStrayKill rests on the check made under the mutex alone.                *)
Deliver(fatal) ==
  /\ killed' = (killed \/ (fatal /\ proc = "running"))
  /\ stray' = (stray \/ proc = "gone")
  /\ UNCHANGED <<proc, exit_code, reaped, status>>

(* Mutant: the signal goes out without the reaped check.                     *)
SignalUnchecked(fatal, ok) == ok /\ Deliver(fatal)

(* SharedChild::signal_locked with result ok: the reaped check and the kill  *)
(* run under one lock; NotFound once reaped.                                 *)
signal_locked(fatal, ok) ==
  \/ /\ reaped /\ ~ok
     /\ UNCHANGED childVars
  \/ /\ ~reaped /\ ok
     /\ Deliver(fatal)

(* Mutant: the kill goes out without the reaped check.                       *)
KillUnchecked(ok) == ok /\ Deliver(TRUE)

(* SharedChild::kill_locked with result ok: a silent no-op once reaped.      *)
kill_locked(ok) ==
  \/ /\ reaped /\ ok
     /\ UNCHANGED childVars
  \/ /\ ~reaped /\ ok
     /\ Deliver(TRUE)
  \/ /\ ~reaped /\ ~ok /\ "kill" \in Faults
     /\ UNCHANGED childVars

(* SharedChild::wait_locked with result ok: the cached status, or a blocking *)
(* wait that is enabled only once there is a zombie to collect.              *)
wait_locked(ok) ==
  \/ /\ status # NoStatus /\ ok
     /\ UNCHANGED childVars
  \/ /\ status = NoStatus /\ ok
     /\ Reap
  \/ /\ status = NoStatus /\ ~ok /\ "wait" \in Faults
     /\ UNCHANGED childVars

-----------------------------------------------------------------------------
(* F03: once any thread has observed the reap, no thread addresses the pid   *)
(* again, whatever the interleaving of polls, signals and kills.             *)
NoStrayKill == ~stray

(* The flag the F03 check reads agrees with the kernel: the pid is released  *)
(* exactly when reaped is set, and the cached status is the real one.        *)
ReapedIsReleased ==
  /\ reaped <=> proc = "gone"
  /\ status = (IF reaped THEN exit_code ELSE NoStatus)
  /\ proc = "running" <=> exit_code = NoStatus
=============================================================================
