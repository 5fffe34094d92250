------------------------------- MODULE Shared -------------------------------
(***************************************************************************)
(* The rendezvous between the worker and the handle (Shared in             *)
(* session_worker.rs): a mutex-guarded record of the final outcome, the    *)
(* worker revision, the completed frames, the closed flag and the first    *)
(* teardown error, with one condition variable that every waiter sleeps    *)
(* on.  An operation is one critical section, hence one action.            *)
(*                                                                         *)
(* The worker keeps its own copy of revision and frames and publishes each *)
(* change in the statement that makes it (bump_revision,                   *)
(* note_sync_sample), so one variable stands for both copies.              *)
(***************************************************************************)
EXTENDS Integers

CONSTANTS
  Clients,     (* threads that call the &self methods of the session         *)
  NoOutcome    (* Option::None of a CaptureOutcome                           *)

VARIABLES
  outcome,         (* SharedState.outcome                                    *)
  revision,        (* SharedState.revision, Worker.revision                  *)
  frames,          (* SharedState.frames, Worker.frames                      *)
  closed,          (* SharedState.closed                                     *)
  teardown_error,  (* SharedState.teardown_error is Some                     *)
  waiter           (* per client: what it sleeps for, and whether notified   *)

sharedVars == <<outcome, revision, frames, closed, teardown_error, waiter>>

NotWaiting == [on |-> "none", arg |-> 0, awake |-> FALSE]

Waiter == [on : {"none", "outcome", "revision", "frames"}, arg : Nat, awake : BOOLEAN]

SharedInit ==
  /\ outcome = NoOutcome
  /\ revision = 0
  /\ frames = 0
  /\ closed = FALSE
  /\ teardown_error = FALSE
  /\ waiter = [c \in Clients |-> NotWaiting]

-----------------------------------------------------------------------------
(* Condvar::notify_all: every sleeper will re-check its predicate.           *)
Notified == [c \in Clients |-> [waiter[c] EXCEPT !.awake = (@ \/ waiter[c].on # "none")]]

(* Each publisher changes its field and notifies only when it changed.       *)
Publish(o, rev, fr) ==
  /\ outcome' = o
  /\ revision' = rev
  /\ frames' = fr
  /\ waiter' = (IF <<o, rev, fr>> = <<outcome, revision, frames>> THEN waiter ELSE Notified)
  /\ UNCHANGED <<closed, teardown_error>>

(* Mutant: the outcome is stored without waking anybody.                     *)
PublishOutcomeQuietly(o) ==
  /\ outcome' = (IF outcome = NoOutcome THEN o ELSE outcome)
  /\ UNCHANGED <<revision, frames, closed, teardown_error, waiter>>

(* publish_outcome: the first declaration wins.                              *)
publish_outcome(o) ==
  Publish(IF outcome = NoOutcome THEN o ELSE outcome, revision, frames)

(* Mutant: a change that nobody can tell by its revision.                    *)
NoBump == UNCHANGED sharedVars

(* set_revision as bump_revision calls it; set_frames with it for a feed.    *)
bump_revision == Publish(outcome, revision + 1, frames)

mark_closed ==
  /\ closed' = TRUE
  /\ waiter' = Notified
  /\ UNCHANGED <<outcome, revision, frames, teardown_error>>

(* record_teardown: only the first error is kept; nobody is notified.        *)
record_teardown(happened) ==
  /\ teardown_error' = (teardown_error \/ happened)
  /\ UNCHANGED <<outcome, revision, frames, closed, waiter>>

-----------------------------------------------------------------------------
(* The condition a sleeper waits for: its own, or the session closing.       *)
Satisfied(w) ==
  \/ closed
  \/ w.on = "outcome" /\ outcome # NoOutcome
  \/ w.on = "revision" /\ revision >= w.arg
  \/ w.on = "frames" /\ frames > w.arg

Sleep(c, w) ==
  /\ waiter' = [waiter EXCEPT ![c] = [w EXCEPT !.awake = FALSE]]
  /\ UNCHANGED <<outcome, revision, frames, closed, teardown_error>>

Leave(c) ==
  /\ waiter' = [waiter EXCEPT ![c] = NotWaiting]
  /\ UNCHANGED <<outcome, revision, frames, closed, teardown_error>>

(* wait_outcome_changed, wait_revision, wait_frames_above: the first check   *)
(* under the lock either returns or goes to sleep.                           *)
wait_begin(c, on, arg) ==
  LET w == [on |-> on, arg |-> arg, awake |-> FALSE]
  IN  /\ waiter[c] = NotWaiting
      /\ IF Satisfied(w) THEN UNCHANGED sharedVars ELSE Sleep(c, w)

(* A notified sleeper re-checks: it returns, or sleeps again.                *)
wait_recheck(c) ==
  /\ waiter[c].awake
  /\ IF Satisfied(waiter[c]) THEN Leave(c) ELSE Sleep(c, waiter[c])

(* The deadline passes while it sleeps.                                      *)
wait_expire(c) ==
  /\ waiter[c].on # "none"
  /\ Leave(c)

-----------------------------------------------------------------------------
(* No lost wakeup: a client that still sleeps un-notified has nothing to     *)
(* wake up for.  Every publisher must notify, and must do so for the change  *)
(* it made, or a wait_outcome without a near deadline hangs on a declared    *)
(* outcome.                                                                  *)
NoLostWakeup ==
  \A c \in Clients :
    waiter[c].on # "none" /\ ~waiter[c].awake => ~Satisfied(waiter[c])
=============================================================================
