------------------------------ MODULE Capture ------------------------------
(***************************************************************************)
(* What a session promises about the output it captures, without threads,  *)
(* queues or clocks: batches are captured one at a time in the order they  *)
(* were written, one outcome is declared, nothing is captured after it,    *)
(* and an outcome that claims a clean end of output has all of it.         *)
(***************************************************************************)
EXTENDS Naturals

CONSTANTS
  Streams,      (* how an output stream may have ended                        *)
  Exits,        (* how a child may have exited                                *)
  NotEnded,     (* the child still runs                                       *)
  UnknownEnd,   (* the outcome of a session that never learned the exit       *)
  NotDeclared   (* no outcome yet                                             *)

VARIABLES
  written,      (* batches written to the terminal                            *)
  writable,     (* somebody can still write to it                             *)
  ended,        (* the child's exit, or NotEnded                              *)
  captured,     (* batches captured                                           *)
  declared      (* the outcome: [stream, exit]                                *)

vars == <<written, writable, ended, captured, declared>>

Init ==
  /\ written = 0 /\ writable = TRUE /\ ended = NotEnded
  /\ captured = 0 /\ declared = NotDeclared

Write ==
  /\ writable
  /\ written' = written + 1
  /\ UNCHANGED <<writable, ended, captured, declared>>

(* The child exits; the terminal stays writable if a descendant holds it.    *)
End ==
  /\ ended = NotEnded
  /\ ended' \in Exits
  /\ writable' \in BOOLEAN
  /\ UNCHANGED <<written, captured, declared>>

(* The last descendant lets go.                                              *)
HangUp ==
  /\ writable /\ ended # NotEnded
  /\ writable' = FALSE
  /\ UNCHANGED <<written, ended, captured, declared>>

Take ==
  /\ declared = NotDeclared
  /\ captured < written
  /\ captured' = captured + 1
  /\ UNCHANGED <<written, writable, ended, declared>>

Declare(stream, exit) ==
  /\ declared = NotDeclared
  /\ stream = "CleanEof" => ~writable /\ captured = written
  /\ exit # UnknownEnd => exit = ended
  /\ declared' = [stream |-> stream, exit |-> exit]
  /\ UNCHANGED <<written, writable, ended, captured>>

Next ==
  \/ Write \/ End \/ HangUp \/ Take
  \/ \E stream \in Streams, exit \in Exits \cup {UnknownEnd} : Declare(stream, exit)

Spec == Init /\ [][Next]_vars
=============================================================================
