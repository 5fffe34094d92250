----------------------------- MODULE MCStartup -----------------------------
(***************************************************************************)
(* Instances of Startup for TLC: a child that asks its terminal questions  *)
(* from the first moment, so that a worker may be stuck answering.         *)
(***************************************************************************)
EXTENDS Startup

QueryBatch == {[bytes |-> <<1>>, events |-> 0, reply |-> TRUE, esc |-> TRUE, sync |-> <<>>]}
=============================================================================
