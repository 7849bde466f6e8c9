----------------------------- MODULE MCObserve -----------------------------
(***************************************************************************)
(* A small instance of Observe.                                            *)
(***************************************************************************)
EXTENDS Observe
=============================================================================
