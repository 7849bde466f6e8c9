-------------------------- MODULE MCSecondProcess --------------------------
(***************************************************************************)
(* A small instance of SecondProcess: one turn, one close.                 *)
(***************************************************************************)
EXTENDS SecondProcess

MCAnswers == {[text |-> TRUE, length |-> FALSE, calls |-> <<>>]}
=============================================================================
