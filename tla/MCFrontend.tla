----------------------------- MODULE MCFrontend -----------------------------
(***************************************************************************)
(* A small instance of Frontend: a provider that answers with nothing or   *)
(* with a tool call, or fails in a way that is retried.                    *)
(***************************************************************************)
EXTENDS Frontend

MCAnswers ==
  {[text |-> FALSE, length |-> FALSE, calls |-> calls] : calls \in {<<>>, <<"c1">>}}
=============================================================================
