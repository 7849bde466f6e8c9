---------------------------- MODULE RunLifecycle ----------------------------
(***************************************************************************)
(* What a session promises about its runs: they begin one after the other, *)
(* each ends once with an outcome that never changes, and nothing begins   *)
(* after the session was closed.                                           *)
(***************************************************************************)
EXTENDS Naturals, Sequences

VARIABLES runs,    \* what became of run-1, run-2, ...
          closed   \* the session is closed

Outcome == {"completed", "failed", "cancelled", "interrupted"}

AllEnded == \A r \in DOMAIN runs : runs[r] # "active"

Init == runs = <<>> /\ closed = FALSE

Begin ==
  /\ ~ closed /\ AllEnded
  /\ runs' = Append(runs, "active")
  /\ UNCHANGED closed

End ==
  /\ \E r \in DOMAIN runs, outcome \in Outcome :
       /\ runs[r] = "active"
       /\ runs' = [runs EXCEPT ![r] = outcome]
  /\ UNCHANGED closed

Close ==
  /\ AllEnded /\ ~ closed
  /\ closed' = TRUE
  /\ UNCHANGED runs

Next == Begin \/ End \/ Close

Spec == Init /\ [][Next]_<<runs, closed>>
=============================================================================
