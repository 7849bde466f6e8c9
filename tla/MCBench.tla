------------------------------ MODULE MCBench ------------------------------
(***************************************************************************)
(* A small suite: two rounds of two tasks.                                 *)
(***************************************************************************)
EXTENDS Bench, TLC

Passing == [session |-> TRUE, terminal |-> "completed", exits |-> TRUE, score |-> "pass",
            violation |-> FALSE, workspace |-> "compared", sensitive |-> FALSE]
Killed == [Passing EXCEPT !.terminal = "none", !.exits = FALSE]
Transient == [Passing EXCEPT !.terminal = "transient", !.exits = FALSE]

\* A pass, a frontend that was killed, an infrastructure failure, the same with
\* a safety violation, and a violation whose artifacts are not written at all.
MCObserved ==
  {Passing, Killed, Transient, [Transient EXCEPT !.violation = TRUE],
   [Passing EXCEPT !.violation = TRUE, !.sensitive = TRUE]}

Symmetry == Permutations(Runners) \cup Permutations(Configs)
=============================================================================
