----------------------------- MODULE MCSession -----------------------------
(***************************************************************************)
(* Small instances of Session.                                             *)
(***************************************************************************)
EXTENDS Session, TLC

Text(calls) == [text |-> TRUE, length |-> FALSE, calls |-> calls]
NoText(calls) == [text |-> FALSE, length |-> FALSE, calls |-> calls]

\* Every branch on a response: text, nothing, text with a batch of two calls,
\* a repeated call ID, cut by the length limit with and without a call.
MCOddAnswers ==
  {Text(<<>>), NoText(<<>>), Text(<<"c1", "c2">>), NoText(<<"c1", "c1">>),
   [text |-> TRUE, length |-> TRUE, calls |-> <<>>],
   [text |-> TRUE, length |-> TRUE, calls |-> <<"c1">>]}

\* Final text, nothing, text with a batch of two calls.
MCPlainAnswers == {Text(<<>>), NoText(<<>>), Text(<<"c1", "c2">>)}

Symmetry == Permutations(CommandIDs)
=============================================================================
