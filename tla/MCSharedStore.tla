--------------------------- MODULE MCSharedStore ---------------------------
(***************************************************************************)
(* A small instance of SharedStore: two runs, batches of one and two       *)
(* records, one kind of event.                                             *)
(***************************************************************************)
EXTENDS SharedStore, TLC

MCBatches ==
  {<<Fact("user_message", 1)>>, <<ToolCall(1, "c1"), ToolCall(1, "c2")>>,
   <<ToolResult(1, "c1", "success")>>}

MCEvents == {"run_started"}

Symmetry == Permutations(CommandIDs)
=============================================================================
