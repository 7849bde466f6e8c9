----------------------------- MODULE Transcript -----------------------------
(***************************************************************************)
(* The durable conversation records of internal/transcript: which record   *)
(* is well formed in isolation (Record.Validate), which log of records may *)
(* be loaded (ValidateRecords, ValidateTranscript) and which tool calls it *)
(* leaves open.                                                            *)
(*                                                                         *)
(* A record keeps what those checks tell apart: its kind, the run and the  *)
(* tool call it belongs to, an outcome and a failure cause.  Text, call    *)
(* arguments, time stamps and the JSON envelope are left out.  A log entry *)
(* is a record with the sequence number the store gave it.                 *)
(***************************************************************************)
EXTENDS Naturals, Sequences, FiniteSets

CONSTANT CallIDs   \* the tool-call identifiers a provider may propose

NoCall == ""       \* a record that belongs to no call
NoRun == 0         \* a record that belongs to no run; run-1, run-2, ... are 1, 2, ...

ASSUME CallIDsAssumption == NoCall \notin CallIDs
-----------------------------------------------------------------------------
Kinds == {"user_message", "assistant_block", "tool_call", "tool_result",
          "cancellation_boundary", "run_outcome", "instructions_loaded",
          "session_closed"}

ToolResultOutcomes ==
  {"success", "error", "cancelled", "skipped", "interrupted", "blocked"}

RunOutcomes == {"completed", "failed", "cancelled", "interrupted"}

FailureCauses ==
  {"provider_permanent", "provider_protocol", "provider_transient_exhausted",
   "engine_invariant", "budget_exhausted", "context_limit",
   "provider_output_limit", "interrupted", "sensitive_content_blocked"}

Record == [kind : Kinds, run : Nat, call : CallIDs \cup {NoCall},
           outcome : ToolResultOutcomes \cup RunOutcomes \cup {""},
           cause : FailureCauses \cup {""}]

Entry == [seq : Nat, rec : Record]

\* The records the engine appends, one constructor per kind.
Fact(kind, run) ==
  [kind |-> kind, run |-> run, call |-> NoCall, outcome |-> "", cause |-> ""]
ToolCall(run, id) == [Fact("tool_call", run) EXCEPT !.call = id]
ToolResult(run, id, outcome) ==
  [Fact("tool_result", run) EXCEPT !.call = id, !.outcome = outcome]
RunOutcome(run, outcome, cause) ==
  [Fact("run_outcome", run) EXCEPT !.outcome = outcome, !.cause = cause]
SessionClosed == Fact("session_closed", NoRun)

\* Record.Validate: one record in isolation.
WellFormed(rec) ==
  /\ rec.kind \in Kinds
  /\ (rec.kind = "session_closed") <=> (rec.run = NoRun)
  /\ rec.kind \in {"tool_call", "tool_result"} => rec.call # NoCall
  /\ rec.kind = "tool_result" => rec.outcome \in ToolResultOutcomes
  /\ rec.kind = "run_outcome" =>
       /\ rec.outcome \in RunOutcomes
       /\ rec.outcome \in {"failed", "interrupted"} <=> rec.cause \in FailureCauses
       /\ rec.cause \in FailureCauses \cup {""}
-----------------------------------------------------------------------------
(***************************************************************************)
(* toolPairs: one scan over the log that pairs every call with its result  *)
(* and stops at the first entry that cannot be paired.                     *)
(***************************************************************************)
AnyCall == CallIDs \cup {NoCall}
Pairs ==
  [ok : BOOLEAN, calls : SUBSET [id : AnyCall, run : Nat], results : SUBSET AnyCall]

Unpaired(pairs, run) ==
  {c \in pairs.calls : c.run = run /\ c.id \notin pairs.results}

\* Seeded fault: a result is accepted for a call of another run.
PairStepAnyRun(pairs, rec) ==
  CASE ~pairs.ok -> pairs
    [] pairs.ok /\ rec.kind = "tool_call" ->
         IF \E c \in pairs.calls : c.id = rec.call
         THEN [pairs EXCEPT !.ok = FALSE]
         ELSE [pairs EXCEPT !.calls = @ \cup {[id |-> rec.call, run |-> rec.run]}]
    [] pairs.ok /\ rec.kind = "tool_result" ->
         IF (\E c \in pairs.calls : c.id = rec.call) /\ rec.call \notin pairs.results
         THEN [pairs EXCEPT !.results = @ \cup {rec.call}]
         ELSE [pairs EXCEPT !.ok = FALSE]
    [] pairs.ok /\ rec.kind = "run_outcome" ->
         IF Unpaired(pairs, rec.run) = {} THEN pairs ELSE [pairs EXCEPT !.ok = FALSE]
    [] OTHER -> pairs

PairStep(pairs, rec) ==
  LET known == {c \in pairs.calls : c.id = rec.call}
      reject == [pairs EXCEPT !.ok = FALSE]
  IN  CASE ~pairs.ok -> pairs
        [] pairs.ok /\ rec.kind = "tool_call" ->
             IF known = {}
             THEN [pairs EXCEPT !.calls = @ \cup {[id |-> rec.call, run |-> rec.run]}]
             ELSE reject
        [] pairs.ok /\ rec.kind = "tool_result" ->
             IF /\ \E c \in known : c.run = rec.run
                /\ rec.call \notin pairs.results
             THEN [pairs EXCEPT !.results = @ \cup {rec.call}]
             ELSE reject
        [] pairs.ok /\ rec.kind = "run_outcome" ->
             IF Unpaired(pairs, rec.run) = {} THEN pairs ELSE reject
        [] OTHER -> pairs

\* What the scan has paired after entry n.
NoPairs == [ok |-> TRUE, calls |-> {}, results |-> {}]
ToolPairs(entries) ==
  LET step == [n \in 1..Len(entries) |->
                 [pairs \in Pairs |-> PairStep(pairs, entries[n].rec)]]
      scan[n \in 0..Len(entries)] ==
        IF n = 0 THEN NoPairs ELSE step[n][scan[n - 1]]
  IN  scan[Len(entries)]

\* The close fact, if there is one, is the last entry.
CloseIsLast(entries) ==
  \A i \in DOMAIN entries : entries[i].rec.kind = "session_closed" => i = Len(entries)

\* ValidateRecords: the check every Open makes, open calls allowed.
ValidateRecords(entries) ==
  /\ \A i \in DOMAIN entries : entries[i].seq = i /\ WellFormed(entries[i].rec)
  /\ CloseIsLast(entries)
  /\ ToolPairs(entries).ok

\* ValidateTranscript: the log may become model context again.
ValidateTranscript(entries) ==
  /\ ValidateRecords(entries)
  /\ LET pairs == ToolPairs(entries)
     IN  \A c \in pairs.calls : c.id \in pairs.results

\* OpenToolCalls: the calls of a loadable log that have no result, in log order.
OpenToolCalls(entries) ==
  LET pairs == ToolPairs(entries)
      open(e) == e.rec.kind = "tool_call" /\ e.rec.call \notin pairs.results
      found[n \in 0..Len(entries)] ==
        IF n = 0 THEN <<>>
        ELSE IF open(entries[n]) THEN Append(found[n - 1], entries[n]) ELSE found[n - 1]
  IN  found[Len(entries)]

\* OpenToolCallsForRun refuses a log in which another run left a call open.
OtherRunLeftOpen(entries, run) ==
  \E i \in DOMAIN OpenToolCalls(entries) : OpenToolCalls(entries)[i].rec.run # run

\* Seeded fault: the outcome is written before the results of the open calls.
RepairOutcomeFirst(entries, run) ==
  LET open == OpenToolCalls(entries)
  IN  <<RunOutcome(run, "interrupted", "interrupted")>>
        \o [i \in 1..Len(open) |-> ToolResult(run, open[i].rec.call, "interrupted")]

\* What reconcileInterrupted appends for a run that left no outcome: one
\* interrupted result per open call, in log order, then the outcome.
RepairRecords(entries, run) ==
  LET open == OpenToolCalls(entries)
  IN  [i \in 1..Len(open) |-> ToolResult(run, open[i].rec.call, "interrupted")]
        \o <<RunOutcome(run, "interrupted", "interrupted")>>

\* AppendTranscript numbers the records it is given from the mark on.
Numbered(mark, recs) == [i \in 1..Len(recs) |-> [seq |-> mark + i, rec |-> recs[i]]]
-----------------------------------------------------------------------------
(***************************************************************************)
(* The same two verdicts stated about positions in the log instead of by a *)
(* scan: the reference the scan is compared with.                          *)
(***************************************************************************)
CallAt(entries, i) == entries[i].rec.kind = "tool_call"
ResultAt(entries, i) == entries[i].rec.kind = "tool_result"

ResultFor(entries, i, j) ==
  /\ CallAt(entries, i) /\ ResultAt(entries, j)
  /\ i < j
  /\ entries[i].rec.call = entries[j].rec.call
  /\ entries[i].rec.run = entries[j].rec.run

Paired(entries) ==
  LET D == DOMAIN entries
  IN  /\ \A i, j \in D : /\ CallAt(entries, i) /\ CallAt(entries, j)
                         /\ entries[i].rec.call = entries[j].rec.call
                         => i = j
      /\ \A j \in D : ResultAt(entries, j) =>
           /\ \E i \in D : ResultFor(entries, i, j)
           /\ \A k \in D : (ResultAt(entries, k) /\ entries[k].rec.call = entries[j].rec.call)
                             => k = j
      /\ \A k \in D : entries[k].rec.kind = "run_outcome" =>
           \A i \in 1..(k - 1) : (CallAt(entries, i) /\ entries[i].rec.run = entries[k].rec.run)
              => \E j \in 1..(k - 1) : ResultFor(entries, i, j)

NoCallOpen(entries) ==
  \A i \in DOMAIN entries : CallAt(entries, i) =>
    \E j \in DOMAIN entries : ResultFor(entries, i, j)

\* The scan accepts a log exactly when every call ID occurs once, every result
\* follows its call in the same run and is the only one, and no run ends with
\* a call open; and ValidateTranscript exactly when no call is open at all.
ScanAgreesOn(entries) ==
  /\ ToolPairs(entries).ok <=> Paired(entries)
  /\ ValidateRecords(entries) => (ValidateTranscript(entries) <=> NoCallOpen(entries))

\* A loadable log becomes a transcript again when the records of the repair
\* are appended, unless another run left a call open or the session is closed.
RepairCompletesOn(entries, run) ==
  LET repaired == entries \o Numbered(Len(entries), RepairRecords(entries, run))
  IN  /\ ValidateRecords(entries)
      /\ ~ OtherRunLeftOpen(entries, run)
      /\ \A i \in DOMAIN entries : entries[i].rec.kind # "session_closed"
      => ValidateTranscript(repaired)
=============================================================================
