---------------------------- MODULE SessionStore ----------------------------
(***************************************************************************)
(* One durable session of internal/store: two append-only logs and a       *)
(* manifest that is replaced atomically, written by one process through    *)
(* one open handle.                                                        *)
(*                                                                         *)
(* On disk: transcriptLog, eventLog, torn (a log ends in a partial line),  *)
(* manifestFile.  In the process: opened, and manifest, the handle's copy. *)
(* Every operation of the handle holds its mutex, so an operation is one   *)
(* step; what can happen in the middle of it, a failing write or the death *)
(* of the process, is an outcome of the step.  The payloads of records and *)
(* events, time stamps and the identity part of the manifest are left out. *)
(***************************************************************************)
EXTENDS Transcript, Integers

CONSTANTS CommandIDs,            \* the command IDs of the frontends
          MaxLogicalModelCalls,  \* the per-run limits (64, 96 and ten minutes)
          MaxTransportAttempts,
          MaxRetryDelay,
          Batches,               \* the record batches a client appends in one call
          Events,                \* the events a client appends
          Delays,                \* the retry delays a client reserves
          MaxRuns,               \* bound: runs begun in one session
          MaxRecords,            \* bound: entries in the transcript log
          MaxEvents              \* bound: entries in the event log

ASSUME StoreAssumption ==
  /\ MaxLogicalModelCalls \in Nat /\ MaxTransportAttempts \in Nat
  /\ MaxRetryDelay \in Nat
  /\ Batches \subseteq Seq(Record)
  /\ Delays \subseteq Nat
  /\ MaxRuns \in Nat /\ MaxRecords \in Nat /\ MaxEvents \in Nat

VARIABLES transcriptLog,  \* the entries of transcript.jsonl
          eventLog,       \* the entries of events.jsonl
          torn,           \* a log has a partial final line
          manifestFile,   \* manifest.json
          opened,         \* a process has the session open
          manifest,       \* Session.manifest of that process
          failed          \* an append through this handle has failed

storeVars ==
  <<transcriptLog, eventLog, torn, manifestFile, opened, manifest, failed>>
disk == <<transcriptLog, eventLog, torn, manifestFile>>
-----------------------------------------------------------------------------
Budget == [calls : Nat, attempts : Nat, delay : Nat]

Manifest ==
  [closed : BOOLEAN, transcriptSeq : Nat, eventCursor : Nat, nextRun : Nat,
   seen : SUBSET CommandIDs, budgets : Seq(Budget), active : Nat]

EventEntry == [cursor : Nat, ev : Events]

FreshBudget == [calls |-> 0, attempts |-> 0, delay |-> 0]

FreshManifest ==
  [closed |-> FALSE, transcriptSeq |-> 0, eventCursor |-> 0, nextRun |-> 0,
   seen |-> {}, budgets |-> <<>>, active |-> NoRun]

(***************************************************************************)
(* How a write can end.  A manifest replacement succeeds, fails before the *)
(* rename, or fails after it (the directory sync).  An append can also     *)
(* fail at the log, leaving any number of complete lines and perhaps a     *)
(* partial one; the handle then counts none of them.                       *)
(***************************************************************************)
ReplaceResults == {"ok", "not_replaced", "replaced_not_synced"}
AppendResults == ReplaceResults \cup {"not_logged"}

\* writeManifestLocked: the handle's copy is changed first, then the file.
ReplaceManifest(m, result) ==
  /\ manifest' = m
  /\ manifestFile' = IF result = "not_replaced" THEN manifestFile ELSE m

\* What a write of these lines may leave when it does not complete.
Fragments(entries) ==
  {f \in [kept : 0..Len(entries), cut : BOOLEAN] : f.cut => f.kept < Len(entries)}
-----------------------------------------------------------------------------
Lines(recs) == Numbered(manifest.transcriptSeq, recs)

\* Seeded fault: the mark is advanced and written even when the log was not.
AppendTranscriptMarkFirst(recs, result) ==
  /\ opened /\ \A i \in DOMAIN recs : WellFormed(recs[i])
  /\ ReplaceManifest([manifest EXCEPT !.transcriptSeq = @ + Len(recs)], "ok")
  /\ failed' = (failed \/ result = "not_logged")
  /\ transcriptLog' = IF result = "not_logged" THEN transcriptLog
                      ELSE transcriptLog \o Lines(recs)
  /\ UNCHANGED <<eventLog, torn, opened>>

AppendTranscript(recs, result) ==
  /\ opened /\ \A i \in DOMAIN recs : WellFormed(recs[i])
  /\ \/ /\ result \in ReplaceResults
        /\ transcriptLog' = transcriptLog \o Lines(recs)
        /\ ReplaceManifest([manifest EXCEPT !.transcriptSeq = @ + Len(recs)], result)
        /\ UNCHANGED <<torn, failed>>
     \/ /\ result = "not_logged"
        /\ \E f \in Fragments(recs) :
             /\ transcriptLog' = transcriptLog \o SubSeq(Lines(recs), 1, f.kept)
             /\ torn' = (torn \/ f.cut)
        /\ failed' = TRUE
        /\ UNCHANGED <<manifest, manifestFile>>
  /\ UNCHANGED <<eventLog, opened>>

\* An event whose cursor does not follow the mark is refused: no change.
CursorFollows(cursor) == cursor = manifest.eventCursor + 1

AppendEvent(cursor, ev, result) ==
  /\ opened /\ CursorFollows(cursor)
  /\ \/ /\ result \in ReplaceResults
        /\ eventLog' = Append(eventLog, [cursor |-> cursor, ev |-> ev])
        /\ ReplaceManifest([manifest EXCEPT !.eventCursor = cursor], result)
        /\ UNCHANGED <<torn, failed>>
     \/ /\ result = "not_logged"
        /\ \/ torn' = TRUE /\ UNCHANGED eventLog
           \/ eventLog' = Append(eventLog, [cursor |-> cursor, ev |-> ev]) /\ UNCHANGED torn
           \/ UNCHANGED <<eventLog, torn>>
        /\ failed' = TRUE
        /\ UNCHANGED <<manifest, manifestFile>>
  /\ UNCHANGED <<transcriptLog, opened>>

\* The process dies while the lines are being written, or after that and
\* before the manifest is replaced.
CrashAppending(recs) ==
  /\ opened /\ \A i \in DOMAIN recs : WellFormed(recs[i])
  /\ \E f \in Fragments(recs) :
       /\ transcriptLog' = transcriptLog \o SubSeq(Lines(recs), 1, f.kept)
       /\ torn' = (torn \/ f.cut)
  /\ opened' = FALSE /\ manifest' = FreshManifest /\ failed' = FALSE
  /\ UNCHANGED <<eventLog, manifestFile>>

CrashAppendingEvent(cursor, ev) ==
  /\ opened /\ CursorFollows(cursor)
  /\ \/ torn' = TRUE /\ UNCHANGED eventLog
     \/ eventLog' = Append(eventLog, [cursor |-> cursor, ev |-> ev]) /\ UNCHANGED torn
  /\ opened' = FALSE /\ manifest' = FreshManifest /\ failed' = FALSE
  /\ UNCHANGED <<transcriptLog, manifestFile>>
-----------------------------------------------------------------------------
\* Replaces the manifest and touches no log.
OnlyManifest(m, result) ==
  /\ opened /\ result \in ReplaceResults
  /\ ReplaceManifest(m, result)
  /\ UNCHANGED <<transcriptLog, eventLog, torn, opened, failed>>

\* Consumes the command ID, allocates the run and its budget in one write.
BeginRun(cmd, result) ==
  /\ ~ manifest.closed
  /\ cmd \notin manifest.seen
  /\ manifest.active = NoRun
  /\ OnlyManifest([manifest EXCEPT !.seen = @ \cup {cmd},
                                   !.nextRun = @ + 1,
                                   !.budgets = Append(@, FreshBudget),
                                   !.active = manifest.nextRun + 1], result)

\* Seeded fault: the file is left for the next write of the manifest.
RecordCommandInMemory(cmd, result) ==
  /\ opened /\ result = "ok" /\ cmd \notin manifest.seen
  /\ manifest' = [manifest EXCEPT !.seen = @ \cup {cmd}]
  /\ UNCHANGED <<disk, opened, failed>>

RecordCommand(cmd, result) ==
  /\ cmd \notin manifest.seen
  /\ OnlyManifest([manifest EXCEPT !.seen = @ \cup {cmd}], result)

\* FinishRun and ReconcileRun: clears exactly the active run.
FinishRun(run, result) ==
  /\ run # NoRun /\ manifest.active = run
  /\ OnlyManifest([manifest EXCEPT !.active = NoRun], result)

\* Close: a closed manifest is left alone, an active run refuses.
CloseStore(result) ==
  /\ ~ manifest.closed /\ manifest.active = NoRun
  /\ OnlyManifest([manifest EXCEPT !.closed = TRUE], result)
-----------------------------------------------------------------------------
Counters == {"logical_model_call", "transport_attempt", "retry_delay"}

\* Seeded fault: the limit itself is still free.
ExhaustedOffByOne(b, counter, amount) ==
  CASE counter = "logical_model_call" -> b.calls > MaxLogicalModelCalls
    [] counter = "transport_attempt" -> b.attempts > MaxTransportAttempts
    [] counter = "retry_delay" -> b.delay > MaxRetryDelay

Exhausted(b, counter, amount) ==
  CASE counter = "logical_model_call" -> b.calls >= MaxLogicalModelCalls
    [] counter = "transport_attempt" -> b.attempts >= MaxTransportAttempts
    [] counter = "retry_delay" -> b.delay > MaxRetryDelay - amount

Reserved(b, counter, amount) ==
  CASE counter = "logical_model_call" -> [b EXCEPT !.calls = @ + 1]
    [] counter = "transport_attempt" -> [b EXCEPT !.attempts = @ + 1]
    [] counter = "retry_delay" -> [b EXCEPT !.delay = @ + amount]

\* An exhausted counter refuses before anything is changed.
ReserveBudget(run, counter, amount, result) ==
  /\ run \in DOMAIN manifest.budgets
  /\ ~ Exhausted(manifest.budgets[run], counter, amount)
  /\ OnlyManifest([manifest EXCEPT !.budgets[run] = Reserved(@, counter, amount)], result)
-----------------------------------------------------------------------------
Contiguous ==
  /\ \A i \in DOMAIN transcriptLog : transcriptLog[i].seq = i
  /\ \A i \in DOMAIN eventLog : eventLog[i].cursor = i

MarksBehind(m) ==
  /\ m.transcriptSeq <= Len(transcriptLog)
  /\ m.eventCursor <= Len(eventLog)

ActiveHasBudget(m) == m.active # NoRun => m.active \in DOMAIN m.budgets

\* Open (store.go:212) finds nothing wrong with the store's own bookkeeping,
\* whatever failed and wherever a process died: sequence numbers and cursors
\* are contiguous, no mark of the manifest is ahead of its log, the active run
\* has a budget.  Only a partial final line is refused.
BookkeepingLoads ==
  Contiguous /\ MarksBehind(manifestFile) /\ ActiveHasBudget(manifestFile)

\* All that Open asks.
Openable == ~ torn /\ BookkeepingLoads /\ ValidateRecords(transcriptLog)

\* Seeded fault: the active run starts over with a fresh budget.
OpenFreshBudget ==
  /\ ~ opened /\ Openable
  /\ opened' = TRUE
  /\ manifest' = [manifestFile EXCEPT
       !.transcriptSeq = Len(transcriptLog), !.eventCursor = Len(eventLog),
       !.budgets = [r \in DOMAIN @ |-> IF r = manifestFile.active THEN FreshBudget ELSE @[r]]]
  /\ UNCHANGED <<disk, failed>>

\* Open: the logs are authoritative, nothing on disk is written.
Open ==
  /\ ~ opened /\ Openable
  /\ opened' = TRUE
  /\ manifest' = [manifestFile EXCEPT !.transcriptSeq = Len(transcriptLog),
                                      !.eventCursor = Len(eventLog)]
  /\ UNCHANGED <<disk, failed>>

\* The process ends, by crash or by exit, between two operations.
Crash ==
  /\ opened
  /\ opened' = FALSE /\ manifest' = FreshManifest /\ failed' = FALSE
  /\ UNCHANGED disk
-----------------------------------------------------------------------------
\* Create: a new session directory with its first manifest.
Init ==
  /\ transcriptLog = <<>> /\ eventLog = <<>> /\ torn = FALSE
  /\ manifestFile = FreshManifest
  /\ opened = TRUE /\ manifest = FreshManifest /\ failed = FALSE

(***************************************************************************)
(* Any client that stops at the first append that failed, as the engine's  *)
(* Faulted state is meant to, and is otherwise free to call anything.      *)
(***************************************************************************)
ClientAppends ==
  \E recs \in Batches, result \in AppendResults :
    /\ ~ failed /\ Len(transcriptLog) + Len(recs) <= MaxRecords
    /\ AppendTranscript(recs, result)

ClientEmits ==
  \E ev \in Events, result \in AppendResults :
    /\ ~ failed /\ Len(eventLog) < MaxEvents
    /\ AppendEvent(manifest.eventCursor + 1, ev, result)

ClientCommands ==
  \E cmd \in CommandIDs, result \in ReplaceResults :
    \/ manifest.nextRun < MaxRuns /\ BeginRun(cmd, result)
    \/ RecordCommand(cmd, result)

ClientReserves ==
  \E run \in DOMAIN manifest.budgets, counter \in Counters, amount \in Delays,
     result \in ReplaceResults :
    ReserveBudget(run, counter, amount, result)

ClientEnds ==
  \E result \in ReplaceResults :
    \/ FinishRun(manifest.active, result)
    \/ CloseStore(result)

ProcessDies ==
  \/ Crash
  \/ \E recs \in Batches :
       /\ ~ failed /\ Len(transcriptLog) + Len(recs) <= MaxRecords
       /\ CrashAppending(recs)
  \/ \E ev \in Events :
       /\ ~ failed /\ Len(eventLog) < MaxEvents
       /\ CrashAppendingEvent(manifest.eventCursor + 1, ev)

Next ==
  \/ ClientAppends \/ ClientEmits \/ ClientCommands
  \/ ClientReserves \/ ClientEnds
  \/ ProcessDies \/ Open

Spec == Init /\ [][Next]_storeVars
-----------------------------------------------------------------------------
TypeOK ==
  /\ transcriptLog \in Seq(Entry)
  /\ eventLog \in Seq(EventEntry)
  /\ torn \in BOOLEAN
  /\ manifestFile \in Manifest
  /\ opened \in BOOLEAN
  /\ manifest \in Manifest
  /\ failed \in BOOLEAN

KeepsLimits(m) ==
  \A r \in DOMAIN m.budgets :
    /\ m.budgets[r].calls <= MaxLogicalModelCalls
    /\ m.budgets[r].attempts <= MaxTransportAttempts
    /\ m.budgets[r].delay <= MaxRetryDelay

\* No run is charged beyond its limits (ReserveBudget, store.go:492), however
\* often the session is reopened.
WithinLimits == KeepsLimits(manifest) /\ KeepsLimits(manifestFile)

Grows(old, new) ==
  Len(new) >= Len(old) /\ \A i \in DOMAIN old : new[i] = old[i]

\* A log entry once written is never changed or removed, by no operation, no
\* failing write and no reopening (AppendTranscript, AppendEvent, Open).
LogsOnlyGrow ==
  [][Grows(transcriptLog, transcriptLog') /\ Grows(eventLog, eventLog')]_storeVars

NotReduced(b, c) == b.calls <= c.calls /\ b.attempts <= c.attempts /\ b.delay <= c.delay

Advances(m, n) ==
  /\ m.seen \subseteq n.seen
  /\ m.nextRun <= n.nextRun
  /\ Len(m.budgets) <= Len(n.budgets)
  /\ \A r \in DOMAIN m.budgets : NotReduced(m.budgets[r], n.budgets[r])
  /\ m.closed => n.closed

\* The durable manifest never forgets a command ID, a run or the closing, and
\* never reduces a counter, across failing writes, crashes and reopening
\* (ReserveBudget, RecordCommand, BeginRun, Close, Open).
ManifestOnlyAdvances == [][Advances(manifestFile, manifestFile')]_storeVars
=============================================================================
