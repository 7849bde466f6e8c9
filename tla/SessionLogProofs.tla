-------------------------- MODULE SessionLogProofs --------------------------
(***************************************************************************)
(* What is on the disk of a session, for every value of the constants.     *)
(* From the invariant of SessionProofs: every run ends once, its records   *)
(* are a block, what was published is on disk, and the disk is a lifecycle *)
(* of runs at every moment.                                                *)
(*                                                                         *)
(* Then, that what is in the logs can be loaded again: the marks of the    *)
(* manifest are not ahead of the logs, the lines are numbered, and every   *)
(* call is paired with its result.                                         *)
(*                                                                         *)
(* The lines are right as long as the log can be trusted: until an append  *)
(* that did not complete was tolerated, and again once such a log was      *)
(* loaded (Trusted).  The calls are paired because every job knows which   *)
(* calls are open and which it still owes a result (PairPlan, OpenInv).    *)
(*                                                                         *)
(* Then of memory, that it is what was logged (MemInv) and a session at    *)
(* rest has nothing open; and of the order of the log, that the calls of   *)
(* an answer stand together and their results follow in the same order     *)
(* (OrderInv), which is what the messages of a request need.               *)
(***************************************************************************)
EXTENDS SessionProofs
-----------------------------------------------------------------------------
(***************************************************************************)
(* The properties of the runs that follow.                                 *)
(***************************************************************************)
LEMMA CountsOfRun ==
  ASSUME AInv, NEW run
  PROVE  /\ Outcomes(run) = {} <=> ~ Ended(run)
         /\ Terminals(run) = {} <=> ~ Told(run)
         /\ Cardinality(Outcomes(run)) = IF Ended(run) THEN 1 ELSE 0
         /\ Cardinality(Terminals(run)) = IF Told(run) THEN 1 ELSE 0
         /\ \A i : i \in Outcomes(run) <=> i \in 1..Len(transcriptLog) /\ EndsAt(i, run)
         /\ \A j : j \in Terminals(run) <=> j \in 1..Len(eventLog) /\ TellsAt(j, run)
  <1>1. /\ Len(transcriptLog) \in Nat /\ DOMAIN transcriptLog = 1..Len(transcriptLog)
        /\ Len(eventLog) \in Nat /\ DOMAIN eventLog = 1..Len(eventLog)
    BY DEF AInv, Types, Store!TypeOK
  <1>2. /\ \A i : i \in Outcomes(run) <=> i \in 1..Len(transcriptLog) /\ EndsAt(i, run)
        /\ \A j : j \in Terminals(run) <=> j \in 1..Len(eventLog) /\ TellsAt(j, run)
    BY <1>1 DEF Outcomes, Terminals, EndsAt, TellsAt
  <1>3. /\ Outcomes(run) = {} <=> ~ Ended(run)
        /\ Terminals(run) = {} <=> ~ Told(run)
    BY <1>2 DEF Ended, Told
  <1>4. /\ \A i, j \in 1..Len(transcriptLog) : EndsAt(i, run) /\ EndsAt(j, run) => i = j
        /\ \A i, j \in 1..Len(eventLog) : TellsAt(i, run) /\ TellsAt(j, run) => i = j
    BY DEF AInv, CInv, DiskInv, OnceInv
  <1>5. PICK S, T : S = Outcomes(run) /\ T = Terminals(run)
    OBVIOUS
  <1>6. S \subseteq 1..Len(transcriptLog) /\ \A i, j \in S : i = j
    BY <1>2, <1>4, <1>5
  <1>7. T \subseteq 1..Len(eventLog) /\ \A i, j \in T : i = j
    BY <1>2, <1>4, <1>5
  <1>8. (Cardinality(S) = 0 <=> S = {}) /\ (Cardinality(S) = 1 <=> S # {})
    BY <1>1, <1>6, OneOrNone
  <1>9. (Cardinality(T) = 0 <=> T = {}) /\ (Cardinality(T) = 1 <=> T # {})
    BY <1>1, <1>7, OneOrNone
  <1> QED
    BY <1>2, <1>3, <1>5, <1>8, <1>9

\* Each run has one outcome record and one terminal event, the event never before
\* the record, and only the run the active-run marker names may lack one of them
\* (finishRun session.go:843, reconcileInterrupted session.go:1055).
THEOREM SessionEndsOnce == Spec => []EndsOnce
  <1>1. AInv => EndsOnce
    <2> SUFFICES ASSUME AInv, NEW run \in 1..manifestFile.nextRun
                 PROVE  /\ Outcomes(run) = {} \/ Terminals(run) = {} => manifestFile.active = run
                        /\ Cardinality(Outcomes(run)) <= 1
                        /\ Cardinality(Terminals(run)) <= Cardinality(Outcomes(run))
      BY DEF EndsOnce
    <2>1. run # manifestFile.active => Ended(run) /\ Told(run)
      BY DEF AInv, CInv, DiskInv, RunsInv
    <2>2. Told(run) => Ended(run)
      BY DEF AInv, CInv, DiskInv, RunsInv
    <2> QED
      BY <2>1, <2>2, CountsOfRun
  <1> QED
    BY <1>1, SessionDiskInvariant, PTL

\* However often the process dies in a run and is started again, the records of
\* two runs are never mixed and none of a run follows its outcome
\* (appendPayloadLocked session.go:969, reconcileInterrupted session.go:1055).
THEOREM SessionRunsAreBlocks == Spec => []RunsAreBlocks
  <1>1. AInv => RunsAreBlocks
    <2> SUFFICES ASSUME AInv, NEW i \in DOMAIN transcriptLog, NEW j \in DOMAIN transcriptLog,
                        i < j, transcriptLog[i].rec.run # NoRun
                 PROVE  /\ transcriptLog[i].rec.kind = "run_outcome"
                             => transcriptLog[j].rec.run # transcriptLog[i].rec.run
                        /\ transcriptLog[j].rec.run # NoRun
                             => transcriptLog[i].rec.run <= transcriptLog[j].rec.run
      BY DEF RunsAreBlocks
    <2>1. i \in 1..Len(transcriptLog) /\ j \in 1..Len(transcriptLog)
      BY DEF AInv, Types, Store!TypeOK
    <2> QED
      BY <2>1 DEF AInv, CInv, DiskInv, BlocksInv, EndsAt
  <1> QED
    BY <1>1, SessionDiskInvariant, PTL

\* What a subscriber was sent is in the event log, and a run it saw end is no
\* longer the active one (publishEventLocked session.go:1048 after
\* persistEventLocked session.go:1027, finishRun session.go:843).
THEOREM SessionPublishedIsDurable == Spec => []PublishedIsDurable
  <1>1. AInv => PublishedIsDurable
    <2> SUFFICES ASSUME AInv, NEW i \in DOMAIN history
                 PROVE  /\ \E j \in DOMAIN eventLog : eventLog[j] = history[i]
                        /\ (history[i].ev.kind \in TerminalEvents /\ state # "starting")
                             => manifestFile.active # history[i].ev.run
      BY DEF PublishedIsDurable
    <2>1. DOMAIN history = 1..Len(history) /\ DOMAIN eventLog = 1..Len(eventLog)
      BY DEF AInv, Types, Store!TypeOK
    <2> QED
      BY <2>1 DEF AInv, CInv, ShownInv, EventThere
  <1> QED
    BY <1>1, SessionDiskInvariant, PTL

\* Until the process dies, the terminal event of a run reports the outcome its
\* record names (finishRun session.go:843).  After a crash between the two it
\* need not: reconcileInterrupted (session.go:1085) writes run_failed whatever the
\* record says, which a run of the checker shows.
THEOREM SessionTerminalAgrees == Spec => [](crashes = 0 => TerminalAgrees)
  <1>1. AInv => (crashes = 0 => TerminalAgrees)
    <2> SUFFICES ASSUME AInv, crashes = 0, NEW run \in 1..manifestFile.nextRun,
                        NEW i \in Outcomes(run), NEW j \in Terminals(run)
                 PROVE  LET rec == transcriptLog[i].rec
                            reported == IF rec.outcome = "interrupted" THEN "failed" ELSE rec.outcome
                        IN  eventLog[j].ev = TerminalEvent(run, reported, rec.cause)
      BY DEF TerminalAgrees
    <2>1. /\ i \in 1..Len(transcriptLog) /\ EndsAt(i, run)
          /\ j \in 1..Len(eventLog) /\ TellsAt(j, run)
      BY CountsOfRun
    <2>2. eventLog[j].ev = ReportOf(transcriptLog[i].rec)
      BY <2>1 DEF AInv, CInv, DiskInv, ReportInv
    <2>3. transcriptLog[i].rec.run = run
      BY <2>1 DEF EndsAt
    <2> QED
      BY <2>2, <2>3 DEF ReportOf, Reported
  <1> QED
    BY <1>1, SessionDiskInvariant, PTL
-----------------------------------------------------------------------------
(***************************************************************************)
(* The disk is a lifecycle of runs.  The only steps that touch it make the *)
(* first write of the job, whole, in part or not at all.                   *)
(***************************************************************************)
LEMMA SameStore == UNCHANGED storeVars => Same
  BY DEF storeVars, Same, SameCore, CoreIs

LEMMA BegunSame == ASSUME NEW j, Begins(j) PROVE Same
  BY SameStore DEF Begins

LEMMA MovedSame == ASSUME NEW g, Moves(g) PROVE Same
  BY SameStore DEF Moves

LEMMA ReservedSame ==
  ASSUME AInv, ReserveCall \/ ReserveAttempt \/ ReserveDelay
  PROVE  Same
  <1>1. state = "running"
    BY DEF ReserveCall, ReserveAttempt, ReserveDelay, At, AInv, IInv, ActiveInv
  <1>2. opened /\ Agree
    BY <1>1, OpenNow
  <1>3. ASSUME NEW counter, NEW amount, NEW result,
               Store!ReserveBudget(goroutine.run, counter, amount, result)
        PROVE  Same
    <2> DEFINE budgets == [manifest.budgets EXCEPT ![goroutine.run] = Store!Reserved(@, counter, amount)]
               n == [manifest EXCEPT !.budgets[goroutine.run] = Store!Reserved(@, counter, amount)]
    <2>1. Store!OnlyManifest(n, result)
      BY <1>3 DEF Store!ReserveBudget
    <2>2. n.nextRun = manifest.nextRun /\ n.active = manifest.active /\ n.closed = manifest.closed
      <3>1. manifest \in Store!Manifest
        BY DEF AInv, Types, Store!TypeOK
      <3>2. n = [manifest EXCEPT !.budgets = budgets]
        BY <3>1 DEF Store!Manifest
      <3> HIDE DEF budgets
      <3> QED
        BY <3>1, <3>2 DEF Store!Manifest
    <2>3. SameCore
      BY <1>2, <2>1, <2>2, ReplaceSame DEF Store!OnlyManifest
    <2> QED
      BY <2>1, <2>3 DEF Same, Store!OnlyManifest
  <1>4. CASE UNCHANGED storeVars
    BY <1>4, SameStore
  <1>5. CASE ~ UNCHANGED storeVars
    <2>1. \E counter, amount, result : Store!ReserveBudget(goroutine.run, counter, amount, result)
      BY <1>5 DEF ReserveCall, ReserveAttempt, ReserveDelay, Reserve
    <2> QED
      BY <1>3, <2>1
  <1> QED
    BY <1>4, <1>5

LEMMA DiskStep ==
  ASSUME AInv, [Next]_vars
  PROVE  Same \/ (job.writes # <<>> /\ Leaves(Head(job.writes)))
  <1>1. ASSUME job.writes # <<>>, NEW result, StoreWrite(Head(job.writes), result)
        PROVE  Leaves(Head(job.writes))
    BY <1>1, HeadTyped, AgreeNow, WriteLeaves DEF AInv
  <1>2. CASE WriteSucceeds
    BY <1>1, <1>2 DEF WriteSucceeds
  <1>3. CASE WriteFails
    BY <1>1, <1>3 DEF WriteFails
  <1>4. CASE ProcessDies
    BY <1>4, DeathLeaves DEF AInv
  <1>5. CASE \E cmd \in CommandIDs : Command(cmd)
    BY <1>5, BegunSame DEF Command, Submit, SubmitSensitive, Cancel, Resume, Close
  <1>6. CASE Shutdown \/ EventRefused \/ CommandDone \/ Settle \/ GoroutineGoesOn
    BY <1>6, SameStore DEF Shutdown, EventRefused, CommandDone, Settle, GoroutineGoesOn
  <1>7. CASE ModelCall
    <2>1. CASE ReserveCall \/ ReserveAttempt \/ ReserveDelay
      BY <2>1, ReservedSame
    <2>2. CASE LoopTop \/ Sleep \/ WakeUp \/ ResponseError
      BY <2>2, MovedSame DEF LoopTop, Sleep, WakeUp, ResponseError
    <2>3. CASE RetryStep \/ Answered
      BY <2>3, MovedSame, BegunSame DEF RetryStep, Answered
    <2>4. CASE CheckResponse
      BY <2>4, MovedSame, BegunSame, SameStore DEF CheckResponse
    <2> QED
      BY <1>7, <2>1, <2>2, <2>3, <2>4 DEF ModelCall
  <1>8. CASE ToolCalls
    <2>1. CASE RecordCalls
      BY <2>1, MovedSame, BegunSame DEF RecordCalls
    <2>2. CASE NextTool \/ ExecuteTool
      BY <2>2, BegunSame DEF NextTool, ExecuteTool, FinishesTool
    <2>3. CASE CallsDone
      BY <2>3, MovedSame DEF CallsDone
    <2>4. CASE FinishRun
      BY <2>4, BegunSame DEF FinishRun
    <2>5. CASE FaultRun
      BY <2>5, SameStore DEF FaultRun
    <2> QED
      BY <1>8, <2>1, <2>2, <2>3, <2>4, <2>5 DEF ToolCalls
  <1>9. CASE Provider
    BY <1>9, MovedSame, BegunSame DEF Provider, StreamDelta, ProviderAnswers, ProviderFails,
       ProviderCancelled
  <1>10. CASE Load
    BY <1>10 DEF Load, Store!Open, Store!disk, Same, SameCore, CoreIs
  <1>11. CASE NewSessionEnds
    BY <1>11, SameStore DEF NewSessionEnds, Loaded, LoadRefused, Store!Crash, Store!disk, Same,
       SameCore, CoreIs
  <1>12. CASE UNCHANGED vars
    BY <1>12, SameStore DEF vars
  <1> QED
    BY <1>2, <1>3, <1>4, <1>5, <1>6, <1>7, <1>8, <1>9, <1>10, <1>11, <1>12 DEF Next, HoldsLock
\* The first write of a job, by what it can do to the lifecycle.
KeepsRuns(w) ==
  \/ w.op \notin {"begin", "append"}
  \/ \E run : Open(run) /\ w.op = "append" /\ \A i \in 1..Len(w.recs) : Plain(w.recs[i], run)
EndsRun(w) == \E run \in Nat : \E rec : IsOutcome(rec, run) /\ Open(run) /\ RecordWrite(w, rec)
ActsOnRuns(w) ==
  \/ KeepsRuns(w)
  \/ w.op = "begin" /\ Resting
  \/ EndsRun(w)
  \/ RecordWrite(w, SessionClosed) /\ Resting

LEMMA PlainActs == ASSUME NEW w, NEW run, PlainWrite(w, run), Open(run) PROVE KeepsRuns(w)
  BY DEF PlainWrite, KeepsRuns

LEMMA EndPlanActs ==
  ASSUME NEW W \in Seq(StoreCall), W # <<>>, NEW run \in Nat, NEW rec, IsOutcome(rec, run),
         EndPlan(W, run, rec)
  PROVE  ActsOnRuns(W[1])
  <1> DEFINE n == Len(W)
  <1>1. n \in Nat /\ n > 0
    OBVIOUS
  <1>2. \/ /\ Open(run) /\ n >= 3 /\ RecordWrite(W[n - 2], rec) /\ AllPlain(W, n - 3, run)
        \/ n = 2 /\ EventWrite(W[1], ReportOf(rec))
        \/ n = 1 /\ W[1].op = "finish"
    BY <1>1 DEF EndPlan
  <1> HIDE DEF n
  <1>3. CASE Open(run) /\ n >= 3 /\ RecordWrite(W[n - 2], rec) /\ AllPlain(W, n - 3, run)
    <2>1. CASE n = 3
      <3>1. RecordWrite(W[1], rec)
        BY <1>3, <2>1
      <3> QED
        BY <1>3, <3>1 DEF ActsOnRuns, EndsRun
    <2>2. CASE n # 3
      <3>1. 1 \in 1..(n - 3)
        BY <1>1, <1>3, <2>2
      <3>2. PlainWrite(W[1], run)
        BY <1>3, <3>1 DEF AllPlain
      <3> QED
        BY <1>3, <3>2, PlainActs DEF ActsOnRuns
    <2> QED
      BY <2>1, <2>2
  <1>4. CASE n = 2 /\ EventWrite(W[1], ReportOf(rec))
    BY <1>4 DEF EventWrite, ActsOnRuns, KeepsRuns
  <1>5. CASE n = 1 /\ W[1].op = "finish"
    BY <1>5 DEF ActsOnRuns, KeepsRuns
  <1> QED
    BY <1>2, <1>3, <1>4, <1>5

LEMMA ClosePlanActs ==
  ASSUME NEW W \in Seq(StoreCall), W # <<>>, ClosePlan(W)
  PROVE  ActsOnRuns(W[1])
  <1> DEFINE n == Len(W)
  <1>1. n \in Nat /\ n > 0
    OBVIOUS
  <1>2. \/ /\ Resting /\ n >= 3 /\ RecordWrite(W[n - 2], SessionClosed) /\ AllQuiet(W, n - 3)
        \/ W[1].op = "close"
        \/ ToldWrite(W[1])
        \/ AllQuiet(W, n)
    BY <1>1 DEF ClosePlan
  <1> HIDE DEF n
  <1>3. ASSUME QuietWrite(W[1]) PROVE ActsOnRuns(W[1])
    BY <1>3 DEF QuietWrite, ActsOnRuns, KeepsRuns
  <1>4. CASE Resting /\ n >= 3 /\ RecordWrite(W[n - 2], SessionClosed) /\ AllQuiet(W, n - 3)
    <2>1. CASE n = 3
      <3>1. RecordWrite(W[1], SessionClosed)
        BY <1>4, <2>1
      <3> QED
        BY <1>4, <3>1 DEF ActsOnRuns
    <2>2. CASE n # 3
      <3>1. 1 \in 1..(n - 3)
        BY <1>1, <1>4, <2>2
      <3> QED
        BY <1>3, <1>4, <3>1 DEF AllQuiet
    <2> QED
      BY <2>1, <2>2
  <1>5. CASE W[1].op = "close" \/ ToldWrite(W[1])
    BY <1>5 DEF ToldWrite, ActsOnRuns, KeepsRuns
  <1>6. CASE AllQuiet(W, n)
    <2>1. 1 \in 1..n
      BY <1>1
    <2> QED
      BY <1>3, <1>6, <2>1 DEF AllQuiet
  <1> QED
    BY <1>2, <1>4, <1>5, <1>6

LEMMA HeadActs ==
  ASSUME AInv, job.writes # <<>>
  PROVE  ActsOnRuns(Head(job.writes))
  <1>1. PICK W \in Seq(StoreCall) : W = job.writes
    BY DEF AInv, Types, JobType
  <1>2. W # <<>> /\ PlanInv
    BY <1>1 DEF AInv, CInv
  <1>3. Head(W) = W[1] /\ Len(W) \in Nat /\ 1 \in 1..Len(W)
    BY <1>2, FirstOf
  <1> SUFFICES ActsOnRuns(W[1])
    BY <1>1, <1>3
  <1>4. ASSUME QuietWrite(W[1]) PROVE ActsOnRuns(W[1])
    BY <1>4 DEF QuietWrite, ActsOnRuns, KeepsRuns
  <1>5. ASSUME NEW run, Open(run), AllPlain(W, Len(W), run) PROVE ActsOnRuns(W[1])
    BY <1>3, <1>5, PlainActs DEF AllPlain, ActsOnRuns
  <1>6. CASE job.after \in {"free", "cancelled", "rejected", "done"}
    BY <1>1, <1>2, <1>3, <1>4, <1>6 DEF PlanInv, AllQuiet
  <1>7. CASE job.after = "started"
    <2>1. \/ Resting /\ W[1].op = "begin"
          \/ Open(manifestFile.active) /\ AllPlain(W, Len(W), manifestFile.active)
      BY <1>1, <1>2, <1>7 DEF PlanInv, StartPlan
    <2> QED
      BY <1>5, <2>1 DEF ActsOnRuns
  <1>8. CASE job.after \in AfterRun \ {"settle"}
    BY <1>1, <1>2, <1>5, <1>8 DEF PlanInv
  <1>9. CASE job.after = "settle"
    <2>1. EndPlan(W, goroutine.run, OutcomeFact)
      BY <1>1, <1>2, <1>9 DEF PlanInv
    <2>2. IsOutcome(OutcomeFact, goroutine.run) /\ goroutine.run \in Nat
      BY <1>9, SettlePlace, OutcomeFacts DEF AInv
    <2> QED
      BY <1>2, <2>1, <2>2, EndPlanActs
  <1>10. CASE job.after \in {"closed", "loaded"}
    BY <1>1, <1>2, <1>10, ClosePlanActs DEF PlanInv
  <1>11. CASE job.after = "reconciled"
    <2>1. PICK run \in Nat : run = manifestFile.active
      BY OutcomeFacts DEF AInv
    <2>2. EndPlan(W, run, RunOutcome(run, "interrupted", "interrupted"))
      BY <1>1, <1>2, <1>11, <2>1 DEF PlanInv
    <2>3. IsOutcome(RunOutcome(run, "interrupted", "interrupted"), run)
      BY OutcomeFacts DEF AInv
    <2> QED
      BY <1>2, <2>2, <2>3, EndPlanActs
  <1>12. job.after # "refused"
    BY <1>1, <1>2 DEF PlanInv
  <1>13. job.after \in Afters
    BY DEF AInv, Types, JobType
  <1> QED
    BY <1>6, <1>7, <1>8, <1>9, <1>10, <1>11, <1>12, <1>13 DEF Afters, AfterLoad

(***************************************************************************)
(* The effects, in terms of the outcomes that are recorded.                *)
(***************************************************************************)
Kept ==
  \A i \in 1..Len(transcriptLog) : i \in 1..Len(transcriptLog') /\ transcriptLog'[i] = transcriptLog[i]
EndedBut(run) == \A r : r # run => (Ended(r)' => Ended(r))

NoneEnds ==
  /\ manifestFile'.nextRun = manifestFile.nextRun /\ Kept
  /\ \A r : Ended(r)' => Ended(r)
Stays == NoneEnds /\ (FactThere' <=> FactThere)
OneBegins ==
  Resting /\ transcriptLog' = transcriptLog /\ manifestFile'.nextRun = manifestFile.nextRun + 1
OneEnds(run, rec) ==
  /\ IsOutcome(rec, run) /\ Open(run)
  /\ manifestFile'.nextRun = manifestFile.nextRun /\ Kept /\ EndedBut(run)
  /\ \E i \in 1..Len(transcriptLog') : EndsAt(i, run)' /\ transcriptLog'[i].rec = rec
  /\ FactThere' <=> FactThere
FactAppears == Resting /\ NoneEnds /\ FactThere'

LEMMA UnmovedLog ==
  ASSUME transcriptLog' = transcriptLog
  PROVE  /\ Kept
         /\ \A r : Ended(r)' => Ended(r)
         /\ FactThere' <=> FactThere
  BY LogSame DEF Kept

LEMMA SameStays == ASSUME Same PROVE Stays
  BY UnmovedLog DEF Same, SameCore, CoreIs, Stays, NoneEnds

LEMMA KeepsStays ==
  ASSUME AInv, NEW w \in StoreCall, KeepsRuns(w), Leaves(w)
  PROVE  Stays
  <1>1. CASE w.op \notin {"begin", "append"}
    <2>1. transcriptLog' = transcriptLog /\ manifestFile'.nextRun = manifestFile.nextRun
      BY <1>1 DEF Leaves, Does, Same, Noted, CoreOnly, SameCore, CoreIs, StoreCall, WriteOp
    <2> QED
      BY <2>1, UnmovedLog DEF Stays, NoneEnds
  <1>2. CASE Same
    BY <1>2, SameStays
  <1>3. ASSUME NEW run, Open(run), NEW part, Prefix(part, w.recs), Added(part),
               \A i \in 1..Len(w.recs) : Plain(w.recs[i], run)
        PROVE  Stays
    <2>1. part \in Seq(Record) /\ w.recs \in Seq(Record)
      BY <1>3 DEF Prefix, StoreCall
    <2>2. \A k \in 1..Len(part) : Plain(part[k], run)
      <3>1. ASSUME NEW k \in 1..Len(part) PROVE k \in 1..Len(w.recs) /\ part[k] = w.recs[k]
        BY <1>3, <2>1, <3>1 DEF Prefix
      <3> QED
        BY <1>3, <3>1
    <2>3. Store!TypeOK
      BY DEF AInv, Types
    <2>4. Kept
      BY <1>3, <2>1, <2>3, AddedAt DEF Kept
    <2>5. ASSUME NEW i \in 1..Len(transcriptLog'), i \notin 1..Len(transcriptLog)
          PROVE  Plain(transcriptLog'[i].rec, run)
      BY <1>3, <2>1, <2>2, <2>3, <2>5, AddedAt
    <2>6. \A r : Ended(r)' => Ended(r)
      BY <2>4, <2>5 DEF Kept, Plain, Ended, EndsAt
    <2>7. FactThere' <=> FactThere
      BY <2>4, <2>5 DEF Kept, Plain, FactThere, ClosesAt
    <2> QED
      BY <1>3, <2>4, <2>6, <2>7 DEF Stays, NoneEnds, Added, SameCore, CoreIs
  <1>4. w.op = "append" /\ Added(w.recs) => Prefix(w.recs, w.recs)
    BY DEF Prefix, StoreCall
  <1> QED
    BY <1>1, <1>2, <1>3, <1>4 DEF KeepsRuns, Leaves, Does

LEMMA EndsEffect ==
  ASSUME AInv, Store!TypeOK', NEW w \in StoreCall, NEW run \in Nat, NEW rec, IsOutcome(rec, run),
         Open(run), RecordWrite(w, rec), Leaves(w)
  PROVE  Stays \/ OneEnds(run, rec)
  <1>1. Store!TypeOK
    BY DEF AInv, Types
  <1>2. ASSUME NEW part \in Seq(Record), Len(part) = 1, part[1] = rec, Added(part)
        PROVE  OneEnds(run, rec)
    <2>0. PICK n : n = Len(transcriptLog)
      OBVIOUS
    <2>1. /\ \A i \in 1..n : i \in 1..Len(transcriptLog') /\ transcriptLog'[i] = transcriptLog[i]
          /\ n + 1 \in 1..Len(transcriptLog') /\ transcriptLog'[n + 1].rec = rec
          /\ \A i \in 1..Len(transcriptLog') : i \in 1..n \/ i = n + 1
      BY <1>1, <1>2, <2>0, OneAdded
    <2>2. rec.kind = "run_outcome" /\ rec.run = run
      BY DEF IsOutcome
    <2>3. manifestFile'.nextRun = manifestFile.nextRun
      BY <1>2 DEF Added, SameCore, CoreIs
    <2>4. Kept
      BY <2>0, <2>1 DEF Kept
    <2>5. EndedBut(run)
      BY <2>0, <2>1, <2>2 DEF EndedBut, Ended, EndsAt
    <2>6. EndsAt(n + 1, run)'
      BY <2>1, <2>2 DEF EndsAt
    <2>7. FactThere' <=> FactThere
      BY <2>0, <2>1, <2>2 DEF FactThere, ClosesAt
    <2> QED
      BY <2>1, <2>3, <2>4, <2>5, <2>6, <2>7 DEF OneEnds
  <1> QED
    BY <1>1, <1>2, RecordLeaves, SameStays DEF OneMore

LEMMA FactEffect ==
  ASSUME AInv, Store!TypeOK', NEW w \in StoreCall, RecordWrite(w, SessionClosed), Resting, Leaves(w)
  PROVE  Stays \/ FactAppears
  <1>1. Store!TypeOK
    BY DEF AInv, Types
  <1>2. ASSUME NEW part \in Seq(Record), Len(part) = 1, part[1] = SessionClosed, Added(part)
        PROVE  FactAppears
    <2>0. PICK n : n = Len(transcriptLog)
      OBVIOUS
    <2>1. /\ \A i \in 1..n : i \in 1..Len(transcriptLog') /\ transcriptLog'[i] = transcriptLog[i]
          /\ n + 1 \in 1..Len(transcriptLog') /\ transcriptLog'[n + 1].rec = SessionClosed
          /\ \A i \in 1..Len(transcriptLog') : i \in 1..n \/ i = n + 1
      BY <1>1, <1>2, <2>0, OneAdded
    <2>2. SessionClosed.kind = "session_closed"
      BY DEF SessionClosed, Fact
    <2>3. manifestFile'.nextRun = manifestFile.nextRun
      BY <1>2 DEF Added, SameCore, CoreIs
    <2>4. Kept
      BY <2>0, <2>1 DEF Kept
    <2>5. \A r : Ended(r)' => Ended(r)
      BY <2>0, <2>1, <2>2 DEF Ended, EndsAt
    <2>6. FactThere'
      BY <2>0, <2>1, <2>2 DEF FactThere, ClosesAt
    <2> QED
      BY <2>3, <2>4, <2>5, <2>6 DEF FactAppears, NoneEnds
  <1> QED
    BY <1>1, <1>2, RecordLeaves, SameStays DEF OneMore

LEMMA DiskEffects ==
  ASSUME AInv, AInv', [Next]_vars
  PROVE  Stays \/ OneBegins \/ FactAppears \/ \E run, rec : OneEnds(run, rec)
  <1>1. CASE Same
    BY <1>1, SameStays
  <1>2. CASE job.writes # <<>> /\ Leaves(Head(job.writes))
    <2>1. PICK w \in StoreCall : w = Head(job.writes)
      BY <1>2, HeadTyped DEF AInv
    <2>2. ActsOnRuns(w) /\ Leaves(w)
      BY <1>2, <2>1, HeadActs
    <2>3. Store!TypeOK'
      BY DEF AInv, Types
    <2>5. CASE KeepsRuns(w)
      BY <2>2, <2>5, KeepsStays
    <2>6. CASE w.op = "begin" /\ Resting
      <3>1. Same \/ CoreOnly(manifestFile.nextRun + 1, manifestFile.nextRun + 1, manifestFile.closed)
        BY <2>2, <2>6 DEF Leaves, Does
      <3> QED
        BY <2>6, <3>1, SameStays DEF CoreOnly, CoreIs, OneBegins
    <2>7. CASE EndsRun(w)
      BY <2>2, <2>3, <2>7, EndsEffect DEF EndsRun
    <2>8. CASE RecordWrite(w, SessionClosed) /\ Resting
      BY <2>2, <2>3, <2>8, FactEffect
    <2> QED
      BY <2>2, <2>5, <2>6, <2>7, <2>8 DEF ActsOnRuns
  <1> QED
    BY <1>1, <1>2, DiskStep

\* What the refinement mapping shows of the disk.
OutcomesAre ==
  /\ \A run : ~ Ended(run) => OutcomeOf(run) = "active"
  /\ \A run : \A i \in 1..Len(transcriptLog) :
       EndsAt(i, run) => OutcomeOf(run) = transcriptLog[i].rec.outcome
ClosedIs == CloseFacts(transcriptLog) > 0 <=> FactThere

LEMMA OutcomesNow == AInv => OutcomesAre /\ ClosedIs
  <1> SUFFICES ASSUME AInv PROVE OutcomesAre /\ ClosedIs
    OBVIOUS
  <1>1. ASSUME NEW run, ~ Ended(run) PROVE OutcomeOf(run) = "active"
    BY <1>1, CountsOfRun DEF OutcomeOf
  <1>2. ASSUME NEW run, NEW i \in 1..Len(transcriptLog), EndsAt(i, run)
        PROVE  OutcomeOf(run) = transcriptLog[i].rec.outcome
    <2>1. i \in Outcomes(run)
      BY <1>2, CountsOfRun
    <2>2. \A j \in Outcomes(run) : j = i
      BY <1>2, CountsOfRun DEF AInv, CInv, DiskInv, OnceInv
    <2>3. (CHOOSE j \in Outcomes(run) : TRUE) = i
      BY <2>1, <2>2
    <2> QED
      BY <2>1, <2>3 DEF OutcomeOf
  <1>3. ClosedIs
    <2>1. CloseFacts(transcriptLog) = 1 \/ CloseFacts(transcriptLog) = 0
      BY CloseFound DEF FactThere
    <2> QED
      BY <2>1, CloseFound DEF ClosedIs
  <1> QED
    BY <1>1, <1>2, <1>3 DEF OutcomesAre

LEMMA OutcomesThen == AInv' => (OutcomesAre /\ ClosedIs)'
  BY OutcomesNow, PTL

\* A recorded outcome is never rewritten, and a run is open until it has one.
LEMMA OutcomesStay ==
  ASSUME AInv, AInv', Kept
  PROVE  /\ \A run : Ended(run) => OutcomeOf(run)' = OutcomeOf(run)
         /\ \A run : (Ended(run)' => Ended(run)) => OutcomeOf(run)' = OutcomeOf(run)
  <1>1. OutcomesAre /\ OutcomesAre'
    BY OutcomesNow, OutcomesThen
  <1>2. ASSUME NEW run, Ended(run) PROVE OutcomeOf(run)' = OutcomeOf(run)
    <2>1. PICK i \in 1..Len(transcriptLog) : EndsAt(i, run)
      BY <1>2 DEF Ended
    <2>2. i \in 1..Len(transcriptLog') /\ transcriptLog'[i] = transcriptLog[i]
      BY DEF Kept
    <2>3. EndsAt(i, run)'
      BY <2>1, <2>2 DEF EndsAt
    <2>4. OutcomeOf(run)' = transcriptLog'[i].rec.outcome
      BY <1>1, <2>2, <2>3 DEF OutcomesAre
    <2>5. OutcomeOf(run) = transcriptLog[i].rec.outcome
      BY <1>1, <2>1 DEF OutcomesAre
    <2> QED
      BY <2>2, <2>4, <2>5
  <1>3. ASSUME NEW run, ~ Ended(run), ~ Ended(run)' PROVE OutcomeOf(run)' = OutcomeOf(run)
    BY <1>1, <1>3 DEF OutcomesAre
  <1> QED
    BY <1>2, <1>3

RunsNow == [run \in 1..manifestFile.nextRun |-> OutcomeOf(run)]
ClosedNow == CloseFacts(transcriptLog) > 0

LEMMA EndedOutcome ==
  ASSUME AInv, NEW run, Ended(run)
  PROVE  OutcomeOf(run) \in RunOutcomes /\ OutcomeOf(run) # "active"
  <1>1. PICK i \in 1..Len(transcriptLog) : EndsAt(i, run)
    BY DEF Ended
  <1>2. OutcomeOf(run) = transcriptLog[i].rec.outcome
    BY <1>1, OutcomesNow DEF OutcomesAre
  <1>3. transcriptLog[i].rec.outcome \in RunOutcomes
    BY <1>1 DEF AInv, CInv, DiskInv, KnownInv, EndsAt
  <1> QED
    BY <1>2, <1>3 DEF RunOutcomes

LEMMA NoneEndsSame == ASSUME AInv, AInv', NoneEnds PROVE RunsNow' = RunsNow
  <1>1. \A run : OutcomeOf(run)' = OutcomeOf(run)
    BY OutcomesStay DEF NoneEnds
  <1> QED
    BY <1>1 DEF RunsNow, NoneEnds

LEMMA RestingAllEnded ==
  ASSUME AInv, Resting
  PROVE  /\ \A run \in 1..manifestFile.nextRun : OutcomeOf(run) # "active"
         /\ CloseFacts(transcriptLog) > 0 <=> FALSE
  <1>1. ASSUME NEW run \in 1..manifestFile.nextRun PROVE Ended(run)
    <2>1. run # manifestFile.active
      BY DEF Resting, NoRun
    <2> QED
      BY <2>1 DEF AInv, CInv, DiskInv, RunsInv
  <1>2. CloseFacts(transcriptLog) > 0 <=> FALSE
    BY OutcomesNow DEF ClosedIs, Resting
  <1> QED
    BY <1>1, <1>2, EndedOutcome

LEMMA BeginImplements ==
  ASSUME AInv, AInv', OneBegins
  PROVE  Lifecycle!Begin
  <1>1. manifestFile.nextRun \in Nat
    BY DEF AInv, Types, Store!TypeOK, Store!Manifest
  <1>2. PICK k \in Nat : k = manifestFile.nextRun
    BY <1>1
  <1>3. transcriptLog' = transcriptLog /\ manifestFile'.nextRun = k + 1 /\ Resting
    BY <1>2 DEF OneBegins
  <1>4. \A run : OutcomeOf(run)' = OutcomeOf(run)
    BY <1>3, UnmovedLog, OutcomesStay
  <1>5. OutcomeOf(k + 1) = "active"
    <2>1. ~ Ended(k + 1)
      <3>1. \A i \in 1..Len(transcriptLog) : transcriptLog[i].rec.run \in 0..k
        BY <1>2 DEF AInv, CInv, DiskInv, KnownInv
      <3> QED
        BY <1>2, <3>1 DEF Ended, EndsAt
    <2> QED
      BY <2>1, OutcomesNow DEF OutcomesAre
  <1>6. RunsNow' = Append(RunsNow, "active")
    <2>1. PICK f : f = RunsNow
      OBVIOUS
    <2>2. f = [run \in 1..k |-> OutcomeOf(run)]
      BY <1>2, <2>1 DEF RunsNow
    <2>3. RunsNow' = [run \in 1..(k + 1) |-> OutcomeOf(run)]
      BY <1>3, <1>4 DEF RunsNow
    <2>4. PICK S : S = {OutcomeOf(run) : run \in 1..(k + 1)} \cup {"active"}
      OBVIOUS
    <2>5. f \in Seq(S) /\ Len(f) = k /\ [run \in 1..(k + 1) |-> OutcomeOf(run)] \in Seq(S)
      <3>1. \A i \in 1..k : i \in 1..(k + 1)
        OBVIOUS
      <3> QED
        BY <1>2, <2>2, <2>4, <3>1
    <2>6. PICK g \in Seq(S) : g = [run \in 1..(k + 1) |-> OutcomeOf(run)]
      BY <2>5
    <2>7. /\ Append(f, "active") \in Seq(S) /\ Len(Append(f, "active")) = k + 1
          /\ Append(f, "active")[k + 1] = "active"
          /\ \A i \in 1..k : Append(f, "active")[i] = f[i]
      BY <2>4, <2>5, AppendProperties
    <2>8. Len(g) = k + 1 /\ g[k + 1] = "active" /\ \A i \in 1..k : g[i] = f[i]
      BY <1>2, <1>5, <2>2, <2>6
    <2>9. ASSUME NEW h \in Seq(S), h = Append(f, "active") PROVE g = h
      <3>1. \A i \in 1..(k + 1) : i \in 1..k \/ i = k + 1
        BY <1>2
      <3>2. Len(h) = Len(g) /\ \A i \in 1..Len(h) : h[i] = g[i]
        BY <2>7, <2>8, <2>9, <3>1
      <3> QED
        BY <3>2, SeqEqual
    <2> QED
      BY <2>1, <2>3, <2>6, <2>7, <2>9
  <1>7. /\ ~ (CloseFacts(transcriptLog) > 0)
        /\ \A run \in 1..manifestFile.nextRun : OutcomeOf(run) # "active"
    BY <1>3, RestingAllEnded
  <1>8. (CloseFacts(transcriptLog) > 0)' = (CloseFacts(transcriptLog) > 0)
    BY <1>3 DEF CloseFacts
  <1>9. \A r \in DOMAIN RunsNow : RunsNow[r] # "active"
    BY <1>7 DEF RunsNow
  <1> QED
    BY <1>6, <1>7, <1>8, <1>9 DEF Lifecycle!Begin, Lifecycle!AllEnded, RunsNow

LEMMA EndImplements ==
  ASSUME AInv, AInv', NEW run, NEW rec, OneEnds(run, rec)
  PROVE  Lifecycle!End
  <1>1. /\ IsOutcome(rec, run) /\ Open(run) /\ Kept /\ EndedBut(run)
        /\ manifestFile'.nextRun = manifestFile.nextRun
        /\ FactThere' <=> FactThere
        /\ \E i \in 1..Len(transcriptLog') : EndsAt(i, run)' /\ transcriptLog'[i].rec = rec
    BY DEF OneEnds
  <1>2. run \in 1..manifestFile.nextRun /\ OutcomeOf(run) = "active"
    <2>1. run # NoRun /\ run = manifestFile.active /\ ~ Ended(run)
      BY <1>1 DEF Open
    <2>2. run = manifestFile.nextRun /\ manifestFile.nextRun \in Nat /\ run # 0
      BY <2>1 DEF AInv, CInv, DiskInv, RunsInv, Types, Store!TypeOK, Store!Manifest, NoRun
    <2> QED
      BY <2>1, <2>2, OutcomesNow DEF OutcomesAre
  <1>3. OutcomeOf(run)' = rec.outcome /\ rec.outcome \in RunOutcomes
    BY <1>1, OutcomesThen DEF OutcomesAre, IsOutcome
  <1>4. \A r : r # run => OutcomeOf(r)' = OutcomeOf(r)
    BY <1>1, OutcomesStay DEF EndedBut
  <1>5. RunsNow' = [RunsNow EXCEPT ![run] = rec.outcome]
    BY <1>1, <1>2, <1>3, <1>4 DEF RunsNow
  <1>6. RunsNow[run] = "active" /\ run \in DOMAIN RunsNow
    BY <1>2 DEF RunsNow
  <1>7. (CloseFacts(transcriptLog) > 0)' <=> (CloseFacts(transcriptLog) > 0)
    BY <1>1, OutcomesNow, OutcomesThen DEF ClosedIs
  <1>8. rec.outcome \in Lifecycle!Outcome
    BY <1>3 DEF Lifecycle!Outcome, RunOutcomes
  <1>9. \E r \in DOMAIN RunsNow, outcome \in Lifecycle!Outcome :
          RunsNow[r] = "active" /\ RunsNow' = [RunsNow EXCEPT ![r] = outcome]
    BY <1>5, <1>6, <1>8
  <1>10. (CloseFacts(transcriptLog) > 0)' = (CloseFacts(transcriptLog) > 0)
    BY <1>7
  <1> QED
    BY <1>9, <1>10 DEF Lifecycle!End, RunsNow

LEMMA CloseImplements ==
  ASSUME AInv, AInv', FactAppears
  PROVE  Lifecycle!Close
  <1>1. Resting /\ NoneEnds /\ FactThere'
    BY DEF FactAppears
  <1>2. RunsNow' = RunsNow
    BY <1>1, NoneEndsSame
  <1>3. \A r \in DOMAIN RunsNow : RunsNow[r] # "active"
    BY <1>1, RestingAllEnded DEF RunsNow
  <1>4. ~ (CloseFacts(transcriptLog) > 0)
    BY <1>1, RestingAllEnded
  <1>5. (CloseFacts(transcriptLog) > 0)' <=> TRUE
    BY <1>1, OutcomesThen DEF ClosedIs
  <1> QED
    BY <1>2, <1>3, <1>4, <1>5 DEF Lifecycle!Close, Lifecycle!AllEnded, RunsNow

\* Every step of the session is one of the lifecycle, or shows nothing there.
LEMMA StepImplements ==
  ASSUME AInv, AInv', [Next]_vars
  PROVE  [Lifecycle!Next]_<<RunsNow, ClosedNow>>
  <1>1. CASE Stays
    <2>1. RunsNow' = RunsNow
      BY <1>1, NoneEndsSame DEF Stays
    <2>2. (CloseFacts(transcriptLog) > 0)' = (CloseFacts(transcriptLog) > 0)
      BY <1>1, OutcomesNow, OutcomesThen DEF Stays, ClosedIs
    <2> QED
      BY <2>1, <2>2 DEF ClosedNow
  <1>2. CASE OneBegins
    BY <1>2, BeginImplements DEF Lifecycle!Next
  <1>3. CASE FactAppears
    BY <1>3, CloseImplements DEF Lifecycle!Next
  <1>4. CASE \E run, rec : OneEnds(run, rec)
    BY <1>4, EndImplements DEF Lifecycle!Next
  <1> QED
    BY <1>1, <1>2, <1>3, <1>4, DiskEffects

\* The disk of a session, through crashes, failed writes and reloads, is a
\* lifecycle of runs: they begin one after the other, none while another is
\* open, each gets one outcome that never changes, and none begins after the
\* session was closed (Store.BeginRun store.go:415, finishRun session.go:843,
\* reconcileInterrupted session.go:1055, Apply session.go:389).
THEOREM SessionImplementsLifecycle == Spec => ImplementsLifecycle
  <1>1. Init => Lifecycle!Init
    <2> SUFFICES ASSUME Init PROVE Lifecycle!Init
      OBVIOUS
    <2>1. transcriptLog = <<>> /\ manifestFile.nextRun = 0
      BY DEF Init, Store!Init, Store!FreshManifest
    <2>2. RunsNow = <<>>
      BY <2>1 DEF RunsNow
    <2>3. AInv
      BY InitInv, InitTyped, InitKeeps DEF AInv
    <2>4. ~ FactThere
      BY <2>1 DEF FactThere
    <2>5. (CloseFacts(transcriptLog) > 0) = FALSE
      BY <2>3, <2>4, OutcomesNow DEF ClosedIs
    <2> QED
      BY <2>2, <2>5 DEF Lifecycle!Init, RunsNow
  <1>2. AInv /\ AInv' /\ [Next]_vars => [Lifecycle!Next]_<<RunsNow, ClosedNow>>
    BY StepImplements
  <1> QED
    BY <1>1, <1>2, SessionDiskInvariant, PTL
       DEF Spec, ImplementsLifecycle, Lifecycle!Spec, RunsNow, ClosedNow
-----------------------------------------------------------------------------
(***************************************************************************)
(* The steps of the store among those of the session.                      *)
(***************************************************************************)
Calls == job.writes # <<>> /\ \E result : StoreWrite(Head(job.writes), result)
Reserves == \E run, counter, amount, result : Store!ReserveBudget(run, counter, amount, result)
DiesAppending ==
  /\ job.writes # <<>>
  /\ \/ Head(job.writes).op = "append" /\ Store!CrashAppending(Head(job.writes).recs)
     \/ /\ Head(job.writes).op \in {"emit", "persist"}
        /\ Store!CrashAppendingEvent(cursor + 1, Head(job.writes).ev)

StoreSteps ==
  UNCHANGED storeVars \/ Calls \/ Reserves \/ Store!Crash \/ DiesAppending \/ Store!Open

LEMMA StoreStep ==
  ASSUME [Next]_vars
  PROVE  StoreSteps
  <1>1. CASE WriteSucceeds \/ WriteFails
    BY <1>1 DEF WriteSucceeds, WriteFails, StoreSteps, Calls
  <1>2. CASE ProcessDies
    BY <1>2 DEF ProcessDies, StoreSteps, DiesAppending
  <1>3. CASE \E cmd \in CommandIDs : Command(cmd)
    BY <1>3 DEF Command, Submit, SubmitSensitive, Cancel, Resume, Close, Begins, StoreSteps
  <1>4. CASE Shutdown \/ EventRefused \/ CommandDone \/ Settle \/ GoroutineGoesOn
    BY <1>4 DEF Shutdown, EventRefused, CommandDone, Settle, GoroutineGoesOn, StoreSteps
  <1>5. CASE ReserveCall \/ ReserveAttempt \/ ReserveDelay
    BY <1>5 DEF ReserveCall, ReserveAttempt, ReserveDelay, Reserve, StoreSteps, Reserves
  <1>6. CASE LoopTop \/ Sleep \/ WakeUp \/ ResponseError \/ CallsDone
    BY <1>6 DEF LoopTop, Sleep, WakeUp, ResponseError, CallsDone, Moves, StoreSteps
  <1>7. CASE RetryStep \/ Answered \/ CheckResponse \/ RecordCalls
    BY <1>7 DEF RetryStep, Answered, CheckResponse, RecordCalls, Moves, Begins, StoreSteps
  <1>8. CASE NextTool \/ ExecuteTool \/ FinishRun
    BY <1>8 DEF NextTool, ExecuteTool, FinishesTool, FinishRun, Begins, StoreSteps
  <1>9. CASE FaultRun
    BY <1>9 DEF FaultRun, StoreSteps
  <1>10. CASE Provider
    BY <1>10 DEF Provider, StreamDelta, ProviderAnswers, ProviderFails, ProviderCancelled, Moves,
       Begins, StoreSteps
  <1>11. CASE Load
    BY <1>11 DEF Load, StoreSteps
  <1>12. CASE Loaded \/ LoadRefused
    BY <1>12 DEF Loaded, LoadRefused, StoreSteps
  <1>13. CASE UNCHANGED vars
    BY <1>13 DEF vars, StoreSteps
  <1> QED
    BY <1>1, <1>2, <1>3, <1>4, <1>5, <1>6, <1>7, <1>8, <1>9, <1>10, <1>11, <1>12, <1>13
       DEF Next, HoldsLock, ModelCall, ToolCalls, NewSessionEnds
-----------------------------------------------------------------------------
(***************************************************************************)
(* The marks and the budgets of the manifest.                              *)
(***************************************************************************)
Behind(m) ==
  /\ m.transcriptSeq <= Len(transcriptLog) /\ m.eventCursor <= Len(eventLog)
  /\ Len(m.budgets) = m.nextRun

\* The marks are behind the logs, and those of a handle none of whose appends
\* failed are where the logs end.
MarksInv ==
  /\ Behind(manifest) /\ Behind(manifestFile)
  /\ opened /\ ~ failed =>
       manifest.transcriptSeq = Len(transcriptLog) /\ manifest.eventCursor = Len(eventLog)

\* A log that has grown leaves a manifest behind.
LEMMA BehindKept ==
  ASSUME Store!TypeOK, NEW m \in Store!Manifest, Behind(m),
         Len(transcriptLog') \in Nat, Len(eventLog') \in Nat,
         Len(transcriptLog') >= Len(transcriptLog), Len(eventLog') >= Len(eventLog)
  PROVE  /\ m.transcriptSeq <= Len(transcriptLog') /\ m.eventCursor <= Len(eventLog')
         /\ Len(m.budgets) = m.nextRun
  <1>1. m.transcriptSeq \in Nat /\ m.eventCursor \in Nat
    BY DEF Store!Manifest
  <1>2. Len(transcriptLog) \in Nat /\ Len(eventLog) \in Nat
    BY DEF Store!TypeOK
  <1>3. /\ m.transcriptSeq <= Len(transcriptLog) /\ m.eventCursor <= Len(eventLog)
        /\ Len(m.budgets) = m.nextRun
    BY DEF Behind
  <1> QED
    BY <1>1, <1>2, <1>3

LEMMA OnlyManifestMarks ==
  ASSUME MarksInv, NEW m, NEW result, Store!OnlyManifest(m, result),
         m.transcriptSeq = manifest.transcriptSeq, m.eventCursor = manifest.eventCursor,
         Len(m.budgets) = m.nextRun
  PROVE  MarksInv'
  BY DEF MarksInv, Behind, Store!OnlyManifest, Store!ReplaceManifest

\* The first of these records, as lines numbered from the mark of the handle on.
Entered(recs, kept) ==
  /\ Len(transcriptLog') = Len(transcriptLog) + kept
  /\ \A i \in 1..Len(transcriptLog) : transcriptLog'[i] = transcriptLog[i]
  /\ \A i \in 1..kept : transcriptLog'[Len(transcriptLog) + i] =
       [seq |-> manifest.transcriptSeq + i, rec |-> recs[i]]

LEMMA LinesAt ==
  ASSUME Store!TypeOK, NEW recs \in Seq(Record)
  PROVE  /\ Store!Lines(recs) \in Seq(Entry) /\ Len(Store!Lines(recs)) = Len(recs)
         /\ \A i \in 1..Len(recs) :
              Store!Lines(recs)[i] = [seq |-> manifest.transcriptSeq + i, rec |-> recs[i]]
  <1> DEFINE lines == Store!Lines(recs)
  <1>1. lines = Numbered(manifest.transcriptSeq, recs) /\ lines \in Seq(Entry) /\ Len(lines) = Len(recs)
    BY LinesTyped
  <1> HIDE DEF lines
  <1>2. \A i \in 1..Len(recs) : lines[i] = [seq |-> manifest.transcriptSeq + i, rec |-> recs[i]]
    BY <1>1 DEF Numbered
  <1> QED
    BY <1>1, <1>2 DEF lines

LEMMA LinesEntered ==
  ASSUME Store!TypeOK, NEW recs \in Seq(Record), NEW more \in Seq(Entry),
         transcriptLog' = transcriptLog \o more, Len(more) <= Len(recs),
         \A i \in 1..Len(more) : more[i] = Store!Lines(recs)[i]
  PROVE  Entered(recs, Len(more))
  <1>1. Len(recs) \in Nat /\ Len(more) \in Nat /\ transcriptLog \in Seq(Entry)
    BY StoreSets DEF Store!TypeOK
  <1>2. /\ Len(transcriptLog \o more) = Len(transcriptLog) + Len(more)
        /\ \A i \in 1..Len(transcriptLog) : (transcriptLog \o more)[i] = transcriptLog[i]
        /\ \A i \in 1..Len(more) : (transcriptLog \o more)[Len(transcriptLog) + i] = more[i]
    BY <1>1, ConcatEntries
  <1>3. \A i \in 1..Len(more) : i \in 1..Len(recs)
    BY <1>1
  <1>4. \A i \in 1..Len(more) : more[i] = [seq |-> manifest.transcriptSeq + i, rec |-> recs[i]]
    BY <1>3, LinesAt
  <1> QED
    BY <1>2, <1>4 DEF Entered

LEMMA FragmentEntered ==
  ASSUME Store!TypeOK, NEW recs \in Seq(Record), NEW f \in Store!Fragments(recs),
         transcriptLog' = transcriptLog \o SubSeq(Store!Lines(recs), 1, f.kept)
  PROVE  \E kept \in 0..Len(recs) : Entered(recs, kept)
  <1> DEFINE lines == Store!Lines(recs)
             more == SubSeq(lines, 1, f.kept)
  <1>1. Len(recs) \in Nat /\ f.kept \in Nat /\ f.kept <= Len(recs)
    BY DEF Store!Fragments
  <1>2. lines \in Seq(Entry) /\ Len(lines) = Len(recs)
    BY LinesAt
  <1>3. transcriptLog' = transcriptLog \o more
    OBVIOUS
  <1>4. more \in Seq(Entry) /\ Len(more) = f.kept /\ \A i \in 1..f.kept : more[i] = lines[i]
    <2> HIDE DEF lines
    <2>1. \A i \in 1..f.kept : lines[i] \in Entry
      BY <1>1, <1>2, ElementOfSeq
    <2>2. /\ more \in Seq(Entry) /\ Len(more) = IF 1 <= f.kept THEN f.kept - 1 + 1 ELSE 0
          /\ \A i \in 1..(f.kept - 1 + 1) : more[i] = lines[1 + i - 1]
      BY <1>1, <2>1, SubSeqProperties
    <2> HIDE DEF more
    <2> QED
      BY <1>1, <2>2
  <1> HIDE DEF more
  <1>5. Entered(recs, Len(more))
    BY <1>1, <1>3, <1>4, LinesEntered DEF lines
  <1> QED
    BY <1>1, <1>4, <1>5

\* An append adds all its records, or the first of them.
LEMMA AppendEntered ==
  ASSUME Store!TypeOK, NEW recs \in Seq(Record), NEW result, Store!AppendTranscript(recs, result)
  PROVE  \E kept \in 0..Len(recs) :
           Entered(recs, kept) /\ (result \in Store!ReplaceResults => kept = Len(recs))
  <1>1. Len(recs) \in Nat
    OBVIOUS
  <1>2. CASE result \in Store!ReplaceResults
    <2>1. transcriptLog' = transcriptLog \o Store!Lines(recs)
      BY <1>2 DEF Store!AppendTranscript, Store!ReplaceResults
    <2>2. Entered(recs, Len(recs))
      BY <1>1, <2>1, LinesAt, LinesEntered
    <2> QED
      BY <1>1, <2>2
  <1>3. CASE result \notin Store!ReplaceResults
    <2>1. PICK f \in Store!Fragments(recs) :
            transcriptLog' = transcriptLog \o SubSeq(Store!Lines(recs), 1, f.kept)
      BY <1>3 DEF Store!AppendTranscript
    <2> QED
      BY <1>3, <2>1, FragmentEntered
  <1> QED
    BY <1>2, <1>3

\* One event more, with this cursor, or none.
EventEntered(ev) == eventLog' = Append(eventLog, [cursor |-> cursor + 1, ev |-> ev])

LEMMA EventEnteredFacts ==
  ASSUME Store!TypeOK, NEW ev, EventEntered(ev)
  PROVE  /\ Len(eventLog') = Len(eventLog) + 1
         /\ \A j \in 1..Len(eventLog) : eventLog'[j] = eventLog[j]
         /\ eventLog'[Len(eventLog) + 1] = [cursor |-> cursor + 1, ev |-> ev]
  BY DEF EventEntered, Store!TypeOK

LEMMA AppendMarks ==
  ASSUME Store!TypeOK, MarksInv, NEW recs \in Seq(Record), NEW result,
         Store!AppendTranscript(recs, result)
  PROVE  MarksInv'
  <1>1. PICK kept \in 0..Len(recs) :
          Entered(recs, kept) /\ (result \in Store!ReplaceResults => kept = Len(recs))
    BY AppendEntered
  <1>2. Len(transcriptLog) \in Nat /\ Len(eventLog) \in Nat /\ Len(recs) \in Nat
    BY DEF Store!TypeOK
  <1>3. /\ Len(transcriptLog') = Len(transcriptLog) + kept /\ kept \in Nat
        /\ Len(eventLog') = Len(eventLog) /\ opened' = opened
    BY <1>1, <1>2 DEF Entered, Store!AppendTranscript
  <1>4. \A m \in {manifest, manifestFile} :
          /\ m \in Store!Manifest
          /\ m.transcriptSeq <= Len(transcriptLog') /\ m.eventCursor <= Len(eventLog')
          /\ Len(m.budgets) = m.nextRun
    BY <1>2, <1>3, BehindKept DEF MarksInv, Store!TypeOK
  <1>5. CASE result \in Store!ReplaceResults
    <2> DEFINE m == [manifest EXCEPT !.transcriptSeq = @ + Len(recs)]
    <2>1. Store!ReplaceManifest(m, result) /\ failed' = failed /\ kept = Len(recs)
      BY <1>1, <1>5 DEF Store!AppendTranscript, Store!ReplaceResults
    <2>2. /\ m.transcriptSeq = manifest.transcriptSeq + Len(recs)
          /\ m.eventCursor = manifest.eventCursor
          /\ m.budgets = manifest.budgets /\ m.nextRun = manifest.nextRun
      BY DEF Store!TypeOK, Store!Manifest
    <2> HIDE DEF m
    <2>3. manifest.transcriptSeq + Len(recs) <= Len(transcriptLog')
      BY <1>2, <1>3, <2>1 DEF MarksInv, Behind, Store!TypeOK, Store!Manifest
    <2>5. manifest' = m /\ manifestFile' \in {m, manifestFile}
      BY <2>1 DEF Store!ReplaceManifest
    <2>6. /\ m.transcriptSeq <= Len(transcriptLog') /\ m.eventCursor <= Len(eventLog')
          /\ Len(m.budgets) = m.nextRun
      BY <1>4, <2>2, <2>3
    <2>7. Behind(manifest)' /\ Behind(manifestFile)'
      BY <1>4, <2>5, <2>6 DEF Behind
    <2>8. opened' /\ ~ failed' =>
            m.transcriptSeq = Len(transcriptLog') /\ m.eventCursor = Len(eventLog')
      BY <1>2, <1>3, <2>1, <2>2 DEF MarksInv
    <2> QED
      BY <2>5, <2>7, <2>8 DEF MarksInv
  <1>6. CASE result \notin Store!ReplaceResults
    <2>1. failed' = TRUE /\ UNCHANGED <<manifest, manifestFile>>
      BY <1>6 DEF Store!AppendTranscript
    <2> QED
      BY <1>4, <2>1 DEF MarksInv, Behind
  <1> QED
    BY <1>5, <1>6

LEMMA EventMarks ==
  ASSUME Store!TypeOK, MarksInv, cursor \in Nat, NEW ev, NEW result,
         Store!AppendEvent(cursor + 1, ev, result)
  PROVE  MarksInv'
  <1>1. Len(transcriptLog) \in Nat /\ Len(eventLog) \in Nat
    BY DEF Store!TypeOK
  <1>2. /\ EventEntered(ev) \/ eventLog' = eventLog
        /\ transcriptLog' = transcriptLog /\ opened' = opened
    BY DEF Store!AppendEvent, EventEntered
  <1>3. Len(transcriptLog') = Len(transcriptLog) /\ Len(eventLog') \in {Len(eventLog), Len(eventLog) + 1}
    BY <1>2, EventEnteredFacts
  <1>4. \A m \in {manifest, manifestFile} :
          /\ m.transcriptSeq <= Len(transcriptLog') /\ m.eventCursor <= Len(eventLog')
          /\ Len(m.budgets) = m.nextRun
    BY <1>1, <1>3, BehindKept DEF MarksInv, Store!TypeOK
  <1>5. CASE result \in Store!ReplaceResults
    <2> DEFINE m == [manifest EXCEPT !.eventCursor = cursor + 1]
    <2>1. /\ Store!ReplaceManifest(m, result) /\ failed' = failed /\ EventEntered(ev)
          /\ cursor + 1 = manifest.eventCursor + 1
      BY <1>5 DEF Store!AppendEvent, Store!ReplaceResults, Store!CursorFollows, EventEntered
    <2>2. /\ m.transcriptSeq = manifest.transcriptSeq /\ m.eventCursor = cursor + 1
          /\ m.budgets = manifest.budgets /\ m.nextRun = manifest.nextRun
      BY DEF Store!TypeOK, Store!Manifest
    <2> HIDE DEF m
    <2>3. Len(eventLog') = Len(eventLog) + 1
      BY <2>1, EventEnteredFacts
    <2>4. manifest.eventCursor \in Nat /\ cursor = manifest.eventCursor
      BY <2>1 DEF Store!TypeOK, Store!Manifest
    <2>5. cursor + 1 <= Len(eventLog')
      BY <1>1, <2>3, <2>4 DEF MarksInv, Behind
    <2>6. manifest' = m /\ manifestFile' \in {m, manifestFile}
      BY <2>1 DEF Store!ReplaceManifest
    <2>7. Behind(manifest)' /\ Behind(manifestFile)'
      BY <1>4, <2>2, <2>5, <2>6 DEF Behind
    <2>8. opened' /\ ~ failed' =>
            m.transcriptSeq = Len(transcriptLog') /\ m.eventCursor = Len(eventLog')
      BY <1>2, <1>3, <2>1, <2>2, <2>3, <2>4 DEF MarksInv
    <2> QED
      BY <2>6, <2>7, <2>8 DEF MarksInv
  <1>6. CASE result \notin Store!ReplaceResults
    <2>1. failed' = TRUE /\ UNCHANGED <<manifest, manifestFile>>
      BY <1>6 DEF Store!AppendEvent
    <2> QED
      BY <1>4, <2>1 DEF MarksInv, Behind
  <1> QED
    BY <1>5, <1>6

LEMMA NoMarks ==
  ASSUME Store!TypeOK, MarksInv, Len(transcriptLog') \in Nat, Len(eventLog') \in Nat,
         Len(transcriptLog') >= Len(transcriptLog), Len(eventLog') >= Len(eventLog),
         ~ opened', manifest' = Store!FreshManifest, manifestFile' = manifestFile
  PROVE  MarksInv'
  <1>1. /\ Store!FreshManifest.transcriptSeq = 0 /\ Store!FreshManifest.eventCursor = 0
        /\ Store!FreshManifest.budgets = <<>> /\ Store!FreshManifest.nextRun = 0
    BY DEF Store!FreshManifest
  <1>2. Behind(manifest)'
    BY <1>1 DEF Behind
  <1>3. Behind(manifestFile)'
    BY BehindKept DEF MarksInv, Behind, Store!TypeOK
  <1> QED
    BY <1>2, <1>3 DEF MarksInv

LEMMA ReserveMarks ==
  ASSUME Store!TypeOK, MarksInv, Reserves
  PROVE  MarksInv'
  <1>1. PICK run, counter, amount, result : Store!ReserveBudget(run, counter, amount, result)
    BY DEF Reserves
  <1> DEFINE budgets == [manifest.budgets EXCEPT ![run] = Store!Reserved(@, counter, amount)]
             m == [manifest EXCEPT !.budgets = budgets]
  <1>2. manifest \in Store!Manifest /\ manifest.budgets \in Seq(Store!Budget)
    BY DEF Store!TypeOK, Store!Manifest
  <1>3. Len(budgets) = Len(manifest.budgets)
    BY <1>2
  <1>4. Store!OnlyManifest(m, result)
    <2>1. [manifest EXCEPT !.budgets[run] = Store!Reserved(@, counter, amount)] = m
      BY <1>2 DEF Store!Manifest
    <2> QED
      BY <1>1, <2>1 DEF Store!ReserveBudget
  <1> HIDE DEF budgets
  <1>5. /\ m.transcriptSeq = manifest.transcriptSeq /\ m.eventCursor = manifest.eventCursor
        /\ m.budgets = budgets /\ m.nextRun = manifest.nextRun
    BY <1>2 DEF Store!Manifest
  <1> HIDE DEF m
  <1>6. Len(m.budgets) = m.nextRun
    BY <1>3, <1>5 DEF MarksInv, Behind
  <1> QED
    BY <1>4, <1>5, <1>6, OnlyManifestMarks

LEMMA CallMarks ==
  ASSUME Types, MarksInv, NEW w \in StoreCall, NEW result, StoreWrite(w, result)
  PROVE  MarksInv'
  <1>1. Store!TypeOK /\ w.recs \in Seq(Record) /\ cursor \in Nat /\ manifest \in Store!Manifest
    BY DEF Types, StoreCall, Store!TypeOK
  <1>2. ASSUME NEW cmd, Store!BeginRun(cmd, result) PROVE MarksInv'
    <2> DEFINE n == manifest.nextRun + 1
               budgets == Append(manifest.budgets, Store!FreshBudget)
               m == [manifest EXCEPT !.seen = @ \cup {cmd}, !.nextRun = n, !.budgets = budgets, !.active = n]
    <2>1. Store!OnlyManifest(m, result)
      BY <1>2 DEF Store!BeginRun
    <2>2. Len(budgets) = n
      BY <1>1 DEF MarksInv, Behind, Store!Manifest
    <2> HIDE DEF budgets
    <2>3. /\ m.transcriptSeq = manifest.transcriptSeq /\ m.eventCursor = manifest.eventCursor
          /\ m.budgets = budgets /\ m.nextRun = n
      BY <1>1 DEF Store!Manifest
    <2> HIDE DEF m
    <2> QED
      BY <2>1, <2>2, <2>3, OnlyManifestMarks
  <1>3. ASSUME NEW m, Store!OnlyManifest(m, result),
               \/ \E cmd : m = [manifest EXCEPT !.seen = @ \cup {cmd}]
               \/ m = [manifest EXCEPT !.active = NoRun]
               \/ m = [manifest EXCEPT !.closed = TRUE]
        PROVE  MarksInv'
    <2>1. /\ m.transcriptSeq = manifest.transcriptSeq /\ m.eventCursor = manifest.eventCursor
          /\ m.budgets = manifest.budgets /\ m.nextRun = manifest.nextRun
      BY <1>1, <1>3 DEF Store!Manifest
    <2> QED
      BY <1>3, <2>1, OnlyManifestMarks DEF MarksInv, Behind
  <1>4. CASE w.op = "begin" /\ \E cmd \in job.command : Store!BeginRun(cmd, result)
    BY <1>2, <1>4
  <1>5. CASE w.op = "record" /\ \E cmd \in job.command : Store!RecordCommand(cmd, result)
    BY <1>3, <1>5 DEF Store!RecordCommand
  <1>6. CASE w.op = "append" /\ Store!AppendTranscript(w.recs, result)
    BY <1>1, <1>6, AppendMarks
  <1>7. CASE w.op \in {"emit", "persist"} /\ Store!AppendEvent(cursor + 1, w.ev, result)
    BY <1>1, <1>7, EventMarks
  <1>8. CASE w.op = "finish" /\ Store!FinishRun(manifest.active, result)
    BY <1>3, <1>8, StoreSets DEF Store!FinishRun
  <1>9. CASE w.op = "close" /\ Store!CloseStore(result)
    BY <1>3, <1>9 DEF Store!CloseStore
  <1> QED
    BY <1>4, <1>5, <1>6, <1>7, <1>8, <1>9 DEF StoreWrite

\* The process dies in an append.
LEMMA DeathMarks ==
  ASSUME Types, MarksInv, DiesAppending
  PROVE  MarksInv'
  <1>1. Store!TypeOK /\ Head(job.writes).recs \in Seq(Record)
    BY HeadTyped DEF Types, DiesAppending
  <1>2. Len(transcriptLog) \in Nat /\ Len(eventLog) \in Nat
    BY <1>1 DEF Store!TypeOK
  <1>3. CASE Store!CrashAppending(Head(job.writes).recs)
    <2>1. PICK f \in Store!Fragments(Head(job.writes).recs) :
            transcriptLog' = transcriptLog \o SubSeq(Store!Lines(Head(job.writes).recs), 1, f.kept)
      BY <1>3 DEF Store!CrashAppending
    <2>2. PICK kept \in 0..Len(Head(job.writes).recs) : Entered(Head(job.writes).recs, kept)
      BY <1>1, <2>1, FragmentEntered
    <2>3. /\ eventLog' = eventLog /\ ~ opened'
          /\ manifest' = Store!FreshManifest /\ manifestFile' = manifestFile
      BY <1>3 DEF Store!CrashAppending
    <2>4. kept \in Nat /\ Len(transcriptLog') = Len(transcriptLog) + kept
      BY <1>1, <2>2 DEF Entered
    <2>5. /\ Len(transcriptLog') \in Nat /\ Len(transcriptLog') >= Len(transcriptLog)
          /\ Len(eventLog') = Len(eventLog)
      BY <1>2, <2>3, <2>4
    <2> QED
      BY <1>1, <1>2, <2>3, <2>5, NoMarks
  <1>4. CASE Store!CrashAppendingEvent(cursor + 1, Head(job.writes).ev)
    <2>1. EventEntered(Head(job.writes).ev) \/ eventLog' = eventLog
      BY <1>4 DEF Store!CrashAppendingEvent, EventEntered
    <2>2. Len(eventLog') \in {Len(eventLog), Len(eventLog) + 1}
      BY <1>1, <2>1, EventEnteredFacts
    <2>3. /\ transcriptLog' = transcriptLog /\ ~ opened'
          /\ manifest' = Store!FreshManifest /\ manifestFile' = manifestFile
      BY <1>4 DEF Store!CrashAppendingEvent
    <2>4. Len(transcriptLog') = Len(transcriptLog) /\ Len(eventLog') \in Nat /\ Len(eventLog') >= Len(eventLog)
      BY <1>2, <2>2, <2>3
    <2> QED
      BY <1>1, <1>2, <2>3, <2>4, NoMarks
  <1> QED
    BY <1>3, <1>4 DEF DiesAppending

LEMMA OpenMarks ==
  ASSUME Store!TypeOK, MarksInv, Store!Open
  PROVE  MarksInv'
  <1> DEFINE m == [manifestFile EXCEPT !.transcriptSeq = Len(transcriptLog),
                                       !.eventCursor = Len(eventLog)]
  <1>1. Len(transcriptLog) \in Nat /\ Len(eventLog) \in Nat
    BY DEF Store!TypeOK
  <1>2. /\ m.transcriptSeq = Len(transcriptLog) /\ m.eventCursor = Len(eventLog)
        /\ m.budgets = manifestFile.budgets /\ m.nextRun = manifestFile.nextRun
    BY DEF Store!TypeOK, Store!Manifest
  <1>3. manifest' = m /\ UNCHANGED <<transcriptLog, eventLog, manifestFile>>
    BY DEF Store!Open, Store!disk
  <1> HIDE DEF m
  <1> QED
    BY <1>1, <1>2, <1>3 DEF MarksInv, Behind

LEMMA MarksNext ==
  ASSUME AInv, MarksInv, [Next]_vars
  PROVE  MarksInv'
  <1>1. Types /\ Store!TypeOK
    BY DEF AInv, Types
  <1>2. CASE UNCHANGED storeVars
    BY <1>2 DEF storeVars, MarksInv, Behind
  <1>3. CASE Calls
    BY <1>1, <1>3, HeadTyped, CallMarks DEF Calls
  <1>4. CASE Reserves
    BY <1>1, <1>4, ReserveMarks
  <1>5. CASE Store!Crash
    <2>1. Len(transcriptLog) \in Nat /\ Len(eventLog) \in Nat
      BY <1>1 DEF Store!TypeOK
    <2>2. /\ transcriptLog' = transcriptLog /\ eventLog' = eventLog
          /\ ~ opened' /\ manifest' = Store!FreshManifest /\ manifestFile' = manifestFile
      BY <1>5 DEF Store!Crash, Store!disk
    <2>3. /\ Len(transcriptLog') = Len(transcriptLog) /\ Len(eventLog') = Len(eventLog)
      BY <2>2
    <2> QED
      BY <1>1, <2>1, <2>2, <2>3, NoMarks
  <1>6. CASE DiesAppending
    BY <1>1, <1>6, DeathMarks
  <1>7. CASE Store!Open
    BY <1>1, <1>7, OpenMarks
  <1> QED
    BY <1>2, <1>3, <1>4, <1>5, <1>6, <1>7, StoreStep DEF StoreSteps
-----------------------------------------------------------------------------
(***************************************************************************)
(* The lines of a log that can be trusted.                                 *)
(***************************************************************************)
\* No append that did not complete was tolerated, or the log was loaded since
\* and none failed after that.
Trusted == tolerated # "incomplete" \/ (opened /\ ~ failed)

LinesInv ==
  Trusted =>
    /\ \A i \in 1..Len(transcriptLog) :
         transcriptLog[i].seq = i /\ WellFormed(transcriptLog[i].rec)
    /\ \A j \in 1..Len(eventLog) : eventLog[j].cursor = j

TolerationStep ==
  tolerated' = tolerated \/ (Calls /\ tolerated' = IF failed' THEN "incomplete" ELSE "unmarked")

LEMMA ToleratedStep ==
  ASSUME [Next]_vars
  PROVE  TolerationStep
  <1>1. CASE WriteFails
    BY <1>1 DEF WriteFails, Tolerates, Calls, TolerationStep
  <1>2. CASE tolerated' = tolerated
    BY <1>2 DEF TolerationStep
  <1>3. CASE WriteSucceeds \/ ProcessDies
    BY <1>2, <1>3 DEF WriteSucceeds, ProcessDies, Forgets, counters
  <1>4. CASE \E cmd \in CommandIDs : Command(cmd)
    BY <1>2, <1>4 DEF Command, Submit, SubmitSensitive, Cancel, Resume, Close, Begins, counters
  <1>5. CASE Shutdown \/ EventRefused \/ CommandDone \/ Settle \/ GoroutineGoesOn \/ FaultRun
    BY <1>2, <1>5 DEF Shutdown, EventRefused, CommandDone, Settle, GoroutineGoesOn, FaultRun, counters
  <1>6. CASE ReserveCall \/ ReserveAttempt \/ ReserveDelay
    BY <1>2, <1>6 DEF ReserveCall, ReserveAttempt, ReserveDelay, Reserve
  <1>7. CASE LoopTop \/ Sleep \/ WakeUp \/ ResponseError \/ CallsDone
    BY <1>2, <1>7 DEF LoopTop, Sleep, WakeUp, ResponseError, CallsDone, Moves, counters
  <1>8. CASE RetryStep \/ Answered \/ CheckResponse \/ RecordCalls
    BY <1>2, <1>8 DEF RetryStep, Answered, CheckResponse, RecordCalls, Moves, Begins, counters
  <1>9. CASE NextTool \/ ExecuteTool \/ FinishRun
    BY <1>2, <1>9 DEF NextTool, ExecuteTool, FinishesTool, FinishRun, Begins, counters
  <1>10. CASE Provider
    BY <1>2, <1>10 DEF Provider, StreamDelta, ProviderAnswers, ProviderFails, ProviderCancelled,
       Moves, Begins, counters
  <1>11. CASE Load \/ Loaded \/ LoadRefused
    BY <1>2, <1>11 DEF Load, Loaded, LoadRefused, Forgets, counters
  <1>12. CASE UNCHANGED vars
    <2>1. tolerated' = tolerated
      BY <1>12 DEF vars, counters
    <2> QED
      BY <1>2, <2>1
  <1> QED
    BY <1>1, <1>3, <1>4, <1>5, <1>6, <1>7, <1>8, <1>9, <1>10, <1>11, <1>12
       DEF Next, HoldsLock, ModelCall, ToolCalls, NewSessionEnds

LEMMA CallStaysOpen ==
  ASSUME Calls
  PROVE  opened' = opened /\ (failed' = failed \/ failed')
  <1>1. PICK w, result : StoreWrite(w, result)
    BY DEF Calls
  <1>2. ASSUME NEW m, Store!OnlyManifest(m, result) PROVE opened' = opened /\ failed' = failed
    BY <1>2 DEF Store!OnlyManifest
  <1>3. ASSUME NEW cmd, Store!BeginRun(cmd, result) \/ Store!RecordCommand(cmd, result)
        PROVE  opened' = opened /\ failed' = failed
    BY <1>2, <1>3 DEF Store!BeginRun, Store!RecordCommand
  <1>4. CASE Store!AppendTranscript(w.recs, result)
    BY <1>4 DEF Store!AppendTranscript
  <1>5. CASE Store!AppendEvent(cursor + 1, w.ev, result)
    BY <1>5 DEF Store!AppendEvent
  <1>6. CASE Store!FinishRun(manifest.active, result) \/ Store!CloseStore(result)
    BY <1>2, <1>6 DEF Store!FinishRun, Store!CloseStore
  <1> QED
    BY <1>1, <1>3, <1>4, <1>5, <1>6 DEF StoreWrite

\* Only a load makes a log trusted again.
LEMMA TrustKept ==
  ASSUME AInv, [Next]_vars, Trusted'
  PROVE  Trusted \/ Store!Open
  <1>1. CASE UNCHANGED storeVars
    <2>1. UNCHANGED <<opened, failed>>
      BY <1>1 DEF storeVars
    <2>2. CASE tolerated' = tolerated
      BY <2>1, <2>2 DEF Trusted
    <2>3. CASE Calls /\ tolerated' = IF failed' THEN "incomplete" ELSE "unmarked"
      <3>1. opened
        BY <2>3, AgreeNow DEF Calls
      <3> QED
        BY <2>1, <2>3, <3>1 DEF Trusted
    <2> QED
      BY <2>2, <2>3, ToleratedStep DEF TolerationStep
  <1>2. CASE Calls
    <2>1. opened /\ opened' = opened /\ (failed' = failed \/ failed')
      BY <1>2, AgreeNow, CallStaysOpen DEF Calls
    <2>2. tolerated' = tolerated \/ tolerated' = IF failed' THEN "incomplete" ELSE "unmarked"
      BY ToleratedStep DEF TolerationStep
    <2> QED
      BY <2>1, <2>2 DEF Trusted
  <1>3. CASE ~ UNCHANGED storeVars /\ ~ Calls
    <2>1. tolerated' = tolerated
      BY <1>3, ToleratedStep DEF TolerationStep
    <2>2. Store!Open \/ ~ opened' \/ UNCHANGED <<opened, failed>>
      BY <1>3, StoreStep DEF StoreSteps, Reserves, Store!ReserveBudget, Store!OnlyManifest,
         Store!Crash, DiesAppending, Store!CrashAppending, Store!CrashAppendingEvent
    <2> QED
      BY <2>1, <2>2 DEF Trusted
  <1> QED
    BY <1>1, <1>2, <1>3

\* A log that can be trusted is written to by a handle none of whose appends failed.
LEMMA WritesTrusted ==
  ASSUME AInv, MarksInv, Trusted, job.writes # <<>>,
         Head(job.writes).op \in {"append", "emit", "persist"}
  PROVE  /\ opened /\ ~ failed
         /\ manifest.transcriptSeq = Len(transcriptLog) /\ manifest.eventCursor = Len(eventLog)
  <1>1. opened
    BY AgreeNow
  <1>2. ~ failed
    BY <1>1, HeadOfFailed DEF AInv, Trusted
  <1> QED
    BY <1>1, <1>2 DEF MarksInv

LEMMA EnteredLines ==
  ASSUME Store!TypeOK, NEW recs \in Seq(Record), NEW kept \in 0..Len(recs), Entered(recs, kept),
         manifest.transcriptSeq = Len(transcriptLog), eventLog' = eventLog,
         \A i \in 1..Len(recs) : WellFormed(recs[i]),
         LinesInv, Trusted
  PROVE  LinesInv'
  <1>1. /\ Len(transcriptLog) \in Nat /\ kept \in Nat /\ Len(recs) \in Nat
        /\ Len(transcriptLog') = Len(transcriptLog) + kept
    BY DEF Entered, Store!TypeOK
  <1>2. ASSUME NEW i \in 1..Len(transcriptLog')
        PROVE  transcriptLog'[i].seq = i /\ WellFormed(transcriptLog'[i].rec)
    <2>1. CASE i \in 1..Len(transcriptLog)
      BY <2>1 DEF Entered, LinesInv
    <2>2. CASE i \notin 1..Len(transcriptLog)
      <3>1. PICK k \in 1..kept : i = Len(transcriptLog) + k
        BY <1>1, <2>2
      <3>2. k \in 1..Len(recs)
        BY <1>1
      <3>3. transcriptLog'[i] = [seq |-> Len(transcriptLog) + k, rec |-> recs[k]]
        BY <3>1 DEF Entered
      <3> QED
        BY <3>1, <3>2, <3>3
    <2> QED
      BY <2>1, <2>2
  <1> QED
    BY <1>2 DEF LinesInv

LEMMA EventLines ==
  ASSUME Store!TypeOK, NEW ev, EventEntered(ev), cursor + 1 = Len(eventLog) + 1,
         transcriptLog' = transcriptLog, LinesInv, Trusted
  PROVE  LinesInv'
  <1>1. Len(eventLog) \in Nat
    BY DEF Store!TypeOK
  <1>3. /\ Len(eventLog') = Len(eventLog) + 1
        /\ \A j \in 1..Len(eventLog) : eventLog'[j] = eventLog[j]
        /\ eventLog'[Len(eventLog) + 1] = [cursor |-> cursor + 1, ev |-> ev]
    BY EventEnteredFacts
  <1>2. ASSUME NEW j \in 1..Len(eventLog') PROVE eventLog'[j].cursor = j
    <2>1. j \in 1..Len(eventLog) \/ j = Len(eventLog) + 1
      BY <1>1, <1>3
    <2> QED
      BY <1>3, <2>1 DEF LinesInv
  <1> QED
    BY <1>2 DEF LinesInv

LEMMA LinesNext ==
  ASSUME AInv, MarksInv, LinesInv, [Next]_vars
  PROVE  LinesInv'
  <1> SUFFICES ASSUME Trusted' PROVE LinesInv'
    BY DEF LinesInv
  <1>1. Types /\ Store!TypeOK
    BY DEF AInv, Types
  <1>2. CASE UNCHANGED <<transcriptLog, eventLog>> /\ Trusted
    BY <1>2 DEF LinesInv
  <1>3. CASE Store!Open
    <2>1. /\ UNCHANGED <<transcriptLog, eventLog>>
          /\ Store!Contiguous /\ ValidateRecords(transcriptLog)
      BY <1>3, StoreScan DEF Store!Open, Store!disk, Store!Openable, Store!BookkeepingLoads
    <2>2. DOMAIN transcriptLog = 1..Len(transcriptLog) /\ DOMAIN eventLog = 1..Len(eventLog)
      BY <1>1 DEF Store!TypeOK
    <2> QED
      BY <2>1, <2>2 DEF LinesInv, Store!Contiguous, ValidateRecords
  <1>4. CASE Calls /\ ~ UNCHANGED <<transcriptLog, eventLog>>
    <2> DEFINE w == Head(job.writes)
    <2>1. PICK result : StoreWrite(w, result)
      BY <1>4 DEF Calls
    <2>2. w \in StoreCall /\ w.recs \in Seq(Record) /\ Trusted /\ job.writes # <<>>
      <3>1. ~ Store!Open
        BY <1>4, CallStaysOpen, AgreeNow DEF Calls, Store!Open
      <3> QED
        BY <1>1, <1>4, <3>1, HeadTyped, TrustKept DEF Calls
    <2>3. CASE w.op = "append" /\ Store!AppendTranscript(w.recs, result)
      <3>1. manifest.transcriptSeq = Len(transcriptLog)
        BY <2>2, <2>3, WritesTrusted
      <3>2. PICK kept \in 0..Len(w.recs) : Entered(w.recs, kept)
        BY <1>1, <2>2, <2>3, AppendEntered
      <3>3. eventLog' = eventLog /\ \A i \in 1..Len(w.recs) : WellFormed(w.recs[i])
        <4>1. DOMAIN w.recs = 1..Len(w.recs)
          BY <2>2
        <4> QED
          BY <2>3, <4>1, StoreSets DEF Store!AppendTranscript
      <3> HIDE DEF w
      <3> QED
        BY <1>1, <2>2, <3>1, <3>2, <3>3, EnteredLines
    <2>4. CASE w.op \in {"emit", "persist"} /\ Store!AppendEvent(cursor + 1, w.ev, result)
      <3>1. cursor + 1 = Len(eventLog) + 1
        BY <2>2, <2>4, WritesTrusted DEF Store!AppendEvent, Store!CursorFollows
      <3>2. EventEntered(w.ev) /\ transcriptLog' = transcriptLog
        BY <1>4, <2>4 DEF Store!AppendEvent, EventEntered
      <3> QED
        BY <1>1, <2>2, <3>1, <3>2, EventLines
    <2>5. CASE w.op \notin {"append", "emit", "persist"}
      BY <1>4, <2>1, <2>5 DEF StoreWrite, Store!BeginRun, Store!RecordCommand, Store!FinishRun,
         Store!CloseStore, Store!OnlyManifest
    <2> QED
      BY <2>1, <2>3, <2>4, <2>5 DEF StoreWrite
  <1>5. CASE DiesAppending /\ ~ UNCHANGED <<transcriptLog, eventLog>>
    <2> DEFINE w == Head(job.writes)
    <2>1. w.recs \in Seq(Record) /\ Trusted /\ job.writes # <<>>
      <3>1. ~ Store!Open
        BY <1>5 DEF DiesAppending, Store!Open, Store!CrashAppending, Store!CrashAppendingEvent
      <3> QED
        BY <1>1, <1>5, <3>1, HeadTyped, TrustKept DEF DiesAppending
    <2>2. CASE w.op = "append" /\ Store!CrashAppending(w.recs)
      <3>1. manifest.transcriptSeq = Len(transcriptLog)
        BY <2>1, <2>2, WritesTrusted
      <3>2. PICK kept \in 0..Len(w.recs) : Entered(w.recs, kept)
        BY <1>1, <2>1, <2>2, FragmentEntered DEF Store!CrashAppending
      <3>3. eventLog' = eventLog /\ \A i \in 1..Len(w.recs) : WellFormed(w.recs[i])
        <4>1. DOMAIN w.recs = 1..Len(w.recs)
          BY <2>1
        <4> QED
          BY <2>2, <4>1, StoreSets DEF Store!CrashAppending
      <3> HIDE DEF w
      <3> QED
        BY <1>1, <2>1, <3>1, <3>2, <3>3, EnteredLines
    <2>3. CASE w.op \in {"emit", "persist"} /\ Store!CrashAppendingEvent(cursor + 1, w.ev)
      <3>1. cursor + 1 = Len(eventLog) + 1
        BY <2>1, <2>3, WritesTrusted DEF Store!CrashAppendingEvent, Store!CursorFollows
      <3>2. EventEntered(w.ev) /\ transcriptLog' = transcriptLog
        BY <1>5, <2>3 DEF Store!CrashAppendingEvent, EventEntered
      <3> QED
        BY <1>1, <2>1, <3>1, <3>2, EventLines
    <2> QED
      BY <1>5, <2>2, <2>3 DEF DiesAppending
  <1>6. CASE Reserves \/ Store!Crash \/ UNCHANGED storeVars
    <2>1. UNCHANGED <<transcriptLog, eventLog>>
      BY <1>6 DEF Reserves, Store!ReserveBudget, Store!OnlyManifest, Store!Crash, Store!disk, storeVars
    <2> QED
      BY <1>2, <1>3, <2>1, TrustKept
  <1> QED
    BY <1>2, <1>3, <1>4, <1>5, <1>6, TrustKept, StoreStep DEF StoreSteps

\* The close fact is the last entry: after it no job has anything to append.
LEMMA ClosedLast ==
  ASSUME AInv, CloseIsLast(transcriptLog), [Next]_vars
  PROVE  CloseIsLast(transcriptLog)'
  <1>1. Types /\ Store!TypeOK /\ DiskInv /\ Store!TypeOK'
    BY NextKeeps DEF AInv, Types, CInv
  <1>2. CASE transcriptLog' = transcriptLog
    BY <1>2 DEF CloseIsLast
  <1>3. ASSUME NEW part \in Seq(Record), Added(part), ~ FactThere,
               Len(part) <= 1 \/ \A i \in 1..Len(part) : part[i].kind # "session_closed"
        PROVE  CloseIsLast(transcriptLog)'
    <2>1. /\ DOMAIN transcriptLog' = 1..Len(transcriptLog') /\ Len(part) \in Nat
          /\ Len(transcriptLog) \in Nat /\ Len(transcriptLog') = Len(transcriptLog) + Len(part)
      BY <1>1, <1>3 DEF Store!TypeOK, Added, Longer
    <2>2. ASSUME NEW i \in 1..Len(transcriptLog'), transcriptLog'[i].rec.kind = "session_closed"
          PROVE  i = Len(transcriptLog')
      <3>1. i \notin 1..Len(transcriptLog)
        BY <1>3, <2>2 DEF Added, Longer, FactThere, ClosesAt
      <3>2. PICK k \in 1..Len(part) : i = Len(transcriptLog) + k /\ transcriptLog'[i].rec = part[k]
        BY <1>1, <1>3, <3>1, AddedAt
      <3> QED
        BY <1>3, <2>1, <2>2, <3>2
    <2> QED
      BY <2>1, <2>2 DEF CloseIsLast
  <1>4. CASE job.writes # <<>> /\ Leaves(Head(job.writes)) /\ ~ (transcriptLog' = transcriptLog)
    <2> DEFINE w == Head(job.writes)
    <2>1. w \in StoreCall /\ w.recs \in Seq(Record)
      BY <1>1, <1>4, HeadTyped
    <2>2. PICK part : part \in Seq(Record) /\ Added(part) /\ Prefix(part, w.recs) /\ w.op = "append"
      <3>1. CASE w.op = "append" /\ \E part : Prefix(part, w.recs) /\ Added(part)
        BY <3>1 DEF Prefix
      <3>2. CASE Same
        BY <1>4, <3>2 DEF Same
      <3>3. CASE Does(w)
        <4>1. w.op = "append"
          BY <1>1, <1>4, <2>1, LeavesShown
        <4>2. Prefix(w.recs, w.recs)
          BY <2>1 DEF Prefix
        <4> QED
          BY <2>1, <3>3, <4>1, <4>2 DEF Does
      <3> QED
        BY <1>4, <3>1, <3>2, <3>3 DEF Leaves
    <2>3. ActsOnRuns(w)
      BY <1>4, HeadActs
    <2> HIDE DEF w
    <2>4. Len(part) \in Nat /\ Len(w.recs) \in Nat /\ Len(part) <= Len(w.recs)
          /\ \A i \in 1..Len(part) : i \in 1..Len(w.recs) /\ part[i] = w.recs[i]
      BY <2>1, <2>2 DEF Prefix
    <2>5. CASE KeepsRuns(w)
      BY <1>1, <1>3, <2>2, <2>4, <2>5 DEF KeepsRuns, Plain, Open, DiskInv, CloseInv
    <2>6. CASE EndsRun(w)
      BY <1>1, <1>3, <2>2, <2>4, <2>6 DEF EndsRun, RecordWrite, Open, DiskInv, CloseInv
    <2>7. CASE RecordWrite(w, SessionClosed) /\ Resting
      BY <1>3, <2>2, <2>4, <2>7 DEF RecordWrite, Resting
    <2> QED
      BY <2>2, <2>3, <2>5, <2>6, <2>7 DEF ActsOnRuns
  <1> QED
    BY <1>2, <1>4, DiskStep DEF Same

LEMMA LinesFirst == Init => MarksInv /\ LinesInv /\ CloseIsLast(transcriptLog)
  BY DEF Init, Store!Init, Store!FreshManifest, MarksInv, Behind, LinesInv, CloseIsLast

LogInv == MarksInv /\ LinesInv /\ CloseIsLast(transcriptLog)

LEMMA LogNext == AInv /\ LogInv /\ [Next]_vars => LogInv'
  BY MarksNext, LinesNext, ClosedLast DEF LogInv

\* Whatever fails and wherever the process dies, no mark of the manifest is ahead
\* of its log, the lines of a log without a tolerated incomplete append are
\* numbered and each is valid in isolation, and the fact that the session was
\* closed is the last line (AppendTranscript store.go:371, AppendEvent
\* store.go:398, Open store.go:212, appendPayloadLocked session.go:969).
THEOREM SessionLogInvariant == Spec => [](AInv /\ LogInv)
  <1>1. Init => LogInv
    BY LinesFirst DEF LogInv
  <1>2. AInv /\ LogInv /\ [Next]_vars => LogInv'
    BY LogNext
  <1> QED
    BY <1>1, <1>2, SessionDiskInvariant, PTL DEF Spec

\* The store's own bookkeeping never refuses a log that can be trusted.
LEMMA BookkeepingHolds ==
  ASSUME AInv, LogInv, Trusted
  PROVE  Store!BookkeepingLoads
  <1>1. /\ DOMAIN transcriptLog = 1..Len(transcriptLog) /\ DOMAIN eventLog = 1..Len(eventLog)
        /\ DOMAIN manifestFile.budgets = 1..Len(manifestFile.budgets)
        /\ manifestFile.nextRun \in Nat
    BY DEF AInv, Types, Store!TypeOK, Store!Manifest
  <1>2. Store!Contiguous
    BY <1>1 DEF LogInv, LinesInv, Store!Contiguous
  <1>3. Store!MarksBehind(manifestFile)
    BY DEF LogInv, MarksInv, Behind, Store!MarksBehind
  <1>4. Store!ActiveHasBudget(manifestFile)
    <2>1. manifestFile.active \in {NoRun, manifestFile.nextRun}
      BY DEF AInv, CInv, DiskInv, RunsInv
    <2>2. Len(manifestFile.budgets) = manifestFile.nextRun
      BY DEF LogInv, MarksInv, Behind
    <2> QED
      BY <1>1, <2>1, <2>2, StoreSets DEF Store!ActiveHasBudget, NoRun
  <1> QED
    BY <1>2, <1>3, <1>4 DEF Store!BookkeepingLoads
-----------------------------------------------------------------------------
(***************************************************************************)
(* Where the goroutine is when it holds the mutex, and which calls it has  *)
(* still to finish.                                                        *)
(***************************************************************************)
JobPlaces ==
  /\ job.after = "attempt" => At("attempt")
  /\ job.after = "sleep" => At("retry")
  /\ job.after = "check" => At("answered")
  /\ job.after = "calls" => At("check")
  /\ job.after = "tool" => goroutine.pc \in {"calls", "tool", "exec"}
  /\ job.after = "exec" => At("tool")

\* The calls that are left are different ones, and there are none outside of
\* the loop over them.
RestInv ==
  /\ \A i, j \in 1..Len(goroutine.rest) : goroutine.rest[i] = goroutine.rest[j] => i = j
  /\ goroutine.pc \notin {"tool", "exec", "faulting"} /\ job.after # "tool" => goroutine.rest = <<>>

\* A tool-call record that was not written faults the session.
ErrInv ==
  /\ job.after = "tool" => \A i \in 1..Len(job.writes) : job.writes[i].onError = "fault_run"
  /\ job.after = "exec" => \A i \in 1..Len(job.writes) : job.writes[i].onError = "fault"

PlacesInv == JobPlaces /\ RestInv /\ ErrInv

LEMMA NoRest ==
  ASSUME goroutine'.rest = <<>>
  PROVE  RestInv'
  BY DEF RestInv

LEMMA NoJobPlaces ==
  ASSUME RestInv', job' = NoJob
  PROVE  PlacesInv'
  BY NoJobFacts DEF PlacesInv, JobPlaces, ErrInv

\* Nobody holds the mutex for the goroutine.
LEMMA PlacesMove ==
  ASSUME PlacesInv, job' = job, goroutine'.rest = <<>>,
         \/ LockFree
         \/ goroutine.pc \notin {"attempt", "retry", "answered", "check", "calls", "tool", "exec"}
  PROVE  PlacesInv'
  <1>1. CASE LockFree
    BY <1>1, NoRest, NoJobPlaces DEF LockFree
  <1>2. CASE goroutine.pc \notin {"attempt", "retry", "answered", "check", "calls", "tool", "exec"}
    BY <1>2, NoRest DEF PlacesInv, JobPlaces, ErrInv, At
  <1> QED
    BY <1>1, <1>2

LEMMA LocalRest ==
  ASSUME Types
  PROVE  /\ \A pc : Goto(pc).rest = goroutine.rest
         /\ \A outcome, cause : Ending(outcome, cause).rest = <<>>
         /\ \A cause : Erring(cause).rest = goroutine.rest
         /\ NextAttempt.rest = goroutine.rest
         /\ \A b : LET g == [goroutine EXCEPT !.streamed = b]
                   IN  g.rest = goroutine.rest /\ g.pc = goroutine.pc /\ g.answer = goroutine.answer
         /\ \A a : LET g == [Goto("answered") EXCEPT !.answer = a]
                   IN  g.rest = goroutine.rest /\ g.answer = a /\ g.pc = "answered"
         /\ \A d : [Goto("reserve_delay") EXCEPT !.delay = d].rest = goroutine.rest
         /\ [Goto("reserve_attempt") EXCEPT !.retry = 0, !.streamed = FALSE].rest = goroutine.rest
         /\ NoGoroutine.rest = <<>> /\ NoGoroutine.pc = "none"
  BY DEF Types, GoroutineType, Goto, Ending, Erring, NextAttempt, NoGoroutine

\* Where the goroutine goes when it changes its own locals only.
Roams == {"loop", "reserve_call", "reserve_attempt", "attempt", "reserve_delay", "retry", "parked",
          "response_error", "finish"}
Goes(g) == g.pc \in Roams /\ (g.rest = <<>> \/ g.rest = goroutine.rest)

LEMMA WaysToGo ==
  ASSUME Types
  PROVE  /\ \A pc \in Roams : Goes(Goto(pc))
         /\ \A outcome, cause : Goes(Ending(outcome, cause))
         /\ \A cause : Goes(Erring(cause))
         /\ Goes(NextAttempt)
         /\ \A d : Goes([Goto("reserve_delay") EXCEPT !.delay = d])
         /\ Goes([Goto("reserve_attempt") EXCEPT !.retry = 0, !.streamed = FALSE])
  BY DEF Types, GoroutineType, Goto, Ending, Erring, NextAttempt, NoGoroutine, Goes, Roams

LEMMA LocalStepsGo ==
  ASSUME Types,
         \/ LoopTop \/ Sleep \/ WakeUp \/ ResponseError \/ CallsDone
         \/ ProviderFails \/ ProviderCancelled
  PROVE  \E g : Moves(g) /\ Goes(g)
  <1>1. CASE LoopTop
    <2>1. \/ \E outcome, cause : Moves(Ending(outcome, cause))
          \/ Moves(Goto("reserve_call"))
      BY <1>1 DEF LoopTop
    <2> QED
      BY <2>1, WaysToGo DEF Roams
  <1>2. CASE Sleep \/ WakeUp
    <2>1. \/ Moves(Goto("parked")) \/ Moves(NextAttempt)
          \/ \E cause : Moves(Erring(cause))
      BY <1>2 DEF Sleep, WakeUp
    <2> QED
      BY <2>1, WaysToGo DEF Roams
  <1>3. CASE ResponseError
    <2>1. \E outcome, cause : Moves(Ending(outcome, cause))
      BY <1>3 DEF ResponseError
    <2> QED
      BY <2>1, WaysToGo
  <1>4. CASE CallsDone
    <2>1. \/ \E outcome, cause : Moves(Ending(outcome, cause))
          \/ Moves(Goto("loop"))
      BY <1>4 DEF CallsDone
    <2> QED
      BY <2>1, WaysToGo DEF Roams
  <1>5. CASE ProviderFails
    <2>1. \/ \E class : Moves(Erring(CauseOf(class)))
          \/ \E d : Moves([Goto("reserve_delay") EXCEPT !.delay = d])
      BY <1>5 DEF ProviderFails
    <2>2. ASSUME NEW d, Moves([Goto("reserve_delay") EXCEPT !.delay = d])
          PROVE  \E g : Moves(g) /\ Goes(g)
      <3>1. Goes([Goto("reserve_delay") EXCEPT !.delay = d])
        BY WaysToGo
      <3> QED
        BY <2>2, <3>1
    <2> QED
      BY <2>1, <2>2, WaysToGo
  <1>6. CASE ProviderCancelled
    BY <1>6, WaysToGo DEF ProviderCancelled
  <1> QED
    BY <1>1, <1>2, <1>3, <1>4, <1>5, <1>6

LEMMA ReservationsGo ==
  ASSUME Types, ReserveCall \/ ReserveAttempt \/ ReserveDelay
  PROVE  Goes(goroutine')
  <1>1. CASE ReserveCall
    <2>1. \/ goroutine' = [Goto("reserve_attempt") EXCEPT !.retry = 0, !.streamed = FALSE]
          \/ \E outcome, cause : goroutine' = Ending(outcome, cause)
      BY <1>1 DEF ReserveCall, Reserve
    <2> QED
      BY <2>1, WaysToGo
  <1>2. CASE ReserveAttempt \/ ReserveDelay
    <2>1. \/ goroutine' = Goto("attempt") \/ goroutine' = Goto("retry")
          \/ \E cause : goroutine' = Erring(cause)
      BY <1>2 DEF ReserveAttempt, ReserveDelay, Reserve
    <2> QED
      BY <2>1, WaysToGo DEF Roams
  <1> QED
    BY <1>1, <1>2

\* Locals that change while no call is left.
LEMMA LocalPlaces ==
  ASSUME AInv, PlacesInv,
         \/ LoopTop \/ Sleep \/ WakeUp \/ ResponseError \/ CallsDone
         \/ ProviderFails \/ ProviderCancelled
         \/ ReserveCall \/ ReserveAttempt \/ ReserveDelay
  PROVE  PlacesInv'
  <1>1. Types
    BY DEF AInv
  <1>2. Goes(goroutine') /\ job' = job
    <2>1. CASE ReserveCall \/ ReserveAttempt \/ ReserveDelay
      BY <1>1, <2>1, ReservationsGo DEF ReserveCall, ReserveAttempt, ReserveDelay, Reserve
    <2>2. CASE ~ (ReserveCall \/ ReserveAttempt \/ ReserveDelay)
      <3>1. PICK g : Moves(g) /\ Goes(g)
        BY <1>1, <2>2, LocalStepsGo
      <3> QED
        BY <3>1 DEF Moves
    <2> QED
      BY <2>1, <2>2
  <1>3. \/ goroutine.pc \in {"loop", "sleep", "parked", "response_error",
                             "reserve_call", "reserve_attempt", "reserve_delay"}
        \/ goroutine.pc = "attempt" /\ LockFree
        \/ CallsDone
    BY DEF LoopTop, Sleep, WakeUp, ResponseError, ReserveCall, ReserveAttempt, ReserveDelay,
       ProviderFails, ProviderCancelled, At
  <1>4. goroutine.rest = <<>>
    <2>1. CASE CallsDone
      BY <2>1 DEF CallsDone
    <2>2. CASE ~ CallsDone
      BY <1>3, <2>2, NoJobFacts DEF PlacesInv, RestInv, JobPlaces, LockFree
    <2> QED
      BY <2>1, <2>2
  <1>5. \/ LockFree
        \/ goroutine.pc \notin {"attempt", "retry", "answered", "check", "calls", "tool", "exec"}
    BY <1>3 DEF CallsDone
  <1> QED
    BY <1>2, <1>4, <1>5, PlacesMove DEF Goes

LEMMA AnswerPlaces ==
  ASSUME AInv, PlacesInv, ProviderAnswers
  PROVE  PlacesInv'
  <1>1. At("attempt") /\ LockFree
    BY DEF ProviderAnswers
  <1>2. PICK a : goroutine' = [Goto("answered") EXCEPT !.answer = a] /\ job' = job
    BY DEF ProviderAnswers, Moves
  <1>3. goroutine'.rest = goroutine.rest
    BY <1>2, LocalRest DEF AInv
  <1>4. goroutine.rest = <<>>
    BY <1>1, NoJobFacts DEF PlacesInv, RestInv, LockFree, At
  <1> QED
    BY <1>1, <1>2, <1>3, <1>4, PlacesMove

\* The goroutine takes the mutex, and no call is left.
LEMMA JobBeginsPlaces ==
  ASSUME AInv, PlacesInv, StreamDelta \/ RetryStep \/ Answered \/ CheckResponse \/ FinishRun
  PROVE  PlacesInv'
  <1>1. LockFree /\ goroutine.pc \in {"attempt", "retry", "answered", "check", "finish"}
    BY DEF StreamDelta, RetryStep, Answered, CheckResponse, FinishRun, At
  <1>2. goroutine.rest = <<>>
    BY <1>1, NoJobFacts DEF PlacesInv, RestInv, LockFree
  <1>3. Types
    BY DEF AInv
  <1>4. \/ goroutine' = goroutine
        \/ \E b : goroutine' = [goroutine EXCEPT !.streamed = b]
        \/ job' = job /\ \/ \E outcome, cause : goroutine' = Ending(outcome, cause)
                         \/ \E pc : goroutine' = Goto(pc)
    <2>1. CASE StreamDelta \/ RetryStep \/ FinishRun
      BY <2>1 DEF StreamDelta, RetryStep, FinishRun
    <2>2. CASE Answered
      BY <2>2 DEF Answered, Moves
    <2>3. CASE CheckResponse
      BY <2>3 DEF CheckResponse, Moves
    <2> QED
      BY <2>1, <2>2, <2>3
  <1>5. goroutine'.rest = <<>>
    <2>1. CASE goroutine' = goroutine
      BY <1>2, <2>1
    <2>2. ASSUME NEW b, goroutine' = [goroutine EXCEPT !.streamed = b] PROVE goroutine'.rest = <<>>
      BY <1>2, <1>3, <2>2, LocalRest
    <2>3. ASSUME NEW outcome, NEW cause, goroutine' = Ending(outcome, cause)
          PROVE  goroutine'.rest = <<>>
      BY <1>3, <2>3, LocalRest
    <2>4. ASSUME NEW pc, goroutine' = Goto(pc) PROVE goroutine'.rest = <<>>
      BY <1>2, <1>3, <2>4, LocalRest
    <2> QED
      BY <1>4, <2>1, <2>2, <2>3, <2>4
  <1>6. CASE job' = job
    BY <1>1, <1>5, <1>6, PlacesMove
  <1>7. CASE ~ (job' = job)
    <2>1. \/ goroutine.pc = "attempt" /\ \E W : job' = Job(W, "attempt")
          \/ goroutine.pc = "retry" /\ \E W : job' = Job(W, "sleep")
          \/ goroutine.pc = "answered" /\ \E W : job' = Job(W, "check")
          \/ goroutine.pc = "check" /\ \E W : job' = Job(W, "calls")
          \/ \E W : job' = Job(W, "settle")
      <3>1. CASE StreamDelta \/ RetryStep \/ FinishRun
        BY <3>1 DEF StreamDelta, RetryStep, FinishRun, Begins, At
      <3>2. CASE Answered
        BY <1>7, <3>2 DEF Answered, Moves, Begins, At
      <3>3. CASE CheckResponse
        BY <1>7, <3>3 DEF CheckResponse, Moves, Begins, At
      <3> QED
        BY <3>1, <3>2, <3>3
    <2>2. goroutine'.pc = goroutine.pc
      <3>1. CASE goroutine' = goroutine
        BY <3>1
      <3>2. ASSUME NEW b, goroutine' = [goroutine EXCEPT !.streamed = b]
            PROVE  goroutine'.pc = goroutine.pc
        BY <1>3, <3>2, LocalRest
      <3> QED
        BY <1>4, <1>7, <3>1, <3>2
    <2>3. /\ job'.after = "attempt" => goroutine.pc = "attempt"
          /\ job'.after = "sleep" => goroutine.pc = "retry"
          /\ job'.after = "check" => goroutine.pc = "answered"
          /\ job'.after = "calls" => goroutine.pc = "check"
          /\ job'.after \notin {"tool", "exec"}
      BY <2>1, JobFacts
    <2>4. RestInv'
      BY <1>5, NoRest
    <2> QED
      BY <2>2, <2>3, <2>4 DEF PlacesInv, JobPlaces, ErrInv, At
  <1> QED
    BY <1>6, <1>7

LEMMA LocalFields ==
  ASSUME Types
  PROVE  /\ DOMAIN goroutine = {"pc", "run", "answer", "rest", "stopped", "blocked", "streamed",
                                "retry", "delay", "outcome", "cause"}
         /\ goroutine.rest \in Seq(CallIDs) /\ goroutine.run \in Nat /\ goroutine.answer \in Answer
         /\ goroutine.answer.calls \in Seq(CallIDs)
  <1>1. goroutine \in GoroutineType
    BY DEF Types
  <1>2. /\ DOMAIN goroutine = {"pc", "run", "answer", "rest", "stopped", "blocked", "streamed",
                                "retry", "delay", "outcome", "cause"}
        /\ goroutine.rest \in Seq(CallIDs) /\ goroutine.run \in Nat /\ goroutine.answer \in Answer
    BY <1>1, Zenon DEF GoroutineType
  <1> QED
    BY <1>2 DEF Answer

LEMMA RestOfRest ==
  ASSUME Types, goroutine.rest # <<>>
  PROVE  /\ Len(goroutine.rest) \in Nat /\ Len(goroutine.rest) > 0
         /\ Head(goroutine.rest) = goroutine.rest[1] /\ Head(goroutine.rest) \in CallIDs
         /\ Len(Tail(goroutine.rest)) = Len(goroutine.rest) - 1
         /\ \A i \in 1..(Len(goroutine.rest) - 1) : Tail(goroutine.rest)[i] = goroutine.rest[i + 1]
  <1>1. goroutine.rest \in Seq(CallIDs)
    BY DEF Types, GoroutineType
  <1> QED
    BY <1>1

\* The result of the first call that is left is written next.
LEMMA FinishesToolPlaces ==
  ASSUME AInv, PlacesInv, NEW outcome, FinishesTool(outcome), goroutine.rest # <<>>,
         goroutine.pc \in {"tool", "exec"}
  PROVE  PlacesInv'
  <1>1. goroutine'.rest = Tail(goroutine.rest) /\ goroutine'.pc = goroutine.pc
    BY DEF AInv, Types, GoroutineType, FinishesTool
  <1>2. job'.after = "tool" /\ Len(job'.writes) = 2
        /\ \A i \in 1..Len(job'.writes) : job'.writes[i].onError = "fault_run"
    <2> DEFINE W == <<AppendW(<<ToolResult(goroutine.run, Head(goroutine.rest), outcome)>>, "fault_run"),
                      EmitW(Ev("tool_finished", goroutine.run), "fault_run")>>
    <2>1. job' = Job(W, "tool")
      BY DEF FinishesTool, Begins
    <2>2. Len(W) = 2 /\ W[1].onError = "fault_run" /\ W[2].onError = "fault_run"
      BY WriteFields
    <2> HIDE DEF W
    <2> QED
      BY <2>1, <2>2, JobFacts
  <1>3. \A i, j \in 1..Len(goroutine'.rest) : goroutine'.rest[i] = goroutine'.rest[j] => i = j
    <2>1. Types
      BY DEF AInv
    <2>2. /\ Len(goroutine.rest) \in Nat /\ Len(Tail(goroutine.rest)) = Len(goroutine.rest) - 1
          /\ \A i \in 1..(Len(goroutine.rest) - 1) : Tail(goroutine.rest)[i] = goroutine.rest[i + 1]
      BY <2>1, RestOfRest
    <2> QED
      BY <1>1, <2>2 DEF PlacesInv, RestInv
  <1> QED
    BY <1>1, <1>2, <1>3 DEF PlacesInv, JobPlaces, RestInv, ErrInv

LEMMA ToolPlaces ==
  ASSUME AInv, PlacesInv, RecordCalls \/ NextTool \/ ExecuteTool
  PROVE  PlacesInv'
  <1>1. CASE NextTool /\ \E outcome : FinishesTool(outcome)
    BY <1>1, FinishesToolPlaces DEF NextTool, At
  <1>2. CASE ExecuteTool
    <2>1. goroutine.rest # <<>>
      BY <1>2, NoJobFacts DEF AInv, Types, PlaceInv, ExecuteTool, LockFree
    <2> QED
      BY <1>2, <2>1, FinishesToolPlaces DEF ExecuteTool, At
  <1>3. CASE NextTool /\ ~ \E outcome : FinishesTool(outcome)
    <2> DEFINE W == <<EmitW(Ev("tool_started", goroutine.run), "fault")>>
    <2>1. job' = Job(W, "exec") /\ goroutine' = goroutine /\ goroutine.pc = "tool"
      BY <1>3 DEF NextTool, Begins, At
    <2>2. Len(W) = 1 /\ W[1].onError = "fault"
      BY WriteFields
    <2> HIDE DEF W
    <2> QED
      BY <2>1, <2>2, JobFacts DEF PlacesInv, JobPlaces, RestInv, ErrInv, At
  <1>4. CASE RecordCalls
    <2>1. goroutine.rest = <<>> /\ goroutine.pc = "calls"
      BY <1>4, NoJobFacts DEF PlacesInv, RestInv, LockFree, RecordCalls, At
    <2>2. CASE \E outcome, cause : Moves(Ending(outcome, cause))
      <3>1. job' = job /\ LockFree /\ \E outcome, cause : goroutine' = Ending(outcome, cause)
        BY <1>4, <2>2 DEF Moves, RecordCalls
      <3>2. goroutine'.rest = <<>>
        BY <3>1, LocalRest DEF AInv
      <3> QED
        BY <3>1, <3>2, PlacesMove
    <2>3. CASE ~ \E outcome, cause : Moves(Ending(outcome, cause))
      <3> DEFINE calls == goroutine.answer.calls
                 W == <<AppendW([i \in DOMAIN calls |-> ToolCall(goroutine.run, calls[i])],
                                "fault_run")>>
      <3>1. /\ job' = Job(W, "tool") /\ NoRepeats(calls)
            /\ goroutine' = [goroutine EXCEPT !.rest = calls, !.answer = NoAnswer,
                               !.streamed = FALSE, !.stopped = FALSE, !.blocked = FALSE]
        BY <1>4, <2>3 DEF RecordCalls, Begins
      <3>2. Len(W) = 1 /\ W[1].onError = "fault_run"
        BY WriteFields
      <3>3. goroutine'.rest = calls /\ goroutine'.pc = goroutine.pc /\ DOMAIN calls = 1..Len(calls)
        BY <3>1, LocalFields DEF AInv
      <3> HIDE DEF W, calls
      <3> QED
        BY <2>1, <3>1, <3>2, <3>3, JobFacts DEF NoRepeats, PlacesInv, JobPlaces, RestInv, ErrInv
    <2> QED
      BY <2>2, <2>3
  <1> QED
    BY <1>1, <1>2, <1>3, <1>4

LEMMA CommandPlaces ==
  ASSUME AInv, PlacesInv, (\E cmd \in CommandIDs : Command(cmd)) \/ Shutdown
  PROVE  PlacesInv'
  <1>1. /\ goroutine' = goroutine /\ LockFree
        /\ job'.after \in {"free", "started", "rejected", "done", "cancelled", "closed"}
    BY CommandJobFacts, NoJobFacts
       DEF Command, Submit, SubmitSensitive, Cancel, Resume, Close, Shutdown, Begins, Takes, LockFree
  <1> QED
    BY <1>1, NoJobFacts DEF LockFree, PlacesInv, JobPlaces, RestInv, ErrInv

\* The mutex is left.
LEMMA MutexPlaces ==
  ASSUME AInv, PlacesInv, CommandDone \/ Settle \/ GoroutineGoesOn \/ FaultRun
  PROVE  PlacesInv'
  <1>1. CASE CommandDone
    <2>1. job' = NoJob /\ job.after \in {"done", "rejected", "started", "cancelled", "closed"}
      BY <1>1 DEF CommandDone, Finishes
    <2>2. \/ goroutine' = goroutine
          \/ goroutine' = [NoGoroutine EXCEPT !.pc = "loop", !.run = manifest.active]
      BY <1>1 DEF CommandDone
    <2>3. RestInv'
      <3>1. CASE goroutine' = goroutine
        BY <2>1, <3>1, NoJobFacts DEF PlacesInv, RestInv
      <3>2. CASE goroutine' = [NoGoroutine EXCEPT !.pc = "loop", !.run = manifest.active]
        BY <3>2, NoRest DEF NoGoroutine
      <3> QED
        BY <2>2, <3>1, <3>2
    <2> QED
      BY <2>1, <2>3, NoJobPlaces
  <1>2. CASE Settle \/ FaultRun
    <2>1. goroutine'.rest = <<>> /\ job' = NoJob
      BY <1>2, LocalRest DEF AInv, Settle, FaultRun, Fault, Finishes
    <2> QED
      BY <2>1, NoRest, NoJobPlaces
  <1>3. CASE GoroutineGoesOn
    <2>1. PICK pc \in {"attempt", "sleep", "check", "calls", "tool", "exec"} :
            job.after = pc /\ job' = NoJob /\ goroutine' = Goto(pc)
      BY <1>3 DEF GoroutineGoesOn, Finishes
    <2>2. goroutine'.rest = goroutine.rest /\ goroutine'.pc = pc
      BY <2>1 DEF AInv, Types, GoroutineType, Goto
    <2>3. pc \notin {"tool", "exec"} => goroutine.rest = <<>>
      BY <2>1 DEF PlacesInv, JobPlaces, RestInv, At
    <2>4. RestInv'
      BY <2>2, <2>3 DEF PlacesInv, RestInv
    <2> QED
      BY <2>1, <2>4, NoJobPlaces
  <1> QED
    BY <1>1, <1>2, <1>3

LEMMA WritePlaces ==
  ASSUME AInv, PlacesInv, WriteSucceeds
  PROVE  PlacesInv'
  <1>1. job' = [job EXCEPT !.writes = Tail(@)] /\ goroutine' = goroutine /\ job.writes # <<>>
    BY DEF WriteSucceeds
  <1>2. job'.after = job.after /\ job'.writes = Tail(job.writes) /\ job.writes \in Seq(StoreCall)
    BY <1>1 DEF AInv, Types, JobType
  <1>3. /\ Len(Tail(job.writes)) = Len(job.writes) - 1 /\ Len(job.writes) \in Nat
        /\ \A i \in 1..(Len(job.writes) - 1) : Tail(job.writes)[i] = job.writes[i + 1]
    BY <1>1, <1>2, FirstOf
  <1>4. \A i \in 1..Len(job'.writes) : i + 1 \in 1..Len(job.writes) /\ job'.writes[i] = job.writes[i + 1]
    BY <1>2, <1>3
  <1> QED
    BY <1>1, <1>2, <1>4 DEF PlacesInv, JobPlaces, RestInv, ErrInv, At

LEMMA ErrorPlaces ==
  ASSUME AInv, PlacesInv, job.writes # <<>>, HandleError(Head(job.writes).onError)
  PROVE  PlacesInv'
  <1> DEFINE e == Head(job.writes).onError
  <1>1. job.writes \in Seq(StoreCall) /\ Head(job.writes) = job.writes[1] /\ 1 \in 1..Len(job.writes)
    BY FirstOf DEF AInv, Types, JobType
  <1>2. CASE state = "starting"
    <2>1. goroutine.pc = "none" /\ job'.after = "refused" /\ goroutine' = goroutine
      BY <1>2, JobFacts DEF AInv, IInv, ActiveInv, HandleError
    <2>2. goroutine.rest = <<>>
      <3>1. job.after \in AfterLoad
        BY <1>2, JobShape DEF AInv
      <3> QED
        BY <2>1, <3>1 DEF PlacesInv, RestInv, AfterLoad
    <2> QED
      BY <2>1, <2>2, NoRest DEF PlacesInv, JobPlaces, ErrInv
  <1>3. CASE state # "starting"
    <2>1. job' = NoJob
      BY <1>3 DEF HandleError, Fault
    <2>2. \/ goroutine'.rest = <<>>
          \/ goroutine'.pc = "faulting" /\ goroutine'.rest = goroutine.rest
          \/ e = "fail_stream" /\ goroutine'.rest = goroutine.rest /\ goroutine'.pc = "response_error"
          \/ e \notin {"fail_run", "fail_stream", "fault_run", "fault"} /\ goroutine' = goroutine
      <3>1. "pc" \in DOMAIN goroutine
        BY DEF AInv, IInv, Shapes
      <3> QED
        BY <1>3, <3>1, LocalRest, GoroutineFacts DEF AInv, HandleError, Fault
    <2>3. e \notin {"fault", "fault_run"} => job.after # "tool"
      BY <1>1 DEF PlacesInv, ErrInv
    <2>4. e = "fail_stream" => goroutine.rest = <<>>
      <3> SUFFICES ASSUME e = "fail_stream" PROVE goroutine.rest = <<>>
        OBVIOUS
      <3>1. job.after \in {"attempt", "sleep", "check", "calls"}
        <4>1. job.after \in AfterRun
          BY <1>3, JobShape DEF AInv
        <4>2. job.after \notin {"tool", "exec"}
          BY <1>1 DEF PlacesInv, ErrInv
        <4>3. job.after # "settle"
          BY <1>1 DEF AInv, CInv, PlanInv
        <4> QED
          BY <4>1, <4>2, <4>3 DEF AfterRun
      <3> QED
        BY <3>1 DEF PlacesInv, JobPlaces, RestInv, At
    <2>5. e \notin {"fault", "fault_run"} /\ goroutine' = goroutine => RestInv'
      <3> SUFFICES ASSUME e \notin {"fault", "fault_run"}, goroutine' = goroutine PROVE RestInv'
        OBVIOUS
      <3> QED
        BY <2>1, <2>3 DEF PlacesInv, RestInv
    <2>6. RestInv'
      <3>1. CASE goroutine'.rest = <<>>
        BY <3>1, NoRest
      <3>2. CASE goroutine'.pc = "faulting" /\ goroutine'.rest = goroutine.rest
        BY <3>2 DEF PlacesInv, RestInv
      <3>3. CASE e = "fail_stream" /\ goroutine'.rest = goroutine.rest
        BY <2>4, <3>3, NoRest
      <3> HIDE DEF e
      <3> QED
        BY <2>2, <2>5, <3>1, <3>2, <3>3
    <2> QED
      BY <2>1, <2>6, NoJobPlaces
  <1> QED
    BY <1>2, <1>3

LEMMA ProcessPlaces ==
  ASSUME AInv, PlacesInv, ProcessDies \/ Load \/ Loaded \/ LoadRefused
  PROVE  PlacesInv'
  <1>1. CASE ProcessDies \/ LoadRefused
    <2>1. goroutine'.rest = <<>> /\ job' = NoJob
      BY <1>1, LocalRest DEF AInv, ProcessDies, LoadRefused, Forgets
    <2> QED
      BY <2>1, NoRest, NoJobPlaces
  <1>2. CASE Load
    <2>1. goroutine.pc = "none" /\ goroutine' = goroutine /\ job'.after \in {"loaded", "reconciled"}
      BY <1>2, JobFacts DEF AInv, IInv, ActiveInv, Load
    <2>2. job.after = "free"
      BY <1>2, JobShape DEF AInv, IInv, JobInv, Load, AfterRun, AfterLoad
    <2>3. goroutine.rest = <<>>
      BY <2>1, <2>2 DEF PlacesInv, RestInv
    <2> QED
      BY <2>1, <2>3, NoRest DEF PlacesInv, JobPlaces, ErrInv
  <1>3. CASE Loaded
    <2>1. job' = NoJob /\ goroutine' = goroutine /\ job.after \in {"loaded", "reconciled"}
      BY <1>3 DEF Loaded, Finishes
    <2>2. RestInv'
      BY <2>1, NoJobFacts DEF PlacesInv, RestInv
    <2> QED
      BY <2>1, <2>2, NoJobPlaces
  <1> QED
    BY <1>1, <1>2, <1>3

LEMMA PlacesNext ==
  ASSUME AInv, PlacesInv, [Next]_vars
  PROVE  PlacesInv'
  <1>1. CASE WriteFails \/ EventRefused
    BY <1>1, ErrorPlaces DEF WriteFails, EventRefused
  <1>2. CASE UNCHANGED vars
    BY <1>2 DEF vars, memory, PlacesInv, JobPlaces, RestInv, ErrInv, At
  <1> QED
    BY <1>1, <1>2, LocalPlaces, AnswerPlaces, JobBeginsPlaces, ToolPlaces, CommandPlaces, MutexPlaces, WritePlaces,
       ProcessPlaces
       DEF Next, HoldsLock, ModelCall, ToolCalls, Provider, NewSessionEnds
-----------------------------------------------------------------------------
(***************************************************************************)
(* The calls of the log and their results.                                 *)
(***************************************************************************)
Called(id) ==
  \E h \in 1..Len(transcriptLog) : CallAt(transcriptLog, h) /\ transcriptLog[h].rec.call = id
HasAnswer(id) ==
  \E h \in 1..Len(transcriptLog) : ResultAt(transcriptLog, h) /\ transcriptLog[h].rec.call = id
OpenCall(id) == Called(id) /\ ~ HasAnswer(id)

PairSound == PairableUpTo(transcriptLog, Len(transcriptLog))

\* The records that are added can be paired with the log and with each other.
Fits(part) ==
  \A k \in 1..Len(part) :
    /\ part[k].kind = "tool_call" =>
         /\ ~ Called(part[k].call)
         /\ \A j \in 1..(k - 1) : part[j].kind = "tool_call" => part[j].call # part[k].call
    /\ part[k].kind = "tool_result" =>
         /\ k = 1 /\ ~ HasAnswer(part[k].call)
         /\ \E h \in 1..Len(transcriptLog) :
              /\ CallAt(transcriptLog, h) /\ transcriptLog[h].rec.call = part[k].call
              /\ transcriptLog[h].rec.run = part[k].run
    /\ part[k].kind = "run_outcome" =>
         /\ k = 1
         /\ \A h \in 1..Len(transcriptLog) :
              CallAt(transcriptLog, h) /\ transcriptLog[h].rec.run = part[k].run
                => HasAnswer(transcriptLog[h].rec.call)

LEMMA PairGrows ==
  ASSUME Store!TypeOK, NEW part \in Seq(Record), Longer(transcriptLog, transcriptLog', part),
         PairSound, Fits(part)
  PROVE  PairSound'
  <1> DEFINE old == transcriptLog
             new == transcriptLog'
  <1>1. Len(old) \in Nat /\ Len(part) \in Nat /\ Len(new) = Len(old) + Len(part)
    BY DEF Longer, Store!TypeOK
  <1>2. /\ \A i \in 1..Len(old) : new[i] = old[i]
        /\ \A i \in 1..Len(part) : new[Len(old) + i].rec = part[i]
    BY DEF Longer
  <1>3. ASSUME NEW k \in 1..Len(new) PROVE Pairable(new, k)
    <2>1. CASE k \in 1..Len(old)
      <3>1. k \in Nat \ {0} /\ \A i \in 1..k : old[i] = new[i]
        BY <1>1, <1>2, <2>1
      <3>2. Pairable(old, k)
        BY <2>1 DEF PairSound, PairableUpTo
      <3> HIDE DEF old, new
      <3> QED
        BY <3>1, <3>2, PairableEarlier
    <2>2. CASE k \notin 1..Len(old)
      <3>1. PICK m \in 1..Len(part) : k = Len(old) + m
        BY <2>2 DEF Longer
      <3>2. new[k].rec = part[m]
        BY <1>2, <3>1
      <3>3. \A i \in 1..(k - 1) :
              i \in 1..Len(old) \/ \E j \in 1..(m - 1) : i = Len(old) + j
        <4> TAKE i \in 1..(k - 1)
        <4>1. CASE i \in 1..Len(old)
          BY <4>1
        <4>2. CASE i \notin 1..Len(old)
          <5>1. i - Len(old) \in 1..(m - 1) /\ i = Len(old) + (i - Len(old))
            BY <1>1, <3>1, <4>2
          <5> QED
            BY <5>1
        <4> QED
          BY <4>1, <4>2
      <3>4. \A i \in 1..Len(old) : i \in 1..(k - 1)
        BY <1>1, <3>1
      <3>5. \A j \in 1..(m - 1) : j \in 1..Len(part)
        BY <1>1
      <3>6. ASSUME CallAt(new, k), NEW i \in 1..(k - 1), CallAt(new, i)
            PROVE  new[i].rec.call # new[k].rec.call
        <4>1. /\ ~ Called(part[m].call)
              /\ \A j \in 1..(m - 1) : part[j].kind = "tool_call" => part[j].call # part[m].call
          BY <3>2, <3>6 DEF Fits, CallAt
        <4>2. CASE i \in 1..Len(old)
          BY <1>2, <3>2, <3>6, <4>1, <4>2 DEF Called, CallAt
        <4>3. CASE \E j \in 1..(m - 1) : i = Len(old) + j
          BY <1>2, <3>2, <3>5, <3>6, <4>1, <4>3 DEF CallAt
        <4> QED
          BY <3>3, <4>2, <4>3
      <3>7. ASSUME ResultAt(new, k)
            PROVE  /\ \E i \in 1..(k - 1) : ResultFor(new, i, k)
                   /\ \A j \in 1..(k - 1) : ResultAt(new, j) => new[j].rec.call # new[k].rec.call
        <4>1. m = 1 /\ ~ HasAnswer(part[m].call)
          BY <3>2, <3>7 DEF Fits, ResultAt
        <4>2. PICK h \in 1..Len(old) : CallAt(old, h) /\ old[h].rec.call = part[m].call
                                       /\ old[h].rec.run = part[m].run
          BY <3>2, <3>7 DEF Fits, ResultAt
        <4>3. ResultFor(new, h, k) /\ h \in 1..(k - 1)
          BY <1>1, <1>2, <3>1, <3>2, <3>4, <3>7, <4>2 DEF ResultFor, CallAt, ResultAt
        <4>4. ASSUME NEW j \in 1..(k - 1), ResultAt(new, j) PROVE new[j].rec.call # new[k].rec.call
          <5>1. j \in 1..Len(old)
            BY <3>3, <4>1
          <5> QED
            BY <1>2, <3>2, <4>1, <4>4, <5>1 DEF HasAnswer, ResultAt
        <4> QED
          BY <4>3, <4>4
      <3>8. ASSUME new[k].rec.kind = "run_outcome", NEW i \in 1..(k - 1), CallAt(new, i),
                   new[i].rec.run = new[k].rec.run
            PROVE  HasResult(new, i, k - 1)
        <4>1. m = 1 /\ \A h \in 1..Len(old) : CallAt(old, h) /\ old[h].rec.run = part[m].run
                                                => HasAnswer(old[h].rec.call)
          BY <3>2, <3>8 DEF Fits
        <4>2. i \in 1..Len(old)
          BY <3>3, <4>1
        <4>3. HasAnswer(old[i].rec.call)
          BY <1>2, <3>2, <3>8, <4>1, <4>2 DEF CallAt
        <4>4. PICK h \in 1..Len(old) : ResultAt(old, h) /\ old[h].rec.call = old[i].rec.call
          BY <4>3 DEF HasAnswer
        <4> QED
          BY <1>2, <3>4, <4>2, <4>4 DEF HasResult, ResultAt
      <3> QED
        BY <3>6, <3>7, <3>8 DEF Pairable
    <2> QED
      BY <2>1, <2>2
  <1> QED
    BY <1>3 DEF PairSound, PairableUpTo

\* Which calls the log has, and which results, when records are added.
LEMMA CallsGrow ==
  ASSUME Store!TypeOK, NEW part \in Seq(Record), Longer(transcriptLog, transcriptLog', part)
  PROVE  /\ \A id : Called(id)' <=>
               Called(id) \/ \E k \in 1..Len(part) : part[k].kind = "tool_call" /\ part[k].call = id
         /\ \A id : HasAnswer(id)' <=>
               HasAnswer(id) \/ \E k \in 1..Len(part) : part[k].kind = "tool_result" /\ part[k].call = id
  <1>1. Len(transcriptLog) \in Nat /\ Len(part) \in Nat
        /\ Len(transcriptLog') = Len(transcriptLog) + Len(part)
    BY DEF Longer, Store!TypeOK
  <1>2. /\ \A i \in 1..Len(transcriptLog) :
             i \in 1..Len(transcriptLog') /\ transcriptLog'[i] = transcriptLog[i]
        /\ \A i \in 1..Len(part) : /\ Len(transcriptLog) + i \in 1..Len(transcriptLog')
                                   /\ transcriptLog'[Len(transcriptLog) + i].rec = part[i]
        /\ \A k \in 1..Len(transcriptLog') :
             k \in 1..Len(transcriptLog) \/ \E i \in 1..Len(part) : k = Len(transcriptLog) + i
    <2>1. ASSUME NEW i \in 1..Len(transcriptLog)
          PROVE  i \in 1..Len(transcriptLog') /\ transcriptLog'[i] = transcriptLog[i]
      BY <1>1 DEF Longer
    <2>2. ASSUME NEW i \in 1..Len(part)
          PROVE  /\ Len(transcriptLog) + i \in 1..Len(transcriptLog')
                 /\ transcriptLog'[Len(transcriptLog) + i].rec = part[i]
      BY <1>1 DEF Longer
    <2>3. ASSUME NEW k \in 1..Len(transcriptLog')
          PROVE  k \in 1..Len(transcriptLog) \/ \E i \in 1..Len(part) : k = Len(transcriptLog) + i
      BY <1>1 DEF Longer
    <2> QED
      BY <2>1, <2>2, <2>3
  <1>3. ASSUME NEW id
        PROVE  Called(id)' <=>
               Called(id) \/ \E k \in 1..Len(part) : part[k].kind = "tool_call" /\ part[k].call = id
    <2>1. ASSUME Called(id)'
          PROVE  Called(id) \/ \E k \in 1..Len(part) : part[k].kind = "tool_call" /\ part[k].call = id
      <3>1. PICK h \in 1..Len(transcriptLog') :
              transcriptLog'[h].rec.kind = "tool_call" /\ transcriptLog'[h].rec.call = id
        BY <2>1 DEF Called, CallAt
      <3>2. CASE h \in 1..Len(transcriptLog)
        BY <1>2, <3>1, <3>2 DEF Called, CallAt
      <3>3. CASE \E i \in 1..Len(part) : h = Len(transcriptLog) + i
        BY <1>2, <3>1, <3>3
      <3> QED
        BY <1>2, <3>2, <3>3
    <2>2. Called(id) => Called(id)'
      BY <1>2 DEF Called, CallAt
    <2>3. ASSUME NEW k \in 1..Len(part), part[k].kind = "tool_call", part[k].call = id
          PROVE  Called(id)'
      BY <1>2, <2>3 DEF Called, CallAt
    <2> QED
      BY <2>1, <2>2, <2>3
  <1>4. ASSUME NEW id
        PROVE  HasAnswer(id)' <=>
               HasAnswer(id) \/ \E k \in 1..Len(part) : part[k].kind = "tool_result" /\ part[k].call = id
    <2>1. ASSUME HasAnswer(id)'
          PROVE  HasAnswer(id) \/ \E k \in 1..Len(part) : part[k].kind = "tool_result" /\ part[k].call = id
      <3>1. PICK h \in 1..Len(transcriptLog') :
              transcriptLog'[h].rec.kind = "tool_result" /\ transcriptLog'[h].rec.call = id
        BY <2>1 DEF HasAnswer, ResultAt
      <3>2. CASE h \in 1..Len(transcriptLog)
        BY <1>2, <3>1, <3>2 DEF HasAnswer, ResultAt
      <3>3. CASE \E i \in 1..Len(part) : h = Len(transcriptLog) + i
        BY <1>2, <3>1, <3>3
      <3> QED
        BY <1>2, <3>2, <3>3
    <2>2. HasAnswer(id) => HasAnswer(id)'
      BY <1>2 DEF HasAnswer, ResultAt
    <2>3. ASSUME NEW k \in 1..Len(part), part[k].kind = "tool_result", part[k].call = id
          PROVE  HasAnswer(id)'
      BY <1>2, <2>3 DEF HasAnswer, ResultAt
    <2> QED
      BY <2>1, <2>2, <2>3
  <1> QED
    BY <1>3, <1>4

LEMMA CallsSame ==
  ASSUME transcriptLog' = transcriptLog
  PROVE  /\ PairSound' <=> PairSound
         /\ \A id : (Called(id)' <=> Called(id)) /\ (HasAnswer(id)' <=> HasAnswer(id))
                    /\ (OpenCall(id)' <=> OpenCall(id))
  BY DEF PairSound, PairableUpTo, Called, HasAnswer, OpenCall

\* An open call belongs to the active run, which has not ended.
LEMMA OpenCallRun ==
  ASSUME AInv, LinesInv, Trusted, PairSound, NEW h \in 1..Len(transcriptLog),
         CallAt(transcriptLog, h), ~ HasAnswer(transcriptLog[h].rec.call)
  PROVE  /\ transcriptLog[h].rec.run = manifestFile.active
         /\ manifestFile.active # NoRun /\ ~ Ended(manifestFile.active)
  <1> DEFINE run == transcriptLog[h].rec.run
  <1>1. run # NoRun
    BY DEF LinesInv, WellFormed, CallAt
  <1>2. run \in 1..manifestFile.nextRun
    <2>1. run \in 0..manifestFile.nextRun
      BY DEF AInv, CInv, DiskInv, KnownInv
    <2> QED
      BY <1>1, <2>1 DEF NoRun
  <1>3. ~ Ended(run)
    <2> SUFFICES ASSUME Ended(run) PROVE FALSE
      OBVIOUS
    <2>1. PICK i \in 1..Len(transcriptLog) : EndsAt(i, run)
      BY DEF Ended
    <2>2. i # h /\ Len(transcriptLog) \in Nat
      BY <2>1 DEF EndsAt, CallAt, AInv, Types, Store!TypeOK
    <2>3. CASE i < h
      <3>1. transcriptLog[i].rec.run # NoRun
        BY <1>1, <2>1 DEF EndsAt
      <3> QED
        BY <2>1, <2>3, <3>1 DEF AInv, CInv, DiskInv, BlocksInv
    <2>4. CASE h < i
      <3>1. Pairable(transcriptLog, i) /\ h \in 1..(i - 1)
        BY <2>2, <2>4 DEF PairSound, PairableUpTo
      <3>2. HasResult(transcriptLog, h, i - 1)
        BY <2>1, <3>1 DEF Pairable, EndsAt
      <3>3. \A j \in 1..(i - 1) : j \in 1..Len(transcriptLog)
        BY <2>2
      <3> QED
        BY <3>2, <3>3 DEF HasResult, HasAnswer
    <2> QED
      BY <2>2, <2>3, <2>4
  <1>4. run = manifestFile.active
    BY <1>2, <1>3 DEF AInv, CInv, DiskInv, RunsInv
  <1> QED
    BY <1>1, <1>3, <1>4
-----------------------------------------------------------------------------
(***************************************************************************)
(* Which calls are open, and what a job still writes about them.           *)
(***************************************************************************)
Neutral(rec) == rec.kind \notin {"tool_call", "tool_result"}
NoCalls(w) == w.op = "append" => \A i \in 1..Len(w.recs) : Neutral(w.recs[i])
AllNeutral(W) == \A i \in 1..Len(W) : NoCalls(W[i])

\* The calls of the answer whose results are not under way yet.
Owed(id) == \E i \in 1..Len(goroutine.rest) : goroutine.rest[i] = id
NoneOpen == \A id : ~ OpenCall(id)

\* The calls of an answer are recorded in one append; then the results, one by
\* one, each with its event.
CallsPlan(W) ==
  /\ Len(W) = 1 /\ W[1].op = "append" /\ Len(W[1].recs) = Len(goroutine.rest)
  /\ \A i \in 1..Len(goroutine.rest) :
       /\ W[1].recs[i] = ToolCall(goroutine.run, goroutine.rest[i])
       /\ ~ Called(goroutine.rest[i])
  /\ NoneOpen
ResultPlan(W) ==
  /\ Len(W) = 2 /\ W[2].op = "emit"
  /\ \E id, outcome :
       /\ RecordWrite(W[1], ToolResult(goroutine.run, id, outcome))
       /\ ~ Owed(id)
       /\ \A c : OpenCall(c) <=> Owed(c) \/ c = id
OwedPlan(W) ==
  /\ \A i \in 1..Len(W) : W[i].op # "append"
  /\ \A c : OpenCall(c) <=> Owed(c)
ToolPlan(W) == CallsPlan(W) \/ ResultPlan(W) \/ OwedPlan(W)

\* What reconcileInterrupted appends before the outcome: one result for each
\* call the run left open.
RepairOf(W, m) ==
  /\ \A i \in 1..m : \E id : /\ OpenCall(id)
                             /\ RecordWrite(W[i], ToolResult(manifestFile.active, id, "interrupted"))
  /\ \A c : OpenCall(c) => \E i \in 1..m : W[i].recs[1].call = c
  /\ \A i, j \in 1..m : W[i].recs[1].call = W[j].recs[1].call => i = j
RepairPlan(W) == Open(manifestFile.active) => RepairOf(W, Len(W) - 3)

PairPlan ==
  /\ job.after \notin {"tool", "reconciled"} => AllNeutral(job.writes)
  /\ job.after = "tool" => ToolPlan(job.writes)
  /\ job.after = "reconciled" => RepairPlan(job.writes)

\* Outside of such a job the open calls are the ones whose results are owed, the
\* calls of an answer are new, and the records in memory know every call.
Usable == state \in {"idle", "running", "closed"} /\ goroutine.pc # "faulting"
OpenInv == Usable /\ job.after # "tool" => \A c : OpenCall(c) <=> Owed(c)
FreshInv ==
  goroutine.pc \in {"answered", "check", "calls"} /\ job.after # "tool" =>
    \A i \in 1..Len(goroutine.answer.calls) : ~ Called(goroutine.answer.calls[i])
KnownCalls == Usable => \A id : Called(id) => id \in UsedCallIDs

CallsInv == PairPlan /\ OpenInv /\ FreshInv /\ KnownCalls
PairInv == Trusted => PairSound /\ CallsInv

\* What the records of the engine are about.
LEMMA RecordFields ==
  /\ \A run, id : LET rec == ToolCall(run, id)
                 IN  rec.kind = "tool_call" /\ rec.run = run /\ rec.call = id
  /\ \A run, id, outcome : LET rec == ToolResult(run, id, outcome)
                          IN  rec.kind = "tool_result" /\ rec.run = run /\ rec.call = id
  /\ \A run, outcome, cause : RunOutcome(run, outcome, cause).kind = "run_outcome"
  /\ \A kind, run : Fact(kind, run).kind = kind
  /\ SessionClosed.kind = "session_closed"
  BY DEF ToolCall, ToolResult, RunOutcome, SessionClosed, Fact

LEMMA NeutralFits ==
  ASSUME NEW part, \A k \in 1..Len(part) : Neutral(part[k]) /\ part[k].kind # "run_outcome"
  PROVE  Fits(part)
  BY DEF Neutral, Fits

LEMMA OutcomeFits ==
  ASSUME NEW part, Len(part) \in Nat, Len(part) <= 1,
         \A k \in 1..Len(part) : part[k].kind = "run_outcome", NoneOpen
  PROVE  Fits(part)
  <1>1. \A k \in 1..Len(part) : k = 1
    OBVIOUS
  <1>2. \A h \in 1..Len(transcriptLog) :
          CallAt(transcriptLog, h) => HasAnswer(transcriptLog[h].rec.call)
    BY DEF NoneOpen, OpenCall, Called
  <1> QED
    BY <1>1, <1>2 DEF Fits

\* The result of an open call of the active run.
LEMMA ResultFits ==
  ASSUME AInv, LinesInv, Trusted, PairSound, NEW id, OpenCall(id), NEW outcome,
         NEW part, Len(part) \in Nat, Len(part) <= 1,
         \A k \in 1..Len(part) : part[k] = ToolResult(manifestFile.active, id, outcome)
  PROVE  Fits(part)
  <1>0. \A k \in 1..Len(part) : k = 1
    OBVIOUS
  <1>1. \A k \in 1..Len(part) : /\ part[k].kind = "tool_result" /\ part[k].call = id
                                /\ part[k].run = manifestFile.active
    BY RecordFields
  <1>2. PICK h \in 1..Len(transcriptLog) :
          CallAt(transcriptLog, h) /\ transcriptLog[h].rec.call = id
    BY DEF OpenCall, Called
  <1>3. ~ HasAnswer(id)
    BY DEF OpenCall
  <1>4. transcriptLog[h].rec.run = manifestFile.active
    BY <1>2, <1>3, OpenCallRun
  <1> QED
    BY <1>0, <1>1, <1>2, <1>3, <1>4 DEF Fits

\* The first write of another job than the end of a run is no outcome.
LEMMA HeadNoOutcome ==
  ASSUME AInv, job.writes # <<>>, job.after \notin {"settle", "reconciled"},
         Head(job.writes).op = "append"
  PROVE  \A i \in 1..Len(Head(job.writes).recs) : Head(job.writes).recs[i].kind # "run_outcome"
  <1> DEFINE W == job.writes
  <1>1. W \in Seq(StoreCall) /\ Head(W) = W[1] /\ Len(W) \in Nat /\ Len(W) > 0
    BY FirstOf DEF AInv, Types, JobType
  <1>2. PlanInv /\ job.after \in Afters /\ job.after # "free"
    BY JobShape DEF AInv, CInv, Types, JobType
  <1>3. \A run : PlainWrite(W[1], run) =>
          \A i \in 1..Len(W[1].recs) : W[1].recs[i].kind # "run_outcome"
    BY <1>1 DEF PlainWrite, Plain
  <1>4. ~ QuietWrite(W[1])
    BY <1>1 DEF QuietWrite
  <1>5. CASE job.after \in {"cancelled", "rejected", "done"}
    BY <1>1, <1>2, <1>4, <1>5 DEF PlanInv, AllQuiet
  <1>6. CASE job.after = "started"
    BY <1>1, <1>2, <1>3, <1>6 DEF PlanInv, StartPlan, AllPlain
  <1>7. CASE job.after \in AfterRun
    BY <1>1, <1>2, <1>3, <1>7 DEF PlanInv, AllPlain
  <1>8. CASE job.after \in {"closed", "loaded"}
    <2>1. ClosePlan(W)
      BY <1>1, <1>2, <1>8 DEF PlanInv
    <2>2. W[1].recs[1] = SessionClosed /\ Len(W[1].recs) = 1
      <3>1. ~ ToldWrite(W[1]) /\ W[1].op # "close"
        BY <1>1 DEF ToldWrite
      <3>2. Len(W) >= 3 /\ RecordWrite(W[Len(W) - 2], SessionClosed) /\ AllQuiet(W, Len(W) - 3)
        BY <1>1, <1>4, <2>1, <3>1 DEF ClosePlan, AllQuiet
      <3>3. ~ (Len(W) > 3)
        BY <1>1, <1>4, <3>2 DEF AllQuiet
      <3>4. Len(W) = 3
        <4>1. \A n \in Nat : n >= 3 /\ ~ (n > 3) => n = 3
          OBVIOUS
        <4> QED
          BY <1>1, <3>2, <3>3, <4>1, Zenon
      <3> QED
        BY <3>2, <3>4 DEF RecordWrite
    <2>3. \A i \in 1..Len(Head(job.writes).recs) : Head(job.writes).recs[i] = SessionClosed
      BY <1>1, <2>2
    <2> QED
      BY <2>3, RecordFields
  <1>9. job.after # "refused"
    BY <1>1, <1>2 DEF PlanInv
  <1> QED
    BY <1>2, <1>5, <1>6, <1>7, <1>8, <1>9 DEF Afters, AfterLoad

\* Whatever part of the first write of a job is made, it fits the log.
LEMMA HeadFits ==
  ASSUME AInv, LinesInv, PlacesInv, Trusted, PairSound, PairPlan, OpenInv,
         job.writes # <<>>, Head(job.writes).op = "append",
         NEW part, Prefix(part, Head(job.writes).recs)
  PROVE  Fits(part)
  <1> DEFINE W == job.writes
             w == Head(job.writes)
  <1>1. W \in Seq(StoreCall) /\ w = W[1] /\ Len(W) \in Nat /\ Len(W) > 0
    BY FirstOf DEF AInv, Types, JobType
  <1>2. /\ Len(part) \in Nat /\ Len(part) <= Len(w.recs) /\ Len(w.recs) \in Nat
        /\ \A k \in 1..Len(part) : k \in 1..Len(w.recs) /\ part[k] = w.recs[k]
    <2>1. w.recs \in Seq(Record)
      BY HeadTyped DEF AInv
    <2>2. Len(w.recs) \in Nat /\ Len(part) \in Nat /\ Len(part) <= Len(w.recs)
      BY <2>1 DEF Prefix
    <2> QED
      BY <2>2 DEF Prefix
  <1>3. PlanInv /\ Types
    BY DEF AInv, CInv
  <1>4. ASSUME NEW rec, RecordWrite(w, rec)
        PROVE  Len(part) <= 1 /\ \A k \in 1..Len(part) : part[k] = rec
    BY <1>2, <1>4 DEF RecordWrite
  <1>5. CASE job.after \notin {"tool", "settle", "reconciled"}
    <2>1. \A k \in 1..Len(w.recs) : Neutral(w.recs[k])
      BY <1>1, <1>5 DEF PairPlan, AllNeutral, NoCalls
    <2>2. \A k \in 1..Len(w.recs) : w.recs[k].kind # "run_outcome"
      BY <1>5, HeadNoOutcome
    <2> QED
      BY <1>2, <2>1, <2>2, NeutralFits
  <1>6. CASE job.after = "tool"
    <2>1. CASE CallsPlan(W)
      <3>1. \A k \in 1..Len(part) :
              /\ part[k].kind = "tool_call" /\ part[k].call = goroutine.rest[k]
              /\ ~ Called(goroutine.rest[k]) /\ k \in 1..Len(goroutine.rest)
        BY <1>1, <1>2, <2>1, RecordFields DEF CallsPlan
      <3>2. ASSUME NEW k \in 1..Len(part), NEW j \in 1..(k - 1)
            PROVE  part[j].call # part[k].call
        <4>1. j \in 1..Len(part) /\ j # k
          BY <1>2
        <4> QED
          BY <3>1, <4>1 DEF PlacesInv, RestInv
      <3> QED
        BY <3>1, <3>2 DEF Fits
    <2>2. CASE ResultPlan(W)
      <3>1. PICK id, outcome : /\ RecordWrite(w, ToolResult(goroutine.run, id, outcome))
                               /\ OpenCall(id)
        BY <1>1, <2>2 DEF ResultPlan
      <3>2. goroutine.run = manifestFile.active
        BY <1>3, <1>6 DEF PlanInv, AfterRun, Open
      <3>3. Len(part) <= 1
            /\ \A k \in 1..Len(part) : part[k] = ToolResult(manifestFile.active, id, outcome)
        BY <1>4, <3>1, <3>2
      <3> QED
        BY <1>2, <3>1, <3>3, ResultFits
    <2>3. ~ OwedPlan(W)
      BY <1>1 DEF OwedPlan
    <2> QED
      BY <1>6, <2>1, <2>2, <2>3 DEF PairPlan, ToolPlan
  <1>7. CASE job.after = "settle"
    <2>1. NoneOpen
      <3>1. At("finish")
        BY <1>3, <1>7, SettlePlace
      <3>2. state = "running"
        BY <1>7, JobShape DEF AInv, AfterRun
      <3>3. goroutine.rest = <<>>
        BY <1>7, <3>1 DEF At, PlacesInv, RestInv
      <3>4. \A c : ~ Owed(c)
        BY <3>3 DEF Owed
      <3> QED
        BY <1>7, <3>1, <3>2, <3>4 DEF OpenInv, Usable, At, NoneOpen
    <2>2. CASE KeepsRuns(w)
      <3>1. \A k \in 1..Len(w.recs) : w.recs[k].kind # "run_outcome"
        BY <2>2 DEF KeepsRuns, Plain
      <3>2. \A k \in 1..Len(w.recs) : Neutral(w.recs[k])
        BY <1>1, <1>7 DEF PairPlan, AllNeutral, NoCalls
      <3> QED
        BY <1>2, <3>1, <3>2, NeutralFits
    <2>3. CASE EndsRun(w)
      <3>1. PICK rec : rec.kind = "run_outcome" /\ RecordWrite(w, rec)
        BY <2>3 DEF EndsRun, IsOutcome
      <3>2. Len(part) <= 1 /\ \A k \in 1..Len(part) : part[k].kind = "run_outcome"
        BY <1>4, <3>1
      <3> QED
        BY <1>2, <2>1, <3>2, OutcomeFits
    <2>4. CASE RecordWrite(w, SessionClosed)
      <3>1. \A k \in 1..Len(part) : part[k].kind = "session_closed"
        BY <1>4, <2>4, RecordFields
      <3> QED
        BY <3>1, NeutralFits DEF Neutral
    <2> QED
      BY <2>2, <2>3, <2>4, HeadActs DEF ActsOnRuns
  <1>8. CASE job.after = "reconciled"
    <2> DEFINE run == manifestFile.active
               last == RunOutcome(run, "interrupted", "interrupted")
    <2>1. EndPlan(W, run, last)
      BY <1>3, <1>8 DEF PlanInv
    <2>2. Open(run) /\ Len(W) >= 3 /\ RecordWrite(W[Len(W) - 2], last)
      BY <1>1, <2>1 DEF EndPlan, EventWrite
    <2>3. RepairOf(W, Len(W) - 3)
      BY <1>8, <2>2 DEF PairPlan, RepairPlan
    <2>4. CASE Len(W) > 3
      <3>1. 1 \in 1..(Len(W) - 3)
        BY <1>1, <2>4
      <3>2. PICK id : OpenCall(id) /\ RecordWrite(w, ToolResult(run, id, "interrupted"))
        BY <1>1, <2>3, <3>1 DEF RepairOf
      <3>3. Len(part) <= 1 /\ \A k \in 1..Len(part) : part[k] = ToolResult(run, id, "interrupted")
        BY <1>4, <3>2
      <3> QED
        BY <1>2, <3>2, <3>3, ResultFits
    <2>5. CASE Len(W) = 3
      <3>1. \A c : OpenCall(c) => \E i \in 1..(Len(W) - 3) : W[i].recs[1].call = c
        BY <2>3 DEF RepairOf
      <3>2. 1..(Len(W) - 3) = {}
        BY <2>5
      <3>3. NoneOpen
        BY <3>1, <3>2 DEF NoneOpen
      <3>4. Len(W) - 2 = 1
        BY <2>5
      <3>5. RecordWrite(w, last)
        BY <1>1, <2>2, <3>4
      <3>6. Len(part) <= 1 /\ \A k \in 1..Len(part) : part[k].kind = "run_outcome"
        BY <1>4, <3>5, RecordFields
      <3> QED
        BY <1>2, <3>3, <3>6, OutcomeFits
    <2>6. Len(W) > 3 \/ Len(W) = 3
      <3>1. \A n \in Nat : n >= 3 => n > 3 \/ n = 3
        OBVIOUS
      <3> QED
        BY <1>1, <2>2, <3>1, Zenon
    <2> QED
      BY <2>4, <2>5, <2>6
  <1> QED
    BY <1>5, <1>6, <1>7, <1>8

LEMMA PairSoundNext ==
  ASSUME AInv, LinesInv, PlacesInv, Trusted, PairSound, PairPlan, OpenInv, [Next]_vars
  PROVE  PairSound'
  <1>1. CASE transcriptLog' = transcriptLog
    BY <1>1, CallsSame
  <1>2. CASE transcriptLog' # transcriptLog
    <2> DEFINE w == Head(job.writes)
    <2>1. job.writes # <<>> /\ Leaves(w)
      BY <1>2, DiskStep DEF Same
    <2>2. w \in StoreCall
      BY <2>1, HeadTyped DEF AInv
    <2>3. w.op = "append"
      BY <1>2, <2>1, <2>2, LeavesShown DEF AInv, Types
    <2>4. w.recs \in Seq(Record)
      BY <2>1, HeadTyped DEF AInv
    <2>5. \E part : Prefix(part, w.recs) /\ Added(part)
      <3>1. Prefix(w.recs, w.recs)
        BY <2>4 DEF Prefix
      <3> QED
        BY <1>2, <2>1, <2>3, <3>1 DEF Leaves, Does, Same
    <2>6. PICK part : Prefix(part, w.recs) /\ Added(part)
      BY <2>5
    <2>7. Fits(part)
      BY <2>1, <2>3, <2>6, HeadFits
    <2>8. part \in Seq(Record) /\ Longer(transcriptLog, transcriptLog', part)
      BY <2>6 DEF Prefix, Added
    <2> QED
      BY <2>7, <2>8, PairGrows DEF AInv, Types
  <1> QED
    BY <1>1, <1>2
-----------------------------------------------------------------------------
(***************************************************************************)
(* Steps that write no call.                                               *)
(***************************************************************************)
\* What a step shows that leaves the log, its records and the calls alone.
SameOwed ==
  \/ state' \notin {"idle", "running", "closed"}
  \/ goroutine'.pc = "faulting"
  \/ Usable /\ job.after # "tool" /\ goroutine'.rest = goroutine.rest
SameAnswer ==
  goroutine'.pc \in {"answered", "check", "calls"} =>
    /\ goroutine.pc \in {"answered", "check", "calls"} /\ job.after # "tool"
    /\ goroutine'.answer = goroutine.answer

LEMMA CallsKept ==
  ASSUME CallsInv, transcriptLog' = transcriptLog, records' = records,
         job'.after \notin {"tool", "reconciled"}, AllNeutral(job'.writes), SameOwed, SameAnswer
  PROVE  CallsInv'
  <1>1. \A id : (Called(id)' <=> Called(id)) /\ (OpenCall(id)' <=> OpenCall(id))
    BY CallsSame
  <1>2. UsedCallIDs' = UsedCallIDs
    BY DEF UsedCallIDs
  <1>3. PairPlan'
    BY DEF PairPlan, AllNeutral, NoCalls, Neutral
  <1>4. Usable' => Usable /\ job.after # "tool" /\ goroutine'.rest = goroutine.rest
    BY DEF SameOwed, Usable
  <1>5. goroutine'.rest = goroutine.rest => \A id : Owed(id)' <=> Owed(id)
    BY DEF Owed
  <1>6. OpenInv'
    BY <1>1, <1>4, <1>5 DEF OpenInv, CallsInv
  <1>7. FreshInv'
    BY <1>1 DEF FreshInv, CallsInv, SameAnswer
  <1>8. KnownCalls'
    BY <1>1, <1>2, <1>4 DEF KnownCalls, CallsInv
  <1> QED
    BY <1>3, <1>6, <1>7, <1>8 DEF CallsInv

\* Sequences of writes without a call.
NeutralSeq(W) == \E S : W \in Seq(S) /\ \A w \in S : NoCalls(w)

LEMMA NeutralSome ==
  ASSUME NEW S, \A w \in S : NoCalls(w)
  PROVE  /\ \A a \in S : NeutralSeq(<<a>>)
         /\ \A a, b \in S : NeutralSeq(<<a, b>>)
         /\ \A a, b, c \in S : NeutralSeq(<<a, b, c>>)
  <1>1. ASSUME NEW a \in S PROVE NeutralSeq(<<a>>)
    <2>1. <<a>> \in Seq(S)
      OBVIOUS
    <2> QED
      BY <2>1, Zenon DEF NeutralSeq
  <1>2. ASSUME NEW a \in S, NEW b \in S PROVE NeutralSeq(<<a, b>>)
    <2>1. <<a, b>> \in Seq(S)
      OBVIOUS
    <2> QED
      BY <2>1, Zenon DEF NeutralSeq
  <1>3. ASSUME NEW a \in S, NEW b \in S, NEW c \in S PROVE NeutralSeq(<<a, b, c>>)
    <2>1. <<a, b, c>> \in Seq(S)
      OBVIOUS
    <2> QED
      BY <2>1, Zenon DEF NeutralSeq
  <1> QED
    BY <1>1, <1>2, <1>3

LEMMA NeutralNone == NeutralSeq(<<>>)
  <1> DEFINE S == {w \in {} : NoCalls(w)}
  <1>1. <<>> \in Seq(S)
    OBVIOUS
  <1>2. \A w \in S : NoCalls(w)
    OBVIOUS
  <1> HIDE DEF S
  <1> QED
    BY <1>1, <1>2, Zenon DEF NeutralSeq

LEMMA NeutralJoin ==
  ASSUME NEW p, NEW q, NeutralSeq(p), NeutralSeq(q)
  PROVE  NeutralSeq(p \o q)
  <1>1. PICK S : p \in Seq(S) /\ \A w \in S : NoCalls(w)
    BY Zenon DEF NeutralSeq
  <1>2. PICK T : q \in Seq(T) /\ \A w \in T : NoCalls(w)
    BY Zenon DEF NeutralSeq
  <1>3. p \in Seq(S \cup T) /\ q \in Seq(S \cup T)
    BY <1>1, <1>2, SeqMonotonic
  <1>4. p \o q \in Seq(S \cup T)
    BY <1>3, ConcatProperties
  <1>5. \A w \in S \cup T : NoCalls(w)
    BY <1>1, <1>2
  <1> QED
    BY <1>4, <1>5, Zenon DEF NeutralSeq

LEMMA NeutralAll == ASSUME NEW W, NeutralSeq(W) PROVE AllNeutral(W)
  <1>1. PICK S : W \in Seq(S) /\ \A w \in S : NoCalls(w)
    BY Zenon DEF NeutralSeq
  <1>2. \A i \in 1..Len(W) : W[i] \in S
    BY <1>1
  <1> QED
    BY <1>1, <1>2 DEF AllNeutral

\* The writes of the engine that are about no call.
LEMMA NeutralWrites ==
  /\ \A op, e : op # "append" => NoCalls(Write(op, e))
  /\ \A ev, e : NoCalls(EmitW(ev, e)) /\ NoCalls(PersistW(ev, e))
  /\ \A rec, e : Neutral(rec) => NoCalls(AppendW(<<rec>>, e))
  /\ \A kind, run : kind \notin {"tool_call", "tool_result"} => Neutral(Fact(kind, run))
  /\ \A run, outcome, cause : Neutral(RunOutcome(run, outcome, cause))
  /\ Neutral(SessionClosed)
  <1>1. \A op, e : op # "append" => NoCalls(Write(op, e))
    BY WriteFields DEF NoCalls
  <1>2. \A ev, e : NoCalls(EmitW(ev, e)) /\ NoCalls(PersistW(ev, e))
    BY WriteFields DEF NoCalls
  <1>3. ASSUME NEW rec, NEW e, Neutral(rec) PROVE NoCalls(AppendW(<<rec>>, e))
    <2>1. AppendW(<<rec>>, e).recs = <<rec>>
      BY FieldsOfWrites
    <2>2. Len(<<rec>>) = 1 /\ <<rec>>[1] = rec
      BY OneOf
    <2>3. \A i \in 1..1 : i = 1
      OBVIOUS
    <2> QED
      BY <1>3, <2>1, <2>2, <2>3 DEF NoCalls
  <1> QED
    BY <1>1, <1>2, <1>3, RecordFields DEF Neutral

LEMMA SubmitNeutral ==
  ASSUME NEW cmd, Submit(cmd)
  PROVE  job'.after = "started" /\ AllNeutral(job'.writes)
  <1> DEFINE first == <<Write("begin", "fault"), AppendW(<<Fact("user_message", NextRun)>>, "fault")>>
             more == IF HasInstructions
                     THEN <<AppendW(<<Fact("instructions_loaded", NextRun)>>, "fault")>> ELSE <<>>
             last == <<EmitW(Ev("run_started", NextRun), "fault")>>
             S == {w \in {Write("begin", "fault"),
                   AppendW(<<Fact("user_message", NextRun)>>, "fault"),
                   AppendW(<<Fact("instructions_loaded", NextRun)>>, "fault"),
                   EmitW(Ev("run_started", NextRun), "fault")} : NoCalls(w)}
  <1>1. /\ Write("begin", "fault") \in S /\ AppendW(<<Fact("user_message", NextRun)>>, "fault") \in S
        /\ AppendW(<<Fact("instructions_loaded", NextRun)>>, "fault") \in S
        /\ EmitW(Ev("run_started", NextRun), "fault") \in S
    BY NeutralWrites
  <1>2. \A w \in S : NoCalls(w)
    OBVIOUS
  <1>3. job' = CommandJob(cmd, first \o more \o last, "started")
    BY DEF Submit, Begins
  <1> HIDE DEF S
  <1>4. NeutralSeq(first) /\ NeutralSeq(last)
    BY <1>1, <1>2, NeutralSome
  <1>5. NeutralSeq(more)
    BY <1>1, <1>2, NeutralSome, NeutralNone
  <1> HIDE DEF first, more, last
  <1>6. NeutralSeq(first \o more \o last)
    BY <1>4, <1>5, NeutralJoin
  <1> QED
    BY <1>3, <1>6, NeutralAll, CommandJobFacts

LEMMA CloseNeutral ==
  ASSUME NEW cmd, Close(cmd)
  PROVE  job'.after = "closed" /\ AllNeutral(job'.writes)
  <1> DEFINE first == <<Write("record", "return")>>
             more == IF state = "closed" THEN <<>>
                     ELSE <<AppendW(<<SessionClosed>>, "fault"), Write("close", "fault"),
                            EmitW(Ev("session_closed", NoRun), "fault")>>
             S == {w \in {Write("record", "return"), AppendW(<<SessionClosed>>, "fault"),
                   Write("close", "fault"), EmitW(Ev("session_closed", NoRun), "fault")} : NoCalls(w)}
  <1>1. /\ Write("record", "return") \in S /\ AppendW(<<SessionClosed>>, "fault") \in S
        /\ Write("close", "fault") \in S /\ EmitW(Ev("session_closed", NoRun), "fault") \in S
    BY NeutralWrites
  <1>2. \A w \in S : NoCalls(w)
    OBVIOUS
  <1>3. job' = CommandJob(cmd, first \o more, "closed")
    BY DEF Close, Begins
  <1> HIDE DEF S
  <1>4. NeutralSeq(first)
    BY <1>1, <1>2, NeutralSome
  <1>5. NeutralSeq(more)
    BY <1>1, <1>2, NeutralSome, NeutralNone
  <1> HIDE DEF first, more
  <1> QED
    BY <1>3, <1>4, <1>5, NeutralJoin, NeutralAll, CommandJobFacts

LEMMA FinishNeutral ==
  ASSUME FinishRun
  PROVE  job'.after = "settle" /\ AllNeutral(job'.writes)
  <1> DEFINE run == goroutine.run
             outcome == goroutine.outcome
             cause == goroutine.cause
             boundary == AppendW(<<Fact("cancellation_boundary", run)>>, "fault")
             fact == AppendW(<<RunOutcome(run, outcome, cause)>>, "fault")
             event == PersistW(TerminalEvent(run, outcome, cause), "fault")
             first == IF outcome = "cancelled" THEN <<boundary>> ELSE <<>>
             last == <<fact, event, Write("finish", "fault")>>
             S == {w \in {boundary, fact, event, Write("finish", "fault")} : NoCalls(w)}
  <1>1. boundary \in S /\ fact \in S /\ event \in S /\ Write("finish", "fault") \in S
    BY NeutralWrites
  <1>2. \A w \in S : NoCalls(w)
    OBVIOUS
  <1>3. job' = Job(first \o last, "settle")
    BY DEF FinishRun, Begins
  <1> HIDE DEF S, boundary, fact, event
  <1>4. NeutralSeq(last)
    BY <1>1, <1>2, NeutralSome
  <1>5. NeutralSeq(first)
    BY <1>1, <1>2, NeutralSome, NeutralNone
  <1> HIDE DEF first, last
  <1> QED
    BY <1>3, <1>4, <1>5, NeutralJoin, NeutralAll, JobFacts
-----------------------------------------------------------------------------
(***************************************************************************)
(* The calls, action by action: first the steps that write no call.        *)
(***************************************************************************)
LEMMA PlaceOfJob ==
  ASSUME AInv
  PROVE  /\ LockFree => job.after = "free" /\ job.writes = <<>>
         /\ goroutine.pc # "none" => state = "running"
         /\ job.after = "reconciled" => state = "starting"
  <1>1. goroutine.pc # "none" => state = "running"
    BY DEF AInv, IInv, ActiveInv
  <1>2. job.after = "reconciled" => state = "starting"
    BY DEF AInv, IInv, JobInv, AfterRun, AfterLoad
  <1> QED
    BY <1>1, <1>2, NoJobFacts DEF LockFree

LEMMA CallsMoved ==
  ASSUME AInv, CallsInv, transcriptLog' = transcriptLog, records' = records,
         state \in {"idle", "running", "closed"}, job.after # "tool",
         job' = job \/ (job'.after \notin {"tool", "reconciled"} /\ AllNeutral(job'.writes)),
         goroutine'.rest = goroutine.rest,
         goroutine'.pc = "faulting" \/ goroutine.pc # "faulting",
         goroutine'.pc \in {"answered", "check", "calls"} =>
           goroutine.pc \in {"answered", "check", "calls"} /\ goroutine'.answer = goroutine.answer
  PROVE  CallsInv'
  <1>1. job.after \notin {"tool", "reconciled"}
    BY PlaceOfJob
  <1>2. AllNeutral(job.writes)
    BY <1>1 DEF CallsInv, PairPlan
  <1>3. job'.after \notin {"tool", "reconciled"} /\ AllNeutral(job'.writes)
    <2>1. CASE job' = job
      BY <1>1, <1>2, <2>1
    <2> QED
      BY <2>1
  <1>4. SameOwed /\ SameAnswer
    BY <1>1 DEF SameOwed, SameAnswer, Usable
  <1> QED
    BY <1>3, <1>4, CallsKept

LEMMA CommandCalls ==
  ASSUME AInv, CallsInv, (\E cmd \in CommandIDs : Command(cmd)) \/ Shutdown
  PROVE  CallsInv'
  <1>1. CASE Shutdown
    <2>1. job' = job /\ goroutine' = goroutine /\ LockFree /\ state = "running"
          /\ transcriptLog' = transcriptLog /\ records' = records
      BY <1>1 DEF Shutdown, storeVars
    <2> QED
      BY <2>1, PlaceOfJob, CallsMoved
  <1>2. ASSUME NEW cmd, Command(cmd) PROVE CallsInv'
    <2>1. LockFree /\ goroutine' = goroutine /\ state \in {"idle", "running", "closed"}
          /\ transcriptLog' = transcriptLog /\ records' = records
      BY <1>2 DEF Command, Submit, SubmitSensitive, Cancel, Resume, Close, Takes, Begins, storeVars
    <2>2. job'.after \notin {"tool", "reconciled"} /\ AllNeutral(job'.writes)
      <3>1. CASE Submit(cmd)
        BY <3>1, SubmitNeutral
      <3>2. CASE Close(cmd)
        BY <3>2, CloseNeutral
      <3>3. CASE SubmitSensitive(cmd) \/ Resume(cmd)
        <4> DEFINE W(kind) == <<Write("record", "return"), EmitW(Ev(kind, NoRun), "fault")>>
        <4>1. \/ job' = CommandJob(cmd, W("warning"), "rejected")
              \/ job' = CommandJob(cmd, W("session_resumed"), "done")
          BY <3>3 DEF SubmitSensitive, Resume, Begins
        <4>2. ASSUME NEW kind PROVE NeutralSeq(W(kind))
          <5> DEFINE S == {w \in {Write("record", "return"), EmitW(Ev(kind, NoRun), "fault")} : NoCalls(w)}
          <5>1. Write("record", "return") \in S /\ EmitW(Ev(kind, NoRun), "fault") \in S
            BY NeutralWrites
          <5>2. \A w \in S : NoCalls(w)
            OBVIOUS
          <5> HIDE DEF S
          <5> QED
            BY <5>1, <5>2, NeutralSome
        <4> HIDE DEF W
        <4> QED
          BY <4>1, <4>2, NeutralAll, CommandJobFacts
      <3>4. CASE Cancel(cmd)
        <4>1. job' = CommandJob(cmd, <<Write("record", "return")>>, "cancelled")
          BY <3>4 DEF Cancel, Begins
        <4> DEFINE S == {Write("record", "return")}
        <4>2. \A w \in S : NoCalls(w)
          BY NeutralWrites
        <4>3. NeutralSeq(<<Write("record", "return")>>)
          BY <4>2, NeutralSome
        <4> QED
          BY <4>1, <4>3, NeutralAll, CommandJobFacts
      <3> QED
        BY <1>2, <3>1, <3>2, <3>3, <3>4 DEF Command
    <2> QED
      BY <2>1, <2>2, PlaceOfJob, CallsMoved
  <1> QED
    BY <1>1, <1>2

LEMMA LocalCalls ==
  ASSUME AInv, PlacesInv, CallsInv,
         \/ LoopTop \/ Sleep \/ WakeUp \/ ResponseError \/ CallsDone
         \/ ProviderFails \/ ProviderCancelled
         \/ ReserveCall \/ ReserveAttempt \/ ReserveDelay
  PROVE  CallsInv'
  <1>1. Types
    BY DEF AInv
  <1>2. Goes(goroutine') /\ job' = job /\ transcriptLog' = transcriptLog /\ records' = records
    <2>1. CASE ReserveCall \/ ReserveAttempt \/ ReserveDelay
      <3>1. Goes(goroutine')
        BY <1>1, <2>1, ReservationsGo
      <3>2. job' = job /\ records' = records
        BY <2>1 DEF ReserveCall, ReserveAttempt, ReserveDelay, Reserve
      <3>3. transcriptLog' = transcriptLog
        BY <2>1, ReservedSame DEF Same
      <3> QED
        BY <3>1, <3>2, <3>3
    <2>2. CASE ~ (ReserveCall \/ ReserveAttempt \/ ReserveDelay)
      <3>1. PICK g : Moves(g) /\ Goes(g)
        BY <1>1, <2>2, LocalStepsGo
      <3> QED
        BY <3>1 DEF Moves, storeVars
    <2> QED
      BY <2>1, <2>2
  <1>3. \/ goroutine.pc \in {"loop", "sleep", "parked", "response_error",
                             "reserve_call", "reserve_attempt", "reserve_delay"}
        \/ goroutine.pc = "attempt" /\ LockFree
        \/ CallsDone /\ goroutine.pc = "tool" /\ LockFree
    BY DEF LoopTop, Sleep, WakeUp, ResponseError, ReserveCall, ReserveAttempt, ReserveDelay,
       ProviderFails, ProviderCancelled, CallsDone, At
  <1>4. goroutine.pc \notin {"none", "faulting"} /\ job.after # "tool"
    BY <1>3, PlaceOfJob DEF PlacesInv, JobPlaces
  <1>5. goroutine.rest = <<>>
    <2>1. CASE CallsDone
      BY <2>1 DEF CallsDone
    <2>2. CASE ~ CallsDone
      BY <1>3, <1>4, <2>2 DEF PlacesInv, RestInv
    <2> QED
      BY <2>1, <2>2
  <1>6. goroutine'.rest = goroutine.rest /\ goroutine'.pc \in Roams
    BY <1>2, <1>5 DEF Goes
  <1> QED
    BY <1>2, <1>4, <1>6, PlaceOfJob, CallsMoved DEF Roams

\* The calls of the answer are not those of any record.
LEMMA AnswerCalls ==
  ASSUME AInv, PlacesInv, CallsInv, FreshCallIDs, ProviderAnswers
  PROVE  CallsInv'
  <1>1. At("attempt") /\ LockFree
    BY DEF ProviderAnswers
  <1>2. PICK a \in Answers :
          /\ \A i \in DOMAIN a.calls : a.calls[i] \notin UsedCallIDs
          /\ Moves([Goto("answered") EXCEPT !.answer = a])
    BY DEF ProviderAnswers
  <1>3. Types
    BY DEF AInv
  <1>4. goroutine'.rest = goroutine.rest /\ goroutine'.answer = a /\ goroutine'.pc = "answered"
    BY <1>2, <1>3, LocalRest DEF Moves
  <1>5. job' = job /\ state' = state /\ transcriptLog' = transcriptLog /\ records' = records
    BY <1>2 DEF Moves, storeVars
  <1>6. job.after = "free" /\ state = "running"
    BY <1>1, PlaceOfJob DEF At
  <1>7. \A id : (Called(id)' <=> Called(id)) /\ (OpenCall(id)' <=> OpenCall(id))
    BY <1>5, CallsSame
  <1>8. UsedCallIDs' = UsedCallIDs
    BY <1>5 DEF UsedCallIDs
  <1>9. Usable /\ Usable'
    BY <1>1, <1>4, <1>5, <1>6 DEF Usable, At
  <1>10. PairPlan'
    BY <1>5, <1>6 DEF CallsInv, PairPlan, AllNeutral, NoCalls, Neutral
  <1>11. OpenInv'
    BY <1>4, <1>6, <1>7, <1>9 DEF CallsInv, OpenInv, Owed
  <1>12. KnownCalls'
    BY <1>7, <1>8, <1>9 DEF CallsInv, KnownCalls
  <1>13. DOMAIN a.calls = 1..Len(a.calls)
    <2>1. a \in Answer
      BY SessionAssumption
    <2> QED
      BY <2>1 DEF Answer
  <1>14. FreshInv'
    BY <1>2, <1>4, <1>7, <1>9, <1>13 DEF CallsInv, FreshInv, KnownCalls
  <1> QED
    BY <1>10, <1>11, <1>12, <1>14 DEF CallsInv

\* The goroutine takes the mutex for writes that are about no call.
LEMMA OneNeutral ==
  /\ \A ev, e : AllNeutral(<<EmitW(ev, e)>>)
  /\ \A rec, ev, e, d : Neutral(rec) => AllNeutral(<<AppendW(<<rec>>, e), EmitW(ev, d)>>)
  <1>1. ASSUME NEW ev, NEW e PROVE AllNeutral(<<EmitW(ev, e)>>)
    <2> DEFINE S == {w \in {EmitW(ev, e)} : NoCalls(w)}
    <2>1. EmitW(ev, e) \in S
      BY NeutralWrites
    <2>2. \A w \in S : NoCalls(w)
      OBVIOUS
    <2> HIDE DEF S
    <2> QED
      BY <2>1, <2>2, NeutralSome, NeutralAll
  <1>2. ASSUME NEW rec, NEW ev, NEW e, NEW d, Neutral(rec)
        PROVE  AllNeutral(<<AppendW(<<rec>>, e), EmitW(ev, d)>>)
    <2> DEFINE S == {w \in {AppendW(<<rec>>, e), EmitW(ev, d)} : NoCalls(w)}
    <2>1. AppendW(<<rec>>, e) \in S /\ EmitW(ev, d) \in S
      BY <1>2, NeutralWrites
    <2>2. \A w \in S : NoCalls(w)
      OBVIOUS
    <2> HIDE DEF S
    <2> QED
      BY <2>1, <2>2, NeutralSome, NeutralAll
  <1> QED
    BY <1>1, <1>2

LEMMA BeginCalls ==
  ASSUME AInv, PlacesInv, CallsInv,
         \/ StreamDelta \/ RetryStep \/ Answered \/ CheckResponse \/ FinishRun
         \/ NextTool /\ ~ \E outcome : FinishesTool(outcome)
  PROVE  CallsInv'
  <1>1. LockFree /\ goroutine.pc \in {"attempt", "retry", "answered", "check", "finish", "tool"}
    BY DEF StreamDelta, RetryStep, Answered, CheckResponse, FinishRun, NextTool, At
  <1>2. Types /\ job.after = "free" /\ state = "running"
    BY <1>1, PlaceOfJob DEF AInv
  <1>3. transcriptLog' = transcriptLog /\ records' = records
    BY DEF StreamDelta, RetryStep, Answered, CheckResponse, FinishRun, NextTool, Begins, Moves,
       storeVars, FinishesTool
  <1>4. job' = job \/ (job'.after \notin {"tool", "reconciled"} /\ AllNeutral(job'.writes))
    <2>1. CASE StreamDelta \/ RetryStep \/ Answered
      <3>1. job' = job \/ \E ev, e : \E after \in {"attempt", "sleep", "check"} :
              job' = Job(<<EmitW(ev, e)>>, after)
        BY <2>1 DEF StreamDelta, RetryStep, Answered, Begins, Moves
      <3>2. ASSUME NEW ev, NEW e, NEW after \in {"attempt", "sleep", "check"},
                   job' = Job(<<EmitW(ev, e)>>, after)
            PROVE  job'.after \notin {"tool", "reconciled"} /\ AllNeutral(job'.writes)
        <4>1. AllNeutral(<<EmitW(ev, e)>>)
          BY OneNeutral
        <4> QED
          BY <3>2, <4>1, JobFacts
      <3> QED
        BY <3>1, <3>2
    <2>2. CASE CheckResponse
      <3>1. \/ job' = job
            \/ job' = Job(<<AppendW(<<Fact("assistant_block", goroutine.run)>>, "fail_run"),
                            EmitW(Ev("assistant_text", goroutine.run), "fail_run")>>, "calls")
        BY <2>2 DEF CheckResponse, Begins, Moves
      <3>2. Neutral(Fact("assistant_block", goroutine.run))
        BY NeutralWrites
      <3> QED
        BY <3>1, <3>2, OneNeutral, JobFacts
    <2>3. CASE FinishRun
      BY <2>3, FinishNeutral
    <2>4. CASE NextTool /\ ~ \E outcome : FinishesTool(outcome)
      <3>1. job' = Job(<<EmitW(Ev("tool_started", goroutine.run), "fault")>>, "exec")
        BY <2>4 DEF NextTool, Begins
      <3> QED
        BY <3>1, OneNeutral, JobFacts
    <2> QED
      BY <2>1, <2>2, <2>3, <2>4
  <1>5. \/ goroutine' = goroutine
        \/ \E b : goroutine' = [goroutine EXCEPT !.streamed = b]
        \/ goroutine.pc = "answered" /\ goroutine' = Goto("check")
        \/ goroutine.pc = "check" /\ goroutine' = Goto("calls")
        \/ goroutine.pc = "check" /\ \E outcome, cause : goroutine' = Ending(outcome, cause)
    <2>1. CASE StreamDelta \/ RetryStep \/ FinishRun
      BY <2>1 DEF StreamDelta, RetryStep, FinishRun
    <2>2. CASE Answered
      BY <2>2 DEF Answered, Moves, At
    <2>3. CASE CheckResponse
      BY <2>3 DEF CheckResponse, Moves, At
    <2>4. CASE NextTool /\ ~ \E outcome : FinishesTool(outcome)
      BY <2>4 DEF NextTool
    <2> QED
      BY <2>1, <2>2, <2>3, <2>4
  <1>6. goroutine.pc = "check" => goroutine.rest = <<>>
    BY <1>2 DEF PlacesInv, RestInv
  <1>7. /\ goroutine'.rest = goroutine.rest
        /\ goroutine'.pc = "faulting" \/ goroutine.pc # "faulting"
        /\ goroutine'.pc \in {"answered", "check", "calls"} =>
             goroutine.pc \in {"answered", "check", "calls"} /\ goroutine'.answer = goroutine.answer
    <2>1. CASE goroutine' = goroutine
      BY <2>1
    <2>2. CASE \E b : goroutine' = [goroutine EXCEPT !.streamed = b]
      BY <1>2, <2>2, LocalRest
    <2>3. CASE \E pc \in {"check", "calls"} : goroutine' = Goto(pc) /\ goroutine.pc \in {"answered", "check"}
      <3>1. PICK pc \in {"check", "calls"} : goroutine' = Goto(pc)
        BY <2>3
      <3>2. goroutine'.answer = goroutine.answer
        BY <1>2, <3>1, LocalFields DEF Goto
      <3>3. goroutine'.rest = goroutine.rest
        BY <1>2, <3>1, LocalRest
      <3> QED
        BY <1>1, <2>3, <3>2, <3>3
    <2>4. CASE goroutine.pc = "check" /\ \E outcome, cause : goroutine' = Ending(outcome, cause)
      <3>1. goroutine'.pc = "finish"
        BY <1>2, <2>4, LocalFields, GoroutineFacts
      <3>2. goroutine'.rest = <<>>
        BY <1>2, <2>4, LocalRest
      <3> QED
        BY <1>6, <2>4, <3>1, <3>2
    <2> QED
      BY <1>5, <2>1, <2>2, <2>3, <2>4
  <1> QED
    BY <1>1, <1>2, <1>3, <1>4, <1>7, CallsMoved
-----------------------------------------------------------------------------
(***************************************************************************)
(* The steps that write calls and results.                                 *)
(***************************************************************************)
LEMMA RecordCallsCalls ==
  ASSUME AInv, PlacesInv, CallsInv, RecordCalls
  PROVE  CallsInv'
  <1>1. goroutine.pc = "calls" /\ LockFree
    BY DEF RecordCalls, At
  <1>2. Types /\ job.after = "free" /\ state = "running"
    BY <1>1, PlaceOfJob DEF AInv
  <1>3. goroutine.rest = <<>>
    BY <1>1, <1>2 DEF PlacesInv, RestInv
  <1>4. CASE \E outcome, cause : Moves(Ending(outcome, cause))
    <2>1. PICK outcome, cause : Moves(Ending(outcome, cause))
      BY <1>4
    <2>2. goroutine' = Ending(outcome, cause) /\ job' = job
          /\ transcriptLog' = transcriptLog /\ records' = records
      BY <2>1 DEF Moves, storeVars
    <2>3. goroutine'.rest = <<>> /\ goroutine'.pc = "finish"
      BY <1>2, <2>2, LocalRest, LocalFields, GoroutineFacts
    <2> QED
      BY <1>1, <1>2, <1>3, <2>2, <2>3, CallsMoved
  <1>5. CASE ~ \E outcome, cause : Moves(Ending(outcome, cause))
    <2> DEFINE calls == goroutine.answer.calls
               recs == [i \in DOMAIN calls |-> ToolCall(goroutine.run, calls[i])]
               w == AppendW(recs, "fault_run")
    <2>1. /\ Begins(Job(<<w>>, "tool"))
          /\ goroutine' = [goroutine EXCEPT !.rest = calls, !.answer = NoAnswer,
                             !.streamed = FALSE, !.stopped = FALSE, !.blocked = FALSE]
      BY <1>5 DEF RecordCalls
    <2>2. calls \in Seq(CallIDs)
      BY <1>2, LocalFields
    <2>3. goroutine'.rest = calls /\ goroutine'.run = goroutine.run
      BY <1>2, <2>1, LocalFields
    <2>4. goroutine'.pc = "calls"
      BY <1>1, <1>2, <2>1, LocalFields
    <2>5. job'.after = "tool" /\ job'.writes = <<w>>
      BY <2>1, JobFacts DEF Begins
    <2>6. state' = state /\ transcriptLog' = transcriptLog /\ records' = records
      BY <2>1 DEF Begins, storeVars
    <2>7. w.op = "append" /\ w.recs = recs
      BY WriteFields, FieldsOfWrites
    <2>8. Len(<<w>>) = 1 /\ <<w>>[1] = w
      BY OneOf
    <2>9. DOMAIN calls = 1..Len(calls) /\ Len(calls) \in Nat
      BY <2>2
    <2>10. Len(recs) = Len(calls)
      BY <2>9
    <2>11. \A i \in 1..Len(calls) : recs[i] = ToolCall(goroutine.run, calls[i])
      BY <2>9
    <2>12. \A i \in 1..Len(calls) : ~ Called(calls[i])
      BY <1>1, <1>2 DEF CallsInv, FreshInv
    <2>13. NoneOpen
      <3>1. Len(goroutine.rest) = 0
        BY <1>3
      <3>2. \A c : ~ Owed(c)
        BY <3>1 DEF Owed
      <3> QED
        BY <1>1, <1>2, <3>2 DEF CallsInv, OpenInv, Usable, NoneOpen
    <2>14. \A id : (Called(id)' <=> Called(id)) /\ (OpenCall(id)' <=> OpenCall(id))
      BY <2>6, CallsSame
    <2>15. NoneOpen'
      BY <2>13, <2>14 DEF NoneOpen
    <2>16. \A i \in 1..Len(goroutine'.rest) : ~ Called(goroutine.rest[i])'
      BY <2>3, <2>6, <2>12 DEF Called
    <2> HIDE DEF calls, recs, w
    <2>17. CallsPlan(job.writes)'
      <3>1. Len(job'.writes) = 1 /\ job'.writes[1].op = "append"
        BY <2>5, <2>7, <2>8
      <3>2. job'.writes[1].recs = recs
        BY <2>5, <2>7, <2>8
      <3>3. Len(job'.writes[1].recs) = Len(goroutine'.rest)
        BY <2>3, <2>10, <3>2
      <3>4. \A i \in 1..Len(goroutine'.rest) :
              job'.writes[1].recs[i] = ToolCall(goroutine'.run, goroutine'.rest[i])
        BY <2>3, <2>11, <3>2
      <3> QED
        BY <2>15, <2>16, <3>1, <3>3, <3>4 DEF CallsPlan
    <2>18. PairPlan'
      BY <2>5, <2>17 DEF PairPlan, ToolPlan
    <2>19. Usable /\ UsedCallIDs' = UsedCallIDs
      BY <1>1, <1>2, <2>6 DEF Usable, UsedCallIDs
    <2>20. KnownCalls'
      BY <2>14, <2>19 DEF KnownCalls, CallsInv
    <2> QED
      BY <2>5, <2>18, <2>20 DEF CallsInv, OpenInv, FreshInv
  <1> QED
    BY <1>4, <1>5

LEMMA FinishesToolCalls ==
  ASSUME AInv, PlacesInv, CallsInv, NEW outcome, FinishesTool(outcome), goroutine.rest # <<>>,
         goroutine.pc \in {"tool", "exec"}, LockFree
  PROVE  CallsInv'
  <1>0. PICK id : id = Head(goroutine.rest)
    OBVIOUS
  <1> DEFINE first == AppendW(<<ToolResult(goroutine.run, id, outcome)>>, "fault_run")
             last == EmitW(Ev("tool_finished", goroutine.run), "fault_run")
  <1>1. Types /\ job.after = "free" /\ state = "running"
    BY PlaceOfJob DEF AInv
  <1>2. Begins(Job(<<first, last>>, "tool"))
    BY <1>0 DEF FinishesTool
  <1>3. /\ goroutine'.rest = Tail(goroutine.rest) /\ goroutine'.pc = goroutine.pc
        /\ goroutine'.run = goroutine.run
    BY <1>1, LocalFields DEF FinishesTool
  <1>4. job'.after = "tool" /\ job'.writes = <<first, last>>
    BY <1>2, JobFacts DEF Begins
  <1>5. state' = state /\ transcriptLog' = transcriptLog /\ records' = records
    BY <1>2 DEF Begins, storeVars
  <1>6. RecordWrite(first, ToolResult(goroutine.run, id, outcome)) /\ last.op = "emit"
    <2>1. first.op = "append" /\ first.recs = <<ToolResult(goroutine.run, id, outcome)>>
          /\ last.op = "emit"
      BY WriteFields, FieldsOfWrites
    <2> HIDE DEF first, last
    <2> QED
      BY <2>1, OneOf DEF RecordWrite
  <1>7. Len(<<first, last>>) = 2 /\ <<first, last>>[1] = first /\ <<first, last>>[2] = last
    BY TwoOf
  <1>8. /\ Len(goroutine.rest) \in Nat /\ Len(goroutine.rest) > 0 /\ id = goroutine.rest[1]
        /\ Len(goroutine'.rest) = Len(goroutine.rest) - 1
        /\ \A i \in 1..(Len(goroutine.rest) - 1) : goroutine'.rest[i] = goroutine.rest[i + 1]
    BY <1>0, <1>1, <1>3, RestOfRest
  <1> HIDE DEF first, last
  <1>9. ~ Owed(id)'
    <2>1. \A i \in 1..(Len(goroutine.rest) - 1) : i + 1 \in 1..Len(goroutine.rest) /\ i + 1 # 1
      BY <1>8
    <2>2. 1 \in 1..Len(goroutine.rest)
      BY <1>8
    <2>3. \A i \in 1..(Len(goroutine.rest) - 1) : goroutine'.rest[i] # id
      BY <1>8, <2>1, <2>2 DEF PlacesInv, RestInv
    <2> QED
      BY <1>8, <2>3 DEF Owed
  <1>10. \A c : Owed(c) <=> Owed(c)' \/ c = id
    <2>1. \A c : Owed(c) => Owed(c)' \/ c = id
      <3>1. \A i \in 1..Len(goroutine.rest) : i = 1 \/ (i - 1 \in 1..(Len(goroutine.rest) - 1) /\ i = (i - 1) + 1)
        BY <1>8
      <3>2. \A i \in 1..Len(goroutine.rest) :
              i = 1 \/ (i - 1 \in 1..Len(goroutine'.rest) /\ goroutine'.rest[i - 1] = goroutine.rest[i])
        BY <1>8, <3>1
      <3> QED
        BY <1>8, <3>2 DEF Owed
    <2>2. \A c : Owed(c)' => Owed(c)
      <3>1. \A i \in 1..(Len(goroutine.rest) - 1) : i + 1 \in 1..Len(goroutine.rest)
        BY <1>8
      <3> QED
        BY <1>8, <3>1 DEF Owed
    <2>3. Owed(id)
      <3>1. 1 \in 1..Len(goroutine.rest)
        BY <1>8
      <3> QED
        BY <1>8, <3>1 DEF Owed
    <2> QED
      BY <2>1, <2>2, <2>3
  <1>11. \A c : OpenCall(c) <=> Owed(c)
    BY <1>1 DEF CallsInv, OpenInv, Usable
  <1>12. \A c : (Called(c)' <=> Called(c)) /\ (OpenCall(c)' <=> OpenCall(c))
    BY <1>5, CallsSame
  <1>13. \A c : OpenCall(c)' <=> Owed(c)' \/ c = id
    BY <1>10, <1>11, <1>12
  <1>14. RecordWrite(job'.writes[1], ToolResult(goroutine'.run, id, outcome))
    BY <1>3, <1>4, <1>6, <1>7
  <1>15. Len(job'.writes) = 2 /\ job'.writes[2].op = "emit"
    BY <1>4, <1>6, <1>7
  <1>16. ResultPlan(job.writes)'
    BY <1>9, <1>13, <1>14, <1>15 DEF ResultPlan, RecordWrite
  <1>17. PairPlan'
    BY <1>4, <1>16 DEF PairPlan, ToolPlan
  <1>18. Usable /\ UsedCallIDs' = UsedCallIDs
    BY <1>1, <1>5 DEF Usable, UsedCallIDs
  <1>19. KnownCalls'
    BY <1>12, <1>18 DEF KnownCalls, CallsInv
  <1> QED
    BY <1>4, <1>17, <1>19 DEF CallsInv, OpenInv, FreshInv

LEMMA ToolCallsCalls ==
  ASSUME AInv, PlacesInv, CallsInv, RecordCalls \/ NextTool \/ ExecuteTool
  PROVE  CallsInv'
  <1>1. CASE NextTool /\ \E outcome : FinishesTool(outcome)
    BY <1>1, FinishesToolCalls DEF NextTool, At
  <1>2. CASE ExecuteTool
    <2>1. goroutine.rest # <<>>
      BY <1>2, NoJobFacts DEF AInv, Types, PlaceInv, ExecuteTool, LockFree
    <2> QED
      BY <1>2, <2>1, FinishesToolCalls DEF ExecuteTool, At
  <1> QED
    BY <1>1, <1>2, RecordCallsCalls, BeginCalls
-----------------------------------------------------------------------------
(***************************************************************************)
(* The mutex is left.                                                      *)
(***************************************************************************)
LEMMA NoJobNeutral ==
  ASSUME job' = NoJob
  PROVE  job'.after = "free" /\ AllNeutral(job'.writes)
  BY NoJobFacts, NeutralNone, NeutralAll

LEMMA GoneCalls ==
  ASSUME state' \notin {"idle", "running", "closed"}, job' = NoJob, goroutine' = NoGoroutine
  PROVE  CallsInv'
  <1>1. job'.after = "free" /\ AllNeutral(job'.writes)
    BY NoJobNeutral
  <1>2. goroutine'.pc = "none"
    BY NoGoroutineFacts
  <1>3. PairPlan'
    BY <1>1 DEF PairPlan, AllNeutral, NoCalls, Neutral
  <1> QED
    BY <1>2, <1>3 DEF CallsInv, OpenInv, FreshInv, KnownCalls, Usable

LEMMA GoesOnCalls ==
  ASSUME AInv, PlacesInv, CallsInv, GoroutineGoesOn
  PROVE  CallsInv'
  <1>1. PICK pc \in {"attempt", "sleep", "check", "calls", "tool", "exec"} :
          Finishes(pc) /\ goroutine' = Goto(pc)
    BY DEF GoroutineGoesOn
  <1>2. Types /\ job' = NoJob /\ job.after = pc /\ job.writes = <<>>
    BY <1>1 DEF AInv, Finishes
  <1>3. /\ goroutine'.pc = pc /\ goroutine'.rest = goroutine.rest
        /\ goroutine'.answer = goroutine.answer
    BY <1>1, <1>2, LocalFields DEF Goto
  <1>4. /\ transcriptLog' = transcriptLog /\ records' = records /\ state' = state
        /\ state = "running"
    <2>1. state = "running"
      BY <1>2 DEF AInv, IInv, JobInv, AfterRun, AfterLoad
    <2> QED
      BY <2>1 DEF GoroutineGoesOn, storeVars
  <1>5. job'.after = "free" /\ AllNeutral(job'.writes)
    BY <1>2, NoJobNeutral
  <1>6. goroutine.pc # "faulting" \/ pc # "tool"
    BY <1>2 DEF PlacesInv, JobPlaces
  <1>7. CASE pc # "tool"
    <2>1. pc \in {"answered", "check", "calls"} => goroutine.pc \in {"answered", "check", "calls"}
      BY <1>2 DEF PlacesInv, JobPlaces, At
    <2>2. goroutine.pc # "faulting"
      BY <1>2, <1>7 DEF PlacesInv, JobPlaces, At
    <2> QED
      BY <1>2, <1>3, <1>4, <1>5, <1>7, <2>1, <2>2, CallsMoved
  <1>8. CASE pc = "tool"
    <2>1. ToolPlan(<<>>)
      BY <1>2, <1>8 DEF CallsInv, PairPlan
    <2>2. \A c : OpenCall(c) <=> Owed(c)
      BY <2>1 DEF ToolPlan, CallsPlan, ResultPlan, OwedPlan
    <2>3. \A c : (Called(c)' <=> Called(c)) /\ (OpenCall(c)' <=> OpenCall(c))
      BY <1>4, CallsSame
    <2>4. \A c : Owed(c)' <=> Owed(c)
      BY <1>3 DEF Owed
    <2>5. PairPlan'
      BY <1>5 DEF PairPlan, AllNeutral, NoCalls, Neutral
    <2>6. OpenInv'
      BY <2>2, <2>3, <2>4 DEF OpenInv
    <2>7. Usable /\ UsedCallIDs' = UsedCallIDs
      BY <1>4, <1>6, <1>8 DEF Usable, UsedCallIDs
    <2>8. KnownCalls'
      BY <2>3, <2>7 DEF KnownCalls, CallsInv
    <2> QED
      BY <1>3, <1>8, <2>5, <2>6, <2>8 DEF CallsInv, FreshInv
  <1> QED
    BY <1>7, <1>8

LEMMA MutexCalls ==
  ASSUME AInv, PlacesInv, CallsInv, CommandDone \/ Settle \/ GoroutineGoesOn \/ FaultRun
  PROVE  CallsInv'
  <1>1. CASE FaultRun
    BY <1>1, GoneCalls DEF FaultRun, Fault
  <1>2. CASE Settle
    <2>1. job' = NoJob /\ job.after = "settle" /\ goroutine' = NoGoroutine
          /\ transcriptLog' = transcriptLog /\ records' = records
      BY <1>2 DEF Settle, Finishes, storeVars
    <2>2. state = "running" /\ goroutine.pc = "finish"
      BY <2>1, SettlePlace DEF AInv, IInv, JobInv, AfterRun, AfterLoad, At
    <2>3. goroutine.rest = <<>>
      BY <2>1, <2>2 DEF PlacesInv, RestInv
    <2>4. goroutine'.rest = <<>> /\ goroutine'.pc = "none"
      BY <2>1, LocalRest DEF AInv
    <2> QED
      BY <2>1, <2>2, <2>3, <2>4, NoJobNeutral, CallsMoved
  <1>3. CASE CommandDone
    <2>1. PICK after \in {"done", "rejected", "started", "cancelled", "closed"} :
            /\ Finishes(after)
            /\ goroutine' = IF after = "started"
                            THEN [NoGoroutine EXCEPT !.pc = "loop", !.run = manifest.active]
                            ELSE goroutine
      BY <1>3 DEF CommandDone
    <2>2. job' = NoJob /\ job.after = after
      BY <2>1 DEF Finishes
    <2>3. transcriptLog' = transcriptLog /\ records' = records
      BY <1>3 DEF CommandDone, storeVars
    <2>4. state \in {"idle", "running", "closed"} /\ (after = "started" => state = "idle")
      BY <2>2 DEF AInv, IInv, JobInv, AfterRun, AfterLoad
    <2>5. CASE after = "started"
      <3>1. goroutine.pc = "none"
        BY <2>4, <2>5 DEF AInv, IInv, ActiveInv
      <3>2. goroutine.rest = <<>>
        BY <2>2, <2>5, <3>1 DEF PlacesInv, RestInv
      <3>3. goroutine' = [NoGoroutine EXCEPT !.pc = "loop", !.run = manifest.active]
        BY <2>1, <2>5
      <3>4. goroutine'.rest = <<>> /\ goroutine'.pc = "loop"
        BY <3>3 DEF NoGoroutine
      <3> QED
        BY <2>2, <2>3, <2>4, <2>5, <3>1, <3>2, <3>4, NoJobNeutral, CallsMoved
    <2>6. CASE after # "started"
      BY <2>1, <2>2, <2>3, <2>4, <2>6, NoJobNeutral, CallsMoved
    <2> QED
      BY <2>5, <2>6
  <1> QED
    BY <1>1, <1>2, <1>3, GoesOnCalls
-----------------------------------------------------------------------------
(***************************************************************************)
(* A write is made.                                                        *)
(***************************************************************************)
\* The records in memory know the calls that were appended to them.
LEMMA UsedGrows ==
  ASSUME Types, NEW recs \in Seq(Record), records' = records \o Numbered(manifest.transcriptSeq, recs)
  PROVE  /\ UsedCallIDs \subseteq UsedCallIDs'
         /\ \A k \in 1..Len(recs) : recs[k].kind = "tool_call" => recs[k].call \in UsedCallIDs'
  <1> DEFINE more == Numbered(manifest.transcriptSeq, recs)
  <1>1. manifest.transcriptSeq \in Nat /\ records \in Seq(Entry)
    BY DEF Types, Store!TypeOK, Store!Manifest
  <1>2. /\ more \in Seq(Entry) /\ Len(more) = Len(recs)
        /\ \A i \in 1..Len(recs) : more[i].rec = recs[i]
    BY <1>1, NumberedEntries
  <1> HIDE DEF more
  <1>3. /\ records \o more \in Seq(Entry) /\ Len(records \o more) = Len(records) + Len(more)
        /\ \A i \in 1..Len(records) : (records \o more)[i] = records[i]
        /\ \A i \in 1..Len(more) : (records \o more)[Len(records) + i] = more[i]
    BY <1>1, <1>2, ConcatEntries
  <1>4. records' = records \o more
    BY DEF more
  <1>5. /\ DOMAIN records = 1..Len(records) /\ DOMAIN records' = 1..Len(records')
        /\ Len(records) \in Nat /\ Len(recs) \in Nat
    BY <1>1, <1>3, <1>4
  <1>6. Len(records') = Len(records) + Len(recs)
    BY <1>2, <1>3, <1>4
  <1>7. \A i \in 1..Len(records) : i \in 1..Len(records') /\ records'[i] = records[i]
    BY <1>3, <1>4, <1>5, <1>6
  <1>8. \A k \in 1..Len(recs) : Len(records) + k \in 1..Len(records')
                                /\ records'[Len(records) + k].rec = recs[k]
    BY <1>2, <1>3, <1>4, <1>5, <1>6
  <1>9. UsedCallIDs \subseteq UsedCallIDs'
    BY <1>5, <1>7 DEF UsedCallIDs
  <1>10. \A k \in 1..Len(recs) : recs[k].kind = "tool_call" => recs[k].call \in UsedCallIDs'
    BY <1>5, <1>8 DEF UsedCallIDs
  <1> QED
    BY <1>9, <1>10

\* What was written, and what is left to write.
LEMMA HeadWritten ==
  ASSUME AInv, WriteSucceeds
  PROVE  LET w == Head(job.writes)
         IN  /\ job.writes # <<>> /\ w \in StoreCall /\ Does(w) /\ Leaves(w)
             /\ job'.writes = Tail(job.writes) /\ job'.after = job.after
             /\ goroutine' = goroutine /\ state' = state
             /\ w.op # "append" => transcriptLog' = transcriptLog /\ records' = records
             /\ w.op = "append" =>
                  /\ w.recs \in Seq(Record) /\ Longer(transcriptLog, transcriptLog', w.recs)
                  /\ records' = records \o Numbered(manifest.transcriptSeq, w.recs)
  <1> DEFINE w == Head(job.writes)
  <1>1. job.writes # <<>> /\ StoreWrite(w, "ok")
    BY DEF WriteSucceeds
  <1>2. w \in StoreCall /\ (w.op = "append" => w.recs \in Seq(Record))
    BY <1>1, HeadTyped DEF AInv
  <1>3. Leaves(w) /\ Does(w)
    BY <1>1, <1>2, AgreeNow, WriteLeaves DEF AInv
  <1>4. w.op # "append" => transcriptLog' = transcriptLog
    BY <1>2, <1>3, LeavesShown DEF AInv, Types
  <1>5. job'.writes = Tail(job.writes) /\ job'.after = job.after
    BY DEF WriteSucceeds, AInv, Types, JobType
  <1>6. goroutine' = goroutine /\ state' = state
    BY DEF WriteSucceeds
  <1>7. /\ w.op # "append" => records' = records
        /\ w.op = "append" => records' = records \o Numbered(manifest.transcriptSeq, w.recs)
    BY DEF WriteSucceeds
  <1>8. w.op = "append" => Longer(transcriptLog, transcriptLog', w.recs)
    BY <1>3 DEF Does, Added
  <1> QED
    BY <1>1, <1>2, <1>3, <1>4, <1>5, <1>6, <1>7, <1>8

\* A write that is about no call.
LEMMA NeutralWritten ==
  ASSUME AInv, WriteSucceeds, NoCalls(Head(job.writes))
  PROVE  /\ \A c : /\ Called(c)' <=> Called(c)
                   /\ HasAnswer(c)' <=> HasAnswer(c)
                   /\ OpenCall(c)' <=> OpenCall(c)
         /\ UsedCallIDs \subseteq UsedCallIDs'
  <1> DEFINE w == Head(job.writes)
  <1>1. CASE w.op = "append"
    <2>1. /\ w.recs \in Seq(Record) /\ Longer(transcriptLog, transcriptLog', w.recs)
          /\ records' = records \o Numbered(manifest.transcriptSeq, w.recs)
      BY <1>1, HeadWritten
    <2>2. \A k \in 1..Len(w.recs) : w.recs[k].kind \notin {"tool_call", "tool_result"}
      BY <1>1 DEF NoCalls, Neutral
    <2>0. PICK recs : recs = w.recs
      OBVIOUS
    <2>6. /\ recs \in Seq(Record) /\ Longer(transcriptLog, transcriptLog', recs)
          /\ records' = records \o Numbered(manifest.transcriptSeq, recs)
          /\ \A k \in 1..Len(recs) : recs[k].kind \notin {"tool_call", "tool_result"}
      BY <2>0, <2>1, <2>2
    <2>7. /\ \A id : Called(id)' <=>
                Called(id) \/ \E k \in 1..Len(recs) : recs[k].kind = "tool_call" /\ recs[k].call = id
          /\ \A id : HasAnswer(id)' <=>
                HasAnswer(id) \/ \E k \in 1..Len(recs) : recs[k].kind = "tool_result" /\ recs[k].call = id
      BY <2>6, CallsGrow DEF AInv, Types
    <2>3. \A c : (Called(c)' <=> Called(c)) /\ (HasAnswer(c)' <=> HasAnswer(c))
      BY <2>6, <2>7
    <2>4. \A c : OpenCall(c)' <=> OpenCall(c)
      BY <2>3 DEF OpenCall
    <2>5. UsedCallIDs \subseteq UsedCallIDs'
      BY <2>6, UsedGrows DEF AInv
    <2> QED
      BY <2>3, <2>4, <2>5
  <1>2. CASE w.op # "append"
    <2>1. transcriptLog' = transcriptLog /\ records' = records
      BY <1>2, HeadWritten
    <2>2. UsedCallIDs' = UsedCallIDs
      BY <2>1 DEF UsedCallIDs
    <2> QED
      BY <2>1, <2>2, CallsSame
  <1> QED
    BY <1>1, <1>2

\* A result has a call of the same ID.
LEMMA AnswersAreCalled ==
  ASSUME Store!TypeOK, PairSound
  PROVE  \A c : HasAnswer(c) => Called(c)
  <1>1. Len(transcriptLog) \in Nat
    BY DEF Store!TypeOK
  <1>2. ASSUME NEW k \in 1..Len(transcriptLog), ResultAt(transcriptLog, k)
        PROVE  Called(transcriptLog[k].rec.call)
    <2>1. \E i \in 1..(k - 1) : ResultFor(transcriptLog, i, k)
      BY <1>2 DEF PairSound, PairableUpTo, Pairable
    <2>2. \A i \in 1..(k - 1) : i \in 1..Len(transcriptLog)
      BY <1>1
    <2> QED
      BY <2>1, <2>2 DEF Called, ResultFor
  <1> QED
    BY <1>2 DEF HasAnswer

LEMMA NeutralTail ==
  ASSUME NEW W \in Seq(StoreCall), W # <<>>, AllNeutral(W)
  PROVE  NoCalls(Head(W)) /\ AllNeutral(Tail(W))
  <1>1. /\ Head(W) = W[1] /\ Len(W) \in Nat /\ Len(W) > 0 /\ Len(Tail(W)) = Len(W) - 1
        /\ \A i \in 1..(Len(W) - 1) : Tail(W)[i] = W[i + 1]
    BY FirstOf
  <1>2. 1 \in 1..Len(W) /\ \A i \in 1..(Len(W) - 1) : i + 1 \in 1..Len(W)
    BY <1>1
  <1>3. NoCalls(Head(W))
    BY <1>1, <1>2 DEF AllNeutral
  <1>4. \A i \in 1..(Len(W) - 1) : NoCalls(W[i + 1])
    BY <1>2 DEF AllNeutral
  <1>5. \A i \in 1..(Len(W) - 1) : NoCalls(Tail(W)[i])
    BY <1>1, <1>4, Zenon
  <1> QED
    BY <1>1, <1>3, <1>5 DEF AllNeutral

LEMMA WriteNeutralCalls ==
  ASSUME AInv, CallsInv, WriteSucceeds, job.after \notin {"tool", "reconciled"}
  PROVE  CallsInv'
  <1>1. job.writes \in Seq(StoreCall)
    BY DEF AInv, Types, JobType
  <1>2. AllNeutral(job.writes)
    BY DEF CallsInv, PairPlan
  <1>3. /\ job.writes # <<>> /\ job'.writes = Tail(job.writes) /\ job'.after = job.after
        /\ goroutine' = goroutine /\ state' = state
    BY HeadWritten
  <1>4. NoCalls(Head(job.writes)) /\ AllNeutral(Tail(job.writes))
    BY <1>1, <1>2, <1>3, NeutralTail
  <1>5. /\ \A c : (Called(c)' <=> Called(c)) /\ (OpenCall(c)' <=> OpenCall(c))
        /\ UsedCallIDs \subseteq UsedCallIDs'
    BY <1>4, NeutralWritten
  <1>6. PairPlan'
    BY <1>3, <1>4 DEF PairPlan, AllNeutral, NoCalls, Neutral
  <1>7. (Usable' <=> Usable) /\ \A c : Owed(c)' <=> Owed(c)
    BY <1>3 DEF Usable, Owed
  <1>8. OpenInv'
    BY <1>3, <1>5, <1>7 DEF CallsInv, OpenInv
  <1>9. FreshInv'
    BY <1>3, <1>5 DEF CallsInv, FreshInv
  <1>10. KnownCalls'
    BY <1>5, <1>7 DEF CallsInv, KnownCalls
  <1> QED
    BY <1>6, <1>8, <1>9, <1>10 DEF CallsInv

\* The calls of an answer are recorded: they are open and owed.
LEMMA WriteCallsPlan ==
  ASSUME AInv, CallsInv, PairSound, WriteSucceeds, job.after = "tool", CallsPlan(job.writes)
  PROVE  (\A c : OpenCall(c)' <=> Owed(c)) /\ Tail(job.writes) = <<>> /\ KnownCalls'
  <1>1. /\ job.writes \in Seq(StoreCall) /\ Store!TypeOK /\ Types
        /\ goroutine.rest \in Seq(CallIDs)
    BY LocalFields DEF AInv, Types, JobType
  <1>2. job.writes # <<>>
    BY HeadWritten
  <1>3. PICK recs : recs = Head(job.writes).recs
    OBVIOUS
  <1>4. Head(job.writes) = job.writes[1] /\ Len(job.writes) = 1 /\ Tail(job.writes) = <<>>
    <2>1. Len(job.writes) = 1
      BY DEF CallsPlan
    <2>2. /\ Head(job.writes) = job.writes[1] /\ Tail(job.writes) \in Seq(StoreCall)
          /\ Len(Tail(job.writes)) = Len(job.writes) - 1
      BY <1>1, <1>2, FirstOf
    <2>3. \A W \in Seq(StoreCall) : Len(W) = 1 - 1 => W = <<>>
      OBVIOUS
    <2> QED
      BY <2>1, <2>2, <2>3
  <1>5. /\ Head(job.writes).op = "append" /\ Len(recs) = Len(goroutine.rest)
        /\ \A i \in 1..Len(goroutine.rest) : /\ recs[i] = ToolCall(goroutine.run, goroutine.rest[i])
                                             /\ ~ Called(goroutine.rest[i])
        /\ NoneOpen
    BY <1>3, <1>4 DEF CallsPlan
  <1>6. /\ recs \in Seq(Record) /\ Longer(transcriptLog, transcriptLog', recs)
        /\ records' = records \o Numbered(manifest.transcriptSeq, recs)
        /\ goroutine' = goroutine /\ state' = state
    BY <1>3, <1>5, HeadWritten
  <1>7. /\ \A id : Called(id)' <=>
             Called(id) \/ \E k \in 1..Len(recs) : recs[k].kind = "tool_call" /\ recs[k].call = id
        /\ \A id : HasAnswer(id)' <=>
             HasAnswer(id) \/ \E k \in 1..Len(recs) : recs[k].kind = "tool_result" /\ recs[k].call = id
    BY <1>1, <1>6, CallsGrow
  <1>8. \A k \in 1..Len(recs) : recs[k].kind = "tool_call" /\ recs[k].call = goroutine.rest[k]
    BY <1>5, RecordFields
  <1>9. \A c : (\E k \in 1..Len(recs) : recs[k].kind = "tool_call" /\ recs[k].call = c) <=> Owed(c)
    BY <1>5, <1>8 DEF Owed
  <1>10. \A c : Called(c)' <=> Called(c) \/ Owed(c)
    BY <1>7, <1>9
  <1>11. \A c : HasAnswer(c)' <=> HasAnswer(c)
    <2>1. \A k \in 1..Len(recs) : recs[k].kind # "tool_result"
      BY <1>8
    <2> QED
      BY <1>7, <2>1
  <1>12. \A c : Owed(c) => ~ Called(c) /\ ~ HasAnswer(c)
    <2>1. \A c : HasAnswer(c) => Called(c)
      BY <1>1, AnswersAreCalled
    <2>2. \A c : Owed(c) => ~ Called(c)
      BY <1>5 DEF Owed
    <2> QED
      BY <2>1, <2>2
  <1>13. \A c : ~ OpenCall(c)
    BY <1>5 DEF NoneOpen
  <1>14. \A c : OpenCall(c)' <=> Owed(c)
    <2>1. \A c : OpenCall(c)' <=> Called(c)' /\ ~ HasAnswer(c)'
      BY DEF OpenCall
    <2>2. \A c : Called(c) => HasAnswer(c)
      BY <1>13 DEF OpenCall
    <2> QED
      BY <1>10, <1>11, <1>12, <2>1, <2>2
  <1>15. KnownCalls'
    <2>1. /\ UsedCallIDs \subseteq UsedCallIDs'
          /\ \A k \in 1..Len(recs) : recs[k].kind = "tool_call" => recs[k].call \in UsedCallIDs'
      BY <1>1, <1>6, UsedGrows
    <2>2. \A c : Owed(c) => c \in UsedCallIDs'
      BY <1>9, <2>1
    <2>3. Usable' <=> Usable
      BY <1>6 DEF Usable
    <2> QED
      BY <1>10, <2>1, <2>2, <2>3 DEF CallsInv, KnownCalls
  <1> QED
    BY <1>4, <1>14, <1>15

\* The result of a call is recorded: the others are still owed.
LEMMA WriteResultPlan ==
  ASSUME AInv, CallsInv, WriteSucceeds, job.after = "tool", ResultPlan(job.writes)
  PROVE  /\ \A c : OpenCall(c)' <=> Owed(c)
         /\ Len(Tail(job.writes)) = 1 /\ Tail(job.writes)[1].op = "emit"
         /\ KnownCalls'
  <1>1. job.writes \in Seq(StoreCall) /\ Store!TypeOK /\ Types
    BY DEF AInv, Types, JobType
  <1>2. job.writes # <<>>
    BY HeadWritten
  <1>3. PICK recs : recs = Head(job.writes).recs
    OBVIOUS
  <1>4. PICK id, outcome :
          /\ RecordWrite(job.writes[1], ToolResult(goroutine.run, id, outcome))
          /\ ~ Owed(id)
          /\ \A c : OpenCall(c) <=> Owed(c) \/ c = id
    BY DEF ResultPlan
  <1>5. /\ Head(job.writes) = job.writes[1] /\ Len(job.writes) = 2
        /\ Len(Tail(job.writes)) = 1 /\ Tail(job.writes)[1] = job.writes[2]
        /\ job.writes[2].op = "emit"
    <2>1. Len(job.writes) = 2 /\ job.writes[2].op = "emit"
      BY DEF ResultPlan
    <2>2. /\ Head(job.writes) = job.writes[1] /\ Len(Tail(job.writes)) = Len(job.writes) - 1
          /\ \A i \in 1..(Len(job.writes) - 1) : Tail(job.writes)[i] = job.writes[i + 1]
      BY <1>1, <1>2, FirstOf
    <2>3. 1 \in 1..(2 - 1) /\ 1 + 1 = 2 /\ 2 - 1 = 1
      OBVIOUS
    <2> QED
      BY <2>1, <2>2, <2>3
  <1>6. /\ Head(job.writes).op = "append" /\ Len(recs) = 1
        /\ recs[1] = ToolResult(goroutine.run, id, outcome)
    BY <1>3, <1>4, <1>5 DEF RecordWrite
  <1>7. /\ recs \in Seq(Record) /\ Longer(transcriptLog, transcriptLog', recs)
        /\ records' = records \o Numbered(manifest.transcriptSeq, recs)
        /\ goroutine' = goroutine /\ state' = state
    BY <1>3, <1>6, HeadWritten
  <1>8. /\ \A c : Called(c)' <=>
             Called(c) \/ \E k \in 1..Len(recs) : recs[k].kind = "tool_call" /\ recs[k].call = c
        /\ \A c : HasAnswer(c)' <=>
             HasAnswer(c) \/ \E k \in 1..Len(recs) : recs[k].kind = "tool_result" /\ recs[k].call = c
    BY <1>1, <1>7, CallsGrow
  <1>9. recs[1].kind = "tool_result" /\ recs[1].call = id
    BY <1>6, RecordFields
  <1>10. 1 \in 1..Len(recs) /\ \A k \in 1..Len(recs) : k = 1
    BY <1>6
  <1>11. \A c : Called(c)' <=> Called(c)
    BY <1>8, <1>9, <1>10
  <1>12. \A c : HasAnswer(c)' <=> HasAnswer(c) \/ c = id
    BY <1>8, <1>9, <1>10
  <1>13. \A c : OpenCall(c)' <=> OpenCall(c) /\ c # id
    BY <1>11, <1>12 DEF OpenCall
  <1>14. \A c : OpenCall(c)' <=> Owed(c)
    BY <1>4, <1>13
  <1>15. KnownCalls'
    <2>1. UsedCallIDs \subseteq UsedCallIDs'
      BY <1>1, <1>7, UsedGrows
    <2>2. Usable' <=> Usable
      BY <1>7 DEF Usable
    <2> QED
      BY <1>11, <2>1, <2>2 DEF CallsInv, KnownCalls
  <1> QED
    BY <1>5, <1>14, <1>15

LEMMA WriteToolCalls ==
  ASSUME AInv, CallsInv, PairSound, WriteSucceeds, job.after = "tool"
  PROVE  CallsInv'
  <1>1. job.writes \in Seq(StoreCall) /\ Store!TypeOK /\ Types
    BY DEF AInv, Types, JobType
  <1>2. /\ job.writes # <<>> /\ job'.writes = Tail(job.writes) /\ job'.after = "tool"
        /\ goroutine' = goroutine /\ state' = state
    BY HeadWritten
  <1>3. \A c : Owed(c)' <=> Owed(c)
    BY <1>2 DEF Owed
  <1>4. /\ \A c : OpenCall(c)' <=> Owed(c)
        /\ \A i \in 1..Len(Tail(job.writes)) : Tail(job.writes)[i].op # "append"
        /\ KnownCalls'
    <2>1. CASE CallsPlan(job.writes)
      <3>1. (\A c : OpenCall(c)' <=> Owed(c)) /\ Tail(job.writes) = <<>> /\ KnownCalls'
        BY <2>1, WriteCallsPlan
      <3>2. Len(Tail(job.writes)) = 0
        <4>1. Len(<<>>) = 0
          OBVIOUS
        <4> QED
          BY <3>1, <4>1, Zenon
      <3>3. \A i \in 1..0 : FALSE
        OBVIOUS
      <3> QED
        BY <3>1, <3>2, <3>3
    <2>2. CASE ResultPlan(job.writes)
      <3>1. /\ \A c : OpenCall(c)' <=> Owed(c)
            /\ Len(Tail(job.writes)) = 1 /\ Tail(job.writes)[1].op = "emit"
            /\ KnownCalls'
        BY <2>2, WriteResultPlan
      <3>2. \A i \in 1..1 : i = 1
        OBVIOUS
      <3> QED
        BY <3>1, <3>2
    <2>3. CASE OwedPlan(job.writes)
      <3>1. /\ Head(job.writes) = job.writes[1] /\ Len(job.writes) \in Nat /\ Len(job.writes) > 0
            /\ Len(Tail(job.writes)) = Len(job.writes) - 1
            /\ \A i \in 1..(Len(job.writes) - 1) : Tail(job.writes)[i] = job.writes[i + 1]
        BY <1>1, <1>2, FirstOf
      <3>2. 1 \in 1..Len(job.writes) /\ \A i \in 1..(Len(job.writes) - 1) : i + 1 \in 1..Len(job.writes)
        BY <3>1
      <3>3. Head(job.writes).op # "append" /\ \A c : OpenCall(c) <=> Owed(c)
        BY <2>3, <3>1, <3>2 DEF OwedPlan
      <3>4. \A i \in 1..(Len(job.writes) - 1) : job.writes[i + 1].op # "append"
        BY <2>3, <3>2 DEF OwedPlan
      <3>5. \A i \in 1..(Len(job.writes) - 1) : Tail(job.writes)[i].op # "append"
        BY <3>1, <3>4, Zenon
      <3>6. NoCalls(Head(job.writes))
        BY <3>3 DEF NoCalls
      <3>7. /\ \A c : (Called(c)' <=> Called(c)) /\ (OpenCall(c)' <=> OpenCall(c))
            /\ UsedCallIDs \subseteq UsedCallIDs'
        BY <3>6, NeutralWritten
      <3>8. KnownCalls'
        BY <1>2, <3>7 DEF CallsInv, KnownCalls, Usable
      <3> QED
        BY <3>1, <3>3, <3>5, <3>7, <3>8
    <2> QED
      BY <2>1, <2>2, <2>3 DEF CallsInv, PairPlan, ToolPlan
  <1>5. OwedPlan(job.writes)'
    BY <1>2, <1>3, <1>4 DEF OwedPlan
  <1>6. PairPlan'
    BY <1>2, <1>5 DEF PairPlan, ToolPlan
  <1> QED
    BY <1>2, <1>4, <1>6 DEF CallsInv, OpenInv, FreshInv

\* A write of the repair leaves the run open only if it was a result.
LEMMA RepairHead ==
  ASSUME AInv, WriteSucceeds, job.after = "reconciled", Open(manifestFile.active)'
  PROVE  /\ Open(manifestFile.active) /\ manifestFile'.active = manifestFile.active
         /\ Len(job.writes) > 3
  <1>1. job.writes \in Seq(StoreCall) /\ Store!TypeOK
    BY DEF AInv, Types, JobType
  <1>2. PICK run : run = manifestFile.active
    OBVIOUS
  <1>3. PICK rec : rec = RunOutcome(run, "interrupted", "interrupted")
    OBVIOUS
  <1>4. EndPlan(job.writes, run, rec)
    BY <1>2, <1>3 DEF AInv, CInv, PlanInv
  <1>5. job.writes # <<>> /\ Does(Head(job.writes)) /\ Head(job.writes) \in StoreCall
    BY HeadWritten
  <1>6. Head(job.writes) = job.writes[1] /\ Len(job.writes) \in Nat /\ Len(job.writes) > 0
    BY <1>1, <1>5, FirstOf
  <1>7. ~ Ended(manifestFile.active)' /\ manifestFile'.active # NoRun
    BY DEF Open
  <1>8. CASE Open(run) /\ Len(job.writes) >= 3
    <2>1. /\ RecordWrite(job.writes[Len(job.writes) - 2], rec)
          /\ AllPlain(job.writes, Len(job.writes) - 3, run)
      BY <1>4, <1>8 DEF EndPlan, Open, Untold, Marked, Resting
    <2>2. CASE Len(job.writes) = 3
      <3>1. RecordWrite(Head(job.writes), rec)
        BY <1>6, <2>1, <2>2
      <3>2. IsOutcome(rec, run) /\ run \in Nat
        BY <1>2, <1>3, OutcomeFacts DEF AInv
      <3>3. Head(job.writes).op = "append" /\ Len(Head(job.writes).recs) = 1
            /\ Head(job.writes).recs[1] = rec
        BY <3>1 DEF RecordWrite
      <3>4. Added(Head(job.writes).recs)
        BY <1>5, <3>3 DEF Does
      <3>5. /\ Len(transcriptLog') = Len(transcriptLog) + 1
            /\ transcriptLog'[Len(transcriptLog) + 1].rec = rec
            /\ manifestFile'.active = run
        <4>1. 1 \in 1..1
          OBVIOUS
        <4> QED
          BY <1>2, <3>3, <3>4, <4>1 DEF Added, Longer, SameCore, CoreIs
      <3>6. Len(transcriptLog) \in Nat
        BY <1>1 DEF Store!TypeOK
      <3>7. Len(transcriptLog) + 1 \in 1..Len(transcriptLog')
        BY <3>5, <3>6
      <3>8. PICK i : i = Len(transcriptLog) + 1
        OBVIOUS
      <3>9. EndsAt(i, run)'
        BY <3>2, <3>5, <3>8 DEF EndsAt, IsOutcome
      <3>10. Ended(run)'
        BY <3>7, <3>8, <3>9 DEF Ended
      <3> QED
        BY <1>7, <3>5, <3>10 DEF Ended, EndsAt
    <2>3. CASE Len(job.writes) # 3
      <3>1. Len(job.writes) > 3 /\ 1 \in 1..(Len(job.writes) - 3)
        <4>1. \A n \in Nat : n >= 3 /\ n # 3 => n > 3 /\ 1 \in 1..(n - 3)
          OBVIOUS
        <4> QED
          BY <1>6, <1>8, <2>3, <4>1, Zenon
      <3>2. PlainWrite(Head(job.writes), run)
        BY <1>6, <2>1, <3>1 DEF AllPlain
      <3>3. manifestFile'.active = run
        BY <1>2, <1>5, <3>2 DEF PlainWrite, Does, Added, Noted, SameCore, CoreIs
      <3> QED
        BY <1>2, <1>8, <3>1, <3>3
    <2> QED
      BY <2>2, <2>3
  <1>9. CASE Untold(run) /\ Len(job.writes) = 2
    <2>1. EventWrite(Head(job.writes), ReportOf(rec))
      BY <1>4, <1>6, <1>9 DEF EndPlan, Open, Untold, Marked, Resting
    <2>2. transcriptLog' = transcriptLog /\ manifestFile'.active = run
      BY <1>2, <1>5, <2>1 DEF EventWrite, Does, Noted, SameCore, CoreIs
    <2> QED
      BY <1>7, <1>9, <2>2 DEF Untold, Ended, EndsAt
  <1>10. CASE Marked(run) /\ Len(job.writes) = 1
    <2>1. Head(job.writes).op = "finish"
      BY <1>4, <1>6, <1>10 DEF EndPlan, Open, Untold, Marked, Resting
    <2>2. manifestFile'.active = NoRun
      BY <1>5, <2>1 DEF Does, CoreOnly, CoreIs
    <2> QED
      BY <1>7, <2>2
  <1> QED
    BY <1>4, <1>6, <1>8, <1>9, <1>10 DEF EndPlan

LEMMA WriteRepairCalls ==
  ASSUME AInv, CallsInv, WriteSucceeds, job.after = "reconciled"
  PROVE  CallsInv'
  <1>1. job.writes \in Seq(StoreCall) /\ Store!TypeOK /\ Types
    BY DEF AInv, Types, JobType
  <1>2. /\ job.writes # <<>> /\ job'.writes = Tail(job.writes) /\ job'.after = "reconciled"
        /\ goroutine' = goroutine /\ state' = state
    BY HeadWritten
  <1>3. state = "starting" /\ goroutine.pc = "none"
    <2>1. state = "starting"
      BY PlaceOfJob
    <2> QED
      BY <2>1 DEF AInv, IInv, ActiveInv
  <1>4. RepairPlan(job.writes)'
    <2> SUFFICES ASSUME Open(manifestFile.active)'
                 PROVE  RepairOf(job.writes, Len(job.writes) - 3)'
      BY DEF RepairPlan
    <2>1. /\ Open(manifestFile.active) /\ manifestFile'.active = manifestFile.active
          /\ Len(job.writes) > 3
      BY RepairHead
    <2>2. PICK run : run = manifestFile.active
      OBVIOUS
    <2>3. PICK m : m = Len(job.writes) - 3
      OBVIOUS
    <2>4. /\ Head(job.writes) = job.writes[1] /\ Len(job.writes) \in Nat
          /\ Len(Tail(job.writes)) = Len(job.writes) - 1
          /\ \A i \in 1..(Len(job.writes) - 1) : Tail(job.writes)[i] = job.writes[i + 1]
      BY <1>1, <1>2, FirstOf
    <2>5. /\ m \in Nat /\ m > 0 /\ Len(Tail(job.writes)) - 3 = m - 1
          /\ \A i \in 1..(m - 1) : i \in 1..(Len(job.writes) - 1) /\ i + 1 \in 1..m
          /\ 1 \in 1..m
          /\ \A i \in 1..m : i = 1 \/ (i - 1 \in 1..(m - 1) /\ (i - 1) + 1 = i)
      BY <2>1, <2>3, <2>4
    <2>6. RepairOf(job.writes, m)
      BY <1>2, <2>1, <2>3 DEF CallsInv, PairPlan, RepairPlan
    <2>7. PICK id : /\ OpenCall(id)
                    /\ RecordWrite(job.writes[1], ToolResult(manifestFile.active, id, "interrupted"))
      BY <2>5, <2>6 DEF RepairOf
    <2>8. PICK recs : recs = Head(job.writes).recs
      OBVIOUS
    <2>9. /\ Head(job.writes).op = "append" /\ Len(recs) = 1
          /\ recs[1] = ToolResult(manifestFile.active, id, "interrupted")
      BY <2>4, <2>7, <2>8 DEF RecordWrite
    <2>10. recs \in Seq(Record) /\ Longer(transcriptLog, transcriptLog', recs)
      BY <2>8, <2>9, HeadWritten
    <2>11. /\ \A c : Called(c)' <=>
                Called(c) \/ \E k \in 1..Len(recs) : recs[k].kind = "tool_call" /\ recs[k].call = c
           /\ \A c : HasAnswer(c)' <=>
                HasAnswer(c) \/ \E k \in 1..Len(recs) : recs[k].kind = "tool_result" /\ recs[k].call = c
      BY <1>1, <2>10, CallsGrow
    <2>12. recs[1].kind = "tool_result" /\ recs[1].call = id
      BY <2>9, RecordFields
    <2>13. 1 \in 1..Len(recs) /\ \A k \in 1..Len(recs) : k = 1
      BY <2>9
    <2>14. \A c : (Called(c)' <=> Called(c)) /\ (HasAnswer(c)' <=> HasAnswer(c) \/ c = id)
      BY <2>11, <2>12, <2>13
    <2>15. \A c : OpenCall(c)' <=> OpenCall(c) /\ c # id
      BY <2>14 DEF OpenCall
    <2>16. job.writes[1].recs[1].call = id
      BY <2>4, <2>8, <2>12
    <2>17. \A i \in 1..(m - 1) : Tail(job.writes)[i] = job.writes[i + 1]
      BY <2>4, <2>5
    <2>18. ASSUME NEW i \in 1..(m - 1)
           PROVE  \E c : /\ OpenCall(c)'
                         /\ RecordWrite(job'.writes[i], ToolResult(manifestFile'.active, c, "interrupted"))
      <3>1. i + 1 \in 1..m /\ i + 1 # 1
        BY <2>5
      <3>2. PICK c : /\ OpenCall(c)
                     /\ RecordWrite(job.writes[i + 1], ToolResult(manifestFile.active, c, "interrupted"))
        BY <2>6, <3>1 DEF RepairOf
      <3>3. job.writes[i + 1].recs[1].call = c
        BY <3>2, RecordFields DEF RecordWrite
      <3>4. c # id
        BY <2>5, <2>6, <2>16, <3>1, <3>3 DEF RepairOf
      <3>5. job'.writes[i] = job.writes[i + 1]
        BY <1>2, <2>17
      <3> QED
        BY <2>1, <2>15, <3>2, <3>4, <3>5
    <2>19. ASSUME NEW c, OpenCall(c)'
           PROVE  \E i \in 1..(m - 1) : job'.writes[i].recs[1].call = c
      <3>1. OpenCall(c) /\ c # id
        BY <2>15, <2>19
      <3>2. PICK i \in 1..m : job.writes[i].recs[1].call = c
        BY <2>6, <3>1 DEF RepairOf
      <3>3. i # 1
        BY <2>16, <3>1, <3>2
      <3>4. i - 1 \in 1..(m - 1) /\ (i - 1) + 1 = i
        BY <2>5, <3>3
      <3>5. job'.writes[i - 1] = job.writes[i]
        BY <1>2, <2>17, <3>4
      <3> QED
        BY <3>2, <3>4, <3>5
    <2>20. ASSUME NEW i \in 1..(m - 1), NEW j \in 1..(m - 1),
                  job'.writes[i].recs[1].call = job'.writes[j].recs[1].call
           PROVE  i = j
      <3>1. i + 1 \in 1..m /\ j + 1 \in 1..m
        BY <2>5
      <3>2. job'.writes[i] = job.writes[i + 1] /\ job'.writes[j] = job.writes[j + 1]
        BY <1>2, <2>17
      <3>3. i + 1 = j + 1
        BY <2>6, <2>20, <3>1, <3>2 DEF RepairOf
      <3> QED
        BY <3>3
    <2>21. Len(job'.writes) - 3 = m - 1
      BY <1>2, <2>5
    <2> QED
      BY <2>18, <2>19, <2>20, <2>21 DEF RepairOf, RecordWrite
  <1>5. PairPlan'
    BY <1>2, <1>4 DEF PairPlan
  <1> QED
    BY <1>2, <1>3, <1>5 DEF CallsInv, OpenInv, FreshInv, KnownCalls, Usable

LEMMA WriteCalls ==
  ASSUME AInv, CallsInv, PairSound, WriteSucceeds
  PROVE  CallsInv'
  BY WriteNeutralCalls, WriteToolCalls, WriteRepairCalls
-----------------------------------------------------------------------------
(***************************************************************************)
(* A write fails, or is refused.                                           *)
(***************************************************************************)
LEMMA NeutralLeft ==
  ASSUME AInv, [Next]_vars, job.writes # <<>>, NoCalls(Head(job.writes))
  PROVE  \A c : (Called(c)' <=> Called(c)) /\ (OpenCall(c)' <=> OpenCall(c))
  <1>1. CASE transcriptLog' = transcriptLog
    BY <1>1, CallsSame
  <1>2. CASE transcriptLog' # transcriptLog
    <2> DEFINE w == Head(job.writes)
    <2>1. Leaves(w)
      BY <1>2, DiskStep DEF Same
    <2>2. w \in StoreCall /\ w.recs \in Seq(Record)
      BY HeadTyped DEF AInv
    <2>3. w.op = "append"
      BY <1>2, <2>1, <2>2, LeavesShown DEF AInv, Types
    <2>4. \E part : Prefix(part, w.recs) /\ Added(part)
      <3>1. Prefix(w.recs, w.recs)
        BY <2>2 DEF Prefix
      <3> QED
        BY <1>2, <2>1, <2>3, <3>1 DEF Leaves, Does, Same
    <2>5. PICK part : Prefix(part, w.recs) /\ Added(part)
      BY <2>4
    <2>6. part \in Seq(Record) /\ Longer(transcriptLog, transcriptLog', part)
      BY <2>5 DEF Prefix, Added
    <2>7. \A k \in 1..Len(part) : part[k].kind \notin {"tool_call", "tool_result"}
      <3>1. Len(w.recs) \in Nat /\ Len(part) \in Nat /\ Len(part) <= Len(w.recs)
        BY <2>2, <2>5 DEF Prefix
      <3>2. \A k \in 1..Len(part) : k \in 1..Len(w.recs)
        BY <3>1
      <3> QED
        BY <2>3, <2>5, <3>2 DEF Prefix, NoCalls, Neutral
    <2>8. /\ \A c : Called(c)' <=>
               Called(c) \/ \E k \in 1..Len(part) : part[k].kind = "tool_call" /\ part[k].call = c
          /\ \A c : HasAnswer(c)' <=>
               HasAnswer(c) \/ \E k \in 1..Len(part) : part[k].kind = "tool_result" /\ part[k].call = c
      BY <2>6, CallsGrow DEF AInv, Types
    <2>9. \A c : (Called(c)' <=> Called(c)) /\ (HasAnswer(c)' <=> HasAnswer(c))
      BY <2>7, <2>8
    <2> QED
      BY <2>9 DEF OpenCall
  <1> QED
    BY <1>1, <1>2

LEMMA ErrorCalls ==
  ASSUME AInv, PlacesInv, CallsInv, [Next]_vars,
         job.writes # <<>>, HandleError(Head(job.writes).onError)
  PROVE  CallsInv'
  <1> DEFINE e == Head(job.writes).onError
  <1>1. Types /\ job.writes \in Seq(StoreCall)
    BY DEF AInv, Types, JobType
  <1>2. /\ Head(job.writes) = job.writes[1] /\ 1 \in 1..Len(job.writes)
    BY <1>1, FirstOf
  <1>3. CASE state = "starting"
    <2>1. /\ job' = Job(<<>>, "refused") /\ goroutine' = goroutine /\ state' = "starting"
      BY <1>3 DEF HandleError
    <2>2. goroutine.pc = "none"
      BY <1>3 DEF AInv, IInv, ActiveInv
    <2>3. job'.after = "refused" /\ AllNeutral(job'.writes)
      BY <2>1, JobFacts, NeutralNone, NeutralAll
    <2>4. PairPlan'
      BY <2>3 DEF PairPlan, AllNeutral, NoCalls, Neutral
    <2> QED
      BY <2>1, <2>2, <2>4 DEF CallsInv, OpenInv, FreshInv, KnownCalls, Usable
  <1>4. CASE state # "starting" /\ e = "fault"
    BY <1>4, GoneCalls DEF HandleError, Fault
  <1>5. CASE state # "starting" /\ e # "fault"
    <2>1. /\ job' = NoJob /\ state' = state /\ records' = records
          /\ goroutine' = CASE e = "fault_run" -> Goto("faulting")
                            [] e = "fail_run" -> Ending("failed", "engine_invariant")
                            [] e = "fail_stream" -> Erring("engine_invariant")
                            [] OTHER -> goroutine
      BY <1>5 DEF HandleError
    <2>2. job'.after = "free" /\ AllNeutral(job'.writes)
      BY <2>1, NoJobNeutral
    <2>3. PairPlan'
      BY <2>2 DEF PairPlan, AllNeutral, NoCalls, Neutral
    <2>4. /\ state \in {"idle", "running", "closed"}
          /\ e = "return" => Head(job.writes).op = "record"
          /\ e \in {"fail_run", "fail_stream"} => state = "running"
          /\ job.after = "cancelled" => e = "return"
      BY <1>5, JobShape DEF AInv, Types, States
    <2>5. CASE e = "fault_run"
      <3>1. goroutine'.pc = "faulting"
        BY <1>1, <2>1, <2>5, LocalFields, GoroutineFacts
      <3> QED
        BY <2>3, <3>1 DEF CallsInv, OpenInv, FreshInv, KnownCalls, Usable
    <2>6. CASE e \in {"fail_run", "fail_stream"}
      <3>1. job.after \notin {"tool", "exec"}
        BY <1>2, <2>6 DEF PlacesInv, ErrInv
      <3>2. job.after \in AfterRun
        BY <2>4, <2>6, JobShape DEF AInv
      <3>3. job.after # "settle"
        <4>1. job.after = "settle" => job.writes[1].onError = "fault"
          BY <1>2 DEF AInv, CInv, PlanInv
        <4> QED
          BY <1>2, <2>6, <4>1
      <3>4. goroutine.pc \in {"attempt", "retry", "answered", "check"}
        BY <3>1, <3>2, <3>3 DEF AfterRun, PlacesInv, JobPlaces, At
      <3>5. goroutine.rest = <<>>
        BY <3>1, <3>4 DEF PlacesInv, RestInv
      <3>6. goroutine'.rest = <<>> /\ goroutine'.pc \in {"finish", "response_error"}
        BY <1>1, <2>1, <2>6, <3>5, LocalRest, LocalFields, GoroutineFacts
      <3>7. AllNeutral(job.writes)
        BY <3>1, <3>2 DEF CallsInv, PairPlan, AfterRun
      <3>8. NoCalls(Head(job.writes))
        BY <1>2, <3>7 DEF AllNeutral
      <3>9. \A c : (Called(c)' <=> Called(c)) /\ (OpenCall(c)' <=> OpenCall(c))
        BY <3>8, NeutralLeft
      <3>10. Usable /\ UsedCallIDs' = UsedCallIDs
        BY <2>1, <2>4, <3>4 DEF Usable, UsedCallIDs
      <3>11. \A c : Owed(c)' <=> Owed(c)
        BY <3>5, <3>6 DEF Owed
      <3>12. OpenInv'
        BY <3>1, <3>9, <3>10, <3>11 DEF CallsInv, OpenInv
      <3>13. KnownCalls'
        BY <3>9, <3>10 DEF CallsInv, KnownCalls
      <3> QED
        BY <2>3, <3>6, <3>12, <3>13 DEF CallsInv, FreshInv
    <2>7. CASE e \notin {"fault_run", "fail_run", "fail_stream"}
      <3>1. goroutine' = goroutine
        BY <2>1, <2>7
      <3>2. e = "return"
        <4>1. Head(job.writes) \in StoreCall
          BY <1>1, FirstOf
        <4> QED
          BY <1>5, <2>7, <4>1 DEF StoreCall, OnError
      <3>3. Head(job.writes).op = "record"
        BY <2>4, <3>2
      <3>4. transcriptLog' = transcriptLog
        <4>1. Head(job.writes) \in StoreCall
          BY <1>1, FirstOf
        <4> QED
          BY <3>3, <4>1, DiskStep, LeavesShown DEF AInv, Types, Same
      <3>5. job.after # "tool"
        BY <1>2, <3>2 DEF PlacesInv, ErrInv
      <3> QED
        BY <2>1, <2>2, <2>4, <3>1, <3>4, <3>5, CallsMoved
    <2> QED
      BY <2>5, <2>6, <2>7
  <1> QED
    BY <1>3, <1>4, <1>5
-----------------------------------------------------------------------------
(***************************************************************************)
(* The process dies, and the session is loaded again.                      *)
(***************************************************************************)
LEMMA DownCalls ==
  ASSUME ProcessDies \/ LoadRefused
  PROVE  CallsInv'
  <1>1. Forgets
    BY DEF ProcessDies, LoadRefused
  <1>2. state' = "down" /\ job' = NoJob /\ goroutine' = NoGoroutine
    BY <1>1 DEF Forgets
  <1> QED
    BY <1>2, GoneCalls

\* OpenToolCalls lists the open calls of a log that can be loaded, each once.
LEMMA OpenCallsKnown ==
  ASSUME transcriptLog \in Seq(Entry), PairSound
  PROVE  LET open == OpenToolCalls(transcriptLog)
         IN  /\ open \in Seq(Entry)
             /\ \A i \in 1..Len(open) :
                  /\ OpenCall(open[i].rec.call)
                  /\ \E h \in 1..Len(transcriptLog) :
                       /\ CallAt(transcriptLog, h) /\ ~ HasAnswer(transcriptLog[h].rec.call)
                       /\ open[i] = transcriptLog[h]
             /\ \A c : OpenCall(c) => \E i \in 1..Len(open) : open[i].rec.call = c
             /\ \A i, j \in 1..Len(open) : open[i].rec.call = open[j].rec.call => i = j
  <1> DEFINE open == OpenToolCalls(transcriptLog)
             L == Len(transcriptLog)
  <1>1. Listed(transcriptLog, L, open)
    BY OpenCallsListed DEF PairSound
  <1>2. \A id : id \in ToolPairs(transcriptLog).results <=> HasAnswer(id)
    <2>1. ToolPairs(transcriptLog).results = ResultsUpTo(transcriptLog, L)
      BY ScanFacts DEF PairSound
    <2> QED
      BY <2>1 DEF ResultsUpTo, HasAnswer
  <1>3. \A h \in 1..L : OpenAt(transcriptLog, h) <=>
          CallAt(transcriptLog, h) /\ ~ HasAnswer(transcriptLog[h].rec.call)
    BY <1>2 DEF OpenAt
  <1> HIDE DEF open
  <1>4. ASSUME NEW i \in 1..Len(open)
        PROVE  /\ OpenCall(open[i].rec.call)
               /\ \E h \in 1..L : /\ CallAt(transcriptLog, h) /\ ~ HasAnswer(transcriptLog[h].rec.call)
                                  /\ open[i] = transcriptLog[h]
    <2>1. PICK h \in 1..L : OpenAt(transcriptLog, h) /\ open[i] = transcriptLog[h]
      BY <1>1 DEF Listed
    <2> QED
      BY <1>3, <2>1 DEF OpenCall, Called
  <1>5. ASSUME NEW c, OpenCall(c) PROVE \E i \in 1..Len(open) : open[i].rec.call = c
    <2>1. PICK h \in 1..L : CallAt(transcriptLog, h) /\ transcriptLog[h].rec.call = c
      BY <1>5 DEF OpenCall, Called
    <2>2. OpenAt(transcriptLog, h)
      BY <1>3, <1>5, <2>1 DEF OpenCall
    <2>3. PICK i \in 1..Len(open) : open[i] = transcriptLog[h]
      BY <1>1, <2>2 DEF Listed
    <2> QED
      BY <2>1, <2>3
  <1> QED
    BY <1>1, <1>4, <1>5 DEF Listed, open

\* The writes of reconcileInterrupted begin with a result for each open call.
LEMMA ReconcileResults ==
  ASSUME AInv, ValidateRecords(transcriptLog), PairSound, NEW run \in Nat, Open(run)
  PROVE  \A open, W : open = OpenToolCalls(transcriptLog) /\ W = ReconcileWrites(run) =>
           /\ open \in Seq(Entry) /\ Len(open) \in Nat /\ Len(W) - 3 = Len(open)
           /\ \A i \in 1..Len(open) :
                /\ RecordWrite(W[i], ToolResult(run, open[i].rec.call, "interrupted"))
                /\ W[i].recs[1].call = open[i].rec.call
  <1>1. transcriptLog \in Seq(Entry)
    BY StoreSets DEF AInv, Types, Store!TypeOK
  <1>2. /\ ReconcileWrites(run) = RepairWrites(run) \o <<InterruptedW(run)>> \o ReconcileMark
        /\ <<InterruptedW(run)>> \in Seq(StoreCall) /\ ReconcileMark \in Seq(StoreCall)
    <2>1. ReconcileFacts(run) = RepairWrites(run) /\ ReconcileEvents(run) = <<InterruptedW(run)>>
      BY EndsFound DEF Open, ReconcileFacts, ReconcileEvents
    <2> QED
      BY <1>1, <2>1, ReconcileTyped
  <1>3. Len(<<InterruptedW(run)>>) = 1 /\ Len(ReconcileMark) = 1
    BY DEF ReconcileMark
  <1>4. PICK m \in Seq(Entry), k \in Nat : m = OpenToolCalls(transcriptLog) /\ k = Len(m)
    <2>1. OpenToolCalls(transcriptLog) \in Seq(Entry)
      BY <1>1, OpenCallsKnown
    <2>2. Len(OpenToolCalls(transcriptLog)) \in Nat
      BY <2>1
    <2> QED
      BY <2>1, <2>2
  <1>5. PICK R \in Seq(StoreCall) :
          /\ R = RepairWrites(run) /\ Len(R) = k + 1
          /\ \A i \in 1..k : R[i] = AppendW(<<ToolResult(run, m[i].rec.call, "interrupted")>>, "return")
    BY <1>1, <1>4, RepairWritesFacts
  <1>6. PICK P \in Seq(StoreCall) : P = R \o <<InterruptedW(run)>>
    BY <1>2, JoinFacts
  <1>7. Len(P) = k + 2 /\ \A i \in 1..(k + 1) : P[i] = R[i]
    BY <1>2, <1>3, <1>5, <1>6, JoinFacts
  <1>8. PICK W \in Seq(StoreCall) : W = P \o ReconcileMark
    BY <1>2, JoinFacts
  <1>9. Len(W) = k + 3 /\ \A i \in 1..(k + 2) : W[i] = P[i]
    <2>1. Len(W) = Len(P) + Len(ReconcileMark) /\ \A i \in 1..Len(P) : W[i] = P[i]
      BY <1>2, <1>8, JoinFacts
    <2> QED
      BY <1>3, <1>7, <2>1
  <1>10. W = ReconcileWrites(run) /\ (k + 3) - 3 = k
    BY <1>2, <1>5, <1>6, <1>8
  <1>11. ASSUME NEW i \in 1..k
         PROVE  /\ RecordWrite(W[i], ToolResult(run, m[i].rec.call, "interrupted"))
                /\ W[i].recs[1].call = m[i].rec.call
    <2>1. i \in 1..(k + 1) /\ i \in 1..(k + 2)
      OBVIOUS
    <2>2. W[i] = AppendW(<<ToolResult(run, m[i].rec.call, "interrupted")>>, "return")
      BY <1>5, <1>7, <1>9, <2>1
    <2>3. W[i].op = "append" /\ W[i].recs = <<ToolResult(run, m[i].rec.call, "interrupted")>>
      BY <2>2 DEF AppendW, Write
    <2>4. \A x : Len(<<x>>) = 1 /\ <<x>>[1] = x
      OBVIOUS
    <2> QED
      BY <2>3, <2>4, RecordFields DEF RecordWrite
  <1> QED
    BY <1>4, <1>9, <1>10, <1>11

LEMMA ReconcileRepairs ==
  ASSUME AInv, ValidateRecords(transcriptLog), PairSound,
         NEW run \in Nat, run = manifestFile.active, Open(run)
  PROVE  RepairOf(ReconcileWrites(run), Len(ReconcileWrites(run)) - 3)
  <1>1. PICK W, m, k : /\ W = ReconcileWrites(run) /\ m = OpenToolCalls(transcriptLog)
                       /\ k = Len(m)
    OBVIOUS
  <1>2. /\ Len(W) - 3 = k
        /\ \A i \in 1..k : /\ RecordWrite(W[i], ToolResult(run, m[i].rec.call, "interrupted"))
                            /\ W[i].recs[1].call = m[i].rec.call
    BY <1>1, ReconcileResults
  <1>3. /\ \A i \in 1..k : OpenCall(m[i].rec.call)
        /\ \A c : OpenCall(c) => \E i \in 1..k : m[i].rec.call = c
        /\ \A i, j \in 1..k : m[i].rec.call = m[j].rec.call => i = j
    <2>1. transcriptLog \in Seq(Entry)
      BY StoreSets DEF AInv, Types, Store!TypeOK
    <2> QED
      BY <1>1, <2>1, OpenCallsKnown
  <1>4. RepairOf(W, k)
    <2>1. ASSUME NEW i \in 1..k
          PROVE  \E id : OpenCall(id) /\ RecordWrite(W[i], ToolResult(manifestFile.active, id, "interrupted"))
      BY <1>2, <1>3
    <2>2. ASSUME NEW c, OpenCall(c) PROVE \E i \in 1..k : W[i].recs[1].call = c
      <3>1. PICK i \in 1..k : m[i].rec.call = c
        BY <1>3, <2>2
      <3>2. W[i].recs[1].call = c
        BY <1>2, <3>1
      <3> QED
        BY <3>2
    <2>3. \A i, j \in 1..k : W[i].recs[1].call = W[j].recs[1].call => i = j
      BY <1>2, <1>3
    <2> QED
      BY <2>1, <2>2, <2>3 DEF RepairOf
  <1> QED
    BY <1>1, <1>2, <1>4

\* What completes a close is about no call.
LEMMA CloseWritesNeutral == AllNeutral(CloseWrites)
  <1>1. \A w : NoCalls(w) => NeutralSeq(<<w>>)
    <2>1. ASSUME NEW w, NoCalls(w) PROVE NeutralSeq(<<w>>)
      <3>1. PICK S : S = {w}
        OBVIOUS
      <3> QED
        BY <2>1, <3>1, NeutralSome
    <2> QED
      BY <2>1
  <1>2. NoCalls(Write("close", "return")) /\ NoCalls(EmitW(Ev("session_closed", NoRun), "return"))
    BY NeutralWrites
  <1>3. NeutralSeq(CloseMarks) /\ NeutralSeq(CloseTells)
    BY <1>1, <1>2, NeutralNone DEF CloseMarks, CloseTells
  <1>4. CloseWrites = <<>> \/ CloseWrites = CloseMarks \o CloseTells
    BY CloseWritesTyped
  <1> QED
    BY <1>3, <1>4, NeutralNone, NeutralJoin, NeutralAll

LEMMA RepairPlanSame ==
  ASSUME UNCHANGED <<transcriptLog, eventLog, manifestFile>>, NEW W
  PROVE  RepairPlan(W) => RepairPlan(W)'
  <1>1. PICK run : run = manifestFile.active
    OBVIOUS
  <1>2. manifestFile'.active = run
    BY <1>1
  <1>3. Open(run)' <=> Open(run)
    BY DEF Open, Ended, EndsAt, Told, TellsAt
  <1>4. \A m : RepairOf(W, m) => RepairOf(W, m)'
    <2>1. \A c : OpenCall(c)' <=> OpenCall(c)
      BY CallsSame
    <2> QED
      BY <1>1, <1>2, <2>1 DEF RepairOf
  <1>5. Open(manifestFile.active)' <=> Open(run)'
    BY <1>2 DEF Open
  <1> QED
    BY <1>1, <1>3, <1>4, <1>5 DEF RepairPlan

\* The check of the log at a load makes it a sound one.
LEMMA LoadCalls ==
  ASSUME AInv, Load
  PROVE  PairSound' /\ CallsInv'
  <1>1. UNCHANGED <<transcriptLog, eventLog, manifestFile>> /\ ValidateRecords(transcriptLog)
    BY StoreScan DEF Load, Store!Open, Store!Openable, Store!disk
  <1>2. transcriptLog \in Seq(Entry)
    BY StoreSets DEF AInv, Types, Store!TypeOK
  <1>3. PairSound
    BY <1>1, <1>2, ScanFacts DEF ValidateRecords, PairSound
  <1>4. state = "down" /\ state' = "starting" /\ goroutine' = goroutine
    BY DEF Load
  <1>5. goroutine'.pc = "none"
    BY <1>4, PlaceOfJob
  <1>6. OpenInv' /\ FreshInv' /\ KnownCalls'
    BY <1>4, <1>5 DEF OpenInv, FreshInv, KnownCalls, Usable
  <1>7. PICK run \in Nat : run = manifestFile.active
    BY OutcomeFacts DEF AInv
  <1>8. job' = Job((IF run = NoRun THEN <<>> ELSE ReconcileWrites(run)) \o CloseWrites,
                   IF run = NoRun THEN "loaded" ELSE "reconciled")
    BY <1>7 DEF Load
  <1>9. PairPlan'
    <2>1. CASE run = NoRun
      <3>1. PICK W \in Seq(StoreCall) : W = CloseWrites
        BY CloseWritesTyped
      <3>2. <<>> \o W = W
        OBVIOUS
      <3>3. job'.writes = W /\ job'.after = "loaded"
        BY <1>8, <2>1, <3>1, <3>2, JobFacts
      <3>4. AllNeutral(W)
        BY <3>1, CloseWritesNeutral
      <3>5. AllNeutral(job'.writes)
        BY <3>3, <3>4
      <3>6. AllNeutral(job.writes)'
        BY <3>5 DEF AllNeutral, NoCalls, Neutral
      <3> QED
        BY <3>3, <3>6 DEF PairPlan
    <2>2. CASE run # NoRun
      <3>1. PICK W \in Seq(StoreCall) : W = ReconcileWrites(run)
        BY <1>1, <1>2, ReconcileTyped
      <3>2. CloseWrites = <<>>
        <4>1. ~ FactThere
          BY <1>7, <2>2 DEF AInv, CInv, DiskInv, CloseInv
        <4> QED
          BY <4>1, CloseFound DEF CloseWrites
      <3>3. W \o <<>> = W
        OBVIOUS
      <3>4. job'.writes = W /\ job'.after = "reconciled"
        BY <1>8, <2>2, <3>1, <3>2, <3>3, JobFacts
      <3>5. RepairPlan(W)
        BY <1>1, <1>3, <1>7, <3>1, ReconcileRepairs DEF RepairPlan
      <3>6. RepairPlan(W)'
        BY <1>1, <3>5, RepairPlanSame
      <3>7. RepairPlan(job.writes)'
        BY <3>4, <3>6
      <3> QED
        BY <3>4, <3>7 DEF PairPlan
    <2> QED
      BY <2>1, <2>2
  <1>10. PairSound'
    BY <1>1, <1>3, CallsSame
  <1> QED
    BY <1>6, <1>9, <1>10 DEF CallsInv

\* A session that was loaded has no open call and no active run.
LEMMA LoadedCalls ==
  ASSUME AInv, LinesInv, PlacesInv, Trusted, PairSound, Loaded
  PROVE  CallsInv'
  <1>1. /\ UNCHANGED <<transcriptLog, records, goroutine>>
        /\ job.writes = <<>> /\ job.after \in {"loaded", "reconciled"} /\ job' = NoJob
    BY DEF Loaded, Finishes, storeVars
  <1>2. state = "starting" /\ records = transcriptLog
    <2>1. state = "starting"
      BY <1>1 DEF AInv, IInv, JobInv, AfterRun, AfterLoad
    <2> QED
      BY <1>1, <2>1 DEF AInv, CInv, HandleInv
  <1>3. manifestFile.active = NoRun
    <2>1. Len(job.writes) = 0
      BY <1>1
    <2>2. CASE job.after = "loaded"
      <3>1. Resting \/ ClosePlan(job.writes)
        BY <2>2 DEF AInv, CInv, PlanInv
      <3>2. Resting \/ FactThere
        BY <2>1, <3>1 DEF ClosePlan, Shut
      <3> QED
        BY <3>2 DEF Resting, AInv, CInv, DiskInv, CloseInv
    <2>3. CASE job.after = "reconciled"
      <3>1. EndPlan(job.writes, manifestFile.active,
                    RunOutcome(manifestFile.active, "interrupted", "interrupted"))
        BY <2>3 DEF AInv, CInv, PlanInv
      <3> QED
        BY <2>1, <3>1 DEF EndPlan, Resting
    <2> QED
      BY <1>1, <2>2, <2>3
  <1>4. goroutine.pc = "none" /\ goroutine.rest = <<>>
    <2>1. goroutine.pc = "none"
      BY <1>2, PlaceOfJob
    <2> QED
      BY <1>1, <2>1 DEF PlacesInv, RestInv
  <1>5. \A c : ~ OpenCall(c)'
    <2>1. ASSUME NEW c, OpenCall(c) PROVE FALSE
      <3>1. PICK h \in 1..Len(transcriptLog) : CallAt(transcriptLog, h) /\ transcriptLog[h].rec.call = c
        BY <2>1 DEF OpenCall, Called
      <3> QED
        BY <1>3, <2>1, <3>1, OpenCallRun DEF OpenCall
    <2> QED
      BY <1>1, <2>1, CallsSame
  <1>6. OpenInv'
    <2>1. Len(goroutine'.rest) = 0
      BY <1>1, <1>4
    <2>2. \A c : ~ Owed(c)'
      BY <2>1 DEF Owed
    <2> QED
      BY <1>5, <2>2 DEF OpenInv
  <1>7. KnownCalls'
    <2>1. \A id : Called(id)' => Called(id)
      BY <1>1, CallsSame
    <2>2. DOMAIN records' = 1..Len(transcriptLog) /\ records' = transcriptLog
      BY <1>1, <1>2 DEF AInv, Types, Store!TypeOK
    <2>3. \A id : Called(id) => id \in UsedCallIDs'
      BY <2>2 DEF Called, UsedCallIDs, CallAt
    <2> QED
      BY <2>1, <2>3 DEF KnownCalls
  <1>8. FreshInv'
    BY <1>1, <1>4 DEF FreshInv
  <1>9. PairPlan'
    BY <1>1, NoJobNeutral DEF PairPlan, AllNeutral, NoCalls, Neutral
  <1> QED
    BY <1>6, <1>7, <1>8, <1>9 DEF CallsInv
-----------------------------------------------------------------------------
(***************************************************************************)
(* Every step.                                                             *)
(***************************************************************************)
LEMMA OnlyLoadOpens ==
  ASSUME AInv, [Next]_vars, opened'
  PROVE  opened \/ Load
  <1>1. CASE WriteSucceeds \/ WriteFails
    BY <1>1, CallStaysOpen DEF WriteSucceeds, WriteFails, Calls
  <1>2. CASE ProcessDies \/ LoadRefused
    BY <1>2 DEF ProcessDies, LoadRefused, Store!Crash, Store!CrashAppending, Store!CrashAppendingEvent
  <1>3. CASE \E cmd \in CommandIDs : Command(cmd)
    BY <1>3 DEF Command, Submit, SubmitSensitive, Cancel, Resume, Close, Begins, storeVars
  <1>4. CASE Shutdown \/ EventRefused \/ CommandDone \/ Settle \/ GoroutineGoesOn \/ FaultRun \/ Loaded
    BY <1>4 DEF Shutdown, EventRefused, CommandDone, Settle, GoroutineGoesOn, FaultRun, Loaded, storeVars
  <1>5. CASE ReserveCall \/ ReserveAttempt \/ ReserveDelay
    BY <1>5 DEF ReserveCall, ReserveAttempt, ReserveDelay, Reserve, storeVars, Store!ReserveBudget,
       Store!OnlyManifest
  <1>6. CASE LoopTop \/ Sleep \/ WakeUp \/ ResponseError \/ CallsDone
    BY <1>6 DEF LoopTop, Sleep, WakeUp, ResponseError, CallsDone, Moves, storeVars
  <1>7. CASE RetryStep \/ Answered \/ CheckResponse \/ RecordCalls
    BY <1>7 DEF RetryStep, Answered, CheckResponse, RecordCalls, Moves, Begins, storeVars
  <1>8. CASE NextTool \/ ExecuteTool \/ FinishRun
    BY <1>8 DEF NextTool, ExecuteTool, FinishesTool, FinishRun, Begins, storeVars
  <1>9. CASE Provider
    BY <1>9 DEF Provider, StreamDelta, ProviderAnswers, ProviderFails, ProviderCancelled, Moves,
       Begins, storeVars
  <1>10. CASE UNCHANGED vars
    BY <1>10 DEF vars, storeVars
  <1> QED
    BY <1>1, <1>2, <1>3, <1>4, <1>5, <1>6, <1>7, <1>8, <1>9, <1>10
       DEF Next, HoldsLock, ModelCall, ToolCalls, NewSessionEnds

LEMMA StillCalls ==
  ASSUME CallsInv, UNCHANGED vars
  PROVE  CallsInv'
  <1>1. UNCHANGED <<transcriptLog, eventLog, manifestFile, state, records, job, goroutine>>
    BY DEF vars, storeVars, memory
  <1>2. \A id : (Called(id)' <=> Called(id)) /\ (OpenCall(id)' <=> OpenCall(id))
    BY <1>1, CallsSame
  <1>3. \A id : Owed(id)' <=> Owed(id)
    BY <1>1 DEF Owed
  <1>4. Usable' <=> Usable
    BY <1>1 DEF Usable
  <1>5. OpenInv'
    BY <1>1, <1>2, <1>3, <1>4 DEF CallsInv, OpenInv
  <1>6. FreshInv'
    BY <1>1, <1>2 DEF CallsInv, FreshInv
  <1>7. KnownCalls'
    BY <1>1, <1>2, <1>4 DEF CallsInv, KnownCalls, UsedCallIDs
  <1>8. PairPlan'
    <2>1. PICK W : W = job.writes
      OBVIOUS
    <2>2. AllNeutral(W)' <=> AllNeutral(W)
      BY DEF AllNeutral, NoCalls, Neutral
    <2>3. ToolPlan(W)' <=> ToolPlan(W)
      BY <1>1, <1>2, <1>3 DEF ToolPlan, CallsPlan, ResultPlan, OwedPlan, NoneOpen, RecordWrite
    <2>4. RepairPlan(W) => RepairPlan(W)'
      BY <1>1, RepairPlanSame
    <2>5. /\ AllNeutral(job.writes)' <=> AllNeutral(W)'
          /\ ToolPlan(job.writes)' <=> ToolPlan(W)'
          /\ RepairPlan(job.writes)' <=> RepairPlan(W)'
      BY <1>1, <2>1
    <2> QED
      BY <1>1, <2>1, <2>2, <2>3, <2>4, <2>5 DEF CallsInv, PairPlan
  <1> QED
    BY <1>5, <1>6, <1>7, <1>8 DEF CallsInv

LEMMA CallsNext ==
  ASSUME AInv, LinesInv, PlacesInv, Trusted, PairSound, CallsInv, FreshCallIDs, [Next]_vars, ~ Load
  PROVE  CallsInv'
  <1>1. CASE WriteFails \/ EventRefused
    BY <1>1, ErrorCalls DEF WriteFails, EventRefused
  <1>2. CASE ModelCall
    BY <1>2, LocalCalls, BeginCalls DEF ModelCall
  <1>3. CASE ToolCalls
    BY <1>3, LocalCalls, BeginCalls, ToolCallsCalls, MutexCalls DEF ToolCalls
  <1>4. CASE Provider
    BY <1>4, LocalCalls, BeginCalls, AnswerCalls DEF Provider
  <1>5. CASE WriteSucceeds \/ CommandDone \/ Settle \/ GoroutineGoesOn
    BY <1>5, WriteCalls, MutexCalls
  <1>6. CASE (\E cmd \in CommandIDs : Command(cmd)) \/ Shutdown
    BY <1>6, CommandCalls
  <1>7. CASE ProcessDies \/ NewSessionEnds
    BY <1>7, DownCalls, LoadedCalls DEF NewSessionEnds
  <1>8. CASE UNCHANGED vars
    BY <1>8, StillCalls
  <1> QED
    BY <1>1, <1>2, <1>3, <1>4, <1>5, <1>6, <1>7, <1>8 DEF Next, HoldsLock

LEMMA PairNext ==
  ASSUME AInv, LogInv, PlacesInv, PairInv, FreshCallIDs, [Next]_vars
  PROVE  PairInv'
  <1>1. CASE Load
    BY <1>1, LoadCalls DEF PairInv
  <1>2. CASE ~ Load
    <2> SUFFICES ASSUME Trusted' PROVE PairSound' /\ CallsInv'
      BY DEF PairInv
    <2>1. Trusted
      <3>1. Store!Open => ~ opened /\ opened'
        BY DEF Store!Open
      <3> QED
        BY <1>2, <3>1, TrustKept, OnlyLoadOpens
    <2>2. PairSound /\ CallsInv /\ LinesInv
      BY <2>1 DEF PairInv, LogInv
    <2> QED
      BY <1>2, <2>1, <2>2, PairSoundNext, CallsNext DEF CallsInv
  <1> QED
    BY <1>1, <1>2

LEMMA FirstPlaces == Init => PlacesInv /\ PairInv
  <1> SUFFICES ASSUME Init PROVE PlacesInv /\ PairInv
    OBVIOUS
  <1>1. job = NoJob /\ goroutine = NoGoroutine /\ transcriptLog = <<>> /\ Len(transcriptLog) = 0
    BY DEF Init, Store!Init
  <1>2. job.writes = <<>> /\ job.after = "free" /\ Len(job.writes) = 0
    BY <1>1, NoJobFacts
  <1>3. goroutine.pc = "none" /\ goroutine.rest = <<>> /\ Len(goroutine.rest) = 0
    <2>1. NoGoroutine.rest = <<>>
      BY DEF NoGoroutine
    <2> QED
      BY <1>1, <2>1, NoGoroutineFacts
  <1>4. PlacesInv
    BY <1>2, <1>3 DEF PlacesInv, JobPlaces, RestInv, ErrInv
  <1>5. \A id : ~ Called(id) /\ ~ OpenCall(id) /\ ~ Owed(id)
    BY <1>1, <1>3 DEF Called, OpenCall, Owed
  <1>6. PairSound
    BY <1>1 DEF PairSound, PairableUpTo
  <1>7. CallsInv
    BY <1>2, <1>3, <1>5 DEF CallsInv, PairPlan, AllNeutral, OpenInv, FreshInv, KnownCalls
  <1> QED
    BY <1>4, <1>6, <1>7 DEF PairInv

\* In a log that can be trusted every result follows its call in the same run, no
\* run ends with a call open, the open calls are the ones whose results the
\* goroutine still owes, and a job that loads the session knows which results it
\* has to add, as long as the provider does not reuse the ID of a call (run
\* session.go:630-700, reconcileInterrupted session.go:1055).
THEOREM SessionPairInvariant ==
  Spec => [](AInv /\ LogInv /\ PlacesInv /\ (FreshCallIDs => PairInv))
  <1>1. Init => PlacesInv /\ (FreshCallIDs => PairInv)
    BY FirstPlaces
  <1>2. AInv /\ LogInv /\ PlacesInv /\ (FreshCallIDs => PairInv) /\ [Next]_vars
          => PlacesInv' /\ (FreshCallIDs => PairInv)'
    <2> SUFFICES ASSUME AInv, LogInv, PlacesInv, FreshCallIDs => PairInv, [Next]_vars
                 PROVE  PlacesInv' /\ (FreshCallIDs => PairInv')
      OBVIOUS
    <2> QED
      BY PlacesNext, PairNext
  <1> QED
    BY <1>1, <1>2, SessionLogInvariant, PTL DEF Spec
-----------------------------------------------------------------------------
(***************************************************************************)
(* What is on disk can be loaded.                                          *)
(***************************************************************************)
LEMMA RecordsLoad ==
  ASSUME AInv, LogInv, Trusted, PairSound
  PROVE  ValidateRecords(transcriptLog)
  <1>1. transcriptLog \in Seq(Entry) /\ DOMAIN transcriptLog = 1..Len(transcriptLog)
    BY StoreSets DEF AInv, Types, Store!TypeOK
  <1>2. ToolPairs(transcriptLog).ok
    BY <1>1, ScanFacts DEF PairSound
  <1> QED
    BY <1>1, <1>2 DEF LogInv, LinesInv, ValidateRecords

LEMMA CloseLoads ==
  ASSUME AInv
  PROVE  CloseConsistent
  <1>1. /\ FactThere => manifestFile.active = NoRun
        /\ manifestFile.closed => FactThere
        /\ CloseTold => FactThere
    BY DEF AInv, CInv, DiskInv, CloseInv
  <1>2. PICK f, e : f = CloseFacts(transcriptLog) /\ e = CloseEvents(eventLog)
    OBVIOUS
  <1>3. f <= 1 /\ e <= 1 /\ (f = 1 <=> FactThere) /\ (e > 0 <=> CloseTold)
    BY <1>2, CloseFound
  <1> QED
    BY <1>1, <1>2, <1>3 DEF CloseConsistent

\* A log without an open call can become model context again.
LEMMA AnsweredLoads ==
  ASSUME AInv, PairSound, ValidateRecords(transcriptLog), NoneOpen
  PROVE  ValidateTranscript(transcriptLog)
  <1> DEFINE L == Len(transcriptLog)
  <1>1. transcriptLog \in Seq(Entry) /\ DOMAIN transcriptLog = 1..L /\ L \in Nat
    BY StoreSets DEF AInv, Types, Store!TypeOK
  <1>2. ASSUME NEW i \in 1..L, CallAt(transcriptLog, i)
        PROVE  \E j \in 1..L : ResultFor(transcriptLog, i, j)
    <2>1. HasAnswer(transcriptLog[i].rec.call)
      BY <1>2 DEF NoneOpen, OpenCall, Called
    <2>2. PICK j \in 1..L : ResultAt(transcriptLog, j) /\ transcriptLog[j].rec.call = transcriptLog[i].rec.call
      BY <2>1 DEF HasAnswer
    <2>3. L \in 0..L
      BY <1>1
    <2>4. ResultFor(transcriptLog, i, j)
      BY <1>1, <1>2, <2>2, <2>3, ResultsBelong DEF PairSound
    <2> QED
      BY <2>4
  <1>3. NoCallOpen(transcriptLog)
    BY <1>1, <1>2 DEF NoCallOpen
  <1> QED
    BY <1>1, <1>3, ScanIsRight DEF ScanAgreesOn

LEMMA RunLoads ==
  ASSUME AInv, LogInv, Trusted, PairSound, ValidateRecords(transcriptLog),
         NEW run \in Nat, run = manifestFile.active, run # NoRun
  PROVE  IF HasOutcome(transcriptLog, run) THEN ValidateTranscript(transcriptLog)
         ELSE /\ ~ OtherRunLeftOpen(transcriptLog, run)
              /\ ValidateTranscript(transcriptLog
                   \o Numbered(Len(transcriptLog), RepairRecords(transcriptLog, run)))
  <1>1. transcriptLog \in Seq(Entry) /\ DOMAIN transcriptLog = 1..Len(transcriptLog)
    BY StoreSets DEF AInv, Types, Store!TypeOK
  <1>2. CASE HasOutcome(transcriptLog, run)
    <2>1. Ended(run)
      BY <1>2, EndsFound
    <2>2. ASSUME NEW c, OpenCall(c) PROVE FALSE
      <3>1. PICK h \in 1..Len(transcriptLog) : CallAt(transcriptLog, h) /\ transcriptLog[h].rec.call = c
        BY <2>2 DEF OpenCall, Called
      <3> QED
        BY <2>1, <2>2, <3>1, OpenCallRun DEF OpenCall, LogInv
    <2>3. NoneOpen
      BY <2>2 DEF NoneOpen
    <2> QED
      BY <1>2, <2>3, AnsweredLoads
  <1>3. CASE ~ HasOutcome(transcriptLog, run)
    <2>1. ~ OtherRunLeftOpen(transcriptLog, run)
      <3>1. PICK m \in Seq(Entry) : m = OpenToolCalls(transcriptLog)
        BY <1>1, OpenCallsKnown
      <3>2. DOMAIN m = 1..Len(m)
        OBVIOUS
      <3>3. ASSUME NEW i \in 1..Len(m) PROVE m[i].rec.run = run
        <4>1. PICK h \in 1..Len(transcriptLog) :
                /\ CallAt(transcriptLog, h) /\ ~ HasAnswer(transcriptLog[h].rec.call)
                /\ m[i] = transcriptLog[h]
          BY <1>1, <3>1, OpenCallsKnown
        <4>2. transcriptLog[h].rec.run = run
          BY <4>1, OpenCallRun DEF LogInv
        <4> QED
          BY <4>1, <4>2
      <3> QED
        BY <3>1, <3>2, <3>3 DEF OtherRunLeftOpen
    <2>2. \A i \in DOMAIN transcriptLog : transcriptLog[i].rec.kind # "session_closed"
      <3>1. ~ FactThere
        BY DEF AInv, CInv, DiskInv, CloseInv
      <3> QED
        BY <1>1, <3>1 DEF FactThere, ClosesAt
    <2>3. RepairCompletesOn(transcriptLog, run)
      BY <1>1, RepairIsRight
    <2> QED
      BY <1>3, <2>1, <2>2, <2>3 DEF RepairCompletesOn
  <1> QED
    BY <1>2, <1>3

\* However the process died and whichever write failed, NewSession run on what is
\* on disk would not refuse it, and the repair of a run that was cut short makes
\* its log a transcript again, unless a log ends in a partial line, was written to
\* after a tolerated failure, or the provider reuses the ID of a call (Open
\* store.go:212, NewSession session.go:197, reconcileInterrupted session.go:1055).
THEOREM SessionReopens == Spec => [](FreshCallIDs => Reopenable)
  <1>1. ASSUME AInv, LogInv, PlacesInv, FreshCallIDs => PairInv
        PROVE  FreshCallIDs => Reopenable
    <2> SUFFICES ASSUME FreshCallIDs, tolerated # "incomplete"
                 PROVE  /\ Store!BookkeepingLoads /\ ValidateRecords(transcriptLog)
                        /\ CloseConsistent
                        /\ LET run == manifestFile.active IN
                           run # NoRun =>
                             IF HasOutcome(transcriptLog, run) THEN ValidateTranscript(transcriptLog)
                             ELSE /\ ~ OtherRunLeftOpen(transcriptLog, run)
                                  /\ ValidateTranscript(transcriptLog
                                       \o Numbered(Len(transcriptLog), RepairRecords(transcriptLog, run)))
      BY DEF Reopenable
    <2>1. Trusted
      BY DEF Trusted
    <2>2. PairSound
      BY <1>1, <2>1 DEF PairInv
    <2>3. Store!BookkeepingLoads
      BY <1>1, <2>1, BookkeepingHolds
    <2>4. ValidateRecords(transcriptLog)
      BY <1>1, <2>1, <2>2, RecordsLoad
    <2>5. CloseConsistent
      BY <1>1, CloseLoads
    <2>6. PICK run \in Nat : run = manifestFile.active
      BY <1>1, OutcomeFacts DEF AInv
    <2>7. run # NoRun =>
            IF HasOutcome(transcriptLog, run) THEN ValidateTranscript(transcriptLog)
            ELSE /\ ~ OtherRunLeftOpen(transcriptLog, run)
                 /\ ValidateTranscript(transcriptLog
                      \o Numbered(Len(transcriptLog), RepairRecords(transcriptLog, run)))
      BY <1>1, <2>1, <2>2, <2>4, <2>6, RunLoads
    <2> QED
      BY <2>3, <2>4, <2>5, <2>6, <2>7
  <1>2. AInv /\ LogInv /\ PlacesInv /\ (FreshCallIDs => PairInv) => (FreshCallIDs => Reopenable)
    BY <1>1
  <1> QED
    BY <1>2, SessionPairInvariant, PTL
-----------------------------------------------------------------------------
(***************************************************************************)
(* What is in memory: the logs, as long as no failure was tolerated.       *)
(***************************************************************************)
\* The session goes on and its memory is in use.
Current ==
  /\ tolerated = "none" /\ state \notin {"down", "faulted"}
  /\ job.after # "refused" /\ goroutine.pc # "faulting"

\* The terminal event is written before it is published.
Published ==
  eventLog = IF job.after = "settle" /\ Len(job.writes) <= 1
             THEN Append(history, SettleEntry) ELSE history

MemInv == Current => records = transcriptLog /\ cursor = Len(eventLog) /\ Published
QuietInv == state # "running" => ~ partial /\ activeTool = NoCall
PersistInv ==
  job.after = "reconciled" => \A i \in 1..Len(job.writes) : job.writes[i].op # "persist"

MemoryInv == MemInv /\ QuietInv /\ PersistInv

SameMemory == UNCHANGED <<transcriptLog, eventLog, records, history, cursor, tolerated>>

\* Neither the logs nor their copies change.
LEMMA MemoryFrame ==
  ASSUME MemoryInv, SameMemory, Current' => Current, job.after # "settle",
         job' = job \/ job'.after # "reconciled",
         job'.after # "settle" \/ Len(job'.writes) > 1,
         \/ UNCHANGED <<partial, activeTool>> /\ (state' # "running" => state # "running")
         \/ state' = "running"
  PROVE  MemoryInv'
  <1>1. ~ (job'.after = "settle" /\ Len(job'.writes) <= 1)
    OBVIOUS
  <1>2. MemInv'
    BY <1>1 DEF MemoryInv, MemInv, SameMemory, Published
  <1>3. QuietInv'
    BY DEF MemoryInv, QuietInv
  <1>4. PersistInv'
    BY DEF MemoryInv, PersistInv
  <1> QED
    BY <1>2, <1>3, <1>4 DEF MemoryInv

LEMMA LocalMemory ==
  ASSUME AInv, MemoryInv,
         \/ LoopTop \/ Sleep \/ WakeUp \/ ResponseError \/ CallsDone
         \/ ProviderAnswers \/ ProviderFails \/ ProviderCancelled
         \/ ReserveCall \/ ReserveAttempt \/ ReserveDelay
  PROVE  MemoryInv'
  <1>1. goroutine.pc \in {"loop", "sleep", "parked", "response_error", "tool", "attempt",
                          "reserve_call", "reserve_attempt", "reserve_delay"}
    BY DEF LoopTop, Sleep, WakeUp, ResponseError, CallsDone, ProviderAnswers, ProviderFails,
       ProviderCancelled, ReserveCall, ReserveAttempt, ReserveDelay, At
  <1>2. SameMemory /\ UNCHANGED <<state, job, partial, activeTool>>
    <2>1. CASE LoopTop \/ Sleep \/ WakeUp \/ ResponseError \/ CallsDone
      BY <2>1 DEF LoopTop, Sleep, WakeUp, ResponseError, CallsDone, Moves, SameMemory, storeVars, counters
    <2>2. CASE ProviderAnswers \/ ProviderFails \/ ProviderCancelled
      BY <2>2 DEF ProviderAnswers, ProviderFails, ProviderCancelled, Moves, SameMemory, storeVars, counters
    <2>3. CASE ReserveCall \/ ReserveAttempt \/ ReserveDelay
      BY <2>3 DEF ReserveCall, ReserveAttempt, ReserveDelay, Reserve, SameMemory, storeVars,
         Store!ReserveBudget, Store!OnlyManifest
    <2> QED
      BY <2>1, <2>2, <2>3
  <1>3. job.after # "settle"
    BY <1>1 DEF AInv, Types, PlaceInv, At
  <1>4. Current' => Current
    BY <1>1, <1>2 DEF Current, SameMemory
  <1> QED
    BY <1>2, <1>3, <1>4, MemoryFrame

\* Whoever takes the mutex has written nothing yet.
LEMMA BeginsMemory ==
  ASSUME AInv, AInv', MemoryInv, LockFree, SameMemory, state' = state,
         goroutine' = goroutine \/ goroutine.pc # "faulting",
         UNCHANGED manifestFile, state = "running" \/ UNCHANGED <<partial, activeTool>>,
         job' = job \/ job'.after # "settle" \/ (state = "running" /\ UNCHANGED goroutine)
  PROVE  MemoryInv'
  <1>1. job.after = "free" /\ state # "starting"
    BY NoJobFacts DEF LockFree, AInv, IInv, JobInv, AfterRun, AfterLoad
  <1>2. job'.after # "reconciled"
    BY <1>1, PlaceOfJob DEF AInv, IInv, JobInv, AfterRun, AfterLoad
  <1>3. Current' => Current
    BY <1>1 DEF Current, SameMemory
  <1>4. ASSUME job'.after = "settle" PROVE Len(job'.writes) > 1
    <2>1. state = "running" /\ UNCHANGED <<goroutine, manifestFile, transcriptLog, eventLog>>
      BY <1>1, <1>4 DEF SameMemory
    <2>2. PICK run, rec : run = goroutine.run /\ rec = OutcomeFact
      OBVIOUS
    <2>3. run = goroutine'.run /\ rec = OutcomeFact'
      BY <2>1, <2>2 DEF OutcomeFact
    <2>4. Open(run)
      BY <1>1, <2>1, <2>2 DEF AInv, CInv, PlanInv, AtPlace
    <2>5. Open(run)'
      BY <2>1, <2>4 DEF Open, Ended, EndsAt, Told, TellsAt
    <2>6. EndPlan(job.writes, run, rec)'
      BY <1>4, <2>3 DEF AInv, CInv, PlanInv
    <2>7. Len(job'.writes) >= 3
      BY <2>5, <2>6 DEF EndPlan, Open, Untold, Marked, Resting
    <2>8. Len(job'.writes) \in Nat
      BY DEF AInv, Types, JobType
    <2> QED
      BY <2>7, <2>8
  <1> QED
    BY <1>1, <1>2, <1>3, <1>4, MemoryFrame

LEMMA CommandMemory ==
  ASSUME AInv, AInv', MemoryInv, (\E cmd \in CommandIDs : Command(cmd)) \/ Shutdown
  PROVE  MemoryInv'
  <1>1. CASE Shutdown
    <2>1. /\ LockFree /\ SameMemory
          /\ UNCHANGED <<state, goroutine, manifestFile, partial, activeTool, job>>
      BY <1>1 DEF Shutdown, SameMemory, storeVars, counters
    <2> QED
      BY <2>1, BeginsMemory
  <1>2. CASE \E cmd \in CommandIDs : Command(cmd)
    <2>1. /\ LockFree /\ SameMemory
          /\ UNCHANGED <<state, goroutine, manifestFile, partial, activeTool>>
      BY <1>2 DEF Command, Submit, SubmitSensitive, Cancel, Resume, Close, Takes, Begins, SameMemory,
         storeVars, counters
    <2>2. job'.after # "settle"
      BY <1>2, CommandJobFacts DEF Command, Submit, SubmitSensitive, Cancel, Resume, Close, Begins
    <2> QED
      BY <2>1, <2>2, BeginsMemory
  <1> QED
    BY <1>1, <1>2

LEMMA TakesMemory ==
  ASSUME AInv, AInv', MemoryInv,
         \/ StreamDelta \/ RetryStep \/ Answered \/ CheckResponse
         \/ RecordCalls \/ NextTool \/ ExecuteTool \/ FinishRun
  PROVE  MemoryInv'
  <1>1. /\ LockFree
        /\ goroutine.pc \in {"attempt", "retry", "answered", "check", "calls", "tool", "exec", "finish"}
    BY DEF StreamDelta, RetryStep, Answered, CheckResponse, RecordCalls, NextTool, ExecuteTool,
       FinishRun, At
  <1>2. state = "running"
    BY <1>1 DEF AInv, IInv, ActiveInv
  <1>3. SameMemory /\ UNCHANGED <<state, manifestFile>>
    <2>1. CASE StreamDelta \/ RetryStep \/ Answered
      BY <2>1 DEF StreamDelta, RetryStep, Answered, Moves, Begins, SameMemory, storeVars, counters
    <2>2. CASE CheckResponse \/ RecordCalls
      BY <2>2 DEF CheckResponse, RecordCalls, Moves, Begins, SameMemory, storeVars, counters
    <2>3. CASE NextTool \/ ExecuteTool \/ FinishRun
      BY <2>3 DEF NextTool, ExecuteTool, FinishRun, FinishesTool, Begins, SameMemory, storeVars, counters
    <2> QED
      BY <2>1, <2>2, <2>3
  <1>4. CASE FinishRun
    BY <1>1, <1>2, <1>3, <1>4, BeginsMemory DEF FinishRun
  <1>5. CASE ~ FinishRun
    <2>1. job' = job \/ job'.after # "settle"
      <3>1. CASE StreamDelta \/ RetryStep \/ Answered
        BY <3>1, JobFacts DEF StreamDelta, RetryStep, Answered, Moves, Begins
      <3>2. CASE CheckResponse \/ RecordCalls
        <4>1. job' = job \/ (\E W : job' = Job(W, "calls") \/ job' = Job(W, "tool"))
          <5>1. CASE CheckResponse
            <6>1. job' = job \/ \E W : Begins(Job(W, "calls"))
              BY <5>1, Zenon DEF CheckResponse, Moves
            <6> QED
              BY <6>1, Zenon DEF Begins
          <5>2. CASE RecordCalls
            <6>1. job' = job \/ \E W : Begins(Job(W, "tool"))
              BY <5>2, Zenon DEF RecordCalls, Moves
            <6> QED
              BY <6>1, Zenon DEF Begins
          <5> QED
            BY <3>2, <5>1, <5>2
        <4> QED
          BY <4>1, JobFacts
      <3>3. CASE NextTool \/ ExecuteTool
        BY <3>3, JobFacts DEF NextTool, ExecuteTool, FinishesTool, Begins
      <3> QED
        BY <1>5, <3>1, <3>2, <3>3
    <2> QED
      BY <1>1, <1>2, <1>3, <2>1, BeginsMemory
  <1> QED
    BY <1>4, <1>5
-----------------------------------------------------------------------------
(***************************************************************************)
(* A write is made, or is not.                                             *)
(***************************************************************************)
\* The first of the writes that end a run: the terminal event is the second to last.
LEMMA SettleHead ==
  ASSUME AInv, job.after = "settle", job.writes # <<>>
  PROVE  LET n == Len(job.writes)
             w == Head(job.writes)
         IN  \/ n >= 3 /\ w.op \in {"append", "emit"}
             \/ n = 2 /\ w.op = "persist" /\ w.ev = ReportOf(OutcomeFact)
             \/ n = 1 /\ w.op = "finish"
  <1>1. PICK W \in Seq(StoreCall) : W = job.writes
    BY DEF AInv, Types, JobType
  <1>2. Head(W) = W[1] /\ Len(W) \in Nat /\ Len(W) > 0 /\ W # <<>>
    BY <1>1, FirstOf
  <1>3. PICK run, rec : run = goroutine.run /\ rec = OutcomeFact
    OBVIOUS
  <1>4. EndPlan(W, run, rec)
    BY <1>1, <1>3 DEF AInv, CInv, PlanInv
  <1>n. PICK n \in Nat : n = Len(W) /\ n > 0
    BY <1>2
  <1>5. ReportOf(rec).kind \in TerminalEvents
    <2>1. IsOutcome(rec, run) /\ run \in Nat
      BY <1>3, SettlePlace, OutcomeFacts DEF AInv
    <2> QED
      BY <2>1, ReportTyped
  <1>6. W[1].op = "emit" => W[1].ev.kind \notin TerminalEvents
    <2>1. state # "starting"
      BY DEF AInv, IInv, JobInv, AfterRun, AfterLoad
    <2> QED
      BY <1>1, <1>2, <2>1 DEF AInv, CInv, ShownInv
  <1>7. ASSUME n >= 3
        PROVE  W[1].op \in {"append", "emit"}
    <2>1. RecordWrite(W[n - 2], rec) /\ AllPlain(W, n - 3, run)
      BY <1>4, <1>7, <1>n DEF EndPlan
    <2>2. CASE n = 3
      <3>1. n - 2 = 1
        BY <2>2
      <3> QED
        BY <2>1, <3>1 DEF RecordWrite
    <2>3. CASE n > 3
      <3>1. PlainWrite(W[1], run)
        BY <1>n, <2>1, <2>3 DEF AllPlain
      <3> QED
        BY <3>1 DEF PlainWrite
    <2> QED
      BY <1>7, <2>2, <2>3
  <1>8. ASSUME n = 2
        PROVE  W[1].op = "persist" /\ W[1].ev = ReportOf(rec)
    <2>1. EventWrite(W[1], ReportOf(rec))
      <3>1. EventWrite(W[1], ReportOf(rec)) \/ n >= 3 \/ n = 1 \/ n = 0
        BY <1>4, <1>n, Zenon DEF EndPlan
      <3> QED
        BY <1>8, <3>1
    <2> QED
      BY <1>5, <1>6, <2>1 DEF EventWrite
  <1>9. ASSUME n = 1
        PROVE  W[1].op = "finish"
    <2>1. W[1].op = "finish" \/ n >= 3 \/ n = 2 \/ n = 0
      BY <1>4, <1>n, Zenon DEF EndPlan
    <2> QED
      BY <1>9, <2>1
  <1>10. n >= 3 \/ n = 2 \/ n = 1
    BY <1>n
  <1> QED
    BY <1>1, <1>2, <1>3, <1>n, <1>7, <1>8, <1>9, <1>10

\* Nowhere else is an event written that is not published with its write.
LEMMA NoPersist ==
  ASSUME AInv, PersistInv, job.after # "settle", job.writes # <<>>
  PROVE  Head(job.writes).op # "persist"
  <1>1. PICK W \in Seq(StoreCall) : W = job.writes
    BY DEF AInv, Types, JobType
  <1>2. Head(W) = W[1] /\ Len(W) \in Nat /\ Len(W) > 0 /\ W # <<>>
    BY <1>1, FirstOf
  <1>3. \A n \in 1..Len(W) : AllQuiet(W, n) => W[1].op # "persist"
    BY <1>2 DEF AllQuiet, QuietWrite
  <1>4. \A run : AllPlain(W, Len(W), run) => W[1].op # "persist"
    BY <1>2 DEF AllPlain, PlainWrite
  <1>5. ClosePlan(W) => W[1].op # "persist"
    <2>1. PICK n \in Nat : n = Len(W) /\ n > 0
      BY <1>2
    <2>2. ASSUME n >= 3, RecordWrite(W[n - 2], SessionClosed), AllQuiet(W, n - 3)
          PROVE  W[1].op # "persist"
      <3>1. CASE n = 3
        <4>1. n - 2 = 1
          BY <3>1
        <4> QED
          BY <2>2, <4>1 DEF RecordWrite
      <3>2. CASE n > 3
        <4>1. n - 3 \in 1..n
          BY <2>1, <3>2
        <4> QED
          BY <1>3, <2>1, <2>2, <4>1
      <3> QED
        BY <2>2, <3>1, <3>2
    <2>3. ToldWrite(W[1]) => W[1].op # "persist"
      BY DEF ToldWrite
    <2>4. AllQuiet(W, n) => W[1].op # "persist"
      BY <1>3, <2>1
    <2> QED
      BY <2>1, <2>2, <2>3, <2>4 DEF ClosePlan
  <1>6. CASE job.after \in {"free", "cancelled", "rejected", "done"}
    BY <1>1, <1>2, <1>3, <1>6 DEF AInv, CInv, PlanInv
  <1>7. CASE job.after = "started"
    <2>1. StartPlan(W)
      BY <1>1, <1>7 DEF AInv, CInv, PlanInv
    <2> QED
      BY <1>1, <1>2, <1>4, <2>1 DEF StartPlan
  <1>8. CASE job.after \in AfterRun
    BY <1>1, <1>2, <1>4, <1>8 DEF AInv, CInv, PlanInv
  <1>9. CASE job.after \in {"closed", "loaded"}
    BY <1>1, <1>2, <1>5, <1>9 DEF AInv, CInv, PlanInv
  <1>10. CASE job.after = "reconciled"
    BY <1>1, <1>2, <1>10 DEF PersistInv
  <1>11. CASE job.after = "refused"
    BY <1>1, <1>2, <1>11 DEF AInv, CInv, PlanInv
  <1> QED
    BY <1>6, <1>7, <1>8, <1>9, <1>10, <1>11 DEF AInv, Types, JobType, Afters, AfterLoad

LEMMA WriteMemory ==
  ASSUME AInv, MemoryInv, WriteSucceeds
  PROVE  MemoryInv'
  <1>1. PICK w : w = Head(job.writes)
    OBVIOUS
  <1>2. PICK n : n = Len(job.writes)
    OBVIOUS
  <1>3. PICK e : e = [cursor |-> cursor + 1, ev |-> w.ev]
    OBVIOUS
  <1>4. /\ job.writes # <<>> /\ w \in StoreCall /\ Does(w) /\ StoreWrite(w, "ok")
        /\ job'.writes = Tail(job.writes) /\ job'.after = job.after
        /\ UNCHANGED <<goroutine, state, partial, activeTool, tolerated>>
        /\ cursor' = IF w.op \in {"emit", "persist"} THEN cursor + 1 ELSE cursor
        /\ history' = IF w.op = "emit" THEN Append(history, e) ELSE history
        /\ w.op # "append" => transcriptLog' = transcriptLog /\ records' = records
        /\ w.op = "append" => records' = records \o Numbered(manifest.transcriptSeq, w.recs)
    <2>1. /\ job.writes # <<>> /\ w \in StoreCall /\ Does(w)
          /\ job'.writes = Tail(job.writes) /\ job'.after = job.after
          /\ w.op # "append" => transcriptLog' = transcriptLog /\ records' = records
          /\ w.op = "append" => records' = records \o Numbered(manifest.transcriptSeq, w.recs)
      BY <1>1, HeadWritten
    <2>2. /\ StoreWrite(w, "ok")
          /\ UNCHANGED <<goroutine, state, partial, activeTool, tolerated>>
          /\ cursor' = IF w.op \in {"emit", "persist"} THEN cursor + 1 ELSE cursor
          /\ history' = IF w.op = "emit" THEN Append(history, e) ELSE history
      BY <1>1, <1>3 DEF WriteSucceeds, counters
    <2> QED
      BY <2>1, <2>2
  <1>5. /\ n \in Nat /\ n > 0 /\ Len(job'.writes) = n - 1
        /\ \A i \in 1..(n - 1) : job'.writes[i] = job.writes[i + 1]
    <2>1. job.writes \in Seq(StoreCall)
      BY DEF AInv, Types, JobType
    <2> QED
      BY <1>2, <1>4, <2>1, FirstOf
  <1>6. QuietInv'
    BY <1>4 DEF MemoryInv, QuietInv
  <1>7. PersistInv'
    BY <1>2, <1>4, <1>5 DEF MemoryInv, PersistInv
  <1>8. ASSUME Current'
        PROVE  (records = transcriptLog /\ cursor = Len(eventLog) /\ Published)'
    <2>1. records = transcriptLog /\ cursor = Len(eventLog) /\ Published
      BY <1>4, <1>8 DEF MemoryInv, MemInv, Current
    <2>2. records' = transcriptLog'
      <3>1. CASE w.op = "append"
        <4>1. transcriptLog' = transcriptLog \o Store!Lines(w.recs)
          BY <1>4, <3>1 DEF StoreWrite, Store!AppendTranscript
        <4>2. Store!Lines(w.recs) = Numbered(manifest.transcriptSeq, w.recs)
          BY <1>4, LinesTyped DEF AInv, Types, StoreCall
        <4> QED
          BY <1>4, <2>1, <3>1, <4>1, <4>2
      <3> QED
        BY <1>4, <2>1, <3>1
    <2>3. /\ w.op \in {"emit", "persist"} => eventLog' = Append(eventLog, e)
          /\ w.op \notin {"emit", "persist"} => eventLog' = eventLog
      BY <1>3, <1>4 DEF StoreCall, WriteOp, Does, Noted, Added, Same, CoreOnly
    <2>4. cursor' = Len(eventLog')
      <3>1. eventLog \in Seq(Store!EventEntry)
        BY DEF AInv, Types, Store!TypeOK
      <3> QED
        BY <1>4, <2>1, <2>3, <3>1, AppendProperties
    <2>5. job.after = "settle" =>
            \/ n >= 3 /\ w.op \in {"append", "emit"}
            \/ n = 2 /\ w.op = "persist" /\ w.ev = ReportOf(OutcomeFact)
            \/ n = 1 /\ w.op = "finish"
      BY <1>1, <1>2, <1>4, SettleHead
    <2>6. job.after # "settle" => w.op # "persist"
      BY <1>1, <1>4, NoPersist DEF MemoryInv
    <2>7. Published'
      <3>1. CASE job.after # "settle"
        <4>1. eventLog = history
          BY <2>1, <3>1 DEF Published
        <4>2. eventLog' = history'
          BY <1>4, <2>3, <2>6, <3>1, <4>1
        <4> QED
          BY <1>4, <3>1, <4>2 DEF Published
      <3>2. CASE job.after = "settle" /\ n >= 3
        <4>1. eventLog = history
          BY <1>2, <2>1, <3>2 DEF Published
        <4>2. w.op \in {"append", "emit"}
          BY <2>5, <3>2
        <4>3. eventLog' = history'
          BY <1>4, <2>3, <4>1, <4>2
        <4>4. ~ (Len(job'.writes) <= 1)
          BY <1>5, <3>2
        <4> QED
          BY <4>3, <4>4 DEF Published
      <3>3. CASE job.after = "settle" /\ n = 2
        <4>1. eventLog = history
          BY <1>2, <2>1, <3>3 DEF Published
        <4>2. w.op = "persist" /\ w.ev = ReportOf(OutcomeFact)
          BY <2>5, <3>3
        <4>3. eventLog' = Append(history, e) /\ history' = history
          BY <1>4, <2>3, <4>1, <4>2
        <4>4. OutcomeFact' = OutcomeFact
          BY <1>4 DEF OutcomeFact
        <4>5. PICK rec : rec = OutcomeFact
          OBVIOUS
        <4>6. e = [cursor |-> cursor', ev |-> ReportOf(rec)]
          BY <1>3, <1>4, <4>2, <4>5
        <4>7. rec = OutcomeFact'
          BY <4>4, <4>5
        <4>8. e = SettleEntry'
          BY <4>6, <4>7 DEF SettleEntry
        <4>9. job'.after = "settle" /\ Len(job'.writes) <= 1
          <5>1. n - 1 <= 1
            BY <3>3
          <5> QED
            BY <1>4, <1>5, <3>3, <5>1
        <4> QED
          BY <4>3, <4>8, <4>9 DEF Published
      <3>4. CASE job.after = "settle" /\ n = 1
        <4>1. eventLog = Append(history, SettleEntry)
          BY <1>2, <2>1, <3>4 DEF Published
        <4>2. w.op = "finish"
          BY <2>5, <3>4
        <4>3. eventLog' = eventLog /\ history' = history /\ cursor' = cursor
          BY <1>4, <2>3, <4>2
        <4>4. OutcomeFact' = OutcomeFact
          BY <1>4 DEF OutcomeFact
        <4>5. SettleEntry' = SettleEntry
          <5>1. PICK rec : rec = OutcomeFact
            OBVIOUS
          <5>2. rec = OutcomeFact'
            BY <4>4, <5>1
          <5> QED
            BY <4>3, <5>1, <5>2 DEF SettleEntry
        <4>6. job'.after = "settle" /\ Len(job'.writes) <= 1
          <5>1. n - 1 <= 1
            BY <3>4
          <5> QED
            BY <1>4, <1>5, <3>4, <5>1
        <4> QED
          BY <4>1, <4>3, <4>5, <4>6 DEF Published
      <3> QED
        BY <1>5, <2>5, <3>1, <3>2, <3>3, <3>4
    <2> QED
      BY <2>2, <2>4, <2>7
  <1> QED
    BY <1>6, <1>7, <1>8 DEF MemoryInv, MemInv

\* After a write that failed the session is refused, faulted or about to be, or
\* the failure is tolerated; or nothing of the logs was to be written.
LEMMA ErrorMemory ==
  ASSUME AInv, PlacesInv, MemoryInv, WriteFails \/ EventRefused
  PROVE  MemoryInv'
  <1>1. PICK w : w = Head(job.writes)
    OBVIOUS
  <1>2. job.writes # <<>> /\ HandleError(w.onError)
    BY <1>1 DEF WriteFails, EventRefused
  <1>3. CASE state = "starting"
    <2>1. job' = Job(<<>>, "refused") /\ UNCHANGED <<state, partial, activeTool>>
      BY <1>2, <1>3 DEF HandleError
    <2>2. job'.after = "refused"
      BY <2>1, JobFacts
    <2> QED
      BY <2>1, <2>2 DEF MemoryInv, MemInv, QuietInv, PersistInv, Current
  <1>4. CASE state # "starting" /\ Fault
    <2>1. state' = "faulted" /\ partial' = FALSE /\ activeTool' = NoCall /\ job' = NoJob
      BY <1>4 DEF Fault
    <2>2. job'.after = "free"
      BY <2>1, NoJobFacts
    <2> QED
      BY <2>1, <2>2 DEF MemoryInv, MemInv, QuietInv, PersistInv, Current
  <1>5. CASE state # "starting" /\ w.onError # "fault"
    <2>1. /\ job' = NoJob
          /\ UNCHANGED <<state, records, history, cursor, partial, activeTool>>
          /\ goroutine' = CASE w.onError = "fault_run" -> Goto("faulting")
                            [] w.onError = "fail_run" -> Ending("failed", "engine_invariant")
                            [] w.onError = "fail_stream" -> Erring("engine_invariant")
                            [] OTHER -> goroutine
      BY <1>2, <1>5 DEF HandleError
    <2>2. job'.after = "free" /\ job'.writes = <<>>
      BY <2>1, NoJobFacts
    <2>3. QuietInv' /\ PersistInv'
      BY <2>1, <2>2 DEF MemoryInv, QuietInv, PersistInv
    <2>4. \/ w.onError = "return" /\ w.op = "record"
          \/ state = "running" /\ w.onError \in {"fault_run", "fail_run", "fail_stream"}
      BY <1>1, <1>2, <1>5, HeadFacts DEF AInv
    <2>5. job.after \notin {"settle", "refused"}
      <3>1. job.after # "refused"
        BY <1>2 DEF AInv, CInv, PlanInv
      <3>2. job.after # "settle"
        <4>1. PICK W \in Seq(StoreCall) : W = job.writes
          BY DEF AInv, Types, JobType
        <4>2. Head(W) = W[1] /\ Len(W) \in Nat /\ Len(W) > 0
          BY <1>2, <4>1, FirstOf
        <4>3. 1 \in 1..Len(W)
          BY <4>2
        <4> QED
          BY <1>1, <1>5, <4>1, <4>2, <4>3 DEF AInv, CInv, PlanInv
      <3> QED
        BY <3>1, <3>2
    <2>6. w.onError \in {"fail_run", "fail_stream"} => goroutine.pc # "faulting"
      <3>1. ASSUME state = "running", w.onError # "return"
            PROVE  job.after \in AfterRun \ {"settle"}
        BY <1>1, <1>2, <2>5, <3>1, JobShape DEF AInv
      <3>2. job.after \in AfterRun \ {"settle"} => goroutine.pc # "faulting"
        BY DEF PlacesInv, JobPlaces, AfterRun, At
      <3> QED
        BY <2>4, <3>1, <3>2
    <2>7. ASSUME Current'
          PROVE  (records = transcriptLog /\ cursor = Len(eventLog) /\ Published)'
      <3>1. w.onError # "fault_run"
        <4>1. w.onError = "fault_run" => goroutine' = Goto("faulting")
          BY <2>1
        <4>2. Goto("faulting").pc = "faulting"
          BY GoroutineFacts DEF AInv, IInv, Shapes
        <4> QED
          BY <2>7, <4>1, <4>2 DEF Current
      <3>2. tolerated = "none" /\ UNCHANGED <<transcriptLog, eventLog>>
        <4>1. CASE EventRefused
          BY <2>7, <4>1 DEF EventRefused, storeVars, counters, Current
        <4>2. CASE WriteFails
          <5>1. w.onError \notin {"fail_run", "fail_stream"}
            BY <1>1, <2>7, <4>2 DEF WriteFails, Tolerates, Current
          <5>2. w.op = "record" /\ tolerated' = tolerated
            BY <1>1, <2>4, <3>1, <4>2, <5>1 DEF WriteFails, Tolerates
          <5>3. PICK result : StoreWrite(w, result)
            BY <1>1, <4>2 DEF WriteFails
          <5>4. UNCHANGED <<transcriptLog, eventLog>>
            BY <5>2, <5>3 DEF StoreWrite, Store!RecordCommand, Store!OnlyManifest
          <5> QED
            BY <2>7, <5>2, <5>4 DEF Current
        <4> QED
          BY <4>1, <4>2
      <3>3. goroutine.pc # "faulting"
        <4>1. w.onError = "return" => goroutine' = goroutine
          BY <2>1
        <4> QED
          BY <2>4, <2>6, <2>7, <3>1, <4>1 DEF Current
      <3>4. Current
        BY <2>1, <2>5, <2>7, <3>2, <3>3 DEF Current
      <3>5. records = transcriptLog /\ cursor = Len(eventLog) /\ eventLog = history
        BY <2>5, <3>4 DEF MemoryInv, MemInv, Published
      <3> QED
        BY <2>1, <2>2, <3>2, <3>5 DEF Published
    <2> QED
      BY <2>3, <2>7 DEF MemoryInv, MemInv
  <1> QED
    BY <1>2, <1>3, <1>4, <1>5 DEF HandleError
-----------------------------------------------------------------------------
(***************************************************************************)
(* The mutex is left, the process dies, and the session is loaded again.   *)
(***************************************************************************)
LEMMA MutexMemory ==
  ASSUME AInv, PlacesInv, MemoryInv, CommandDone \/ GoroutineGoesOn \/ Loaded
  PROVE  MemoryInv'
  <1>1. /\ SameMemory /\ UNCHANGED <<partial, activeTool>>
        /\ job' = NoJob
    BY DEF CommandDone, GoroutineGoesOn, Loaded, Finishes, SameMemory, storeVars, counters
  <1>2. job'.after = "free"
    BY <1>1, NoJobFacts
  <1>3. CASE CommandDone
    <2>1. PICK after \in {"done", "rejected", "started", "cancelled", "closed"} :
            /\ job.after = after
            /\ state' = CASE after = "started" -> "running"
                          [] after = "closed" -> "closed"
                          [] OTHER -> state
            /\ goroutine' = IF after = "started"
                            THEN [NoGoroutine EXCEPT !.pc = "loop", !.run = manifest.active]
                            ELSE goroutine
      BY <1>3 DEF CommandDone, Finishes
    <2>2. /\ job.after \in {"started", "rejected", "done"} => state = "idle"
          /\ job.after = "closed" => state \in {"idle", "closed"}
          /\ job.after = "cancelled" => state \in {"idle", "running", "closed"}
      BY DEF AInv, IInv, JobInv, AfterRun, AfterLoad
    <2>3. state = "idle" => goroutine.pc = "none"
      BY DEF AInv, IInv, ActiveInv
    <2>4. Current' => Current
      BY <1>1, <2>1, <2>2, <2>3 DEF Current, SameMemory
    <2>5. state' = "running" \/ (state' # "running" => state # "running")
      BY <2>1, <2>2
    <2> QED
      BY <1>1, <1>2, <2>1, <2>4, <2>5, MemoryFrame
  <1>4. CASE GoroutineGoesOn
    <2>1. PICK pc \in {"attempt", "sleep", "check", "calls", "tool", "exec"} : job.after = pc
      BY <1>4 DEF GoroutineGoesOn, Finishes
    <2>2. state' = state
      BY <1>4 DEF GoroutineGoesOn
    <2>3. goroutine.pc # "faulting"
      BY <2>1 DEF PlacesInv, JobPlaces, At
    <2>4. Current' => Current
      BY <1>1, <2>1, <2>2, <2>3 DEF Current, SameMemory
    <2> QED
      BY <1>1, <1>2, <2>1, <2>2, <2>4, MemoryFrame
  <1>5. CASE Loaded
    <2>1. job.after \in {"loaded", "reconciled"} /\ goroutine' = goroutine
      BY <1>5 DEF Loaded, Finishes
    <2>2. state = "starting"
      BY <2>1 DEF AInv, IInv, JobInv, AfterRun, AfterLoad
    <2>3. Current' => Current
      BY <1>1, <2>1, <2>2 DEF Current, SameMemory
    <2> QED
      BY <1>1, <1>2, <2>1, <2>2, <2>3, MemoryFrame
  <1> QED
    BY <1>3, <1>4, <1>5

LEMMA SettleMemory ==
  ASSUME AInv, MemoryInv, Settle
  PROVE  MemoryInv'
  <1>1. /\ job.writes = <<>> /\ job.after = "settle" /\ job' = NoJob /\ state' = "idle"
        /\ partial' = FALSE /\ activeTool' = NoCall
        /\ UNCHANGED <<transcriptLog, eventLog, records, cursor, tolerated>>
    BY DEF Settle, Finishes, storeVars
  <1>2. job'.after = "free" /\ Len(job.writes) <= 1
    BY <1>1, NoJobFacts
  <1>3. state = "running" /\ At("finish") /\ goroutine.outcome \in {"completed", "failed", "cancelled"}
    BY <1>1 DEF AInv, Types, PlaceInv, IInv, JobInv, AfterRun, AfterLoad
  <1>4. history' = Append(history, SettleEntry)
    <2>1. /\ OutcomeFact.run = goroutine.run /\ OutcomeFact.outcome = goroutine.outcome
          /\ OutcomeFact.cause = goroutine.cause
      BY DEF OutcomeFact, RunOutcome, Fact
    <2>2. Reported(goroutine.outcome) = goroutine.outcome
      BY <1>3 DEF Reported
    <2>3. ReportOf(OutcomeFact) = TerminalEvent(goroutine.run, goroutine.outcome, goroutine.cause)
      BY <2>1, <2>2 DEF ReportOf
    <2> QED
      BY <2>3 DEF Settle, SettleEntry
  <1>5. ASSUME Current'
        PROVE  (records = transcriptLog /\ cursor = Len(eventLog) /\ Published)'
    <2>1. Current
      BY <1>1, <1>3, <1>5 DEF Current, At
    <2>2. records = transcriptLog /\ cursor = Len(eventLog) /\ eventLog = Append(history, SettleEntry)
      BY <1>1, <1>2, <2>1 DEF MemoryInv, MemInv, Published
    <2> QED
      BY <1>1, <1>2, <1>4, <2>2 DEF Published
  <1> QED
    BY <1>1, <1>2, <1>5 DEF MemoryInv, MemInv, QuietInv, PersistInv

LEMMA DownMemory ==
  ASSUME FaultRun \/ ProcessDies \/ LoadRefused
  PROVE  MemoryInv'
  <1>1. state' \in {"down", "faulted"} /\ partial' = FALSE /\ activeTool' = NoCall /\ job' = NoJob
    BY DEF FaultRun, Fault, ProcessDies, LoadRefused, Forgets
  <1>2. job'.after = "free"
    BY <1>1, NoJobFacts
  <1> QED
    BY <1>1, <1>2 DEF MemoryInv, MemInv, QuietInv, PersistInv, Current

\* NewSession publishes every event it writes.
NoPersists(W) == \A i \in 1..Len(W) : W[i].op # "persist"

LEMMA ReconcilePublishes ==
  ASSUME transcriptLog \in Seq(Entry), ValidateRecords(transcriptLog), NEW run \in Nat
  PROVE  NoPersists(ReconcileWrites(run))
  <1>1. \A p, q \in Seq(StoreCall) : NoPersists(p) /\ NoPersists(q) => NoPersists(p \o q)
    <2>1. ASSUME NEW p \in Seq(StoreCall), NEW q \in Seq(StoreCall), NoPersists(p), NoPersists(q),
                 NEW i \in 1..Len(p \o q)
          PROVE  (p \o q)[i].op # "persist"
      BY <2>1, JoinPlaces DEF NoPersists
    <2> QED
      BY <2>1 DEF NoPersists
  <1>2. NoPersists(<<>>)
    BY DEF NoPersists
  <1>3. \A w : w.op # "persist" => NoPersists(<<w>>)
    BY DEF NoPersists
  <1>4. NoPersists(ReconcileFacts(run))
    <2>1. NoPersists(RepairWrites(run))
      <3>1. PICK R \in Seq(StoreCall), k \in Nat : R = RepairWrites(run) /\ Len(R) = k + 1
              /\ \A i \in 1..(k + 1) : \E recs : R[i] = AppendW(recs, "return")
        <4>1. PICK m, k : m = OpenToolCalls(transcriptLog) /\ k = Len(m)
          OBVIOUS
        <4>f. /\ RepairWrites(run) \in Seq(StoreCall) /\ k \in Nat /\ Len(RepairWrites(run)) = k + 1
              /\ \A i \in 1..k : RepairWrites(run)[i] =
                   AppendW(<<ToolResult(run, m[i].rec.call, "interrupted")>>, "return")
              /\ RepairWrites(run)[k + 1] =
                   AppendW(<<RunOutcome(run, "interrupted", "interrupted")>>, "return")
          BY <4>1, RepairWritesFacts
        <4>2. /\ RepairWrites(run) \in Seq(StoreCall) /\ k \in Nat /\ Len(RepairWrites(run)) = k + 1
              /\ \A i \in 1..k : \E recs : RepairWrites(run)[i] = AppendW(recs, "return")
              /\ \E recs : RepairWrites(run)[k + 1] = AppendW(recs, "return")
          BY <4>f, Zenon
        <4>3. \A i \in 1..(k + 1) : i \in 1..k \/ i = k + 1
          BY <4>2
        <4> QED
          BY <4>2, <4>3
      <3>2. \A i \in 1..Len(R) : R[i].op # "persist"
        BY <3>1, WriteFields
      <3> QED
        BY <3>1, <3>2 DEF NoPersists
    <2> QED
      BY <1>2, <2>1 DEF ReconcileFacts
  <1>5. NoPersists(ReconcileEvents(run)) /\ NoPersists(ReconcileMark)
    <2>1. InterruptedW(run).op # "persist" /\ Write("finish", "return").op # "persist"
      BY WriteFields DEF InterruptedW
    <2> QED
      BY <1>2, <1>3, <2>1 DEF ReconcileEvents, ReconcileMark
  <1>6. /\ ReconcileWrites(run) = ReconcileFacts(run) \o ReconcileEvents(run) \o ReconcileMark
        /\ ReconcileFacts(run) \in Seq(StoreCall) /\ ReconcileEvents(run) \in Seq(StoreCall)
        /\ ReconcileMark \in Seq(StoreCall)
    BY ReconcileTyped
  <1>7. ReconcileFacts(run) \o ReconcileEvents(run) \in Seq(StoreCall)
    BY <1>6, ConcatProperties
  <1> QED
    BY <1>1, <1>4, <1>5, <1>6, <1>7

LEMMA LoadMemory ==
  ASSUME AInv, MemoryInv, Load
  PROVE  MemoryInv'
  <1>1. UNCHANGED <<transcriptLog, eventLog>> /\ ValidateRecords(transcriptLog)
    BY StoreScan DEF Load, Store!Open, Store!Openable, Store!disk
  <1>2. /\ state = "down" /\ records' = transcriptLog /\ history' = eventLog
        /\ cursor' = Len(eventLog) /\ UNCHANGED <<partial, activeTool>>
    BY DEF Load
  <1>3. PICK run \in Nat : run = manifestFile.active
    BY OutcomeFacts DEF AInv
  <1>4. job' = Job((IF run = NoRun THEN <<>> ELSE ReconcileWrites(run)) \o CloseWrites,
                   IF run = NoRun THEN "loaded" ELSE "reconciled")
    BY <1>3 DEF Load
  <1>5. /\ job'.after = IF run = NoRun THEN "loaded" ELSE "reconciled"
        /\ job'.writes = (IF run = NoRun THEN <<>> ELSE ReconcileWrites(run)) \o CloseWrites
    BY <1>4, JobFacts
  <1>6. PersistInv'
    <2>1. CASE run = NoRun
      BY <1>5, <2>1 DEF PersistInv
    <2>2. CASE run # NoRun
      <3>1. transcriptLog \in Seq(Entry)
        BY StoreSets DEF AInv, Types, Store!TypeOK
      <3>2. PICK W \in Seq(StoreCall) : W = ReconcileWrites(run)
        BY <1>1, <3>1, ReconcileTyped
      <3>3. CloseWrites = <<>>
        <4>1. ~ FactThere
          BY <1>3, <2>2 DEF AInv, CInv, DiskInv, CloseInv
        <4> QED
          BY <4>1, CloseFound DEF CloseWrites
      <3>4. W \o <<>> = W
        OBVIOUS
      <3>5. job'.writes = W
        BY <1>5, <2>2, <3>2, <3>3, <3>4
      <3>6. NoPersists(W)
        BY <1>1, <3>1, <3>2, ReconcilePublishes
      <3> QED
        BY <3>5, <3>6 DEF PersistInv, NoPersists
    <2> QED
      BY <2>1, <2>2
  <1>7. QuietInv'
    BY <1>2 DEF MemoryInv, QuietInv
  <1>8. MemInv'
    <2>1. job'.after # "settle"
      BY <1>5
    <2> QED
      BY <1>1, <1>2, <2>1 DEF MemInv, Published
  <1> QED
    BY <1>6, <1>7, <1>8 DEF MemoryInv
-----------------------------------------------------------------------------
(***************************************************************************)
(* Every step, and a session at rest.                                      *)
(***************************************************************************)
LEMMA StillMemory ==
  ASSUME MemoryInv, UNCHANGED vars
  PROVE  MemoryInv'
  <1>1. /\ UNCHANGED <<transcriptLog, eventLog, records, history, cursor, tolerated, state, partial,
                       activeTool>>
        /\ job' = job /\ goroutine' = goroutine
    BY DEF vars, storeVars, memory, counters
  <1>2. SettleEntry' = SettleEntry
    <2>1. PICK rec : rec = OutcomeFact
      OBVIOUS
    <2>2. rec = OutcomeFact'
      BY <1>1, <2>1 DEF OutcomeFact
    <2> QED
      BY <1>1, <2>1, <2>2 DEF SettleEntry
  <1> QED
    BY <1>1, <1>2 DEF MemoryInv, MemInv, QuietInv, PersistInv, Current, Published

LEMMA MemoryNext ==
  ASSUME AInv, PlacesInv, MemoryInv, [Next]_vars
  PROVE  MemoryInv'
  <1>1. AInv'
    BY NextKeeps
  <1>2. CASE WriteFails \/ EventRefused
    BY <1>2, ErrorMemory
  <1>3. CASE ModelCall
    BY <1>1, <1>3, LocalMemory, TakesMemory DEF ModelCall
  <1>4. CASE ToolCalls
    BY <1>1, <1>4, LocalMemory, TakesMemory, DownMemory DEF ToolCalls
  <1>5. CASE Provider
    BY <1>1, <1>5, LocalMemory, TakesMemory DEF Provider
  <1>6. CASE WriteSucceeds \/ CommandDone \/ Settle \/ GoroutineGoesOn
    BY <1>6, WriteMemory, MutexMemory, SettleMemory
  <1>7. CASE (\E cmd \in CommandIDs : Command(cmd)) \/ Shutdown
    BY <1>1, <1>7, CommandMemory
  <1>8. CASE ProcessDies \/ NewSessionEnds \/ Load
    BY <1>8, DownMemory, MutexMemory, LoadMemory DEF NewSessionEnds
  <1>9. CASE UNCHANGED vars
    BY <1>9, StillMemory
  <1> QED
    BY <1>2, <1>3, <1>4, <1>5, <1>6, <1>7, <1>8, <1>9 DEF Next, HoldsLock

LEMMA FirstMemory == Init => MemoryInv
  <1> SUFFICES ASSUME Init PROVE MemoryInv
    OBVIOUS
  <1>1. job.after = "free"
    BY NoJobFacts DEF Init
  <1>2. eventLog = <<>> /\ transcriptLog = <<>> /\ Len(eventLog) = 0
    BY DEF Init, Store!Init
  <1> QED
    BY <1>1, <1>2 DEF Init, MemoryInv, MemInv, QuietInv, PersistInv, Published

\* As long as no failed append was tolerated, the records and the events in memory
\* are those of the logs and the cursor is where the event log ends, whoever holds
\* the mutex and whatever it has written; only the terminal event of a run is in
\* the log before it is published (appendPayloadLocked session.go:969,
\* persistEventLocked session.go:1027, finishRun session.go:843).
THEOREM SessionMemoryInvariant == Spec => [](AInv /\ PlacesInv /\ MemoryInv)
  <1>1. AInv /\ PlacesInv /\ MemoryInv /\ [Next]_vars => MemoryInv'
    BY MemoryNext
  <1> QED
    BY <1>1, FirstMemory, SessionPairInvariant, PTL DEF Spec

LEMMA RestsAtPlace ==
  ASSUME AInv, PlacesInv, MemoryInv,
         state \in {"idle", "closed"}, LockFree, tolerated = "none"
  PROVE  /\ job.after = "free" /\ goroutine.pc = "none" /\ goroutine.rest = <<>>
         /\ records = transcriptLog /\ history = eventLog /\ cursor = Len(eventLog)
         /\ ~ partial /\ activeTool = NoCall
         /\ Agree /\ manifestFile.active = NoRun
         /\ state = "closed" <=> FactThere
  <1>1. job.after = "free"
    BY NoJobFacts DEF LockFree
  <1>2. goroutine.pc = "none"
    BY DEF AInv, IInv, ActiveInv
  <1>3. goroutine.rest = <<>>
    BY <1>1, <1>2 DEF PlacesInv, RestInv
  <1>4. Current
    BY <1>1, <1>2 DEF Current
  <1>5. records = transcriptLog /\ history = eventLog /\ cursor = Len(eventLog)
    BY <1>1, <1>4 DEF MemoryInv, MemInv, Published
  <1>6. ~ partial /\ activeTool = NoCall
    BY DEF MemoryInv, QuietInv
  <1>7. Agree
    BY OpenNow
  <1>8. AtPlace
    BY <1>1 DEF AInv, CInv, PlanInv
  <1>9. manifestFile.active = NoRun /\ (state = "closed" <=> FactThere)
    BY <1>8 DEF AtPlace, Resting, Shut, AInv, CInv, DiskInv, CloseInv
  <1> QED
    BY <1>1, <1>2, <1>3, <1>5, <1>6, <1>7, <1>9

\* A session at rest, reloaded or not, after any run: what it holds in memory is
\* what is on disk, its transcript can become model context again, and no run is
\* open, each having told its end once; unless a failed append was tolerated or the
\* provider reuses the ID of a call (finishRun session.go:843, NewSession
\* session.go:197, Apply session.go:389).
THEOREM SessionAtRest == Spec => [](FreshCallIDs => AtRest)
  <1>1. ASSUME AInv, LogInv, PlacesInv, FreshCallIDs => PairInv, MemoryInv
        PROVE  FreshCallIDs => AtRest
    <2> SUFFICES ASSUME FreshCallIDs, state \in {"idle", "closed"}, LockFree, tolerated = "none"
                 PROVE  /\ records = transcriptLog /\ history = eventLog /\ cursor = Len(eventLog)
                        /\ manifest.active = NoRun
                        /\ ValidateTranscript(records)
                        /\ ~ partial /\ activeTool = NoCall
                        /\ \A run \in 1..manifest.nextRun : Cardinality(Terminals(run)) = 1
                        /\ state = "closed" <=> CloseFacts(records) = 1
      BY DEF AtRest
    <2>1. /\ job.after = "free" /\ goroutine.pc = "none" /\ goroutine.rest = <<>>
          /\ records = transcriptLog /\ history = eventLog /\ cursor = Len(eventLog)
          /\ ~ partial /\ activeTool = NoCall
          /\ Agree /\ manifestFile.active = NoRun
          /\ state = "closed" <=> FactThere
      BY <1>1, RestsAtPlace
    <2>2. manifest.active = NoRun /\ manifest.nextRun = manifestFile.nextRun
      BY <2>1 DEF Agree
    <2>3. ASSUME NEW run \in 1..manifestFile.nextRun PROVE Cardinality(Terminals(run)) = 1
      <3>1. Told(run)
        BY <1>1, <2>1 DEF AInv, CInv, DiskInv, RunsInv, NoRun
      <3> QED
        BY <1>1, <3>1, CountsOfRun
    <2>4. state = "closed" <=> CloseFacts(records) = 1
      BY <1>1, <2>1, CloseFound
    <2>5. ValidateTranscript(records)
      <3>1. Trusted
        BY DEF Trusted
      <3>2. PairSound /\ CallsInv
        BY <1>1, <3>1 DEF PairInv
      <3>3. \A c : ~ Owed(c)
        BY <2>1 DEF Owed
      <3>4. NoneOpen
        BY <2>1, <3>2, <3>3 DEF CallsInv, OpenInv, Usable, NoneOpen
      <3>5. ValidateRecords(transcriptLog)
        BY <1>1, <3>1, <3>2, RecordsLoad
      <3> QED
        BY <1>1, <2>1, <3>2, <3>4, <3>5, AnsweredLoads
    <2> QED
      BY <2>1, <2>2, <2>3, <2>4, <2>5
  <1>2. AInv /\ LogInv /\ PlacesInv /\ (FreshCallIDs => PairInv) /\ MemoryInv
          => (FreshCallIDs => AtRest)
    BY <1>1
  <1> QED
    BY <1>2, SessionPairInvariant, SessionMemoryInvariant, PTL

\* The context of every request is a transcript that could be loaded: whatever was
\* skipped, blocked, cancelled or cut short by a crash before, no call in it is left
\* without its result (run session.go:572, reconcileInterrupted session.go:1055);
\* unless a failed append was tolerated or the provider reuses the ID of a call.
THEOREM SessionContextLoads == Spec => [](FreshCallIDs => ContextLoads)
  <1>1. ASSUME AInv, LogInv, PlacesInv, FreshCallIDs => PairInv, MemoryInv
        PROVE  FreshCallIDs => ContextLoads
    <2> SUFFICES ASSUME FreshCallIDs, At("attempt"), tolerated = "none"
                 PROVE  ValidateTranscript(records)
      BY DEF ContextLoads
    <2>1. state = "running" /\ goroutine.pc = "attempt"
      BY <1>1 DEF AInv, IInv, ActiveInv, At
    <2>2. job.after \notin {"tool", "settle", "refused"}
      BY <1>1, <2>1 DEF PlacesInv, JobPlaces, AInv, IInv, JobInv, Types, PlaceInv, AfterRun, AfterLoad, At
    <2>3. records = transcriptLog
      BY <1>1, <2>1, <2>2 DEF MemoryInv, MemInv, Current
    <2>4. goroutine.rest = <<>>
      BY <1>1, <2>1, <2>2 DEF PlacesInv, RestInv
    <2>5. Trusted
      BY DEF Trusted
    <2>6. PairSound /\ CallsInv
      BY <1>1, <2>5 DEF PairInv
    <2>7. \A c : ~ Owed(c)
      BY <2>4 DEF Owed
    <2>8. NoneOpen
      BY <2>1, <2>2, <2>6, <2>7 DEF CallsInv, OpenInv, Usable, NoneOpen
    <2>9. ValidateRecords(transcriptLog)
      BY <1>1, <2>5, <2>6, RecordsLoad
    <2> QED
      BY <1>1, <2>3, <2>6, <2>8, <2>9, AnsweredLoads
  <1>2. AInv /\ LogInv /\ PlacesInv /\ (FreshCallIDs => PairInv) /\ MemoryInv
          => (FreshCallIDs => ContextLoads)
    BY <1>1
  <1> QED
    BY <1>2, SessionPairInvariant, SessionMemoryInvariant, PTL
-----------------------------------------------------------------------------
(***************************************************************************)
(* The order of calls and results, as long as no failure was tolerated.    *)
(***************************************************************************)
\* Wherever the two calls are in the log, the first is before the second.
Before(c, d) ==
  \A g, h \in 1..Len(transcriptLog) :
    /\ CallAt(transcriptLog, g) /\ transcriptLog[g].rec.call = c
    /\ CallAt(transcriptLog, h) /\ transcriptLog[h].rec.call = d
    => g < h

OrderSound == OrderedUpTo(transcriptLog, Len(transcriptLog))

\* The records that are added keep that order: calls, when none is open; the result
\* of the first call that is open; anything else, when none is open.
InOrder(part) ==
  \/ NoneOpen /\ \A k \in 1..Len(part) : part[k].kind = "tool_call"
  \/ NoneOpen /\ \A k \in 1..Len(part) : Neutral(part[k])
  \/ /\ Len(part) <= 1
     /\ \A k \in 1..Len(part) :
          /\ part[k].kind = "tool_result"
          /\ \A c : OpenCall(c) /\ c # part[k].call => Before(part[k].call, c)

LEMMA OrderedEarlier ==
  ASSUME NEW a, NEW b, NEW k \in Nat \ {0}, \A i \in 1..k : a[i] = b[i], OrderedAt(a, k)
  PROVE  OrderedAt(b, k)
  <1>1. k \in 1..k /\ \A i \in 1..(k - 1) : i \in 1..k
    OBVIOUS
  <1>2. \A i \in 1..k : /\ CallAt(a, i) <=> CallAt(b, i)
                        /\ ResultAt(a, i) <=> ResultAt(b, i)
    BY DEF CallAt, ResultAt
  <1>3. \A i \in 1..(k - 1) : HasResult(a, i, k - 1) => HasResult(b, i, k - 1)
    BY <1>1 DEF HasResult, ResultAt
  <1>4. \A i, j \in 1..k : ResultFor(b, i, j) => ResultFor(a, i, j)
    BY <1>2 DEF ResultFor
  <1>5. AnsweredBefore(a, k) => AnsweredBefore(b, k)
    BY <1>1, <1>2, <1>3 DEF AnsweredBefore
  <1>6. ASSUME ResultAt(b, k), NEW i \in 1..(k - 1), NEW h \in 1..(k - 1),
               CallAt(b, i), i < h, ResultFor(b, h, k)
        PROVE  HasResult(b, i, k - 1)
    <2>1. ResultAt(a, k) /\ CallAt(a, i) /\ ResultFor(a, h, k)
      BY <1>1, <1>2, <1>4, <1>6
    <2> QED
      BY <1>3, <1>6, <2>1 DEF OrderedAt
  <1>7. ASSUME ~ ResultAt(b, k)
        PROVE  AnsweredBefore(b, k) \/ (k > 1 /\ CallAt(b, k - 1) /\ CallAt(b, k))
    <2>1. AnsweredBefore(a, k) \/ (k > 1 /\ CallAt(a, k - 1) /\ CallAt(a, k))
      BY <1>1, <1>2, <1>7 DEF OrderedAt
    <2>2. k > 1 => k - 1 \in 1..k
      OBVIOUS
    <2> QED
      BY <1>1, <1>2, <1>5, <2>1, <2>2
  <1> QED
    BY <1>6, <1>7 DEF OrderedAt

\* Every call of a log in which none is open has its result.
LEMMA NoneOpenAnswered ==
  ASSUME NoneOpen, NEW i \in 1..Len(transcriptLog), CallAt(transcriptLog, i)
  PROVE  HasResult(transcriptLog, i, Len(transcriptLog))
  BY DEF NoneOpen, OpenCall, Called, HasAnswer, HasResult

LEMMA OrderGrows ==
  ASSUME Store!TypeOK, NEW part \in Seq(Record), Longer(transcriptLog, transcriptLog', part),
         PairSound', OrderSound, InOrder(part)
  PROVE  OrderSound'
  <1> DEFINE old == transcriptLog
             new == transcriptLog'
             L == Len(transcriptLog)
  <1>1. L \in Nat /\ Len(part) \in Nat /\ Len(new) = L + Len(part)
    BY DEF Longer, Store!TypeOK
  <1>2. /\ \A i \in 1..L : new[i] = old[i]
        /\ \A i \in 1..Len(part) : new[L + i].rec = part[i]
    BY DEF Longer
  <1>3. \A i \in 1..L : (CallAt(new, i) <=> CallAt(old, i)) /\ (ResultAt(new, i) <=> ResultAt(old, i))
    BY <1>2 DEF CallAt, ResultAt
  <1>4. ASSUME NEW k \in 1..Len(new) PROVE OrderedAt(new, k)
    <2>1. CASE k \in 1..L
      <3>1. k \in Nat \ {0} /\ \A i \in 1..k : old[i] = new[i]
        BY <1>1, <1>2, <2>1
      <3>2. OrderedAt(old, k)
        BY <2>1 DEF OrderSound, OrderedUpTo
      <3> HIDE DEF old, new
      <3> QED
        BY <3>1, <3>2, OrderedEarlier
    <2>2. CASE k \notin 1..L
      <3>1. PICK m \in 1..Len(part) : k = L + m
        BY <2>2 DEF Longer
      <3>2. new[k].rec = part[m]
        BY <1>2, <3>1
      <3>3. \A i \in 1..(k - 1) : i \in 1..L \/ \E j \in 1..(m - 1) : i = L + j
        <4> TAKE i \in 1..(k - 1)
        <4>1. CASE i \in 1..L
          BY <4>1
        <4>2. CASE i \notin 1..L
          <5>1. i - L \in 1..(m - 1) /\ i = L + (i - L)
            BY <1>1, <3>1, <4>2
          <5> QED
            BY <5>1
        <4> QED
          BY <4>1, <4>2
      <3>4. /\ \A i \in 1..L : i \in 1..(k - 1)
            /\ \A j \in 1..(m - 1) : j \in 1..Len(part)
        BY <1>1, <3>1
      <3>5. ASSUME NEW i \in 1..L, HasAnswer(old[i].rec.call) PROVE HasResult(new, i, k - 1)
        BY <1>2, <1>3, <3>4, <3>5 DEF HasAnswer, HasResult
      <3>6. ASSUME NoneOpen, NEW i \in 1..L, CallAt(new, i) PROVE HasResult(new, i, k - 1)
        BY <1>2, <1>3, <3>5, <3>6 DEF NoneOpen, OpenCall, Called
      <3>7. CASE NoneOpen /\ \A j \in 1..Len(part) : part[j].kind = "tool_call"
        <4>1. CallAt(new, k) /\ ~ ResultAt(new, k)
          BY <3>2, <3>7 DEF CallAt, ResultAt
        <4>2. CASE m = 1
          <5>1. 1..(m - 1) = {}
            BY <4>2
          <5>2. AnsweredBefore(new, k)
            BY <3>3, <3>6, <3>7, <5>1 DEF AnsweredBefore
          <5> QED
            BY <4>1, <5>2 DEF OrderedAt
        <4>3. CASE m # 1
          <5>1. m - 1 \in 1..Len(part) /\ k - 1 = L + (m - 1) /\ k > 1
            BY <1>1, <3>1, <4>3
          <5>2. CallAt(new, k - 1)
            BY <1>2, <3>7, <5>1 DEF CallAt
          <5> QED
            BY <4>1, <5>1, <5>2 DEF OrderedAt
        <4> QED
          BY <4>2, <4>3
      <3>8. CASE NoneOpen /\ \A j \in 1..Len(part) : Neutral(part[j])
        <4>1. ~ ResultAt(new, k)
          BY <3>2, <3>8 DEF ResultAt, Neutral
        <4>2. ASSUME NEW i \in 1..(k - 1), CallAt(new, i) PROVE HasResult(new, i, k - 1)
          <5>1. \A j \in 1..(m - 1) : ~ CallAt(new, L + j)
            BY <1>2, <3>4, <3>8 DEF CallAt, Neutral
          <5>2. i \in 1..L
            BY <3>3, <4>2, <5>1
          <5> QED
            BY <3>6, <3>8, <4>2, <5>2
        <4> QED
          BY <4>1, <4>2 DEF OrderedAt, AnsweredBefore
      <3>9. CASE /\ Len(part) <= 1
                 /\ \A j \in 1..Len(part) :
                      /\ part[j].kind = "tool_result"
                      /\ \A c : OpenCall(c) /\ c # part[j].call => Before(part[j].call, c)
        <4>1. m = 1 /\ 1..(m - 1) = {} /\ ResultAt(new, k)
          <5>1. m = 1
            BY <1>1, <3>9
          <5> QED
            BY <3>2, <3>9, <5>1 DEF ResultAt
        <4>2. ASSUME NEW i \in 1..(k - 1), NEW h \in 1..(k - 1), CallAt(new, i), i < h,
                     ResultFor(new, h, k)
              PROVE  HasResult(new, i, k - 1)
          <5>1. i \in 1..L /\ h \in 1..L
            BY <3>3, <4>1
          <5>2. CallAt(old, i) /\ CallAt(old, h) /\ old[h].rec.call = part[m].call
            BY <1>2, <1>3, <3>2, <4>2, <5>1 DEF ResultFor
          <5>3. new[i].rec.call # new[h].rec.call
            <6>1. Pairable(new, h) /\ CallAt(new, h) /\ i \in 1..(h - 1)
              BY <1>1, <1>3, <4>2, <5>1, <5>2 DEF PairSound, PairableUpTo
            <6> QED
              BY <4>2, <6>1 DEF Pairable
          <5>4. old[i].rec.call # part[m].call
            BY <1>2, <5>1, <5>2, <5>3
          <5>5. ~ Before(part[m].call, old[i].rec.call)
            BY <4>2, <5>1, <5>2 DEF Before
          <5>6. HasAnswer(old[i].rec.call)
            BY <3>9, <5>1, <5>2, <5>4, <5>5 DEF OpenCall, Called
          <5> QED
            BY <3>5, <5>1, <5>6
        <4> QED
          BY <4>1, <4>2 DEF OrderedAt
      <3> QED
        BY <3>7, <3>8, <3>9 DEF InOrder
    <2> QED
      BY <2>1, <2>2
  <1> QED
    BY <1>4 DEF OrderSound, OrderedUpTo

\* Unless one of the two calls is added.
LEMMA BeforeKept ==
  ASSUME Store!TypeOK, NEW part \in Seq(Record), Longer(transcriptLog, transcriptLog', part),
         NEW c, NEW d, Before(c, d),
         \A k \in 1..Len(part) : part[k].kind = "tool_call" => part[k].call # c /\ part[k].call # d
  PROVE  Before(c, d)'
  <1>1. /\ \A i \in 1..Len(transcriptLog) : transcriptLog'[i] = transcriptLog[i]
        /\ \A i \in 1..Len(part) : transcriptLog'[Len(transcriptLog) + i].rec = part[i]
        /\ \A k \in 1..Len(transcriptLog') :
             k \in 1..Len(transcriptLog) \/ \E i \in 1..Len(part) : k = Len(transcriptLog) + i
    BY DEF Longer
  <1>2. ASSUME NEW k \in 1..Len(transcriptLog'), CallAt(transcriptLog', k),
               transcriptLog'[k].rec.call = c \/ transcriptLog'[k].rec.call = d
        PROVE  k \in 1..Len(transcriptLog) /\ CallAt(transcriptLog, k)
    <2>1. ASSUME NEW i \in 1..Len(part), k = Len(transcriptLog) + i PROVE FALSE
      BY <1>1, <1>2, <2>1 DEF CallAt
    <2>2. k \in 1..Len(transcriptLog)
      BY <1>1, <2>1
    <2> QED
      BY <1>1, <1>2, <2>2 DEF CallAt
  <1>3. ASSUME NEW g \in 1..Len(transcriptLog'), NEW h \in 1..Len(transcriptLog'),
               CallAt(transcriptLog', g), transcriptLog'[g].rec.call = c,
               CallAt(transcriptLog', h), transcriptLog'[h].rec.call = d
        PROVE  g < h
    <2>1. /\ g \in 1..Len(transcriptLog) /\ CallAt(transcriptLog, g)
          /\ h \in 1..Len(transcriptLog) /\ CallAt(transcriptLog, h)
      BY <1>2, <1>3
    <2> QED
      BY <1>1, <1>3, <2>1 DEF Before
  <1> QED
    BY <1>3 DEF Before

LEMMA BeforeSame ==
  ASSUME transcriptLog' = transcriptLog
  PROVE  /\ OrderSound => OrderSound'
         /\ \A c, d : Before(c, d) => Before(c, d)'
  BY DEF OrderSound, OrderedUpTo, Before

\* The calls of an answer, as far as they were recorded.
LEMMA CallsInOrder ==
  ASSUME Store!TypeOK, NEW part \in Seq(Record), Longer(transcriptLog, transcriptLog', part),
         NEW rest,
         \A k \in 1..Len(part) : /\ k \in 1..Len(rest)
                                 /\ part[k].kind = "tool_call" /\ part[k].call = rest[k],
         \A i \in 1..Len(rest) : ~ Called(rest[i]),
         \A i, j \in 1..Len(rest) : rest[i] = rest[j] => i = j
  PROVE  \A i, j \in 1..Len(rest) : i < j => Before(rest[i], rest[j])'
  <1>1. Len(transcriptLog) \in Nat
    BY DEF Store!TypeOK
  <1>2. /\ \A i \in 1..Len(transcriptLog) : transcriptLog'[i] = transcriptLog[i]
        /\ \A i \in 1..Len(part) : transcriptLog'[Len(transcriptLog) + i].rec = part[i]
        /\ \A k \in 1..Len(transcriptLog') :
             k \in 1..Len(transcriptLog) \/ \E i \in 1..Len(part) : k = Len(transcriptLog) + i
    BY DEF Longer
  <1>3. ASSUME NEW i \in 1..Len(rest), NEW k \in 1..Len(transcriptLog'),
               CallAt(transcriptLog', k), transcriptLog'[k].rec.call = rest[i]
        PROVE  k = Len(transcriptLog) + i
    <2>1. k \notin 1..Len(transcriptLog)
      BY <1>2, <1>3 DEF Called, CallAt
    <2>2. PICK n \in 1..Len(part) : k = Len(transcriptLog) + n
      BY <1>2, <2>1
    <2>3. n \in 1..Len(rest) /\ rest[n] = rest[i]
      BY <1>2, <1>3, <2>2
    <2> QED
      BY <2>2, <2>3
  <1>4. ASSUME NEW i \in 1..Len(rest), NEW j \in 1..Len(rest), i < j PROVE Before(rest[i], rest[j])'
    <2>1. ASSUME NEW g \in 1..Len(transcriptLog'), NEW h \in 1..Len(transcriptLog'),
                 CallAt(transcriptLog', g), transcriptLog'[g].rec.call = rest[i],
                 CallAt(transcriptLog', h), transcriptLog'[h].rec.call = rest[j]
          PROVE  g < h
      <3>1. g = Len(transcriptLog) + i /\ h = Len(transcriptLog) + j
        BY <1>3, <2>1
      <3> QED
        BY <1>1, <1>4, <3>1
    <2> QED
      BY <2>1 DEF Before
  <1> QED
    BY <1>4

\* The calls whose results are owed, and the results a job writes, are in the order
\* of the calls in the log; a tool that is started is no record.
RestOrder ==
  \A i, j \in 1..Len(goroutine.rest) : i < j => Before(goroutine.rest[i], goroutine.rest[j])
ExecWrites == job.after = "exec" => \A i \in 1..Len(job.writes) : job.writes[i].op # "append"
ResultOrder ==
  job.after = "tool" /\ Len(job.writes) = 2 /\ job.writes[1].op = "append" =>
    \A j \in 1..Len(goroutine.rest) : Before(job.writes[1].recs[1].call, goroutine.rest[j])
RepairOrder ==
  job.after = "reconciled" /\ Open(manifestFile.active) =>
    \A i, j \in 1..(Len(job.writes) - 3) :
      i < j => Before(job.writes[i].recs[1].call, job.writes[j].recs[1].call)

PlanOrder == RestOrder /\ ExecWrites /\ ResultOrder /\ RepairOrder
OrderInv == tolerated = "none" => OrderSound /\ PlanOrder

LEMMA AppendsWhenAnswered ==
  ASSUME AInv, PlacesInv, OpenInv, ExecWrites, job.writes # <<>>,
         Head(job.writes).op = "append", job.after \notin {"tool", "reconciled"},
         LinesInv, Trusted, PairSound
  PROVE  NoneOpen
  <1> DEFINE W == job.writes
  <1>1. W \in Seq(StoreCall) /\ Head(W) = W[1] /\ Len(W) \in Nat /\ Len(W) > 0 /\ 1 \in 1..Len(W)
    BY FirstOf DEF AInv, Types, JobType
  <1>2. PlanInv /\ job.after \in Afters /\ job.after # "free"
    BY JobShape DEF AInv, CInv, Types, JobType
  <1>3. ~ QuietWrite(W[1])
    BY <1>1 DEF QuietWrite
  <1>4. job.after \notin {"cancelled", "rejected", "done", "refused", "exec"}
    BY <1>1, <1>2, <1>3 DEF PlanInv, AllQuiet, ExecWrites
  <1>5. ASSUME goroutine.rest = <<>>, Usable PROVE NoneOpen
    BY <1>5 DEF OpenInv, Owed, NoneOpen
  <1>6. CASE job.after \in {"started", "closed"}
    <2>1. state \in {"idle", "closed"}
      BY <1>6, JobShape DEF AInv
    <2>2. goroutine.pc = "none"
      BY <2>1 DEF AInv, IInv, ActiveInv
    <2>3. goroutine.rest = <<>>
      BY <1>6, <2>2 DEF PlacesInv, RestInv
    <2> QED
      BY <1>5, <2>1, <2>2, <2>3 DEF Usable
  <1>7. CASE job.after \in {"attempt", "sleep", "check", "calls", "settle"}
    <2>1. state = "running"
      BY <1>7, JobShape DEF AInv, AfterRun
    <2>2. goroutine.pc \in {"attempt", "retry", "answered", "check", "finish"}
      <3>1. job.after = "settle" => At("finish")
        BY <1>1, <1>2, SettlePlace DEF AInv
      <3> QED
        BY <1>7, <3>1 DEF PlacesInv, JobPlaces, At
    <2>3. goroutine.rest = <<>>
      BY <1>7, <2>2 DEF PlacesInv, RestInv
    <2> QED
      BY <1>5, <2>1, <2>2, <2>3 DEF Usable
  <1>8. CASE job.after = "loaded"
    <2>1. ClosePlan(W)
      BY <1>1, <1>2, <1>8 DEF PlanInv
    <2>2. state = "starting"
      BY <1>8, JobShape DEF AInv, AfterLoad
    <2>3. Resting
      BY <1>1, <1>3, <2>1, <2>2 DEF ClosePlan, ToldWrite
    <2> QED
      BY <2>3, OpenCallRun DEF Resting, NoneOpen, OpenCall, Called
  <1> QED
    BY <1>2, <1>4, <1>6, <1>7, <1>8 DEF Afters, AfterRun, AfterLoad

\* Whatever part of the first write of a job is made, it keeps the order.
LEMMA HeadInOrder ==
  ASSUME AInv, LinesInv, PlacesInv, Trusted, PairSound, CallsInv, PlanOrder,
         job.writes # <<>>, Head(job.writes).op = "append",
         NEW part, Prefix(part, Head(job.writes).recs)
  PROVE  InOrder(part)
  <1> DEFINE W == job.writes
             w == Head(job.writes)
  <1>1. W \in Seq(StoreCall) /\ w = W[1] /\ Len(W) \in Nat /\ Len(W) > 0 /\ 1 \in 1..Len(W)
    BY FirstOf DEF AInv, Types, JobType
  <1>2. /\ Len(part) \in Nat /\ Len(part) <= Len(w.recs) /\ Len(w.recs) \in Nat
        /\ \A k \in 1..Len(part) : k \in 1..Len(w.recs) /\ part[k] = w.recs[k]
    <2>1. w.recs \in Seq(Record)
      BY HeadTyped DEF AInv
    <2>2. Len(w.recs) \in Nat /\ Len(part) \in Nat /\ Len(part) <= Len(w.recs)
      BY <2>1 DEF Prefix
    <2> QED
      BY <2>2 DEF Prefix
  <1>3. PlanInv /\ Types /\ PairPlan /\ OpenInv
    BY DEF AInv, CInv, CallsInv
  <1>4. ASSUME NEW rec, RecordWrite(w, rec)
        PROVE  /\ Len(part) <= 1 /\ w.recs[1] = rec
               /\ \A k \in 1..Len(part) : part[k] = rec
    BY <1>2, <1>4 DEF RecordWrite
  <1>5. CASE job.after \notin {"tool", "reconciled"}
    <2>1. \A k \in 1..Len(w.recs) : Neutral(w.recs[k])
      BY <1>1, <1>3, <1>5 DEF PairPlan, AllNeutral, NoCalls
    <2>2. NoneOpen
      BY <1>3, <1>5, AppendsWhenAnswered DEF PlanOrder
    <2> QED
      BY <1>2, <2>1, <2>2 DEF InOrder
  <1>6. CASE job.after = "tool"
    <2>1. CASE CallsPlan(W)
      <3>1. \A k \in 1..Len(part) : part[k].kind = "tool_call"
        BY <1>1, <1>2, <2>1, RecordFields DEF CallsPlan
      <3> QED
        BY <2>1, <3>1 DEF CallsPlan, InOrder
    <2>2. CASE ResultPlan(W)
      <3>1. PICK id, outcome : /\ RecordWrite(w, ToolResult(goroutine.run, id, outcome))
                               /\ \A c : OpenCall(c) <=> Owed(c) \/ c = id
        BY <1>1, <2>2 DEF ResultPlan
      <3>2. ToolResult(goroutine.run, id, outcome).call = id
            /\ ToolResult(goroutine.run, id, outcome).kind = "tool_result"
        BY RecordFields
      <3>3. ASSUME NEW c, OpenCall(c), c # id PROVE Before(id, c)
        <4>1. PICK j \in 1..Len(goroutine.rest) : goroutine.rest[j] = c
          BY <3>1, <3>3 DEF Owed
        <4>2. w.recs[1].call = id
          BY <1>4, <3>1, <3>2
        <4> QED
          BY <1>1, <1>6, <2>2, <4>1, <4>2 DEF PlanOrder, ResultOrder, ResultPlan
      <3> QED
        BY <1>4, <3>1, <3>2, <3>3 DEF InOrder
    <2>3. ~ OwedPlan(W)
      BY <1>1 DEF OwedPlan
    <2> QED
      BY <1>3, <1>6, <2>1, <2>2, <2>3 DEF PairPlan, ToolPlan
  <1>7. CASE job.after = "reconciled"
    <2> DEFINE run == manifestFile.active
               last == RunOutcome(run, "interrupted", "interrupted")
               n == Len(W) - 3
    <2>1. EndPlan(W, run, last)
      BY <1>3, <1>7 DEF PlanInv
    <2>2. Open(run) /\ Len(W) >= 3 /\ RecordWrite(W[Len(W) - 2], last)
      BY <1>1, <2>1 DEF EndPlan, EventWrite
    <2>3. RepairOf(W, n)
      BY <1>3, <1>7, <2>2 DEF PairPlan, RepairPlan
    <2>4. CASE Len(W) > 3
      <3>1. 1 \in 1..n
        BY <1>1, <2>4
      <3>2. PICK id : OpenCall(id) /\ RecordWrite(w, ToolResult(run, id, "interrupted"))
        BY <1>1, <2>3, <3>1 DEF RepairOf
      <3>3. ToolResult(run, id, "interrupted").call = id
            /\ ToolResult(run, id, "interrupted").kind = "tool_result"
        BY RecordFields
      <3>4. W[1].recs[1].call = id
        BY <1>1, <1>4, <3>2, <3>3
      <3>5. ASSUME NEW c, OpenCall(c), c # id PROVE Before(id, c)
        <4>1. PICK i \in 1..n : W[i].recs[1].call = c
          BY <2>3, <3>5 DEF RepairOf
        <4>2. 1 < i
          BY <3>4, <3>5, <4>1
        <4> QED
          BY <1>7, <2>2, <3>1, <3>4, <4>1, <4>2 DEF PlanOrder, RepairOrder
      <3> QED
        BY <1>4, <3>2, <3>3, <3>5 DEF InOrder
    <2>5. CASE Len(W) = 3
      <3>1. \A c : OpenCall(c) => \E i \in 1..n : W[i].recs[1].call = c
        BY <2>3 DEF RepairOf
      <3>2. 1..n = {}
        BY <2>5
      <3>3. NoneOpen
        BY <3>1, <3>2 DEF NoneOpen
      <3>4. Len(W) - 2 = 1
        BY <2>5
      <3>5. RecordWrite(w, last)
        BY <1>1, <2>2, <3>4
      <3>6. \A k \in 1..Len(part) : Neutral(part[k])
        BY <1>4, <3>5, RecordFields DEF Neutral
      <3> QED
        BY <3>3, <3>6 DEF InOrder
    <2>6. Len(W) > 3 \/ Len(W) = 3
      <3>1. \A m \in Nat : m >= 3 => m > 3 \/ m = 3
        OBVIOUS
      <3> QED
        BY <1>1, <2>2, <3>1, Zenon
    <2> QED
      BY <2>4, <2>5, <2>6
  <1> QED
    BY <1>5, <1>6, <1>7

\* What a step does not change: the order of calls in the log, and that of the calls
\* the goroutine has still to finish.
OrderKept ==
  /\ \A c, d : Called(c) /\ Called(d) /\ Before(c, d) => Before(c, d)'
  /\ \A rest : rest = goroutine.rest =>
       \A i, j \in 1..Len(rest) : i < j => Before(rest[i], rest[j])'

\* Whatever a step adds to the log, it keeps the order.
LEMMA OrderGoesOn ==
  ASSUME AInv, LinesInv, PlacesInv, Trusted, PairSound, CallsInv, OrderSound, PlanOrder, [Next]_vars
  PROVE  OrderSound' /\ OrderKept
  <1>1. CASE transcriptLog' = transcriptLog
    BY <1>1, BeforeSame DEF PlanOrder, RestOrder, OrderKept
  <1>2. CASE transcriptLog' # transcriptLog
    <2> DEFINE w == Head(job.writes)
    <2>1. job.writes # <<>> /\ Leaves(w)
      BY <1>2, DiskStep DEF Same
    <2>2. w \in StoreCall
      BY <2>1, HeadTyped DEF AInv
    <2>3. w.op = "append"
      BY <1>2, <2>1, <2>2, LeavesShown DEF AInv, Types
    <2>4. w.recs \in Seq(Record)
      BY <2>1, HeadTyped DEF AInv
    <2>5. \E part : Prefix(part, w.recs) /\ Added(part)
      <3>1. Prefix(w.recs, w.recs)
        BY <2>4 DEF Prefix
      <3> QED
        BY <1>2, <2>1, <2>3, <3>1 DEF Leaves, Does, Same
    <2>6. PICK part : Prefix(part, w.recs) /\ Added(part)
      BY <2>5
    <2>7. part \in Seq(Record) /\ Longer(transcriptLog, transcriptLog', part)
      BY <2>6 DEF Prefix, Added
    <2>8. Store!TypeOK /\ PairPlan /\ OpenInv
      BY DEF AInv, Types, CallsInv
    <2>9. Fits(part) /\ InOrder(part)
      BY <2>1, <2>3, <2>6, <2>8, HeadFits, HeadInOrder
    <2>10. OrderSound'
      <3>1. PairSound'
        BY <2>7, <2>8, <2>9, PairGrows
      <3> QED
        BY <2>7, <2>8, <2>9, <3>1, OrderGrows
    <2>11. ASSUME NEW c, NEW d, Called(c), Called(d), Before(c, d) PROVE Before(c, d)'
      <3>1. \A k \in 1..Len(part) : part[k].kind = "tool_call" => part[k].call # c /\ part[k].call # d
        BY <2>9, <2>11 DEF Fits
      <3> QED
        BY <2>7, <2>8, <2>11, <3>1, BeforeKept
    <2>12. ASSUME NEW rest, rest = goroutine.rest
           PROVE  \A i, j \in 1..Len(rest) : i < j => Before(rest[i], rest[j])'
      <3>1. /\ job.writes \in Seq(StoreCall) /\ w = job.writes[1]
            /\ Len(job.writes) \in Nat /\ Len(job.writes) > 0 /\ 1 \in 1..Len(job.writes)
        BY <2>1, FirstOf DEF AInv, Types, JobType
      <3>2. /\ Len(part) \in Nat
            /\ \A k \in 1..Len(part) : k \in 1..Len(w.recs) /\ part[k] = w.recs[k]
        BY <2>4, <2>6 DEF Prefix
      <3>3. ASSUME \A k \in 1..Len(part) : part[k].kind # "tool_call"
            PROVE  \A i, j \in 1..Len(rest) : i < j => Before(rest[i], rest[j])'
        <4>1. \A i, j \in 1..Len(rest) : i < j => Before(rest[i], rest[j])
          BY <2>12 DEF PlanOrder, RestOrder
        <4> QED
          BY <2>7, <2>8, <3>3, <4>1, BeforeKept
      <3>4. CASE job.after = "reconciled"
        <4>1. goroutine.pc = "none"
          BY <2>1, <3>4, JobShape DEF AInv, IInv, ActiveInv, AfterLoad
        <4>2. rest = <<>>
          BY <2>12, <3>4, <4>1 DEF PlacesInv, RestInv
        <4> QED
          BY <4>2
      <3>5. CASE job.after \notin {"tool", "reconciled"}
        <4>1. \A k \in 1..Len(w.recs) : Neutral(w.recs[k])
          BY <2>3, <2>8, <3>1, <3>5 DEF PairPlan, AllNeutral, NoCalls
        <4> QED
          BY <3>2, <3>3, <4>1 DEF Neutral
      <3>6. CASE job.after = "tool" /\ CallsPlan(job.writes)
        <4>1. \A k \in 1..Len(part) : /\ k \in 1..Len(rest)
                                      /\ part[k].kind = "tool_call" /\ part[k].call = rest[k]
          BY <2>12, <3>1, <3>2, <3>6, RecordFields DEF CallsPlan
        <4>2. \A i \in 1..Len(rest) : ~ Called(rest[i])
          BY <2>12, <3>6 DEF CallsPlan
        <4>3. \A i, j \in 1..Len(rest) : rest[i] = rest[j] => i = j
          BY <2>12 DEF PlacesInv, RestInv
        <4> QED
          BY <2>7, <2>8, <4>1, <4>2, <4>3, CallsInOrder
      <3>7. CASE job.after = "tool" /\ ResultPlan(job.writes)
        <4>1. PICK id, outcome : RecordWrite(w, ToolResult(goroutine.run, id, outcome))
          BY <3>1, <3>7 DEF ResultPlan
        <4>2. Len(w.recs) = 1 /\ w.recs[1].kind = "tool_result"
          BY <4>1, RecordFields DEF RecordWrite
        <4>3. \A k \in 1..Len(part) : part[k].kind # "tool_call"
          BY <3>2, <4>2
        <4> QED
          BY <3>3, <4>3
      <3>8. ~ OwedPlan(job.writes)
        BY <2>3, <3>1 DEF OwedPlan
      <3> QED
        BY <2>8, <3>4, <3>5, <3>6, <3>7, <3>8 DEF PairPlan, ToolPlan
    <2> QED
      BY <2>10, <2>11, <2>12 DEF OrderKept
  <1> QED
    BY <1>1, <1>2

\* A step after which no job is about calls, and no call is to be finished that was
\* not to be finished before.
NoCallBegins ==
  /\ goroutine'.rest = <<>> \/ goroutine'.rest = goroutine.rest
  /\ job'.after \notin {"tool", "exec", "reconciled"}

LEMMA PlanFrame ==
  ASSUME OrderKept, NoCallBegins
  PROVE  PlanOrder'
  <1>1. RestOrder'
    <2>1. CASE goroutine'.rest = <<>>
      <3>1. Len(goroutine'.rest) = 0
        BY <2>1
      <3>2. 1..0 = {}
        OBVIOUS
      <3> QED
        BY <3>1, <3>2 DEF RestOrder
    <2>2. CASE goroutine'.rest = goroutine.rest
      BY <2>2 DEF RestOrder, OrderKept
    <2> QED
      BY <2>1, <2>2 DEF NoCallBegins
  <1> QED
    BY <1>1 DEF PlanOrder, ExecWrites, ResultOrder, RepairOrder, NoCallBegins

LEMMA PlainSteps ==
  ASSUME AInv, PlacesInv,
         \/ (\E cmd \in CommandIDs : Command(cmd)) \/ Shutdown
         \/ LoopTop \/ Sleep \/ WakeUp \/ ResponseError \/ CallsDone
         \/ ProviderFails \/ ProviderCancelled \/ ProviderAnswers
         \/ ReserveCall \/ ReserveAttempt \/ ReserveDelay
  PROVE  NoCallBegins
  <1>1. Types
    BY DEF AInv
  <1>2. CASE (\E cmd \in CommandIDs : Command(cmd)) \/ Shutdown
    <2>1. /\ goroutine' = goroutine
          /\ job'.after \in {"free", "started", "rejected", "done", "cancelled", "closed"}
      BY <1>2, CommandJobFacts, NoJobFacts
         DEF Command, Submit, SubmitSensitive, Cancel, Resume, Close, Shutdown, Begins, Takes, LockFree
    <2> QED
      BY <2>1 DEF NoCallBegins
  <1>3. CASE ProviderAnswers
    <2>1. LockFree
      BY <1>3 DEF ProviderAnswers
    <2>2. PICK a : Moves([Goto("answered") EXCEPT !.answer = a])
      BY <1>3 DEF ProviderAnswers
    <2>3. goroutine'.rest = goroutine.rest /\ job' = job
      BY <1>1, <2>2, LocalRest DEF Moves
    <2> QED
      BY <2>1, <2>3, PlaceOfJob DEF NoCallBegins
  <1>4. CASE \/ LoopTop \/ Sleep \/ WakeUp \/ ResponseError \/ CallsDone
             \/ ProviderFails \/ ProviderCancelled
             \/ ReserveCall \/ ReserveAttempt \/ ReserveDelay
    <2>1. Goes(goroutine') /\ job' = job
      <3>1. CASE ReserveCall \/ ReserveAttempt \/ ReserveDelay
        <4>1. Goes(goroutine')
          BY <1>1, <3>1, ReservationsGo
        <4>2. job' = job
          BY <3>1 DEF ReserveCall, ReserveAttempt, ReserveDelay, Reserve
        <4> QED
          BY <4>1, <4>2
      <3>2. CASE ~ (ReserveCall \/ ReserveAttempt \/ ReserveDelay)
        <4>1. PICK g : Moves(g) /\ Goes(g)
          BY <1>1, <1>4, <3>2, LocalStepsGo
        <4> QED
          BY <4>1 DEF Moves
      <3> QED
        BY <3>1, <3>2
    <2>2. \/ goroutine.pc \in {"loop", "sleep", "parked", "response_error",
                               "reserve_call", "reserve_attempt", "reserve_delay"}
          \/ LockFree
      BY <1>4 DEF LoopTop, Sleep, WakeUp, ResponseError, ReserveCall, ReserveAttempt, ReserveDelay,
         ProviderFails, ProviderCancelled, CallsDone, At
    <2>3. job.after \notin {"tool", "exec", "reconciled"}
      BY <2>2, PlaceOfJob DEF PlacesInv, JobPlaces, At
    <2> QED
      BY <2>1, <2>3 DEF NoCallBegins, Goes
  <1> QED
    BY <1>2, <1>3, <1>4

LEMMA PlainTakes ==
  ASSUME AInv, PlacesInv, StreamDelta \/ RetryStep \/ Answered \/ CheckResponse \/ FinishRun
  PROVE  NoCallBegins
  <1>1. LockFree
    <2>1. CheckResponse => LockFree
      BY DEF CheckResponse
    <2>2. FinishRun => LockFree
      BY DEF FinishRun
    <2> QED
      BY <2>1, <2>2 DEF StreamDelta, RetryStep, Answered
  <1>2. Types /\ job.after = "free"
    BY <1>1, PlaceOfJob DEF AInv
  <1>3. job' = job \/ job'.after \notin {"tool", "exec", "reconciled"}
    <2>1. CASE StreamDelta \/ RetryStep \/ Answered \/ CheckResponse
      <3>1. job' = job \/ \E writes : \E after \in {"attempt", "sleep", "check", "calls"} :
              job' = Job(writes, after)
        BY <2>1 DEF StreamDelta, RetryStep, Answered, CheckResponse, Begins, Moves
      <3> QED
        BY <3>1, JobFacts
    <2>2. CASE FinishRun
      BY <2>2, FinishNeutral
    <2> QED
      BY <2>1, <2>2
  <1>4. \/ goroutine' = goroutine
        \/ \E b : goroutine' = [goroutine EXCEPT !.streamed = b]
        \/ \E pc : goroutine' = Goto(pc)
        \/ \E outcome, cause : goroutine' = Ending(outcome, cause)
    BY DEF StreamDelta, RetryStep, Answered, CheckResponse, FinishRun, Moves
  <1>5. goroutine'.rest = <<>> \/ goroutine'.rest = goroutine.rest
    <2>1. ASSUME NEW b, goroutine' = [goroutine EXCEPT !.streamed = b]
          PROVE  goroutine'.rest = goroutine.rest
      BY <1>2, <2>1, LocalRest
    <2>2. ASSUME NEW pc, goroutine' = Goto(pc) PROVE goroutine'.rest = goroutine.rest
      BY <1>2, <2>2, LocalRest
    <2>3. ASSUME NEW outcome, NEW cause, goroutine' = Ending(outcome, cause)
          PROVE  goroutine'.rest = <<>>
      BY <1>2, <2>3, LocalRest
    <2> QED
      BY <1>4, <2>1, <2>2, <2>3
  <1> QED
    BY <1>2, <1>3, <1>5 DEF NoCallBegins

LEMMA PlainEnds ==
  ASSUME AInv, PlacesInv,
         \/ CommandDone \/ Settle \/ GoroutineGoesOn \/ FaultRun
         \/ ProcessDies \/ Loaded \/ LoadRefused
  PROVE  NoCallBegins
  <1>1. job' = NoJob
    BY DEF CommandDone, Settle, GoroutineGoesOn, FaultRun, Fault, Finishes, ProcessDies, Loaded,
       LoadRefused, Forgets
  <1>2. Types
    BY DEF AInv
  <1>3. \/ goroutine' = goroutine
        \/ goroutine' = NoGoroutine
        \/ goroutine' = [NoGoroutine EXCEPT !.pc = "loop", !.run = manifest.active]
        \/ \E pc : goroutine' = Goto(pc)
    BY DEF CommandDone, Settle, GoroutineGoesOn, FaultRun, Fault, ProcessDies, Loaded, LoadRefused, Forgets
  <1>4. goroutine'.rest = <<>> \/ goroutine'.rest = goroutine.rest
    <2>1. CASE goroutine' = NoGoroutine
      BY <1>2, <2>1, LocalRest
    <2>2. CASE goroutine' = [NoGoroutine EXCEPT !.pc = "loop", !.run = manifest.active]
      BY <2>2 DEF NoGoroutine
    <2>3. ASSUME NEW pc, goroutine' = Goto(pc) PROVE goroutine'.rest = goroutine.rest
      BY <1>2, <2>3, LocalRest
    <2> QED
      BY <1>3, <2>1, <2>2, <2>3
  <1> QED
    BY <1>1, <1>4, NoJobFacts DEF NoCallBegins

LEMMA PlainErrors ==
  ASSUME AInv, job.writes # <<>>, HandleError(Head(job.writes).onError)
  PROVE  NoCallBegins
  <1>1. job'.after \in {"free", "refused"}
    <2>1. job' = NoJob \/ job' = Job(<<>>, "refused")
      BY DEF HandleError, Fault
    <2> QED
      BY <2>1, NoJobFacts, JobFacts
  <1>2. goroutine'.rest = <<>> \/ goroutine'.rest = goroutine.rest
    <2>1. Types
      BY DEF AInv
    <2>2. \/ goroutine' = goroutine
          \/ goroutine' = NoGoroutine
          \/ goroutine' = Goto("faulting")
          \/ goroutine' = Ending("failed", "engine_invariant")
          \/ goroutine' = Erring("engine_invariant")
      BY DEF HandleError, Fault
    <2> QED
      BY <2>1, <2>2, LocalRest
  <1> QED
    BY <1>1, <1>2 DEF NoCallBegins

\* A tool is started: no record is written.
LEMMA StartsInOrder ==
  ASSUME AInv, OrderKept, NextTool, ~ \E outcome : FinishesTool(outcome)
  PROVE  PlanOrder'
  <1>1. /\ job' = Job(<<EmitW(Ev("tool_started", goroutine.run), "fault")>>, "exec")
        /\ goroutine' = goroutine
    BY DEF NextTool, Begins
  <1>2. job'.after = "exec" /\ job'.writes = <<EmitW(Ev("tool_started", goroutine.run), "fault")>>
    BY <1>1, JobFacts
  <1>3. \A i \in 1..Len(job'.writes) : job'.writes[i].op # "append"
    <2>1. EmitW(Ev("tool_started", goroutine.run), "fault").op = "emit"
      BY WriteFields, FieldsOfWrites
    <2> QED
      BY <1>2, <2>1, OneOf
  <1>4. RestOrder'
    BY <1>1 DEF RestOrder, OrderKept
  <1> QED
    BY <1>2, <1>3, <1>4 DEF PlanOrder, ExecWrites, ResultOrder, RepairOrder

\* The calls of an answer are about to be written: none of them is in the log.
LEMMA RecordsInOrder ==
  ASSUME AInv, PlacesInv, CallsInv, OrderKept, RecordCalls
  PROVE  PlanOrder'
  <1>1. goroutine.pc = "calls" /\ LockFree
    BY DEF RecordCalls, At
  <1>2. Types /\ job.after = "free"
    BY <1>1, PlaceOfJob DEF AInv
  <1>3. CASE \E outcome, cause : Moves(Ending(outcome, cause))
    <2>1. PICK outcome, cause : Moves(Ending(outcome, cause))
      BY <1>3
    <2>2. goroutine'.rest = <<>> /\ job' = job
      BY <1>2, <2>1, LocalRest DEF Moves
    <2> QED
      BY <1>2, <2>2, PlanFrame DEF NoCallBegins
  <1>4. CASE ~ \E outcome, cause : Moves(Ending(outcome, cause))
    <2>1. PICK w : /\ Begins(Job(<<w>>, "tool"))
                   /\ goroutine' = [goroutine EXCEPT !.rest = goroutine.answer.calls, !.answer = NoAnswer,
                                      !.streamed = FALSE, !.stopped = FALSE, !.blocked = FALSE]
      BY <1>4 DEF RecordCalls
    <2>2. goroutine'.rest = goroutine.answer.calls
      BY <1>2, <2>1, LocalFields
    <2>3. job'.after = "tool" /\ job'.writes = <<w>> /\ transcriptLog' = transcriptLog
      BY <2>1, JobFacts DEF Begins, storeVars
    <2>4. Len(job'.writes) = 1
      BY <2>3
    <2>5. \A i \in 1..Len(goroutine'.rest) : ~ Called(goroutine'.rest[i])
      BY <1>1, <1>2, <2>2 DEF CallsInv, FreshInv
    <2>6. \A rest : (\A i \in 1..Len(rest) : ~ Called(rest[i])) =>
            \A i, j \in 1..Len(rest) : i < j => Before(rest[i], rest[j])'
      BY <2>3 DEF Called, Before
    <2>7. RestOrder'
      BY <2>5, <2>6 DEF RestOrder
    <2> QED
      BY <2>3, <2>4, <2>7 DEF PlanOrder, ExecWrites, ResultOrder, RepairOrder
  <1> QED
    BY <1>3, <1>4

\* The result of the first call that is left is about to be written.
LEMMA FinishesInOrder ==
  ASSUME AInv, OrderKept, NEW outcome, FinishesTool(outcome), goroutine.rest # <<>>
  PROVE  PlanOrder'
  <1>0. PICK id : id = Head(goroutine.rest)
    OBVIOUS
  <1> DEFINE first == AppendW(<<ToolResult(goroutine.run, id, outcome)>>, "fault_run")
             last == EmitW(Ev("tool_finished", goroutine.run), "fault_run")
  <1>1. Types
    BY DEF AInv
  <1>2. Begins(Job(<<first, last>>, "tool"))
    BY <1>0 DEF FinishesTool
  <1>3. goroutine'.rest = Tail(goroutine.rest)
    BY <1>1, LocalFields DEF FinishesTool
  <1>4. job'.after = "tool" /\ job'.writes = <<first, last>>
    BY <1>2, JobFacts DEF Begins
  <1>5. first.recs[1].call = id
    <2>1. first.recs = <<ToolResult(goroutine.run, id, outcome)>>
      BY FieldsOfWrites
    <2> HIDE DEF first
    <2> QED
      BY <2>1, OneOf, RecordFields
  <1>6. job'.writes[1].recs[1].call = id
    <2> HIDE DEF first, last
    <2> QED
      BY <1>4, <1>5, TwoOf
  <1>7. /\ Len(goroutine.rest) \in Nat /\ Len(goroutine.rest) > 0 /\ id = goroutine.rest[1]
        /\ Len(goroutine'.rest) = Len(goroutine.rest) - 1
        /\ \A i \in 1..(Len(goroutine.rest) - 1) : goroutine'.rest[i] = goroutine.rest[i + 1]
    BY <1>0, <1>1, <1>3, RestOfRest
  <1> HIDE DEF first, last
  <1>8. PICK rest : rest = goroutine.rest
    OBVIOUS
  <1>9. \A i, j \in 1..Len(rest) : i < j => Before(rest[i], rest[j])'
    BY <1>8 DEF OrderKept
  <1>10. \A i \in 1..Len(goroutine'.rest) :
           i + 1 \in 1..Len(rest) /\ goroutine'.rest[i] = rest[i + 1] /\ 1 < i + 1
    BY <1>7, <1>8
  <1>11. RestOrder'
    <2>1. ASSUME NEW i \in 1..Len(goroutine'.rest), NEW j \in 1..Len(goroutine'.rest), i < j
          PROVE  Before(rest[i + 1], rest[j + 1])'
      <3>1. i + 1 < j + 1
        BY <2>1
      <3> QED
        BY <1>9, <1>10, <3>1
    <2> QED
      BY <1>10, <2>1 DEF RestOrder
  <1>12. \A j \in 1..Len(goroutine'.rest) : Before(rest[1], rest[j + 1])'
    <2>1. 1 \in 1..Len(rest)
      BY <1>7, <1>8
    <2> QED
      BY <1>9, <1>10, <2>1
  <1>13. ResultOrder'
    BY <1>6, <1>7, <1>8, <1>10, <1>12 DEF ResultOrder
  <1> QED
    BY <1>4, <1>11, <1>13 DEF PlanOrder, ExecWrites, RepairOrder

\* A write is made, and the next ones are in the same order.
LEMMA WriteInOrder ==
  ASSUME AInv, CallsInv, PlanOrder, OrderKept, WriteSucceeds
  PROVE  PlanOrder'
  <1>1. job.writes \in Seq(StoreCall)
    BY DEF AInv, Types, JobType
  <1>2. /\ job.writes # <<>> /\ job'.writes = Tail(job.writes) /\ job'.after = job.after
        /\ goroutine' = goroutine
    BY HeadWritten
  <1>3. /\ Len(job.writes) \in Nat /\ Len(job'.writes) = Len(job.writes) - 1
        /\ \A i \in 1..(Len(job.writes) - 1) : job'.writes[i] = job.writes[i + 1]
        /\ \A i \in 1..(Len(job.writes) - 1) : i + 1 \in 1..Len(job.writes)
    BY <1>1, <1>2, FirstOf
  <1>4. RestOrder'
    BY <1>2 DEF RestOrder, OrderKept
  <1>5. ExecWrites'
    BY <1>2, <1>3 DEF PlanOrder, ExecWrites
  <1>6. ResultOrder'
    <2> SUFFICES ASSUME job.after = "tool", Len(job'.writes) = 2, job'.writes[1].op = "append"
                 PROVE  FALSE
      BY <1>2 DEF ResultOrder
    <2>1. Len(job.writes) = 3 /\ job'.writes[1] = job.writes[2] /\ 2 \in 1..3
      <3>1. Len(job.writes) = 3
        <4>1. \A n \in Nat : n - 1 = 2 => n = 3
          OBVIOUS
        <4> QED
          BY <1>3, <4>1
      <3>2. 1 \in 1..2 /\ 1 + 1 = 2 /\ 2 \in 1..3
        OBVIOUS
      <3> QED
        BY <1>3, <3>1, <3>2
    <2>2. ~ CallsPlan(job.writes) /\ ~ ResultPlan(job.writes)
      BY <2>1 DEF CallsPlan, ResultPlan
    <2>3. OwedPlan(job.writes)
      BY <2>2 DEF CallsInv, PairPlan, ToolPlan
    <2> QED
      BY <2>1, <2>3 DEF OwedPlan
  <1>7. RepairOrder'
    <2> SUFFICES ASSUME job.after = "reconciled", Open(manifestFile.active)',
                        NEW i \in 1..(Len(job'.writes) - 3), NEW j \in 1..(Len(job'.writes) - 3), i < j
                 PROVE  Before(job.writes[i].recs[1].call, job.writes[j].recs[1].call)'
      BY <1>2 DEF RepairOrder
    <2>1. Open(manifestFile.active) /\ Len(job.writes) > 3
      BY RepairHead
    <2>2. PICK m : m = Len(job.writes) - 3
      OBVIOUS
    <2>3. i + 1 \in 1..m /\ j + 1 \in 1..m /\ i + 1 < j + 1
      BY <1>3, <2>2
    <2>4. job'.writes[i] = job.writes[i + 1] /\ job'.writes[j] = job.writes[j + 1]
      <3>1. i \in 1..(Len(job.writes) - 1) /\ j \in 1..(Len(job.writes) - 1)
        BY <1>3
      <3> QED
        BY <1>3, <3>1
    <2>5. RepairOf(job.writes, m)
      BY <2>1, <2>2 DEF CallsInv, PairPlan, RepairPlan
    <2>6. \A k \in 1..m : Called(job.writes[k].recs[1].call)
      <3> SUFFICES ASSUME NEW k \in 1..m PROVE Called(job.writes[k].recs[1].call)
        OBVIOUS
      <3>1. PICK id : /\ OpenCall(id)
                      /\ RecordWrite(job.writes[k], ToolResult(manifestFile.active, id, "interrupted"))
        BY <2>5 DEF RepairOf
      <3>2. job.writes[k].recs[1].call = id
        BY <3>1, RecordFields DEF RecordWrite
      <3> QED
        BY <3>1, <3>2 DEF OpenCall
    <2>7. Before(job.writes[i + 1].recs[1].call, job.writes[j + 1].recs[1].call)
      BY <2>1, <2>2, <2>3 DEF PlanOrder, RepairOrder
    <2>8. PICK c, d : c = job.writes[i + 1].recs[1].call /\ d = job.writes[j + 1].recs[1].call
      OBVIOUS
    <2>9. Before(c, d)'
      BY <2>3, <2>6, <2>7, <2>8 DEF OrderKept
    <2>10. c = job'.writes[i].recs[1].call /\ d = job'.writes[j].recs[1].call
      BY <2>4, <2>8
    <2> QED
      BY <2>9, <2>10 DEF Before
  <1> QED
    BY <1>4, <1>5, <1>6, <1>7 DEF PlanOrder

\* The results that a load adds are in the order in which their calls are in the log.
LEMMA ReconcileOrder ==
  ASSUME AInv, ValidateRecords(transcriptLog), PairSound, NEW run \in Nat, Open(run)
  PROVE  LET W == ReconcileWrites(run)
         IN  \A i, j \in 1..(Len(W) - 3) : i < j => Before(W[i].recs[1].call, W[j].recs[1].call)
  <1>1. transcriptLog \in Seq(Entry)
    BY StoreSets DEF AInv, Types, Store!TypeOK
  <1>2. PICK W, m, k : W = ReconcileWrites(run) /\ m = OpenToolCalls(transcriptLog) /\ k = Len(m)
    OBVIOUS
  <1>3. Len(W) - 3 = k /\ \A i \in 1..k : W[i].recs[1].call = m[i].rec.call
    BY <1>2, ReconcileResults
  <1>4. Listed(transcriptLog, Len(transcriptLog), m)
    BY <1>1, <1>2, OpenCallsListed DEF PairSound
  <1>5. \A i, j \in 1..k : i < j => Before(m[i].rec.call, m[j].rec.call)
    <2> SUFFICES ASSUME NEW i \in 1..k, NEW j \in 1..k, i < j,
                        NEW g \in 1..Len(transcriptLog), NEW h \in 1..Len(transcriptLog),
                        CallAt(transcriptLog, g), transcriptLog[g].rec.call = m[i].rec.call,
                        CallAt(transcriptLog, h), transcriptLog[h].rec.call = m[j].rec.call
                 PROVE  g < h
      BY DEF Before
    <2>1. OpenAt(transcriptLog, g) /\ OpenAt(transcriptLog, h)
      <3>1. \A n \in 1..k : m[n].rec.call \notin ToolPairs(transcriptLog).results
        BY <1>2, <1>4 DEF Listed, OpenAt
      <3> QED
        BY <3>1 DEF OpenAt
    <2> QED
      BY <1>2, <1>4, <2>1 DEF Listed
  <1>6. \A i, j \in 1..(Len(W) - 3) : i < j => Before(W[i].recs[1].call, W[j].recs[1].call)
    BY <1>3, <1>5
  <1> QED
    BY <1>2, <1>6

LEMMA LoadInOrder ==
  ASSUME AInv, PlacesInv, Load, OrderKept
  PROVE  PlanOrder'
  <1>1. UNCHANGED <<transcriptLog, eventLog, manifestFile>> /\ ValidateRecords(transcriptLog)
    BY StoreScan DEF Load, Store!Open, Store!Openable, Store!disk
  <1>2. transcriptLog \in Seq(Entry)
    BY StoreSets DEF AInv, Types, Store!TypeOK
  <1>3. PairSound
    BY <1>1, <1>2, ScanFacts DEF ValidateRecords, PairSound
  <1>4. goroutine' = goroutine
    BY DEF Load
  <1>5. PICK run \in Nat : run = manifestFile.active
    BY OutcomeFacts DEF AInv
  <1>6. job' = Job((IF run = NoRun THEN <<>> ELSE ReconcileWrites(run)) \o CloseWrites,
                   IF run = NoRun THEN "loaded" ELSE "reconciled")
    BY <1>5 DEF Load
  <1>7. CASE run = NoRun
    <2>1. job'.after = "loaded"
      BY <1>6, <1>7, JobFacts
    <2> QED
      BY <1>4, <2>1, PlanFrame DEF NoCallBegins
  <1>8. CASE run # NoRun
    <2>1. PICK W \in Seq(StoreCall) : W = ReconcileWrites(run)
      BY <1>1, <1>2, ReconcileTyped
    <2>2. CloseWrites = <<>>
      <3>1. ~ FactThere
        BY <1>5, <1>8 DEF AInv, CInv, DiskInv, CloseInv
      <3> QED
        BY <3>1, CloseFound DEF CloseWrites
    <2>3. W \o <<>> = W
      OBVIOUS
    <2>4. job'.writes = W /\ job'.after = "reconciled"
      BY <1>6, <1>8, <2>1, <2>2, <2>3, JobFacts
    <2>5. Open(manifestFile.active)' => Open(run)
      BY <1>1, <1>5 DEF Open, Ended, EndsAt, Told, TellsAt
    <2>6. Open(run) => \A i, j \in 1..(Len(W) - 3) :
            i < j => Before(W[i].recs[1].call, W[j].recs[1].call)
      BY <1>1, <1>3, <2>1, ReconcileOrder
    <2>7. \A c, d : Before(c, d) => Before(c, d)'
      BY <1>1, BeforeSame
    <2>8. RepairOrder'
      <3> SUFFICES ASSUME Open(manifestFile.active)',
                          NEW i \in 1..(Len(job'.writes) - 3), NEW j \in 1..(Len(job'.writes) - 3), i < j
                   PROVE  Before(job.writes[i].recs[1].call, job.writes[j].recs[1].call)'
        BY DEF RepairOrder
      <3>1. PICK c, d : c = W[i].recs[1].call /\ d = W[j].recs[1].call
        OBVIOUS
      <3>2. Before(c, d)'
        BY <2>4, <2>5, <2>6, <2>7, <3>1
      <3> QED
        BY <2>4, <3>1, <3>2 DEF Before
    <2>9. RestOrder'
      BY <1>4 DEF RestOrder, OrderKept
    <2> QED
      BY <2>4, <2>8, <2>9 DEF PlanOrder, ExecWrites, ResultOrder
  <1> QED
    BY <1>7, <1>8

LEMMA StillInOrder ==
  ASSUME PlanOrder, UNCHANGED vars
  PROVE  PlanOrder'
  <1>1. UNCHANGED <<transcriptLog, eventLog, manifestFile, job, goroutine>>
    BY DEF vars, storeVars, memory
  <1>2. Open(manifestFile.active)' <=> Open(manifestFile.active)
    BY <1>1 DEF Open, Ended, EndsAt, Told, TellsAt
  <1> QED
    BY <1>1, <1>2 DEF PlanOrder, RestOrder, ExecWrites, ResultOrder, RepairOrder, Before

LEMMA PlanNext ==
  ASSUME AInv, PlacesInv, CallsInv, PlanOrder, OrderKept, [Next]_vars
  PROVE  PlanOrder'
  <1>1. NoCallBegins => PlanOrder'
    BY PlanFrame
  <1>2. CASE WriteFails \/ EventRefused
    BY <1>1, <1>2, PlainErrors DEF WriteFails, EventRefused
  <1>3. CASE ModelCall \/ Provider
    BY <1>1, <1>3, PlainSteps, PlainTakes DEF ModelCall, Provider
  <1>4. CASE NextTool \/ ExecuteTool
    <2>1. goroutine.rest # <<>>
      <3>1. CASE NextTool
        BY <3>1 DEF NextTool
      <3>2. CASE ExecuteTool
        BY <3>2, NoJobFacts DEF AInv, Types, PlaceInv, ExecuteTool, LockFree
      <3> QED
        BY <1>4, <3>1, <3>2
    <2>2. CASE \E outcome : FinishesTool(outcome)
      BY <2>1, <2>2, FinishesInOrder
    <2>3. CASE ~ \E outcome : FinishesTool(outcome)
      <3>1. NextTool
        BY <1>4, <2>3 DEF ExecuteTool
      <3> QED
        BY <2>3, <3>1, StartsInOrder
    <2> QED
      BY <2>2, <2>3
  <1>5. CASE ToolCalls
    BY <1>1, <1>4, <1>5, RecordsInOrder, PlainSteps, PlainTakes, PlainEnds DEF ToolCalls
  <1>6. CASE WriteSucceeds \/ CommandDone \/ Settle \/ GoroutineGoesOn
    BY <1>1, <1>6, WriteInOrder, PlainEnds
  <1>7. CASE (\E cmd \in CommandIDs : Command(cmd)) \/ Shutdown
    BY <1>1, <1>7, PlainSteps
  <1>8. CASE ProcessDies \/ NewSessionEnds \/ Load
    BY <1>1, <1>8, PlainEnds, LoadInOrder DEF NewSessionEnds
  <1>9. CASE UNCHANGED vars
    BY <1>9, StillInOrder
  <1> QED
    BY <1>2, <1>3, <1>5, <1>6, <1>7, <1>8, <1>9 DEF Next, HoldsLock

LEMMA OrderNext ==
  ASSUME AInv, LogInv, PlacesInv, PairInv, OrderInv, [Next]_vars
  PROVE  OrderInv'
  <1> SUFFICES ASSUME tolerated' = "none" PROVE OrderSound' /\ PlanOrder'
    BY DEF OrderInv
  <1>1. tolerated = "none"
    BY ToleratedStep DEF TolerationStep
  <1>2. Trusted /\ OrderSound /\ PlanOrder
    BY <1>1 DEF Trusted, OrderInv
  <1>3. LinesInv /\ PairSound /\ CallsInv
    BY <1>2 DEF LogInv, PairInv
  <1> QED
    BY <1>2, <1>3, OrderGoesOn, PlanNext

LEMMA FirstOrder == Init => OrderInv
  <1> SUFFICES ASSUME Init PROVE OrderInv
    OBVIOUS
  <1>1. transcriptLog = <<>> /\ Len(transcriptLog) = 0
    BY DEF Init, Store!Init
  <1>2. job.writes = <<>> /\ job.after = "free"
    BY NoJobFacts DEF Init
  <1>3. goroutine.rest = <<>> /\ Len(goroutine.rest) = 0
    BY DEF Init, NoGoroutine
  <1>4. OrderSound
    BY <1>1 DEF OrderSound, OrderedUpTo
  <1>5. PlanOrder
    BY <1>2, <1>3 DEF PlanOrder, RestOrder, ExecWrites, ResultOrder, RepairOrder
  <1> QED
    BY <1>4, <1>5 DEF OrderInv

\* As long as no failed append was tolerated, nothing but calls and their results
\* stands between the calls of an answer and the last of the results, and each result
\* is written when the calls before it have theirs, whether the tools ran, were
\* skipped or blocked, or the process died in between (run session.go:630-700,
\* reconcileInterrupted session.go:1055); as long as the provider does not reuse the
\* ID of a call.
THEOREM SessionOrderInvariant ==
  Spec => [](AInv /\ LogInv /\ PlacesInv /\ (FreshCallIDs => PairInv /\ OrderInv))
  <1>1. Init => OrderInv
    BY FirstOrder
  <1>2. AInv /\ LogInv /\ PlacesInv /\ (FreshCallIDs => PairInv) /\ (FreshCallIDs => OrderInv) /\ [Next]_vars
          => (FreshCallIDs => OrderInv)'
    <2> SUFFICES ASSUME AInv, LogInv, PlacesInv, FreshCallIDs => PairInv, FreshCallIDs => OrderInv,
                        [Next]_vars
                 PROVE  FreshCallIDs => OrderInv'
      OBVIOUS
    <2> QED
      BY OrderNext
  <1>3. Init => (FreshCallIDs => OrderInv)
    BY <1>1
  <1>4. (FreshCallIDs => PairInv) /\ (FreshCallIDs => OrderInv)
          <=> (FreshCallIDs => PairInv /\ OrderInv)
    OBVIOUS
  <1> QED
    BY <1>2, <1>3, <1>4, SessionPairInvariant, PTL DEF Spec

\* What a request is made of: every batch of tool calls in the context is followed by
\* the results of exactly these calls in their order, whatever was skipped, blocked,
\* cancelled or interrupted before (recordsToMessages assembler.go:92, run
\* session.go:572); unless a failed append was tolerated or the provider reuses the
\* ID of a call.
THEOREM SessionContextIsPaired == Spec => [](FreshCallIDs => ContextIsPaired)
  <1>1. ASSUME AInv, LogInv, PlacesInv, FreshCallIDs => PairInv /\ OrderInv, MemoryInv,
               FreshCallIDs => ContextLoads
        PROVE  FreshCallIDs => ContextIsPaired
    <2> SUFFICES ASSUME FreshCallIDs, At("attempt"), tolerated = "none"
                 PROVE  CallsAnswered(RecordsToMessages(records))
      BY <1>1 DEF ContextIsPaired
    <2>1. state = "running" /\ goroutine.pc = "attempt"
      BY <1>1 DEF AInv, IInv, ActiveInv, At
    <2>2. job.after \notin {"tool", "settle", "refused"}
      BY <1>1, <2>1 DEF PlacesInv, JobPlaces, AInv, IInv, JobInv, Types, PlaceInv, AfterRun, AfterLoad, At
    <2>3. records = transcriptLog
      BY <1>1, <2>1, <2>2 DEF MemoryInv, MemInv, Current
    <2>4. goroutine.rest = <<>>
      BY <1>1, <2>1, <2>2 DEF PlacesInv, RestInv
    <2>5. Trusted
      BY DEF Trusted
    <2>6. PairSound /\ CallsInv /\ OrderSound
      BY <1>1, <2>5 DEF PairInv, OrderInv
    <2>7. \A c : ~ Owed(c)
      BY <2>4 DEF Owed
    <2>8. NoneOpen
      BY <2>1, <2>2, <2>6, <2>7 DEF CallsInv, OpenInv, Usable, NoneOpen
    <2>9. transcriptLog \in Seq(Entry) /\ Len(transcriptLog) \in Nat
      BY <1>1, StoreSets DEF AInv, Types, Store!TypeOK
    <2>10. AnsweredBefore(transcriptLog, Len(transcriptLog) + 1)
      <3>1. (Len(transcriptLog) + 1) - 1 = Len(transcriptLog)
        BY <2>9
      <3> QED
        BY <2>8, <3>1, NoneOpenAnswered DEF AnsweredBefore
    <2> QED
      BY <2>3, <2>6, <2>9, <2>10, MessagesAnswerCalls DEF PairSound, OrderSound
  <1>2. AInv /\ LogInv /\ PlacesInv /\ (FreshCallIDs => PairInv /\ OrderInv) /\ MemoryInv
          /\ (FreshCallIDs => ContextLoads)
          => (FreshCallIDs => ContextIsPaired)
    BY <1>1
  <1> QED
    BY <1>2, SessionOrderInvariant, SessionMemoryInvariant, SessionContextLoads, PTL
=============================================================================
