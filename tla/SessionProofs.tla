--------------------------- MODULE SessionProofs ---------------------------
(***************************************************************************)
(* Three guarantees of Session for every value of the constants: a command *)
(* that was acknowledged is on disk, after an incomplete append the engine *)
(* writes to neither log again except where it tolerates the failure, and  *)
(* a cancelled run starts at most one more transport attempt.  And the     *)
(* types of its variables, of the writes of a job and of the locals of the *)
(* goroutine, in every state it reaches.  Then what is on the disk, and    *)
(* what the command line is told.                                          *)
(***************************************************************************)
EXTENDS Frontend, TranscriptProofs

(***************************************************************************)
(* The inductive invariant.  Of the records it says only which fields they *)
(* have: what is in a log does not matter here.                            *)
(***************************************************************************)
Shapes ==
  /\ "seen" \in DOMAIN manifest /\ "seen" \in DOMAIN manifestFile
  /\ DOMAIN job = {"command", "writes", "after"}
  /\ "pc" \in DOMAIN goroutine

\* The handle knows every command the file knows, the file every acknowledged.
SeenInv ==
  /\ opened => manifestFile.seen \subseteq manifest.seen
  /\ acked \subseteq manifestFile.seen

\* The command of a job is consumed, or its first write will do that.
CommandInv ==
  /\ \A c, d \in job.command : c = d
  /\ job.command \subseteq manifestFile.seen
       \/ (job.writes # <<>> /\ Head(job.writes).op \in {"begin", "record"})

\* A sequence of writes with these ways to fail.
Fail(S, errors) ==
  \A w \in S : w.onError \in errors /\ (w.onError = "return" => w.op = "record")
WritesOf(writes, errors) == \E S : writes \in Seq(S) /\ Fail(S, errors)

OfCommand == {"fault", "return"}
OfRun == {"fault", "fault_run", "fail_run", "fail_stream"}
AfterRun == {"attempt", "sleep", "check", "calls", "tool", "exec", "settle"}
AfterLoad == {"loaded", "reconciled", "refused"}

\* Who holds the mutex in which state, and how its writes may fail.
JobInv ==
  \/ job.after = "free" /\ job.writes = <<>> /\ job.command = {} /\ state # "starting"
  \/ /\ job.after \in {"started", "rejected", "done"} /\ state = "idle"
     /\ WritesOf(job.writes, OfCommand)
  \/ /\ job.after = "closed" /\ state \in {"idle", "closed"}
     /\ WritesOf(job.writes, OfCommand)
  \/ /\ job.after = "cancelled" /\ state \in {"idle", "running", "closed"}
     /\ job.writes \in {<<>>, <<Write("record", "return")>>}
  \/ /\ job.after \in AfterRun /\ state = "running" /\ job.command = {}
     /\ WritesOf(job.writes, OfRun)
  \/ job.after \in AfterLoad /\ state = "starting" /\ job.command = {}

ActiveInv == state = "running" <=> goroutine.pc # "none"

\* Whoever made an append that did not complete writes nothing more to a log:
\* the session is faulted, or will be as soon as the mutex is free, or is not
\* loaded.
FailedInv ==
  failed /\ tolerated # "incomplete" =>
    \/ state = "faulted" /\ job.after = "free"
    \/ goroutine.pc = "faulting" /\ job.after \in {"free", "cancelled"}
    \/ state = "starting" /\ job.after = "refused" /\ job.writes = <<>>

IInv == Shapes /\ SeenInv /\ CommandInv /\ JobInv /\ ActiveInv /\ FailedInv

\* What a step establishes: the invariant and the action property.
FailClosedStep ==
  failed /\ tolerated # "incomplete" /\ opened' => UNCHANGED <<transcriptLog, eventLog>>

Good == IInv' /\ FailClosedStep
-----------------------------------------------------------------------------
(***************************************************************************)
(* Sequences of writes.                                                    *)
(***************************************************************************)
LEMMA WritesHead ==
  ASSUME NEW writes, NEW errors, WritesOf(writes, errors), writes # <<>>
  PROVE  /\ Head(writes).onError \in errors
         /\ Head(writes).onError = "return" => Head(writes).op = "record"
         /\ WritesOf(Tail(writes), errors)
  <1>1. PICK S : writes \in Seq(S) /\ Fail(S, errors)
    BY Zenon DEF WritesOf
  <1>2. Head(writes) \in S /\ Tail(writes) \in Seq(S)
    BY <1>1, HeadTailProperties
  <1>3. Head(writes).onError \in errors /\ (Head(writes).onError = "return" => Head(writes).op = "record")
    BY <1>1, <1>2 DEF Fail
  <1>4. WritesOf(Tail(writes), errors)
    BY <1>1, <1>2, Zenon DEF WritesOf
  <1> QED
    BY <1>3, <1>4

LEMMA WritesSome ==
  ASSUME NEW errors, NEW W, Fail(W, errors)
  PROVE  /\ \A a \in W : WritesOf(<<a>>, errors)
         /\ \A a, b \in W : WritesOf(<<a, b>>, errors)
         /\ \A a, b, c \in W : WritesOf(<<a, b, c>>, errors)
  <1>1. ASSUME NEW a \in W PROVE WritesOf(<<a>>, errors)
    <2>1. <<a>> \in Seq(W)
      OBVIOUS
    <2> QED
      BY <2>1, Zenon DEF WritesOf
  <1>2. ASSUME NEW a \in W, NEW b \in W PROVE WritesOf(<<a, b>>, errors)
    <2>1. <<a, b>> \in Seq(W)
      OBVIOUS
    <2> QED
      BY <2>1, Zenon DEF WritesOf
  <1>3. ASSUME NEW a \in W, NEW b \in W, NEW c \in W PROVE WritesOf(<<a, b, c>>, errors)
    <2>1. <<a, b, c>> \in Seq(W)
      OBVIOUS
    <2> QED
      BY <2>1, Zenon DEF WritesOf
  <1> QED
    BY <1>1, <1>2, <1>3

LEMMA WritesNone == ASSUME NEW errors PROVE WritesOf(<<>>, errors)
  <1>1. <<>> \in Seq({})
    OBVIOUS
  <1>2. Fail({}, errors)
    BY DEF Fail
  <1> QED
    BY <1>1, <1>2, Zenon DEF WritesOf

LEMMA WritesJoin ==
  ASSUME NEW errors, NEW p, NEW q, WritesOf(p, errors), WritesOf(q, errors)
  PROVE  WritesOf(p \o q, errors)
  <1>1. PICK S : p \in Seq(S) /\ Fail(S, errors)
    BY Zenon DEF WritesOf
  <1>2. PICK T : q \in Seq(T) /\ Fail(T, errors)
    BY Zenon DEF WritesOf
  <1>3. p \in Seq(S \cup T) /\ q \in Seq(S \cup T)
    BY <1>1, <1>2, SeqMonotonic
  <1>4. p \o q \in Seq(S \cup T)
    BY <1>3, ConcatProperties
  <1>5. Fail(S \cup T, errors)
    BY <1>1, <1>2 DEF Fail
  <1> QED
    BY <1>4, <1>5, Zenon DEF WritesOf

\* The writes of the model: what they do and how they may fail.
LEMMA WriteFields ==
  /\ \A op, e : Write(op, e).op = op /\ Write(op, e).onError = e
  /\ \A recs, e : AppendW(recs, e).op = "append" /\ AppendW(recs, e).onError = e
  /\ \A ev, e : EmitW(ev, e).op = "emit" /\ EmitW(ev, e).onError = e
  /\ \A ev, e : PersistW(ev, e).op = "persist" /\ PersistW(ev, e).onError = e
  BY DEF Write, AppendW, EmitW, PersistW

LEMMA HeadOfJoin ==
  ASSUME NEW errors, NEW p, NEW q, WritesOf(p, errors), WritesOf(q, errors), p # <<>>
  PROVE  p \o q # <<>> /\ Head(p \o q) = Head(p)
  <1>1. PICK S : p \in Seq(S)
    BY Zenon DEF WritesOf
  <1>2. PICK T : q \in Seq(T)
    BY Zenon DEF WritesOf
  <1>3. p \in Seq(S \cup T) /\ q \in Seq(S \cup T)
    BY <1>1, <1>2, SeqMonotonic
  <1>4. Len(p) \in Nat /\ Len(q) \in Nat /\ Len(p) > 0
    BY <1>3
  <1>5. p \o q \in Seq(S \cup T) /\ Len(p \o q) > 0 /\ (p \o q)[1] = p[1]
    BY <1>3, <1>4, ConcatProperties
  <1> QED
    BY <1>3, <1>5
-----------------------------------------------------------------------------
(***************************************************************************)
(* Steps of the store: no command is forgotten, and only an append changes *)
(* a log or can be left incomplete.                                        *)
(***************************************************************************)
StoreGood ==
  /\ "seen" \in DOMAIN manifest' /\ "seen" \in DOMAIN manifestFile'
  /\ opened' => manifestFile'.seen \subseteq manifest'.seen
  /\ manifestFile.seen \subseteq manifestFile'.seen

LogsKept == UNCHANGED <<transcriptLog, eventLog, failed>>

LEMMA StutterGood == ASSUME Shapes, SeenInv, UNCHANGED storeVars PROVE StoreGood /\ LogsKept
  BY DEF Shapes, SeenInv, storeVars, StoreGood, LogsKept

LEMMA ReplaceGood ==
  ASSUME Shapes, SeenInv, opened, NEW m, "seen" \in DOMAIN m, manifest.seen \subseteq m.seen,
         NEW result, Store!ReplaceManifest(m, result)
  PROVE  StoreGood /\ (result # "not_replaced" => manifestFile' = m)
  BY DEF Shapes, SeenInv, StoreGood, Store!ReplaceManifest

LEMMA OnlyManifestGood ==
  ASSUME Shapes, SeenInv, NEW m, "seen" \in DOMAIN m, manifest.seen \subseteq m.seen,
         NEW result, Store!OnlyManifest(m, result)
  PROVE  StoreGood /\ LogsKept /\ opened' /\ (result = "ok" => manifestFile' = m)
  BY ReplaceGood DEF Store!OnlyManifest, LogsKept

LEMMA BeginRunGood ==
  ASSUME Shapes, SeenInv, NEW cmd, NEW result, Store!BeginRun(cmd, result)
  PROVE  StoreGood /\ LogsKept /\ (result = "ok" => cmd \in manifestFile'.seen)
  <1> DEFINE m == [manifest EXCEPT !.seen = @ \cup {cmd}, !.nextRun = @ + 1,
                                   !.budgets = Append(@, Store!FreshBudget),
                                   !.active = manifest.nextRun + 1]
  <1>1. "seen" \in DOMAIN m /\ m.seen = manifest.seen \cup {cmd}
    BY DEF Shapes
  <1>2. Store!OnlyManifest(m, result)
    BY DEF Store!BeginRun
  <1> HIDE DEF m
  <1> QED
    BY <1>1, <1>2, OnlyManifestGood

LEMMA RecordCommandGood ==
  ASSUME Shapes, SeenInv, NEW cmd, NEW result, Store!RecordCommand(cmd, result)
  PROVE  StoreGood /\ LogsKept /\ (result = "ok" => cmd \in manifestFile'.seen)
  <1> DEFINE m == [manifest EXCEPT !.seen = @ \cup {cmd}]
  <1>1. "seen" \in DOMAIN m /\ m.seen = manifest.seen \cup {cmd}
    BY DEF Shapes
  <1>2. Store!OnlyManifest(m, result)
    BY DEF Store!RecordCommand
  <1> HIDE DEF m
  <1> QED
    BY <1>1, <1>2, OnlyManifestGood

LEMMA EndsGood ==
  ASSUME Shapes, SeenInv, NEW result,
         Store!FinishRun(manifest.active, result) \/ Store!CloseStore(result)
  PROVE  StoreGood /\ LogsKept
  <1>1. ASSUME NEW m \in {[manifest EXCEPT !.active = NoRun], [manifest EXCEPT !.closed = TRUE]},
               Store!OnlyManifest(m, result)
        PROVE  StoreGood /\ LogsKept
    <2>1. "seen" \in DOMAIN m /\ m.seen = manifest.seen
      BY <1>1 DEF Shapes
    <2> QED
      BY <1>1, <2>1, OnlyManifestGood
  <1> QED
    BY <1>1 DEF Store!FinishRun, Store!CloseStore, NoRun, Store!NoRun

LEMMA ReserveGood ==
  ASSUME Shapes, SeenInv, NEW run, NEW counter, NEW amount, NEW result,
         Store!ReserveBudget(run, counter, amount, result)
  PROVE  StoreGood /\ LogsKept
  <1> DEFINE m == [manifest EXCEPT !.budgets[run] = Store!Reserved(@, counter, amount)]
  <1>1. "seen" \in DOMAIN m /\ m.seen = manifest.seen
    BY DEF Shapes
  <1>2. Store!OnlyManifest(m, result)
    BY DEF Store!ReserveBudget
  <1> HIDE DEF m
  <1> QED
    BY <1>1, <1>2, OnlyManifestGood

LEMMA AppendsGood ==
  ASSUME Shapes, SeenInv, NEW result,
         NEW w, Store!AppendTranscript(w.recs, result) \/ Store!AppendEvent(cursor + 1, w.ev, result)
  PROVE  StoreGood /\ (failed => failed') /\ (result # "not_logged" => failed' = failed)
  <1>1. CASE result # "not_logged"
    <2>1. opened /\ opened' = opened /\ failed' = failed
      BY <1>1 DEF Store!AppendTranscript, Store!AppendEvent
    <2>2. \/ Store!ReplaceManifest([manifest EXCEPT !.transcriptSeq = @ + Len(w.recs)], result)
          \/ Store!ReplaceManifest([manifest EXCEPT !.eventCursor = cursor + 1], result)
      BY <1>1 DEF Store!AppendTranscript, Store!AppendEvent
    <2>3. ASSUME NEW m \in {[manifest EXCEPT !.transcriptSeq = @ + Len(w.recs)],
                            [manifest EXCEPT !.eventCursor = cursor + 1]}
          PROVE  "seen" \in DOMAIN m /\ m.seen = manifest.seen
      BY DEF Shapes
    <2>4. StoreGood
      <3>1. CASE Store!ReplaceManifest([manifest EXCEPT !.transcriptSeq = @ + Len(w.recs)], result)
        BY <2>1, <2>3, <3>1, ReplaceGood
      <3>2. CASE Store!ReplaceManifest([manifest EXCEPT !.eventCursor = cursor + 1], result)
        BY <2>1, <2>3, <3>2, ReplaceGood
      <3> QED
        BY <2>2, <3>1, <3>2
    <2> QED
      BY <2>1, <2>4
  <1>2. CASE result = "not_logged"
    <2>1. /\ manifest' = manifest /\ manifestFile' = manifestFile
          /\ opened' = opened /\ failed' = TRUE
      BY <1>2 DEF Store!AppendTranscript, Store!AppendEvent, Store!ReplaceResults
    <2> QED
      BY <1>2, <2>1 DEF StoreGood, Shapes, SeenInv
  <1> QED
    BY <1>1, <1>2

\* The first write of the job, however it ends.
LEMMA StoreWriteGood ==
  ASSUME Shapes, SeenInv, NEW w, NEW result, StoreWrite(w, result)
  PROVE  /\ StoreGood
         /\ failed => failed'
         /\ result # "not_logged" => failed' = failed
         /\ w.op \notin {"append", "emit", "persist"} => LogsKept
         /\ w.op \in {"begin", "record"} /\ result = "ok"
              => \E cmd \in job.command : cmd \in manifestFile'.seen
  <1>1. CASE w.op = "begin" /\ \E cmd \in job.command : Store!BeginRun(cmd, result)
    <2>1. PICK cmd \in job.command : Store!BeginRun(cmd, result)
      BY <1>1
    <2> QED
      BY <1>1, <2>1, BeginRunGood DEF LogsKept
  <1>2. CASE w.op = "record" /\ \E cmd \in job.command : Store!RecordCommand(cmd, result)
    <2>1. PICK cmd \in job.command : Store!RecordCommand(cmd, result)
      BY <1>2
    <2> QED
      BY <1>2, <2>1, RecordCommandGood DEF LogsKept
  <1>3. CASE \/ w.op = "append" /\ Store!AppendTranscript(w.recs, result)
             \/ w.op \in {"emit", "persist"} /\ Store!AppendEvent(cursor + 1, w.ev, result)
    BY <1>3, AppendsGood
  <1>4. CASE \/ w.op = "finish" /\ Store!FinishRun(manifest.active, result)
             \/ w.op = "close" /\ Store!CloseStore(result)
    BY <1>4, EndsGood DEF LogsKept
  <1> QED
    BY <1>1, <1>2, <1>3, <1>4 DEF StoreWrite
-----------------------------------------------------------------------------
(***************************************************************************)
(* Steps of the session.  What each has to show once the store is left     *)
(* alone, or only read.                                                    *)
(***************************************************************************)
LEMMA LogsKeptGood == LogsKept => FailClosedStep
  BY DEF LogsKept, FailClosedStep

\* Memory after the mutex was freed.
LEMMA NoJobFacts ==
  /\ NoJob.after = "free" /\ NoJob.writes = <<>> /\ NoJob.command = {}
  /\ DOMAIN NoJob = {"command", "writes", "after"}
  BY DEF NoJob

LEMMA JobFacts ==
  ASSUME NEW writes, NEW after
  PROVE  /\ Job(writes, after).command = {} /\ Job(writes, after).writes = writes
         /\ Job(writes, after).after = after
         /\ DOMAIN Job(writes, after) = {"command", "writes", "after"}
  BY DEF Job

LEMMA NoGoroutineFacts == "pc" \in DOMAIN NoGoroutine /\ NoGoroutine.pc = "none"
  BY DEF NoGoroutine

LEMMA GoroutineFacts ==
  ASSUME "pc" \in DOMAIN goroutine
  PROVE  /\ \A pc : "pc" \in DOMAIN Goto(pc) /\ Goto(pc).pc = pc
         /\ \A outcome, cause : /\ "pc" \in DOMAIN Ending(outcome, cause)
                                /\ Ending(outcome, cause).pc = "finish"
         /\ \A cause : "pc" \in DOMAIN Erring(cause) /\ Erring(cause).pc = "response_error"
  BY DEF Goto, Ending, Erring, NoGoroutine

\* The mutex is freed.
LEMMA FreesGood ==
  ASSUME IInv, StoreGood, FailClosedStep, acked' \subseteq manifestFile'.seen, job' = NoJob,
         "pc" \in DOMAIN goroutine', state' # "starting",
         state' = "running" <=> goroutine'.pc # "none",
         failed' /\ tolerated' # "incomplete" => state' = "faulted" \/ goroutine'.pc = "faulting"
  PROVE  Good
  <1>1. /\ job'.after = "free" /\ job'.writes = <<>> /\ job'.command = {}
        /\ DOMAIN job' = {"command", "writes", "after"}
    BY NoJobFacts
  <1>2. Shapes' /\ SeenInv'
    BY <1>1 DEF Shapes, SeenInv, StoreGood
  <1>3. CommandInv' /\ JobInv' /\ ActiveInv' /\ FailedInv'
    BY <1>1 DEF CommandInv, JobInv, ActiveInv, FailedInv
  <1> QED
    BY <1>2, <1>3 DEF Good, IInv

\* The job of a command begins.
LEMMA BeginsCommandGood ==
  ASSUME IInv, NEW cmd, NEW writes, NEW after,
         writes # <<>>, Head(writes).op \in {"begin", "record"}, WritesOf(writes, OfCommand),
         LockFree,
         \/ after \in {"started", "rejected", "done"} /\ state = "idle"
         \/ after = "closed" /\ state \in {"idle", "closed"},
         Begins(CommandJob(cmd, writes, after)), UNCHANGED goroutine
  PROVE  Good
  <1>1. /\ job'.command = {cmd} /\ job'.writes = writes /\ job'.after = after
        /\ DOMAIN job' = {"command", "writes", "after"}
    BY DEF Begins, CommandJob
  <1>2. /\ UNCHANGED storeVars /\ state' = state /\ acked' = acked /\ tolerated' = tolerated
        /\ goroutine' = goroutine
    BY DEF Begins, counters
  <1>3. StoreGood /\ LogsKept /\ FailClosedStep
    BY <1>2, StutterGood, LogsKeptGood DEF IInv
  <1>4. Shapes' /\ SeenInv'
    BY <1>1, <1>2, <1>3 DEF IInv, Shapes, SeenInv, StoreGood
  <1>5. CommandInv'
    BY <1>1 DEF CommandInv
  <1>7. JobInv'
    BY <1>1, <1>2 DEF JobInv
  <1>8. ActiveInv'
    BY <1>2 DEF IInv, ActiveInv
  <1>9. ~ failed \/ tolerated = "incomplete"
    BY DEF IInv, FailedInv, ActiveInv
  <1>10. FailedInv'
    BY <1>2, <1>3, <1>9 DEF FailedInv, LogsKept
  <1> QED
    BY <1>3, <1>4, <1>5, <1>7, <1>8, <1>10 DEF Good, IInv

\* The job of the goroutine begins.
LEMMA BeginsGood ==
  ASSUME IInv, NEW writes, NEW after \in AfterRun, WritesOf(writes, OfRun), LockFree,
         goroutine.pc \notin {"none", "faulting"}, Begins(Job(writes, after)),
         "pc" \in DOMAIN goroutine', goroutine'.pc # "none"
  PROVE  Good
  <1>1. /\ job'.command = {} /\ job'.writes = writes /\ job'.after = after
        /\ DOMAIN job' = {"command", "writes", "after"}
    BY JobFacts DEF Begins
  <1>2. /\ UNCHANGED storeVars /\ state' = state /\ acked' = acked /\ tolerated' = tolerated
    BY DEF Begins, counters
  <1>3. StoreGood /\ LogsKept /\ FailClosedStep
    BY <1>2, StutterGood, LogsKeptGood DEF IInv
  <1>4. state = "running"
    BY DEF IInv, ActiveInv
  <1>5. Shapes' /\ SeenInv'
    BY <1>1, <1>2, <1>3 DEF IInv, Shapes, SeenInv, StoreGood
  <1>6. CommandInv' /\ JobInv' /\ ActiveInv'
    BY <1>1, <1>2, <1>4 DEF CommandInv, JobInv, ActiveInv
  <1>7. ~ failed \/ tolerated = "incomplete"
    BY <1>4 DEF IInv, FailedInv
  <1>8. FailedInv'
    BY <1>2, <1>3, <1>7 DEF FailedInv, LogsKept
  <1> QED
    BY <1>3, <1>5, <1>6, <1>8 DEF Good, IInv

\* The goroutine moves on without the mutex, with or without a reservation.
LEMMA MovesGood ==
  ASSUME IInv, StoreGood, LogsKept, UNCHANGED <<state, job, acked, tolerated>>,
         goroutine.pc \notin {"none", "faulting"},
         "pc" \in DOMAIN goroutine', goroutine'.pc # "none"
  PROVE  Good
  <1>1. Shapes' /\ SeenInv'
    BY DEF IInv, Shapes, SeenInv, StoreGood
  <1>2. CommandInv' /\ JobInv'
    BY DEF IInv, CommandInv, JobInv, StoreGood
  <1>3. ActiveInv'
    BY DEF IInv, ActiveInv
  <1>4. ~ failed \/ tolerated = "incomplete"
    BY DEF IInv, FailedInv, ActiveInv
  <1>5. FailedInv'
    BY <1>4 DEF FailedInv, LogsKept
  <1> QED
    BY <1>1, <1>2, <1>3, <1>5, LogsKeptGood DEF Good, IInv
-----------------------------------------------------------------------------
(***************************************************************************)
(* The actions.                                                            *)
(***************************************************************************)
LEMMA InitInv == Init => IInv
  <1> SUFFICES ASSUME Init PROVE IInv
    OBVIOUS
  <1>1. /\ manifest = Store!FreshManifest /\ manifestFile = Store!FreshManifest /\ failed = FALSE
        /\ state = "idle" /\ job = NoJob /\ goroutine = NoGoroutine /\ acked = {}
    BY DEF Init, Store!Init
  <1>2. "seen" \in DOMAIN Store!FreshManifest
    BY DEF Store!FreshManifest
  <1>3. Shapes /\ SeenInv
    BY <1>1, <1>2, NoJobFacts, NoGoroutineFacts DEF Shapes, SeenInv
  <1>4. CommandInv /\ JobInv /\ ActiveInv /\ FailedInv
    BY <1>1, NoJobFacts, NoGoroutineFacts DEF CommandInv, JobInv, ActiveInv, FailedInv
  <1> QED
    BY <1>3, <1>4 DEF IInv

LEMMA SubmitGood == ASSUME IInv, NEW cmd, Submit(cmd) PROVE Good
  <1> DEFINE W == {Write("begin", "fault"),
                   AppendW(<<Fact("user_message", NextRun)>>, "fault"),
                   AppendW(<<Fact("instructions_loaded", NextRun)>>, "fault"),
                   EmitW(Ev("run_started", NextRun), "fault")}
             first == <<Write("begin", "fault"), AppendW(<<Fact("user_message", NextRun)>>, "fault")>>
             more == IF HasInstructions
                     THEN <<AppendW(<<Fact("instructions_loaded", NextRun)>>, "fault")>> ELSE <<>>
             last == <<EmitW(Ev("run_started", NextRun), "fault")>>
  <1>1. Fail(W, OfCommand)
    BY WriteFields DEF Fail, OfCommand
  <1>2. WritesOf(first, OfCommand) /\ WritesOf(more, OfCommand) /\ WritesOf(last, OfCommand)
    <2>1. WritesOf(first, OfCommand) /\ WritesOf(last, OfCommand)
      <3> HIDE DEF W
      <3>1. Write("begin", "fault") \in W /\ AppendW(<<Fact("user_message", NextRun)>>, "fault") \in W
            /\ EmitW(Ev("run_started", NextRun), "fault") \in W
        BY DEF W
      <3> QED
        BY <1>1, <3>1, WritesSome
    <2>2. WritesOf(more, OfCommand)
      <3> HIDE DEF W
      <3>1. AppendW(<<Fact("instructions_loaded", NextRun)>>, "fault") \in W
        BY DEF W
      <3> QED
        BY <1>1, <3>1, WritesSome, WritesNone
    <2> QED
      BY <2>1, <2>2
  <1>3. first # <<>> /\ Head(first).op = "begin"
    BY WriteFields
  <1>4. Begins(CommandJob(cmd, first \o more \o last, "started")) /\ LockFree /\ state = "idle"
        /\ UNCHANGED goroutine
    BY DEF Submit, Takes
  <1> HIDE DEF W, first, more, last
  <1>5. WritesOf(first \o more, OfCommand) /\ first \o more # <<>>
        /\ Head(first \o more).op = "begin"
    BY <1>2, <1>3, WritesJoin, HeadOfJoin
  <1>6. WritesOf(first \o more \o last, OfCommand) /\ first \o more \o last # <<>>
        /\ Head(first \o more \o last).op = "begin"
    BY <1>2, <1>5, WritesJoin, HeadOfJoin
  <1> QED
    BY <1>4, <1>6, BeginsCommandGood

LEMMA RecordAndEmitGood ==
  ASSUME IInv, NEW cmd, SubmitSensitive(cmd) \/ Resume(cmd)
  PROVE  Good
  <1>1. ASSUME NEW ev, NEW after \in {"rejected", "done"}, LockFree, state = "idle",
               Begins(CommandJob(cmd, <<Write("record", "return"), EmitW(ev, "fault")>>, after)),
               UNCHANGED goroutine
        PROVE  Good
    <2> DEFINE W == {Write("record", "return"), EmitW(ev, "fault")}
               writes == <<Write("record", "return"), EmitW(ev, "fault")>>
    <2>1. Fail(W, OfCommand)
      BY WriteFields DEF Fail, OfCommand
    <2>2. WritesOf(writes, OfCommand)
      <3>1. Write("record", "return") \in W /\ EmitW(ev, "fault") \in W
        OBVIOUS
      <3> HIDE DEF W
      <3> QED
        BY <2>1, <3>1, WritesSome
    <2>3. writes # <<>> /\ Head(writes).op = "record"
      BY WriteFields
    <2> HIDE DEF writes
    <2>4. Begins(CommandJob(cmd, writes, after))
      BY <1>1 DEF writes
    <2> QED
      BY <1>1, <2>2, <2>3, <2>4, BeginsCommandGood
  <1>2. CASE SubmitSensitive(cmd)
    BY <1>1, <1>2 DEF SubmitSensitive, Takes
  <1>3. CASE Resume(cmd)
    BY <1>1, <1>3 DEF Resume, Takes
  <1> QED
    BY <1>2, <1>3

LEMMA CloseGood == ASSUME IInv, NEW cmd, Close(cmd) PROVE Good
  <1> DEFINE W == {Write("record", "return"), AppendW(<<SessionClosed>>, "fault"),
                   Write("close", "fault"), EmitW(Ev("session_closed", NoRun), "fault")}
             first == <<Write("record", "return")>>
             more == IF state = "closed" THEN <<>>
                     ELSE <<AppendW(<<SessionClosed>>, "fault"), Write("close", "fault"),
                            EmitW(Ev("session_closed", NoRun), "fault")>>
  <1>1. Fail(W, OfCommand)
    BY WriteFields DEF Fail, OfCommand
  <1>2. /\ Write("record", "return") \in W /\ AppendW(<<SessionClosed>>, "fault") \in W
        /\ Write("close", "fault") \in W /\ EmitW(Ev("session_closed", NoRun), "fault") \in W
    OBVIOUS
  <1> HIDE DEF W
  <1>3. WritesOf(first, OfCommand)
    BY <1>1, <1>2, WritesSome
  <1>4. WritesOf(more, OfCommand)
    BY <1>1, <1>2, WritesSome, WritesNone
  <1>5. first # <<>> /\ Head(first).op = "record"
    BY WriteFields
  <1>6. Begins(CommandJob(cmd, first \o more, "closed")) /\ LockFree
        /\ state \in {"idle", "closed"} /\ UNCHANGED goroutine
    BY DEF Close, Takes
  <1> HIDE DEF first, more
  <1>7. WritesOf(first \o more, OfCommand) /\ first \o more # <<>>
        /\ Head(first \o more).op = "record"
    BY <1>3, <1>4, <1>5, WritesJoin, HeadOfJoin
  <1> QED
    BY <1>6, <1>7, BeginsCommandGood

\* A cancellation may come before the goroutine faults the session.
LEMMA CancelGood == ASSUME IInv, NEW cmd, Cancel(cmd) PROVE Good
  <1>1. /\ job'.command = {cmd} /\ job'.writes = <<Write("record", "return")>>
        /\ job'.after = "cancelled" /\ DOMAIN job' = {"command", "writes", "after"}
    BY DEF Cancel, Begins, CommandJob
  <1>2. /\ UNCHANGED storeVars /\ state' = state /\ acked' = acked /\ tolerated' = tolerated
        /\ goroutine' = goroutine /\ state \in {"idle", "running", "closed"}
        /\ job.after = "free"
    BY NoJobFacts DEF Cancel, Takes, LockFree, Begins, counters
  <1>3. StoreGood /\ LogsKept /\ FailClosedStep
    BY <1>2, StutterGood, LogsKeptGood DEF IInv
  <1>4. Shapes' /\ SeenInv'
    BY <1>1, <1>2, <1>3 DEF IInv, Shapes, SeenInv, StoreGood
  <1>5. CommandInv'
    BY <1>1, WriteFields DEF CommandInv
  <1>6. JobInv' /\ ActiveInv'
    BY <1>1, <1>2 DEF IInv, JobInv, ActiveInv
  <1>7. FailedInv'
    BY <1>1, <1>2, <1>3 DEF IInv, FailedInv, LogsKept
  <1> QED
    BY <1>3, <1>4, <1>5, <1>6, <1>7 DEF Good, IInv

LEMMA CommandGood == ASSUME IInv, NEW cmd, Command(cmd) PROVE Good
  BY SubmitGood, RecordAndEmitGood, CloseGood, CancelGood DEF Command

\* Nothing of the invariant is touched.
LEMMA UntouchedGood ==
  ASSUME IInv, UNCHANGED <<storeVars, state, job, goroutine, acked, tolerated>>
  PROVE  Good
  <1>1. StoreGood /\ LogsKept /\ FailClosedStep
    BY StutterGood, LogsKeptGood DEF IInv
  <1>2. Shapes' /\ SeenInv'
    BY <1>1 DEF IInv, Shapes, SeenInv, StoreGood
  <1>3. CommandInv' /\ JobInv' /\ ActiveInv' /\ FailedInv'
    BY <1>1 DEF IInv, CommandInv, JobInv, ActiveInv, FailedInv, StoreGood, LogsKept
  <1> QED
    BY <1>1, <1>2, <1>3 DEF Good, IInv

LEMMA ShutdownGood == ASSUME IInv, Shutdown PROVE Good
  BY UntouchedGood DEF Shutdown, counters

LEMMA MovesToGood ==
  ASSUME IInv, NEW g, "pc" \in DOMAIN g, g.pc # "none",
         goroutine.pc \notin {"none", "faulting"}, Moves(g)
  PROVE  Good
  <1>1. StoreGood /\ LogsKept
    BY StutterGood DEF IInv, Moves
  <1> QED
    BY <1>1, MovesGood DEF Moves, counters

\* Where the goroutine goes.
LEMMA WaysOn ==
  ASSUME IInv
  PROVE  /\ \A pc : "pc" \in DOMAIN Goto(pc) /\ Goto(pc).pc = pc
         /\ \A outcome, cause : /\ "pc" \in DOMAIN Ending(outcome, cause)
                                /\ Ending(outcome, cause).pc # "none"
         /\ \A cause : "pc" \in DOMAIN Erring(cause) /\ Erring(cause).pc # "none"
         /\ "pc" \in DOMAIN NextAttempt /\ NextAttempt.pc # "none"
         /\ \A a : LET g == [Goto("answered") EXCEPT !.answer = a]
                   IN  "pc" \in DOMAIN g /\ g.pc # "none"
         /\ \A d : LET g == [Goto("reserve_delay") EXCEPT !.delay = d]
                   IN  "pc" \in DOMAIN g /\ g.pc # "none"
         /\ LET g == [Goto("reserve_attempt") EXCEPT !.retry = 0, !.streamed = FALSE]
            IN  "pc" \in DOMAIN g /\ g.pc # "none"
  <1>1. "pc" \in DOMAIN goroutine
    BY DEF IInv, Shapes
  <1>2. \A pc : "pc" \in DOMAIN Goto(pc) /\ Goto(pc).pc = pc
    BY <1>1, GoroutineFacts
  <1>3. /\ \A outcome, cause : /\ "pc" \in DOMAIN Ending(outcome, cause)
                               /\ Ending(outcome, cause).pc # "none"
        /\ \A cause : "pc" \in DOMAIN Erring(cause) /\ Erring(cause).pc # "none"
    BY <1>1, GoroutineFacts
  <1>4. "pc" \in DOMAIN NextAttempt /\ NextAttempt.pc # "none"
    BY <1>2 DEF NextAttempt
  <1>5. \A a : LET g == [Goto("answered") EXCEPT !.answer = a] IN "pc" \in DOMAIN g /\ g.pc # "none"
    BY <1>2
  <1>6. \A d : LET g == [Goto("reserve_delay") EXCEPT !.delay = d]
               IN  "pc" \in DOMAIN g /\ g.pc # "none"
    BY <1>2
  <1>7. LET g == [Goto("reserve_attempt") EXCEPT !.retry = 0, !.streamed = FALSE]
        IN  "pc" \in DOMAIN g /\ g.pc # "none"
    BY <1>2
  <1> QED
    BY <1>2, <1>3, <1>4, <1>5, <1>6, <1>7

LEMMA LocalStepsGood ==
  ASSUME IInv,
         \/ LoopTop \/ Sleep \/ WakeUp \/ ResponseError \/ CallsDone
         \/ ProviderAnswers \/ ProviderFails \/ ProviderCancelled
  PROVE  Good
  <1>1. CASE LoopTop
    BY <1>1, WaysOn, MovesToGood DEF LoopTop, At
  <1>2. CASE Sleep
    BY <1>2, WaysOn, MovesToGood DEF Sleep, At
  <1>3. CASE WakeUp
    BY <1>3, WaysOn, MovesToGood DEF WakeUp, At
  <1>4. CASE ResponseError
    BY <1>4, WaysOn, MovesToGood DEF ResponseError, At
  <1>5. CASE CallsDone
    BY <1>5, WaysOn, MovesToGood DEF CallsDone, At
  <1>6. CASE ProviderAnswers
    BY <1>6, WaysOn, MovesToGood DEF ProviderAnswers, At
  <1>7. CASE ProviderFails
    BY <1>7, WaysOn, MovesToGood DEF ProviderFails, At
  <1>8. CASE ProviderCancelled
    BY <1>8, WaysOn, MovesToGood DEF ProviderCancelled, At
  <1> QED
    BY <1>1, <1>2, <1>3, <1>4, <1>5, <1>6, <1>7, <1>8

LEMMA ReservationGood ==
  ASSUME IInv, NEW counter, NEW amount, NEW granted, NEW exhausted, NEW broken,
         Reserve(counter, amount, granted, exhausted, broken),
         goroutine.pc \notin {"none", "faulting"},
         \A g \in {granted, exhausted, broken} : "pc" \in DOMAIN g /\ g.pc # "none"
  PROVE  Good
  <1>1. StoreGood /\ LogsKept
    BY ReserveGood, StutterGood DEF Reserve, IInv
  <1>2. goroutine' \in {granted, exhausted, broken}
    BY DEF Reserve
  <1> QED
    BY <1>1, <1>2, MovesGood DEF Reserve

LEMMA ReservationsGood ==
  ASSUME IInv, ReserveCall \/ ReserveAttempt \/ ReserveDelay PROVE Good
  <1>1. CASE ReserveCall
    <2> DEFINE granted == [Goto("reserve_attempt") EXCEPT !.retry = 0, !.streamed = FALSE]
               over == Ending("failed", "budget_exhausted")
    <2>1. "pc" \in DOMAIN granted /\ granted.pc # "none" /\ "pc" \in DOMAIN over /\ over.pc # "none"
      BY WaysOn
    <2>2. Reserve("logical_model_call", 0, granted, over, over) /\ goroutine.pc = "reserve_call"
      BY <1>1 DEF ReserveCall, At
    <2> HIDE DEF granted, over
    <2> QED
      BY <2>1, <2>2, ReservationGood
  <1>2. CASE ReserveAttempt
    BY <1>2, WaysOn, ReservationGood DEF ReserveAttempt, At
  <1>3. CASE ReserveDelay
    BY <1>3, WaysOn, ReservationGood DEF ReserveDelay, At
  <1> QED
    BY <1>1, <1>2, <1>3

\* The goroutine takes the mutex for one or two writes.
LEMMA OneWriteGood ==
  ASSUME IInv, NEW w, w.onError \in OfRun, NEW after \in AfterRun,
         LockFree, goroutine.pc \notin {"none", "faulting"}, Begins(Job(<<w>>, after)),
         "pc" \in DOMAIN goroutine', goroutine'.pc # "none"
  PROVE  Good
  <1>1. Fail({w}, OfRun)
    BY DEF Fail, OfRun
  <1>2. WritesOf(<<w>>, OfRun)
    BY <1>1, WritesSome
  <1> DEFINE writes == <<w>>
  <1> HIDE DEF writes
  <1>3. WritesOf(writes, OfRun) /\ Begins(Job(writes, after))
    BY <1>2 DEF writes
  <1> QED
    BY <1>3, BeginsGood

LEMMA TwoWritesGood ==
  ASSUME IInv, NEW v, NEW w, v.onError \in OfRun, w.onError \in OfRun, NEW after \in AfterRun,
         LockFree, goroutine.pc \notin {"none", "faulting"}, Begins(Job(<<v, w>>, after)),
         "pc" \in DOMAIN goroutine', goroutine'.pc # "none"
  PROVE  Good
  <1>1. Fail({v, w}, OfRun)
    BY DEF Fail, OfRun
  <1>2. WritesOf(<<v, w>>, OfRun)
    BY <1>1, WritesSome
  <1> DEFINE writes == <<v, w>>
  <1> HIDE DEF writes
  <1>3. WritesOf(writes, OfRun) /\ Begins(Job(writes, after))
    BY <1>2 DEF writes
  <1> QED
    BY <1>3, BeginsGood

LEMMA StreamDeltaGood == ASSUME IInv, StreamDelta PROVE Good
  <1>1. "pc" \in DOMAIN goroutine' /\ goroutine'.pc # "none"
    BY DEF StreamDelta, At, IInv, Shapes
  <1>2. EmitW(Ev("assistant_delta", goroutine.run), "fail_stream").onError \in OfRun
    BY WriteFields DEF OfRun
  <1> QED
    BY <1>1, <1>2, OneWriteGood DEF StreamDelta, At, AfterRun

LEMMA RetryStepGood == ASSUME IInv, RetryStep PROVE Good
  <1>1. "pc" \in DOMAIN goroutine' /\ goroutine'.pc # "none"
    BY DEF RetryStep, At, IInv, Shapes
  <1>2. EmitW(Ev("retry_scheduled", goroutine.run), "fail_stream").onError \in OfRun
    BY WriteFields DEF OfRun
  <1> QED
    BY <1>1, <1>2, OneWriteGood DEF RetryStep, At, AfterRun

LEMMA AnsweredGood == ASSUME IInv, Answered PROVE Good
  <1>1. CASE Moves(Goto("check"))
    BY <1>1, WaysOn, MovesToGood DEF Answered, At
  <1>2. CASE ~ Moves(Goto("check"))
    <2>1. "pc" \in DOMAIN goroutine' /\ goroutine'.pc # "none"
      BY <1>2 DEF Answered, At, IInv, Shapes
    <2>2. EmitW(Ev("assistant_delta", goroutine.run), "fail_stream").onError \in OfRun
      BY WriteFields DEF OfRun
    <2> QED
      BY <1>2, <2>1, <2>2, OneWriteGood DEF Answered, At, AfterRun
  <1> QED
    BY <1>1, <1>2

LEMMA CheckResponseGood == ASSUME IInv, CheckResponse PROVE Good
  <1> DEFINE text == AppendW(<<Fact("assistant_block", goroutine.run)>>, "fail_run")
             event == EmitW(Ev("assistant_text", goroutine.run), "fail_run")
             cut == IF goroutine.answer.calls = <<>> THEN Ending("failed", "provider_output_limit")
                    ELSE Goto("calls")
  <1>1. LockFree /\ goroutine.pc = "check"
    BY DEF CheckResponse, At
  <1>2. \/ \E g \in {Ending("cancelled", ""), Ending("failed", "engine_invariant"), Goto("calls")} :
             Moves(g)
        \/ /\ goroutine' = cut
           /\ UNCHANGED <<storeVars, state, job, counters>>
        \/ Begins(Job(<<text, event>>, "calls")) /\ UNCHANGED goroutine
    BY DEF CheckResponse
  <1>3. CASE \E g \in {Ending("cancelled", ""), Ending("failed", "engine_invariant"), Goto("calls")} :
               Moves(g)
    BY <1>1, <1>3, WaysOn, MovesToGood
  <1>4. CASE goroutine' = cut /\ UNCHANGED <<storeVars, state, job, counters>>
    <2>1. "pc" \in DOMAIN goroutine' /\ goroutine'.pc # "none"
      BY <1>4, WaysOn
    <2>2. StoreGood /\ LogsKept
      BY <1>4, StutterGood DEF IInv
    <2> QED
      BY <1>1, <1>4, <2>1, <2>2, MovesGood DEF counters
  <1>5. CASE Begins(Job(<<text, event>>, "calls")) /\ UNCHANGED goroutine
    <2>1. text.onError \in OfRun /\ event.onError \in OfRun
      BY WriteFields DEF OfRun
    <2>2. "pc" \in DOMAIN goroutine' /\ goroutine'.pc # "none"
      BY <1>1, <1>5 DEF IInv, Shapes
    <2> HIDE DEF text, event
    <2> QED
      BY <1>1, <1>5, <2>1, <2>2, TwoWritesGood DEF AfterRun
  <1> QED
    BY <1>2, <1>3, <1>4, <1>5

LEMMA RecordCallsGood == ASSUME IInv, RecordCalls PROVE Good
  <1> DEFINE calls == goroutine.answer.calls
             w == AppendW([i \in DOMAIN calls |-> ToolCall(goroutine.run, calls[i])], "fault_run")
  <1>1. LockFree /\ goroutine.pc = "calls"
    BY DEF RecordCalls, At
  <1>2. \/ \E g \in {Ending("completed", ""), Ending("failed", "provider_protocol")} : Moves(g)
        \/ /\ goroutine' = [goroutine EXCEPT !.rest = calls, !.answer = NoAnswer,
                              !.streamed = FALSE, !.stopped = FALSE, !.blocked = FALSE]
           /\ Begins(Job(<<w>>, "tool"))
    BY DEF RecordCalls
  <1>3. CASE \E g \in {Ending("completed", ""), Ending("failed", "provider_protocol")} : Moves(g)
    BY <1>1, <1>3, WaysOn, MovesToGood
  <1>4. CASE /\ goroutine' = [goroutine EXCEPT !.rest = calls, !.answer = NoAnswer,
                                !.streamed = FALSE, !.stopped = FALSE, !.blocked = FALSE]
             /\ Begins(Job(<<w>>, "tool"))
    <2>1. "pc" \in DOMAIN goroutine' /\ goroutine'.pc # "none"
      BY <1>1, <1>4 DEF IInv, Shapes
    <2>2. w.onError \in OfRun
      BY WriteFields DEF OfRun
    <2> HIDE DEF w
    <2> QED
      BY <1>1, <1>4, <2>1, <2>2, OneWriteGood DEF AfterRun
  <1> QED
    BY <1>2, <1>3, <1>4

LEMMA FinishesToolGood ==
  ASSUME IInv, NEW outcome, LockFree, goroutine.pc \in {"tool", "exec"}, FinishesTool(outcome)
  PROVE  Good
  <1> DEFINE v == AppendW(<<ToolResult(goroutine.run, Head(goroutine.rest), outcome)>>, "fault_run")
             w == EmitW(Ev("tool_finished", goroutine.run), "fault_run")
  <1>1. Begins(Job(<<v, w>>, "tool"))
    BY DEF FinishesTool
  <1>2. "pc" \in DOMAIN goroutine' /\ goroutine'.pc # "none"
    BY DEF FinishesTool, IInv, Shapes
  <1>3. v.onError \in OfRun /\ w.onError \in OfRun
    BY WriteFields DEF OfRun
  <1> HIDE DEF v, w
  <1> QED
    BY <1>1, <1>2, <1>3, TwoWritesGood DEF AfterRun

LEMMA ToolStepsGood == ASSUME IInv, NextTool \/ ExecuteTool PROVE Good
  <1>1. CASE \E outcome : FinishesTool(outcome)
    BY <1>1, FinishesToolGood DEF NextTool, ExecuteTool, At
  <1>2. CASE ~ \E outcome : FinishesTool(outcome)
    <2> DEFINE w == EmitW(Ev("tool_started", goroutine.run), "fault")
    <2>1. /\ goroutine.pc = "tool" /\ LockFree /\ goroutine' = goroutine
          /\ Begins(Job(<<w>>, "exec"))
      BY <1>2 DEF NextTool, ExecuteTool, At
    <2>2. w.onError \in OfRun /\ "pc" \in DOMAIN goroutine'
      BY <2>1, WriteFields DEF OfRun, IInv, Shapes
    <2> HIDE DEF w
    <2> QED
      BY <2>1, <2>2, OneWriteGood DEF AfterRun
  <1> QED
    BY <1>1, <1>2

LEMMA FinishRunGood == ASSUME IInv, FinishRun PROVE Good
  <1> DEFINE run == goroutine.run
             outcome == goroutine.outcome
             cause == goroutine.cause
             boundary == AppendW(<<Fact("cancellation_boundary", run)>>, "fault")
             fact == AppendW(<<RunOutcome(run, outcome, cause)>>, "fault")
             event == PersistW(TerminalEvent(run, outcome, cause), "fault")
             marker == Write("finish", "fault")
             W == {boundary, fact, event, marker}
             first == IF outcome = "cancelled" THEN <<boundary>> ELSE <<>>
             last == <<fact, event, marker>>
  <1>1. Fail(W, OfRun)
    BY WriteFields DEF Fail, OfRun
  <1>2. Begins(Job(first \o last, "settle")) /\ LockFree /\ goroutine.pc = "finish"
        /\ UNCHANGED goroutine
    BY DEF FinishRun, At
  <1>3. boundary \in W /\ fact \in W /\ event \in W /\ marker \in W
    OBVIOUS
  <1> HIDE DEF W, boundary, fact, event, marker
  <1>4. WritesOf(first, OfRun) /\ WritesOf(last, OfRun)
    BY <1>1, <1>3, WritesSome, WritesNone
  <1> HIDE DEF first, last
  <1>5. WritesOf(first \o last, OfRun)
    BY <1>4, WritesJoin
  <1>6. "pc" \in DOMAIN goroutine'
    BY <1>2 DEF IInv, Shapes
  <1> QED
    BY <1>2, <1>5, <1>6, BeginsGood DEF AfterRun

\* What the holder of the mutex leaves behind.
LEMMA CommandDoneGood == ASSUME IInv, CommandDone PROVE Good
  <1>1. PICK after \in {"done", "rejected", "started", "cancelled", "closed"} :
          /\ Finishes(after)
          /\ acked' = IF after = "rejected" THEN acked ELSE acked \cup job.command
          /\ state' = CASE after = "started" -> "running"
                        [] after = "closed" -> "closed"
                        [] OTHER -> state
          /\ goroutine' = IF after = "started"
                          THEN [NoGoroutine EXCEPT !.pc = "loop", !.run = manifest.active]
                          ELSE goroutine
    BY DEF CommandDone
  <1>2. job.writes = <<>> /\ job.after = after /\ job' = NoJob
    BY <1>1 DEF Finishes
  <1>3. UNCHANGED storeVars /\ tolerated' = tolerated
    BY DEF CommandDone
  <1>4. StoreGood /\ LogsKept /\ FailClosedStep
    BY <1>3, StutterGood, LogsKeptGood DEF IInv
  <1>5. acked' \subseteq manifestFile'.seen
    BY <1>1, <1>2, <1>4 DEF IInv, SeenInv, CommandInv, StoreGood
  <1>6. "pc" \in DOMAIN goroutine' /\ state' # "starting"
        /\ (state' = "running" <=> goroutine'.pc # "none")
    <2>1. CASE after = "started"
      BY <1>1, <2>1, NoGoroutineFacts
    <2>2. CASE after = "closed"
      BY <1>1, <1>2, <2>2 DEF IInv, Shapes, JobInv, ActiveInv, AfterRun, AfterLoad
    <2>3. CASE after \in {"done", "rejected", "cancelled"}
      BY <1>1, <1>2, <2>3 DEF IInv, Shapes, JobInv, ActiveInv, AfterRun, AfterLoad
    <2> QED
      BY <2>1, <2>2, <2>3
  <1>7. failed' /\ tolerated' # "incomplete" => goroutine'.pc = "faulting"
    BY <1>1, <1>2, <1>3, <1>4 DEF IInv, FailedInv, LogsKept
  <1> QED
    BY <1>2, <1>4, <1>5, <1>6, <1>7, FreesGood

LEMMA SettleGood == ASSUME IInv, Settle PROVE Good
  <1>1. job.after = "settle" /\ job' = NoJob /\ UNCHANGED <<storeVars, acked, tolerated>>
        /\ state' = "idle" /\ goroutine' = NoGoroutine
    BY DEF Settle, Finishes
  <1>2. StoreGood /\ LogsKept /\ FailClosedStep
    BY <1>1, StutterGood, LogsKeptGood DEF IInv
  <1>3. acked' \subseteq manifestFile'.seen
    BY <1>1, <1>2 DEF IInv, SeenInv, StoreGood
  <1>4. ~ failed' \/ tolerated' = "incomplete"
    BY <1>1, <1>2 DEF IInv, FailedInv, JobInv, AfterRun, AfterLoad, LogsKept
  <1> QED
    BY <1>1, <1>2, <1>3, <1>4, NoGoroutineFacts, FreesGood

LEMMA GoroutineGoesOnGood == ASSUME IInv, GoroutineGoesOn PROVE Good
  <1>1. PICK pc \in {"attempt", "sleep", "check", "calls", "tool", "exec"} :
          Finishes(pc) /\ goroutine' = Goto(pc)
    BY DEF GoroutineGoesOn
  <1>2. job.after = pc /\ job' = NoJob /\ UNCHANGED <<storeVars, state, acked, tolerated>>
    BY <1>1 DEF GoroutineGoesOn, Finishes, counters
  <1>3. StoreGood /\ LogsKept /\ FailClosedStep
    BY <1>2, StutterGood, LogsKeptGood DEF IInv
  <1>4. acked' \subseteq manifestFile'.seen
    BY <1>2, <1>3 DEF IInv, SeenInv, StoreGood
  <1>5. "pc" \in DOMAIN goroutine' /\ goroutine'.pc # "none"
    BY <1>1, WaysOn
  <1>6. state' = "running"
    BY <1>2 DEF IInv, JobInv, AfterLoad
  <1>7. ~ failed' \/ tolerated' = "incomplete"
    BY <1>2, <1>3, <1>6 DEF IInv, FailedInv, LogsKept
  <1> QED
    BY <1>2, <1>3, <1>4, <1>5, <1>6, <1>7, FreesGood

LEMMA LoadedGood == ASSUME IInv, Loaded PROVE Good
  <1>1. /\ job.after \in {"loaded", "reconciled"} /\ job' = NoJob
        /\ UNCHANGED <<storeVars, goroutine, acked, tolerated>>
        /\ state' \in {"closed", "idle"}
    BY DEF Loaded, Finishes, counters
  <1>2. StoreGood /\ LogsKept /\ FailClosedStep
    BY <1>1, StutterGood, LogsKeptGood DEF IInv
  <1>3. acked' \subseteq manifestFile'.seen
    BY <1>1, <1>2 DEF IInv, SeenInv, StoreGood
  <1>4. state = "starting"
    BY <1>1 DEF IInv, JobInv, AfterRun
  <1>5. "pc" \in DOMAIN goroutine' /\ goroutine'.pc = "none"
    BY <1>1, <1>4 DEF IInv, Shapes, ActiveInv
  <1>6. ~ failed' \/ tolerated' = "incomplete"
    BY <1>1, <1>2, <1>4 DEF IInv, FailedInv, LogsKept
  <1> QED
    BY <1>1, <1>2, <1>3, <1>5, <1>6, FreesGood

LEMMA FaultRunGood == ASSUME IInv, FaultRun PROVE Good
  <1>1. /\ job' = NoJob /\ UNCHANGED <<storeVars, acked, tolerated>>
        /\ state' = "faulted" /\ goroutine' = NoGoroutine
    BY DEF FaultRun, Fault, counters
  <1>2. StoreGood /\ LogsKept /\ FailClosedStep
    BY <1>1, StutterGood, LogsKeptGood DEF IInv
  <1>3. acked' \subseteq manifestFile'.seen
    BY <1>1, <1>2 DEF IInv, SeenInv, StoreGood
  <1> QED
    BY <1>1, <1>2, <1>3, NoGoroutineFacts, FreesGood

\* The first write of a job, once the session is loaded.
LEMMA HeadFacts ==
  ASSUME IInv, job.writes # <<>>, state # "starting"
  PROVE  /\ \/ Head(job.writes).onError \in {"fault", "return"}
            \/ /\ state = "running"
               /\ Head(job.writes).onError \in {"fault_run", "fail_run", "fail_stream"}
         /\ Head(job.writes).onError = "return" => Head(job.writes).op = "record"
  <1>1. ASSUME NEW errors, WritesOf(job.writes, errors)
        PROVE  /\ Head(job.writes).onError \in errors
               /\ Head(job.writes).onError = "return" => Head(job.writes).op = "record"
    BY <1>1, WritesHead
  <1>2. CASE WritesOf(job.writes, OfCommand)
    BY <1>1, <1>2 DEF OfCommand
  <1>3. CASE state = "running" /\ WritesOf(job.writes, OfRun)
    BY <1>1, <1>3 DEF OfRun
  <1>4. CASE job.writes = <<Write("record", "return")>>
    <2>1. Head(job.writes) = Write("record", "return")
      BY <1>4
    <2> QED
      BY <2>1, WriteFields
  <1> QED
    BY <1>2, <1>3, <1>4 DEF IInv, JobInv, AfterLoad

\* After an incomplete append the only writes left are those of a Cancel.
LEMMA HeadOfFailed ==
  ASSUME IInv, job.writes # <<>>, failed, tolerated # "incomplete"
  PROVE  /\ job.after = "cancelled" /\ goroutine.pc = "faulting"
         /\ Head(job.writes).op = "record" /\ Head(job.writes).onError = "return"
  <1>1. job.after = "cancelled" /\ goroutine.pc = "faulting"
    BY DEF IInv, FailedInv, JobInv, AfterRun, AfterLoad
  <1>2. job.writes = <<Write("record", "return")>>
    BY <1>1 DEF IInv, JobInv, AfterRun, AfterLoad
  <1>3. Head(job.writes) = Write("record", "return")
    BY <1>2
  <1> QED
    BY <1>1, <1>3, WriteFields

LEMMA StepOfHead ==
  ASSUME IInv, job.writes # <<>>, NEW result, StoreWrite(Head(job.writes), result)
  PROVE  StoreGood /\ FailClosedStep
  <1> DEFINE w == Head(job.writes)
  <1>1. StoreGood /\ (w.op \notin {"append", "emit", "persist"} => LogsKept)
    BY StoreWriteGood DEF IInv
  <1>2. failed /\ tolerated # "incomplete" => LogsKept
    BY <1>1, HeadOfFailed
  <1> QED
    BY <1>1, <1>2 DEF FailClosedStep, LogsKept

LEMMA WriteSucceedsGood == ASSUME IInv, WriteSucceeds PROVE Good
  <1> DEFINE w == Head(job.writes)
  <1>1. /\ job.writes # <<>> /\ StoreWrite(w, "ok")
        /\ job' = [job EXCEPT !.writes = Tail(@)]
        /\ UNCHANGED <<state, goroutine, acked, tolerated>>
    BY DEF WriteSucceeds, counters
  <1>2. /\ job'.writes = Tail(job.writes) /\ job'.command = job.command /\ job'.after = job.after
        /\ DOMAIN job' = {"command", "writes", "after"}
    BY <1>1 DEF IInv, Shapes
  <1>3. StoreGood /\ FailClosedStep
    BY <1>1, StepOfHead
  <1>4. /\ failed' = failed
        /\ w.op \in {"begin", "record"} => \E cmd \in job.command : cmd \in manifestFile'.seen
    BY <1>1, StoreWriteGood DEF IInv
  <1>5. Shapes' /\ SeenInv'
    BY <1>1, <1>2, <1>3 DEF IInv, Shapes, SeenInv, StoreGood
  <1>6. CommandInv'
    <2>1. CASE job.command \subseteq manifestFile.seen
      BY <1>2, <1>3, <2>1 DEF IInv, CommandInv, StoreGood
    <2>2. CASE w.op \in {"begin", "record"}
      <3>1. PICK cmd \in job.command : cmd \in manifestFile'.seen
        BY <1>4, <2>2
      <3>2. \A c \in job.command : c = cmd
        BY <3>1 DEF IInv, CommandInv
      <3> QED
        BY <1>2, <3>1, <3>2 DEF IInv, CommandInv
    <2> QED
      BY <1>1, <2>1, <2>2 DEF IInv, CommandInv
  <1>7. JobInv'
    <2>1. \A errors : WritesOf(job.writes, errors) => WritesOf(job'.writes, errors)
      BY <1>1, <1>2, WritesHead
    <2>2. job.writes = <<Write("record", "return")>> => job'.writes = <<>>
      BY <1>2
    <2> QED
      BY <1>1, <1>2, <2>1, <2>2 DEF IInv, JobInv
  <1>8. ActiveInv'
    BY <1>1 DEF IInv, ActiveInv
  <1>9. FailedInv'
    BY <1>1, <1>2, <1>4, HeadOfFailed DEF FailedInv
  <1> QED
    BY <1>3, <1>5, <1>6, <1>7, <1>8, <1>9 DEF Good, IInv

\* HandleError: the session is refused, faulted or goes on.
LEMMA HandleErrorGood ==
  ASSUME IInv, StoreGood, FailClosedStep, acked' = acked, job.writes # <<>>,
         HandleError(Head(job.writes).onError),
         failed' /\ tolerated' # "incomplete" =>
           \/ state = "starting" \/ Head(job.writes).onError \in {"fault", "fault_run"}
           \/ Head(job.writes).onError = "return" /\ goroutine.pc = "faulting"
  PROVE  Good
  <1> DEFINE error == Head(job.writes).onError
  <1>1. acked' \subseteq manifestFile'.seen
    BY DEF IInv, SeenInv, StoreGood
  <1>2. CASE state = "starting"
    <2>1. job' = Job(<<>>, "refused") /\ state' = state /\ goroutine' = goroutine
      BY <1>2 DEF HandleError
    <2>2. /\ job'.command = {} /\ job'.writes = <<>> /\ job'.after = "refused"
          /\ DOMAIN job' = {"command", "writes", "after"}
      BY <2>1, JobFacts
    <2>3. Shapes' /\ SeenInv'
      BY <1>1, <2>1, <2>2 DEF IInv, Shapes, SeenInv, StoreGood
    <2>4. CommandInv' /\ JobInv' /\ ActiveInv' /\ FailedInv'
      BY <1>2, <2>1, <2>2 DEF IInv, CommandInv, JobInv, AfterLoad, ActiveInv, FailedInv
    <2> QED
      BY <2>3, <2>4 DEF Good, IInv
  <1>3. CASE state # "starting" /\ error = "fault"
    <2>1. job' = NoJob /\ state' = "faulted" /\ goroutine' = NoGoroutine
      BY <1>3 DEF HandleError, Fault
    <2> QED
      BY <1>1, <2>1, NoGoroutineFacts, FreesGood
  <1>4. CASE state # "starting" /\ error # "fault"
    <2>1. /\ job' = NoJob /\ state' = state
          /\ goroutine' = CASE error = "fault_run" -> Goto("faulting")
                            [] error = "fail_run" -> Ending("failed", "engine_invariant")
                            [] error = "fail_stream" -> Erring("engine_invariant")
                            [] OTHER -> goroutine
      BY <1>4 DEF HandleError
    <2>2. \/ error = "return" /\ goroutine' = goroutine
          \/ /\ state = "running" /\ error \in {"fault_run", "fail_run", "fail_stream"}
             /\ "pc" \in DOMAIN goroutine' /\ goroutine'.pc # "none"
             /\ error = "fault_run" => goroutine'.pc = "faulting"
      BY <1>4, <2>1, HeadFacts, WaysOn
    <2>3. "pc" \in DOMAIN goroutine' /\ (state' = "running" <=> goroutine'.pc # "none")
      BY <2>1, <2>2 DEF IInv, Shapes, ActiveInv
    <2>4. failed' /\ tolerated' # "incomplete" => goroutine'.pc = "faulting"
      BY <1>4, <2>2
    <2> QED
      BY <1>1, <1>4, <2>1, <2>3, <2>4, FreesGood
  <1> QED
    BY <1>2, <1>3, <1>4

LEMMA WriteFailsGood == ASSUME IInv, WriteFails PROVE Good
  <1> DEFINE w == Head(job.writes)
  <1>1. PICK result : StoreWrite(w, result)
    BY DEF WriteFails
  <1>2. job.writes # <<>> /\ HandleError(w.onError) /\ Tolerates(w.onError) /\ acked' = acked
    BY DEF WriteFails
  <1>3. StoreGood /\ FailClosedStep
    BY <1>1, <1>2, StepOfHead
  <1>4. w.op = "record" => LogsKept
    BY <1>1, StoreWriteGood DEF IInv
  <1>5. ASSUME failed', tolerated' # "incomplete", state # "starting",
               w.onError \notin {"fault", "fault_run"}
        PROVE  w.onError = "return" /\ goroutine.pc = "faulting"
    <2>1. w.onError \notin {"fail_run", "fail_stream"} /\ tolerated' = tolerated
      BY <1>2, <1>5 DEF Tolerates
    <2>2. w.onError = "return" /\ w.op = "record"
      BY <1>2, <1>5, <2>1, HeadFacts
    <2>3. failed
      BY <1>4, <1>5, <2>2 DEF LogsKept
    <2> QED
      BY <1>2, <1>5, <2>1, <2>2, <2>3, HeadOfFailed
  <1> QED
    BY <1>2, <1>3, <1>5, HandleErrorGood

LEMMA EventRefusedGood == ASSUME IInv, EventRefused PROVE Good
  <1> DEFINE w == Head(job.writes)
  <1>1. /\ job.writes # <<>> /\ w.op \in {"emit", "persist"} /\ HandleError(w.onError)
        /\ UNCHANGED <<storeVars, acked, tolerated>>
    BY DEF EventRefused, counters
  <1>2. StoreGood /\ LogsKept /\ FailClosedStep
    BY <1>1, StutterGood, LogsKeptGood DEF IInv
  <1>3. ~ failed' \/ tolerated' = "incomplete"
    BY <1>1, <1>2, HeadOfFailed DEF LogsKept
  <1> QED
    BY <1>1, <1>2, <1>3, HandleErrorGood

\* The process dies, and the session is loaded again.
LEMMA ForgetsGood ==
  ASSUME IInv, Forgets, opened' = FALSE, manifest' = Store!FreshManifest, failed' = FALSE,
         manifestFile' = manifestFile
  PROVE  Good
  <1>1. FailClosedStep
    BY DEF FailClosedStep
  <1>2. /\ job' = NoJob /\ state' = "down" /\ goroutine' = NoGoroutine /\ acked' = acked
    BY DEF Forgets
  <1>3. StoreGood /\ acked' \subseteq manifestFile'.seen
    BY <1>2 DEF IInv, Shapes, SeenInv, StoreGood, Store!FreshManifest
  <1> QED
    BY <1>1, <1>2, <1>3, NoGoroutineFacts, FreesGood

LEMMA ProcessDiesGood == ASSUME IInv, ProcessDies PROVE Good
  <1>1. Forgets
    BY DEF ProcessDies
  <1>2. /\ opened' = FALSE /\ manifest' = Store!FreshManifest /\ failed' = FALSE
        /\ manifestFile' = manifestFile
    BY DEF ProcessDies, Store!Crash, Store!CrashAppending, Store!CrashAppendingEvent, Store!disk
  <1> QED
    BY <1>1, <1>2, ForgetsGood

LEMMA LoadRefusedGood == ASSUME IInv, LoadRefused PROVE Good
  <1>1. Forgets
    BY DEF LoadRefused
  <1>2. /\ opened' = FALSE /\ manifest' = Store!FreshManifest /\ failed' = FALSE
        /\ manifestFile' = manifestFile
    BY DEF LoadRefused, Store!Crash, Store!disk
  <1> QED
    BY <1>1, <1>2, ForgetsGood

LEMMA LoadGood == ASSUME IInv, Load PROVE Good
  <1> DEFINE run == manifestFile.active
             writes == (IF run = NoRun THEN <<>> ELSE ReconcileWrites(run)) \o CloseWrites
             after == IF run = NoRun THEN "loaded" ELSE "reconciled"
  <1>1. job' = Job(writes, after) /\ after \in {"loaded", "reconciled"}
    BY DEF Load
  <1> HIDE DEF writes, after
  <1>2. /\ job'.command = {} /\ job'.after \in AfterLoad
        /\ DOMAIN job' = {"command", "writes", "after"}
    BY <1>1, JobFacts DEF AfterLoad
  <1>3. /\ state = "down" /\ state' = "starting"
        /\ goroutine' = goroutine /\ acked' = acked /\ tolerated' = tolerated
    BY DEF Load, counters
  <1>4. /\ manifest' = [manifestFile EXCEPT !.transcriptSeq = Len(transcriptLog),
                                            !.eventCursor = Len(eventLog)]
        /\ UNCHANGED <<transcriptLog, eventLog, manifestFile, failed>>
    BY DEF Load, Store!Open, Store!disk
  <1>5. "seen" \in DOMAIN manifest' /\ manifest'.seen = manifestFile.seen
    BY <1>4 DEF IInv, Shapes
  <1>6. Shapes' /\ SeenInv'
    BY <1>2, <1>3, <1>4, <1>5 DEF IInv, Shapes, SeenInv
  <1>7. CommandInv' /\ JobInv' /\ ActiveInv'
    BY <1>2, <1>3 DEF IInv, CommandInv, JobInv, ActiveInv
  <1>8. ~ failed \/ tolerated = "incomplete"
    BY <1>3 DEF IInv, FailedInv, ActiveInv
  <1>9. FailedInv'
    BY <1>3, <1>4, <1>8 DEF FailedInv
  <1>10. FailClosedStep
    BY <1>8 DEF FailClosedStep
  <1> QED
    BY <1>6, <1>7, <1>9, <1>10 DEF Good, IInv

LEMMA NextGood == IInv /\ [Next]_vars => Good
  <1> SUFFICES ASSUME IInv, [Next]_vars PROVE Good
    OBVIOUS
  <1>1. ASSUME NEW cmd, Command(cmd) PROVE Good
    BY <1>1, CommandGood
  <1>2. CASE Shutdown
    BY <1>2, ShutdownGood
  <1>3. CASE HoldsLock
    BY <1>3, WriteSucceedsGood, EventRefusedGood, CommandDoneGood, SettleGood,
       GoroutineGoesOnGood DEF HoldsLock
  <1>4. CASE WriteFails
    BY <1>4, WriteFailsGood
  <1>5. CASE ModelCall
    BY <1>5, LocalStepsGood, ReservationsGood, RetryStepGood, AnsweredGood, CheckResponseGood
       DEF ModelCall
  <1>6. CASE ToolCalls
    BY <1>6, RecordCallsGood, ToolStepsGood, LocalStepsGood, FinishRunGood, FaultRunGood
       DEF ToolCalls
  <1>7. CASE Provider
    BY <1>7, StreamDeltaGood, LocalStepsGood DEF Provider
  <1>8. CASE Load
    BY <1>8, LoadGood
  <1>9. CASE NewSessionEnds
    BY <1>9, LoadedGood, LoadRefusedGood DEF NewSessionEnds
  <1>10. CASE ProcessDies
    BY <1>10, ProcessDiesGood
  <1>11. CASE UNCHANGED vars
    BY <1>11, UntouchedGood DEF vars, memory, counters
  <1> QED
    BY <1>1, <1>2, <1>3, <1>4, <1>5, <1>6, <1>7, <1>8, <1>9, <1>10, <1>11 DEF Next
-----------------------------------------------------------------------------
\* The invariant that both results rest on: who may hold the mutex in which
\* state, how its writes may fail (Apply session.go:389, finishRun
\* session.go:843, NewSession session.go:197), and where an incomplete append
\* leaves the session (faultSessionLocked, session.go:905).
THEOREM SessionInvariant == Spec => []IInv
  <1>1. IInv /\ [Next]_vars => IInv'
    BY NextGood DEF Good
  <1> QED
    BY InitInv, <1>1, PTL DEF Spec

\* A command for which Apply returned nil is in the manifest file from then on:
\* no failing write, no crash and no reopening loses it, so a repeated ID is
\* always recognised (Apply session.go:389, RecordCommand store.go:440).
THEOREM SessionAckedIsDurable == Spec => []AckedIsDurable
  <1>1. IInv => AckedIsDurable
    BY DEF IInv, SeenInv, AckedIsDurable
  <1> QED
    BY SessionInvariant, <1>1, PTL

\* Once an append did not complete, this process writes to neither log again,
\* except after the appends whose failure merely ends the run (Faulted,
\* session.go:905; fail_run and fail_stream of the writes of run).
THEOREM SessionFailsClosed == Spec => FailClosed
  <1>1. IInv /\ [Next]_vars =>
          [failed /\ tolerated # "incomplete" /\ opened' => UNCHANGED <<transcriptLog, eventLog>>]_vars
    BY NextGood DEF Good, FailClosedStep
  <1> QED
    BY SessionInvariant, <1>1, PTL DEF Spec, FailClosed
-----------------------------------------------------------------------------
(***************************************************************************)
(* Late work.  Where the goroutine holds the mutex, and where it can be    *)
(* once an attempt was started after the cancellation: on the way to       *)
(* finishRun, and nowhere from where another attempt is reached.           *)
(***************************************************************************)
HoldingPCs == {"attempt", "retry", "answered", "check", "calls", "tool", "exec", "finish"}
HoldingInv == job.after \in AfterRun => goroutine.pc \in HoldingPCs

LatePCs == {"attempt", "answered", "check", "response_error", "finish", "faulting"}
LateJobs == {"free", "cancelled", "attempt", "check", "settle"}
WindingUp ==
  /\ state = "running" /\ cancelled
  /\ goroutine.pc \in LatePCs /\ job.after \in LateJobs

LateInv == late = 0 \/ (late = 1 /\ (state = "faulted" \/ WindingUp))

LInv == IInv /\ HoldingInv /\ LateInv

\* Neither the goroutine nor its jobs are involved.
LEMMA LateUntouched ==
  ASSUME LInv, UNCHANGED <<state, goroutine, cancelled, late>>, job'.after = job.after
  PROVE  HoldingInv' /\ LateInv'
  BY DEF LInv, HoldingInv, LateInv, WindingUp

LEMMA LateCommand == ASSUME LInv, NEW cmd, Command(cmd) PROVE HoldingInv' /\ LateInv'
  <1>1. CASE Cancel(cmd)
    <2>1. /\ job'.after = "cancelled" /\ UNCHANGED <<state, goroutine, cancelled, late>>
      BY <1>1 DEF Cancel, Begins, CommandJob, counters
    <2> QED
      BY <2>1 DEF LInv, HoldingInv, AfterRun, LateInv, WindingUp, LateJobs
  <1>2. CASE Submit(cmd) \/ SubmitSensitive(cmd) \/ Resume(cmd) \/ Close(cmd)
    <2>1. ASSUME NEW writes, NEW after, Begins(CommandJob(cmd, writes, after))
          PROVE  job'.after = after /\ state' = state /\ late' = late
      BY <2>1 DEF Begins, CommandJob, counters
    <2>2. /\ job'.after \in {"started", "rejected", "done", "closed"}
          /\ state' = state /\ late' = late
      <3>1. CASE Submit(cmd)
        BY <2>1, <3>1 DEF Submit
      <3>2. CASE SubmitSensitive(cmd)
        BY <2>1, <3>2 DEF SubmitSensitive
      <3>3. CASE Resume(cmd)
        BY <2>1, <3>3 DEF Resume
      <3>4. CASE Close(cmd)
        BY <2>1, <3>4 DEF Close
      <3> QED
        BY <1>2, <3>1, <3>2, <3>3, <3>4
    <2>3. state \in {"idle", "closed"}
      BY <1>2 DEF Submit, SubmitSensitive, Resume, Close
    <2> QED
      BY <2>2, <2>3 DEF LInv, HoldingInv, AfterRun, LateInv, WindingUp
  <1> QED
    BY <1>1, <1>2 DEF Command

LEMMA LateError ==
  ASSUME LInv, job.writes # <<>>, HandleError(Head(job.writes).onError), late' = late
  PROVE  HoldingInv' /\ LateInv'
  <1> DEFINE error == Head(job.writes).onError
  <1>1. CASE state = "starting"
    <2>1. job'.after = "refused" /\ late = 0
      BY <1>1, JobFacts DEF HandleError, LInv, LateInv, WindingUp
    <2> QED
      BY <2>1 DEF HoldingInv, AfterRun, LateInv
  <1>2. CASE state # "starting" /\ error = "fault"
    <2>1. job'.after = "free" /\ state' = "faulted"
      BY <1>2, NoJobFacts DEF HandleError, Fault
    <2> QED
      BY <2>1 DEF LInv, HoldingInv, AfterRun, LateInv
  <1>3. CASE state # "starting" /\ error # "fault"
    <2>1. job'.after = "free" /\ UNCHANGED <<state, cancelled>>
      BY <1>3, NoJobFacts DEF HandleError
    <2>2. goroutine'.pc \in {goroutine.pc, "faulting", "finish", "response_error"}
      <3>1. goroutine' \in {goroutine, Goto("faulting"), Ending("failed", "engine_invariant"),
                            Erring("engine_invariant")}
        BY <1>3 DEF HandleError
      <3>2. "pc" \in DOMAIN goroutine
        BY DEF LInv, IInv, Shapes
      <3> QED
        BY <3>1, <3>2, GoroutineFacts
    <2> QED
      BY <2>1, <2>2 DEF LInv, HoldingInv, AfterRun, LateInv, WindingUp, LatePCs, LateJobs
  <1> QED
    BY <1>1, <1>2, <1>3

LEMMA LateMutex ==
  ASSUME LInv, HoldsLock \/ WriteFails \/ FaultRun \/ Loaded PROVE HoldingInv' /\ LateInv'
  <1>1. CASE WriteSucceeds
    <2>1. job'.after = job.after /\ UNCHANGED <<state, goroutine, cancelled, late>>
      BY <1>1 DEF WriteSucceeds, counters, LInv, IInv, Shapes
    <2> QED
      BY <2>1, LateUntouched
  <1>2. CASE EventRefused
    BY <1>2, LateError DEF EventRefused, counters
  <1>3. CASE WriteFails
    BY <1>3, LateError DEF WriteFails
  <1>4. CASE CommandDone
    <2>1. PICK after \in {"done", "rejected", "started", "cancelled", "closed"} :
            /\ job.after = after /\ job' = NoJob /\ late' = late
            /\ after = "cancelled" => /\ state' = state /\ goroutine' = goroutine
                                      /\ cancelled' = (state = "running" \/ cancelled)
      BY <1>4 DEF CommandDone, Finishes
    <2>2. CASE after = "cancelled"
      BY <2>1, <2>2, NoJobFacts DEF LInv, HoldingInv, AfterRun, LateInv, WindingUp, LateJobs
    <2>3. CASE after # "cancelled"
      <3>1. state # "faulted"
        BY <2>1, <2>3 DEF LInv, IInv, JobInv, AfterRun, AfterLoad
      <3>2. late = 0
        BY <2>1, <2>3, <3>1 DEF LInv, LateInv, WindingUp, LateJobs
      <3> QED
        BY <2>1, <3>2, NoJobFacts DEF HoldingInv, AfterRun, LateInv
    <2> QED
      BY <2>2, <2>3
  <1>5. CASE Settle
    BY <1>5, NoJobFacts DEF Settle, Finishes, HoldingInv, AfterRun, LateInv
  <1>6. CASE GoroutineGoesOn
    <2>1. PICK pc \in {"attempt", "sleep", "check", "calls", "tool", "exec"} :
            job.after = pc /\ job' = NoJob /\ goroutine' = Goto(pc)
      BY <1>6 DEF GoroutineGoesOn, Finishes
    <2>2. UNCHANGED <<state, cancelled, late>> /\ goroutine'.pc = pc
      BY <1>6, <2>1, WaysOn DEF GoroutineGoesOn, counters, LInv
    <2> QED
      BY <2>1, <2>2, NoJobFacts
      DEF LInv, HoldingInv, AfterRun, LateInv, WindingUp, LatePCs, LateJobs
  <1>7. CASE FaultRun
    BY <1>7, NoJobFacts DEF FaultRun, Fault, counters, LInv, HoldingInv, AfterRun, LateInv
  <1>8. CASE Loaded
    <2>1. job.after \in AfterLoad /\ job' = NoJob /\ late' = late
      BY <1>8 DEF Loaded, Finishes, AfterLoad, counters
    <2>2. state = "starting"
      BY <2>1 DEF LInv, IInv, JobInv, AfterRun, AfterLoad
    <2> QED
      BY <2>1, <2>2, NoJobFacts DEF LInv, HoldingInv, AfterRun, LateInv, WindingUp
  <1> QED
    BY <1>1, <1>2, <1>3, <1>4, <1>5, <1>6, <1>7, <1>8 DEF HoldsLock

\* Steps that only move the goroutine.
LEMMA LateMoves ==
  ASSUME LInv, NEW g, Moves(g),
         goroutine.pc \in HoldingPCs => LockFree,
         late = 0 \/ g.pc \in LatePCs
  PROVE  HoldingInv' /\ LateInv'
  <1>1. goroutine' = g /\ UNCHANGED <<state, job, cancelled, late>>
    BY DEF Moves, counters
  <1>2. job.after \notin AfterRun
    BY NoJobFacts DEF LInv, HoldingInv, LockFree, AfterRun
  <1> QED
    BY <1>1, <1>2 DEF LInv, HoldingInv, LateInv, WindingUp

\* A run that winds up is at no other place, and its context is cancelled.
LEMMA LatePlaces ==
  ASSUME LInv, late # 0, goroutine.pc # "none" PROVE cancelled /\ goroutine.pc \in LatePCs
  BY DEF LInv, IInv, ActiveInv, LateInv, WindingUp

LEMMA LateLocal ==
  ASSUME LInv,
         \/ LoopTop \/ Sleep \/ WakeUp \/ ResponseError \/ CallsDone
         \/ ProviderAnswers \/ ProviderFails \/ ProviderCancelled
  PROVE  HoldingInv' /\ LateInv'
  <1>1. CASE LoopTop
    BY <1>1, LateMoves, LatePlaces DEF LoopTop, At, LatePCs
  <1>2. CASE Sleep
    BY <1>2, LateMoves, LatePlaces DEF Sleep, At, LatePCs, HoldingPCs
  <1>3. CASE WakeUp
    BY <1>3, LateMoves, LatePlaces DEF WakeUp, At, LatePCs, HoldingPCs
  <1>4. CASE ResponseError
    <2>1. late # 0 => Moves(Ending("cancelled", ""))
      BY <1>4, LatePlaces DEF ResponseError, At
    <2>2. Ending("cancelled", "").pc \in LatePCs
      BY GoroutineFacts DEF LInv, IInv, Shapes, LatePCs
    <2>3. goroutine.pc = "response_error"
      BY <1>4 DEF ResponseError, At
    <2> QED
      BY <1>4, <2>1, <2>2, <2>3, LateMoves DEF ResponseError, HoldingPCs
  <1>5. CASE CallsDone
    BY <1>5, LateMoves, LatePlaces DEF CallsDone, At, LatePCs
  <1>6. CASE ProviderAnswers
    <2>1. PICK a : Moves([Goto("answered") EXCEPT !.answer = a]) /\ LockFree
      BY <1>6 DEF ProviderAnswers
    <2>2. [Goto("answered") EXCEPT !.answer = a].pc \in LatePCs
      <3>1. "pc" \in DOMAIN Goto("answered") /\ Goto("answered").pc = "answered"
        BY WaysOn DEF LInv
      <3> QED
        BY <3>1 DEF LatePCs
    <2> QED
      BY <2>1, <2>2, LateMoves
  <1>7. CASE ProviderFails
    <2>1. goroutine.pc = "attempt" /\ LockFree
      BY <1>7 DEF ProviderFails, At
    <2>2. \A cause : Erring(cause).pc \in LatePCs
      BY GoroutineFacts DEF LInv, IInv, Shapes, LatePCs
    <2>3. CASE cancelled
      BY <1>7, <2>1, <2>2, <2>3, LateMoves DEF ProviderFails
    <2>4. CASE ~ cancelled
      <3>1. late = 0
        BY <2>1, <2>4, LatePlaces
      <3> QED
        BY <1>7, <2>1, <3>1, LateMoves DEF ProviderFails
    <2> QED
      BY <2>3, <2>4
  <1>8. CASE ProviderCancelled
    <2>1. \A cause : Erring(cause).pc \in LatePCs
      BY GoroutineFacts DEF LInv, IInv, Shapes, LatePCs
    <2> QED
      BY <1>8, <2>1, LateMoves DEF ProviderCancelled
  <1> QED
    BY <1>1, <1>2, <1>3, <1>4, <1>5, <1>6, <1>7, <1>8

\* The one attempt that may start late.
LEMMA LateReservation ==
  ASSUME LInv, ReserveCall \/ ReserveAttempt \/ ReserveDelay
  PROVE  HoldingInv' /\ LateInv'
  <1>1. goroutine.pc \in {"reserve_call", "reserve_attempt", "reserve_delay"}
    BY DEF ReserveCall, ReserveAttempt, ReserveDelay, At
  <1>2. UNCHANGED <<state, job, cancelled>>
    BY DEF ReserveCall, ReserveAttempt, ReserveDelay, Reserve
  <1>3. late = 0
    BY <1>1, LatePlaces DEF LatePCs
  <1>4. job.after \in {"free", "cancelled"} /\ state = "running"
    BY <1>1 DEF LInv, IInv, ActiveInv, JobInv, HoldingInv, HoldingPCs, AfterLoad
  <1>5. late' = late \/ (cancelled /\ goroutine'.pc = "attempt" /\ late' = late + 1)
    BY DEF ReserveCall, ReserveAttempt, ReserveDelay
  <1> QED
    BY <1>2, <1>3, <1>4, <1>5
    DEF HoldingInv, AfterRun, LateInv, WindingUp, LatePCs, LateJobs

\* The goroutine takes the mutex where it is.
LEMMA LateBegins ==
  ASSUME LInv, NEW writes, NEW after, Begins(Job(writes, after)),
         goroutine.pc \in HoldingPCs, goroutine'.pc = goroutine.pc,
         late = 0 \/ after \in LateJobs
  PROVE  HoldingInv' /\ LateInv'
  <1>1. job'.after = after /\ UNCHANGED <<state, cancelled, late>>
    BY JobFacts DEF Begins, counters
  <1> QED
    BY <1>1 DEF LInv, HoldingInv, LateInv, WindingUp

LEMMA LateStream ==
  ASSUME LInv, StreamDelta \/ RetryStep \/ Answered PROVE HoldingInv' /\ LateInv'
  <1>1. \A b : [goroutine EXCEPT !.streamed = b].pc = goroutine.pc
    BY DEF LInv, IInv, Shapes
  <1>2. CASE StreamDelta
    <2>1. goroutine.pc = "attempt" /\ goroutine'.pc = goroutine.pc
      BY <1>1, <1>2 DEF StreamDelta, At
    <2> QED
      BY <1>2, <2>1, LateBegins DEF StreamDelta, HoldingPCs, LateJobs
  <1>3. CASE RetryStep
    <2>1. goroutine.pc = "retry" /\ goroutine'.pc = goroutine.pc /\ late = 0
      BY <1>1, <1>3, LatePlaces DEF RetryStep, At, LatePCs
    <2> QED
      BY <1>3, <2>1, LateBegins DEF RetryStep, HoldingPCs
  <1>4. CASE Answered
    <2>1. goroutine.pc = "answered" /\ LockFree
      BY <1>4 DEF Answered, At
    <2>2. CASE Moves(Goto("check"))
      <3>1. Goto("check").pc \in LatePCs
        BY WaysOn DEF LInv, LatePCs
      <3> QED
        BY <2>1, <2>2, <3>1, LateMoves
    <2>3. CASE ~ Moves(Goto("check"))
      <3>1. goroutine'.pc = goroutine.pc
        BY <1>1, <1>4, <2>3 DEF Answered
      <3> QED
        BY <1>4, <2>1, <2>3, <3>1, LateBegins DEF Answered, HoldingPCs, LateJobs
    <2> QED
      BY <2>2, <2>3
  <1> QED
    BY <1>2, <1>3, <1>4

LEMMA LateCheck == ASSUME LInv, CheckResponse PROVE HoldingInv' /\ LateInv'
  <1>1. goroutine.pc = "check" /\ LockFree
    BY DEF CheckResponse, At
  <1>2. CASE cancelled
    <2>1. Moves(Ending("cancelled", ""))
      BY <1>2 DEF CheckResponse
    <2>2. Ending("cancelled", "").pc \in LatePCs
      BY GoroutineFacts DEF LInv, IInv, Shapes, LatePCs
    <2> QED
      BY <1>1, <2>1, <2>2, LateMoves
  <1>3. CASE ~ cancelled
    <2>1. late = 0 /\ job.after = "free"
      BY <1>1, <1>3, LatePlaces, NoJobFacts DEF LockFree
    <2>2. job'.after \in AfterRun => goroutine'.pc \in HoldingPCs
      <3>1. CASE UNCHANGED job
        BY <2>1, <3>1 DEF AfterRun
      <3>2. CASE ~ UNCHANGED job
        <4>1. goroutine' = goroutine
          BY <1>3, <3>2 DEF CheckResponse, Moves
        <4> QED
          BY <1>1, <4>1 DEF HoldingPCs
      <3> QED
        BY <3>1, <3>2
    <2>3. late' = late
      BY DEF CheckResponse, Moves, Begins, counters
    <2> QED
      BY <2>1, <2>2, <2>3 DEF HoldingInv, LateInv
  <1> QED
    BY <1>2, <1>3

LEMMA LateTools ==
  ASSUME LInv, RecordCalls \/ NextTool \/ ExecuteTool PROVE HoldingInv' /\ LateInv'
  <1>1. goroutine.pc \in {"calls", "tool", "exec"} /\ LockFree
    BY DEF RecordCalls, NextTool, ExecuteTool, At
  <1>2. late = 0 /\ job.after = "free"
    BY <1>1, LatePlaces, NoJobFacts DEF LatePCs, LockFree
  <1>3. late' = late
    BY DEF RecordCalls, NextTool, ExecuteTool, FinishesTool, Moves, Begins, counters
  <1>4. UNCHANGED job \/ goroutine'.pc = goroutine.pc
    BY DEF RecordCalls, NextTool, ExecuteTool, FinishesTool, Moves, LInv, IInv, Shapes
  <1>5. HoldingInv'
    BY <1>1, <1>2, <1>4 DEF HoldingInv, AfterRun, HoldingPCs
  <1> QED
    BY <1>2, <1>3, <1>5 DEF LateInv

LEMMA LateFinish == ASSUME LInv, FinishRun PROVE HoldingInv' /\ LateInv'
  BY LateBegins DEF FinishRun, At, HoldingPCs, LateJobs

LEMMA LateProcess ==
  ASSUME LInv, Load \/ LoadRefused \/ ProcessDies \/ Shutdown PROVE HoldingInv' /\ LateInv'
  <1>1. CASE Forgets
    BY <1>1, NoJobFacts DEF Forgets, HoldingInv, AfterRun, LateInv
  <1>2. CASE Load
    <2>1. late' = late /\ late = 0
      BY <1>2 DEF Load, counters, LInv, LateInv, WindingUp
    <2>2. job'.after \in {"loaded", "reconciled"}
      BY <1>2, JobFacts DEF Load
    <2> QED
      BY <2>1, <2>2 DEF HoldingInv, AfterRun, LateInv
  <1>3. CASE Shutdown
    BY <1>3 DEF Shutdown, counters, LInv, HoldingInv, LateInv, WindingUp
  <1> QED
    BY <1>1, <1>2, <1>3 DEF LoadRefused, ProcessDies

LEMMA LateNext == LInv /\ [Next]_vars => LInv'
  <1> SUFFICES ASSUME LInv, [Next]_vars PROVE HoldingInv' /\ LateInv'
    BY NextGood DEF LInv, Good
  <1>1. ASSUME NEW cmd, Command(cmd) PROVE HoldingInv' /\ LateInv'
    BY <1>1, LateCommand
  <1>2. CASE HoldsLock \/ WriteFails
    BY <1>2, LateMutex
  <1>3. CASE ModelCall
    BY <1>3, LateLocal, LateReservation, LateStream, LateCheck DEF ModelCall
  <1>4. CASE ToolCalls
    BY <1>4, LateTools, LateLocal, LateFinish, LateMutex DEF ToolCalls
  <1>5. CASE Provider
    BY <1>5, LateStream, LateLocal DEF Provider
  <1>6. CASE Shutdown \/ Load \/ ProcessDies
    BY <1>6, LateProcess
  <1>7. CASE NewSessionEnds
    BY <1>7, LateMutex, LateProcess DEF NewSessionEnds
  <1>8. CASE UNCHANGED vars
    BY <1>8, LateUntouched DEF vars, memory, counters
  <1> QED
    BY <1>1, <1>2, <1>3, <1>4, <1>5, <1>6, <1>7, <1>8 DEF Next
-----------------------------------------------------------------------------
\* After Cancel or Shutdown reached a run, at most one more transport attempt
\* is started: sleepContext may take the timer when both are ready, and the
\* response and the failure of that attempt lead to finishRun only
\* (completeWithRetry session.go:733, sleepContext session.go:803, run
\* session.go:572).
THEOREM SessionLittleLateWork == Spec => []LittleLateWork
  <1>1. Init => LInv
    <2>1. Init => late = 0 /\ job.after = "free"
      BY NoJobFacts DEF Init
    <2> QED
      BY <2>1, InitInv DEF LInv, HoldingInv, AfterRun, LateInv
  <1>2. LInv => LittleLateWork
    BY DEF LInv, LateInv, LittleLateWork
  <1> QED
    BY <1>1, <1>2, LateNext, PTL DEF Spec
-----------------------------------------------------------------------------
(***************************************************************************)
(* The types of a session.                                                 *)
(***************************************************************************)
WriteOp == {"begin", "record", "append", "emit", "persist", "finish", "close"}
OnError == {"return", "fault", "fault_run", "fail_run", "fail_stream"}
StoreCall == [op : WriteOp, recs : Seq(Record), ev : Event, onError : OnError]

Afters == {"free", "started", "rejected", "done", "cancelled", "closed"} \cup AfterRun \cup AfterLoad
JobType == [command : SUBSET CommandIDs, writes : Seq(StoreCall), after : Afters]

GoroutineType ==
  [pc : PCs, run : Nat, answer : Answer, rest : Seq(CallIDs),
   stopped : BOOLEAN, blocked : BOOLEAN, streamed : BOOLEAN, retry : Nat, delay : Nat,
   outcome : RunOutcomes \cup {""}, cause : FailureCauses \cup {""}]

\* What finishRun may be called with, and that its writes are made there; and
\* that a tool is executed only for a call that is left.
PlaceInv ==
  /\ At("finish") => goroutine.outcome \in {"completed", "failed", "cancelled"}
  /\ job.after = "settle" => At("finish")
  /\ job.after = "exec" => At("tool") /\ goroutine.rest # <<>>
  /\ At("exec") /\ job.after # "tool" => goroutine.rest # <<>>

States == {"down", "starting", "idle", "running", "closed", "faulted"}

Types ==
  /\ Store!TypeOK
  /\ state \in States
  /\ records \in Seq(Entry) /\ history \in Seq(Store!EventEntry) /\ cursor \in Nat
  /\ partial \in BOOLEAN /\ activeTool \in CallIDs \cup {NoCall}
  /\ job \in JobType
  /\ goroutine \in GoroutineType /\ PlaceInv
  /\ cancelled \in BOOLEAN /\ tolerated \in {"none", "unmarked", "incomplete"}
  /\ acked \subseteq CommandIDs
  /\ late \in Nat /\ crashes \in Nat /\ failures \in Nat
-----------------------------------------------------------------------------
(***************************************************************************)
(* The store of the session speaks of the same records and logs.           *)
(***************************************************************************)
LEMMA StoreSets ==
  /\ Store!NoRun = NoRun
  /\ Store!Entry = Entry
  /\ Store!EventEntry = [cursor : Nat, ev : Event]
  /\ \A mark, recs : Store!Numbered(mark, recs) = Numbered(mark, recs)
  /\ \A rec : Store!WellFormed(rec) <=> WellFormed(rec)
  BY DEF Store!NoRun, NoRun, Store!Entry, Entry, Store!Record, Record, Store!Kinds, Kinds,
         Store!NoCall, NoCall, Store!ToolResultOutcomes, ToolResultOutcomes, Store!RunOutcomes,
         RunOutcomes, Store!FailureCauses, FailureCauses, Store!EventEntry, Store!Numbered,
         Numbered, Store!WellFormed, WellFormed

LEMMA StoreScan ==
  \A entries : Store!ValidateRecords(entries) <=> ValidateRecords(entries)
  <1>1. \A entries : Store!ToolPairs(entries) = ToolPairs(entries)
    BY DEF Store!ToolPairs, ToolPairs, Store!PairStep, PairStep, Store!NoPairs, NoPairs,
           Store!Unpaired, Unpaired, Store!Pairs, Pairs, Store!AnyCall, AnyCall, Store!NoCall, NoCall
  <1>2. \A entries : Store!CloseIsLast(entries) <=> CloseIsLast(entries)
    BY DEF Store!CloseIsLast, CloseIsLast
  <1> QED
    BY <1>1, <1>2, StoreSets DEF Store!ValidateRecords, ValidateRecords

\* Replacing the manifest, whole or in part.
LEMMA ManifestParts ==
  ASSUME Store!TypeOK
  PROVE  /\ \A n \in Nat : /\ [manifest EXCEPT !.transcriptSeq = n] \in Store!Manifest
                           /\ [manifest EXCEPT !.eventCursor = n] \in Store!Manifest
         /\ [manifest EXCEPT !.active = NoRun] \in Store!Manifest
         /\ [manifest EXCEPT !.closed = TRUE] \in Store!Manifest
         /\ \A cmd \in CommandIDs : [manifest EXCEPT !.seen = @ \cup {cmd}] \in Store!Manifest
  BY DEF Store!TypeOK, Store!Manifest, NoRun

LEMMA OnlyManifestTyped ==
  ASSUME Store!TypeOK, NEW m \in Store!Manifest, NEW result, Store!OnlyManifest(m, result)
  PROVE  Store!TypeOK'
  BY DEF Store!TypeOK, Store!OnlyManifest, Store!ReplaceManifest

LEMMA BudgetTyped ==
  ASSUME NEW b \in Store!Budget, NEW counter \in Store!Counters, NEW amount \in Nat
  PROVE  Store!Reserved(b, counter, amount) \in Store!Budget
  BY DEF Store!Budget, Store!Counters, Store!Reserved

LEMMA ReserveTyped ==
  ASSUME Store!TypeOK, NEW run, NEW counter \in Store!Counters, NEW amount \in Nat, NEW result,
         Store!ReserveBudget(run, counter, amount, result)
  PROVE  Store!TypeOK'
  <1> DEFINE budgets == [manifest.budgets EXCEPT ![run] = Store!Reserved(@, counter, amount)]
             m == [manifest EXCEPT !.budgets[run] = Store!Reserved(@, counter, amount)]
  <1>1. manifest \in Store!Manifest /\ manifest.budgets \in Seq(Store!Budget)
        /\ run \in DOMAIN manifest.budgets
    BY DEF Store!TypeOK, Store!Manifest, Store!ReserveBudget
  <1>2. Store!Reserved(manifest.budgets[run], counter, amount) \in Store!Budget
    BY <1>1, BudgetTyped
  <1>3. budgets \in Seq(Store!Budget)
    BY <1>1, <1>2
  <1>4. m = [manifest EXCEPT !.budgets = budgets]
    BY <1>1 DEF Store!Manifest
  <1> HIDE DEF budgets
  <1>5. m \in Store!Manifest
    BY <1>1, <1>3, <1>4 DEF Store!Manifest
  <1>6. Store!OnlyManifest(m, result)
    BY DEF Store!ReserveBudget
  <1> HIDE DEF m
  <1> QED
    BY <1>5, <1>6, OnlyManifestTyped

LEMMA BegunTyped ==
  ASSUME NEW m \in Store!Manifest, NEW b \in Seq(Store!Budget), NEW n \in Nat, NEW s \in SUBSET CommandIDs
  PROVE  [m EXCEPT !.seen = s, !.nextRun = n, !.budgets = b, !.active = n] \in Store!Manifest
  BY DEF Store!Manifest

LEMMA BeginRunTyped ==
  ASSUME Store!TypeOK, NEW cmd \in CommandIDs, NEW result, Store!BeginRun(cmd, result)
  PROVE  Store!TypeOK'
  <1> DEFINE b == Append(manifest.budgets, Store!FreshBudget)
             n == manifest.nextRun + 1
             s == manifest.seen \cup {cmd}
             m == [manifest EXCEPT !.seen = s, !.nextRun = n, !.budgets = b, !.active = n]
  <1>1. manifest \in Store!Manifest /\ manifest.budgets \in Seq(Store!Budget)
        /\ n \in Nat /\ s \in SUBSET CommandIDs
    BY DEF Store!TypeOK, Store!Manifest
  <1>2. Store!FreshBudget \in Store!Budget
    BY DEF Store!FreshBudget, Store!Budget
  <1>3. b \in Seq(Store!Budget)
    BY <1>1, <1>2
  <1>4. Store!OnlyManifest(m, result)
    BY DEF Store!BeginRun
  <1> HIDE DEF b, n, s
  <1>5. m \in Store!Manifest
    BY <1>1, <1>3, BegunTyped
  <1> HIDE DEF m
  <1> QED
    BY <1>4, <1>5, OnlyManifestTyped

LEMMA LinesTyped ==
  ASSUME Store!TypeOK, NEW recs \in Seq(Record)
  PROVE  /\ Store!Lines(recs) = Numbered(manifest.transcriptSeq, recs)
         /\ Store!Lines(recs) \in Seq(Entry) /\ Len(Store!Lines(recs)) = Len(recs)
         /\ transcriptLog \o Store!Lines(recs) \in Seq(Entry)
         /\ \A f \in Store!Fragments(recs) :
              /\ f.kept \in 0..Len(recs)
              /\ SubSeq(Store!Lines(recs), 1, f.kept) \in Seq(Entry)
              /\ transcriptLog \o SubSeq(Store!Lines(recs), 1, f.kept) \in Seq(Entry)
  <1> DEFINE lines == Store!Lines(recs)
  <1>1. manifest.transcriptSeq \in Nat /\ transcriptLog \in Seq(Entry)
    BY StoreSets DEF Store!TypeOK, Store!Manifest
  <1>2. lines = Numbered(manifest.transcriptSeq, recs)
    BY StoreSets DEF Store!Lines
  <1>3. lines \in Seq(Entry) /\ Len(lines) = Len(recs) /\ Len(recs) \in Nat
    BY <1>1, <1>2, NumberedEntries
  <1> HIDE DEF lines
  <1>4. ASSUME NEW f \in Store!Fragments(recs)
        PROVE  f.kept \in 0..Len(recs) /\ SubSeq(lines, 1, f.kept) \in Seq(Entry)
    <2>1. f.kept \in 0..Len(recs)
      BY DEF Store!Fragments
    <2>2. \A i \in 1..f.kept : lines[i] \in Entry
      BY <1>3, <2>1, ElementOfSeq
    <2> QED
      BY <1>3, <2>1, <2>2, SubSeqProperties
  <1>5. \A more \in Seq(Entry) : transcriptLog \o more \in Seq(Entry)
    BY <1>1, ConcatProperties
  <1> QED
    BY <1>2, <1>3, <1>4, <1>5 DEF lines

LEMMA AppendTyped ==
  ASSUME Store!TypeOK, NEW recs \in Seq(Record), NEW result, Store!AppendTranscript(recs, result)
  PROVE  Store!TypeOK'
  <1>1. /\ transcriptLog \o Store!Lines(recs) \in Seq(Store!Entry)
        /\ \A f \in Store!Fragments(recs) :
             transcriptLog \o SubSeq(Store!Lines(recs), 1, f.kept) \in Seq(Store!Entry)
    BY LinesTyped, StoreSets
  <1>2. [manifest EXCEPT !.transcriptSeq = @ + Len(recs)] \in Store!Manifest
    <2>1. manifest.transcriptSeq + Len(recs) \in Nat
      BY DEF Store!TypeOK, Store!Manifest
    <2> QED
      BY <2>1, ManifestParts
  <1>3. transcriptLog' \in Seq(Store!Entry)
    BY <1>1 DEF Store!AppendTranscript
  <1>4. torn' \in BOOLEAN /\ failed' \in BOOLEAN /\ opened' \in BOOLEAN /\ eventLog' = eventLog
    BY DEF Store!AppendTranscript, Store!TypeOK, Store!Fragments
  <1>5. manifest' \in Store!Manifest /\ manifestFile' \in Store!Manifest
    BY <1>2 DEF Store!AppendTranscript, Store!TypeOK, Store!ReplaceManifest
  <1> QED
    BY <1>3, <1>4, <1>5 DEF Store!TypeOK

LEMMA EntryOfEvent ==
  ASSUME Store!TypeOK, NEW c \in Nat, NEW ev \in Event
  PROVE  /\ [cursor |-> c, ev |-> ev] \in Store!EventEntry
         /\ Append(eventLog, [cursor |-> c, ev |-> ev]) \in Seq(Store!EventEntry)
  <1>1. [cursor |-> c, ev |-> ev] \in Store!EventEntry
    BY StoreSets
  <1> QED
    BY <1>1 DEF Store!TypeOK

LEMMA AppendEventTyped ==
  ASSUME Store!TypeOK, NEW c \in Nat, NEW ev \in Event, NEW result, Store!AppendEvent(c, ev, result)
  PROVE  Store!TypeOK'
  <1>1. Append(eventLog, [cursor |-> c, ev |-> ev]) \in Seq(Store!EventEntry)
    BY EntryOfEvent
  <1>2. [manifest EXCEPT !.eventCursor = c] \in Store!Manifest
    BY ManifestParts
  <1>3. eventLog' \in Seq(Store!EventEntry)
    BY <1>1 DEF Store!AppendEvent, Store!TypeOK
  <1>4. /\ torn' \in BOOLEAN /\ failed' \in BOOLEAN /\ opened' \in BOOLEAN
        /\ transcriptLog' = transcriptLog
    BY DEF Store!AppendEvent, Store!TypeOK
  <1>5. manifest' \in Store!Manifest /\ manifestFile' \in Store!Manifest
    BY <1>2 DEF Store!AppendEvent, Store!TypeOK, Store!ReplaceManifest
  <1> QED
    BY <1>3, <1>4, <1>5 DEF Store!TypeOK

LEMMA FreshTyped == Store!FreshManifest \in Store!Manifest
  BY DEF Store!FreshManifest, Store!Manifest, Store!NoRun

LEMMA DiesTyped ==
  ASSUME Store!TypeOK,
         \/ Store!Crash
         \/ \E recs \in Seq(Record) : Store!CrashAppending(recs)
         \/ \E c \in Nat, ev \in Event : Store!CrashAppendingEvent(c, ev)
  PROVE  Store!TypeOK'
  <1>1. CASE Store!Crash
    BY <1>1, FreshTyped DEF Store!Crash, Store!TypeOK, Store!disk
  <1>2. ASSUME NEW recs \in Seq(Record), Store!CrashAppending(recs) PROVE Store!TypeOK'
    <2>1. \A f \in Store!Fragments(recs) :
            transcriptLog \o SubSeq(Store!Lines(recs), 1, f.kept) \in Seq(Store!Entry)
      BY LinesTyped, StoreSets
    <2>2. transcriptLog' \in Seq(Store!Entry) /\ torn' \in BOOLEAN
      BY <1>2, <2>1 DEF Store!CrashAppending, Store!Fragments, Store!TypeOK
    <2> QED
      BY <1>2, <2>2, FreshTyped DEF Store!CrashAppending, Store!TypeOK
  <1>3. ASSUME NEW c \in Nat, NEW ev \in Event, Store!CrashAppendingEvent(c, ev) PROVE Store!TypeOK'
    <2>1. Append(eventLog, [cursor |-> c, ev |-> ev]) \in Seq(Store!EventEntry)
      BY EntryOfEvent
    <2> QED
      BY <1>3, <2>1, FreshTyped DEF Store!CrashAppendingEvent, Store!TypeOK
  <1> QED
    BY <1>1, <1>2, <1>3
-----------------------------------------------------------------------------
(***************************************************************************)
(* The writes, the jobs and the locals the actions build.                  *)
(***************************************************************************)
LEMMA RecordsTyped ==
  ASSUME NEW run \in Nat
  PROVE  /\ \A kind \in Kinds : Fact(kind, run) \in Record
         /\ \A id \in CallIDs : /\ ToolCall(run, id) \in Record
                                /\ \A o \in ToolResultOutcomes : ToolResult(run, id, o) \in Record
         /\ \A o \in RunOutcomes \cup {""}, c \in FailureCauses \cup {""} :
              RunOutcome(run, o, c) \in Record
         /\ SessionClosed \in Record
  BY DEF Fact, ToolCall, ToolResult, RunOutcome, SessionClosed, Record, NoRun, Kinds

LEMMA EventsTyped ==
  ASSUME NEW run \in Nat
  PROVE  /\ \A kind \in RunEvents \cup TerminalEvents \cup SessionEvents : Ev(kind, run) \in Event
         /\ NoEvent \in Event
         /\ [Ev("run_failed", run) EXCEPT !.cause = "interrupted"] \in Event
         /\ \A o \in {"completed", "failed", "cancelled"}, c \in FailureCauses \cup {""} :
              TerminalEvent(run, o, c) \in Event /\ TerminalEvent(run, o, c).kind \in TerminalEvents
              /\ TerminalEvent(run, o, c).run = run
  <1>1. \A kind \in RunEvents \cup TerminalEvents \cup SessionEvents : Ev(kind, run) \in Event
    BY DEF Ev, Event
  <1>2. NoEvent \in Event
    BY DEF NoEvent, Ev, Event, NoRun
  <1>3. \A c \in FailureCauses \cup {""} :
          LET e == [Ev("run_failed", run) EXCEPT !.cause = c]
          IN  e \in Event /\ e.kind = "run_failed" /\ e.run = run
    BY DEF Ev, Event, TerminalEvents
  <1>4. "interrupted" \in FailureCauses
    BY DEF FailureCauses
  <1>5. /\ Ev("run_completed", run) \in Event /\ Ev("run_cancelled", run) \in Event
        /\ Ev("run_completed", run).kind = "run_completed" /\ Ev("run_completed", run).run = run
        /\ Ev("run_cancelled", run).kind = "run_cancelled" /\ Ev("run_cancelled", run).run = run
    BY <1>1 DEF Ev, TerminalEvents
  <1>6. ASSUME NEW c \in FailureCauses \cup {""}
        PROVE  /\ TerminalEvent(run, "completed", c) = Ev("run_completed", run)
               /\ TerminalEvent(run, "cancelled", c) = Ev("run_cancelled", run)
               /\ TerminalEvent(run, "failed", c) = [Ev("run_failed", run) EXCEPT !.cause = c]
    BY DEF TerminalEvent
  <1> QED
    BY <1>1, <1>2, <1>3, <1>4, <1>5, <1>6 DEF TerminalEvents

LEMMA CallsTyped ==
  /\ \A op \in WriteOp, e \in OnError : Write(op, e) \in StoreCall
  /\ \A recs \in Seq(Record), e \in OnError : AppendW(recs, e) \in StoreCall
  /\ \A ev \in Event, e \in OnError : EmitW(ev, e) \in StoreCall /\ PersistW(ev, e) \in StoreCall
  <1>1. NoEvent \in Event
    BY EventsTyped
  <1>2. <<>> \in Seq(Record)
    OBVIOUS
  <1> QED
    BY <1>1, <1>2 DEF Write, AppendW, EmitW, PersistW, StoreCall, WriteOp

LEMMA OneRecord ==
  ASSUME NEW rec \in Record PROVE <<rec>> \in Seq(Record)
  OBVIOUS

LEMMA OneCall ==
  ASSUME NEW a \in StoreCall PROVE <<a>> \in Seq(StoreCall)
  OBVIOUS

LEMMA SomeCalls ==
  ASSUME NEW a \in StoreCall, NEW b \in StoreCall
  PROVE  /\ <<a, b>> \in Seq(StoreCall)
         /\ \A c \in StoreCall : <<a, b, c>> \in Seq(StoreCall)
  OBVIOUS

LEMMA JobTyped ==
  /\ NoJob \in JobType
  /\ \A writes \in Seq(StoreCall), after \in Afters :
       /\ Job(writes, after) \in JobType
       /\ \A cmd \in CommandIDs : CommandJob(cmd, writes, after) \in JobType
  <1>1. "free" \in Afters /\ <<>> \in Seq(StoreCall)
    BY DEF Afters
  <1> QED
    BY <1>1 DEF NoJob, Job, CommandJob, JobType

LEMMA LocalsTyped ==
  ASSUME goroutine \in GoroutineType
  PROVE  /\ NoGoroutine \in GoroutineType
         /\ \A pc \in PCs : Goto(pc) \in GoroutineType /\ Goto(pc).pc = pc
         /\ \A o \in RunOutcomes, c \in FailureCauses \cup {""} :
              Ending(o, c) \in GoroutineType /\ Ending(o, c).pc = "finish" /\ Ending(o, c).outcome = o
         /\ \A c \in FailureCauses :
              Erring(c) \in GoroutineType /\ Erring(c).pc = "response_error"
         /\ \A b \in BOOLEAN : [goroutine EXCEPT !.streamed = b] \in GoroutineType
         /\ NextAttempt \in GoroutineType /\ NextAttempt.pc = "reserve_attempt"
         /\ [Goto("reserve_attempt") EXCEPT !.retry = 0, !.streamed = FALSE] \in GoroutineType
  <1>1. NoAnswer \in Answer /\ <<>> \in Seq(CallIDs)
    BY DEF NoAnswer, Answer
  <1>2. NoGoroutine \in GoroutineType
    BY <1>1 DEF NoGoroutine, GoroutineType, PCs, NoRun
  <1>3. /\ \A pc \in PCs : Goto(pc) \in GoroutineType /\ Goto(pc).pc = pc
        /\ \A c \in FailureCauses : Erring(c) \in GoroutineType /\ Erring(c).pc = "response_error"
    <2>1. \A pc \in PCs : Goto(pc) \in GoroutineType /\ Goto(pc).pc = pc
      BY DEF Goto, GoroutineType, PCs
    <2>2. \A c \in FailureCauses : Erring(c) \in GoroutineType /\ Erring(c).pc = "response_error"
      BY DEF Erring, Goto, GoroutineType, PCs
    <2> QED
      BY <2>1, <2>2
  <1>4. \A o \in RunOutcomes, c \in FailureCauses \cup {""} :
          Ending(o, c) \in GoroutineType /\ Ending(o, c).pc = "finish" /\ Ending(o, c).outcome = o
    <2>1. \A o \in RunOutcomes, c \in FailureCauses \cup {""} : Ending(o, c) \in GoroutineType
      BY <1>2 DEF Ending, GoroutineType, PCs
    <2>2. \A o, c : Ending(o, c).pc = "finish" /\ Ending(o, c).outcome = o
      BY DEF Ending, NoGoroutine
    <2> QED
      BY <2>1, <2>2
  <1>5. \A b \in BOOLEAN : [goroutine EXCEPT !.streamed = b] \in GoroutineType
    BY DEF GoroutineType
  <1>6. NextAttempt \in GoroutineType /\ NextAttempt.pc = "reserve_attempt"
    <2>0. goroutine.retry \in Nat
      BY DEF GoroutineType
    <2>1. goroutine.retry + 1 \in Nat
      BY <2>0
    <2>2. NextAttempt = [goroutine EXCEPT !.pc = "reserve_attempt", !.retry = goroutine.retry + 1,
                                          !.delay = 0]
      BY DEF NextAttempt, Goto, GoroutineType
    <2> QED
      BY <2>1, <2>2 DEF GoroutineType, PCs
  <1>7. [Goto("reserve_attempt") EXCEPT !.retry = 0, !.streamed = FALSE] \in GoroutineType
    BY DEF Goto, GoroutineType, PCs
  <1> QED
    BY <1>2, <1>3, <1>4, <1>5, <1>6, <1>7
-----------------------------------------------------------------------------
(***************************************************************************)
(* Types are kept, action by action.                                       *)
(***************************************************************************)
LEMMA InitTyped == Init => Types
  <1> SUFFICES ASSUME Init PROVE Types
    OBVIOUS
  <1>1. Store!TypeOK
    <2>1. Store!Init
      BY DEF Init
    <2>2. <<>> \in Seq(Store!Entry) /\ <<>> \in Seq(Store!EventEntry)
      OBVIOUS
    <2> QED
      BY <2>1, <2>2, FreshTyped DEF Store!Init, Store!TypeOK
  <1>2. goroutine \in GoroutineType /\ job \in JobType
    <2>1. NoAnswer \in Answer /\ <<>> \in Seq(CallIDs)
      BY DEF NoAnswer, Answer
    <2> QED
      BY <2>1, JobTyped DEF Init, NoGoroutine, GoroutineType, PCs, NoRun
  <1>3. PlaceInv
    BY DEF Init, PlaceInv, At, NoGoroutine, NoJob
  <1>4. records \in Seq(Entry) /\ history \in Seq(Store!EventEntry)
    <2>1. <<>> \in Seq(Entry) /\ <<>> \in Seq(Store!EventEntry)
      OBVIOUS
    <2> QED
      BY <2>1 DEF Init
  <1>5. /\ state = "idle" /\ cursor = 0 /\ partial = FALSE /\ activeTool = NoCall
        /\ cancelled = FALSE /\ acked = {} /\ late = 0 /\ tolerated = "none"
        /\ crashes = 0 /\ failures = 0
    BY DEF Init
  <1> QED
    BY <1>1, <1>2, <1>3, <1>4, <1>5 DEF Types, States

\* The disk, the job and the locals are what may leave their types.
LEMMA TypesKept ==
  ASSUME Types, Store!TypeOK', state' \in States, job' \in JobType, goroutine' \in GoroutineType,
         PlaceInv', records' \in Seq(Entry), history' \in Seq(Store!EventEntry), cursor' \in Nat,
         partial' \in BOOLEAN, activeTool' \in CallIDs \cup {NoCall}, cancelled' \in BOOLEAN,
         UNCHANGED counters
  PROVE  Types'
  BY DEF Types, counters

LEMMA StoreKept == ASSUME Store!TypeOK, UNCHANGED storeVars PROVE Store!TypeOK'
  BY DEF Store!TypeOK, storeVars

LEMMA BeginsTyped ==
  ASSUME Types, NEW j \in JobType, Begins(j), goroutine' \in GoroutineType, PlaceInv',
         partial' \in BOOLEAN, activeTool' \in CallIDs \cup {NoCall}
  PROVE  Types'
  <1>1. Store!TypeOK'
    BY StoreKept DEF Begins, Types
  <1> QED
    BY <1>1, TypesKept DEF Types, Begins

\* Another job than that of finishRun or of a tool that is started.
LEMMA OtherJobTyped ==
  ASSUME Types, NEW writes \in Seq(StoreCall), NEW after \in Afters, after \notin {"settle", "exec"},
         NEW j, Begins(j), LockFree,
         j = Job(writes, after) \/ \E cmd \in CommandIDs : j = CommandJob(cmd, writes, after),
         goroutine' \in GoroutineType, goroutine'.pc = "finish" => UNCHANGED goroutine,
         after = "tool" \/ (goroutine'.pc = "exec" => UNCHANGED goroutine),
         partial' \in BOOLEAN, activeTool' \in CallIDs \cup {NoCall}
  PROVE  Types'
  <1>1. j \in JobType /\ j.after = after
    <2>1. CASE j = Job(writes, after)
      BY <2>1, JobTyped DEF Job
    <2>2. ASSUME NEW cmd \in CommandIDs, j = CommandJob(cmd, writes, after)
          PROVE  j \in JobType /\ j.after = after
      BY <2>2, JobTyped DEF CommandJob
    <2> QED
      BY <2>1, <2>2
  <1>2. job.after = "free"
    BY NoJobFacts DEF LockFree
  <1>3. PlaceInv'
    BY <1>1, <1>2 DEF Begins, PlaceInv, Types, At
  <1> QED
    BY <1>1, <1>3, BeginsTyped

\* Nobody executes finishRun or starts a tool.
MayMove == LockFree \/ goroutine.pc \notin {"finish", "tool"}

LEMMA MovesTyped ==
  ASSUME Types, NEW g \in GoroutineType, Moves(g), MayMove,
         g.pc # "exec", g.pc = "finish" => g.outcome \in {"completed", "failed", "cancelled"}
  PROVE  Types'
  <1>1. Store!TypeOK'
    BY StoreKept DEF Moves, Types
  <1>2. LockFree => job.after = "free"
    BY NoJobFacts DEF LockFree
  <1>3. PlaceInv'
    BY <1>2 DEF Moves, PlaceInv, Types, At, MayMove
  <1> QED
    BY <1>1, <1>3, TypesKept DEF Types, Moves

LEMMA CommandTyped ==
  ASSUME Types, NEW cmd \in CommandIDs, Command(cmd)
  PROVE  Types'
  <1>1. manifest.nextRun \in Nat /\ NextRun \in Nat /\ NoRun \in Nat
    BY DEF Types, Store!TypeOK, Store!Manifest, NextRun, NoRun
  <1> DEFINE begin == Write("begin", "fault")
             user == AppendW(<<Fact("user_message", NextRun)>>, "fault")
             inst == AppendW(<<Fact("instructions_loaded", NextRun)>>, "fault")
             start == EmitW(Ev("run_started", NextRun), "fault")
             record == Write("record", "return")
             warning == EmitW(Ev("warning", NoRun), "fault")
             resumed == EmitW(Ev("session_resumed", NoRun), "fault")
             fact == AppendW(<<SessionClosed>>, "fault")
             close == Write("close", "fault")
             told == EmitW(Ev("session_closed", NoRun), "fault")
  <1>2. /\ Fact("user_message", NextRun) \in Record /\ Fact("instructions_loaded", NextRun) \in Record
        /\ SessionClosed \in Record
    BY <1>1, RecordsTyped DEF Kinds
  <1>3. /\ Ev("run_started", NextRun) \in Event /\ Ev("warning", NoRun) \in Event
        /\ Ev("session_resumed", NoRun) \in Event /\ Ev("session_closed", NoRun) \in Event
    BY <1>1, EventsTyped DEF RunEvents, SessionEvents
  <1>4. {begin, user, inst, start, record, warning, resumed, fact, close, told} \subseteq StoreCall
    BY <1>2, <1>3, CallsTyped, OneRecord DEF WriteOp, OnError
  <1>5. /\ {"started", "rejected", "done", "cancelled", "closed"} \subseteq Afters
        /\ goroutine \in GoroutineType /\ partial \in BOOLEAN /\ activeTool \in CallIDs \cup {NoCall}
    BY DEF Types, Afters
  <1> HIDE DEF begin, user, inst, start, record, warning, resumed, fact, close, told
  <1>6. ASSUME NEW writes \in Seq(StoreCall), NEW after \in {"started", "rejected", "done", "cancelled", "closed"},
               Begins(CommandJob(cmd, writes, after)), UNCHANGED <<partial, activeTool, goroutine>>,
               LockFree
        PROVE  Types'
    BY <1>5, <1>6, OtherJobTyped
  <1>7. CASE Submit(cmd)
    <2> DEFINE p == <<begin, user>>
               q == IF HasInstructions THEN <<inst>> ELSE <<>>
               r == <<start>>
    <2>1. p \in Seq(StoreCall) /\ q \in Seq(StoreCall) /\ r \in Seq(StoreCall)
      BY <1>4
    <2>2. Begins(CommandJob(cmd, p \o q \o r, "started"))
      BY <1>7 DEF Submit, begin, user, inst, start
    <2> HIDE DEF p, q, r
    <2>3. p \o q \o r \in Seq(StoreCall)
      BY <2>1, ConcatProperties
    <2> QED
      BY <1>6, <1>7, <2>2, <2>3 DEF Submit, Takes
  <1>8. CASE SubmitSensitive(cmd)
    <2>1. <<record, warning>> \in Seq(StoreCall)
      BY <1>4
    <2>2. Begins(CommandJob(cmd, <<record, warning>>, "rejected"))
      BY <1>8 DEF SubmitSensitive, record, warning
    <2> QED
      BY <1>6, <1>8, <2>1, <2>2 DEF SubmitSensitive, Takes
  <1>9. CASE Resume(cmd)
    <2>1. <<record, resumed>> \in Seq(StoreCall)
      BY <1>4
    <2>2. Begins(CommandJob(cmd, <<record, resumed>>, "done"))
      BY <1>9 DEF Resume, record, resumed
    <2> QED
      BY <1>6, <1>9, <2>1, <2>2 DEF Resume, Takes
  <1>10. CASE Cancel(cmd)
    <2>1. <<record>> \in Seq(StoreCall)
      BY <1>4
    <2>2. Begins(CommandJob(cmd, <<record>>, "cancelled"))
      BY <1>10 DEF Cancel, record
    <2> QED
      BY <1>6, <1>10, <2>1, <2>2 DEF Cancel, Takes
  <1>11. CASE Close(cmd)
    <2> DEFINE p == <<record>>
               q == IF state = "closed" THEN <<>> ELSE <<fact, close, told>>
    <2>1. p \in Seq(StoreCall) /\ q \in Seq(StoreCall)
      BY <1>4
    <2>2. Begins(CommandJob(cmd, p \o q, "closed"))
      BY <1>11 DEF Close, record, fact, close, told
    <2> HIDE DEF p, q
    <2>3. p \o q \in Seq(StoreCall)
      BY <2>1, ConcatProperties
    <2> QED
      BY <1>6, <1>11, <2>2, <2>3 DEF Close, Takes
  <1> QED
    BY <1>7, <1>8, <1>9, <1>10, <1>11 DEF Command

LEMMA CauseTyped == ASSUME NEW class \in FailureClasses PROVE CauseOf(class) \in FailureCauses
  BY DEF FailureClasses, CauseOf, FailureCauses, Retryable

LEMMA LocalStepsTyped ==
  ASSUME Types,
         \/ LoopTop \/ Sleep \/ WakeUp \/ ResponseError \/ ProviderAnswers \/ ProviderFails
         \/ ProviderCancelled \/ CallsDone
  PROVE  Types'
  <1>1. /\ \A pc \in PCs : Goto(pc) \in GoroutineType /\ Goto(pc).pc = pc
        /\ \A o \in RunOutcomes, c \in FailureCauses \cup {""} :
             Ending(o, c) \in GoroutineType /\ Ending(o, c).pc = "finish" /\ Ending(o, c).outcome = o
        /\ \A c \in FailureCauses : Erring(c) \in GoroutineType /\ Erring(c).pc = "response_error"
    <2>1. goroutine \in GoroutineType
      BY DEF Types
    <2> QED
      BY <2>1, LocalsTyped
  <1>2. NextAttempt \in GoroutineType /\ NextAttempt.pc = "reserve_attempt"
    BY LocalsTyped DEF Types
  <1>3. \A a \in Answers : /\ [Goto("answered") EXCEPT !.answer = a] \in GoroutineType
                           /\ [Goto("answered") EXCEPT !.answer = a].pc = "answered"
    BY SessionAssumption DEF Types, GoroutineType, Goto, PCs
  <1>4. \A d \in Delays : /\ [Goto("reserve_delay") EXCEPT !.delay = d] \in GoroutineType
                          /\ [Goto("reserve_delay") EXCEPT !.delay = d].pc = "reserve_delay"
    BY SessionAssumption DEF Types, GoroutineType, Goto, PCs
  <1>5. goroutine.cause \in FailureCauses \cup {""}
    BY DEF Types, GoroutineType
  <1>6. \A class \in ProviderFailures : CauseOf(class) \in FailureCauses
    BY CauseTyped, SessionAssumption
  <1>7. CASE LoopTop
    <2>1. MayMove /\ \/ Moves(Ending("cancelled", "")) \/ Moves(Goto("reserve_call"))
                            \/ Moves(Ending("failed", "context_limit"))
      BY <1>7 DEF LoopTop, At, MayMove
    <2> QED
      BY <1>1, <2>1, MovesTyped DEF PCs, RunOutcomes, FailureCauses
  <1>8. CASE Sleep \/ WakeUp
    <2>1. MayMove /\ \/ Moves(Goto("parked")) \/ Moves(NextAttempt)
                            \/ Moves(Erring("engine_invariant"))
      BY <1>8 DEF Sleep, WakeUp, At, MayMove
    <2> QED
      BY <1>1, <1>2, <2>1, MovesTyped DEF PCs, FailureCauses
  <1>9. CASE ResponseError
    <2>1. MayMove /\ (Moves(Ending("cancelled", "")) \/ Moves(Ending("failed", goroutine.cause)))
      BY <1>9 DEF ResponseError, At, MayMove
    <2> QED
      BY <1>1, <1>5, <2>1, MovesTyped DEF RunOutcomes
  <1>10. CASE ProviderAnswers
    <2>1. PICK a \in Answers : Moves([Goto("answered") EXCEPT !.answer = a])
      BY <1>10 DEF ProviderAnswers
    <2>2. MayMove
      BY <1>10 DEF ProviderAnswers, At, MayMove
    <2> QED
      BY <1>3, <2>1, <2>2, MovesTyped
  <1>11. CASE ProviderFails
    <2>1. MayMove
      BY <1>11 DEF ProviderFails, At, MayMove
    <2>2. \/ \E class \in ProviderFailures : Moves(Erring(CauseOf(class)))
          \/ \E d \in Delays : Moves([Goto("reserve_delay") EXCEPT !.delay = d])
      BY <1>11 DEF ProviderFails
    <2>3. ASSUME NEW class \in ProviderFailures, Moves(Erring(CauseOf(class))) PROVE Types'
      BY <1>1, <1>6, <2>1, <2>3, MovesTyped
    <2>4. ASSUME NEW d \in Delays, Moves([Goto("reserve_delay") EXCEPT !.delay = d]) PROVE Types'
      BY <1>4, <2>1, <2>4, MovesTyped
    <2> QED
      BY <2>2, <2>3, <2>4
  <1>12. CASE ProviderCancelled
    <2>1. MayMove /\ Moves(Erring("engine_invariant"))
      BY <1>12 DEF ProviderCancelled, At, MayMove
    <2> QED
      BY <1>1, <2>1, MovesTyped DEF FailureCauses
  <1>13. CASE CallsDone
    <2>1. MayMove /\ \/ Moves(Ending("cancelled", "")) \/ Moves(Goto("loop"))
                            \/ Moves(Ending("failed", "sensitive_content_blocked"))
      BY <1>13 DEF CallsDone, At, MayMove
    <2> QED
      BY <1>1, <2>1, MovesTyped DEF PCs, RunOutcomes, FailureCauses
  <1> QED
    BY <1>7, <1>8, <1>9, <1>10, <1>11, <1>12, <1>13

LEMMA ReservationTyped ==
  ASSUME Types, NEW counter \in Store!Counters, NEW amount \in Nat,
         NEW granted \in GoroutineType, NEW exhausted \in GoroutineType, NEW broken \in GoroutineType,
         Reserve(counter, amount, granted, exhausted, broken), late' \in Nat, MayMove,
         \A g \in {granted, exhausted, broken} :
           g.pc # "exec" /\ (g.pc = "finish" => g.outcome \in {"completed", "failed", "cancelled"})
  PROVE  Types'
  <1>1. Store!TypeOK'
    <2>1. ASSUME NEW result, Store!ReserveBudget(goroutine.run, counter, amount, result)
          PROVE  Store!TypeOK'
      BY <2>1, ReserveTyped DEF Types
    <2>2. UNCHANGED storeVars => Store!TypeOK'
      BY StoreKept DEF Types
    <2> QED
      BY <2>1, <2>2 DEF Reserve
  <1>2. goroutine' \in {granted, exhausted, broken} /\ failures' \in Nat
    BY DEF Reserve, Types
  <1>3. UNCHANGED <<state, records, history, cursor, partial, activeTool, job, cancelled,
                    acked, tolerated, crashes>>
    BY DEF Reserve
  <1>4. PlaceInv'
    <2>1. LockFree => job.after = "free"
      BY NoJobFacts DEF LockFree
    <2> QED
      BY <1>2, <1>3, <2>1 DEF PlaceInv, Types, At, MayMove
  <1> QED
    BY <1>1, <1>2, <1>3, <1>4 DEF Types

LEMMA ReservationsTyped ==
  ASSUME Types, ReserveCall \/ ReserveAttempt \/ ReserveDelay
  PROVE  Types'
  <1>1. /\ \A pc \in PCs : Goto(pc) \in GoroutineType /\ Goto(pc).pc = pc
        /\ \A o \in RunOutcomes, c \in FailureCauses \cup {""} :
             Ending(o, c) \in GoroutineType /\ Ending(o, c).pc = "finish" /\ Ending(o, c).outcome = o
        /\ \A c \in FailureCauses : Erring(c) \in GoroutineType /\ Erring(c).pc = "response_error"
    <2>1. goroutine \in GoroutineType
      BY DEF Types
    <2> QED
      BY <2>1, LocalsTyped
  <1>a. late \in Nat /\ late + 1 \in Nat /\ goroutine.delay \in Nat
    <2>1. late \in Nat /\ goroutine \in GoroutineType
      BY DEF Types
    <2>2. goroutine.delay \in Nat
      BY <2>1 DEF GoroutineType
    <2> QED
      BY <2>1, <2>2
  <1>2. Store!Counters = {"logical_model_call", "transport_attempt", "retry_delay"}
    BY DEF Store!Counters
  <1>3. CASE ReserveCall
    <2> DEFINE g == [Goto("reserve_attempt") EXCEPT !.retry = 0, !.streamed = FALSE]
    <2>1. g \in GoroutineType /\ g.pc = "reserve_attempt"
      BY DEF Types, GoroutineType, Goto, PCs
    <2>2. /\ MayMove /\ late' = late
          /\ Reserve("logical_model_call", 0, g, Ending("failed", "budget_exhausted"),
                     Ending("failed", "budget_exhausted"))
      BY <1>3 DEF ReserveCall, At, MayMove
    <2> HIDE DEF g
    <2>3. Ending("failed", "budget_exhausted") \in GoroutineType
          /\ Ending("failed", "budget_exhausted").outcome = "failed"
          /\ Ending("failed", "budget_exhausted").pc = "finish"
      BY <1>1 DEF RunOutcomes, FailureCauses
    <2> QED
      BY <1>a, <1>2, <2>1, <2>2, <2>3, ReservationTyped
  <1>4. CASE ReserveAttempt \/ ReserveDelay
    <2>0. MayMove /\ late' \in Nat
      BY <1>a, <1>4 DEF ReserveAttempt, ReserveDelay, At, MayMove
    <2>1. /\ \/ Reserve("transport_attempt", 0, Goto("attempt"), Erring("budget_exhausted"),
                        Erring("engine_invariant"))
             \/ Reserve("retry_delay", goroutine.delay, Goto("retry"), Erring("budget_exhausted"),
                        Erring("engine_invariant"))
      BY <1>4 DEF ReserveAttempt, ReserveDelay
    <2>2. /\ Goto("attempt") \in GoroutineType /\ Goto("attempt").pc = "attempt"
          /\ Goto("retry") \in GoroutineType /\ Goto("retry").pc = "retry"
          /\ Erring("budget_exhausted") \in GoroutineType
          /\ Erring("budget_exhausted").pc = "response_error"
          /\ Erring("engine_invariant") \in GoroutineType
          /\ Erring("engine_invariant").pc = "response_error"
      BY <1>1 DEF PCs, FailureCauses
    <2>3. CASE Reserve("transport_attempt", 0, Goto("attempt"), Erring("budget_exhausted"),
                        Erring("engine_invariant"))
      BY <1>2, <2>0, <2>2, <2>3, ReservationTyped
    <2>4. CASE Reserve("retry_delay", goroutine.delay, Goto("retry"), Erring("budget_exhausted"),
                        Erring("engine_invariant"))
      BY <1>a, <1>2, <2>0, <2>2, <2>4, ReservationTyped
    <2> QED
      BY <2>1, <2>3, <2>4
  <1> QED
    BY <1>3, <1>4

\* A job of the goroutine other than finishRun's.
LEMMA GoroutineJobTyped ==
  ASSUME Types, NEW writes \in Seq(StoreCall),
         NEW after \in {"attempt", "sleep", "check", "calls", "tool"}, LockFree,
         Begins(Job(writes, after)), goroutine' \in GoroutineType, goroutine'.pc # "finish",
         after = "tool" \/ goroutine'.pc # "exec",
         partial' \in BOOLEAN, activeTool' \in CallIDs \cup {NoCall}
  PROVE  Types'
  <1>1. after \in Afters /\ after \notin {"settle", "exec"}
    BY DEF Afters, AfterRun
  <1> QED
    BY <1>1, OtherJobTyped

LEMMA RunTyped == ASSUME Types PROVE /\ goroutine \in GoroutineType /\ goroutine.run \in Nat
                                     /\ partial \in BOOLEAN /\ activeTool \in CallIDs \cup {NoCall}
  <1>1. goroutine \in GoroutineType
    BY DEF Types
  <1>2. goroutine.run \in Nat
    BY <1>1 DEF GoroutineType
  <1> QED
    BY <1>1, <1>2 DEF Types

LEMMA StreamTyped ==
  ASSUME Types, StreamDelta \/ RetryStep \/ Answered
  PROVE  Types'
  <1>1. /\ EmitW(Ev("assistant_delta", goroutine.run), "fail_stream") \in StoreCall
        /\ EmitW(Ev("retry_scheduled", goroutine.run), "fail_stream") \in StoreCall
    <2>1. /\ Ev("assistant_delta", goroutine.run) \in Event
          /\ Ev("retry_scheduled", goroutine.run) \in Event
      BY RunTyped, EventsTyped DEF RunEvents
    <2> QED
      BY <2>1, CallsTyped DEF OnError
  <1>2. /\ \A b \in BOOLEAN : [goroutine EXCEPT !.streamed = b] \in GoroutineType
        /\ \A b : [goroutine EXCEPT !.streamed = b].pc = goroutine.pc
        /\ Goto("check") \in GoroutineType /\ Goto("check").pc = "check"
    <2>1. goroutine \in GoroutineType
      BY DEF Types
    <2>2. \A b : [goroutine EXCEPT !.streamed = b].pc = goroutine.pc
      BY <2>1 DEF GoroutineType
    <2> QED
      BY <2>1, <2>2, LocalsTyped DEF PCs
  <1> DEFINE delta == EmitW(Ev("assistant_delta", goroutine.run), "fail_stream")
             again == EmitW(Ev("retry_scheduled", goroutine.run), "fail_stream")
  <1>3. <<delta>> \in Seq(StoreCall) /\ <<again>> \in Seq(StoreCall)
    BY <1>1, OneCall
  <1>4. CASE StreamDelta
    <2>1. /\ Begins(Job(<<delta>>, "attempt")) /\ goroutine' = [goroutine EXCEPT !.streamed = TRUE]
          /\ partial' = TRUE /\ activeTool' = activeTool /\ goroutine.pc = "attempt" /\ LockFree
      BY <1>4 DEF StreamDelta, At
    <2> HIDE DEF delta, again
    <2>2. goroutine' \in GoroutineType /\ goroutine'.pc \notin {"finish", "exec"}
      BY <1>2, <2>1
    <2> QED
      BY <1>3, <2>1, <2>2, RunTyped, GoroutineJobTyped
  <1>5. CASE RetryStep
    <2>1. /\ Begins(Job(<<again>>, "sleep")) /\ goroutine' = [goroutine EXCEPT !.streamed = FALSE]
          /\ partial' = FALSE /\ activeTool' = activeTool /\ goroutine.pc = "retry" /\ LockFree
      BY <1>5 DEF RetryStep, At
    <2> HIDE DEF delta, again
    <2>2. goroutine' \in GoroutineType /\ goroutine'.pc \notin {"finish", "exec"}
      BY <1>2, <2>1
    <2> QED
      BY <1>3, <2>1, <2>2, RunTyped, GoroutineJobTyped
  <1>6. CASE Answered /\ ~ Moves(Goto("check"))
    <2>1. /\ Begins(Job(<<delta>>, "check")) /\ goroutine' = [goroutine EXCEPT !.streamed = TRUE]
          /\ partial' = TRUE /\ activeTool' = activeTool /\ goroutine.pc = "answered" /\ LockFree
      BY <1>6 DEF Answered, At, MayMove
    <2> HIDE DEF delta, again
    <2>2. goroutine' \in GoroutineType /\ goroutine'.pc \notin {"finish", "exec"}
      BY <1>2, <2>1
    <2> QED
      BY <1>3, <2>1, <2>2, RunTyped, GoroutineJobTyped
  <1>7. CASE Answered /\ Moves(Goto("check"))
    <2>1. MayMove /\ Moves(Goto("check"))
      BY <1>7 DEF Answered, At, MayMove
    <2> QED
      BY <1>2, <2>1, MovesTyped
  <1> QED
    BY <1>4, <1>5, <1>6, <1>7

LEMMA CheckTyped == ASSUME Types, CheckResponse PROVE Types'
  <1> DEFINE block == AppendW(<<Fact("assistant_block", goroutine.run)>>, "fail_run")
             told == EmitW(Ev("assistant_text", goroutine.run), "fail_run")
  <1>1. block \in StoreCall /\ told \in StoreCall
    <2>1. Fact("assistant_block", goroutine.run) \in Record /\ Ev("assistant_text", goroutine.run) \in Event
      BY RunTyped, RecordsTyped, EventsTyped DEF Kinds, RunEvents
    <2> QED
      BY <2>1, OneRecord, CallsTyped DEF OnError
  <1>2. /\ Goto("calls") \in GoroutineType /\ Goto("calls").pc = "calls"
        /\ \A c \in FailureCauses \cup {""}, o \in {"failed", "cancelled"} :
             Ending(o, c) \in GoroutineType /\ Ending(o, c).pc = "finish" /\ Ending(o, c).outcome = o
    <2>1. goroutine \in GoroutineType /\ "calls" \in PCs /\ {"failed", "cancelled"} \subseteq RunOutcomes
      BY RunTyped DEF PCs, RunOutcomes
    <2>2. Goto("calls") \in GoroutineType /\ Goto("calls").pc = "calls"
      BY <2>1, LocalsTyped
    <2> QED
      BY <2>1, <2>2, LocalsTyped
  <1>3. goroutine.pc = "check" /\ LockFree /\ MayMove
    BY DEF CheckResponse, At, MayMove
  <1>4. \/ Moves(Ending("cancelled", "")) \/ Moves(Ending("failed", "engine_invariant"))
        \/ Moves(Goto("calls"))
        \/ /\ partial' = FALSE
           /\ goroutine' \in {Ending("failed", "provider_output_limit"), Goto("calls")}
           /\ UNCHANGED <<storeVars, state, records, history, cursor, activeTool, job, cancelled, counters>>
        \/ /\ partial' = FALSE
           /\ Begins(Job(<<block, told>>, "calls"))
           /\ UNCHANGED <<activeTool, goroutine>>
    BY DEF CheckResponse
  <1>5. CASE \/ Moves(Ending("cancelled", "")) \/ Moves(Ending("failed", "engine_invariant"))
             \/ Moves(Goto("calls"))
    BY <1>2, <1>3, <1>5, MovesTyped DEF FailureCauses
  <1>6. CASE /\ partial' = FALSE
             /\ goroutine' \in {Ending("failed", "provider_output_limit"), Goto("calls")}
             /\ UNCHANGED <<storeVars, state, records, history, cursor, activeTool, job, cancelled, counters>>
    <2>1. Store!TypeOK'
      BY <1>6, StoreKept DEF Types
    <2>2. /\ goroutine' \in GoroutineType
          /\ goroutine'.pc # "exec"
          /\ goroutine'.pc = "finish" => goroutine'.outcome = "failed"
      BY <1>2, <1>6 DEF FailureCauses
    <2>3. PlaceInv'
      <3>1. job.after = "free" /\ job' = job
        BY <1>3, <1>6, NoJobFacts DEF LockFree
      <3> QED
        BY <2>2, <3>1 DEF PlaceInv, At
    <2> QED
      BY <1>6, <2>1, <2>2, <2>3, TypesKept DEF Types
  <1>7. CASE /\ partial' = FALSE
             /\ Begins(Job(<<block, told>>, "calls"))
             /\ UNCHANGED <<activeTool, goroutine>>
    <2> HIDE DEF block, told
    <2>1. <<block, told>> \in Seq(StoreCall)
      BY <1>1, SomeCalls
    <2> QED
      BY <1>3, <1>7, <2>1, RunTyped, GoroutineJobTyped
  <1> QED
    BY <1>4, <1>5, <1>6, <1>7

LEMMA CallRecords ==
  ASSUME NEW calls \in Seq(CallIDs), NEW run \in Nat
  PROVE  [i \in DOMAIN calls |-> ToolCall(run, calls[i])] \in Seq(Record)
  <1>1. DOMAIN calls = 1..Len(calls) /\ Len(calls) \in Nat
    OBVIOUS
  <1>2. \A i \in 1..Len(calls) : ToolCall(run, calls[i]) \in Record
    <2>1. \A i \in 1..Len(calls) : calls[i] \in CallIDs
      BY ElementOfSeq
    <2> QED
      BY <2>1, RecordsTyped
  <1> QED
    BY <1>1, <1>2

LEMMA RecordCallsTyped == ASSUME Types, RecordCalls PROVE Types'
  <1> DEFINE calls == goroutine.answer.calls
             g == [goroutine EXCEPT !.rest = calls, !.answer = NoAnswer, !.streamed = FALSE,
                                    !.stopped = FALSE, !.blocked = FALSE]
             recs == [i \in DOMAIN calls |-> ToolCall(goroutine.run, calls[i])]
  <1>1. goroutine \in GoroutineType /\ calls \in Seq(CallIDs)
    BY DEF Types, GoroutineType, Answer
  <1>2. g \in GoroutineType /\ g.pc = goroutine.pc
    <2>1. NoAnswer \in Answer
      BY DEF NoAnswer, Answer
    <2> QED
      BY <1>1, <2>1 DEF GoroutineType
  <1>3. AppendW(recs, "fault_run") \in StoreCall
    BY <1>1, RunTyped, CallRecords, CallsTyped DEF OnError
  <1>4. goroutine.pc = "calls" /\ LockFree /\ MayMove
    BY DEF RecordCalls, At, MayMove
  <1>5. \/ Moves(Ending("completed", "")) \/ Moves(Ending("failed", "provider_protocol"))
        \/ /\ goroutine' = g /\ Begins(Job(<<AppendW(recs, "fault_run")>>, "tool"))
           /\ UNCHANGED <<partial, activeTool>>
    BY DEF RecordCalls
  <1>6. \A o \in RunOutcomes, c \in FailureCauses \cup {""} :
          Ending(o, c) \in GoroutineType /\ Ending(o, c).pc = "finish" /\ Ending(o, c).outcome = o
    BY <1>1, LocalsTyped
  <1>7. CASE Moves(Ending("completed", "")) \/ Moves(Ending("failed", "provider_protocol"))
    BY <1>4, <1>6, <1>7, MovesTyped DEF RunOutcomes, FailureCauses
  <1> HIDE DEF g, recs
  <1>8. CASE /\ goroutine' = g /\ Begins(Job(<<AppendW(recs, "fault_run")>>, "tool"))
             /\ UNCHANGED <<partial, activeTool>>
    <2>1. <<AppendW(recs, "fault_run")>> \in Seq(StoreCall)
      BY <1>3, OneCall
    <2> QED
      BY <1>2, <1>4, <1>8, <2>1, RunTyped, GoroutineJobTyped
  <1> QED
    BY <1>5, <1>7, <1>8

LEMMA FinishesToolTyped ==
  ASSUME Types, NEW outcome \in ToolResultOutcomes, goroutine.rest # <<>>, FinishesTool(outcome),
         LockFree, goroutine.pc # "finish"
  PROVE  Types'
  <1> DEFINE id == Head(goroutine.rest)
             result == AppendW(<<ToolResult(goroutine.run, id, outcome)>>, "fault_run")
             told == EmitW(Ev("tool_finished", goroutine.run), "fault_run")
             g == [goroutine EXCEPT !.rest = Tail(@), !.stopped = @ \/ outcome # "success",
                                    !.blocked = @ \/ outcome = "blocked"]
  <1>1. goroutine \in GoroutineType /\ goroutine.rest \in Seq(CallIDs)
    BY DEF Types, GoroutineType
  <1>2. id \in CallIDs /\ Tail(goroutine.rest) \in Seq(CallIDs)
    BY <1>1, HeadTailProperties
  <1>3. ToolResult(goroutine.run, id, outcome) \in Record /\ Ev("tool_finished", goroutine.run) \in Event
    <2>1. Ev("tool_finished", goroutine.run) \in Event
      BY RunTyped, EventsTyped DEF RunEvents
    <2> HIDE DEF id
    <2> QED
      BY <1>2, <2>1, RunTyped, RecordsTyped
  <1>4. result \in StoreCall /\ told \in StoreCall
    BY <1>3, OneRecord, CallsTyped DEF OnError
  <1>5. g \in GoroutineType /\ g.pc = goroutine.pc
    BY <1>1, <1>2 DEF GoroutineType
  <1>6. goroutine' = g /\ activeTool' = NoCall /\ partial' = partial /\ Begins(Job(<<result, told>>, "tool"))
    BY DEF FinishesTool
  <1> HIDE DEF g, result, told
  <1>7. <<result, told>> \in Seq(StoreCall)
    BY <1>4, SomeCalls
  <1> QED
    BY <1>5, <1>6, <1>7, RunTyped, GoroutineJobTyped

LEMMA FinishRunTyped == ASSUME Types, FinishRun PROVE Types'
  <1> DEFINE run == goroutine.run
             p == IF goroutine.outcome = "cancelled"
                  THEN <<AppendW(<<Fact("cancellation_boundary", run)>>, "fault")>> ELSE <<>>
             fact == AppendW(<<RunOutcome(run, goroutine.outcome, goroutine.cause)>>, "fault")
             event == PersistW(TerminalEvent(run, goroutine.outcome, goroutine.cause), "fault")
             mark == Write("finish", "fault")
             q == <<fact, event, mark>>
  <1>1. /\ goroutine.outcome \in {"completed", "failed", "cancelled"}
        /\ goroutine.cause \in FailureCauses \cup {""}
    BY DEF Types, PlaceInv, FinishRun, GoroutineType
  <1>2. /\ Fact("cancellation_boundary", run) \in Record
        /\ RunOutcome(run, goroutine.outcome, goroutine.cause) \in Record
        /\ TerminalEvent(run, goroutine.outcome, goroutine.cause) \in Event
    BY <1>1, RunTyped, RecordsTyped, EventsTyped DEF Kinds, RunOutcomes
  <1>3. fact \in StoreCall /\ event \in StoreCall /\ mark \in StoreCall
        /\ AppendW(<<Fact("cancellation_boundary", run)>>, "fault") \in StoreCall
    BY <1>2, OneRecord, CallsTyped DEF OnError, WriteOp
  <1>4. p \in Seq(StoreCall)
    BY <1>3, OneCall
  <1>5. Begins(Job(p \o q, "settle")) /\ UNCHANGED <<partial, activeTool, goroutine>>
    BY DEF FinishRun
  <1>6. q \in Seq(StoreCall)
    <2> HIDE DEF fact, event, mark
    <2> QED
      BY <1>3, SomeCalls
  <1> HIDE DEF p, q
  <1>7. p \o q \in Seq(StoreCall)
    BY <1>4, <1>6, ConcatProperties
  <1>8. Job(p \o q, "settle") \in JobType
    BY <1>7, JobTyped DEF Afters, AfterRun
  <1>9. PlaceInv'
    <2>1. job'.after = "settle" /\ goroutine' = goroutine /\ goroutine.pc = "finish"
      BY <1>5 DEF Begins, Job, FinishRun, At
    <2> QED
      BY <1>1, <2>1 DEF PlaceInv, At
  <1> QED
    BY <1>5, <1>8, <1>9, RunTyped, BeginsTyped

LEMMA ToolsTyped == ASSUME Types, NextTool \/ ExecuteTool PROVE Types'
  <1>1. /\ LockFree /\ goroutine.pc \in {"tool", "exec"} /\ goroutine.rest # <<>>
        /\ \/ \E outcome \in ToolResultOutcomes : FinishesTool(outcome)
           \/ /\ activeTool' = Head(goroutine.rest) /\ goroutine.pc = "tool"
              /\ Begins(Job(<<EmitW(Ev("tool_started", goroutine.run), "fault")>>, "exec"))
              /\ UNCHANGED <<partial, goroutine>>
    <2>1. job.after = "free" \/ ~ LockFree
      BY NoJobFacts DEF LockFree
    <2>2. CASE NextTool
      BY <2>2 DEF NextTool, At, ToolResultOutcomes
    <2>3. CASE ExecuteTool
      BY <2>1, <2>3 DEF ExecuteTool, At, ToolResultOutcomes, Types, PlaceInv
    <2> QED
      BY <2>2, <2>3
  <1>2. ASSUME NEW outcome \in ToolResultOutcomes, FinishesTool(outcome) PROVE Types'
    BY <1>1, <1>2, FinishesToolTyped
  <1>3. CASE /\ activeTool' = Head(goroutine.rest) /\ goroutine.pc = "tool"
             /\ Begins(Job(<<EmitW(Ev("tool_started", goroutine.run), "fault")>>, "exec"))
             /\ UNCHANGED <<partial, goroutine>>
    <2> DEFINE w == EmitW(Ev("tool_started", goroutine.run), "fault")
    <2>1. goroutine.rest \in Seq(CallIDs)
      BY DEF Types, GoroutineType
    <2>2. activeTool' \in CallIDs
      BY <1>1, <1>3, <2>1, HeadTailProperties
    <2>3. w \in StoreCall
      <3>1. Ev("tool_started", goroutine.run) \in Event
        BY RunTyped, EventsTyped DEF RunEvents
      <3> QED
        BY <3>1, CallsTyped DEF OnError
    <2>4. Begins(Job(<<w>>, "exec"))
      BY <1>3
    <2> HIDE DEF w
    <2>5. Job(<<w>>, "exec") \in JobType /\ Job(<<w>>, "exec").after = "exec"
      <3>1. <<w>> \in Seq(StoreCall) /\ "exec" \in Afters
        BY <2>3, OneCall DEF Afters, AfterRun
      <3> QED
        BY <3>1, JobTyped, JobFacts
    <2>6. PlaceInv'
      <3>1. job'.after = "exec" /\ goroutine' = goroutine
        BY <1>3, <2>4, <2>5 DEF Begins
      <3> QED
        BY <1>1, <1>3, <3>1 DEF PlaceInv, At
    <2> QED
      BY <1>3, <2>2, <2>4, <2>5, <2>6, RunTyped, BeginsTyped
  <1> QED
    BY <1>1, <1>2, <1>3
-----------------------------------------------------------------------------
(***************************************************************************)
(* The holder of the mutex, the death of the process and the next one.     *)
(***************************************************************************)
LEMMA HeadTyped ==
  ASSUME Types, job.writes # <<>>
  PROVE  /\ Head(job.writes) \in StoreCall /\ Tail(job.writes) \in Seq(StoreCall)
         /\ Head(job.writes).recs \in Seq(Record) /\ Head(job.writes).ev \in Event
         /\ [job EXCEPT !.writes = Tail(@)] \in JobType
         /\ [job EXCEPT !.writes = Tail(@)].after = job.after
  <1>1. job \in JobType /\ job.writes \in Seq(StoreCall)
    BY DEF Types, JobType
  <1>2. Head(job.writes) \in StoreCall /\ Tail(job.writes) \in Seq(StoreCall)
    BY <1>1, HeadTailProperties
  <1>3. Head(job.writes).recs \in Seq(Record) /\ Head(job.writes).ev \in Event
    BY <1>2 DEF StoreCall
  <1>4. /\ [job EXCEPT !.writes = Tail(@)] \in JobType
        /\ [job EXCEPT !.writes = Tail(@)].after = job.after
    BY <1>1, <1>2 DEF JobType
  <1> QED
    BY <1>2, <1>3, <1>4

LEMMA StoreWriteTyped ==
  ASSUME Types, NEW w \in StoreCall, NEW result, StoreWrite(w, result)
  PROVE  Store!TypeOK'
  <1>1. /\ Store!TypeOK /\ job.command \subseteq CommandIDs /\ cursor + 1 \in Nat
        /\ w.recs \in Seq(Record) /\ w.ev \in Event
    <2>1. Store!TypeOK /\ job \in JobType /\ cursor \in Nat
      BY DEF Types
    <2>2. job.command \subseteq CommandIDs
      BY <2>1 DEF JobType
    <2>3. w.recs \in Seq(Record) /\ w.ev \in Event
      BY DEF StoreCall
    <2> QED
      BY <2>1, <2>2, <2>3
  <1>2. ASSUME NEW cmd \in job.command, Store!BeginRun(cmd, result) \/ Store!RecordCommand(cmd, result)
        PROVE  Store!TypeOK'
    <2>1. [manifest EXCEPT !.seen = @ \cup {cmd}] \in Store!Manifest
      BY <1>1, ManifestParts
    <2>2. CASE Store!RecordCommand(cmd, result)
      <3>1. Store!OnlyManifest([manifest EXCEPT !.seen = @ \cup {cmd}], result)
        BY <2>2 DEF Store!RecordCommand
      <3> QED
        BY <1>1, <2>1, <3>1, OnlyManifestTyped
    <2> QED
      BY <1>1, <1>2, <2>2, BeginRunTyped
  <1>3. CASE Store!AppendTranscript(w.recs, result)
    BY <1>1, <1>3, AppendTyped
  <1>4. CASE Store!AppendEvent(cursor + 1, w.ev, result)
    BY <1>1, <1>4, AppendEventTyped
  <1>5. CASE Store!FinishRun(manifest.active, result)
    <2>1. Store!OnlyManifest([manifest EXCEPT !.active = NoRun], result)
      BY <1>5, StoreSets DEF Store!FinishRun
    <2> QED
      BY <1>1, <2>1, ManifestParts, OnlyManifestTyped
  <1>6. CASE Store!CloseStore(result)
    <2>1. Store!OnlyManifest([manifest EXCEPT !.closed = TRUE], result)
      BY <1>6 DEF Store!CloseStore
    <2> QED
      BY <1>1, <2>1, ManifestParts, OnlyManifestTyped
  <1> QED
    BY <1>2, <1>3, <1>4, <1>5, <1>6 DEF StoreWrite

LEMMA WriteSucceedsTyped == ASSUME Types, WriteSucceeds PROVE Types'
  <1> DEFINE w == Head(job.writes)
             entry == [cursor |-> cursor + 1, ev |-> w.ev]
  <1>1. /\ job.writes # <<>> /\ StoreWrite(w, "ok")
        /\ records' \in {records \o Numbered(manifest.transcriptSeq, w.recs), records}
        /\ cursor' \in {cursor, cursor + 1}
        /\ history' \in {history, Append(history, entry)}
        /\ job' = [job EXCEPT !.writes = Tail(@)]
        /\ UNCHANGED <<state, partial, activeTool, goroutine, cancelled, counters>>
    BY DEF WriteSucceeds
  <1>2. w \in StoreCall /\ w.recs \in Seq(Record) /\ w.ev \in Event /\ job' \in JobType /\ job'.after = job.after
    BY <1>1, HeadTyped
  <1>3. /\ records \in Seq(Entry) /\ history \in Seq(Store!EventEntry) /\ cursor \in Nat
        /\ manifest.transcriptSeq \in Nat
    BY DEF Types, Store!TypeOK, Store!Manifest
  <1> HIDE DEF w
  <1>4. records' \in Seq(Entry)
    <2>1. Numbered(manifest.transcriptSeq, w.recs) \in Seq(Entry)
      BY <1>2, <1>3, NumberedEntries
    <2> QED
      BY <1>1, <1>3, <2>1, ConcatProperties
  <1>5. cursor' \in Nat /\ cursor + 1 \in Nat
    BY <1>1, <1>3
  <1>6. history' \in Seq(Store!EventEntry)
    <2>1. entry \in Store!EventEntry
      BY <1>2, <1>5, StoreSets
    <2> QED
      BY <1>1, <1>3, <2>1
  <1>7. Store!TypeOK'
    BY <1>1, <1>2, StoreWriteTyped
  <1>8. PlaceInv'
    BY <1>1, <1>2 DEF Types, PlaceInv, At
  <1> QED
    BY <1>1, <1>2, <1>4, <1>5, <1>6, <1>7, <1>8, TypesKept DEF Types

LEMMA RunReturns ==
  ASSUME IInv, job.writes # <<>>, job.after \in AfterRun PROVE Head(job.writes).onError \in OfRun
  <1>1. WritesOf(job.writes, OfRun)
    BY DEF IInv, JobInv, AfterRun, AfterLoad
  <1> QED
    BY <1>1, WritesHead

LEMMA HandleErrorTyped ==
  ASSUME IInv, Types, job.writes # <<>>, HandleError(Head(job.writes).onError), Store!TypeOK',
         UNCHANGED <<acked, late, crashes>>, failures' \in Nat,
         tolerated' \in {"none", "unmarked", "incomplete"}
  PROVE  Types'
  <1> DEFINE error == Head(job.writes).onError
  <1>1. /\ goroutine \in GoroutineType /\ NoGoroutine \in GoroutineType
        /\ Goto("faulting") \in GoroutineType /\ Goto("faulting").pc = "faulting"
        /\ Ending("failed", "engine_invariant") \in GoroutineType
        /\ Ending("failed", "engine_invariant").pc = "finish"
        /\ Ending("failed", "engine_invariant").outcome = "failed"
        /\ Erring("engine_invariant") \in GoroutineType
        /\ Erring("engine_invariant").pc = "response_error"
    <2>1. /\ "faulting" \in PCs /\ "failed" \in RunOutcomes /\ "engine_invariant" \in FailureCauses
      BY DEF PCs, RunOutcomes, FailureCauses
    <2> QED
      BY <2>1, RunTyped, LocalsTyped
  <1>2. /\ job' \in JobType /\ goroutine' \in GoroutineType /\ PlaceInv'
        /\ state' \in States /\ partial' \in BOOLEAN /\ activeTool' \in CallIDs \cup {NoCall}
        /\ cancelled' \in BOOLEAN /\ UNCHANGED <<records, history, cursor>>
    <2>1. CASE state = "starting"
      <3>1. /\ job' = Job(<<>>, "refused") /\ goroutine' = goroutine
            /\ UNCHANGED <<state, records, history, cursor, partial, activeTool, cancelled>>
        BY <2>1 DEF HandleError
      <3>2. job' \in JobType /\ job'.after = "refused"
        <4>1. <<>> \in Seq(StoreCall) /\ "refused" \in Afters
          BY DEF Afters, AfterLoad
        <4> QED
          BY <3>1, <4>1, JobTyped, JobFacts
      <3>3. goroutine.pc = "none"
        BY <2>1 DEF IInv, ActiveInv
      <3>4. PlaceInv'
        BY <3>1, <3>2, <3>3 DEF PlaceInv, At
      <3> QED
        BY <1>1, <3>1, <3>2, <3>4 DEF Types
    <2>2. CASE state # "starting" /\ error = "fault"
      <3>1. Fault
        BY <2>2 DEF HandleError
      <3>2. PlaceInv'
        BY <3>1, NoJobFacts, NoGoroutineFacts DEF Fault, PlaceInv, At
      <3> QED
        BY <1>1, <3>1, <3>2, JobTyped DEF Fault, States
    <2>3. CASE state # "starting" /\ error # "fault"
      <3>1. /\ job' = NoJob
            /\ goroutine' = CASE error = "fault_run" -> Goto("faulting")
                              [] error = "fail_run" -> Ending("failed", "engine_invariant")
                              [] error = "fail_stream" -> Erring("engine_invariant")
                              [] OTHER -> goroutine
            /\ UNCHANGED <<state, records, history, cursor, partial, activeTool, cancelled>>
        BY <2>3 DEF HandleError
      <3>2. \/ goroutine' \in {Goto("faulting"), Ending("failed", "engine_invariant"),
                               Erring("engine_invariant")}
            \/ goroutine' = goroutine /\ job.after \notin AfterRun
        BY <2>3, <3>1, RunReturns DEF OfRun
      <3>3. PlaceInv'
        <4>1. job'.after = "free"
          BY <3>1, NoJobFacts
        <4> QED
          BY <1>1, <3>2, <4>1 DEF PlaceInv, At, Types, AfterRun
      <3> QED
        BY <1>1, <3>1, <3>2, <3>3, JobTyped DEF Types
    <2> QED
      BY <2>1, <2>2, <2>3
  <1> QED
    BY <1>2 DEF Types

LEMMA WriteErrorsTyped == ASSUME IInv, Types, WriteFails \/ EventRefused PROVE Types'
  <1>1. CASE WriteFails
    <2>1. /\ job.writes # <<>> /\ HandleError(Head(job.writes).onError)
          /\ \E result : StoreWrite(Head(job.writes), result)
          /\ UNCHANGED <<acked, late, crashes>> /\ failures' = failures + 1
          /\ tolerated' \in {tolerated, "incomplete", "unmarked"}
      BY <1>1 DEF WriteFails, Tolerates
    <2>2. Store!TypeOK'
      BY <2>1, HeadTyped, StoreWriteTyped
    <2>3. failures' \in Nat /\ tolerated' \in {"none", "unmarked", "incomplete"}
      BY <2>1 DEF Types
    <2> QED
      BY <2>1, <2>2, <2>3, HandleErrorTyped
  <1>2. CASE EventRefused
    <2>1. /\ job.writes # <<>> /\ HandleError(Head(job.writes).onError)
          /\ UNCHANGED <<storeVars, acked, late, crashes, failures, tolerated>>
      BY <1>2 DEF EventRefused, counters
    <2>2. Store!TypeOK' /\ failures' \in Nat /\ tolerated' \in {"none", "unmarked", "incomplete"}
      BY <2>1, StoreKept DEF Types
    <2> QED
      BY <2>1, <2>2, HandleErrorTyped
  <1> QED
    BY <1>1, <1>2

LEMMA MutexTyped ==
  ASSUME IInv, Types, CommandDone \/ Settle \/ GoroutineGoesOn \/ FaultRun
  PROVE  Types'
  <1>1. /\ goroutine \in GoroutineType /\ NoGoroutine \in GoroutineType /\ NoJob \in JobType
        /\ \A pc \in PCs : Goto(pc) \in GoroutineType /\ Goto(pc).pc = pc
        /\ NoJob.after = "free" /\ NoGoroutine.pc = "none"
    BY RunTyped, LocalsTyped, JobTyped, NoJobFacts, NoGoroutineFacts
  <1>2. CASE CommandDone
    <2>1. PICK after \in {"done", "rejected", "started", "cancelled", "closed"} :
            /\ Finishes(after)
            /\ acked' = IF after = "rejected" THEN acked ELSE acked \cup job.command
            /\ state' = CASE after = "started" -> "running"
                          [] after = "closed" -> "closed"
                          [] OTHER -> state
            /\ goroutine' = IF after = "started"
                            THEN [NoGoroutine EXCEPT !.pc = "loop", !.run = manifest.active]
                            ELSE goroutine
            /\ cancelled' = IF after = "cancelled" THEN state = "running" \/ cancelled ELSE cancelled
      BY <1>2 DEF CommandDone
    <2>2. /\ UNCHANGED <<storeVars, records, history, cursor, partial, activeTool, late, tolerated,
                         crashes, failures>>
          /\ job' = NoJob /\ job.after = after
      BY <1>2, <2>1 DEF CommandDone, Finishes
    <2>3. acked' \subseteq CommandIDs
      <3>1. job.command \subseteq CommandIDs /\ acked \subseteq CommandIDs
        BY DEF Types, JobType
      <3> QED
        BY <2>1, <3>1
    <2>4. state' \in States /\ cancelled' \in BOOLEAN
      <3>1. state \in States /\ cancelled \in BOOLEAN
        BY DEF Types
      <3>2. state' \in States
        BY <2>1, <3>1 DEF States
      <3>3. cancelled' \in BOOLEAN
        BY <2>1, <3>1
      <3> QED
        BY <3>2, <3>3
    <2>5. goroutine' \in GoroutineType /\ (goroutine' = goroutine \/ goroutine'.pc = "loop")
      <3>1. manifest.active \in Nat
        BY DEF Types, Store!TypeOK, Store!Manifest
      <3>2. ASSUME NEW g \in GoroutineType, NEW n \in Nat
            PROVE  /\ [g EXCEPT !.pc = "loop", !.run = n] \in GoroutineType
                   /\ [g EXCEPT !.pc = "loop", !.run = n].pc = "loop"
        BY DEF GoroutineType, PCs
      <3> QED
        BY <1>1, <2>1, <3>1, <3>2
    <2>6. PlaceInv'
      BY <1>1, <2>2, <2>5 DEF PlaceInv, At, Types
    <2>7. Store!TypeOK'
      BY <2>2, StoreKept DEF Types
    <2> QED
      BY <1>1, <2>2, <2>3, <2>4, <2>5, <2>6, <2>7 DEF Types
  <1>3. CASE Settle
    <2> DEFINE ev == TerminalEvent(goroutine.run, goroutine.outcome, goroutine.cause)
    <2>1. /\ Finishes("settle") /\ history' = Append(history, [cursor |-> cursor, ev |-> ev])
          /\ state' = "idle" /\ partial' = FALSE /\ activeTool' = NoCall
          /\ goroutine' = NoGoroutine /\ cancelled' = FALSE /\ late' = 0
          /\ UNCHANGED <<storeVars, records, cursor, acked, tolerated, crashes, failures>>
      BY <1>3 DEF Settle
    <2>2. ev \in Event
      <3>1. goroutine.outcome \in {"completed", "failed", "cancelled"}
        BY <2>1 DEF Finishes, Types, PlaceInv
      <3>2. goroutine.cause \in FailureCauses \cup {""}
        BY <1>1 DEF GoroutineType
      <3> QED
        BY <3>1, <3>2, RunTyped, EventsTyped
    <2> HIDE DEF ev
    <2>3. history' \in Seq(Store!EventEntry)
      <3>1. [cursor |-> cursor, ev |-> ev] \in Store!EventEntry
        BY <2>2, StoreSets DEF Types
      <3> QED
        BY <2>1, <3>1 DEF Types
    <2>4. PlaceInv'
      BY <1>1, <2>1 DEF PlaceInv, At, Finishes
    <2>5. Store!TypeOK'
      BY <2>1, StoreKept DEF Types
    <2> QED
      BY <1>1, <2>1, <2>3, <2>4, <2>5 DEF Types, Finishes, States
  <1>4. CASE GoroutineGoesOn
    <2>1. PICK pc \in {"attempt", "sleep", "check", "calls", "tool", "exec"} :
            Finishes(pc) /\ goroutine' = Goto(pc)
      BY <1>4 DEF GoroutineGoesOn
    <2>2. /\ UNCHANGED <<storeVars, state, records, history, cursor, partial, activeTool, cancelled,
                         counters>>
          /\ job' = NoJob /\ job.after = pc
      BY <1>4, <2>1 DEF GoroutineGoesOn, Finishes
    <2>3. /\ goroutine' \in GoroutineType /\ goroutine'.pc = pc
          /\ goroutine'.rest = goroutine.rest
      <3>1. pc \in PCs
        BY DEF PCs
      <3>2. Goto(pc).rest = goroutine.rest
        BY <1>1 DEF Goto, GoroutineType
      <3> QED
        BY <1>1, <2>1, <3>1, <3>2
    <2>4. PlaceInv'
      BY <1>1, <2>2, <2>3 DEF PlaceInv, At, Types
    <2>5. Store!TypeOK'
      BY <2>2, StoreKept DEF Types
    <2> QED
      BY <1>1, <2>2, <2>3, <2>4, <2>5, TypesKept DEF Types
  <1>5. CASE FaultRun
    <2>1. Fault /\ UNCHANGED <<storeVars, counters>>
      BY <1>5 DEF FaultRun
    <2>2. PlaceInv'
      BY <1>1, <2>1 DEF Fault, PlaceInv, At
    <2>3. Store!TypeOK'
      BY <2>1, StoreKept DEF Types
    <2> QED
      BY <1>1, <2>1, <2>2, <2>3, TypesKept DEF Types, Fault, States
  <1> QED
    BY <1>2, <1>3, <1>4, <1>5

LEMMA ForgetsTyped ==
  ASSUME Types, Forgets, Store!TypeOK', crashes' \in Nat
  PROVE  Types'
  <1>1. NoGoroutine \in GoroutineType /\ NoJob \in JobType
    BY RunTyped, LocalsTyped, JobTyped
  <1>2. PlaceInv'
    BY NoJobFacts, NoGoroutineFacts DEF Forgets, PlaceInv, At
  <1>3. <<>> \in Seq(Entry) /\ <<>> \in Seq(Store!EventEntry)
    OBVIOUS
  <1> QED
    BY <1>1, <1>2, <1>3 DEF Forgets, Types, States

LEMMA ProcessDiesTyped == ASSUME Types, ProcessDies PROVE Types'
  <1>1. Store!TypeOK /\ crashes \in Nat /\ cursor + 1 \in Nat
    BY DEF Types
  <1>2. Store!TypeOK'
    <2>1. CASE Store!Crash
      BY <1>1, <2>1, DiesTyped
    <2>2. CASE job.writes # <<>> /\ Store!CrashAppending(Head(job.writes).recs)
      BY <1>1, <2>2, HeadTyped, DiesTyped
    <2>3. CASE job.writes # <<>> /\ Store!CrashAppendingEvent(cursor + 1, Head(job.writes).ev)
      BY <1>1, <2>3, HeadTyped, DiesTyped
    <2> QED
      BY <2>1, <2>2, <2>3 DEF ProcessDies
  <1>3. Forgets /\ crashes' \in Nat
    BY <1>1 DEF ProcessDies
  <1> QED
    BY <1>2, <1>3, ForgetsTyped

LEMMA LoadRefusedTyped == ASSUME Types, LoadRefused PROVE Types'
  <1>1. Store!TypeOK /\ Store!Crash /\ Forgets /\ crashes' = crashes /\ crashes \in Nat
    BY DEF Types, LoadRefused
  <1>2. Store!TypeOK'
    BY <1>1, DiesTyped
  <1> QED
    BY <1>1, <1>2, ForgetsTyped

LEMMA LoadedTyped == ASSUME IInv, Types, Loaded PROVE Types'
  <1>1. /\ job.after \in {"loaded", "reconciled"} /\ job' = NoJob
        /\ state' \in {"closed", "idle"}
        /\ UNCHANGED <<storeVars, records, history, cursor, partial, activeTool, goroutine,
                       cancelled, counters>>
    BY DEF Loaded, Finishes
  <1>2. PlaceInv'
    BY <1>1, NoJobFacts DEF PlaceInv, At, Types
  <1>3. Store!TypeOK'
    BY <1>1, StoreKept DEF Types
  <1> QED
    BY <1>1, <1>2, <1>3, JobTyped, TypesKept DEF Types, States

LEMMA ShutdownTyped == ASSUME Types, Shutdown PROVE Types'
  <1>1. /\ cancelled' = TRUE
        /\ UNCHANGED <<storeVars, state, records, history, cursor, partial, activeTool, job,
                       goroutine, counters>>
    BY DEF Shutdown
  <1>2. PlaceInv' /\ Store!TypeOK'
    BY <1>1, StoreKept DEF PlaceInv, At, Types
  <1> QED
    BY <1>1, <1>2, TypesKept DEF Types

\* The writes of a repair, one per record, the outcome last.
RepairWrites(run) ==
  [i \in DOMAIN RepairRecords(transcriptLog, run) |->
     AppendW(<<RepairRecords(transcriptLog, run)[i]>>, "return")]
InterruptedW(run) == EmitW([Ev("run_failed", run) EXCEPT !.cause = "interrupted"], "return")
ReconcileFacts(run) ==
  IF HasOutcome(transcriptLog, run) THEN <<>> ELSE RepairWrites(run)
ReconcileEvents(run) ==
  IF HasTerminalEvent(eventLog, run) THEN <<>> ELSE <<InterruptedW(run)>>
ReconcileMark == <<Write("finish", "return")>>

LEMMA RepairWritesFacts ==
  ASSUME transcriptLog \in Seq(Entry), ValidateRecords(transcriptLog), NEW run \in Nat
  PROVE  LET W == RepairWrites(run)
             open == OpenToolCalls(transcriptLog)
         IN  /\ W \in Seq(StoreCall) /\ open \in Seq(Entry) /\ Len(W) = Len(open) + 1
             /\ \A i \in 1..Len(open) :
                  W[i] = AppendW(<<ToolResult(run, open[i].rec.call, "interrupted")>>, "return")
             /\ W[Len(open) + 1]
                  = AppendW(<<RunOutcome(run, "interrupted", "interrupted")>>, "return")
  <1> DEFINE open == OpenToolCalls(transcriptLog)
             repair == RepairRecords(transcriptLog, run)
             W == RepairWrites(run)
  <1>1. PairableUpTo(transcriptLog, Len(transcriptLog))
    BY ScanFacts DEF ValidateRecords
  <1>2. /\ repair \in Seq(Record) /\ Len(repair) = Len(open) + 1
        /\ \A i \in 1..Len(open) :
             repair[i] = ToolResult(run, open[i].rec.call, "interrupted")
        /\ repair[Len(open) + 1] = RunOutcome(run, "interrupted", "interrupted")
    BY <1>1, RepairFacts
  <1>3. open \in Seq(Entry) /\ Len(open) \in Nat
    BY <1>1, OpenCallsListed DEF Listed
  <1>4. W = [i \in DOMAIN repair |-> AppendW(<<repair[i]>>, "return")]
    BY DEF RepairWrites
  <1> HIDE DEF open, repair, W
  <1>5. DOMAIN repair = 1..(Len(open) + 1)
    BY <1>2
  <1>6. \A i \in 1..(Len(open) + 1) : AppendW(<<repair[i]>>, "return") \in StoreCall
    <2>1. \A i \in 1..(Len(open) + 1) : repair[i] \in Record
      BY <1>2, <1>5, ElementOfSeq
    <2>2. \A i \in 1..(Len(open) + 1) : <<repair[i]>> \in Seq(Record)
      BY <2>1, OneRecord
    <2> QED
      BY <2>2, CallsTyped DEF OnError
  <1>7. W \in Seq(StoreCall) /\ Len(W) = Len(open) + 1
    <2> DEFINE a(i) == AppendW(<<repair[i]>>, "return")
    <2>1. W = [i \in 1..(Len(open) + 1) |-> a(i)]
      BY <1>4, <1>5
    <2>2. Len(open) + 1 \in Nat /\ \A i \in 1..(Len(open) + 1) : a(i) \in StoreCall
      BY <1>3, <1>6
    <2> HIDE DEF a
    <2> QED
      BY <2>1, <2>2
  <1>8. \A i \in 1..(Len(open) + 1) : W[i] = AppendW(<<repair[i]>>, "return")
    BY <1>4, <1>5
  <1>9. /\ \A i \in 1..Len(open) : i \in 1..(Len(open) + 1)
        /\ Len(open) + 1 \in 1..(Len(open) + 1)
    BY <1>3
  <1>10. \A i \in 1..Len(open) :
           W[i] = AppendW(<<ToolResult(run, open[i].rec.call, "interrupted")>>, "return")
    BY <1>2, <1>8, <1>9
  <1>11. W[Len(open) + 1] = AppendW(<<RunOutcome(run, "interrupted", "interrupted")>>, "return")
    BY <1>2, <1>8, <1>9
  <1> QED
    BY <1>3, <1>7, <1>10, <1>11 DEF open, W

LEMMA ReconcileTyped ==
  ASSUME transcriptLog \in Seq(Entry), ValidateRecords(transcriptLog), NEW run \in Nat
  PROVE  /\ ReconcileWrites(run) = ReconcileFacts(run) \o ReconcileEvents(run) \o ReconcileMark
         /\ ReconcileFacts(run) \in Seq(StoreCall) /\ ReconcileEvents(run) \in Seq(StoreCall)
         /\ ReconcileMark \in Seq(StoreCall) /\ ReconcileWrites(run) \in Seq(StoreCall)
  <1>1. ReconcileWrites(run) = ReconcileFacts(run) \o ReconcileEvents(run) \o ReconcileMark
    BY DEF ReconcileWrites, ReconcileFacts, ReconcileEvents, ReconcileMark, RepairWrites,
           InterruptedW
  <1>2. ReconcileFacts(run) \in Seq(StoreCall)
    <2>1. RepairWrites(run) \in Seq(StoreCall)
      BY RepairWritesFacts
    <2>2. <<>> \in Seq(StoreCall)
      OBVIOUS
    <2> QED
      BY <2>1, <2>2 DEF ReconcileFacts
  <1>3. ReconcileEvents(run) \in Seq(StoreCall)
    <2>1. InterruptedW(run) \in StoreCall
      BY EventsTyped, CallsTyped DEF InterruptedW, OnError
    <2>2. <<InterruptedW(run)>> \in Seq(StoreCall) /\ <<>> \in Seq(StoreCall)
      BY <2>1, OneCall
    <2> QED
      BY <2>2 DEF ReconcileEvents
  <1>4. ReconcileMark \in Seq(StoreCall)
    BY CallsTyped, OneCall DEF ReconcileMark, WriteOp, OnError
  <1>5. ReconcileFacts(run) \o ReconcileEvents(run) \in Seq(StoreCall)
    BY <1>2, <1>3, ConcatProperties
  <1>6. (ReconcileFacts(run) \o ReconcileEvents(run)) \o ReconcileMark \in Seq(StoreCall)
    BY <1>4, <1>5, ConcatProperties
  <1> QED
    BY <1>1, <1>2, <1>3, <1>4, <1>6

\* The two parts of the writes that complete a close.
CloseMarks == IF manifestFile.closed THEN <<>> ELSE <<Write("close", "return")>>
CloseTells ==
  IF CloseEvents(eventLog) > 0 THEN <<>> ELSE <<EmitW(Ev("session_closed", NoRun), "return")>>

LEMMA CloseWritesTyped ==
  /\ CloseWrites = IF CloseFacts(transcriptLog) = 0 THEN <<>> ELSE CloseMarks \o CloseTells
  /\ CloseMarks \in Seq(StoreCall) /\ CloseTells \in Seq(StoreCall) /\ CloseWrites \in Seq(StoreCall)
  <1>1. CloseWrites = IF CloseFacts(transcriptLog) = 0 THEN <<>> ELSE CloseMarks \o CloseTells
    BY DEF CloseWrites, CloseMarks, CloseTells
  <1>2. Write("close", "return") \in StoreCall /\ EmitW(Ev("session_closed", NoRun), "return") \in StoreCall
    <2>1. Ev("session_closed", NoRun) \in Event
      BY EventsTyped DEF NoRun, SessionEvents
    <2> QED
      BY <2>1, CallsTyped DEF WriteOp, OnError
  <1>3. CloseMarks \in Seq(StoreCall) /\ CloseTells \in Seq(StoreCall)
    <2>1. /\ <<Write("close", "return")>> \in Seq(StoreCall) /\ <<>> \in Seq(StoreCall)
          /\ <<EmitW(Ev("session_closed", NoRun), "return")>> \in Seq(StoreCall)
      BY <1>2, OneCall
    <2> QED
      BY <2>1 DEF CloseMarks, CloseTells
  <1>4. CloseMarks \o CloseTells \in Seq(StoreCall) /\ <<>> \in Seq(StoreCall)
    BY <1>3, ConcatProperties
  <1> QED
    BY <1>1, <1>3, <1>4

LEMMA LoadTyped == ASSUME IInv, Types, Load PROVE Types'
  <1> DEFINE run == manifestFile.active
             writes == (IF run = NoRun THEN <<>> ELSE ReconcileWrites(run)) \o CloseWrites
             after == IF run = NoRun THEN "loaded" ELSE "reconciled"
  <1>1. /\ state = "down" /\ Store!Open /\ job' = Job(writes, after)
        /\ state' = "starting"
        /\ records' = transcriptLog /\ history' = eventLog /\ cursor' = Len(eventLog)
        /\ UNCHANGED <<partial, activeTool, goroutine, cancelled, counters>>
    BY DEF Load
  <1>2. /\ transcriptLog \in Seq(Entry) /\ eventLog \in Seq(Store!EventEntry)
        /\ manifestFile \in Store!Manifest /\ run \in Nat
    BY StoreSets DEF Types, Store!TypeOK, Store!Manifest
  <1>3. ValidateRecords(transcriptLog)
    BY <1>1, StoreScan DEF Store!Open, Store!Openable
  <1> HIDE DEF run
  <1>4. writes \in Seq(StoreCall)
    <2>1. /\ ReconcileWrites(run) \in Seq(StoreCall) /\ CloseWrites \in Seq(StoreCall)
          /\ <<>> \in Seq(StoreCall)
      BY <1>2, <1>3, ReconcileTyped, CloseWritesTyped
    <2> QED
      BY <2>1, ConcatProperties
  <1> HIDE DEF writes
  <1>5. job' \in JobType /\ job'.after \in {"loaded", "reconciled"}
    BY <1>1, <1>4, JobTyped, JobFacts DEF Afters, AfterLoad
  <1>6. goroutine.pc = "none"
    BY <1>1 DEF IInv, ActiveInv
  <1>7. PlaceInv'
    BY <1>1, <1>5, <1>6 DEF PlaceInv, At
  <1>8. Store!TypeOK'
    <2>1. [manifestFile EXCEPT !.transcriptSeq = Len(transcriptLog),
                               !.eventCursor = Len(eventLog)] \in Store!Manifest
      <3>1. Len(transcriptLog) \in Nat /\ Len(eventLog) \in Nat
        BY <1>2
      <3> QED
        BY <1>2, <3>1 DEF Store!Manifest
    <2> QED
      BY <1>1, <2>1 DEF Types, Store!TypeOK, Store!Open, Store!disk
  <1>9. cursor' \in Nat
    BY <1>1, <1>2
  <1> QED
    BY <1>1, <1>2, <1>5, <1>7, <1>8, <1>9, TypesKept DEF Types, States

LEMMA NextTyped == IInv /\ Types /\ [Next]_vars => Types'
  <1> SUFFICES ASSUME IInv, Types, [Next]_vars PROVE Types'
    OBVIOUS
  <1>1. CASE \E cmd \in CommandIDs : Command(cmd)
    BY <1>1, CommandTyped
  <1>2. CASE Shutdown
    BY <1>2, ShutdownTyped
  <1>3. CASE HoldsLock \/ WriteFails
    BY <1>3, WriteSucceedsTyped, WriteErrorsTyped, MutexTyped DEF HoldsLock
  <1>4. CASE ModelCall
    BY <1>4, LocalStepsTyped, ReservationsTyped, StreamTyped, CheckTyped DEF ModelCall
  <1>5. CASE ToolCalls
    BY <1>5, RecordCallsTyped, ToolsTyped, LocalStepsTyped, FinishRunTyped, MutexTyped DEF ToolCalls
  <1>6. CASE Provider
    BY <1>6, StreamTyped, LocalStepsTyped DEF Provider
  <1>7. CASE Load
    BY <1>7, LoadTyped
  <1>8. CASE NewSessionEnds
    BY <1>8, LoadedTyped, LoadRefusedTyped DEF NewSessionEnds
  <1>9. CASE ProcessDies
    BY <1>9, ProcessDiesTyped
  <1>10. CASE UNCHANGED vars
    <2>1. /\ UNCHANGED <<storeVars, counters>>
          /\ UNCHANGED <<state, records, history, cursor, partial, activeTool, job, goroutine, cancelled>>
      BY <1>10 DEF vars, memory
    <2>2. PlaceInv' /\ Store!TypeOK'
      BY <2>1, StoreKept DEF PlaceInv, At, Types
    <2> QED
      BY <2>1, <2>2, TypesKept DEF Types
  <1> QED
    BY <1>1, <1>2, <1>3, <1>4, <1>5, <1>6, <1>7, <1>8, <1>9, <1>10 DEF Next

\* The types are inductive together with the invariant of the mutex.
THEOREM SessionTyped == Spec => [](IInv /\ Types)
  <1>1. Init => IInv /\ Types
    BY InitInv, InitTyped
  <1>2. (IInv /\ Types) /\ [Next]_vars => (IInv /\ Types)'
    BY NextGood, NextTyped DEF Good
  <1> QED
    BY <1>1, <1>2, PTL DEF Spec

\* Every variable keeps its type, and a goroutine runs exactly while the session
\* is in its state running (session.go:141-205).
THEOREM SessionTypeOK == Spec => []TypeOK
  <1>1. IInv /\ Types => TypeOK
    <2> SUFFICES ASSUME IInv, Types PROVE TypeOK
      OBVIOUS
    <2>1. job.command \subseteq CommandIDs /\ job.writes \in Seq(StoreCall)
      BY DEF Types, JobType
    <2>2. \A i \in DOMAIN job.writes : job.writes[i].ev \in Event /\ job.writes[i].recs \in Seq(Record)
      <3>1. \A i \in DOMAIN job.writes : job.writes[i] \in StoreCall
        BY <2>1
      <3> QED
        BY <3>1 DEF StoreCall
    <2>3. goroutine.pc \in PCs /\ goroutine.answer \in Answer
      BY DEF Types, GoroutineType
    <2>4. (state = "running") <=> ~ At("none")
      BY DEF IInv, ActiveInv, At
    <2> QED
      BY <2>1, <2>2, <2>3, <2>4 DEF Types, TypeOK, States
  <1> QED
    BY <1>1, SessionTyped, PTL
-----------------------------------------------------------------------------
(***************************************************************************)
(* What is on the disk of a session, for every value of the constants and  *)
(* every number of runs, crashes and failing writes.                       *)
(*                                                                         *)
(* The inductive invariant relates the logs and the manifest file to what  *)
(* the job that is under way still has to write (DiskInv, PlanInv), the    *)
(* handle to the file (HandleInv), and the published events to the log     *)
(* (ShownInv).  A write is made, is not made, or is an append that was cut *)
(* (Leaves); the proof is about these three, whoever writes.               *)
(***************************************************************************)

\* Positions in the logs instead of sets of them.
EndsAt(i, run) == transcriptLog[i].rec.kind = "run_outcome" /\ transcriptLog[i].rec.run = run
TellsAt(j, run) == eventLog[j].ev.kind \in TerminalEvents /\ eventLog[j].ev.run = run
ClosesAt(i) == transcriptLog[i].rec.kind = "session_closed"
CloseToldAt(j) == eventLog[j].ev.kind = "session_closed"

Ended(run) == \E i \in 1..Len(transcriptLog) : EndsAt(i, run)
Told(run) == \E j \in 1..Len(eventLog) : TellsAt(j, run)
FactThere == \E i \in 1..Len(transcriptLog) : ClosesAt(i)
CloseTold == \E j \in 1..Len(eventLog) : CloseToldAt(j)
EventThere(entry) == \E j \in 1..Len(eventLog) : eventLog[j] = entry

\* Only the active run, the last one, may lack its outcome or its event, and
\* never the outcome alone of the two.
RunsInv ==
  /\ manifestFile.active \in {NoRun, manifestFile.nextRun}
  /\ \A run \in 1..manifestFile.nextRun :
       /\ run # manifestFile.active => Ended(run) /\ Told(run)
       /\ Told(run) => Ended(run)

OnceInv ==
  /\ \A i, j \in 1..Len(transcriptLog) : \A run : EndsAt(i, run) /\ EndsAt(j, run) => i = j
  /\ \A i, j \in 1..Len(eventLog) : \A run : TellsAt(i, run) /\ TellsAt(j, run) => i = j

\* The logs name runs that were begun, and no outcome without one.
KnownInv ==
  /\ \A i \in 1..Len(transcriptLog) :
       /\ transcriptLog[i].rec.run \in 0..manifestFile.nextRun
       /\ transcriptLog[i].rec.kind = "run_outcome"
            => transcriptLog[i].rec.run # NoRun /\ transcriptLog[i].rec.outcome \in RunOutcomes
  /\ \A j \in 1..Len(eventLog) :
       /\ eventLog[j].ev.run \in 0..manifestFile.nextRun
       /\ eventLog[j].ev.kind \in TerminalEvents => eventLog[j].ev.run # NoRun

BlocksInv ==
  \A i, j \in 1..Len(transcriptLog) :
    i < j /\ transcriptLog[i].rec.run # NoRun =>
      /\ \A run : EndsAt(i, run) => transcriptLog[j].rec.run # run
      /\ transcriptLog[j].rec.run # NoRun => transcriptLog[i].rec.run <= transcriptLog[j].rec.run

\* The closing is a fact, then a mark, then an event.
CloseInv ==
  /\ \A i, j \in 1..Len(transcriptLog) : ClosesAt(i) /\ ClosesAt(j) => i = j
  /\ \A i, j \in 1..Len(eventLog) : CloseToldAt(i) /\ CloseToldAt(j) => i = j
  /\ FactThere => manifestFile.active = NoRun
  /\ manifestFile.closed => FactThere
  /\ CloseTold => manifestFile.closed

Reported(outcome) == IF outcome = "interrupted" THEN "failed" ELSE outcome
ReportOf(rec) == TerminalEvent(rec.run, Reported(rec.outcome), rec.cause)

\* As long as the process has not died, an event reports the outcome.
ReportInv ==
  crashes = 0 =>
    \A i \in 1..Len(transcriptLog), j \in 1..Len(eventLog) : \A run :
      EndsAt(i, run) /\ TellsAt(j, run) => eventLog[j].ev = ReportOf(transcriptLog[i].rec)

DiskInv == RunsInv /\ OnceInv /\ KnownInv /\ BlocksInv /\ CloseInv /\ ReportInv

\* Where the active run is between its beginning and its end, and the session
\* between its closing and the end of that.
Open(run) == run # NoRun /\ manifestFile.active = run /\ ~ Ended(run) /\ ~ Told(run)
Untold(run) == run # NoRun /\ manifestFile.active = run /\ Ended(run) /\ ~ Told(run)
Marked(run) == run # NoRun /\ manifestFile.active = run /\ Ended(run) /\ Told(run)
Resting == manifestFile.active = NoRun /\ ~ FactThere
Unmarked == FactThere /\ ~ manifestFile.closed /\ ~ CloseTold
Untalked == FactThere /\ manifestFile.closed /\ ~ CloseTold
Shut == FactThere /\ manifestFile.closed /\ CloseTold

(***************************************************************************)
(* What a write does to the disk, in terms of the runs and the logs.       *)
(***************************************************************************)
CoreIs(nextRun, active, closed) ==
  /\ manifestFile'.nextRun = nextRun /\ manifestFile'.active = active
  /\ manifestFile'.closed = closed
SameCore == CoreIs(manifestFile.nextRun, manifestFile.active, manifestFile.closed)

Longer(old, new, recs) ==
  /\ Len(new) = Len(old) + Len(recs)
  /\ \A i \in 1..Len(old) : new[i] = old[i]
  /\ \A i \in 1..Len(recs) : new[Len(old) + i].rec = recs[i]
  /\ \A k \in 1..Len(new) : k \in 1..Len(old) \/ \E i \in 1..Len(recs) : k = Len(old) + i

Added(recs) == Longer(transcriptLog, transcriptLog', recs) /\ UNCHANGED eventLog /\ SameCore
Noted(ev) ==
  /\ eventLog' = Append(eventLog, [cursor |-> cursor + 1, ev |-> ev])
  /\ UNCHANGED transcriptLog /\ SameCore
Same == UNCHANGED <<transcriptLog, eventLog>> /\ SameCore
CoreOnly(nextRun, active, closed) ==
  UNCHANGED <<transcriptLog, eventLog>> /\ CoreIs(nextRun, active, closed)

Does(w) ==
  /\ w.op = "begin" =>
       CoreOnly(manifestFile.nextRun + 1, manifestFile.nextRun + 1, manifestFile.closed)
  /\ w.op = "record" => Same
  /\ w.op = "append" => Added(w.recs)
  /\ w.op \in {"emit", "persist"} => Noted(w.ev)
  /\ w.op = "finish" => CoreOnly(manifestFile.nextRun, NoRun, manifestFile.closed)
  /\ w.op = "close" => CoreOnly(manifestFile.nextRun, manifestFile.active, TRUE)

Prefix(part, recs) ==
  part \in Seq(Record) /\ Len(part) <= Len(recs) /\ \A i \in 1..Len(part) : part[i] = recs[i]

\* Completed, not begun, or an append that was cut.
Leaves(w) ==
  Does(w) \/ Same \/ (w.op = "append" /\ \E part : Prefix(part, w.recs) /\ Added(part))

\* The handle knows the runs and the closing the file knows.
Agree ==
  /\ manifest.nextRun = manifestFile.nextRun
  /\ manifest.active = manifestFile.active
  /\ manifest.closed = manifestFile.closed

-----------------------------------------------------------------------------
(***************************************************************************)
(* What a job still has to write, and how far the disk is.                 *)
(***************************************************************************)
Plain(rec, run) == rec.run = run /\ rec.kind \notin {"run_outcome", "session_closed"}

QuietWrite(w) ==
  \/ w.op = "record"
  \/ w.op = "emit" /\ w.ev.run = NoRun /\ w.ev.kind \in {"warning", "session_resumed"}
PlainWrite(w, run) ==
  \/ w.op = "append" /\ \A i \in 1..Len(w.recs) : Plain(w.recs[i], run)
  \/ w.op = "emit" /\ w.ev.run = run /\ w.ev.kind \in RunEvents
RecordWrite(w, rec) == w.op = "append" /\ Len(w.recs) = 1 /\ w.recs[1] = rec
EventWrite(w, ev) == w.op \in {"emit", "persist"} /\ w.ev = ev
ToldWrite(w) == w.op = "emit" /\ w.ev = Ev("session_closed", NoRun)

AllQuiet(W, n) == \A i \in 1..n : QuietWrite(W[i])
AllPlain(W, n, run) == \A i \in 1..n : PlainWrite(W[i], run)

\* The command that begins a run.
StartPlan(W) ==
  \/ /\ Resting /\ Len(W) > 0 /\ W[1].op = "begin"
     /\ \A i \in 2..Len(W) : PlainWrite(W[i], manifestFile.nextRun + 1)
  \/ Open(manifestFile.active) /\ AllPlain(W, Len(W), manifestFile.active)

\* What ends a run with this outcome record.
EndPlan(W, run, rec) ==
  LET n == Len(W) IN
  \/ /\ Open(run) /\ n >= 3 /\ W[n].op = "finish" /\ EventWrite(W[n - 1], ReportOf(rec))
     /\ RecordWrite(W[n - 2], rec) /\ AllPlain(W, n - 3, run)
  \/ /\ Untold(run) /\ n = 2 /\ W[2].op = "finish" /\ EventWrite(W[1], ReportOf(rec))
     /\ crashes = 0 => \A i \in 1..Len(transcriptLog) : EndsAt(i, run) => transcriptLog[i].rec = rec
  \/ Marked(run) /\ n = 1 /\ W[1].op = "finish"
  \/ Resting /\ n = 0

ClosePlan(W) ==
  LET n == Len(W) IN
  \/ /\ Resting /\ n >= 3 /\ ToldWrite(W[n]) /\ W[n - 1].op = "close"
     /\ RecordWrite(W[n - 2], SessionClosed) /\ AllQuiet(W, n - 3)
  \/ Unmarked /\ n = 2 /\ ToldWrite(W[2]) /\ W[1].op = "close"
  \/ Untalked /\ n = 1 /\ ToldWrite(W[1])
  \/ Shut /\ n = 0
  \/ Shut /\ state = "closed" /\ AllQuiet(W, n)

OutcomeFact == RunOutcome(goroutine.run, goroutine.outcome, goroutine.cause)
SettleEntry == [cursor |-> cursor, ev |-> ReportOf(OutcomeFact)]

AtPlace ==
  /\ state = "idle" => Resting
  /\ state = "closed" => Shut
  /\ state = "running" => Open(goroutine.run)

PlanInv ==
  LET W == job.writes IN
  /\ job.after \in {"free", "cancelled", "rejected", "done"} => AtPlace /\ AllQuiet(W, Len(W))
  /\ job.after = "started" => StartPlan(W)
  /\ job.after \in AfterRun \ {"settle"} => Open(goroutine.run) /\ AllPlain(W, Len(W), goroutine.run)
  /\ job.after = "settle" =>
       /\ EndPlan(W, goroutine.run, OutcomeFact)
       /\ \A i \in 1..Len(W) : W[i].onError = "fault"
       /\ Open(goroutine.run) \/ Untold(goroutine.run) \/ EventThere(SettleEntry)
  /\ job.after = "closed" => ClosePlan(W) /\ (state = "closed" => Shut)
  /\ job.after = "loaded" => (Resting /\ W = <<>>) \/ ClosePlan(W)
  /\ job.after = "reconciled" =>
       LET run == manifestFile.active IN
       EndPlan(W, run, RunOutcome(run, "interrupted", "interrupted"))
  /\ job.after = "refused" => W = <<>>

\* The handle is open and knows the runs the file knows; and until the first
\* crash no session is loaded.
HandleInv ==
  /\ opened <=> state # "down"
  /\ state \in {"down", "starting"} => crashes # 0
  /\ opened /\ state # "faulted" /\ job.after # "refused" => Agree
  /\ state = "starting" /\ job.after # "refused" => records = transcriptLog

\* What was published is on disk, and no run that was seen to end is active;
\* of the events a session that is loaded writes, none is a terminal one.
ShownInv ==
  /\ \A i \in 1..Len(history) : EventThere(history[i])
  /\ state # "starting" =>
       /\ \A i \in 1..Len(history) :
            history[i].ev.kind \in TerminalEvents => manifestFile.active # history[i].ev.run
       /\ \A i \in 1..Len(job.writes) :
            job.writes[i].op = "emit" => job.writes[i].ev.kind \notin TerminalEvents

CInv == DiskInv /\ PlanInv /\ HandleInv /\ ShownInv
-----------------------------------------------------------------------------
LEMMA ConcatLonger ==
  ASSUME NEW old \in Seq(Entry), NEW more \in Seq(Entry), NEW part \in Seq(Record),
         Len(more) = Len(part), \A i \in 1..Len(part) : more[i].rec = part[i]
  PROVE  Longer(old, old \o more, part)
  <1>1. /\ Len(old \o more) = Len(old) + Len(more)
        /\ \A i \in 1..Len(old) : (old \o more)[i] = old[i]
        /\ \A i \in 1..Len(more) : (old \o more)[Len(old) + i] = more[i]
        /\ \A k \in 1..(Len(old) + Len(more)) :
             k \in 1..Len(old) \/ \E i \in 1..Len(more) : k = Len(old) + i
    BY ConcatEntries
  <1>2. \A i \in 1..Len(part) : (old \o more)[Len(old) + i].rec = part[i]
    BY <1>1
  <1> QED
    BY <1>1, <1>2 DEF Longer

LEMMA LineRecords ==
  ASSUME Store!TypeOK, NEW recs \in Seq(Record)
  PROVE  /\ Store!Lines(recs) \in Seq(Entry) /\ Len(Store!Lines(recs)) = Len(recs)
         /\ \A i \in 1..Len(recs) : Store!Lines(recs)[i].rec = recs[i]
  <1>1. manifest.transcriptSeq \in Nat
    BY DEF Store!TypeOK, Store!Manifest
  <1>2. \A i \in 1..Len(recs) : Numbered(manifest.transcriptSeq, recs)[i].rec = recs[i]
    BY <1>1, NumberedEntries
  <1>3. /\ Store!Lines(recs) = Numbered(manifest.transcriptSeq, recs)
        /\ Store!Lines(recs) \in Seq(Entry) /\ Len(Store!Lines(recs)) = Len(recs)
    BY LinesTyped
  <1> QED
    BY <1>2, <1>3

\* An append, whole or cut, adds a prefix of its records.
LEMMA LinesAdded ==
  ASSUME Store!TypeOK, NEW recs \in Seq(Record), NEW kept \in 0..Len(recs),
         transcriptLog' = transcriptLog \o SubSeq(Store!Lines(recs), 1, kept)
  PROVE  \E part : Prefix(part, recs) /\ Longer(transcriptLog, transcriptLog', part)
  <1> DEFINE lines == Store!Lines(recs)
             more == SubSeq(lines, 1, kept)
             part == SubSeq(recs, 1, kept)
  <1>1. Len(recs) \in Nat /\ kept \in Nat /\ kept <= Len(recs) /\ transcriptLog \in Seq(Entry)
    BY StoreSets DEF Store!TypeOK
  <1>2. lines \in Seq(Entry) /\ Len(lines) = Len(recs) /\ \A i \in 1..Len(recs) : lines[i].rec = recs[i]
    BY LineRecords
  <1> HIDE DEF lines
  <1>3. more \in Seq(Entry) /\ Len(more) = kept /\ \A i \in 1..kept : more[i] = lines[i]
    <2>1. \A i \in 1..kept : lines[i] \in Entry
      BY <1>1, <1>2, ElementOfSeq
    <2>2. /\ more \in Seq(Entry) /\ Len(more) = IF 1 <= kept THEN kept - 1 + 1 ELSE 0
          /\ \A i \in 1..(kept - 1 + 1) : more[i] = lines[1 + i - 1]
      BY <1>1, <2>1, SubSeqProperties
    <2> HIDE DEF more
    <2> QED
      BY <1>1, <2>2
  <1>4. part \in Seq(Record) /\ Len(part) = kept /\ \A i \in 1..kept : part[i] = recs[i]
    <2>1. \A i \in 1..kept : recs[i] \in Record
      BY <1>1, ElementOfSeq
    <2>2. /\ part \in Seq(Record) /\ Len(part) = IF 1 <= kept THEN kept - 1 + 1 ELSE 0
          /\ \A i \in 1..(kept - 1 + 1) : part[i] = recs[1 + i - 1]
      BY <1>1, <2>1, SubSeqProperties
    <2> HIDE DEF part
    <2> QED
      BY <1>1, <2>2
  <1>5. transcriptLog' = transcriptLog \o more
    BY DEF lines
  <1> HIDE DEF more, part
  <1>6. \A i \in 1..Len(part) : more[i].rec = part[i]
    <2>1. \A i \in 1..kept : i \in 1..Len(recs)
      BY <1>1
    <2>2. \A i \in 1..kept : more[i].rec = part[i]
      BY <1>2, <1>3, <1>4, <2>1
    <2> QED
      BY <1>4, <2>2
  <1>7. Longer(transcriptLog, transcriptLog', part)
    BY <1>1, <1>3, <1>4, <1>5, <1>6, ConcatLonger
  <1>8. Prefix(part, recs)
    BY <1>1, <1>4 DEF Prefix
  <1> QED
    BY <1>7, <1>8

LEMMA AllLinesAdded ==
  ASSUME Store!TypeOK, NEW recs \in Seq(Record),
         transcriptLog' = transcriptLog \o Store!Lines(recs)
  PROVE  Longer(transcriptLog, transcriptLog', recs)
  <1> DEFINE lines == Store!Lines(recs)
  <1>1. transcriptLog \in Seq(Entry)
    BY StoreSets DEF Store!TypeOK
  <1>2. lines \in Seq(Entry) /\ Len(lines) = Len(recs) /\ \A i \in 1..Len(recs) : lines[i].rec = recs[i]
    BY LineRecords
  <1> HIDE DEF lines
  <1>3. transcriptLog' = transcriptLog \o lines
    BY DEF lines
  <1> QED
    BY <1>1, <1>2, <1>3, ConcatLonger

\* Fields of a manifest the operations replace in part.
LEMMA CoreOfParts ==
  ASSUME Store!TypeOK
  PROVE  /\ \A n : LET m == [manifest EXCEPT !.transcriptSeq = n]
                   IN  m.nextRun = manifest.nextRun /\ m.active = manifest.active /\ m.closed = manifest.closed
         /\ \A n : LET m == [manifest EXCEPT !.eventCursor = n]
                   IN  m.nextRun = manifest.nextRun /\ m.active = manifest.active /\ m.closed = manifest.closed
         /\ \A s : LET m == [manifest EXCEPT !.seen = s]
                   IN  m.nextRun = manifest.nextRun /\ m.active = manifest.active /\ m.closed = manifest.closed
         /\ \A b : LET m == [manifest EXCEPT !.budgets = b]
                   IN  m.nextRun = manifest.nextRun /\ m.active = manifest.active /\ m.closed = manifest.closed
         /\ LET m == [manifest EXCEPT !.active = NoRun]
            IN  m.nextRun = manifest.nextRun /\ m.active = NoRun /\ m.closed = manifest.closed
         /\ LET m == [manifest EXCEPT !.closed = TRUE]
            IN  m.nextRun = manifest.nextRun /\ m.active = manifest.active /\ m.closed = TRUE
         /\ \A s, n, b, a : LET m == [manifest EXCEPT !.seen = s, !.nextRun = n, !.budgets = b, !.active = a]
                            IN  m.nextRun = n /\ m.active = a /\ m.closed = manifest.closed
  BY DEF Store!TypeOK, Store!Manifest

\* The handle's copy with the same runs is written, or is not.
LEMMA ReplaceSame ==
  ASSUME Agree, NEW m, NEW result, Store!ReplaceManifest(m, result),
         m.nextRun = manifest.nextRun, m.active = manifest.active, m.closed = manifest.closed
  PROVE  SameCore /\ Agree'
  BY DEF Agree, Store!ReplaceManifest, SameCore, CoreIs

LEMMA AppendLeaves ==
  ASSUME Store!TypeOK, Agree, NEW recs \in Seq(Record), NEW result,
         Store!AppendTranscript(recs, result)
  PROVE  /\ \E part : Prefix(part, recs) /\ Added(part)
         /\ result = "ok" => Added(recs)
         /\ Agree'
  <1>1. CASE result \in Store!ReplaceResults
    <2>1. /\ transcriptLog' = transcriptLog \o Store!Lines(recs) /\ eventLog' = eventLog
          /\ Store!ReplaceManifest([manifest EXCEPT !.transcriptSeq = @ + Len(recs)], result)
      BY <1>1 DEF Store!AppendTranscript, Store!ReplaceResults
    <2>2. SameCore /\ Agree'
      BY <2>1, CoreOfParts, ReplaceSame
    <2>3. Added(recs)
      BY <2>1, <2>2, AllLinesAdded DEF Added
    <2>4. Prefix(recs, recs)
      BY DEF Prefix
    <2> QED
      BY <2>2, <2>3, <2>4
  <1>2. CASE result \notin Store!ReplaceResults
    <2>1. /\ \E f \in Store!Fragments(recs) :
               transcriptLog' = transcriptLog \o SubSeq(Store!Lines(recs), 1, f.kept)
          /\ UNCHANGED <<manifest, manifestFile, eventLog>>
      BY <1>2 DEF Store!AppendTranscript
    <2>2. PICK kept \in 0..Len(recs) :
            transcriptLog' = transcriptLog \o SubSeq(Store!Lines(recs), 1, kept)
      BY <2>1 DEF Store!Fragments
    <2>3. SameCore /\ Agree'
      BY <2>1 DEF SameCore, CoreIs, Agree
    <2>4. \E part : Prefix(part, recs) /\ Longer(transcriptLog, transcriptLog', part)
      BY <2>2, LinesAdded
    <2>5. result # "ok"
      BY <1>2 DEF Store!ReplaceResults
    <2> QED
      BY <2>1, <2>3, <2>4, <2>5 DEF Added
  <1> QED
    BY <1>1, <1>2

LEMMA EventLeaves ==
  ASSUME Store!TypeOK, Agree, NEW ev, NEW result, Store!AppendEvent(cursor + 1, ev, result)
  PROVE  /\ Noted(ev) \/ Same
         /\ result = "ok" => Noted(ev)
         /\ Agree'
  <1>1. CASE result \in Store!ReplaceResults
    <2>1. /\ eventLog' = Append(eventLog, [cursor |-> cursor + 1, ev |-> ev])
          /\ transcriptLog' = transcriptLog
          /\ Store!ReplaceManifest([manifest EXCEPT !.eventCursor = cursor + 1], result)
      BY <1>1 DEF Store!AppendEvent, Store!ReplaceResults
    <2>2. SameCore /\ Agree'
      BY <2>1, CoreOfParts, ReplaceSame
    <2> QED
      BY <2>1, <2>2 DEF Noted
  <1>2. CASE result \notin Store!ReplaceResults
    <2>1. /\ \/ eventLog' = Append(eventLog, [cursor |-> cursor + 1, ev |-> ev])
             \/ eventLog' = eventLog
          /\ UNCHANGED <<manifest, manifestFile, transcriptLog>>
      BY <1>2 DEF Store!AppendEvent
    <2>2. SameCore /\ Agree'
      BY <2>1 DEF SameCore, CoreIs, Agree
    <2>3. result # "ok"
      BY <1>2 DEF Store!ReplaceResults
    <2> QED
      BY <2>1, <2>2, <2>3 DEF Noted, Same
  <1> QED
    BY <1>1, <1>2

LEMMA OnlyManifestLeaves ==
  ASSUME Agree, NEW m, NEW result, Store!OnlyManifest(m, result)
  PROVE  /\ CoreOnly(m.nextRun, m.active, m.closed) \/ Same
         /\ result = "ok" => CoreOnly(m.nextRun, m.active, m.closed) /\ Agree'
  BY DEF Agree, Store!OnlyManifest, Store!ReplaceManifest, CoreOnly, CoreIs, Same, SameCore

\* Once the handle and the file agree, a write leaves what it is meant to leave
\* or less, and they agree again unless a change of the runs failed.
LEMMA WriteLeaves ==
  ASSUME Types, Agree, NEW w \in StoreCall, NEW result, StoreWrite(w, result)
  PROVE  /\ Leaves(w)
         /\ result = "ok" => Does(w) /\ Agree'
         /\ w.op \notin {"begin", "finish", "close"} => Agree'
  <1>1. Store!TypeOK /\ w.recs \in Seq(Record)
    BY DEF Types, StoreCall
  <1>2. ASSUME NEW cmd, Store!BeginRun(cmd, result), w.op = "begin"
        PROVE  Leaves(w) /\ (result = "ok" => Does(w) /\ Agree')
    <2> DEFINE n == manifest.nextRun + 1
               m == [manifest EXCEPT !.seen = @ \cup {cmd}, !.nextRun = n,
                                     !.budgets = Append(@, Store!FreshBudget), !.active = n]
    <2>1. Store!OnlyManifest(m, result)
      BY <1>2 DEF Store!BeginRun
    <2>2. m.nextRun = n /\ m.active = n /\ m.closed = manifest.closed
      BY <1>1 DEF Store!TypeOK, Store!Manifest
    <2> HIDE DEF m
    <2> QED
      BY <1>2, <2>1, <2>2, OnlyManifestLeaves DEF Leaves, Does, Agree
  <1>3. ASSUME NEW cmd, Store!RecordCommand(cmd, result), w.op = "record"
        PROVE  Leaves(w) /\ Does(w) /\ Agree'
    <2> DEFINE m == [manifest EXCEPT !.seen = @ \cup {cmd}]
    <2>1. /\ Store!OnlyManifest(m, result)
          /\ m.nextRun = manifest.nextRun /\ m.active = manifest.active
          /\ m.closed = manifest.closed
      BY <1>1, <1>3 DEF Store!RecordCommand, Store!TypeOK, Store!Manifest
    <2> HIDE DEF m
    <2>2. SameCore /\ Agree'
      BY <2>1, ReplaceSame DEF Store!OnlyManifest
    <2>3. Same
      BY <2>1, <2>2 DEF Same, Store!OnlyManifest
    <2> QED
      BY <1>3, <2>2, <2>3 DEF Leaves, Does
  <1>4. CASE w.op = "append" /\ Store!AppendTranscript(w.recs, result)
    <2>1. /\ \E part : Prefix(part, w.recs) /\ Added(part)
          /\ result = "ok" => Added(w.recs)
          /\ Agree'
      BY <1>1, <1>4, AppendLeaves
    <2> QED
      BY <1>4, <2>1 DEF Leaves, Does
  <1>5. CASE w.op \in {"emit", "persist"} /\ Store!AppendEvent(cursor + 1, w.ev, result)
    <2>1. Noted(w.ev) => Does(w)
      BY <1>5 DEF Does
    <2> QED
      BY <1>1, <1>5, <2>1, EventLeaves DEF Leaves
  <1>6. CASE w.op = "finish" /\ Store!FinishRun(manifest.active, result)
    <2>1. PICK m : /\ Store!OnlyManifest(m, result)
                   /\ m.nextRun = manifest.nextRun /\ m.active = NoRun
                   /\ m.closed = manifest.closed
      BY <1>1, <1>6, CoreOfParts, StoreSets DEF Store!FinishRun
    <2> QED
      BY <1>6, <2>1, OnlyManifestLeaves DEF Leaves, Does, Agree
  <1>7. CASE w.op = "close" /\ Store!CloseStore(result)
    <2>1. PICK m : /\ Store!OnlyManifest(m, result)
                   /\ m.nextRun = manifest.nextRun /\ m.active = manifest.active
                   /\ m.closed = TRUE
      BY <1>1, <1>7, CoreOfParts DEF Store!CloseStore
    <2> QED
      BY <1>7, <2>1, OnlyManifestLeaves DEF Leaves, Does, Agree
  <1> QED
    BY <1>2, <1>3, <1>4, <1>5, <1>6, <1>7 DEF StoreWrite

\* The death of the process between two writes or in one.
LEMMA DeathLeaves ==
  ASSUME Types, ProcessDies
  PROVE  Same \/ (job.writes # <<>> /\ Leaves(Head(job.writes)))
  <1>1. Store!TypeOK
    BY DEF Types
  <1>2. CASE Store!Crash
    BY <1>2 DEF Store!Crash, Store!disk, Same, SameCore, CoreIs
  <1>3. CASE job.writes # <<>> /\ Head(job.writes).op = "append" /\ Store!CrashAppending(Head(job.writes).recs)
    <2> DEFINE recs == Head(job.writes).recs
    <2>1. recs \in Seq(Record)
      BY <1>3, HeadTyped
    <2>2. PICK f \in Store!Fragments(recs) :
            transcriptLog' = transcriptLog \o SubSeq(Store!Lines(recs), 1, f.kept)
      BY <1>3 DEF Store!CrashAppending
    <2>3. f.kept \in 0..Len(recs)
      BY DEF Store!Fragments
    <2>4. eventLog' = eventLog /\ SameCore
      BY <1>3 DEF Store!CrashAppending, SameCore, CoreIs
    <2> HIDE DEF recs
    <2>5. \E part : Prefix(part, recs) /\ Longer(transcriptLog, transcriptLog', part)
      BY <1>1, <2>1, <2>2, <2>3, LinesAdded
    <2>6. \E part : Prefix(part, recs) /\ Added(part)
      BY <2>4, <2>5 DEF Added
    <2> QED
      BY <1>3, <2>6 DEF Leaves, recs
  <1>4. CASE /\ job.writes # <<>> /\ Head(job.writes).op \in {"emit", "persist"}
             /\ Store!CrashAppendingEvent(cursor + 1, Head(job.writes).ev)
    <2>1. /\ \/ eventLog' = Append(eventLog, [cursor |-> cursor + 1, ev |-> Head(job.writes).ev])
             \/ eventLog' = eventLog
          /\ transcriptLog' = transcriptLog /\ SameCore
      BY <1>4 DEF Store!CrashAppendingEvent, SameCore, CoreIs
    <2> QED
      BY <1>4, <2>1 DEF Leaves, Does, Noted, Same
  <1> QED
    BY <1>2, <1>3, <1>4 DEF ProcessDies
-----------------------------------------------------------------------------
(***************************************************************************)
(* What each effect does to the runs and to the closing.                   *)
(***************************************************************************)
SameMarks ==
  /\ SameCore
  /\ \A run : (Ended(run)' <=> Ended(run)) /\ (Told(run)' <=> Told(run))
  /\ FactThere' <=> FactThere
  /\ CloseTold' <=> CloseTold
  /\ \A entry : EventThere(entry) => EventThere(entry)'

\* The death of a process is not forgotten.
Counts == crashes' = 0 => crashes = 0

LEMMA PlacesKept ==
  ASSUME SameMarks
  PROVE  /\ \A run : /\ Open(run)' <=> Open(run)
                     /\ Untold(run)' <=> Untold(run)
                     /\ Marked(run)' <=> Marked(run)
         /\ Resting' <=> Resting
         /\ Unmarked' <=> Unmarked
         /\ Untalked' <=> Untalked
         /\ Shut' <=> Shut
  BY DEF SameMarks, SameCore, CoreIs, Open, Untold, Marked, Resting, Unmarked, Untalked, Shut

LEMMA SameKeeps ==
  ASSUME DiskInv, Same, Counts
  PROVE  DiskInv' /\ SameMarks
  <1>1. /\ transcriptLog' = transcriptLog /\ eventLog' = eventLog
        /\ manifestFile'.nextRun = manifestFile.nextRun
        /\ manifestFile'.active = manifestFile.active
        /\ manifestFile'.closed = manifestFile.closed
    BY DEF Same, SameCore, CoreIs
  <1>2. SameMarks
    BY <1>1 DEF SameMarks, SameCore, CoreIs, Ended, Told, FactThere, CloseTold, EventThere, EndsAt,
                TellsAt, ClosesAt, CloseToldAt
  <1>3. RunsInv'
    BY <1>1, <1>2 DEF DiskInv, RunsInv, SameMarks
  <1>4. OnceInv' /\ BlocksInv' /\ KnownInv'
    BY <1>1 DEF DiskInv, OnceInv, BlocksInv, KnownInv, EndsAt, TellsAt
  <1>5. CloseInv'
    BY <1>1, <1>2 DEF DiskInv, CloseInv, SameMarks, ClosesAt, CloseToldAt
  <1>6. ReportInv'
    BY <1>1 DEF DiskInv, ReportInv, EndsAt, TellsAt, Counts
  <1> QED
    BY <1>2, <1>3, <1>4, <1>5, <1>6 DEF DiskInv

\* An entry of the transcript is an old one or one of the records added.
LEMMA AddedAt ==
  ASSUME Store!TypeOK, NEW part \in Seq(Record), Added(part)
  PROVE  /\ \A i \in 1..Len(transcriptLog) :
              i \in 1..Len(transcriptLog') /\ transcriptLog'[i] = transcriptLog[i]
         /\ \A i \in 1..Len(transcriptLog') :
              \/ i \in 1..Len(transcriptLog)
              \/ /\ \A j \in 1..Len(transcriptLog) : j < i
                 /\ \E k \in 1..Len(part) :
                      i = Len(transcriptLog) + k /\ transcriptLog'[i].rec = part[k]
  <1>1. Len(transcriptLog) \in Nat /\ Len(part) \in Nat
    BY StoreSets DEF Store!TypeOK
  <1>2. Longer(transcriptLog, transcriptLog', part)
    BY DEF Added
  <1>3. Len(transcriptLog') = Len(transcriptLog) + Len(part)
    BY <1>2 DEF Longer
  <1>4. \A i \in 1..Len(transcriptLog) :
          i \in 1..Len(transcriptLog') /\ transcriptLog'[i] = transcriptLog[i]
    BY <1>1, <1>2, <1>3 DEF Longer
  <1>5. ASSUME NEW i \in 1..Len(transcriptLog'), i \notin 1..Len(transcriptLog)
        PROVE  /\ \A j \in 1..Len(transcriptLog) : j < i
               /\ \E k \in 1..Len(part) :
                      i = Len(transcriptLog) + k /\ transcriptLog'[i].rec = part[k]
    <2>1. PICK k \in 1..Len(part) : i = Len(transcriptLog) + k
      BY <1>2, <1>5 DEF Longer
    <2>2. transcriptLog'[i].rec = part[k]
      BY <1>2, <2>1 DEF Longer
    <2>3. \A j \in 1..Len(transcriptLog) : j < i
      BY <1>1, <2>1
    <2> QED
      BY <2>1, <2>2, <2>3
  <1> QED
    BY <1>4, <1>5

\* An event of the log is an old one or the one that was appended.
LEMMA NotedAt ==
  ASSUME Store!TypeOK, NEW ev, Noted(ev)
  PROVE  /\ Len(eventLog') = Len(eventLog) + 1 /\ Len(eventLog) \in Nat
         /\ \A j \in 1..Len(eventLog) :
              j \in 1..Len(eventLog') /\ eventLog'[j] = eventLog[j]
         /\ \A j \in 1..Len(eventLog') :
              j \in 1..Len(eventLog) \/ j = Len(eventLog) + 1
         /\ eventLog'[Len(eventLog) + 1] = [cursor |-> cursor + 1, ev |-> ev]
         /\ eventLog'[Len(eventLog) + 1].ev = ev
         /\ Len(eventLog) + 1 \in 1..Len(eventLog')
  <1> DEFINE entry == [cursor |-> cursor + 1, ev |-> ev]
  <1>1. eventLog \in Seq(Store!EventEntry) /\ eventLog' = Append(eventLog, entry) /\ entry.ev = ev
    BY DEF Store!TypeOK, Noted
  <1> HIDE DEF entry
  <1>2. /\ Len(eventLog') = Len(eventLog) + 1 /\ Len(eventLog) \in Nat
        /\ eventLog'[Len(eventLog) + 1] = entry
        /\ \A j \in 1..Len(eventLog) : eventLog'[j] = eventLog[j]
    BY <1>1, AppendProperties
  <1>3. \A j \in 1..Len(eventLog') : j \in 1..Len(eventLog) \/ j = Len(eventLog) + 1
    BY <1>2
  <1>4. \A j \in 1..Len(eventLog) : j \in 1..Len(eventLog')
    BY <1>2
  <1>5. eventLog'[Len(eventLog) + 1].ev = ev
    BY <1>1, <1>2
  <1> QED
    BY <1>2, <1>3, <1>4, <1>5 DEF entry

LEMMA EventsSame ==
  ASSUME eventLog' = eventLog
  PROVE  /\ \A j, run : TellsAt(j, run)' <=> TellsAt(j, run)
         /\ \A j : CloseToldAt(j)' <=> CloseToldAt(j)
         /\ \A run : Told(run)' <=> Told(run)
         /\ CloseTold' <=> CloseTold
         /\ \A entry : EventThere(entry) => EventThere(entry)'
  BY DEF TellsAt, CloseToldAt, Told, CloseTold, EventThere

LEMMA LogSame ==
  ASSUME transcriptLog' = transcriptLog
  PROVE  /\ \A i, run : EndsAt(i, run)' <=> EndsAt(i, run)
         /\ \A i : ClosesAt(i)' <=> ClosesAt(i)
         /\ \A run : Ended(run)' <=> Ended(run)
         /\ FactThere' <=> FactThere
  BY DEF EndsAt, ClosesAt, Ended, FactThere

\* Records of the active run that do not end it.
LEMMA PlainAdded ==
  ASSUME Store!TypeOK, DiskInv, Counts, NEW run, Open(run),
         NEW part \in Seq(Record), \A k \in 1..Len(part) : Plain(part[k], run), Added(part)
  PROVE  DiskInv' /\ SameMarks
  <1>1. \A i \in 1..Len(transcriptLog) :
          i \in 1..Len(transcriptLog') /\ transcriptLog'[i] = transcriptLog[i]
    BY AddedAt
  <1>2. ASSUME NEW i \in 1..Len(transcriptLog'), i \notin 1..Len(transcriptLog)
        PROVE  /\ \A j \in 1..Len(transcriptLog) : j < i
               /\ Plain(transcriptLog'[i].rec, run)
    BY <1>2, AddedAt
  <1>3. /\ eventLog' = eventLog /\ manifestFile'.nextRun = manifestFile.nextRun
        /\ manifestFile'.active = manifestFile.active
        /\ manifestFile'.closed = manifestFile.closed
    BY DEF Added, SameCore, CoreIs
  <1>4. /\ \A r : \A i \in 1..Len(transcriptLog') :
             EndsAt(i, r)' => i \in 1..Len(transcriptLog) /\ EndsAt(i, r)
        /\ \A r : \A i \in 1..Len(transcriptLog) : EndsAt(i, r) => EndsAt(i, r)'
    BY <1>1, <1>2 DEF EndsAt, Plain
  <1>5. /\ \A i \in 1..Len(transcriptLog') :
             ClosesAt(i)' => i \in 1..Len(transcriptLog) /\ ClosesAt(i)
        /\ \A i \in 1..Len(transcriptLog) : ClosesAt(i) => ClosesAt(i)'
    BY <1>1, <1>2 DEF ClosesAt, Plain
  <1>6. SameMarks
    <2>1. \A r : Ended(r)' <=> Ended(r)
      BY <1>1, <1>4 DEF Ended
    <2>2. FactThere' <=> FactThere
      BY <1>1, <1>5 DEF FactThere
    <2> QED
      BY <1>3, <2>1, <2>2, EventsSame DEF SameMarks, Added
  <1>7. RunsInv'
    BY <1>3, <1>6 DEF DiskInv, RunsInv, SameMarks
  <1>8. OnceInv'
    BY <1>3, <1>4, EventsSame DEF DiskInv, OnceInv
  <1>9. run \in 0..manifestFile.nextRun /\ run # NoRun
    BY DEF Open, DiskInv, RunsInv, Store!TypeOK, Store!Manifest, NoRun
  <1>10. KnownInv'
    <2>1. ASSUME NEW i \in 1..Len(transcriptLog')
          PROVE  /\ transcriptLog'[i].rec.run \in 0..manifestFile'.nextRun
                 /\ transcriptLog'[i].rec.kind = "run_outcome" =>
                      transcriptLog'[i].rec.run # NoRun /\ transcriptLog'[i].rec.outcome \in RunOutcomes
      <3>1. CASE i \in 1..Len(transcriptLog)
        BY <1>1, <1>3, <3>1 DEF DiskInv, KnownInv
      <3>2. CASE i \notin 1..Len(transcriptLog)
        BY <1>2, <1>3, <1>9, <3>2 DEF Plain
      <3> QED
        BY <3>1, <3>2
    <2> QED
      BY <1>3, <2>1 DEF DiskInv, KnownInv
  <1>11. BlocksInv'
    <2> SUFFICES ASSUME NEW i \in 1..Len(transcriptLog'), NEW j \in 1..Len(transcriptLog'),
                        i < j, transcriptLog'[i].rec.run # NoRun
                 PROVE  /\ \A r : EndsAt(i, r)' => transcriptLog'[j].rec.run # r
                        /\ transcriptLog'[j].rec.run # NoRun
                             => transcriptLog'[i].rec.run <= transcriptLog'[j].rec.run
      BY DEF BlocksInv
    <2>1. CASE j \in 1..Len(transcriptLog)
      <3>1. i \in 1..Len(transcriptLog)
        BY <1>2, <2>1
      <3> QED
        BY <1>1, <1>4, <2>1, <3>1 DEF DiskInv, BlocksInv
    <2>2. CASE j \notin 1..Len(transcriptLog)
      <3>1. transcriptLog'[j].rec.run = run
        BY <1>2, <2>2 DEF Plain
      <3>2. \A r : EndsAt(i, r)' => r # run
        BY <1>4 DEF Open, Ended
      <3>3. transcriptLog'[i].rec.run <= run
        <4>1. run = manifestFile.nextRun /\ manifestFile.nextRun \in Nat
          BY <1>9 DEF Open, DiskInv, RunsInv, Store!TypeOK, Store!Manifest
        <4> QED
          BY <1>3, <1>10, <4>1 DEF KnownInv
      <3> QED
        BY <3>1, <3>2, <3>3
    <2> QED
      BY <2>1, <2>2
  <1>12. CloseInv'
    <2>1. \A i, j \in 1..Len(transcriptLog') : ClosesAt(i)' /\ ClosesAt(j)' => i = j
      BY <1>5 DEF DiskInv, CloseInv
    <2>2. \A i, j \in 1..Len(eventLog') : CloseToldAt(i)' /\ CloseToldAt(j)' => i = j
      BY <1>3, EventsSame DEF DiskInv, CloseInv
    <2> QED
      BY <1>3, <1>6, <2>1, <2>2 DEF DiskInv, CloseInv, SameMarks
  <1>13. ReportInv'
    BY <1>1, <1>3, <1>4, EventsSame DEF DiskInv, ReportInv, Counts
  <1> QED
    BY <1>6, <1>7, <1>8, <1>10, <1>11, <1>12, <1>13 DEF DiskInv

\* One record more: it is at the end, everything else is as it was.
LEMMA OneAdded ==
  ASSUME Store!TypeOK, NEW part \in Seq(Record), Len(part) = 1, Added(part)
  PROVE  /\ Len(transcriptLog) \in Nat
         /\ \A i \in 1..Len(transcriptLog) :
              i \in 1..Len(transcriptLog') /\ transcriptLog'[i] = transcriptLog[i]
         /\ Len(transcriptLog) + 1 \in 1..Len(transcriptLog')
         /\ transcriptLog'[Len(transcriptLog) + 1].rec = part[1]
         /\ \A i \in 1..Len(transcriptLog') :
              i \in 1..Len(transcriptLog) \/ i = Len(transcriptLog) + 1
         /\ \A j \in 1..Len(transcriptLog) : j < Len(transcriptLog) + 1
  <1>1. Len(transcriptLog) \in Nat
    BY StoreSets DEF Store!TypeOK
  <1>2. Longer(transcriptLog, transcriptLog', part)
    BY DEF Added
  <1>3. Len(transcriptLog') = Len(transcriptLog) + 1 /\ 1 \in 1..Len(part)
    BY <1>2 DEF Longer
  <1>4. transcriptLog'[Len(transcriptLog) + 1].rec = part[1]
    BY <1>2, <1>3 DEF Longer
  <1>5. \A i \in 1..Len(transcriptLog') :
          i \in 1..Len(transcriptLog) \/ i = Len(transcriptLog) + 1
    BY <1>1, <1>3
  <1> QED
    BY <1>1, <1>3, <1>4, <1>5, AddedAt

\* The outcome of the active run.
LEMMA OutcomeAdded ==
  ASSUME Store!TypeOK, DiskInv, Counts, NEW run, Open(run),
         NEW part \in Seq(Record), Len(part) = 1, Added(part),
         part[1].kind = "run_outcome", part[1].run = run, part[1].outcome \in RunOutcomes
  PROVE  /\ DiskInv' /\ Untold(run)'
         /\ \A i \in 1..Len(transcriptLog') : EndsAt(i, run)' => transcriptLog'[i].rec = part[1]
  <1>1. PICK n \in Nat :
          /\ \A i \in 1..Len(transcriptLog) :
               i \in 1..Len(transcriptLog') /\ transcriptLog'[i] = transcriptLog[i]
          /\ n \in 1..Len(transcriptLog') /\ transcriptLog'[n].rec = part[1]
          /\ \A i \in 1..Len(transcriptLog') : i \in 1..Len(transcriptLog) \/ i = n
          /\ \A j \in 1..Len(transcriptLog) : j < n
          /\ \A j \in 1..Len(transcriptLog') : ~ n < j
    <2>1. Len(transcriptLog) + 1 \in Nat
      BY OneAdded
    <2>2. \A j \in 1..Len(transcriptLog') : ~ Len(transcriptLog) + 1 < j
      BY OneAdded
    <2> QED
      BY <2>1, <2>2, OneAdded
  <1>3. /\ eventLog' = eventLog /\ manifestFile'.nextRun = manifestFile.nextRun
        /\ manifestFile'.active = manifestFile.active
        /\ manifestFile'.closed = manifestFile.closed
    BY DEF Added, SameCore, CoreIs
  <1>4. /\ \A r : \A i \in 1..Len(transcriptLog) : EndsAt(i, r)' <=> EndsAt(i, r)
        /\ \A r : EndsAt(n, r)' <=> r = run
    BY <1>1 DEF EndsAt
  <1>5. /\ \A i \in 1..Len(transcriptLog) : ClosesAt(i)' <=> ClosesAt(i)
        /\ ~ ClosesAt(n)'
    BY <1>1 DEF ClosesAt
  <1>6. \A i \in 1..Len(transcriptLog) : ~ EndsAt(i, run)
    BY DEF Open, Ended
  <1>7. /\ \A r : Ended(r)' <=> Ended(r) \/ r = run
        /\ FactThere' <=> FactThere
    <2>1. \A r : Ended(r)' <=> Ended(r) \/ r = run
      BY <1>1, <1>4 DEF Ended
    <2>2. FactThere' <=> FactThere
      BY <1>1, <1>5 DEF FactThere
    <2> QED
      BY <2>1, <2>2
  <1>8. run = manifestFile.nextRun /\ manifestFile.nextRun \in Nat /\ run # NoRun
    BY DEF Open, DiskInv, RunsInv, Store!TypeOK, Store!Manifest
  <1>9. RunsInv'
    BY <1>3, <1>7, EventsSame DEF DiskInv, RunsInv
  <1>10. OnceInv'
    <2>1. \A i, j \in 1..Len(transcriptLog') : \A r : EndsAt(i, r)' /\ EndsAt(j, r)' => i = j
      BY <1>1, <1>4, <1>6 DEF DiskInv, OnceInv
    <2> QED
      BY <1>3, <2>1, EventsSame DEF DiskInv, OnceInv
  <1>11. KnownInv'
    <2>1. ASSUME NEW i \in 1..Len(transcriptLog')
          PROVE  /\ transcriptLog'[i].rec.run \in 0..manifestFile'.nextRun
                 /\ transcriptLog'[i].rec.kind = "run_outcome" =>
                      transcriptLog'[i].rec.run # NoRun /\ transcriptLog'[i].rec.outcome \in RunOutcomes
      <3>1. CASE i \in 1..Len(transcriptLog)
        BY <1>1, <1>3, <3>1 DEF DiskInv, KnownInv
      <3>2. CASE i = n
        <4>1. run \in 0..manifestFile.nextRun
          BY <1>8
        <4> QED
          BY <1>1, <1>3, <1>8, <3>2, <4>1
      <3> QED
        BY <1>1, <3>1, <3>2
    <2> QED
      BY <1>3, <2>1 DEF DiskInv, KnownInv
  <1>12. BlocksInv'
    <2> SUFFICES ASSUME NEW i \in 1..Len(transcriptLog'), NEW j \in 1..Len(transcriptLog'),
                        i < j, transcriptLog'[i].rec.run # NoRun
                 PROVE  /\ \A r : EndsAt(i, r)' => transcriptLog'[j].rec.run # r
                        /\ transcriptLog'[j].rec.run # NoRun
                             => transcriptLog'[i].rec.run <= transcriptLog'[j].rec.run
      BY DEF BlocksInv
    <2>1. i \in 1..Len(transcriptLog)
      BY <1>1
    <2>2. CASE j \in 1..Len(transcriptLog)
      BY <1>1, <1>4, <2>1, <2>2 DEF DiskInv, BlocksInv
    <2>3. CASE j = n
      <3>1. transcriptLog'[j].rec.run = run
        BY <1>1, <2>3
      <3>2. \A r : EndsAt(i, r)' => r # run
        BY <1>4, <1>6, <2>1
      <3>3. transcriptLog'[i].rec.run <= run
        BY <1>3, <1>8, <1>11 DEF KnownInv
      <3> QED
        BY <3>1, <3>2, <3>3
    <2> QED
      BY <1>1, <2>2, <2>3
  <1>13. CloseInv'
    <2>1. \A i, j \in 1..Len(transcriptLog') : ClosesAt(i)' /\ ClosesAt(j)' => i = j
      BY <1>1, <1>5 DEF DiskInv, CloseInv
    <2>2. \A i, j \in 1..Len(eventLog') : CloseToldAt(i)' /\ CloseToldAt(j)' => i = j
      BY <1>3, EventsSame DEF DiskInv, CloseInv
    <2>3. CloseTold' <=> CloseTold
      BY <1>3, EventsSame
    <2> QED
      BY <1>3, <1>7, <2>1, <2>2, <2>3 DEF DiskInv, CloseInv
  <1>14. ReportInv'
    <2> SUFFICES ASSUME crashes' = 0, NEW i \in 1..Len(transcriptLog'), NEW j \in 1..Len(eventLog'),
                        NEW r, EndsAt(i, r)', TellsAt(j, r)'
                 PROVE  eventLog'[j].ev = ReportOf(transcriptLog'[i].rec)
      BY DEF ReportInv
    <2>1. TellsAt(j, r) /\ j \in 1..Len(eventLog)
      BY <1>3, EventsSame
    <2>2. r # run
      BY <2>1 DEF Open, Told
    <2>3. i \in 1..Len(transcriptLog) /\ EndsAt(i, r)
      BY <1>1, <1>4, <2>2
    <2> QED
      BY <1>1, <1>3, <2>1, <2>3 DEF DiskInv, ReportInv, Counts
  <1>15. Untold(run)'
    BY <1>3, <1>7, EventsSame DEF Open, Untold
  <1>16. \A i \in 1..Len(transcriptLog') : EndsAt(i, run)' => transcriptLog'[i].rec = part[1]
    BY <1>1, <1>4, <1>6
  <1> QED
    BY <1>9, <1>10, <1>11, <1>12, <1>13, <1>14, <1>15, <1>16 DEF DiskInv

\* The fact that the session was closed.
LEMMA FactAdded ==
  ASSUME Store!TypeOK, DiskInv, Counts, Resting,
         NEW part \in Seq(Record), Len(part) = 1, Added(part), part[1] = SessionClosed
  PROVE  DiskInv' /\ Unmarked'
  <1>1. PICK n \in Nat :
          /\ \A i \in 1..Len(transcriptLog) :
               i \in 1..Len(transcriptLog') /\ transcriptLog'[i] = transcriptLog[i]
          /\ n \in 1..Len(transcriptLog') /\ transcriptLog'[n].rec = part[1]
          /\ \A i \in 1..Len(transcriptLog') : i \in 1..Len(transcriptLog) \/ i = n
          /\ \A j \in 1..Len(transcriptLog) : j < n
          /\ \A j \in 1..Len(transcriptLog') : ~ n < j
    <2>1. Len(transcriptLog) + 1 \in Nat
      BY OneAdded
    <2>2. \A j \in 1..Len(transcriptLog') : ~ Len(transcriptLog) + 1 < j
      BY OneAdded
    <2> QED
      BY <2>1, <2>2, OneAdded
  <1>2. part[1].kind = "session_closed" /\ part[1].run = NoRun
    <2>1. SessionClosed.kind = "session_closed" /\ SessionClosed.run = NoRun
      BY DEF SessionClosed, Fact
    <2> QED
      BY <2>1
  <1>3. /\ eventLog' = eventLog /\ manifestFile'.nextRun = manifestFile.nextRun
        /\ manifestFile'.active = manifestFile.active
        /\ manifestFile'.closed = manifestFile.closed
    BY DEF Added, SameCore, CoreIs
  <1>4. /\ \A r : \A i \in 1..Len(transcriptLog) : EndsAt(i, r)' <=> EndsAt(i, r)
        /\ \A r : ~ EndsAt(n, r)'
    BY <1>1, <1>2 DEF EndsAt
  <1>5. /\ \A i \in 1..Len(transcriptLog) : ClosesAt(i)' <=> ClosesAt(i)
        /\ ClosesAt(n)'
    BY <1>1, <1>2 DEF ClosesAt
  <1>6. \A i \in 1..Len(transcriptLog) : ~ ClosesAt(i)
    BY DEF Resting, FactThere
  <1>7. /\ \A r : Ended(r)' <=> Ended(r)
        /\ FactThere'
    <2>1. \A r : Ended(r)' <=> Ended(r)
      BY <1>1, <1>4 DEF Ended
    <2>2. FactThere'
      BY <1>1, <1>5 DEF FactThere
    <2> QED
      BY <2>1, <2>2
  <1>8. RunsInv'
    BY <1>3, <1>7, EventsSame DEF DiskInv, RunsInv
  <1>9. OnceInv'
    <2>1. \A i, j \in 1..Len(transcriptLog') : \A r : EndsAt(i, r)' /\ EndsAt(j, r)' => i = j
      BY <1>1, <1>4 DEF DiskInv, OnceInv
    <2> QED
      BY <1>3, <2>1, EventsSame DEF DiskInv, OnceInv
  <1>10. KnownInv'
    <2>1. ASSUME NEW i \in 1..Len(transcriptLog')
          PROVE  /\ transcriptLog'[i].rec.run \in 0..manifestFile'.nextRun
                 /\ transcriptLog'[i].rec.kind = "run_outcome" =>
                      transcriptLog'[i].rec.run # NoRun /\ transcriptLog'[i].rec.outcome \in RunOutcomes
      <3>1. CASE i \in 1..Len(transcriptLog)
        BY <1>1, <1>3, <3>1 DEF DiskInv, KnownInv
      <3>2. CASE i = n
        <4>1. NoRun \in 0..manifestFile.nextRun
          BY DEF Store!TypeOK, Store!Manifest, NoRun
        <4> QED
          BY <1>1, <1>2, <1>3, <3>2, <4>1
      <3> QED
        BY <1>1, <3>1, <3>2
    <2> QED
      BY <1>3, <2>1 DEF DiskInv, KnownInv
  <1>11. BlocksInv'
    <2> SUFFICES ASSUME NEW i \in 1..Len(transcriptLog'), NEW j \in 1..Len(transcriptLog'),
                        i < j, transcriptLog'[i].rec.run # NoRun
                 PROVE  /\ \A r : EndsAt(i, r)' => transcriptLog'[j].rec.run # r
                        /\ transcriptLog'[j].rec.run # NoRun
                             => transcriptLog'[i].rec.run <= transcriptLog'[j].rec.run
      BY DEF BlocksInv
    <2>1. i \in 1..Len(transcriptLog)
      BY <1>1
    <2>2. CASE j \in 1..Len(transcriptLog)
      BY <1>1, <1>4, <2>1, <2>2 DEF DiskInv, BlocksInv
    <2>3. CASE j = n
      <3>1. transcriptLog'[j].rec.run = NoRun
        BY <1>1, <1>2, <2>3
      <3>2. \A r : EndsAt(i, r)' => r # NoRun
        BY DEF EndsAt
      <3> QED
        BY <3>1, <3>2
    <2> QED
      BY <1>1, <2>2, <2>3
  <1>12. CloseInv' /\ ~ CloseTold' /\ ~ manifestFile'.closed
    <2>1. \A i, j \in 1..Len(transcriptLog') : ClosesAt(i)' /\ ClosesAt(j)' => i = j
      BY <1>1, <1>5, <1>6
    <2>2. \A i, j \in 1..Len(eventLog') : CloseToldAt(i)' /\ CloseToldAt(j)' => i = j
      BY <1>3, EventsSame DEF DiskInv, CloseInv
    <2>3. CloseTold' <=> CloseTold
      BY <1>3, EventsSame
    <2> QED
      BY <1>3, <1>7, <2>1, <2>2, <2>3 DEF DiskInv, CloseInv, Resting
  <1>13. ReportInv'
    BY <1>1, <1>3, <1>4, EventsSame DEF DiskInv, ReportInv, Counts
  <1> QED
    BY <1>7, <1>8, <1>9, <1>10, <1>11, <1>12, <1>13 DEF DiskInv, Unmarked

\* An event that ends nothing.
LEMMA PlainNoted ==
  ASSUME Store!TypeOK, DiskInv, Counts, NEW ev, Noted(ev),
         ev.kind \notin TerminalEvents \cup {"session_closed"}, ev.run \in 0..manifestFile.nextRun
  PROVE  DiskInv' /\ SameMarks
  <1>1. PICK n \in Nat :
          /\ \A j \in 1..Len(eventLog) :
               j \in 1..Len(eventLog') /\ eventLog'[j] = eventLog[j]
          /\ n \in 1..Len(eventLog') /\ eventLog'[n].ev = ev
          /\ \A j \in 1..Len(eventLog') : j \in 1..Len(eventLog) \/ j = n
    <2>1. Len(eventLog) + 1 \in Nat
      BY NotedAt
    <2>2. eventLog'[Len(eventLog) + 1].ev = ev
      BY NotedAt
    <2> QED
      BY <2>1, <2>2, NotedAt
  <1>2. /\ transcriptLog' = transcriptLog /\ manifestFile'.nextRun = manifestFile.nextRun
        /\ manifestFile'.active = manifestFile.active
        /\ manifestFile'.closed = manifestFile.closed
    BY DEF Noted, SameCore, CoreIs
  <1>3. /\ \A r : \A j \in 1..Len(eventLog) : TellsAt(j, r)' <=> TellsAt(j, r)
        /\ \A r : ~ TellsAt(n, r)'
    BY <1>1 DEF TellsAt
  <1>4. /\ \A j \in 1..Len(eventLog) : CloseToldAt(j)' <=> CloseToldAt(j)
        /\ ~ CloseToldAt(n)'
    BY <1>1 DEF CloseToldAt
  <1>5. SameMarks
    <2>1. \A r : Told(r)' <=> Told(r)
      BY <1>1, <1>3 DEF Told
    <2>2. CloseTold' <=> CloseTold
      BY <1>1, <1>4 DEF CloseTold
    <2>3. \A entry : EventThere(entry) => EventThere(entry)'
      BY <1>1 DEF EventThere
    <2> QED
      BY <1>2, <2>1, <2>2, <2>3, LogSame DEF SameMarks, Noted
  <1>6. RunsInv'
    BY <1>2, <1>5 DEF DiskInv, RunsInv, SameMarks
  <1>7. OnceInv'
    <2>1. \A i, j \in 1..Len(eventLog') : \A r : TellsAt(i, r)' /\ TellsAt(j, r)' => i = j
      BY <1>1, <1>3 DEF DiskInv, OnceInv
    <2> QED
      BY <1>2, <2>1, LogSame DEF DiskInv, OnceInv
  <1>8. KnownInv'
    <2>1. ASSUME NEW j \in 1..Len(eventLog')
          PROVE  /\ eventLog'[j].ev.run \in 0..manifestFile'.nextRun
                 /\ eventLog'[j].ev.kind \in TerminalEvents => eventLog'[j].ev.run # NoRun
      BY <1>1, <1>2 DEF DiskInv, KnownInv
    <2> QED
      BY <1>2, <2>1 DEF DiskInv, KnownInv
  <1>9. BlocksInv'
    BY <1>2, LogSame DEF DiskInv, BlocksInv
  <1>10. CloseInv'
    <2>1. \A i, j \in 1..Len(eventLog') : CloseToldAt(i)' /\ CloseToldAt(j)' => i = j
      BY <1>1, <1>4 DEF DiskInv, CloseInv
    <2>2. \A i, j \in 1..Len(transcriptLog') : ClosesAt(i)' /\ ClosesAt(j)' => i = j
      BY <1>2, LogSame DEF DiskInv, CloseInv
    <2> QED
      BY <1>2, <1>5, <2>1, <2>2 DEF DiskInv, CloseInv, SameMarks
  <1>11. ReportInv'
    BY <1>1, <1>2, <1>3, LogSame DEF DiskInv, ReportInv, Counts
  <1> QED
    BY <1>5, <1>6, <1>7, <1>8, <1>9, <1>10, <1>11 DEF DiskInv

\* The terminal event of the active run, after its outcome.
LEMMA EndNoted ==
  ASSUME Store!TypeOK, DiskInv, Counts, NEW run, Untold(run), NEW ev, Noted(ev),
         ev.kind \in TerminalEvents, ev.run = run,
         crashes = 0 => \A i \in 1..Len(transcriptLog) :
                          EndsAt(i, run) => ev = ReportOf(transcriptLog[i].rec)
  PROVE  /\ DiskInv' /\ Marked(run)'
         /\ \E j \in 1..Len(eventLog') : eventLog'[j] = [cursor |-> cursor + 1, ev |-> ev]
         /\ \A entry : EventThere(entry) => EventThere(entry)'
  <1> DEFINE last == [cursor |-> cursor + 1, ev |-> ev]
  <1>1. PICK n \in Nat :
          /\ \A j \in 1..Len(eventLog) :
               j \in 1..Len(eventLog') /\ eventLog'[j] = eventLog[j]
          /\ n \in 1..Len(eventLog') /\ eventLog'[n].ev = ev /\ eventLog'[n] = last
          /\ \A j \in 1..Len(eventLog') : j \in 1..Len(eventLog) \/ j = n
    <2>1. Len(eventLog) + 1 \in Nat
      BY NotedAt
    <2>2. eventLog'[Len(eventLog) + 1].ev = ev /\ eventLog'[Len(eventLog) + 1] = last
      BY NotedAt
    <2> HIDE DEF last
    <2> QED
      BY <2>1, <2>2, NotedAt
  <1>2. /\ transcriptLog' = transcriptLog /\ manifestFile'.nextRun = manifestFile.nextRun
        /\ manifestFile'.active = manifestFile.active
        /\ manifestFile'.closed = manifestFile.closed
    BY DEF Noted, SameCore, CoreIs
  <1>3. /\ \A r : \A j \in 1..Len(eventLog) : TellsAt(j, r)' <=> TellsAt(j, r)
        /\ \A r : TellsAt(n, r)' <=> r = run
    BY <1>1 DEF TellsAt
  <1>4. /\ \A j \in 1..Len(eventLog) : CloseToldAt(j)' <=> CloseToldAt(j)
        /\ ~ CloseToldAt(n)'
    BY <1>1 DEF CloseToldAt, TerminalEvents
  <1>5. \A j \in 1..Len(eventLog) : ~ TellsAt(j, run)
    BY DEF Untold, Told
  <1>6. /\ \A r : Told(r)' <=> Told(r) \/ r = run
        /\ CloseTold' <=> CloseTold
    <2>1. \A r : Told(r)' <=> Told(r) \/ r = run
      BY <1>1, <1>3 DEF Told
    <2>2. CloseTold' <=> CloseTold
      BY <1>1, <1>4 DEF CloseTold
    <2> QED
      BY <2>1, <2>2
  <1>7. /\ \A entry : EventThere(entry) => EventThere(entry)'
        /\ \E j \in 1..Len(eventLog') : eventLog'[j] = last
    <2>1. \A entry : EventThere(entry) => EventThere(entry)'
      BY <1>1 DEF EventThere
    <2>2. \E j \in 1..Len(eventLog') : eventLog'[j] = last
      BY <1>1
    <2> QED
      BY <2>1, <2>2
  <1>8. run = manifestFile.nextRun /\ manifestFile.nextRun \in Nat /\ run # NoRun
    BY DEF Untold, DiskInv, RunsInv, Store!TypeOK, Store!Manifest
  <1>9. RunsInv'
    BY <1>2, <1>6, LogSame DEF DiskInv, RunsInv, Untold
  <1>10. OnceInv'
    <2>1. \A i, j \in 1..Len(eventLog') : \A r : TellsAt(i, r)' /\ TellsAt(j, r)' => i = j
      BY <1>1, <1>3, <1>5 DEF DiskInv, OnceInv
    <2> QED
      BY <1>2, <2>1, LogSame DEF DiskInv, OnceInv
  <1>11. KnownInv'
    <2>1. run \in 0..manifestFile.nextRun
      BY <1>8
    <2>2. ASSUME NEW j \in 1..Len(eventLog')
          PROVE  /\ eventLog'[j].ev.run \in 0..manifestFile'.nextRun
                 /\ eventLog'[j].ev.kind \in TerminalEvents => eventLog'[j].ev.run # NoRun
      BY <1>1, <1>2, <1>8, <2>1 DEF DiskInv, KnownInv
    <2> QED
      BY <1>2, <2>2 DEF DiskInv, KnownInv
  <1>12. BlocksInv'
    BY <1>2, LogSame DEF DiskInv, BlocksInv
  <1>13. CloseInv'
    <2>1. \A i, j \in 1..Len(eventLog') : CloseToldAt(i)' /\ CloseToldAt(j)' => i = j
      BY <1>1, <1>4 DEF DiskInv, CloseInv
    <2>2. \A i, j \in 1..Len(transcriptLog') : ClosesAt(i)' /\ ClosesAt(j)' => i = j
      BY <1>2, LogSame DEF DiskInv, CloseInv
    <2> QED
      BY <1>2, <1>6, <2>1, <2>2, LogSame DEF DiskInv, CloseInv
  <1>14. ReportInv'
    <2> SUFFICES ASSUME crashes' = 0, NEW i \in 1..Len(transcriptLog'), NEW j \in 1..Len(eventLog'),
                        NEW r, EndsAt(i, r)', TellsAt(j, r)'
                 PROVE  eventLog'[j].ev = ReportOf(transcriptLog'[i].rec)
      BY DEF ReportInv
    <2>1. i \in 1..Len(transcriptLog) /\ EndsAt(i, r) /\ crashes = 0
      BY <1>2, LogSame DEF Counts
    <2>2. CASE j = n
      BY <1>1, <1>2, <1>3, <2>1, <2>2
    <2>3. CASE j \in 1..Len(eventLog)
      BY <1>1, <1>2, <1>3, <2>1, <2>3 DEF DiskInv, ReportInv
    <2> QED
      BY <1>1, <2>2, <2>3
  <1>15. Marked(run)'
    BY <1>2, <1>6, LogSame DEF Untold, Marked
  <1> QED
    BY <1>7, <1>9, <1>10, <1>11, <1>12, <1>13, <1>14, <1>15 DEF DiskInv

\* The event that tells of the closing.
LEMMA CloseNoted ==
  ASSUME Store!TypeOK, DiskInv, Counts, Untalked, Noted(Ev("session_closed", NoRun))
  PROVE  DiskInv' /\ Shut'
  <1> DEFINE ev == Ev("session_closed", NoRun)
  <1>1. PICK n \in Nat :
          /\ \A j \in 1..Len(eventLog) :
               j \in 1..Len(eventLog') /\ eventLog'[j] = eventLog[j]
          /\ n \in 1..Len(eventLog') /\ eventLog'[n].ev = ev
          /\ \A j \in 1..Len(eventLog') : j \in 1..Len(eventLog) \/ j = n
    <2>1. Len(eventLog) + 1 \in Nat
      BY NotedAt
    <2> HIDE DEF ev
    <2>3. Noted(ev)
      BY DEF ev
    <2>2. eventLog'[Len(eventLog) + 1].ev = ev
      BY <2>3, NotedAt
    <2> QED
      BY <2>1, <2>2, <2>3, NotedAt
  <1>2. /\ transcriptLog' = transcriptLog /\ manifestFile'.nextRun = manifestFile.nextRun
        /\ manifestFile'.active = manifestFile.active
        /\ manifestFile'.closed = manifestFile.closed
    BY DEF Noted, SameCore, CoreIs
  <1>3. ev.kind = "session_closed" /\ ev.run = NoRun /\ ev.kind \notin TerminalEvents
    BY DEF Ev, TerminalEvents
  <1> HIDE DEF ev
  <1>4. /\ \A r : \A j \in 1..Len(eventLog) : TellsAt(j, r)' <=> TellsAt(j, r)
        /\ \A r : ~ TellsAt(n, r)'
    BY <1>1, <1>3 DEF TellsAt
  <1>5. CloseToldAt(n)'
    BY <1>1, <1>3 DEF CloseToldAt
  <1>6. \A j \in 1..Len(eventLog) : ~ CloseToldAt(j)'
    BY <1>1 DEF CloseToldAt, Untalked, CloseTold
  <1>7. /\ \A r : Told(r)' <=> Told(r)
        /\ CloseTold'
    <2>1. \A r : Told(r)' <=> Told(r)
      BY <1>1, <1>4 DEF Told
    <2>2. CloseTold'
      BY <1>1, <1>5 DEF CloseTold
    <2> QED
      BY <2>1, <2>2
  <1>8. RunsInv'
    BY <1>2, <1>7, LogSame DEF DiskInv, RunsInv
  <1>9. OnceInv'
    <2>1. \A i, j \in 1..Len(eventLog') : \A r : TellsAt(i, r)' /\ TellsAt(j, r)' => i = j
      BY <1>1, <1>4 DEF DiskInv, OnceInv
    <2> QED
      BY <1>2, <2>1, LogSame DEF DiskInv, OnceInv
  <1>10. KnownInv'
    <2>1. NoRun \in 0..manifestFile.nextRun
      BY DEF Store!TypeOK, Store!Manifest, NoRun
    <2>2. ASSUME NEW j \in 1..Len(eventLog')
          PROVE  /\ eventLog'[j].ev.run \in 0..manifestFile'.nextRun
                 /\ eventLog'[j].ev.kind \in TerminalEvents => eventLog'[j].ev.run # NoRun
      BY <1>1, <1>2, <1>3, <2>1 DEF DiskInv, KnownInv
    <2> QED
      BY <1>2, <2>2 DEF DiskInv, KnownInv
  <1>11. BlocksInv'
    BY <1>2, LogSame DEF DiskInv, BlocksInv
  <1>12. CloseInv'
    <2>1. \A i, j \in 1..Len(eventLog') : CloseToldAt(i)' /\ CloseToldAt(j)' => i = j
      BY <1>1, <1>6
    <2>2. \A i, j \in 1..Len(transcriptLog') : ClosesAt(i)' /\ ClosesAt(j)' => i = j
      BY <1>2, LogSame DEF DiskInv, CloseInv
    <2> QED
      BY <1>2, <2>1, <2>2, LogSame DEF DiskInv, CloseInv, Untalked
  <1>13. ReportInv'
    BY <1>1, <1>2, <1>4, LogSame DEF DiskInv, ReportInv, Counts
  <1>14. Shut'
    BY <1>2, <1>7, LogSame DEF Untalked, Shut
  <1> QED
    BY <1>8, <1>9, <1>10, <1>11, <1>12, <1>13, <1>14 DEF DiskInv

\* A run begins: the logs know nothing of it yet.
LEMMA RunBegun ==
  ASSUME Store!TypeOK, DiskInv, Counts, Resting,
         CoreOnly(manifestFile.nextRun + 1, manifestFile.nextRun + 1, manifestFile.closed)
  PROVE  DiskInv' /\ Open(manifestFile.active)' /\ manifestFile'.active = manifestFile.nextRun + 1
  <1>1. /\ transcriptLog' = transcriptLog /\ eventLog' = eventLog
        /\ manifestFile'.nextRun = manifestFile.nextRun + 1
        /\ manifestFile'.active = manifestFile.nextRun + 1
        /\ manifestFile'.closed = manifestFile.closed
    BY DEF CoreOnly, CoreIs
  <1>2. PICK n \in Nat : n = manifestFile.nextRun + 1 /\ n # NoRun
                         /\ n \notin 0..manifestFile.nextRun
                         /\ 1..n = 1..manifestFile.nextRun \cup {n}
                         /\ \A r \in 0..manifestFile.nextRun : r \in 0..n
    <2>1. manifestFile.nextRun \in Nat
      BY DEF Store!TypeOK, Store!Manifest
    <2> QED
      BY <2>1 DEF NoRun
  <1>3. ~ Ended(n) /\ ~ Told(n)
    BY <1>2 DEF DiskInv, KnownInv, Ended, EndsAt, Told, TellsAt
  <1>4. manifestFile.active = NoRun /\ ~ FactThere /\ ~ manifestFile.closed /\ ~ CloseTold
    BY DEF Resting, DiskInv, CloseInv
  <1>5. RunsInv'
    <2>1. \A r \in 1..manifestFile.nextRun : Ended(r) /\ Told(r)
      <3>1. \A r \in 1..manifestFile.nextRun : r # NoRun
        BY DEF NoRun
      <3> QED
        BY <1>4, <3>1 DEF DiskInv, RunsInv
    <2> QED
      BY <1>1, <1>2, <1>3, <2>1, LogSame, EventsSame DEF RunsInv
  <1>6. OnceInv' /\ BlocksInv'
    BY <1>1, LogSame, EventsSame DEF DiskInv, OnceInv, BlocksInv
  <1>7. KnownInv'
    BY <1>1, <1>2 DEF DiskInv, KnownInv
  <1>8. CloseInv'
    BY <1>1, <1>4, LogSame, EventsSame DEF DiskInv, CloseInv
  <1>9. ReportInv'
    BY <1>1, LogSame, EventsSame DEF DiskInv, ReportInv, Counts
  <1>10. Open(manifestFile.active)'
    <2>1. ~ Ended(n)' /\ ~ Told(n)'
      BY <1>1, <1>3, LogSame, EventsSame
    <2> QED
      BY <1>1, <1>2, <2>1 DEF Open
  <1> QED
    BY <1>1, <1>5, <1>6, <1>7, <1>8, <1>9, <1>10 DEF DiskInv

\* The active-run marker is cleared.
LEMMA RunFinished ==
  ASSUME DiskInv, Counts, NEW run, Marked(run),
         CoreOnly(manifestFile.nextRun, NoRun, manifestFile.closed)
  PROVE  DiskInv' /\ Resting' /\ \A entry : EventThere(entry) => EventThere(entry)'
  <1>1. /\ transcriptLog' = transcriptLog /\ eventLog' = eventLog
        /\ manifestFile'.nextRun = manifestFile.nextRun
        /\ manifestFile'.active = NoRun
        /\ manifestFile'.closed = manifestFile.closed
    BY DEF CoreOnly, CoreIs
  <1>2. ~ FactThere /\ ~ CloseTold
    BY DEF Marked, DiskInv, CloseInv
  <1>3. RunsInv'
    BY <1>1, LogSame, EventsSame DEF DiskInv, RunsInv, Marked
  <1>4. OnceInv' /\ BlocksInv'
    BY <1>1, LogSame, EventsSame DEF DiskInv, OnceInv, BlocksInv
  <1>5. KnownInv'
    BY <1>1 DEF DiskInv, KnownInv
  <1>6. CloseInv'
    BY <1>1, <1>2, LogSame, EventsSame DEF DiskInv, CloseInv
  <1>7. ReportInv'
    BY <1>1, LogSame, EventsSame DEF DiskInv, ReportInv, Counts
  <1>8. Resting'
    BY <1>1, <1>2, LogSame DEF Resting
  <1> QED
    BY <1>1, <1>3, <1>4, <1>5, <1>6, <1>7, <1>8, EventsSame DEF DiskInv

\* The manifest is marked closed.
LEMMA CloseMarked ==
  ASSUME DiskInv, Counts, Unmarked,
         CoreOnly(manifestFile.nextRun, manifestFile.active, TRUE)
  PROVE  DiskInv' /\ Untalked'
  <1>1. /\ transcriptLog' = transcriptLog /\ eventLog' = eventLog
        /\ manifestFile'.nextRun = manifestFile.nextRun
        /\ manifestFile'.active = manifestFile.active
        /\ manifestFile'.closed = TRUE
    BY DEF CoreOnly, CoreIs
  <1>2. RunsInv'
    BY <1>1, LogSame, EventsSame DEF DiskInv, RunsInv
  <1>3. OnceInv' /\ BlocksInv'
    BY <1>1, LogSame, EventsSame DEF DiskInv, OnceInv, BlocksInv
  <1>4. KnownInv'
    BY <1>1 DEF DiskInv, KnownInv
  <1>5. CloseInv'
    BY <1>1, LogSame, EventsSame DEF DiskInv, CloseInv, Unmarked
  <1>6. ReportInv'
    BY <1>1, LogSame, EventsSame DEF DiskInv, ReportInv, Counts
  <1>7. Untalked'
    BY <1>1, LogSame, EventsSame DEF Untalked, Unmarked
  <1> QED
    BY <1>2, <1>3, <1>4, <1>5, <1>6, <1>7 DEF DiskInv
-----------------------------------------------------------------------------
(***************************************************************************)
(* The same for the writes of a job: whole, cut or not made at all.        *)
(***************************************************************************)
LEMMA QuietLeaves ==
  ASSUME Store!TypeOK, DiskInv, Counts, NEW w, QuietWrite(w), Leaves(w)
  PROVE  DiskInv' /\ SameMarks
  <1>1. CASE Same
    BY <1>1, SameKeeps
  <1>2. CASE Noted(w.ev) /\ w.ev.run = NoRun /\ w.ev.kind \in {"warning", "session_resumed"}
    <2>1. NoRun \in 0..manifestFile.nextRun
      BY DEF Store!TypeOK, Store!Manifest, NoRun
    <2>2. w.ev.kind \notin TerminalEvents \cup {"session_closed"}
      BY <1>2 DEF TerminalEvents
    <2> QED
      BY <1>2, <2>1, <2>2, PlainNoted
  <1> QED
    BY <1>1, <1>2 DEF QuietWrite, Leaves, Does

LEMMA PlainLeaves ==
  ASSUME Store!TypeOK, DiskInv, Counts, NEW run, Open(run), NEW w \in StoreCall, PlainWrite(w, run),
         Leaves(w)
  PROVE  DiskInv' /\ SameMarks
  <1>1. CASE Same
    BY <1>1, SameKeeps
  <1>2. CASE Noted(w.ev) /\ w.ev.run = run /\ w.ev.kind \in RunEvents
    <2>1. run \in 0..manifestFile.nextRun
      <3>1. run = manifestFile.nextRun /\ manifestFile.nextRun \in Nat
        BY DEF Open, DiskInv, RunsInv, Store!TypeOK, Store!Manifest
      <3> QED
        BY <3>1
    <2>2. w.ev.kind \notin TerminalEvents \cup {"session_closed"}
      BY <1>2 DEF TerminalEvents, RunEvents
    <2> QED
      BY <1>2, <2>1, <2>2, PlainNoted
  <1>3. ASSUME NEW part, Prefix(part, w.recs), Added(part), w.op = "append",
               \A i \in 1..Len(w.recs) : Plain(w.recs[i], run)
        PROVE  DiskInv' /\ SameMarks
    <2>1. part \in Seq(Record) /\ w.recs \in Seq(Record)
      BY <1>3 DEF Prefix, StoreCall
    <2>2. \A k \in 1..Len(part) : Plain(part[k], run)
      <3>1. ASSUME NEW k \in 1..Len(part) PROVE k \in 1..Len(w.recs) /\ part[k] = w.recs[k]
        BY <1>3, <2>1, <3>1 DEF Prefix
      <3> QED
        BY <1>3, <3>1
    <2> QED
      BY <1>3, <2>1, <2>2, PlainAdded
  <1>4. w.op = "append" /\ Added(w.recs) => Prefix(w.recs, w.recs)
    BY DEF Prefix, StoreCall
  <1> QED
    BY <1>1, <1>2, <1>3, <1>4 DEF PlainWrite, Leaves, Does

\* A write of one record is made or is not.
OneMore(rec) == \E part \in Seq(Record) : Len(part) = 1 /\ part[1] = rec /\ Added(part)

LEMMA RecordLeaves ==
  ASSUME Store!TypeOK, Store!TypeOK', NEW w \in StoreCall, NEW rec, RecordWrite(w, rec), Leaves(w)
  PROVE  (Same \/ OneMore(rec)) /\ (Does(w) => OneMore(rec))
  <1>1. w.op = "append" /\ Len(w.recs) = 1 /\ w.recs[1] = rec /\ w.recs \in Seq(Record)
    BY DEF RecordWrite, StoreCall
  <1>2. Does(w) => OneMore(rec)
    BY <1>1 DEF Does, OneMore
  <1>3. ASSUME NEW part, Prefix(part, w.recs), Added(part)
        PROVE  Same \/ OneMore(rec)
    <2>1. part \in Seq(Record) /\ Len(part) \in Nat /\ Len(part) <= 1
      BY <1>1, <1>3 DEF Prefix
    <2>2. CASE Len(part) = 1
      <3>1. part[1] = rec
        BY <1>1, <1>3, <2>2 DEF Prefix
      <3> QED
        BY <1>3, <2>1, <2>2, <3>1 DEF OneMore
    <2>3. CASE Len(part) = 0
      <3>1. eventLog' = eventLog /\ SameCore
        BY <1>3 DEF Added
      <3>2. transcriptLog' = transcriptLog
        <4>1. transcriptLog \in Seq(Entry) /\ transcriptLog' \in Seq(Entry)
          BY StoreSets DEF Store!TypeOK
        <4>2. /\ Len(transcriptLog') = Len(transcriptLog)
              /\ \A i \in 1..Len(transcriptLog) : transcriptLog'[i] = transcriptLog[i]
          BY <1>3, <2>3, <4>1 DEF Added, Longer
        <4> QED
          BY <4>1, <4>2, SeqEqual
      <3> QED
        BY <3>1, <3>2 DEF Same
    <2>4. Len(part) = 0 \/ Len(part) = 1
      <3>1. \A n \in Nat : n <= 1 => n = 0 \/ n = 1
        OBVIOUS
      <3> QED
        BY <2>1, <3>1
    <2> QED
      BY <2>2, <2>3, <2>4
  <1> QED
    BY <1>2, <1>3 DEF Leaves

IsOutcome(rec, run) ==
  rec \in Record /\ rec.kind = "run_outcome" /\ rec.outcome \in RunOutcomes /\ rec.run = run
OnlyOutcome(run, rec) ==
  \A i \in 1..Len(transcriptLog) : EndsAt(i, run) => transcriptLog[i].rec = rec

LEMMA OutcomeLeaves ==
  ASSUME Store!TypeOK, Store!TypeOK', DiskInv, Counts,
         NEW w \in StoreCall, NEW run, NEW rec, IsOutcome(rec, run), Open(run),
         RecordWrite(w, rec), Leaves(w)
  PROVE  DiskInv' /\ (Does(w) => Untold(run)' /\ OnlyOutcome(run, rec)')
  <1>1. rec.kind = "run_outcome" /\ rec.outcome \in RunOutcomes /\ rec.run = run
    BY DEF IsOutcome
  <1>2. ASSUME NEW part \in Seq(Record), Len(part) = 1, part[1] = rec, Added(part)
        PROVE  DiskInv' /\ Untold(run)' /\ OnlyOutcome(run, rec)'
    <2>1. part[1].kind = "run_outcome" /\ part[1].run = run /\ part[1].outcome \in RunOutcomes
      BY <1>1, <1>2
    <2>2. /\ DiskInv' /\ Untold(run)'
          /\ \A i \in 1..Len(transcriptLog') : EndsAt(i, run)' => transcriptLog'[i].rec = part[1]
      BY <1>2, <2>1, OutcomeAdded
    <2> QED
      BY <1>2, <2>2 DEF OnlyOutcome
  <1>3. OneMore(rec) => DiskInv' /\ Untold(run)' /\ OnlyOutcome(run, rec)'
    BY <1>2 DEF OneMore
  <1>4. Same => DiskInv'
    BY SameKeeps
  <1> QED
    BY <1>3, <1>4, RecordLeaves

LEMMA FactLeaves ==
  ASSUME Store!TypeOK, Store!TypeOK', DiskInv, Counts, Resting,
         NEW w \in StoreCall, RecordWrite(w, SessionClosed), Leaves(w)
  PROVE  DiskInv' /\ (Does(w) => Unmarked')
  <1>1. ASSUME NEW part \in Seq(Record), Len(part) = 1, part[1] = SessionClosed, Added(part)
        PROVE  DiskInv' /\ Unmarked'
    BY <1>1, FactAdded
  <1>2. OneMore(SessionClosed) => DiskInv' /\ Unmarked'
    BY <1>1 DEF OneMore
  <1>3. Same => DiskInv'
    BY SameKeeps
  <1> QED
    BY <1>2, <1>3, RecordLeaves

LEMMA ReportTyped ==
  ASSUME NEW run \in Nat, NEW rec, IsOutcome(rec, run)
  PROVE  ReportOf(rec) \in Event /\ ReportOf(rec).kind \in TerminalEvents /\ ReportOf(rec).run = run
  <1>1. rec.cause \in FailureCauses \cup {""} /\ rec.run = run
    BY DEF IsOutcome, Record
  <1>2. Reported(rec.outcome) \in {"completed", "failed", "cancelled"}
    BY DEF IsOutcome, Reported, RunOutcomes
  <1> DEFINE o == Reported(rec.outcome)
  <1> HIDE DEF o
  <1>3. /\ TerminalEvent(run, o, rec.cause) \in Event
        /\ TerminalEvent(run, o, rec.cause).kind \in TerminalEvents
        /\ TerminalEvent(run, o, rec.cause).run = run
    BY <1>1, <1>2, EventsTyped DEF o
  <1>4. ReportOf(rec) = TerminalEvent(run, o, rec.cause)
    BY <1>1 DEF ReportOf, o
  <1> QED
    BY <1>3, <1>4

LEMMA EventWriteLeaves ==
  ASSUME Store!TypeOK, DiskInv, Counts, NEW run \in Nat, Untold(run), NEW rec, IsOutcome(rec, run),
         NEW w, EventWrite(w, ReportOf(rec)), Leaves(w),
         crashes = 0 => \A i \in 1..Len(transcriptLog) :
                          EndsAt(i, run) => transcriptLog[i].rec = rec
  PROVE  /\ DiskInv'
         /\ Does(w) =>
              /\ Marked(run)'
              /\ \E j \in 1..Len(eventLog') :
                   eventLog'[j] = [cursor |-> cursor + 1, ev |-> ReportOf(rec)]
              /\ \A entry : EventThere(entry) => EventThere(entry)'
  <1> DEFINE ev == ReportOf(rec)
  <1>1. ev.kind \in TerminalEvents /\ ev.run = run
    BY ReportTyped
  <1>2. w.op \in {"emit", "persist"} /\ w.ev = ev
    BY DEF EventWrite
  <1>3. crashes = 0 => \A i \in 1..Len(transcriptLog) :
                          EndsAt(i, run) => ev = ReportOf(transcriptLog[i].rec)
    OBVIOUS
  <1> HIDE DEF ev
  <1>4. CASE Noted(ev)
    <2>1. /\ DiskInv' /\ Marked(run)'
          /\ \E j \in 1..Len(eventLog') : eventLog'[j] = [cursor |-> cursor + 1, ev |-> ev]
          /\ \A entry : EventThere(entry) => EventThere(entry)'
      BY <1>1, <1>3, <1>4, EndNoted
    <2> QED
      BY <2>1 DEF ev
  <1>5. CASE ~ Noted(ev)
    <2>1. ~ Does(w) /\ Same
      BY <1>2, <1>5 DEF Does, Leaves
    <2> QED
      BY <2>1, SameKeeps
  <1> QED
    BY <1>4, <1>5

LEMMA MarkLeaves ==
  ASSUME Store!TypeOK, DiskInv, Counts, NEW w, Leaves(w)
  PROVE  /\ w.op = "begin" /\ Resting =>
              /\ DiskInv'
              /\ Does(w) => /\ Open(manifestFile.active)'
                            /\ manifestFile'.active = manifestFile.nextRun + 1
         /\ \A run : w.op = "finish" /\ Marked(run) =>
              /\ DiskInv'
              /\ Does(w) => Resting' /\ \A entry : EventThere(entry) => EventThere(entry)'
         /\ w.op = "close" /\ Unmarked => DiskInv' /\ (Does(w) => Untalked')
         /\ ToldWrite(w) /\ Untalked => DiskInv' /\ (Does(w) => Shut')
  <1>1. Does(w) \/ Same \/ w.op = "append"
    BY DEF Leaves
  <1>2. Same => DiskInv'
    BY SameKeeps
  <1>3. ASSUME w.op = "begin", Resting
        PROVE  /\ DiskInv'
               /\ Does(w) => /\ Open(manifestFile.active)'
                             /\ manifestFile'.active = manifestFile.nextRun + 1
    BY <1>1, <1>2, <1>3, RunBegun DEF Does
  <1>4. ASSUME NEW run, w.op = "finish", Marked(run)
        PROVE  /\ DiskInv'
               /\ Does(w) => Resting' /\ \A entry : EventThere(entry) => EventThere(entry)'
    BY <1>1, <1>2, <1>4, RunFinished DEF Does
  <1>5. ASSUME w.op = "close", Unmarked PROVE DiskInv' /\ (Does(w) => Untalked')
    BY <1>1, <1>2, <1>5, CloseMarked DEF Does
  <1>6. ASSUME ToldWrite(w), Untalked PROVE DiskInv' /\ (Does(w) => Shut')
    BY <1>1, <1>2, <1>6, CloseNoted DEF Does, ToldWrite
  <1> QED
    BY <1>3, <1>4, <1>5, <1>6
-----------------------------------------------------------------------------
(***************************************************************************)
(* The first write of a plan, and what is left of the plan.                *)
(***************************************************************************)
LEMMA FirstOf ==
  ASSUME NEW W \in Seq(StoreCall), W # <<>>
  PROVE  /\ Head(W) = W[1] /\ Head(W) \in StoreCall
         /\ Len(W) \in Nat /\ Len(W) > 0 /\ Tail(W) \in Seq(StoreCall)
         /\ Len(Tail(W)) = Len(W) - 1
         /\ \A i \in 1..(Len(W) - 1) : Tail(W)[i] = W[i + 1]
  <1>1. Len(W) \in Nat /\ Len(W) > 0
    OBVIOUS
  <1>2. Head(W) \in StoreCall /\ Tail(W) \in Seq(StoreCall) /\ Len(Tail(W)) = Len(W) - 1
    BY HeadTailProperties
  <1> QED
    BY <1>1, <1>2, HeadTailProperties

LEMMA StartPlanStep ==
  ASSUME Store!TypeOK, DiskInv, Counts, NEW W \in Seq(StoreCall), W # <<>>, StartPlan(W),
         Leaves(Head(W))
  PROVE  DiskInv' /\ (Does(Head(W)) => StartPlan(Tail(W))')
  <1> DEFINE w == Head(W)
             T == Tail(W)
             n == Len(W)
  <1>1. /\ w = W[1] /\ w \in StoreCall /\ n \in Nat /\ n > 0
        /\ Len(T) = n - 1 /\ \A i \in 1..(n - 1) : T[i] = W[i + 1]
    BY FirstOf
  <1> HIDE DEF w, T, n
  <1>2. CASE /\ Resting /\ w.op = "begin"
             /\ \A i \in 2..n : PlainWrite(W[i], manifestFile.nextRun + 1)
    <2>1. /\ DiskInv'
          /\ Does(w) => Open(manifestFile.active)' /\ manifestFile'.active = manifestFile.nextRun + 1
      BY <1>2, MarkLeaves DEF w
    <2>2. ASSUME Does(w) PROVE AllPlain(T, Len(T), manifestFile.active)'
      <3>1. ASSUME NEW i \in 1..(n - 1) PROVE PlainWrite(T[i], manifestFile.nextRun + 1)
        <4>1. i + 1 \in 2..n
          BY <1>1, <3>1
        <4> QED
          BY <1>1, <1>2, <4>1
      <3> QED
        BY <1>1, <2>1, <2>2, <3>1 DEF AllPlain
    <2> QED
      BY <2>1, <2>2 DEF StartPlan, w, T
  <1>3. CASE Open(manifestFile.active) /\ AllPlain(W, n, manifestFile.active)
    <2>1. 1 \in 1..n
      BY <1>1
    <2>2. PlainWrite(w, manifestFile.active)
      BY <1>1, <1>3, <2>1 DEF AllPlain
    <2>3. DiskInv' /\ SameMarks
      BY <1>1, <1>3, <2>2, PlainLeaves DEF w
    <2>4. Open(manifestFile.active)'
      BY <1>3, <2>3, PlacesKept DEF SameMarks, SameCore, CoreIs
    <2>5. AllPlain(T, n - 1, manifestFile'.active)
      <3>1. \A i \in 1..(n - 1) : i + 1 \in 1..n
        BY <1>1
      <3>2. manifestFile'.active = manifestFile.active
        BY <2>3 DEF SameMarks, SameCore, CoreIs
      <3> QED
        BY <1>1, <1>3, <3>1, <3>2 DEF AllPlain
    <2> QED
      BY <1>1, <2>3, <2>4, <2>5 DEF StartPlan, w, T, AllPlain
  <1> QED
    BY <1>1, <1>2, <1>3 DEF StartPlan, n

LEMMA QuietStep ==
  ASSUME Store!TypeOK, DiskInv, Counts, NEW W \in Seq(StoreCall), W # <<>>, AllQuiet(W, Len(W)),
         Leaves(Head(W))
  PROVE  DiskInv' /\ SameMarks /\ AllQuiet(Tail(W), Len(Tail(W)))
  <1> DEFINE n == Len(W)
  <1>1. /\ Head(W) = W[1] /\ n \in Nat /\ n > 0
        /\ Len(Tail(W)) = n - 1 /\ \A i \in 1..(n - 1) : Tail(W)[i] = W[i + 1]
    BY FirstOf
  <1> HIDE DEF n
  <1>2. 1 \in 1..n /\ \A i \in 1..(n - 1) : i + 1 \in 1..n
    BY <1>1
  <1>3. \A i \in 1..n : QuietWrite(W[i])
    BY DEF AllQuiet, n
  <1>4. DiskInv' /\ SameMarks
    BY <1>1, <1>2, <1>3, QuietLeaves
  <1> QED
    BY <1>1, <1>2, <1>3, <1>4 DEF AllQuiet

LEMMA PlainStep ==
  ASSUME Store!TypeOK, DiskInv, Counts, NEW run, Open(run),
         NEW W \in Seq(StoreCall), W # <<>>, AllPlain(W, Len(W), run), Leaves(Head(W))
  PROVE  DiskInv' /\ SameMarks /\ Open(run)' /\ AllPlain(Tail(W), Len(Tail(W)), run)
  <1> DEFINE n == Len(W)
  <1>1. /\ Head(W) = W[1] /\ Head(W) \in StoreCall /\ n \in Nat /\ n > 0
        /\ Len(Tail(W)) = n - 1 /\ \A i \in 1..(n - 1) : Tail(W)[i] = W[i + 1]
    BY FirstOf
  <1> HIDE DEF n
  <1>2. 1 \in 1..n /\ \A i \in 1..(n - 1) : i + 1 \in 1..n
    BY <1>1
  <1>3. \A i \in 1..n : PlainWrite(W[i], run)
    BY DEF AllPlain, n
  <1>4. DiskInv' /\ SameMarks
    BY <1>1, <1>2, <1>3, PlainLeaves
  <1>5. Open(run)'
    BY <1>4, PlacesKept
  <1> QED
    BY <1>1, <1>2, <1>3, <1>4, <1>5 DEF AllPlain

\* The end of a run.  Besides the plan, the event that is told last is there.
LEMMA EndPlanStep ==
  ASSUME Store!TypeOK, Store!TypeOK', DiskInv, Counts, NEW W \in Seq(StoreCall), W # <<>>,
         NEW run \in Nat, NEW rec, IsOutcome(rec, run), EndPlan(W, run, rec), Leaves(Head(W))
  PROVE  /\ DiskInv'
         /\ Does(Head(W)) =>
              /\ EndPlan(Tail(W), run, rec)'
              /\ \/ Open(run) \/ Untold(run) \/ \A entry : EventThere(entry) => EventThere(entry)'
              /\ Open(run) => Open(run)' \/ Untold(run)'
              /\ Untold(run) =>
                   \E j \in 1..Len(eventLog') :
                     eventLog'[j] = [cursor |-> cursor + 1, ev |-> ReportOf(rec)]
              /\ Untold(run) => Head(W).op \in {"emit", "persist"}
              /\ Marked(run) => Head(W).op = "finish"
  <1> DEFINE w == Head(W)
             T == Tail(W)
             n == Len(W)
  <1>1. /\ w = W[1] /\ w \in StoreCall /\ n \in Nat /\ n > 0
        /\ Len(T) = n - 1 /\ \A i \in 1..(n - 1) : T[i] = W[i + 1]
    BY FirstOf
  <1> HIDE DEF w, T, n
  <1>2. CASE /\ Open(run) /\ n >= 3 /\ W[n].op = "finish" /\ EventWrite(W[n - 1], ReportOf(rec))
             /\ RecordWrite(W[n - 2], rec) /\ AllPlain(W, n - 3, run)
    <2>1. ~ Untold(run) /\ ~ Marked(run)
      BY <1>2 DEF Open, Untold, Marked
    <2>2. CASE n = 3
      <3>1. RecordWrite(w, rec) /\ EventWrite(T[1], ReportOf(rec)) /\ T[2].op = "finish"
            /\ Len(T) = 2
        BY <1>1, <1>2, <2>2
      <3>3. DiskInv' /\ (Does(w) => Untold(run)' /\ OnlyOutcome(run, rec)')
        BY <1>1, <1>2, <3>1, OutcomeLeaves DEF w
      <3>4. Does(w) => EndPlan(T, run, rec)'
        BY <3>1, <3>3 DEF EndPlan, OnlyOutcome
      <3> QED
        BY <1>2, <2>1, <3>3, <3>4 DEF w, T
    <2>3. CASE n > 3
      <3>1. n - 3 \in Nat /\ 1 \in 1..(n - 3) /\ \A i \in 1..(n - 4) : i + 1 \in 1..(n - 3) /\ i \in 1..(n - 1)
        BY <1>1, <2>3
      <3>2. PlainWrite(w, run)
        BY <1>1, <1>2, <3>1 DEF AllPlain
      <3>3. DiskInv' /\ SameMarks /\ Open(run)'
        BY <1>1, <1>2, <3>2, PlainLeaves, PlacesKept DEF w
      <3>4. /\ Len(T) >= 3 /\ T[Len(T)] = W[n] /\ T[Len(T) - 1] = W[n - 1] /\ T[Len(T) - 2] = W[n - 2]
            /\ Len(T) - 3 = n - 4
        BY <1>1, <2>3
      <3>5. AllPlain(T, Len(T) - 3, run)
        BY <1>1, <1>2, <3>1, <3>4 DEF AllPlain
      <3>6. EndPlan(T, run, rec)'
        BY <1>2, <3>3, <3>4, <3>5 DEF EndPlan
      <3> QED
        BY <1>2, <2>1, <3>3, <3>6 DEF w, T
    <2> QED
      BY <1>1, <1>2, <2>2, <2>3
  <1>3. CASE /\ Untold(run) /\ n = 2 /\ W[2].op = "finish" /\ EventWrite(W[1], ReportOf(rec))
             /\ crashes = 0 => \A i \in 1..Len(transcriptLog) : EndsAt(i, run) => transcriptLog[i].rec = rec
    <2>1. ~ Open(run) /\ ~ Marked(run)
      BY <1>3 DEF Open, Untold, Marked
    <2>2. EventWrite(w, ReportOf(rec)) /\ Len(T) = 1 /\ T[1].op = "finish"
      BY <1>1, <1>3
    <2>3. /\ DiskInv'
          /\ Does(w) =>
               /\ Marked(run)'
               /\ \E j \in 1..Len(eventLog') :
                    eventLog'[j] = [cursor |-> cursor + 1, ev |-> ReportOf(rec)]
      BY <1>3, <2>2, EventWriteLeaves DEF w
    <2>4. Does(w) => EndPlan(T, run, rec)'
      BY <2>2, <2>3 DEF EndPlan
    <2>5. w.op \in {"emit", "persist"}
      BY <2>2 DEF EventWrite
    <2> QED
      BY <1>3, <2>1, <2>3, <2>4, <2>5 DEF w, T
  <1>4. CASE Marked(run) /\ n = 1 /\ W[1].op = "finish"
    <2>1. ~ Open(run) /\ ~ Untold(run)
      BY <1>4 DEF Open, Untold, Marked
    <2>2. w.op = "finish" /\ Len(T) = 0
      BY <1>1, <1>4
    <2>3. DiskInv' /\ (Does(w) => Resting' /\ \A entry : EventThere(entry) => EventThere(entry)')
      BY <1>4, <2>2, MarkLeaves DEF w
    <2>4. Does(w) => EndPlan(T, run, rec)'
      BY <2>2, <2>3 DEF EndPlan
    <2> QED
      BY <2>1, <2>2, <2>3, <2>4 DEF w, T
  <1>5. ~ (Resting /\ n = 0)
    BY <1>1
  <1> QED
    BY <1>2, <1>3, <1>4, <1>5 DEF EndPlan, n

LEMMA ClosePlanStep ==
  ASSUME Store!TypeOK, Store!TypeOK', DiskInv, Counts, NEW W \in Seq(StoreCall), W # <<>>,
         ClosePlan(W), Leaves(Head(W))
  PROVE  /\ DiskInv' /\ (Shut => Shut')
         /\ Head(W).op = "record" => SameMarks /\ (Resting \/ state = "closed")
         /\ Does(Head(W)) /\ state' = state => ClosePlan(Tail(W))'
  <1> DEFINE w == Head(W)
             T == Tail(W)
             n == Len(W)
  <1>1. /\ w = W[1] /\ w \in StoreCall /\ n \in Nat /\ n > 0
        /\ Len(T) = n - 1 /\ \A i \in 1..(n - 1) : T[i] = W[i + 1]
    BY FirstOf
  <1> HIDE DEF w, T, n
  <1>2. CASE /\ Resting /\ n >= 3 /\ ToldWrite(W[n]) /\ W[n - 1].op = "close"
             /\ RecordWrite(W[n - 2], SessionClosed) /\ AllQuiet(W, n - 3)
    <2>1. ~ Shut
      BY <1>2 DEF Shut, Resting
    <2>2. CASE n = 3
      <3>1. RecordWrite(w, SessionClosed) /\ ToldWrite(T[2]) /\ T[1].op = "close" /\ Len(T) = 2
        BY <1>1, <1>2, <2>2
      <3>2. DiskInv' /\ (Does(w) => Unmarked')
        BY <1>1, <1>2, <3>1, FactLeaves DEF w
      <3>3. Does(w) => ClosePlan(T)'
        BY <3>1, <3>2 DEF ClosePlan
      <3>4. w.op = "append"
        BY <3>1 DEF RecordWrite
      <3> QED
        BY <2>1, <3>2, <3>3, <3>4 DEF w, T
    <2>3. CASE n > 3
      <3>1. n - 3 \in Nat /\ 1 \in 1..(n - 3) /\ \A i \in 1..(n - 4) : i + 1 \in 1..(n - 3) /\ i \in 1..(n - 1)
        BY <1>1, <2>3
      <3>2. QuietWrite(w)
        BY <1>1, <1>2, <3>1 DEF AllQuiet
      <3>3. DiskInv' /\ SameMarks /\ Resting'
        BY <1>2, <3>2, QuietLeaves, PlacesKept DEF w
      <3>4. /\ Len(T) >= 3 /\ T[Len(T)] = W[n] /\ T[Len(T) - 1] = W[n - 1] /\ T[Len(T) - 2] = W[n - 2]
            /\ Len(T) - 3 = n - 4
        BY <1>1, <2>3
      <3>5. AllQuiet(T, Len(T) - 3)
        BY <1>1, <1>2, <3>1, <3>4 DEF AllQuiet
      <3>6. ClosePlan(T)'
        BY <1>2, <3>3, <3>4, <3>5 DEF ClosePlan
      <3> QED
        BY <1>2, <2>1, <3>3, <3>6 DEF w, T
    <2> QED
      BY <1>1, <1>2, <2>2, <2>3
  <1>3. CASE Unmarked /\ n = 2 /\ ToldWrite(W[2]) /\ W[1].op = "close"
    <2>1. w.op = "close" /\ ToldWrite(T[1]) /\ Len(T) = 1
      BY <1>1, <1>3
    <2>2. DiskInv' /\ (Does(w) => Untalked')
      BY <1>3, <2>1, MarkLeaves DEF w
    <2>3. ~ Shut
      BY <1>3 DEF Unmarked, Shut
    <2>4. Does(w) => ClosePlan(T)'
      BY <2>1, <2>2 DEF ClosePlan
    <2> QED
      BY <2>1, <2>2, <2>3, <2>4 DEF w, T
  <1>4. CASE Untalked /\ n = 1 /\ ToldWrite(W[1])
    <2>1. ToldWrite(w) /\ Len(T) = 0
      BY <1>1, <1>4
    <2>2. DiskInv' /\ (Does(w) => Shut')
      BY <1>4, <2>1, MarkLeaves DEF w
    <2>3. ~ Shut /\ w.op = "emit"
      BY <1>4, <2>1 DEF Untalked, Shut, ToldWrite
    <2>4. Does(w) => ClosePlan(T)'
      BY <2>1, <2>2 DEF ClosePlan
    <2> QED
      BY <2>2, <2>3, <2>4 DEF w, T
  <1>5. CASE Shut /\ state = "closed" /\ AllQuiet(W, n)
    <2>1. DiskInv' /\ SameMarks /\ AllQuiet(T, Len(T))
      BY <1>5, QuietStep DEF w, T, n
    <2>2. Shut'
      BY <1>5, <2>1, PlacesKept
    <2>3. state' = state => ClosePlan(T)'
      BY <1>5, <2>1, <2>2 DEF ClosePlan
    <2> QED
      BY <1>5, <2>1, <2>2, <2>3 DEF w, T
  <1>6. ~ (Shut /\ n = 0)
    BY <1>1
  <1> QED
    BY <1>2, <1>3, <1>4, <1>5, <1>6 DEF ClosePlan, n
-----------------------------------------------------------------------------
\* What holds besides the disk, while the session is used and loaded.
AInv == IInv /\ Types /\ CInv

LEMMA JobShape ==
  ASSUME IInv, job.writes # <<>>
  PROVE  /\ job.after # "free" /\ state \notin {"down", "faulted"}
         /\ job.after \in {"started", "rejected", "done"} => state = "idle"
         /\ job.after = "closed" => state \in {"idle", "closed"}
         /\ job.after \in AfterRun <=> (state = "running" /\ job.after # "cancelled")
         /\ job.after \in AfterLoad <=> state = "starting"
         /\ state # "starting" /\ Head(job.writes).onError = "return" => Head(job.writes).op = "record"
         /\ state # "starting" /\ state # "running" => Head(job.writes).onError \in {"fault", "return"}
         /\ job.after = "cancelled" => Head(job.writes).onError = "return"
  <1>1. job.after # "free"
    BY DEF IInv, JobInv, AfterRun, AfterLoad
  <1>2. CASE job.after \in {"started", "rejected", "done"}
    <2>1. state = "idle" /\ WritesOf(job.writes, OfCommand)
      BY <1>2 DEF IInv, JobInv, AfterRun, AfterLoad
    <2> QED
      BY <1>2, <2>1, WritesHead DEF OfCommand, AfterRun, AfterLoad
  <1>3. CASE job.after = "closed"
    <2>1. state \in {"idle", "closed"} /\ WritesOf(job.writes, OfCommand)
      BY <1>3 DEF IInv, JobInv, AfterRun, AfterLoad
    <2> QED
      BY <1>3, <2>1, WritesHead DEF OfCommand, AfterRun, AfterLoad
  <1>4. CASE job.after = "cancelled"
    <2>1. state \in {"idle", "running", "closed"} /\ job.writes = <<Write("record", "return")>>
      BY <1>4 DEF IInv, JobInv, AfterRun, AfterLoad
    <2>2. Head(job.writes).op = "record" /\ Head(job.writes).onError = "return"
      BY <2>1, WriteFields
    <2> QED
      BY <1>4, <2>1, <2>2 DEF AfterRun, AfterLoad
  <1>5. CASE job.after \in AfterRun
    <2>1. state = "running" /\ WritesOf(job.writes, OfRun)
      BY <1>5 DEF IInv, JobInv, AfterRun, AfterLoad
    <2> QED
      BY <1>5, <2>1, WritesHead DEF OfRun, AfterRun, AfterLoad
  <1>6. CASE job.after \in AfterLoad
    <2>1. state = "starting"
      BY <1>6 DEF IInv, JobInv, AfterRun, AfterLoad
    <2> QED
      BY <1>6, <2>1 DEF AfterRun, AfterLoad
  <1> QED
    BY <1>1, <1>2, <1>3, <1>4, <1>5, <1>6 DEF IInv, JobInv

\* A run's outcome is typed where it is used.
LEMMA OutcomeFacts ==
  ASSUME Types
  PROVE  /\ At("finish") => IsOutcome(OutcomeFact, goroutine.run)
         /\ \A run \in Nat : IsOutcome(RunOutcome(run, "interrupted", "interrupted"), run)
         /\ goroutine.run \in Nat /\ manifestFile.active \in Nat
  <1>1. \A run \in Nat, o \in RunOutcomes, c \in FailureCauses \cup {""} :
          IsOutcome(RunOutcome(run, o, c), run)
    <2> SUFFICES ASSUME NEW run \in Nat, NEW o \in RunOutcomes, NEW c \in FailureCauses \cup {""}
                 PROVE  IsOutcome(RunOutcome(run, o, c), run)
      OBVIOUS
    <2>1. RunOutcome(run, o, c) \in Record
      BY RecordsTyped
    <2>2. /\ RunOutcome(run, o, c).kind = "run_outcome" /\ RunOutcome(run, o, c).outcome = o
          /\ RunOutcome(run, o, c).run = run
      BY DEF RunOutcome, Fact
    <2> QED
      BY <2>1, <2>2 DEF IsOutcome
  <1>2. goroutine.run \in Nat /\ goroutine.cause \in FailureCauses \cup {""}
    BY DEF Types, GoroutineType
  <1>3. At("finish") => goroutine.outcome \in RunOutcomes
    BY DEF Types, PlaceInv, RunOutcomes
  <1>4. At("finish") => IsOutcome(OutcomeFact, goroutine.run)
    BY <1>1, <1>2, <1>3 DEF OutcomeFact
  <1>5. \A run \in Nat : IsOutcome(RunOutcome(run, "interrupted", "interrupted"), run)
    BY <1>1 DEF RunOutcomes, FailureCauses
  <1>6. manifestFile.active \in Nat
    BY DEF Types, Store!TypeOK, Store!Manifest
  <1> QED
    BY <1>2, <1>4, <1>5, <1>6

LEMMA SettlePlace ==
  ASSUME Types, job.after = "settle"
  PROVE  At("finish") /\ IsOutcome(OutcomeFact, goroutine.run)
  BY OutcomeFacts DEF Types, PlaceInv

\* Whatever a write leaves, the disk stays what it must be.
LEMMA DiskAfter ==
  ASSUME AInv, Counts, Store!TypeOK', job.writes # <<>>, Leaves(Head(job.writes))
  PROVE  DiskInv'
  <1>1. PICK W \in Seq(StoreCall) : W = job.writes
    BY DEF AInv, Types, JobType
  <1>2. W # <<>> /\ Store!TypeOK /\ DiskInv /\ PlanInv /\ Leaves(Head(W))
    BY <1>1 DEF AInv, CInv, Types
  <1>3. CASE job.after \in {"free", "cancelled", "rejected", "done"}
    BY <1>1, <1>2, <1>3, QuietStep DEF PlanInv
  <1>4. CASE job.after = "started"
    BY <1>1, <1>2, <1>4, StartPlanStep DEF PlanInv
  <1>5. CASE job.after \in AfterRun \ {"settle"}
    BY <1>1, <1>2, <1>5, PlainStep DEF PlanInv
  <1>6. CASE job.after = "settle"
    <2>1. EndPlan(W, goroutine.run, OutcomeFact)
      BY <1>1, <1>2, <1>6 DEF PlanInv
    <2>2. IsOutcome(OutcomeFact, goroutine.run) /\ goroutine.run \in Nat
      BY <1>6, SettlePlace, OutcomeFacts DEF AInv
    <2> QED
      BY <1>2, <2>1, <2>2, EndPlanStep
  <1>7. CASE job.after = "closed"
    BY <1>1, <1>2, <1>7, ClosePlanStep DEF PlanInv
  <1>8. CASE job.after = "loaded"
    BY <1>1, <1>2, <1>8, ClosePlanStep DEF PlanInv
  <1>9. CASE job.after = "reconciled"
    <2>1. PICK run \in Nat : run = manifestFile.active
      BY OutcomeFacts DEF AInv
    <2>2. EndPlan(W, run, RunOutcome(run, "interrupted", "interrupted"))
      BY <1>1, <1>2, <1>9, <2>1 DEF PlanInv
    <2>3. IsOutcome(RunOutcome(run, "interrupted", "interrupted"), run)
      BY OutcomeFacts DEF AInv
    <2> QED
      BY <1>2, <2>2, <2>3, EndPlanStep
  <1>10. job.after # "refused"
    BY <1>1, <1>2 DEF PlanInv
  <1>11. job.after \in Afters
    BY DEF AInv, Types, JobType
  <1> QED
    BY <1>3, <1>4, <1>5, <1>6, <1>7, <1>8, <1>9, <1>10, <1>11 DEF Afters, AfterLoad

\* The same when the write was made and the job goes on with the next one.
GoesOn ==
  /\ job' = [job EXCEPT !.writes = Tail(@)]
  /\ UNCHANGED <<state, goroutine, crashes>>
  /\ cursor' = IF Head(job.writes).op \in {"emit", "persist"} THEN cursor + 1 ELSE cursor

LEMMA RestOfJob ==
  ASSUME Types, job.writes # <<>>, GoesOn
  PROVE  job'.writes = Tail(job.writes) /\ job'.after = job.after
  BY DEF GoesOn, Types, JobType

LEMMA SettleAfter ==
  ASSUME AInv, Store!TypeOK', job.writes # <<>>, Leaves(Head(job.writes)), Does(Head(job.writes)),
         GoesOn, job.after = "settle"
  PROVE  PlanInv'
  <1>1. PICK W \in Seq(StoreCall) : W = job.writes
    BY DEF AInv, Types, JobType
  <1>2. PICK run \in Nat : run = goroutine.run
    BY OutcomeFacts DEF AInv
  <1>3. PICK rec : rec = OutcomeFact
    OBVIOUS
  <1>4. /\ W # <<>> /\ Store!TypeOK /\ DiskInv /\ Leaves(Head(W)) /\ Counts /\ Does(Head(W))
        /\ job'.writes = Tail(W) /\ job'.after = "settle"
    BY <1>1, RestOfJob DEF AInv, CInv, Types, Counts, GoesOn
  <1>5. /\ EndPlan(W, run, rec) /\ IsOutcome(rec, run)
        /\ \A i \in 1..Len(W) : W[i].onError = "fault"
        /\ Open(run) \/ Untold(run) \/ EventThere(SettleEntry)
    BY <1>1, <1>2, <1>3, SettlePlace DEF AInv, CInv, PlanInv
  <1>6. goroutine'.run = run /\ OutcomeFact' = rec
    BY <1>2, <1>3 DEF GoesOn, OutcomeFact
  <1>7. /\ EndPlan(Tail(W), run, rec)'
        /\ \/ Open(run) \/ Untold(run) \/ \A entry : EventThere(entry) => EventThere(entry)'
        /\ Open(run) => Open(run)' \/ Untold(run)'
        /\ Untold(run) =>
             \E j \in 1..Len(eventLog') : eventLog'[j] = [cursor |-> cursor + 1, ev |-> ReportOf(rec)]
        /\ Untold(run) => Head(W).op \in {"emit", "persist"}
        /\ Marked(run) => Head(W).op = "finish"
    BY <1>4, <1>5, EndPlanStep
  <1>8. \A i \in 1..Len(Tail(W)) : Tail(W)[i].onError = "fault"
    <2>1. /\ Len(W) \in Nat /\ Len(Tail(W)) = Len(W) - 1
          /\ \A i \in 1..(Len(W) - 1) : Tail(W)[i] = W[i + 1]
      BY <1>4, FirstOf
    <2>2. \A i \in 1..(Len(W) - 1) : i + 1 \in 1..Len(W)
      BY <2>1
    <2> QED
      BY <1>5, <2>1, <2>2
  <1>9. Open(run)' \/ Untold(run)' \/ EventThere(SettleEntry)'
    <2>1. CASE Open(run)
      BY <1>7, <2>1
    <2>2. CASE Untold(run)
      <3>1. SettleEntry' = [cursor |-> cursor + 1, ev |-> ReportOf(rec)]
        BY <1>1, <1>6, <1>7, <2>2 DEF SettleEntry, GoesOn, ReportOf, TerminalEvent, Ev
      <3> QED
        BY <1>7, <2>2, <3>1 DEF EventThere
    <2>3. CASE ~ Open(run) /\ ~ Untold(run)
      <3>1. Marked(run)
        <4>1. Len(W) # 0
          BY <1>4
        <4> QED
          BY <1>5, <2>3, <4>1 DEF EndPlan
      <3>2. cursor' = cursor
        BY <1>1, <1>7, <3>1 DEF GoesOn
      <3>3. SettleEntry' = SettleEntry
        BY <1>3, <1>6, <3>2 DEF SettleEntry
      <3>4. EventThere(SettleEntry)'
        BY <1>5, <1>7, <2>3, <3>3 DEF EventThere
      <3> QED
        BY <3>4
    <2> QED
      BY <2>1, <2>2, <2>3
  <1> QED
    BY <1>4, <1>6, <1>7, <1>8, <1>9 DEF PlanInv, AfterRun

LEMMA WritePlan ==
  ASSUME AInv, Store!TypeOK', job.writes # <<>>, Leaves(Head(job.writes)), Does(Head(job.writes)),
         GoesOn
  PROVE  PlanInv'
  <1>1. PICK W \in Seq(StoreCall) : W = job.writes
    BY DEF AInv, Types, JobType
  <1>2. PICK after : after = job.after
    OBVIOUS
  <1>3. /\ W # <<>> /\ Store!TypeOK /\ DiskInv /\ PlanInv /\ Leaves(Head(W)) /\ Does(Head(W))
        /\ Counts /\ job'.writes = Tail(W) /\ job'.after = after
        /\ state' = state /\ goroutine' = goroutine
    BY <1>1, <1>2, RestOfJob DEF AInv, CInv, Types, Counts, GoesOn
  <1>4. CASE after \in {"free", "cancelled", "rejected", "done"}
    <2>1. AtPlace /\ AllQuiet(W, Len(W))
      BY <1>1, <1>2, <1>3, <1>4 DEF PlanInv
    <2>2. SameMarks /\ AllQuiet(Tail(W), Len(Tail(W)))
      BY <1>3, <2>1, QuietStep
    <2>3. AtPlace'
      BY <1>3, <2>1, <2>2, PlacesKept DEF AtPlace
    <2> QED
      BY <1>3, <1>4, <2>2, <2>3 DEF PlanInv, AfterRun
  <1>5. CASE after = "started"
    <2>1. StartPlan(Tail(W))'
      BY <1>1, <1>2, <1>3, <1>5, StartPlanStep DEF PlanInv
    <2> QED
      BY <1>3, <1>5, <2>1 DEF PlanInv, AfterRun
  <1>6. CASE after \in AfterRun \ {"settle"}
    <2>1. PICK run \in Nat : run = goroutine.run
      BY OutcomeFacts DEF AInv
    <2>2. Open(run)' /\ AllPlain(Tail(W), Len(Tail(W)), run)
      BY <1>1, <1>2, <1>3, <1>6, <2>1, PlainStep DEF PlanInv
    <2>3. goroutine'.run = run
      BY <1>3, <2>1
    <2> QED
      BY <1>3, <1>6, <2>2, <2>3 DEF PlanInv, AfterRun
  <1>7. CASE after = "settle"
    BY <1>2, <1>7, SettleAfter
  <1>8. CASE after = "closed"
    <2>1. ClosePlan(Tail(W))' /\ (Shut => Shut')
      BY <1>1, <1>2, <1>3, <1>8, ClosePlanStep DEF PlanInv
    <2>2. state = "closed" => Shut
      BY <1>2, <1>3, <1>8 DEF PlanInv
    <2> QED
      BY <1>3, <1>8, <2>1, <2>2 DEF PlanInv, AfterRun
  <1>9. CASE after = "loaded"
    <2>1. ClosePlan(Tail(W))'
      BY <1>1, <1>2, <1>3, <1>9, ClosePlanStep DEF PlanInv
    <2> QED
      BY <1>3, <1>9, <2>1 DEF PlanInv, AfterRun
  <1>10. CASE after = "reconciled"
    <2>1. PICK run \in Nat : run = manifestFile.active
      BY OutcomeFacts DEF AInv
    <2>2. PICK rec : rec = RunOutcome(run, "interrupted", "interrupted")
      OBVIOUS
    <2>3. EndPlan(W, run, rec) /\ IsOutcome(rec, run)
      BY <1>1, <1>2, <1>3, <1>10, <2>1, <2>2, OutcomeFacts DEF PlanInv, AInv
    <2>4. EndPlan(Tail(W), run, rec)'
      BY <1>3, <2>3, EndPlanStep
    <2>5. EndPlan(Tail(W), manifestFile.active,
                  RunOutcome(manifestFile.active, "interrupted", "interrupted"))'
      <3>1. manifestFile'.active = run \/ (Resting' /\ Len(Tail(W)) = 0)
        BY <2>4 DEF EndPlan, Open, Untold, Marked
      <3>2. CASE manifestFile'.active = run
        BY <2>2, <2>4, <3>2
      <3>3. CASE Resting' /\ Len(Tail(W)) = 0
        BY <3>3 DEF EndPlan
      <3> QED
        BY <3>1, <3>2, <3>3
    <2> QED
      BY <1>3, <1>10, <2>5 DEF PlanInv, AfterRun
  <1>11. after # "refused"
    BY <1>1, <1>2, <1>3 DEF PlanInv
  <1>12. after \in Afters
    BY <1>2 DEF AInv, Types, JobType
  <1> QED
    BY <1>4, <1>5, <1>6, <1>7, <1>8, <1>9, <1>10, <1>11, <1>12 DEF Afters, AfterLoad

\* No write takes an event away, and the active run is cleared or a new one.
LEMMA LeavesShown ==
  ASSUME Store!TypeOK, NEW w \in StoreCall, Leaves(w)
  PROVE  /\ \A entry : EventThere(entry) => EventThere(entry)'
         /\ manifestFile'.active \in {manifestFile.active, NoRun, manifestFile.nextRun + 1}
         /\ w.op \in {"emit", "persist"} /\ Does(w) =>
              \E j \in 1..Len(eventLog') : eventLog'[j] = [cursor |-> cursor + 1, ev |-> w.ev]
         /\ w.op # "append" => transcriptLog' = transcriptLog
  <1>1. ASSUME NEW ev, Noted(ev)
        PROVE  /\ \A entry : EventThere(entry) => EventThere(entry)'
               /\ \E j \in 1..Len(eventLog') : eventLog'[j] = [cursor |-> cursor + 1, ev |-> ev]
    <2>1. \E j \in 1..Len(eventLog') : eventLog'[j] = [cursor |-> cursor + 1, ev |-> ev]
      BY <1>1, NotedAt
    <2>2. ASSUME NEW entry, EventThere(entry) PROVE EventThere(entry)'
      <3>1. PICK j \in 1..Len(eventLog) : eventLog[j] = entry
        BY <2>2 DEF EventThere
      <3>2. j \in 1..Len(eventLog') /\ eventLog'[j] = entry
        BY <1>1, <3>1, NotedAt
      <3> QED
        BY <3>2 DEF EventThere
    <2> QED
      BY <2>1, <2>2
  <1>2. w.op \in WriteOp
    BY DEF StoreCall
  <1>3. CASE Same
    <2>1. /\ transcriptLog' = transcriptLog /\ eventLog' = eventLog
          /\ manifestFile'.active = manifestFile.active
      BY <1>3 DEF Same, SameCore, CoreIs
    <2>2. w.op \in {"emit", "persist"} /\ Does(w) => Noted(w.ev)
      BY DEF Does
    <2> QED
      BY <1>1, <1>3, <2>1, <2>2, EventsSame
  <1>4. CASE \E recs : Added(recs) /\ w.op = "append"
    <2>1. eventLog' = eventLog /\ manifestFile'.active = manifestFile.active /\ w.op = "append"
      BY <1>4 DEF Added, SameCore, CoreIs
    <2> QED
      BY <2>1, EventsSame
  <1>5. CASE Noted(w.ev)
    <2>1. transcriptLog' = transcriptLog /\ manifestFile'.active = manifestFile.active
      BY <1>5 DEF Noted, SameCore, CoreIs
    <2> QED
      BY <1>1, <1>5, <2>1
  <1>6. CASE w.op \in {"begin", "finish", "close"} /\ Does(w)
    <2>1. /\ transcriptLog' = transcriptLog /\ eventLog' = eventLog
          /\ manifestFile'.active \in {manifestFile.active, NoRun, manifestFile.nextRun + 1}
      BY <1>6 DEF Does, CoreOnly, CoreIs
    <2> QED
      BY <1>6, <2>1, EventsSame
  <1>7. Same \/ Noted(w.ev) \/ (w.op \in {"begin", "finish", "close"} /\ Does(w))
          \/ \E recs : Added(recs) /\ w.op = "append"
    <2>1. CASE Does(w)
      BY <1>2, <2>1 DEF Does, WriteOp
    <2> QED
      BY <2>1 DEF Leaves
  <1> QED
    BY <1>3, <1>4, <1>5, <1>6, <1>7

\* A run that was seen to end is not active after a write either.
LEMMA ShownKept ==
  ASSUME Store!TypeOK, DiskInv, NEW entry, EventThere(entry), entry.ev.kind \in TerminalEvents,
         manifestFile.active # entry.ev.run,
         manifestFile'.active \in {manifestFile.active, NoRun, manifestFile.nextRun + 1}
  PROVE  manifestFile'.active # entry.ev.run
  <1>1. PICK j \in 1..Len(eventLog) : eventLog[j] = entry
    BY DEF EventThere
  <1>2. entry.ev.run \in 0..manifestFile.nextRun /\ entry.ev.run # NoRun
    BY <1>1 DEF DiskInv, KnownInv
  <1>3. manifestFile.nextRun \in Nat
    BY DEF Store!TypeOK, Store!Manifest
  <1>4. entry.ev.run # manifestFile.nextRun + 1
    BY <1>2, <1>3
  <1> QED
    BY <1>2, <1>4

LEMMA HistoryKept ==
  ASSUME Store!TypeOK, DiskInv, ShownInv, NEW w \in StoreCall, Leaves(w)
  PROVE  /\ \A i \in 1..Len(history) : \E j \in 1..Len(eventLog') : eventLog'[j] = history[i]
         /\ state # "starting" => \A i \in 1..Len(history) :
              history[i].ev.kind \in TerminalEvents => manifestFile'.active # history[i].ev.run
  <1>1. ASSUME NEW i \in 1..Len(history)
        PROVE  /\ EventThere(history[i])
               /\ \E j \in 1..Len(eventLog') : eventLog'[j] = history[i]
    <2>1. PICK entry : entry = history[i]
      OBVIOUS
    <2>2. EventThere(entry)
      BY <2>1 DEF ShownInv
    <2>3. EventThere(entry)'
      BY <2>2, LeavesShown
    <2> QED
      BY <2>1, <2>2, <2>3 DEF EventThere
  <1>2. ASSUME state # "starting", NEW i \in 1..Len(history), history[i].ev.kind \in TerminalEvents
        PROVE  manifestFile'.active # history[i].ev.run
    <2>1. manifestFile.active # history[i].ev.run
      BY <1>2 DEF ShownInv
    <2>2. manifestFile'.active \in {manifestFile.active, NoRun, manifestFile.nextRun + 1}
      BY LeavesShown
    <2> QED
      BY <1>1, <1>2, <2>1, <2>2, ShownKept
  <1> QED
    BY <1>1, <1>2

LEMMA HandleStays ==
  ASSUME NEW w, NEW result, StoreWrite(w, result)
  PROVE  opened /\ opened' = opened
  BY DEF StoreWrite, Store!BeginRun, Store!RecordCommand, Store!AppendTranscript, Store!AppendEvent,
         Store!FinishRun, Store!CloseStore, Store!OnlyManifest

LEMMA AgreeNow ==
  ASSUME AInv, job.writes # <<>>
  PROVE  Agree /\ opened /\ job.after # "refused"
  <1>1. job.after # "refused"
    BY DEF AInv, CInv, PlanInv
  <1> QED
    BY <1>1, JobShape DEF AInv, CInv, HandleInv

\* The writes that are left are some of the writes there were.
LEMMA WritesLeft ==
  ASSUME AInv, job.writes # <<>>, job'.writes = Tail(job.writes)
  PROVE  state # "starting" => \A i \in 1..Len(job'.writes) :
           job'.writes[i].op = "emit" => job'.writes[i].ev.kind \notin TerminalEvents
  <1>1. PICK W \in Seq(StoreCall) : W = job.writes
    BY DEF AInv, Types, JobType
  <1>2. /\ Len(W) \in Nat /\ Len(Tail(W)) = Len(W) - 1
        /\ \A i \in 1..(Len(W) - 1) : Tail(W)[i] = W[i + 1]
    BY <1>1, FirstOf
  <1>3. \A i \in 1..(Len(W) - 1) : i + 1 \in 1..Len(W)
    BY <1>2
  <1>4. state # "starting" => \A i \in 1..Len(W) : W[i].op = "emit" => W[i].ev.kind \notin TerminalEvents
    BY <1>1 DEF AInv, CInv, ShownInv
  <1> QED
    BY <1>1, <1>2, <1>3, <1>4

LEMMA WriteSucceedsKeeps ==
  ASSUME AInv, Types', WriteSucceeds
  PROVE  CInv'
  <1> DEFINE w == Head(job.writes)
             entry == [cursor |-> cursor + 1, ev |-> w.ev]
  <1>1. /\ job.writes # <<>> /\ StoreWrite(w, "ok")
        /\ records' = IF w.op = "append"
                      THEN records \o Numbered(manifest.transcriptSeq, w.recs) ELSE records
        /\ history' = IF w.op = "emit" THEN Append(history, entry) ELSE history
        /\ GoesOn /\ Counts
    BY DEF WriteSucceeds, GoesOn, Counts, counters
  <1>2. w \in StoreCall /\ w.recs \in Seq(Record)
    BY <1>1, HeadTyped DEF AInv
  <1>3. Agree /\ opened /\ job.after # "refused"
    BY <1>1, AgreeNow
  <1>4. Leaves(w) /\ Does(w) /\ Agree' /\ Store!TypeOK /\ Store!TypeOK'
    BY <1>1, <1>2, <1>3, WriteLeaves DEF AInv, Types
  <1>5. DiskInv'
    BY <1>1, <1>4, DiskAfter DEF GoesOn
  <1>6. PlanInv'
    BY <1>1, <1>4, WritePlan
  <1>7. opened' /\ state' = state /\ crashes' = crashes /\ state # "down"
    BY <1>1, HandleStays, JobShape DEF GoesOn, AInv
  <1>8. HandleInv'
    <2>1. state = "starting" => records' = transcriptLog'
      <3>1. state = "starting" => records = transcriptLog
        BY <1>3 DEF AInv, CInv, HandleInv
      <3>2. CASE w.op = "append"
        <4>1. transcriptLog' = transcriptLog \o Store!Lines(w.recs)
          BY <1>1, <3>2 DEF StoreWrite, Store!AppendTranscript
        <4>2. Store!Lines(w.recs) = Numbered(manifest.transcriptSeq, w.recs)
          BY <1>2, <1>4, LinesTyped
        <4> QED
          BY <1>1, <3>1, <3>2, <4>1, <4>2
      <3>3. CASE w.op # "append"
        BY <1>1, <1>2, <1>4, <3>1, <3>3, LeavesShown
      <3> QED
        BY <3>2, <3>3
    <2>2. state \in {"down", "starting"} => crashes # 0
      BY DEF AInv, CInv, HandleInv
    <2> QED
      BY <1>4, <1>7, <2>1, <2>2 DEF HandleInv
  <1>9. ShownInv'
    <2>1. /\ \A i \in 1..Len(history) : \E j \in 1..Len(eventLog') : eventLog'[j] = history[i]
          /\ state # "starting" => \A i \in 1..Len(history) :
               history[i].ev.kind \in TerminalEvents => manifestFile'.active # history[i].ev.run
      BY <1>2, <1>4, HistoryKept DEF AInv, CInv
    <2>2. w.op = "emit" => \E j \in 1..Len(eventLog') : eventLog'[j] = entry
      BY <1>2, <1>4, LeavesShown
    <2>3. w.op = "emit" /\ state # "starting" => w.ev.kind \notin TerminalEvents
      <3>1. PICK W \in Seq(StoreCall) : W = job.writes
        BY DEF AInv, Types, JobType
      <3>2. w = W[1] /\ 1 \in 1..Len(W)
        BY <1>1, <3>1, FirstOf
      <3> QED
        BY <3>1, <3>2 DEF AInv, CInv, ShownInv
    <2>4. entry.ev = w.ev
      OBVIOUS
    <2> HIDE DEF entry, w
    <2>5. PICK e : e = entry
      OBVIOUS
    <2>6. /\ history \in Seq(Store!EventEntry)
          /\ w.op = "emit" => /\ Len(history') = Len(history) + 1
                              /\ \A i \in 1..Len(history) : history'[i] = history[i]
                              /\ history'[Len(history) + 1] = entry
          /\ w.op # "emit" => history' = history
      BY <1>1, AppendProperties DEF AInv, Types
    <2>7. \A i \in 1..Len(history') :
            \/ i \in 1..Len(history) /\ history'[i] = history[i]
            \/ w.op = "emit" /\ history'[i] = entry
      <3>1. Len(history) \in Nat
        BY <2>6
      <3> QED
        BY <2>6, <3>1
    <2>8. \A i \in 1..Len(history') : \E j \in 1..Len(eventLog') : eventLog'[j] = history'[i]
      BY <2>1, <2>2, <2>7
    <2>9. state # "starting" => \A i \in 1..Len(history') :
            history'[i].ev.kind \in TerminalEvents => manifestFile'.active # history'[i].ev.run
      BY <2>1, <2>3, <2>4, <2>7
    <2>10. state # "starting" => \A i \in 1..Len(job'.writes) :
             job'.writes[i].op = "emit" => job'.writes[i].ev.kind \notin TerminalEvents
      BY <1>1, RestOfJob, WritesLeft DEF AInv
    <2> QED
      BY <1>7, <2>8, <2>9, <2>10 DEF ShownInv, EventThere
  <1> QED
    BY <1>5, <1>6, <1>8, <1>9 DEF CInv
-----------------------------------------------------------------------------
(***************************************************************************)
(* A write that fails.                                                     *)
(***************************************************************************)
LEMMA SameRun ==
  ASSUME Types
  PROVE  /\ \A pc : Goto(pc).run = goroutine.run
         /\ \A outcome, cause : Ending(outcome, cause).run = goroutine.run
         /\ \A cause : Erring(cause).run = goroutine.run
         /\ NextAttempt.run = goroutine.run
         /\ \A b : [goroutine EXCEPT !.streamed = b].run = goroutine.run
         /\ \A a : [Goto("answered") EXCEPT !.answer = a].run = goroutine.run
         /\ \A d : [Goto("reserve_delay") EXCEPT !.delay = d].run = goroutine.run
         /\ [Goto("reserve_attempt") EXCEPT !.retry = 0, !.streamed = FALSE].run = goroutine.run
  BY DEF Types, GoroutineType, Goto, Ending, Erring, NextAttempt, NoGoroutine

\* A failed write after which the session goes on left its place as it was.
LEMMA StaysAtPlace ==
  ASSUME AInv, Counts, Store!TypeOK', job.writes # <<>>, Leaves(Head(job.writes)),
         state # "starting", Head(job.writes).onError # "fault", state' = state,
         goroutine'.run = goroutine.run
  PROVE  AtPlace' /\ Head(job.writes).op \notin {"begin", "finish", "close"}
  <1>1. PICK W \in Seq(StoreCall) : W = job.writes
    BY DEF AInv, Types, JobType
  <1>2. /\ W # <<>> /\ Store!TypeOK /\ DiskInv /\ PlanInv /\ Leaves(Head(W)) /\ Head(W) = W[1]
        /\ 1 \in 1..Len(W) /\ Head(W).onError # "fault"
    BY <1>1, FirstOf DEF AInv, CInv, Types
  <1>3. /\ job.after # "free" /\ state \notin {"down", "faulted"}
        /\ job.after \in {"started", "rejected", "done"} => state = "idle"
        /\ job.after = "closed" => state \in {"idle", "closed"}
        /\ job.after \in AfterRun <=> (state = "running" /\ job.after # "cancelled")
        /\ job.after \notin AfterLoad
        /\ job.after \notin AfterRun => Head(W).op = "record"
    BY <1>1, <1>2, JobShape DEF AInv
  <1>4. CASE job.after \in {"cancelled", "rejected", "done"}
    <2>1. AtPlace /\ AllQuiet(W, Len(W))
      BY <1>1, <1>2, <1>4 DEF PlanInv
    <2>2. SameMarks
      BY <1>2, <2>1, QuietStep
    <2>3. Head(W).op = "record"
      BY <1>3, <1>4 DEF AfterRun
    <2>4. AtPlace'
      BY <2>1, <2>2, PlacesKept DEF AtPlace
    <2> QED
      BY <1>1, <2>3, <2>4
  <1>5. CASE job.after = "started"
    <2>1. StartPlan(W)
      BY <1>1, <1>2, <1>5 DEF PlanInv
    <2>2. W[1].op # "record"
      BY <1>2, <2>1 DEF StartPlan, AllPlain, PlainWrite
    <2> QED
      BY <1>2, <1>3, <1>5, <2>2 DEF AfterRun
  <1>6. CASE job.after \in AfterRun \ {"settle"}
    <2>1. PICK run \in Nat : run = goroutine.run
      BY OutcomeFacts DEF AInv
    <2>2. Open(run) /\ AllPlain(W, Len(W), run)
      BY <1>1, <1>2, <1>6, <2>1 DEF PlanInv
    <2>3. Open(run)'
      BY <1>2, <2>2, PlainStep
    <2>4. PlainWrite(Head(W), run)
      BY <1>2, <2>2 DEF AllPlain
    <2>5. AtPlace'
      BY <1>3, <1>6, <2>1, <2>3 DEF AtPlace, AfterRun
    <2> QED
      BY <1>1, <2>4, <2>5 DEF PlainWrite
  <1>7. CASE job.after = "settle"
    BY <1>1, <1>2, <1>7 DEF PlanInv
  <1>8. CASE job.after = "closed"
    <2>1. ClosePlan(W) /\ (state = "closed" => Shut)
      BY <1>1, <1>2, <1>8 DEF PlanInv
    <2>2. Head(W).op = "record" /\ state \in {"idle", "closed"}
      BY <1>3, <1>8 DEF AfterRun
    <2>3. SameMarks /\ (Resting \/ state = "closed")
      BY <1>2, <2>1, <2>2, ClosePlanStep
    <2>4. AtPlace'
      BY <2>1, <2>2, <2>3, PlacesKept DEF AtPlace
    <2> QED
      BY <1>1, <2>2, <2>4
  <1>9. job.after \in Afters
    BY DEF AInv, Types, JobType
  <1> QED
    BY <1>3, <1>4, <1>5, <1>6, <1>7, <1>8, <1>9 DEF Afters

LEMMA NoJobPlan ==
  ASSUME AtPlace', job' = NoJob
  PROVE  PlanInv'
  <1>1. job'.after = "free" /\ job'.writes = <<>>
    BY NoJobFacts
  <1>2. AllQuiet(<<>>, Len(<<>>))
    BY DEF AllQuiet
  <1>3. AllQuiet(job'.writes, Len(job'.writes))
    BY <1>1, <1>2
  <1> QED
    BY <1>1, <1>3 DEF PlanInv, AfterRun

LEMMA ErrorKeeps ==
  ASSUME AInv, Store!TypeOK', job.writes # <<>>, HandleError(Head(job.writes).onError),
         crashes' = crashes, opened, opened' = opened, Leaves(Head(job.writes)),
         Head(job.writes).op \notin {"begin", "finish", "close"} => Agree'
  PROVE  CInv'
  <1> DEFINE w == Head(job.writes)
  <1>1. w \in StoreCall /\ Store!TypeOK /\ Counts /\ state \notin {"down", "faulted"}
    BY HeadTyped, JobShape DEF AInv, Types, Counts
  <1>2. DiskInv'
    BY <1>1, DiskAfter
  <1>3. /\ \A i \in 1..Len(history) : \E j \in 1..Len(eventLog') : eventLog'[j] = history[i]
        /\ state # "starting" => \A i \in 1..Len(history) :
             history[i].ev.kind \in TerminalEvents => manifestFile'.active # history[i].ev.run
    BY <1>1, HistoryKept DEF AInv, CInv
  <1>4. state \in {"down", "starting"} => crashes # 0
    BY DEF AInv, CInv, HandleInv
  <1>5. history' = history
    BY DEF HandleError, Fault
  <1>6. CASE state = "starting"
    <2>1. state' = "starting" /\ job' = Job(<<>>, "refused")
      BY <1>6 DEF HandleError
    <2>2. job'.after = "refused" /\ job'.writes = <<>>
      BY <2>1, JobFacts
    <2>3. PlanInv'
      BY <2>2 DEF PlanInv, AfterRun
    <2>4. HandleInv'
      BY <1>4, <1>6, <2>1, <2>2 DEF HandleInv
    <2>5. ShownInv'
      BY <1>3, <1>5, <2>1 DEF ShownInv, EventThere
    <2> QED
      BY <1>2, <2>3, <2>4, <2>5 DEF CInv
  <1>7. ASSUME state # "starting", job' = NoJob, state' \notin {"starting", "down"}
        PROVE  ShownInv'
    <2>1. job'.writes = <<>>
      BY <1>7, NoJobFacts
    <2>2. \A i \in 1..Len(job'.writes) :
            job'.writes[i].op = "emit" => job'.writes[i].ev.kind \notin TerminalEvents
      BY <2>1
    <2> QED
      BY <1>3, <1>5, <1>7, <2>2 DEF ShownInv, EventThere
  <1>8. CASE state # "starting" /\ w.onError = "fault" /\ Fault
    <2>1. state' = "faulted" /\ job' = NoJob
      BY <1>8 DEF Fault
    <2>2. AtPlace'
      BY <2>1 DEF AtPlace
    <2>3. HandleInv'
      BY <2>1 DEF HandleInv
    <2> QED
      BY <1>2, <1>7, <1>8, <2>1, <2>2, <2>3, NoJobPlan DEF CInv
  <1>9. CASE state # "starting" /\ w.onError # "fault"
    <2>1. /\ state' = state /\ job' = NoJob
          /\ goroutine' = CASE w.onError = "fault_run" -> Goto("faulting")
                            [] w.onError = "fail_run" -> Ending("failed", "engine_invariant")
                            [] w.onError = "fail_stream" -> Erring("engine_invariant")
                            [] OTHER -> goroutine
      BY <1>9 DEF HandleError
    <2>2. goroutine'.run = goroutine.run
      BY <2>1, SameRun DEF AInv
    <2>3. AtPlace' /\ w.op \notin {"begin", "finish", "close"}
      BY <1>1, <1>9, <2>1, <2>2, StaysAtPlace
    <2>4. HandleInv'
      BY <1>1, <1>9, <2>1, <2>3 DEF HandleInv
    <2> QED
      BY <1>1, <1>2, <1>7, <1>9, <2>1, <2>3, <2>4, NoJobPlan DEF CInv
  <1> QED
    BY <1>6, <1>8, <1>9 DEF HandleError

LEMMA WriteErrorsKeep ==
  ASSUME AInv, Types', WriteFails \/ EventRefused
  PROVE  CInv'
  <1>1. job.writes # <<>> /\ HandleError(Head(job.writes).onError) /\ crashes' = crashes
    BY DEF WriteFails, EventRefused, counters
  <1>2. Head(job.writes) \in StoreCall /\ Agree /\ opened
    BY <1>1, HeadTyped, AgreeNow DEF AInv
  <1>3. CASE WriteFails
    <2>1. PICK result : StoreWrite(Head(job.writes), result)
      BY <1>3 DEF WriteFails
    <2>2. /\ Leaves(Head(job.writes)) /\ opened' = opened
          /\ Head(job.writes).op \notin {"begin", "finish", "close"} => Agree'
      BY <1>2, <2>1, WriteLeaves, HandleStays DEF AInv
    <2> QED
      BY <1>1, <1>2, <2>2, ErrorKeeps DEF Types
  <1>4. CASE EventRefused
    <2>1. UNCHANGED storeVars
      BY <1>4 DEF EventRefused
    <2>2. Leaves(Head(job.writes)) /\ Agree' /\ opened' = opened
      BY <1>2, <2>1 DEF storeVars, Leaves, Same, SameCore, CoreIs, Agree
    <2> QED
      BY <1>1, <1>2, <2>2, ErrorKeeps DEF Types
  <1> QED
    BY <1>3, <1>4
-----------------------------------------------------------------------------
(***************************************************************************)
(* The process dies; nothing but the disk is left.                         *)
(***************************************************************************)
LEMMA ForgetsKeeps ==
  ASSUME AInv, Forgets, DiskInv', opened' = FALSE, crashes' # 0
  PROVE  CInv'
  <1>1. /\ state' = "down" /\ job' = NoJob /\ history' = <<>>
        /\ job'.writes = <<>> /\ Len(history') = 0
    BY NoJobFacts DEF Forgets
  <1>2. PlanInv'
    BY <1>1, NoJobPlan DEF AtPlace
  <1>3. HandleInv'
    BY <1>1 DEF HandleInv
  <1>4. ShownInv'
    BY <1>1 DEF ShownInv
  <1> QED
    BY <1>2, <1>3, <1>4 DEF CInv

LEMMA ProcessDiesKeeps ==
  ASSUME AInv, Types', ProcessDies
  PROVE  CInv'
  <1>1. crashes' # 0 /\ Counts /\ Forgets
    <2>1. crashes \in Nat /\ crashes' = crashes + 1
      BY DEF AInv, Types, ProcessDies
    <2>2. crashes' # 0
      BY <2>1
    <2> QED
      BY <2>2 DEF ProcessDies, Counts
  <1>2. opened' = FALSE
    BY DEF ProcessDies, Store!Crash, Store!CrashAppending, Store!CrashAppendingEvent
  <1>3. Same \/ (job.writes # <<>> /\ Leaves(Head(job.writes)))
    BY DeathLeaves DEF AInv
  <1>4. DiskInv'
    <2>1. Same => DiskInv'
      BY <1>1, SameKeeps DEF AInv, CInv
    <2>2. job.writes # <<>> /\ Leaves(Head(job.writes)) => DiskInv'
      BY <1>1, DiskAfter DEF Types
    <2> QED
      BY <1>3, <2>1, <2>2
  <1> QED
    BY <1>1, <1>2, <1>4, ForgetsKeeps

LEMMA LoadRefusedKeeps ==
  ASSUME AInv, LoadRefused
  PROVE  CInv'
  <1>1. Same /\ opened' = FALSE /\ crashes' = crashes
    BY DEF LoadRefused, Store!Crash, Store!disk, Same, SameCore, CoreIs
  <1>2. DiskInv'
    BY <1>1, SameKeeps DEF AInv, CInv, Counts
  <1>3. state = "starting"
    BY DEF LoadRefused, AInv, IInv, JobInv, AfterRun, AfterLoad
  <1>4. crashes' # 0
    BY <1>1, <1>3 DEF AInv, CInv, HandleInv
  <1> QED
    BY <1>1, <1>2, <1>4, ForgetsKeeps DEF LoadRefused
-----------------------------------------------------------------------------
(***************************************************************************)
(* The session is loaded.                                                  *)
(***************************************************************************)
\* What NewSession counts and finds in the logs.
LEMMA OneOrNone ==
  ASSUME NEW S, NEW n \in Nat, S \subseteq 1..n, \A i, j \in S : i = j
  PROVE  /\ Cardinality(S) = 0 <=> S = {}
         /\ Cardinality(S) = 1 <=> S # {}
         /\ Cardinality(S) \in Nat /\ Cardinality(S) <= 1
  <1>1. CASE S = {}
    BY <1>1, FS_EmptySet
  <1>2. CASE S # {}
    <2>1. PICK x \in S : TRUE
      BY <1>2
    <2>2. S = {x}
      BY <2>1
    <2>3. Cardinality(S) = 1
      BY <2>2, FS_Singleton
    <2> QED
      BY <1>2, <2>3
  <1> QED
    BY <1>1, <1>2

LEMMA CloseFound ==
  ASSUME AInv
  PROVE  /\ CloseFacts(transcriptLog) = 1 <=> FactThere
         /\ CloseFacts(transcriptLog) = 0 <=> ~ FactThere
         /\ CloseEvents(eventLog) > 0 <=> CloseTold
         /\ CloseFacts(transcriptLog) <= 1 /\ CloseEvents(eventLog) <= 1
  <1> DEFINE F == {i \in DOMAIN transcriptLog : transcriptLog[i].rec.kind = "session_closed"}
             E == {i \in DOMAIN eventLog : eventLog[i].ev.kind = "session_closed"}
  <1>1. /\ Len(transcriptLog) \in Nat /\ DOMAIN transcriptLog = 1..Len(transcriptLog)
        /\ Len(eventLog) \in Nat /\ DOMAIN eventLog = 1..Len(eventLog)
    BY DEF AInv, Types, Store!TypeOK
  <1>2. /\ \A i, j \in 1..Len(transcriptLog) : ClosesAt(i) /\ ClosesAt(j) => i = j
        /\ \A i, j \in 1..Len(eventLog) : CloseToldAt(i) /\ CloseToldAt(j) => i = j
    BY DEF AInv, CInv, DiskInv, CloseInv
  <1>3. F \subseteq 1..Len(transcriptLog) /\ \A i, j \in F : i = j
    BY <1>1, <1>2 DEF ClosesAt
  <1>4. E \subseteq 1..Len(eventLog) /\ \A i, j \in E : i = j
    BY <1>1, <1>2 DEF CloseToldAt
  <1>5. F # {} <=> FactThere
    BY <1>1 DEF FactThere, ClosesAt
  <1>6. E # {} <=> CloseTold
    BY <1>1 DEF CloseTold, CloseToldAt
  <1>7. CloseFacts(transcriptLog) = Cardinality(F) /\ CloseEvents(eventLog) = Cardinality(E)
    BY DEF CloseFacts, CloseEvents
  <1> HIDE DEF F, E
  <1>8. /\ Cardinality(F) = 0 <=> F = {}
        /\ Cardinality(F) = 1 <=> F # {}
        /\ Cardinality(F) <= 1
    BY <1>1, <1>3, OneOrNone
  <1>9. /\ Cardinality(E) = 0 <=> E = {}
        /\ Cardinality(E) \in Nat /\ Cardinality(E) <= 1
    BY <1>1, <1>4, OneOrNone
  <1>10. Cardinality(E) > 0 <=> E # {}
    BY <1>9
  <1> QED
    BY <1>5, <1>6, <1>7, <1>8, <1>9, <1>10

LEMMA EndsFound ==
  ASSUME AInv
  PROVE  /\ \A run : HasOutcome(transcriptLog, run) <=> Ended(run)
         /\ \A run : HasTerminalEvent(eventLog, run) <=> Told(run)
  <1>1. DOMAIN transcriptLog = 1..Len(transcriptLog) /\ DOMAIN eventLog = 1..Len(eventLog)
    BY DEF AInv, Types, Store!TypeOK
  <1> QED
    BY <1>1 DEF HasOutcome, Ended, EndsAt, HasTerminalEvent, Told, TellsAt

LEMMA JoinOfTwo ==
  ASSUME NEW a \in StoreCall, NEW b \in StoreCall
  PROVE  LET W == <<a>> \o <<b>> IN Len(W) = 2 /\ W[1] = a /\ W[2] = b
  <1> DEFINE p == <<a>>
             q == <<b>>
  <1>1. /\ p \in Seq(StoreCall) /\ q \in Seq(StoreCall) /\ Len(p) = 1 /\ Len(q) = 1
        /\ p[1] = a /\ q[1] = b
    BY OneCall
  <1> HIDE DEF p, q
  <1>2. /\ Len(p \o q) = Len(p) + Len(q)
        /\ \A i \in 1..(Len(p) + Len(q)) : (p \o q)[i] = IF i <= Len(p) THEN p[i] ELSE q[i - Len(p)]
    BY <1>1, ConcatProperties
  <1>3. Len(p \o q) = 2 /\ (p \o q)[1] = a /\ (p \o q)[2] = b
    BY <1>1, <1>2
  <1> QED
    BY <1>3 DEF p, q

\* The writes that complete a close that was cut short.
LEMMA ClosePlanned ==
  ASSUME AInv, manifestFile.active = NoRun
  PROVE  (Resting /\ CloseWrites = <<>>) \/ ClosePlan(CloseWrites)
  <1>1. CASE ~ FactThere
    BY <1>1, CloseFound DEF Resting, CloseWrites
  <1>2. CASE FactThere
    <2>1. CloseWrites = CloseMarks \o CloseTells
      BY <1>2, CloseFound, CloseWritesTyped
    <2> DEFINE tell == EmitW(Ev("session_closed", NoRun), "return")
               mark == Write("close", "return")
    <2>2. ToldWrite(tell) /\ mark.op = "close" /\ tell \in StoreCall /\ mark \in StoreCall
      <3>1. Ev("session_closed", NoRun) \in Event
        <4>1. NoRun \in Nat /\ "session_closed" \in RunEvents \cup TerminalEvents \cup SessionEvents
          BY DEF SessionEvents, NoRun
        <4> QED
          BY <4>1, EventsTyped
      <3>2. tell.op = "emit" /\ tell.ev = Ev("session_closed", NoRun)
        BY DEF EmitW, Write
      <3> QED
        BY <3>1, <3>2, CallsTyped, WriteFields DEF ToldWrite, OnError, WriteOp
    <2>3. /\ CloseMarks = IF manifestFile.closed THEN <<>> ELSE <<mark>>
          /\ CloseTells = IF CloseTold THEN <<>> ELSE <<tell>>
      BY CloseFound DEF CloseMarks, CloseTells
    <2>4. CloseTold => manifestFile.closed
      BY DEF AInv, CInv, DiskInv, CloseInv
    <2> HIDE DEF tell, mark
    <2>5. CASE CloseTold
      <3>1. CloseWrites = <<>>
        BY <2>1, <2>3, <2>4, <2>5
      <3> QED
        BY <1>2, <2>4, <2>5, <3>1 DEF Shut, ClosePlan
    <2>6. CASE ~ CloseTold /\ manifestFile.closed
      <3>1. CloseWrites = <<tell>>
        BY <2>1, <2>3, <2>6
      <3>2. Len(CloseWrites) = 1 /\ CloseWrites[1] = tell
        BY <3>1
      <3> QED
        BY <1>2, <2>2, <2>6, <3>2 DEF Untalked, ClosePlan
    <2>7. CASE ~ CloseTold /\ ~ manifestFile.closed
      <3>1. CloseWrites = <<mark>> \o <<tell>>
        BY <2>1, <2>3, <2>7
      <3>2. Len(CloseWrites) = 2 /\ CloseWrites[1] = mark /\ CloseWrites[2] = tell
        BY <2>2, <3>1, JoinOfTwo
      <3> QED
        BY <1>2, <2>2, <2>7, <3>2 DEF Unmarked, ClosePlan
    <2> QED
      BY <2>5, <2>6, <2>7
  <1> QED
    BY <1>1, <1>2

LEMMA JoinFacts ==
  ASSUME NEW p \in Seq(StoreCall), NEW q \in Seq(StoreCall)
  PROVE  /\ p \o q \in Seq(StoreCall)
         /\ Len(p \o q) = Len(p) + Len(q) /\ Len(p) \in Nat /\ Len(q) \in Nat
         /\ \A i \in 1..Len(p) : (p \o q)[i] = p[i]
         /\ \A i \in 1..Len(q) : (p \o q)[Len(p) + i] = q[i]
  <1>1. /\ p \o q \in Seq(StoreCall) /\ Len(p \o q) = Len(p) + Len(q)
        /\ \A i \in 1..(Len(p) + Len(q)) : (p \o q)[i] = IF i <= Len(p) THEN p[i] ELSE q[i - Len(p)]
        /\ Len(p) \in Nat /\ Len(q) \in Nat
    BY ConcatProperties
  <1>2. PICK m \in Nat, n \in Nat : m = Len(p) /\ n = Len(q)
    BY <1>1
  <1>3. /\ \A i \in 1..m : i \in 1..(m + n) /\ i <= m
        /\ \A i \in 1..n : m + i \in 1..(m + n) /\ ~ (m + i <= m) /\ (m + i) - m = i
    OBVIOUS
  <1> QED
    BY <1>1, <1>2, <1>3

\* The writes that settle the run a dead process left active.
LEMMA ReconcilePlanned ==
  ASSUME AInv, ValidateRecords(transcriptLog), crashes # 0,
         NEW run \in Nat, run = manifestFile.active, run # NoRun
  PROVE  EndPlan(ReconcileWrites(run), run, RunOutcome(run, "interrupted", "interrupted"))
  <1> DEFINE told == InterruptedW(run)
             mark == Write("finish", "return")
  <1>1. PICK rec : rec = RunOutcome(run, "interrupted", "interrupted")
    OBVIOUS
  <1>2. transcriptLog \in Seq(Entry) /\ manifestFile.nextRun \in Nat
    BY StoreSets DEF AInv, Types, Store!TypeOK, Store!Manifest
  <1>3. /\ told \in StoreCall /\ mark \in StoreCall /\ mark.op = "finish"
        /\ EventWrite(told, ReportOf(rec))
    <2>1. [Ev("run_failed", run) EXCEPT !.cause = "interrupted"] \in Event
      BY EventsTyped
    <2>2. told.op = "emit" /\ told.ev = [Ev("run_failed", run) EXCEPT !.cause = "interrupted"]
      BY DEF InterruptedW, EmitW, Write
    <2>3. ReportOf(rec) = [Ev("run_failed", run) EXCEPT !.cause = "interrupted"]
      <3>1. rec.run = run /\ rec.outcome = "interrupted" /\ rec.cause = "interrupted"
        BY <1>1 DEF RunOutcome, Fact
      <3>2. Reported("interrupted") = "failed"
        BY DEF Reported
      <3> QED
        BY <3>1, <3>2 DEF ReportOf, TerminalEvent
    <2>4. told \in StoreCall
      BY <2>1, CallsTyped DEF InterruptedW, OnError
    <2>5. mark \in StoreCall /\ mark.op = "finish"
      BY CallsTyped, WriteFields DEF WriteOp, OnError
    <2> QED
      BY <2>2, <2>3, <2>4, <2>5 DEF EventWrite
  <1>4. /\ ReconcileWrites(run) = ReconcileFacts(run) \o ReconcileEvents(run) \o <<mark>>
        /\ ReconcileFacts(run) = IF Ended(run) THEN <<>> ELSE RepairWrites(run)
        /\ ReconcileEvents(run) = IF Told(run) THEN <<>> ELSE <<told>>
    BY <1>2, ReconcileTyped, EndsFound DEF ReconcileFacts, ReconcileEvents, ReconcileMark
  <1>5. Told(run) => Ended(run)
    <2>1. run = manifestFile.nextRun
      BY DEF AInv, CInv, DiskInv, RunsInv
    <2>2. run \in 1..manifestFile.nextRun
      BY <2>1 DEF NoRun
    <2> QED
      BY <2>2 DEF AInv, CInv, DiskInv, RunsInv
  <1> HIDE DEF told, mark
  <1>6. CASE Told(run)
    <2>1. ReconcileWrites(run) = <<mark>>
      BY <1>4, <1>5, <1>6
    <2>2. Len(ReconcileWrites(run)) = 1 /\ ReconcileWrites(run)[1].op = "finish"
      BY <1>3, <2>1
    <2>3. Marked(run)
      BY <1>5, <1>6 DEF Marked
    <2> QED
      BY <2>2, <2>3 DEF EndPlan
  <1>7. CASE Ended(run) /\ ~ Told(run)
    <2>1. ReconcileWrites(run) = <<told>> \o <<mark>>
      BY <1>4, <1>7
    <2>2. /\ Len(ReconcileWrites(run)) = 2 /\ ReconcileWrites(run)[1] = told
          /\ ReconcileWrites(run)[2] = mark
      BY <1>3, <2>1, JoinOfTwo
    <2>3. Untold(run)
      BY <1>7 DEF Untold
    <2> QED
      BY <1>1, <1>3, <2>2, <2>3 DEF EndPlan
  <1>8. CASE ~ Ended(run)
    <2>1. PICK R \in Seq(StoreCall), k \in Nat, m \in Seq(Entry) :
            /\ R = RepairWrites(run) /\ Len(R) = k + 1 /\ Len(m) = k
            /\ \A i \in 1..k : R[i] = AppendW(<<ToolResult(run, m[i].rec.call, "interrupted")>>, "return")
            /\ R[k + 1] = AppendW(<<rec>>, "return")
      <3>1. Len(OpenToolCalls(transcriptLog)) \in Nat
        BY <1>2, RepairWritesFacts
      <3> QED
        BY <1>1, <1>2, <3>1, RepairWritesFacts
    <2>2. PICK t \in Seq(StoreCall), f \in Seq(StoreCall) :
            t = <<told>> /\ f = <<mark>> /\ Len(t) = 1 /\ Len(f) = 1 /\ t[1] = told /\ f[1] = mark
      BY <1>3, OneCall
    <2>3. ReconcileWrites(run) = (R \o t) \o f
      BY <1>4, <1>5, <1>8, <2>1, <2>2
    <2>4. PICK P \in Seq(StoreCall) : P = R \o t
      BY JoinFacts
    <2>5. /\ Len(P) = k + 2
          /\ \A i \in 1..(k + 1) : P[i] = R[i]
          /\ P[k + 2] = told
      <3>1. /\ Len(P) = Len(R) + Len(t) /\ \A i \in 1..Len(R) : P[i] = R[i]
            /\ \A i \in 1..Len(t) : P[Len(R) + i] = t[i]
        BY <2>4, JoinFacts
      <3>2. 1 \in 1..1 /\ (k + 1) + 1 = k + 2
        OBVIOUS
      <3> QED
        BY <2>1, <2>2, <3>1, <3>2
    <2>6. PICK W \in Seq(StoreCall) : W = P \o f
      BY JoinFacts
    <2>7. /\ Len(W) = k + 3
          /\ \A i \in 1..(k + 2) : W[i] = P[i]
          /\ W[k + 3] = mark
      <3>1. /\ Len(W) = Len(P) + Len(f) /\ \A i \in 1..Len(P) : W[i] = P[i]
            /\ \A i \in 1..Len(f) : W[Len(P) + i] = f[i]
        BY <2>6, JoinFacts
      <3>2. 1 \in 1..1 /\ (k + 2) + 1 = k + 3
        OBVIOUS
      <3> QED
        BY <2>2, <2>5, <3>1, <3>2
    <2>8. /\ (k + 3) - 1 = k + 2 /\ (k + 3) - 2 = k + 1 /\ (k + 3) - 3 = k /\ k + 3 >= 3
          /\ k + 1 \in 1..(k + 1) /\ k + 1 \in 1..(k + 2) /\ k + 2 \in 1..(k + 2)
          /\ \A i \in 1..k : i \in 1..(k + 1) /\ i \in 1..(k + 2)
      OBVIOUS
    <2>9. W[k + 1] = R[k + 1] /\ W[k + 2] = told /\ \A i \in 1..k : W[i] = R[i]
      BY <2>5, <2>7, <2>8
    <2>10. RecordWrite(W[k + 1], rec)
      <3>1. W[k + 1] = AppendW(<<rec>>, "return")
        BY <2>1, <2>9
      <3>2. AppendW(<<rec>>, "return").op = "append" /\ AppendW(<<rec>>, "return").recs = <<rec>>
        BY DEF AppendW, Write
      <3>3. Len(<<rec>>) = 1 /\ <<rec>>[1] = rec
        OBVIOUS
      <3>4. W[k + 1].op = "append" /\ W[k + 1].recs = <<rec>>
        BY <3>1, <3>2
      <3> QED
        BY <3>3, <3>4 DEF RecordWrite
    <2>11. AllPlain(W, k, run)
      <3>1. ASSUME NEW i \in 1..k PROVE PlainWrite(W[i], run)
        <4>1. PICK id : W[i] = AppendW(<<ToolResult(run, id, "interrupted")>>, "return")
          BY <2>1, <2>9
        <4>2. W[i].op = "append" /\ W[i].recs = <<ToolResult(run, id, "interrupted")>>
          BY <4>1 DEF AppendW, Write
        <4>3. Plain(ToolResult(run, id, "interrupted"), run)
          BY DEF Plain, ToolResult, Fact
        <4>4. \A x, j : j \in 1..Len(<<x>>) => <<x>>[j] = x
          OBVIOUS
        <4>5. \A j \in 1..Len(W[i].recs) : W[i].recs[j] = ToolResult(run, id, "interrupted")
          BY <4>2, <4>4
        <4> QED
          BY <4>2, <4>3, <4>5 DEF PlainWrite
      <3> QED
        BY <3>1 DEF AllPlain
    <2>12. Open(run)
      BY <1>5, <1>8 DEF Open
    <2>13. EndPlan(W, run, rec)
      BY <1>3, <2>7, <2>8, <2>9, <2>10, <2>11, <2>12 DEF EndPlan
    <2> QED
      BY <1>1, <2>3, <2>4, <2>6, <2>13
  <1> QED
    BY <1>6, <1>7, <1>8

LEMMA SameDisk ==
  ASSUME AInv, Counts, UNCHANGED <<transcriptLog, eventLog>>,
         \/ UNCHANGED manifestFile
         \/ SameCore
  PROVE  /\ DiskInv' /\ SameMarks /\ Same
         /\ \A i \in 1..Len(history) : \E j \in 1..Len(eventLog') : eventLog'[j] = history[i]
         /\ manifestFile'.active = manifestFile.active
  <1>1. Same /\ manifestFile'.active = manifestFile.active
    BY DEF Same, SameCore, CoreIs
  <1>2. \A i \in 1..Len(history) : EventThere(history[i])
    BY DEF AInv, CInv, ShownInv
  <1> QED
    BY <1>1, <1>2, SameKeeps DEF AInv, CInv, EventThere

LEMMA LoadKeeps ==
  ASSUME AInv, Load
  PROVE  CInv'
  <1>1. /\ UNCHANGED <<transcriptLog, eventLog, manifestFile>> /\ opened'
        /\ manifest' = [manifestFile EXCEPT !.transcriptSeq = Len(transcriptLog),
                                            !.eventCursor = Len(eventLog)]
        /\ ValidateRecords(transcriptLog)
    BY StoreScan DEF Load, Store!Open, Store!Openable, Store!disk
  <1>2. /\ state = "down" /\ state' = "starting" /\ records' = transcriptLog /\ history' = eventLog
        /\ crashes' = crashes
    BY DEF Load, counters
  <1>3. crashes # 0
    BY <1>2 DEF AInv, CInv, HandleInv
  <1>4. DiskInv' /\ Same
    BY <1>1, <1>2, SameDisk DEF Counts
  <1>5. PICK run \in Nat : run = manifestFile.active
    BY OutcomeFacts DEF AInv
  <1>6. job' = Job((IF run = NoRun THEN <<>> ELSE ReconcileWrites(run)) \o CloseWrites,
                   IF run = NoRun THEN "loaded" ELSE "reconciled")
    BY <1>5 DEF Load
  <1>7. ASSUME run = NoRun PROVE PlanInv'
    <2>1. PICK W \in Seq(StoreCall) : W = CloseWrites
      BY CloseWritesTyped
    <2>2. <<>> \o W = W
      OBVIOUS
    <2>3. job'.writes = W /\ job'.after = "loaded"
      BY <1>6, <1>7, <2>1, <2>2, JobFacts
    <2>4. (Resting /\ W = <<>>) \/ ClosePlan(W)
      BY <1>5, <1>7, <2>1, ClosePlanned
    <2>5. SameMarks
      BY <1>1, <1>2, SameDisk DEF Counts
    <2>6. (Resting' /\ W = <<>>) \/ ClosePlan(W)'
      <3>1. state # "closed"
        BY <1>2
      <3>2. Resting' <=> Resting
        BY <2>5, PlacesKept
      <3>3. ClosePlan(W) => ClosePlan(W)'
        BY <2>5, <3>1, PlacesKept DEF ClosePlan
      <3> QED
        BY <2>4, <3>2, <3>3
    <2> QED
      BY <2>3, <2>6 DEF PlanInv, AfterRun
  <1>8. ASSUME run # NoRun PROVE PlanInv'
    <2>1. PICK W \in Seq(StoreCall) : W = ReconcileWrites(run)
      BY <1>1, ReconcileTyped, StoreSets DEF AInv, Types, Store!TypeOK
    <2>2. CloseWrites = <<>>
      <3>1. ~ FactThere
        BY <1>5, <1>8 DEF AInv, CInv, DiskInv, CloseInv
      <3> QED
        BY <3>1, CloseFound DEF CloseWrites
    <2>3. W \o <<>> = W
      OBVIOUS
    <2>4. job'.writes = W /\ job'.after = "reconciled"
      BY <1>6, <1>8, <2>1, <2>2, <2>3, JobFacts
    <2>5. PICK rec : rec = RunOutcome(run, "interrupted", "interrupted")
      OBVIOUS
    <2>6. EndPlan(W, run, rec)
      BY <1>1, <1>3, <1>5, <1>8, <2>1, <2>5, ReconcilePlanned
    <2>7. SameMarks
      BY <1>1, <1>2, SameDisk DEF Counts
    <2>8. EndPlan(W, run, rec)'
      BY <1>2, <1>3, <2>6, <2>7, PlacesKept DEF EndPlan
    <2>9. manifestFile'.active = run
      BY <1>1, <1>5
    <2>10. EndPlan(job.writes, manifestFile.active,
                   RunOutcome(manifestFile.active, "interrupted", "interrupted"))'
      BY <2>4, <2>5, <2>8, <2>9
    <2> QED
      BY <2>4, <2>10 DEF PlanInv, AfterRun
  <1>9. HandleInv'
    <2>1. Agree'
      BY <1>1 DEF Agree, AInv, Types, Store!TypeOK, Store!Manifest
    <2> QED
      BY <1>1, <1>2, <1>3, <2>1 DEF HandleInv
  <1>10. ShownInv'
    BY <1>1, <1>2 DEF ShownInv, EventThere
  <1> QED
    BY <1>4, <1>7, <1>8, <1>9, <1>10 DEF CInv

LEMMA NothingPublished ==
  ASSUME AInv, Counts, UNCHANGED <<transcriptLog, eventLog, manifestFile, history>>,
         job'.writes = <<>>, state # "starting" \/ manifestFile.active = NoRun
  PROVE  ShownInv'
  <1>1. \A i \in 1..Len(history) : EventThere(history[i])
    BY DEF AInv, CInv, ShownInv
  <1>2. ASSUME manifestFile.active = NoRun, NEW i \in 1..Len(history), history[i].ev.kind \in TerminalEvents
        PROVE  history[i].ev.run # NoRun
    BY <1>1, <1>2 DEF EventThere, AInv, CInv, DiskInv, KnownInv
  <1>3. \A i \in 1..Len(history) :
          history[i].ev.kind \in TerminalEvents => manifestFile.active # history[i].ev.run
    BY <1>2 DEF AInv, CInv, ShownInv
  <1> QED
    BY <1>1, <1>3 DEF ShownInv, EventThere

LEMMA LoadedKeeps ==
  ASSUME AInv, Loaded
  PROVE  CInv'
  <1>1. /\ UNCHANGED <<transcriptLog, eventLog, manifestFile, manifest, opened, history, records, crashes>>
        /\ job.writes = <<>> /\ job.after \in {"loaded", "reconciled"} /\ job' = NoJob
        /\ state' = IF CloseFacts(records) = 1 THEN "closed" ELSE "idle"
    BY DEF Loaded, Finishes, storeVars, counters
  <1>2. state = "starting" /\ opened /\ Agree /\ records = transcriptLog
    <2>1. state = "starting"
      BY <1>1 DEF AInv, IInv, JobInv, AfterRun, AfterLoad
    <2> QED
      BY <1>1, <2>1 DEF AInv, CInv, HandleInv
  <1>3. DiskInv' /\ SameMarks
    BY <1>1, SameDisk DEF Counts
  <1>4. Resting \/ Shut
    <2>1. Len(job.writes) = 0
      BY <1>1
    <2>2. CASE job.after = "loaded"
      <3>1. Resting \/ ClosePlan(job.writes)
        BY <2>2 DEF AInv, CInv, PlanInv
      <3> QED
        BY <2>1, <3>1 DEF ClosePlan
    <2>3. CASE job.after = "reconciled"
      <3>1. EndPlan(job.writes, manifestFile.active,
                    RunOutcome(manifestFile.active, "interrupted", "interrupted"))
        BY <2>3 DEF AInv, CInv, PlanInv
      <3> QED
        BY <2>1, <3>1 DEF EndPlan
    <2> QED
      BY <1>1, <2>2, <2>3
  <1>5. AtPlace'
    <2>1. state' = "closed" => Shut
      BY <1>1, <1>2, <1>4, CloseFound DEF Resting
    <2>2. state' = "idle" => Resting
      BY <1>1, <1>2, <1>4, CloseFound DEF Shut
    <2>3. state' \in {"closed", "idle"}
      BY <1>1
    <2> QED
      BY <1>3, <2>1, <2>2, <2>3, PlacesKept DEF AtPlace
  <1>6. PlanInv'
    BY <1>1, <1>5, NoJobPlan
  <1>7. HandleInv'
    BY <1>1, <1>2 DEF HandleInv, Agree
  <1>8. ShownInv'
    <2>1. manifestFile.active = NoRun
      BY <1>4 DEF Resting, Shut, AInv, CInv, DiskInv, CloseInv
    <2> QED
      BY <1>1, <2>1, NoJobFacts, NothingPublished DEF Counts
  <1> QED
    BY <1>3, <1>6, <1>7, <1>8 DEF CInv
-----------------------------------------------------------------------------
(***************************************************************************)
(* The mutex is left.                                                      *)
(***************************************************************************)
LEMMA FreesKeeps ==
  ASSUME AInv, UNCHANGED <<transcriptLog, eventLog, manifestFile, manifest, opened, history, crashes>>,
         job' = NoJob, opened, state # "starting", state' \notin {"down", "starting"},
         state' = "faulted" \/ Agree, AtPlace'
  PROVE  CInv'
  <1>1. DiskInv'
    BY SameDisk DEF Counts
  <1>2. PlanInv'
    BY NoJobPlan
  <1>3. HandleInv'
    BY DEF HandleInv, Agree
  <1>4. ShownInv'
    BY NoJobFacts, NothingPublished DEF Counts
  <1> QED
    BY <1>1, <1>2, <1>3, <1>4 DEF CInv

LEMMA OpenNow ==
  ASSUME AInv, state \in {"idle", "running", "closed"}
  PROVE  opened /\ Agree
  <1>1. job.after # "refused"
    BY DEF AInv, IInv, JobInv, AfterRun, AfterLoad
  <1> QED
    BY <1>1 DEF AInv, CInv, HandleInv

LEMMA PlacesUnmoved ==
  ASSUME AInv, Counts, UNCHANGED <<transcriptLog, eventLog, manifestFile>>
  PROVE  /\ \A run : Open(run) => Open(run)'
         /\ Resting => Resting'
         /\ Shut => Shut'
  BY SameDisk, PlacesKept

LEMMA CommandDoneKeeps ==
  ASSUME AInv, CommandDone
  PROVE  CInv'
  <1>1. PICK after \in {"done", "rejected", "started", "cancelled", "closed"} :
          /\ job.writes = <<>> /\ job.after = after /\ job' = NoJob
          /\ state' = CASE after = "started" -> "running"
                        [] after = "closed" -> "closed"
                        [] OTHER -> state
          /\ goroutine' = IF after = "started"
                          THEN [NoGoroutine EXCEPT !.pc = "loop", !.run = manifest.active]
                          ELSE goroutine
    BY DEF CommandDone, Finishes
  <1>2. /\ UNCHANGED <<transcriptLog, eventLog, manifestFile, manifest, opened, history, crashes>>
        /\ Counts
    BY DEF CommandDone, storeVars, Counts
  <1>3. state \in {"idle", "running", "closed"}
    BY <1>1 DEF AInv, IInv, JobInv, AfterRun, AfterLoad
  <1>4. opened /\ Agree
    BY <1>3, OpenNow
  <1>5. Len(job.writes) = 0
    BY <1>1
  <1>6. AtPlace'
    <2>1. CASE after = "started"
      <3>1. Open(manifestFile.active)
        BY <1>1, <1>5, <2>1 DEF AInv, CInv, PlanInv, StartPlan
      <3>2. PICK run : run = manifestFile.active
        OBVIOUS
      <3>3. Open(run)'
        BY <1>2, <3>1, <3>2, PlacesUnmoved
      <3>4. goroutine'.run = run /\ state' = "running"
        BY <1>1, <1>4, <2>1, <3>2 DEF NoGoroutine, Agree
      <3> QED
        BY <3>3, <3>4 DEF AtPlace
    <2>2. CASE after = "closed"
      <3>1. Shut
        BY <1>1, <1>5, <2>2 DEF AInv, CInv, PlanInv, ClosePlan
      <3>2. Shut' /\ state' = "closed"
        BY <1>1, <1>2, <2>2, <3>1, PlacesUnmoved
      <3> QED
        BY <3>2 DEF AtPlace
    <2>3. CASE after \in {"done", "rejected", "cancelled"}
      <3>1. AtPlace
        BY <1>1, <2>3 DEF AInv, CInv, PlanInv
      <3>2. state' = state /\ goroutine' = goroutine
        BY <1>1, <2>3
      <3> QED
        BY <1>2, <3>1, <3>2, PlacesUnmoved DEF AtPlace
    <2> QED
      BY <2>1, <2>2, <2>3
  <1>7. state' \in {"idle", "running", "closed"}
    BY <1>1, <1>3
  <1> QED
    BY <1>1, <1>2, <1>3, <1>4, <1>6, <1>7, FreesKeeps

LEMMA GoroutineGoesOnKeeps ==
  ASSUME AInv, GoroutineGoesOn
  PROVE  CInv'
  <1>1. PICK pc \in {"attempt", "sleep", "check", "calls", "tool", "exec"} :
          job.after = pc /\ job' = NoJob /\ goroutine' = Goto(pc)
    BY DEF GoroutineGoesOn, Finishes
  <1>2. /\ UNCHANGED <<transcriptLog, eventLog, manifestFile, manifest, opened, history, crashes, state>>
        /\ Counts
    BY DEF GoroutineGoesOn, storeVars, counters, Counts
  <1>3. state = "running" /\ job.after \in AfterRun \ {"settle"}
    BY <1>1 DEF AInv, IInv, JobInv, AfterRun, AfterLoad
  <1>4. PICK run : run = goroutine.run
    OBVIOUS
  <1>5. Open(run) /\ goroutine'.run = run
    BY <1>1, <1>3, <1>4, SameRun DEF AInv, CInv, PlanInv
  <1>6. Open(run)'
    BY <1>2, <1>5, PlacesUnmoved
  <1>7. AtPlace'
    BY <1>2, <1>3, <1>5, <1>6 DEF AtPlace
  <1> QED
    BY <1>1, <1>2, <1>3, <1>7, OpenNow, FreesKeeps

LEMMA FaultRunKeeps ==
  ASSUME AInv, FaultRun
  PROVE  CInv'
  <1>1. /\ UNCHANGED <<transcriptLog, eventLog, manifestFile, manifest, opened, history, crashes>>
        /\ job' = NoJob /\ state' = "faulted"
    BY DEF FaultRun, Fault, storeVars, counters
  <1>2. state = "running"
    BY DEF FaultRun, At, AInv, IInv, ActiveInv
  <1>3. AtPlace'
    BY <1>1 DEF AtPlace
  <1> QED
    BY <1>1, <1>2, <1>3, OpenNow, FreesKeeps

LEMMA SettleKeeps ==
  ASSUME AInv, Settle
  PROVE  CInv'
  <1> DEFINE entry == [cursor |-> cursor,
                       ev |-> TerminalEvent(goroutine.run, goroutine.outcome, goroutine.cause)]
  <1>1. /\ job.writes = <<>> /\ job.after = "settle" /\ job' = NoJob /\ state' = "idle"
        /\ history' = Append(history, entry)
        /\ UNCHANGED <<transcriptLog, eventLog, manifestFile, manifest, opened, crashes>>
    BY DEF Settle, Finishes, storeVars
  <1>2. state = "running"
    BY <1>1 DEF AInv, IInv, JobInv, AfterRun, AfterLoad
  <1>3. At("finish") /\ IsOutcome(OutcomeFact, goroutine.run)
    BY <1>1, SettlePlace DEF AInv
  <1>4. entry = SettleEntry
    <2>1. goroutine.outcome \in {"completed", "failed", "cancelled"}
      BY <1>3 DEF AInv, Types, PlaceInv
    <2>2. /\ OutcomeFact.run = goroutine.run /\ OutcomeFact.outcome = goroutine.outcome
          /\ OutcomeFact.cause = goroutine.cause
      BY DEF OutcomeFact, RunOutcome, Fact
    <2>3. Reported(goroutine.outcome) = goroutine.outcome
      BY <2>1 DEF Reported
    <2> QED
      BY <2>2, <2>3 DEF SettleEntry, ReportOf
  <1>5. entry.ev.kind \in TerminalEvents /\ entry.ev.run = goroutine.run
    <2>1. goroutine.run \in Nat /\ SettleEntry.ev = ReportOf(OutcomeFact)
      BY OutcomeFacts DEF AInv, SettleEntry
    <2> QED
      BY <1>3, <1>4, <2>1, ReportTyped
  <1> HIDE DEF entry
  <1>6. Resting /\ EventThere(entry)
    <2>1. /\ EndPlan(job.writes, goroutine.run, OutcomeFact)
          /\ Open(goroutine.run) \/ Untold(goroutine.run) \/ EventThere(SettleEntry)
      BY <1>1 DEF AInv, CInv, PlanInv
    <2>2. Len(job.writes) = 0
      BY <1>1
    <2>3. Resting
      BY <2>1, <2>2 DEF EndPlan
    <2> QED
      BY <1>4, <2>1, <2>3 DEF Resting, Open, Untold
  <1>7. DiskInv' /\ SameMarks
    BY <1>1, SameDisk DEF Counts
  <1>8. AtPlace'
    BY <1>1, <1>6, <1>7, PlacesKept DEF AtPlace
  <1>9. PlanInv'
    BY <1>1, <1>8, NoJobPlan
  <1>10. HandleInv'
    BY <1>1, <1>2, OpenNow DEF HandleInv, Agree
  <1>11. ShownInv'
    <2>1. /\ Len(history) \in Nat /\ Len(history') = Len(history) + 1
          /\ \A i \in 1..Len(history) : history'[i] = history[i]
          /\ history'[Len(history) + 1] = entry
      BY <1>1, AppendProperties DEF AInv, Types
    <2>2. \A i \in 1..Len(history') :
            (i \in 1..Len(history) /\ history'[i] = history[i]) \/ history'[i] = entry
      BY <2>1
    <2>3. \A i \in 1..Len(history) : EventThere(history[i])
      BY DEF AInv, CInv, ShownInv
    <2>4. \A i \in 1..Len(history') : \E j \in 1..Len(eventLog') : eventLog'[j] = history'[i]
      BY <1>1, <1>6, <2>2, <2>3 DEF EventThere
    <2>5. ASSUME NEW i \in 1..Len(history'), history'[i].ev.kind \in TerminalEvents
          PROVE  manifestFile'.active # history'[i].ev.run
      <3>1. PICK j \in 1..Len(eventLog') : eventLog'[j] = history'[i]
        BY <2>4
      <3>2. history'[i].ev.run # NoRun
        BY <1>7, <2>5, <3>1 DEF DiskInv, KnownInv
      <3> QED
        BY <1>1, <1>6, <3>2 DEF Resting
    <2>6. Len(job'.writes) = 0
      BY <1>1, NoJobFacts
    <2> QED
      BY <2>4, <2>5, <2>6 DEF ShownInv, EventThere
  <1> QED
    BY <1>7, <1>9, <1>10, <1>11 DEF CInv
-----------------------------------------------------------------------------
(***************************************************************************)
(* Steps that write nothing, or the budgets only.                          *)
(***************************************************************************)
Aside ==
  /\ UNCHANGED <<transcriptLog, eventLog, opened, state, history, records, cursor, job, crashes>>
  /\ SameCore /\ (Agree => Agree')
  /\ goroutine'.run = goroutine.run
  /\ goroutine.pc # "finish" \/ UNCHANGED goroutine

LEMMA AsideKeeps ==
  ASSUME AInv, Aside
  PROVE  CInv'
  <1>1. /\ UNCHANGED <<transcriptLog, eventLog, opened, state, history, records, cursor, job, crashes>>
        /\ goroutine'.run = goroutine.run
    BY DEF Aside
  <1>2. DiskInv' /\ SameMarks
    BY SameDisk DEF Aside, Counts
  <1>3. /\ manifestFile'.nextRun = manifestFile.nextRun
        /\ manifestFile'.active = manifestFile.active
    BY DEF Aside, SameCore, CoreIs
  <1>4. PICK run \in Nat, W \in Seq(StoreCall), n \in Nat :
          run = goroutine.run /\ W = job.writes /\ n = manifestFile.active
    BY OutcomeFacts DEF AInv, Types, JobType
  <1>5. /\ goroutine'.run = run /\ job'.writes = W /\ manifestFile'.active = n
        /\ job'.after = job.after /\ state' = state
    BY <1>1, <1>3, <1>4
  <1>6. /\ \A r : /\ Open(r)' <=> Open(r)
                  /\ Untold(r)' <=> Untold(r)
                  /\ Marked(r)' <=> Marked(r)
        /\ Resting' <=> Resting
        /\ Unmarked' <=> Unmarked
        /\ Untalked' <=> Untalked
        /\ Shut' <=> Shut
    BY <1>2, PlacesKept
  <1>7. AtPlace => AtPlace'
    BY <1>4, <1>5, <1>6 DEF AtPlace
  <1>8. StartPlan(W) => StartPlan(W)'
    <2>1. PICK k : k = manifestFile.nextRun + 1
      OBVIOUS
    <2>2. manifestFile'.nextRun + 1 = k
      BY <1>3, <2>1
    <2> QED
      BY <1>4, <1>5, <1>6, <2>1, <2>2 DEF StartPlan
  <1>9. ClosePlan(W) => ClosePlan(W)'
    BY <1>5, <1>6 DEF ClosePlan
  <1>10. ASSUME NEW r, NEW rec, EndPlan(W, r, rec) PROVE EndPlan(W, r, rec)'
    BY <1>1, <1>6, <1>10 DEF EndPlan, EndsAt
  <1>11. PlanInv'
    <2>1. job.after \in {"free", "cancelled", "rejected", "done"} => AtPlace' /\ AllQuiet(W, Len(W))
      BY <1>4, <1>7 DEF AInv, CInv, PlanInv
    <2>2. job.after = "started" => StartPlan(W)'
      BY <1>4, <1>8 DEF AInv, CInv, PlanInv
    <2>3. job.after \in AfterRun \ {"settle"} => Open(run)' /\ AllPlain(W, Len(W), run)
      BY <1>4, <1>6 DEF AInv, CInv, PlanInv
    <2>4. ASSUME job.after = "settle"
          PROVE  /\ EndPlan(W, run, OutcomeFact)'
                 /\ \A i \in 1..Len(W) : W[i].onError = "fault"
                 /\ Open(run)' \/ Untold(run)' \/ EventThere(SettleEntry)'
      <3>1. UNCHANGED goroutine
        BY <2>4, SettlePlace DEF Aside, At, AInv
      <3>2. PICK rec, e : rec = OutcomeFact /\ e = SettleEntry
        OBVIOUS
      <3>3. OutcomeFact' = rec /\ SettleEntry' = e
        BY <1>1, <3>1, <3>2 DEF OutcomeFact, SettleEntry
      <3>4. /\ EndPlan(W, run, rec)
            /\ \A i \in 1..Len(W) : W[i].onError = "fault"
            /\ Open(run) \/ Untold(run) \/ EventThere(e)
        BY <1>4, <2>4, <3>2 DEF AInv, CInv, PlanInv
      <3>5. EventThere(e) => EventThere(e)'
        BY <1>2 DEF SameMarks
      <3>6. EndPlan(W, run, rec)'
        BY <1>10, <3>4
      <3>7. EventThere(e)' => EventThere(SettleEntry)'
        BY <3>3
      <3> QED
        BY <1>6, <3>3, <3>4, <3>5, <3>6, <3>7
    <2>5. job.after = "closed" => ClosePlan(W)' /\ (state = "closed" => Shut')
      BY <1>4, <1>6, <1>9 DEF AInv, CInv, PlanInv
    <2>6. job.after = "loaded" => (Resting' /\ W = <<>>) \/ ClosePlan(W)'
      BY <1>4, <1>6, <1>9 DEF AInv, CInv, PlanInv
    <2>7. job.after = "reconciled" => EndPlan(W, n, RunOutcome(n, "interrupted", "interrupted"))'
      <3>1. PICK rec : rec = RunOutcome(n, "interrupted", "interrupted")
        OBVIOUS
      <3>2. job.after = "reconciled" => EndPlan(W, n, rec)
        BY <1>4, <3>1 DEF AInv, CInv, PlanInv
      <3> QED
        BY <1>10, <3>1, <3>2
    <2>8. job.after = "refused" => W = <<>>
      BY <1>4 DEF AInv, CInv, PlanInv
    <2>9. job.after = "reconciled" =>
            EndPlan(job.writes, manifestFile.active,
                    RunOutcome(manifestFile.active, "interrupted", "interrupted"))'
      BY <1>5, <2>7
    <2>10. job.after = "settle" => EndPlan(job.writes, goroutine.run, OutcomeFact)'
      BY <1>5, <2>4
    <2> QED
      BY <1>5, <2>1, <2>2, <2>3, <2>4, <2>5, <2>6, <2>8, <2>9, <2>10 DEF PlanInv
  <1>12. HandleInv'
    BY <1>1 DEF HandleInv, Aside, AInv, CInv
  <1>13. ShownInv'
    <2>1. \A i \in 1..Len(history) : \E j \in 1..Len(eventLog') : eventLog'[j] = history[i]
      BY SameDisk DEF Aside, Counts
    <2> QED
      BY <1>1, <1>3, <2>1 DEF ShownInv, EventThere, AInv, CInv
  <1> QED
    BY <1>2, <1>11, <1>12, <1>13 DEF CInv

LEMMA UntouchedAside ==
  ASSUME AInv, UNCHANGED <<storeVars, state, records, history, cursor, job, crashes>>,
         goroutine'.run = goroutine.run, goroutine.pc # "finish" \/ UNCHANGED goroutine
  PROVE  CInv'
  <1>1. Aside
    BY DEF Aside, storeVars, SameCore, CoreIs, Agree
  <1> QED
    BY <1>1, AsideKeeps

LEMMA MovesAside ==
  ASSUME AInv, NEW g, Moves(g), g.run = goroutine.run, goroutine.pc # "finish"
  PROVE  CInv'
  <1>1. /\ UNCHANGED <<storeVars, state, records, history, cursor, job, crashes>>
        /\ goroutine' = g
    BY DEF Moves, counters
  <1> QED
    BY <1>1, UntouchedAside

LEMMA MovesOn ==
  ASSUME Types,
         \/ \E pc : Moves(Goto(pc))
         \/ \E outcome, cause : Moves(Ending(outcome, cause))
         \/ \E cause : Moves(Erring(cause))
         \/ Moves(NextAttempt)
  PROVE  \E g : Moves(g) /\ g.run = goroutine.run
  <1>1. ASSUME NEW pc, Moves(Goto(pc)) PROVE \E g : Moves(g) /\ g.run = goroutine.run
    BY <1>1, SameRun
  <1>2. ASSUME NEW outcome, NEW cause, Moves(Ending(outcome, cause))
        PROVE  \E g : Moves(g) /\ g.run = goroutine.run
    BY <1>2, SameRun
  <1>3. ASSUME NEW cause, Moves(Erring(cause)) PROVE \E g : Moves(g) /\ g.run = goroutine.run
    BY <1>3, SameRun
  <1>4. CASE Moves(NextAttempt)
    BY <1>4, SameRun
  <1> QED
    BY <1>1, <1>2, <1>3, <1>4

LEMMA LocalStepsKeep ==
  ASSUME AInv,
         \/ LoopTop \/ Sleep \/ WakeUp \/ ResponseError \/ CallsDone
         \/ ProviderAnswers \/ ProviderFails \/ ProviderCancelled
  PROVE  CInv'
  <1>1. goroutine.pc # "finish"
    BY DEF LoopTop, Sleep, WakeUp, ResponseError, CallsDone, ProviderAnswers, ProviderFails,
           ProviderCancelled, At
  <1>2. Types
    BY DEF AInv
  <1>3. \E g : Moves(g) /\ g.run = goroutine.run
    <2>1. CASE LoopTop
      BY <1>2, <2>1, MovesOn DEF LoopTop
    <2>2. CASE Sleep \/ WakeUp
      BY <1>2, <2>2, MovesOn DEF Sleep, WakeUp
    <2>3. CASE ResponseError
      <3>1. \E outcome, cause : Moves(Ending(outcome, cause))
        BY <2>3 DEF ResponseError
      <3> QED
        BY <1>2, <3>1, MovesOn
    <2>4. CASE CallsDone
      <3>1. \/ \E outcome, cause : Moves(Ending(outcome, cause))
            \/ Moves(Goto("loop"))
        BY <2>4 DEF CallsDone
      <3> QED
        BY <1>2, <3>1, MovesOn
    <2>5. CASE ProviderAnswers
      <3>1. PICK a : Moves([Goto("answered") EXCEPT !.answer = a])
        BY <2>5 DEF ProviderAnswers
      <3>2. [Goto("answered") EXCEPT !.answer = a].run = goroutine.run
        BY <1>2, SameRun
      <3> QED
        BY <3>1, <3>2
    <2>6. CASE ProviderFails
      <3>1. \/ \E class : Moves(Erring(CauseOf(class)))
            \/ \E d : Moves([Goto("reserve_delay") EXCEPT !.delay = d])
        BY <2>6 DEF ProviderFails
      <3>2. ASSUME NEW class, Moves(Erring(CauseOf(class)))
            PROVE  \E g : Moves(g) /\ g.run = goroutine.run
        BY <1>2, <3>2, SameRun
      <3>3. ASSUME NEW d, Moves([Goto("reserve_delay") EXCEPT !.delay = d])
            PROVE  \E g : Moves(g) /\ g.run = goroutine.run
        <4>1. [Goto("reserve_delay") EXCEPT !.delay = d].run = goroutine.run
          BY <1>2, SameRun
        <4> QED
          BY <3>3, <4>1
      <3> QED
        BY <3>1, <3>2, <3>3
    <2>7. CASE ProviderCancelled
      BY <1>2, <2>7, SameRun DEF ProviderCancelled
    <2> QED
      BY <2>1, <2>2, <2>3, <2>4, <2>5, <2>6, <2>7
  <1> QED
    BY <1>1, <1>3, MovesAside

LEMMA ReservationKeeps ==
  ASSUME AInv, NEW counter, NEW amount, NEW granted, NEW exhausted, NEW broken,
         Reserve(counter, amount, granted, exhausted, broken), state = "running",
         goroutine.pc # "finish",
         \A g \in {granted, exhausted, broken} : g.run = goroutine.run
  PROVE  CInv'
  <1>1. /\ UNCHANGED <<state, records, history, cursor, job, crashes>>
        /\ goroutine'.run = goroutine.run
    BY DEF Reserve
  <1>2. opened /\ Agree
    BY OpenNow
  <1>3. CASE UNCHANGED storeVars
    BY <1>1, <1>3, UntouchedAside
  <1>4. ASSUME NEW result, Store!ReserveBudget(goroutine.run, counter, amount, result)
        PROVE  CInv'
    <2> DEFINE budgets == [manifest.budgets EXCEPT ![goroutine.run] = Store!Reserved(@, counter, amount)]
               n == [manifest EXCEPT !.budgets[goroutine.run] = Store!Reserved(@, counter, amount)]
    <2>0. Store!OnlyManifest(n, result)
      BY <1>4 DEF Store!ReserveBudget
    <2>1. PICK m : /\ Store!OnlyManifest(m, result)
                   /\ m.nextRun = manifest.nextRun /\ m.active = manifest.active
                   /\ m.closed = manifest.closed
      <3>1. manifest \in Store!Manifest
        BY DEF AInv, Types, Store!TypeOK
      <3>2. n = [manifest EXCEPT !.budgets = budgets]
        BY <3>1 DEF Store!Manifest
      <3> HIDE DEF budgets
      <3>3. n.nextRun = manifest.nextRun /\ n.active = manifest.active /\ n.closed = manifest.closed
        BY <3>1, <3>2 DEF Store!Manifest
      <3> HIDE DEF n
      <3> QED
        BY <2>0, <3>3
    <2>2. SameCore /\ Agree'
      BY <1>2, <2>1, ReplaceSame DEF Store!OnlyManifest
    <2>3. Aside
      BY <1>1, <2>1, <2>2 DEF Aside, Store!OnlyManifest
    <2> QED
      BY <2>3, AsideKeeps
  <1> QED
    BY <1>3, <1>4 DEF Reserve

LEMMA ReservationsKeep ==
  ASSUME AInv, ReserveCall \/ ReserveAttempt \/ ReserveDelay
  PROVE  CInv'
  <1>1. state = "running" /\ goroutine.pc # "finish"
    BY DEF ReserveCall, ReserveAttempt, ReserveDelay, At, AInv, IInv, ActiveInv
  <1>2. CASE ReserveCall
    <2> DEFINE g == [Goto("reserve_attempt") EXCEPT !.retry = 0, !.streamed = FALSE]
               h == Ending("failed", "budget_exhausted")
    <2>1. Reserve("logical_model_call", 0, g, h, h)
      BY <1>2 DEF ReserveCall
    <2>2. g.run = goroutine.run /\ h.run = goroutine.run
      BY SameRun DEF AInv
    <2> HIDE DEF g, h
    <2> QED
      BY <1>1, <2>1, <2>2, ReservationKeeps
  <1>3. CASE ReserveAttempt
    BY <1>1, <1>3, SameRun, ReservationKeeps DEF ReserveAttempt, AInv
  <1>4. CASE ReserveDelay
    BY <1>1, <1>4, SameRun, ReservationKeeps DEF ReserveDelay, AInv
  <1> QED
    BY <1>2, <1>3, <1>4
-----------------------------------------------------------------------------
(***************************************************************************)
(* Jobs are filled while the mutex is free and the session is at its place. *)
(***************************************************************************)
Silent(W) == \A i \in 1..Len(W) : W[i].op = "emit" => W[i].ev.kind \notin TerminalEvents

LEMMA FieldsOfWrites ==
  /\ \A recs, e : AppendW(recs, e).recs = recs
  /\ \A ev, e : EmitW(ev, e).ev = ev /\ PersistW(ev, e).ev = ev
  /\ \A ev, e : PersistW(ev, e).op = "persist"
  BY DEF Write, AppendW, EmitW, PersistW

LEMMA CommandJobFacts ==
  ASSUME NEW cmd, NEW writes, NEW after
  PROVE  CommandJob(cmd, writes, after).writes = writes /\ CommandJob(cmd, writes, after).after = after
  BY DEF CommandJob

\* Where the session is when a job begins.
LEMMA PlaceNow ==
  ASSUME AInv, LockFree, NEW j, Begins(j)
  PROVE  /\ AtPlace /\ Counts /\ UNCHANGED <<transcriptLog, eventLog, manifestFile, state>>
         /\ SameMarks /\ job' = j
  <1>1. Counts /\ UNCHANGED <<transcriptLog, eventLog, manifestFile, state>> /\ job' = j
    BY DEF Begins, counters, storeVars, Counts
  <1>2. SameMarks
    BY <1>1, SameDisk
  <1>3. job.after = "free"
    BY NoJobFacts DEF LockFree
  <1> QED
    BY <1>1, <1>2, <1>3 DEF AInv, CInv, PlanInv

LEMMA BeginsKeeps ==
  ASSUME AInv, LockFree, NEW j, Begins(j), PlanInv', Silent(j.writes),
         state \in {"idle", "running", "closed"}
  PROVE  CInv'
  <1>1. /\ UNCHANGED <<storeVars, state, records, history, cursor, crashes>> /\ job' = j
    BY DEF Begins, counters
  <1>2. DiskInv'
    BY <1>1, SameDisk DEF storeVars, Counts
  <1>3. HandleInv'
    BY <1>1, OpenNow DEF HandleInv, storeVars, Agree
  <1>4. ShownInv'
    <2>1. \A i \in 1..Len(history) : history[i].ev.kind \in TerminalEvents
            => manifestFile.active # history[i].ev.run
      BY DEF AInv, CInv, ShownInv
    <2>2. \A i \in 1..Len(history) : \E k \in 1..Len(eventLog') : eventLog'[k] = history[i]
      BY <1>1, SameDisk DEF storeVars, Counts
    <2>3. /\ history' = history /\ manifestFile' = manifestFile /\ job' = j
      BY <1>1 DEF storeVars
    <2> QED
      BY <2>1, <2>2, <2>3 DEF ShownInv, EventThere, Silent
  <1> QED
    BY <1>2, <1>3, <1>4 DEF CInv

\* A command that begins no run and closes no session.
LEMMA QuietBegins ==
  ASSUME AInv, LockFree, NEW j, Begins(j), goroutine' = goroutine,
         state \in {"idle", "running", "closed"},
         j.after \in {"cancelled", "rejected", "done"}, AllQuiet(j.writes, Len(j.writes))
  PROVE  CInv'
  <1>1. AtPlace /\ UNCHANGED state /\ SameMarks /\ job' = j
    BY PlaceNow
  <1>2. PICK run : run = goroutine.run
    OBVIOUS
  <1>3. AtPlace'
    BY <1>1, <1>2, PlacesKept DEF AtPlace
  <1>4. PlanInv'
    BY <1>1, <1>3 DEF PlanInv, AfterRun, AllQuiet
  <1>5. Silent(j.writes)
    BY DEF Silent, AllQuiet, QuietWrite, TerminalEvents
  <1> QED
    BY <1>4, <1>5, BeginsKeeps

\* A mutex section of the run before its end.
LEMMA PlainBegins ==
  ASSUME AInv, LockFree, NEW j, Begins(j), state = "running", goroutine'.run = goroutine.run,
         j.after \in AfterRun \ {"settle"}, AllPlain(j.writes, Len(j.writes), goroutine.run)
  PROVE  CInv'
  <1>1. AtPlace /\ UNCHANGED state /\ SameMarks /\ job' = j
    BY PlaceNow
  <1>2. PICK run, W : run = goroutine.run /\ W = j.writes
    OBVIOUS
  <1>3. goroutine'.run = run /\ job'.writes = W /\ AllPlain(W, Len(W), run)
    BY <1>1, <1>2
  <1>4. Open(run)'
    BY <1>1, <1>2, PlacesKept DEF AtPlace
  <1>5. PlanInv'
    BY <1>1, <1>3, <1>4 DEF PlanInv, AfterRun, AllPlain
  <1>6. Silent(j.writes)
    BY DEF Silent, AllPlain, PlainWrite, TerminalEvents, RunEvents
  <1> QED
    BY <1>5, <1>6, BeginsKeeps

\* One or two writes.
LEMMA OneOf == ASSUME NEW a PROVE Len(<<a>>) = 1 /\ <<a>>[1] = a
  OBVIOUS

LEMMA TwoOf == ASSUME NEW a, NEW b PROVE Len(<<a, b>>) = 2 /\ <<a, b>>[1] = a /\ <<a, b>>[2] = b
  OBVIOUS

LEMMA PlainOnes ==
  ASSUME NEW run
  PROVE  /\ \A a : PlainWrite(a, run) => AllPlain(<<a>>, Len(<<a>>), run)
         /\ \A a, b : PlainWrite(a, run) /\ PlainWrite(b, run) => AllPlain(<<a, b>>, Len(<<a, b>>), run)
         /\ \A e : \A kind \in RunEvents : PlainWrite(EmitW(Ev(kind, run), e), run)
         /\ \A rec, e : Plain(rec, run) => PlainWrite(AppendW(<<rec>>, e), run)
  <1>1. ASSUME NEW a, PlainWrite(a, run) PROVE AllPlain(<<a>>, Len(<<a>>), run)
    <2>1. PICK W : W = <<a>>
      OBVIOUS
    <2>2. Len(W) = 1 /\ W[1] = a
      BY <2>1, OneOf
    <2>3. AllPlain(W, Len(W), run)
      BY <1>1, <2>2 DEF AllPlain
    <2> QED
      BY <2>1, <2>3
  <1>2. ASSUME NEW a, NEW b, PlainWrite(a, run), PlainWrite(b, run)
        PROVE  AllPlain(<<a, b>>, Len(<<a, b>>), run)
    <2>1. PICK W : W = <<a, b>>
      OBVIOUS
    <2>2. Len(W) = 2 /\ W[1] = a /\ W[2] = b
      BY <2>1, TwoOf
    <2>3. AllPlain(W, Len(W), run)
      BY <1>2, <2>2 DEF AllPlain
    <2> QED
      BY <2>1, <2>3
  <1>3. ASSUME NEW kind \in RunEvents, NEW e PROVE PlainWrite(EmitW(Ev(kind, run), e), run)
    <2>1. Ev(kind, run).kind = kind /\ Ev(kind, run).run = run
      BY DEF Ev
    <2> QED
      BY <2>1, WriteFields, FieldsOfWrites DEF PlainWrite
  <1>4. ASSUME NEW rec, NEW e, Plain(rec, run) PROVE PlainWrite(AppendW(<<rec>>, e), run)
    <2>1. PICK w : w = AppendW(<<rec>>, e)
      OBVIOUS
    <2>2. w.op = "append" /\ w.recs = <<rec>>
      BY <2>1, WriteFields, FieldsOfWrites
    <2>3. Len(w.recs) = 1 /\ w.recs[1] = rec
      BY <2>2, OneOf
    <2>4. PlainWrite(w, run)
      BY <1>4, <2>2, <2>3 DEF PlainWrite
    <2> QED
      BY <2>1, <2>4
  <1> QED
    BY <1>1, <1>2, <1>3, <1>4

LEMMA PlainRecords ==
  ASSUME NEW run
  PROVE  /\ \A kind \in Kinds \ {"run_outcome", "session_closed"} : Plain(Fact(kind, run), run)
         /\ \A id : Plain(ToolCall(run, id), run)
         /\ \A id, outcome : Plain(ToolResult(run, id, outcome), run)
  BY DEF Plain, Fact, ToolCall, ToolResult

LEMMA QuietOnes ==
  ASSUME NEW kind \in {"warning", "session_resumed"}, NEW e
  PROVE  /\ LET W == <<Write("record", "return")>> IN AllQuiet(W, Len(W))
         /\ LET W == <<Write("record", "return"), EmitW(Ev(kind, NoRun), e)>> IN AllQuiet(W, Len(W))
  <1>1. QuietWrite(Write("record", "return"))
    BY WriteFields DEF QuietWrite
  <1>2. QuietWrite(EmitW(Ev(kind, NoRun), e))
    <2>1. Ev(kind, NoRun).kind = kind /\ Ev(kind, NoRun).run = NoRun
      BY DEF Ev
    <2> QED
      BY <2>1, WriteFields, FieldsOfWrites DEF QuietWrite
  <1>3. ASSUME NEW a, QuietWrite(a) PROVE AllQuiet(<<a>>, Len(<<a>>))
    <2>1. PICK W : W = <<a>>
      OBVIOUS
    <2>2. Len(W) = 1 /\ W[1] = a
      BY <2>1, OneOf
    <2>3. AllQuiet(W, Len(W))
      BY <1>3, <2>2 DEF AllQuiet
    <2> QED
      BY <2>1, <2>3
  <1>4. ASSUME NEW a, NEW b, QuietWrite(a), QuietWrite(b) PROVE AllQuiet(<<a, b>>, Len(<<a, b>>))
    <2>1. PICK W : W = <<a, b>>
      OBVIOUS
    <2>2. Len(W) = 2 /\ W[1] = a /\ W[2] = b
      BY <2>1, TwoOf
    <2>3. AllQuiet(W, Len(W))
      BY <1>4, <2>2 DEF AllQuiet
    <2> QED
      BY <2>1, <2>3
  <1> QED
    BY <1>1, <1>2, <1>3, <1>4

LEMMA QuietCommandsKeep ==
  ASSUME AInv, NEW cmd, SubmitSensitive(cmd) \/ Cancel(cmd) \/ Resume(cmd)
  PROVE  CInv'
  <1>1. ASSUME NEW W, NEW after \in {"cancelled", "rejected", "done"}, AllQuiet(W, Len(W)),
               Begins(CommandJob(cmd, W, after)), LockFree, goroutine' = goroutine,
               state \in {"idle", "running", "closed"}
        PROVE  CInv'
    <2>1. PICK j : j = CommandJob(cmd, W, after)
      OBVIOUS
    <2>2. Begins(j) /\ j.writes = W /\ j.after = after
      BY <1>1, <2>1, CommandJobFacts
    <2> QED
      BY <1>1, <2>2, QuietBegins
  <1> DEFINE one == <<Write("record", "return")>>
             warn == <<Write("record", "return"), EmitW(Ev("warning", NoRun), "fault")>>
             back == <<Write("record", "return"), EmitW(Ev("session_resumed", NoRun), "fault")>>
  <1>2. AllQuiet(one, Len(one)) /\ AllQuiet(warn, Len(warn)) /\ AllQuiet(back, Len(back))
    BY QuietOnes
  <1>3. /\ LockFree /\ goroutine' = goroutine /\ state \in {"idle", "running", "closed"}
        /\ \/ Begins(CommandJob(cmd, warn, "rejected")) \/ Begins(CommandJob(cmd, one, "cancelled"))
           \/ Begins(CommandJob(cmd, back, "done"))
    BY DEF SubmitSensitive, Cancel, Resume, Takes
  <1> HIDE DEF one, warn, back
  <1> QED
    BY <1>1, <1>2, <1>3

\* The goroutine takes the mutex for plain writes.
LEMMA RunBegins ==
  ASSUME AInv, LockFree, goroutine.pc # "none", goroutine'.run = goroutine.run,
         NEW W, AllPlain(W, Len(W), goroutine.run), NEW after \in AfterRun \ {"settle"},
         Begins(Job(W, after))
  PROVE  CInv'
  <1>1. PICK j : j = Job(W, after)
    OBVIOUS
  <1>2. j.writes = W /\ j.after = after /\ Begins(j)
    BY <1>1, JobFacts
  <1>3. state = "running"
    BY DEF AInv, IInv, ActiveInv
  <1> QED
    BY <1>2, <1>3, PlainBegins

\* Steps that change the partial text besides the locals.
LEMMA LocalAside ==
  ASSUME AInv, UNCHANGED <<storeVars, state, records, history, cursor, job, counters>>,
         goroutine'.run = goroutine.run, goroutine.pc # "finish"
  PROVE  CInv'
  BY UntouchedAside DEF counters

LEMMA StreamsKeep ==
  ASSUME AInv, StreamDelta \/ RetryStep \/ Answered
  PROVE  CInv'
  <1>1. Types
    BY DEF AInv
  <1> DEFINE delta == <<EmitW(Ev("assistant_delta", goroutine.run), "fail_stream")>>
             retry == <<EmitW(Ev("retry_scheduled", goroutine.run), "fail_stream")>>
  <1>2. /\ AllPlain(delta, Len(delta), goroutine.run)
        /\ AllPlain(retry, Len(retry), goroutine.run)
    BY PlainOnes DEF RunEvents
  <1>3. LockFree /\ goroutine.pc \notin {"none", "finish"}
    BY DEF StreamDelta, RetryStep, Answered, At
  <1>4. \/ Moves(Goto("check"))
        \/ /\ \E b : goroutine' = [goroutine EXCEPT !.streamed = b]
           /\ \/ Begins(Job(delta, "attempt")) \/ Begins(Job(delta, "check"))
              \/ Begins(Job(retry, "sleep"))
    BY DEF StreamDelta, RetryStep, Answered
  <1>5. CASE Moves(Goto("check"))
    BY <1>1, <1>3, <1>5, SameRun, MovesAside
  <1>6. CASE \E b : goroutine' = [goroutine EXCEPT !.streamed = b]
    <2>1. goroutine'.run = goroutine.run
      BY <1>1, <1>6, SameRun
    <2> HIDE DEF delta, retry
    <2>2. CASE Begins(Job(delta, "attempt"))
      BY <1>2, <1>3, <2>1, <2>2, RunBegins DEF AfterRun
    <2>3. CASE Begins(Job(delta, "check"))
      BY <1>2, <1>3, <2>1, <2>3, RunBegins DEF AfterRun
    <2>4. CASE Begins(Job(retry, "sleep"))
      BY <1>2, <1>3, <2>1, <2>4, RunBegins DEF AfterRun
    <2>5. CASE Moves(Goto("check"))
      BY <1>5, <2>5
    <2> QED
      BY <1>4, <2>2, <2>3, <2>4, <2>5
  <1> QED
    BY <1>4, <1>5, <1>6

LEMMA CheckKeeps ==
  ASSUME AInv, CheckResponse
  PROVE  CInv'
  <1>1. Types
    BY DEF AInv
  <1>2. LockFree /\ goroutine.pc \notin {"none", "finish"}
    BY DEF CheckResponse, At
  <1> DEFINE W == <<AppendW(<<Fact("assistant_block", goroutine.run)>>, "fail_run"),
                    EmitW(Ev("assistant_text", goroutine.run), "fail_run")>>
  <1>3. AllPlain(W, Len(W), goroutine.run)
    <2>1. Plain(Fact("assistant_block", goroutine.run), goroutine.run)
      BY PlainRecords DEF Kinds
    <2> QED
      BY <2>1, PlainOnes DEF RunEvents
  <1>4. \/ \E outcome, cause : Moves(Ending(outcome, cause))
        \/ Moves(Goto("calls"))
        \/ /\ \/ \E outcome, cause : goroutine' = Ending(outcome, cause)
              \/ goroutine' = Goto("calls")
           /\ UNCHANGED <<storeVars, state, records, history, cursor, job, counters>>
        \/ Begins(Job(W, "calls")) /\ UNCHANGED goroutine
    BY DEF CheckResponse
  <1> HIDE DEF W
  <1>5. CASE \/ \E outcome, cause : Moves(Ending(outcome, cause))
             \/ Moves(Goto("calls"))
    <2>1. \E g : Moves(g) /\ g.run = goroutine.run
      BY <1>1, <1>5, MovesOn
    <2> QED
      BY <1>2, <2>1, MovesAside
  <1>6. CASE /\ \/ \E outcome, cause : goroutine' = Ending(outcome, cause)
                \/ goroutine' = Goto("calls")
             /\ UNCHANGED <<storeVars, state, records, history, cursor, job, counters>>
    <2>1. goroutine'.run = goroutine.run
      BY <1>1, <1>6, SameRun
    <2> QED
      BY <1>2, <1>6, <2>1, LocalAside
  <1>7. CASE Begins(Job(W, "calls")) /\ UNCHANGED goroutine
    BY <1>2, <1>3, <1>7, RunBegins DEF AfterRun
  <1> QED
    BY <1>4, <1>5, <1>6, <1>7

LEMMA RecordCallsKeeps ==
  ASSUME AInv, RecordCalls
  PROVE  CInv'
  <1>1. Types
    BY DEF AInv
  <1>2. LockFree /\ goroutine.pc \notin {"none", "finish"}
    BY DEF RecordCalls, At
  <1> DEFINE calls == goroutine.answer.calls
             recs == [i \in DOMAIN calls |-> ToolCall(goroutine.run, calls[i])]
             w == AppendW(recs, "fault_run")
  <1>3. PlainWrite(w, goroutine.run)
    <2>0. calls \in Seq(CallIDs)
      BY <1>1 DEF Types, GoroutineType, Answer
    <2>1. DOMAIN calls = 1..Len(calls) /\ Len(calls) \in Nat
      BY <2>0
    <2>2. Len(recs) = Len(calls)
      BY <2>1
    <2>3. \A i \in 1..Len(recs) : Plain(recs[i], goroutine.run)
      BY <2>1, <2>2, PlainRecords
    <2> HIDE DEF recs
    <2>4. w.op = "append" /\ w.recs = recs
      BY WriteFields, FieldsOfWrites
    <2> QED
      BY <2>3, <2>4 DEF PlainWrite
  <1>4. \/ \E outcome, cause : Moves(Ending(outcome, cause))
        \/ /\ goroutine' = [goroutine EXCEPT !.rest = calls, !.answer = NoAnswer,
                              !.streamed = FALSE, !.stopped = FALSE, !.blocked = FALSE]
           /\ Begins(Job(<<w>>, "tool"))
    BY DEF RecordCalls
  <1> HIDE DEF w
  <1>5. CASE \E outcome, cause : Moves(Ending(outcome, cause))
    <2>1. \E g : Moves(g) /\ g.run = goroutine.run
      BY <1>1, <1>5, MovesOn
    <2> QED
      BY <1>2, <2>1, MovesAside
  <1>6. CASE /\ goroutine' = [goroutine EXCEPT !.rest = calls, !.answer = NoAnswer,
                                !.streamed = FALSE, !.stopped = FALSE, !.blocked = FALSE]
             /\ Begins(Job(<<w>>, "tool"))
    <2>1. goroutine'.run = goroutine.run
      BY <1>1, <1>6 DEF Types, GoroutineType
    <2>2. PICK W : W = <<w>>
      OBVIOUS
    <2>3. AllPlain(W, Len(W), goroutine.run)
      BY <1>3, <2>2, PlainOnes
    <2> QED
      BY <1>2, <1>6, <2>1, <2>2, <2>3, RunBegins DEF AfterRun
  <1> QED
    BY <1>4, <1>5, <1>6

LEMMA ToolStepsKeep ==
  ASSUME AInv, NextTool \/ ExecuteTool
  PROVE  CInv'
  <1>1. Types
    BY DEF AInv
  <1>2. LockFree /\ goroutine.pc \notin {"none", "finish"}
    BY DEF NextTool, ExecuteTool, At
  <1>3. ASSUME NEW outcome, FinishesTool(outcome)
        PROVE  CInv'
    <2> DEFINE v == AppendW(<<ToolResult(goroutine.run, Head(goroutine.rest), outcome)>>, "fault_run")
               w == EmitW(Ev("tool_finished", goroutine.run), "fault_run")
    <2>1. PlainWrite(v, goroutine.run) /\ PlainWrite(w, goroutine.run)
      BY PlainOnes, PlainRecords DEF RunEvents
    <2>2. Begins(Job(<<v, w>>, "tool"))
      BY <1>3 DEF FinishesTool
    <2>3. goroutine'.run = goroutine.run
      BY <1>1, <1>3 DEF FinishesTool, Types, GoroutineType
    <2> HIDE DEF v, w
    <2>4. PICK W : W = <<v, w>>
      OBVIOUS
    <2>5. AllPlain(W, Len(W), goroutine.run)
      BY <2>1, <2>4, PlainOnes
    <2> QED
      BY <1>2, <2>2, <2>3, <2>4, <2>5, RunBegins DEF AfterRun
  <1> DEFINE started == EmitW(Ev("tool_started", goroutine.run), "fault")
  <1>4. PlainWrite(started, goroutine.run)
    BY PlainOnes DEF RunEvents
  <1>5. (\E outcome : FinishesTool(outcome)) \/ (Begins(Job(<<started>>, "exec")) /\ UNCHANGED goroutine)
    BY DEF NextTool, ExecuteTool
  <1> HIDE DEF started
  <1>6. CASE Begins(Job(<<started>>, "exec")) /\ UNCHANGED goroutine
    <2>1. PICK W : W = <<started>>
      OBVIOUS
    <2>2. AllPlain(W, Len(W), goroutine.run)
      BY <1>4, <2>1, PlainOnes
    <2> QED
      BY <1>2, <1>6, <2>1, <2>2, RunBegins DEF AfterRun
  <1> QED
    BY <1>3, <1>5, <1>6

LEMMA JoinPlaces ==
  ASSUME NEW p \in Seq(StoreCall), NEW q \in Seq(StoreCall)
  PROVE  \A i \in 1..Len(p \o q) :
           \/ i \in 1..Len(p) /\ (p \o q)[i] = p[i]
           \/ \E k \in 1..Len(q) : i = Len(p) + k /\ (p \o q)[i] = q[k]
  <1>1. PICK m \in Nat, n \in Nat : m = Len(p) /\ n = Len(q) /\ Len(p \o q) = m + n
    BY JoinFacts
  <1>2. /\ \A i \in 1..m : (p \o q)[i] = p[i]
        /\ \A i \in 1..n : (p \o q)[m + i] = q[i]
    BY <1>1, JoinFacts
  <1>3. ASSUME NEW i \in 1..(m + n)
        PROVE  \/ i \in 1..m /\ (p \o q)[i] = p[i]
               \/ \E k \in 1..n : i = m + k /\ (p \o q)[i] = q[k]
    <2>1. CASE i \in 1..m
      BY <1>2, <2>1
    <2>2. CASE i \notin 1..m
      <3>1. i - m \in 1..n /\ i = m + (i - m)
        BY <2>2
      <3> QED
        BY <1>2, <3>1
    <2> QED
      BY <2>1, <2>2
  <1> QED
    BY <1>1, <1>3

LEMMA SubmitKeeps ==
  ASSUME AInv, NEW cmd, Submit(cmd)
  PROVE  CInv'
  <1> DEFINE start == Write("begin", "fault")
             message == AppendW(<<Fact("user_message", NextRun)>>, "fault")
             instructions == AppendW(<<Fact("instructions_loaded", NextRun)>>, "fault")
             event == EmitW(Ev("run_started", NextRun), "fault")
             first == <<start, message>>
             more == IF HasInstructions THEN <<instructions>> ELSE <<>>
             last == <<event>>
             p == first \o more
             joined == p \o last
  <1>1. /\ Begins(CommandJob(cmd, first \o more \o last, "started")) /\ LockFree /\ state = "idle"
        /\ UNCHANGED goroutine
    BY DEF Submit, Takes
  <1>2. PICK run \in Nat : run = NextRun /\ run = manifestFile.nextRun + 1
    <2>1. manifestFile.nextRun \in Nat
      BY DEF AInv, Types, Store!TypeOK, Store!Manifest
    <2> QED
      BY <1>1, <2>1, OpenNow DEF NextRun, Agree
  <1>3. /\ PlainWrite(message, run) /\ PlainWrite(instructions, run) /\ PlainWrite(event, run)
        /\ start.op = "begin"
    BY <1>2, PlainOnes, PlainRecords, WriteFields DEF RunEvents, Kinds
  <1>4. /\ start \in StoreCall /\ message \in StoreCall /\ instructions \in StoreCall
        /\ event \in StoreCall
    <2>1. Fact("user_message", run) \in Record /\ Fact("instructions_loaded", run) \in Record
      BY RecordsTyped DEF Kinds
    <2>2. <<Fact("user_message", run)>> \in Seq(Record)
          /\ <<Fact("instructions_loaded", run)>> \in Seq(Record)
      BY <2>1, OneRecord
    <2>3. Ev("run_started", run) \in Event
      BY EventsTyped DEF RunEvents
    <2> QED
      BY <1>2, <2>2, <2>3, CallsTyped DEF WriteOp, OnError
  <1> HIDE DEF start, message, instructions, event
  <1>5. /\ first \in Seq(StoreCall) /\ Len(first) = 2 /\ first[1] = start /\ first[2] = message
    BY <1>4, TwoOf, SomeCalls
  <1>6. /\ more \in Seq(StoreCall)
        /\ \A i \in 1..Len(more) : more[i] = instructions
    <2>1. CASE HasInstructions
      BY <1>4, <2>1, OneOf, OneCall
    <2>2. CASE ~ HasInstructions
      <3>1. more = <<>>
        BY <2>2
      <3> QED
        BY <3>1
    <2> QED
      BY <2>1, <2>2
  <1>7. last \in Seq(StoreCall) /\ Len(last) = 1 /\ last[1] = event
    BY <1>4, OneOf, OneCall
  <1> HIDE DEF first, more, last
  <1>8. /\ p \in Seq(StoreCall)
        /\ Len(p) = Len(first) + Len(more) /\ Len(more) \in Nat
        /\ \A i \in 1..Len(first) : p[i] = first[i]
        /\ \A i \in 1..Len(p) : \/ i \in 1..Len(first) /\ p[i] = first[i]
                                \/ \E k \in 1..Len(more) : i = Len(first) + k /\ p[i] = more[k]
    <2>1. first \in Seq(StoreCall) /\ more \in Seq(StoreCall)
      BY <1>5, <1>6
    <2>2. /\ p \in Seq(StoreCall) /\ Len(p) = Len(first) + Len(more) /\ Len(more) \in Nat
          /\ \A i \in 1..Len(first) : p[i] = first[i]
      BY <2>1, JoinFacts
    <2>3. \A i \in 1..Len(p) : \/ i \in 1..Len(first) /\ p[i] = first[i]
                              \/ \E k \in 1..Len(more) : i = Len(first) + k /\ p[i] = more[k]
      BY <2>1, JoinPlaces
    <2> HIDE DEF p
    <2> QED
      BY <2>2, <2>3
  <1> HIDE DEF p
  <1>9. /\ Len(p) \in Nat /\ Len(p) >= 2 /\ p[1] = start
        /\ \A i \in 2..Len(p) : PlainWrite(p[i], run)
    <2>1. Len(first) = 2 /\ Len(more) \in Nat
      BY <1>5, <1>8
    <2>2. Len(p) \in Nat /\ Len(p) >= 2 /\ p[1] = start
      BY <1>5, <1>8, <2>1
    <2>3. ASSUME NEW i \in 2..Len(p) PROVE PlainWrite(p[i], run)
      <3>1. i \in 1..Len(p) /\ i # 1
        BY <2>2
      <3>2. CASE i \in 1..2 /\ p[i] = first[i]
        <4>1. i = 2
          BY <3>1, <3>2
        <4> QED
          BY <1>3, <1>5, <3>2, <4>1
      <3>3. CASE \E k \in 1..Len(more) : p[i] = more[k]
        BY <1>3, <1>6, <3>3
      <3> QED
        BY <1>8, <2>1, <3>1, <3>2, <3>3
    <2> QED
      BY <2>2, <2>3
  <1>10. /\ joined \in Seq(StoreCall) /\ Len(joined) = Len(p) + Len(last)
         /\ \A i \in 1..Len(p) : joined[i] = p[i]
         /\ \A i \in 1..Len(joined) : \/ i \in 1..Len(p) /\ joined[i] = p[i]
                                      \/ \E k \in 1..Len(last) : i = Len(p) + k /\ joined[i] = last[k]
    <2>1. p \in Seq(StoreCall) /\ last \in Seq(StoreCall)
      BY <1>7, <1>8
    <2>2. /\ joined \in Seq(StoreCall) /\ Len(joined) = Len(p) + Len(last)
          /\ \A i \in 1..Len(p) : joined[i] = p[i]
      BY <2>1, JoinFacts
    <2>3. \A i \in 1..Len(joined) : \/ i \in 1..Len(p) /\ joined[i] = p[i]
                                    \/ \E k \in 1..Len(last) : i = Len(p) + k /\ joined[i] = last[k]
      BY <2>1, JoinPlaces
    <2> HIDE DEF joined
    <2> QED
      BY <2>2, <2>3
  <1> HIDE DEF joined
  <1>11. /\ Len(joined) > 0 /\ joined[1].op = "begin"
         /\ \A i \in 2..Len(joined) : PlainWrite(joined[i], run)
    <2>1. /\ Len(joined) = Len(p) + 1
          /\ \A i \in 1..Len(p) : joined[i] = p[i]
          /\ \A i \in 1..Len(joined) : \/ i \in 1..Len(p) /\ joined[i] = p[i]
                                       \/ \E k \in 1..1 : i = Len(p) + k /\ joined[i] = last[k]
      BY <1>7, <1>10
    <2>2. Len(joined) > 0 /\ joined[1].op = "begin"
      BY <1>3, <1>9, <2>1
    <2>3. ASSUME NEW i \in 2..Len(joined) PROVE PlainWrite(joined[i], run)
      <3>1. i \in 1..Len(joined) /\ i # 1
        BY <1>9, <2>1
      <3>2. CASE i \in 1..Len(p) /\ joined[i] = p[i]
        <4>1. i \in 2..Len(p)
          BY <1>9, <3>1, <3>2
        <4> QED
          BY <1>9, <3>2, <4>1
      <3>3. CASE \E k \in 1..1 : joined[i] = last[k]
        BY <1>3, <1>7, <3>3
      <3> QED
        BY <2>1, <3>1, <3>2, <3>3
    <2> QED
      BY <2>2, <2>3
  <1>12. PICK W, j : /\ W = joined /\ j = CommandJob(cmd, W, "started")
                    /\ Len(W) > 0 /\ W[1].op = "begin"
                    /\ \A i \in 2..Len(W) : PlainWrite(W[i], run)
    BY <1>11
  <1>13. j.writes = W /\ j.after = "started" /\ Begins(j)
    <2>1. first \o more \o last = W
      BY <1>12 DEF joined, p
    <2>2. Begins(CommandJob(cmd, W, "started"))
      BY <1>1, <2>1
    <2> QED
      BY <1>12, <2>2, CommandJobFacts
  <1>14. /\ AtPlace /\ UNCHANGED <<manifestFile, state>> /\ SameMarks /\ job' = j
    BY <1>1, <1>13, PlaceNow
  <1>15. Resting'
    BY <1>1, <1>14, PlacesKept DEF AtPlace
  <1>16. PlanInv'
    <2>1. manifestFile'.nextRun + 1 = run
      BY <1>2, <1>14
    <2>2. StartPlan(W)'
      BY <1>12, <1>15, <2>1 DEF StartPlan
    <2> QED
      BY <1>13, <1>14, <2>2 DEF PlanInv, AfterRun
  <1>17. Silent(W)
    <2>1. ASSUME NEW i \in 1..Len(W), W[i].op = "emit" PROVE W[i].ev.kind \notin TerminalEvents
      <3>1. i # 1 /\ Len(W) \in Nat
        BY <1>12, <2>1
      <3>2. PlainWrite(W[i], run)
        BY <1>12, <3>1
      <3> QED
        BY <2>1, <3>2 DEF PlainWrite, RunEvents, TerminalEvents
    <2> QED
      BY <2>1 DEF Silent
  <1> QED
    BY <1>1, <1>13, <1>16, <1>17, BeginsKeeps

LEMMA ThreeOf ==
  ASSUME NEW a, NEW b, NEW c
  PROVE  Len(<<a, b, c>>) = 3 /\ <<a, b, c>>[1] = a /\ <<a, b, c>>[2] = b /\ <<a, b, c>>[3] = c
  OBVIOUS

\* A first write, or none, and three more.
LEMMA JoinThree ==
  ASSUME NEW p \in Seq(StoreCall), NEW q \in Seq(StoreCall), Len(q) = 3
  PROVE  /\ Len(p \o q) = Len(p) + 3 /\ Len(p) \in Nat
         /\ \A i \in 1..Len(p) : (p \o q)[i] = p[i]
         /\ /\ (p \o q)[Len(p) + 3] = q[3]
            /\ (p \o q)[Len(p) + 2] = q[2]
            /\ (p \o q)[Len(p) + 1] = q[1]
         /\ \A i \in 1..(Len(p) + 3) : i \in 1..Len(p) \/ (p \o q)[i] \in {q[1], q[2], q[3]}
  <1>1. PICK m \in Nat, W \in Seq(StoreCall) : m = Len(p) /\ W = p \o q
    BY JoinFacts
  <1>2. /\ Len(W) = m + 3
        /\ \A i \in 1..m : W[i] = p[i]
        /\ \A i \in 1..3 : W[m + i] = q[i]
    <2>1. /\ Len(p \o q) = Len(p) + Len(q)
          /\ \A i \in 1..Len(p) : (p \o q)[i] = p[i]
          /\ \A i \in 1..Len(q) : (p \o q)[Len(p) + i] = q[i]
      BY JoinFacts
    <2>2. Len(W) = m + Len(q)
      BY <1>1, <2>1
    <2>3. \A i \in 1..m : W[i] = p[i]
      BY <1>1, <2>1
    <2>4. \A i \in 1..Len(q) : W[m + i] = q[i]
      BY <1>1, <2>1
    <2> QED
      BY <2>2, <2>3, <2>4
  <1>3. W[m + 1] = q[1] /\ W[m + 2] = q[2] /\ W[m + 3] = q[3]
    BY <1>2
  <1>4. \A i \in 1..(m + 3) : i \in 1..m \/ i = m + 1 \/ i = m + 2 \/ i = m + 3
    OBVIOUS
  <1>5. \A i \in 1..(m + 3) : i \in 1..m \/ W[i] \in {q[1], q[2], q[3]}
    BY <1>3, <1>4
  <1> QED
    BY <1>1, <1>2, <1>3, <1>5

LEMMA CloseKeeps ==
  ASSUME AInv, NEW cmd, Close(cmd)
  PROVE  CInv'
  <1> DEFINE note == Write("record", "return")
             fact == AppendW(<<SessionClosed>>, "fault")
             mark == Write("close", "fault")
             tell == EmitW(Ev("session_closed", NoRun), "fault")
             first == <<note>>
             more == <<fact, mark, tell>>
  <1>1. /\ LockFree /\ state \in {"idle", "closed"} /\ UNCHANGED goroutine
        /\ Begins(CommandJob(cmd, first \o (IF state = "closed" THEN <<>> ELSE more), "closed"))
    BY DEF Close, Takes
  <1>2. /\ note \in StoreCall /\ fact \in StoreCall /\ mark \in StoreCall /\ tell \in StoreCall
    <2>1. SessionClosed \in Record
      BY RecordsTyped DEF NoRun
    <2>2. <<SessionClosed>> \in Seq(Record)
      BY <2>1, OneRecord
    <2>3. Ev("session_closed", NoRun) \in Event
      <3>1. NoRun \in Nat /\ "session_closed" \in RunEvents \cup TerminalEvents \cup SessionEvents
        BY DEF SessionEvents, NoRun
      <3> QED
        BY <3>1, EventsTyped
    <2> QED
      BY <2>2, <2>3, CallsTyped DEF WriteOp, OnError
  <1>3. /\ QuietWrite(note) /\ mark.op = "close"
    BY WriteFields DEF QuietWrite
  <1>4. RecordWrite(fact, SessionClosed)
    <2>1. PICK recs : recs = <<SessionClosed>>
      OBVIOUS
    <2>2. Len(recs) = 1 /\ recs[1] = SessionClosed
      BY <2>1, OneOf
    <2>3. fact.op = "append" /\ fact.recs = recs
      BY <2>1, WriteFields, FieldsOfWrites
    <2> QED
      BY <2>2, <2>3 DEF RecordWrite
  <1>5. ToldWrite(tell)
    BY WriteFields, FieldsOfWrites DEF ToldWrite
  <1>6. tell.ev.kind \notin TerminalEvents
    <2>1. tell.ev = Ev("session_closed", NoRun)
      BY FieldsOfWrites
    <2> HIDE DEF tell
    <2>2. Ev("session_closed", NoRun).kind = "session_closed"
      BY DEF Ev
    <2>3. tell.ev.kind = "session_closed"
      BY <2>1, <2>2
    <2> QED
      BY <2>3 DEF TerminalEvents
  <1>7. first \in Seq(StoreCall) /\ Len(first) = 1 /\ first[1] = note
    BY <1>2, OneOf, OneCall
  <1>8. note.op # "emit" /\ fact.op # "emit" /\ mark.op # "emit"
    BY WriteFields
  <1> HIDE DEF note, fact, mark, tell
  <1>9. ASSUME NEW W, Begins(CommandJob(cmd, W, "closed")), Silent(W), SameMarks => ClosePlan(W)'
        PROVE  CInv'
    <2>1. PICK j : j = CommandJob(cmd, W, "closed")
      OBVIOUS
    <2>2. j.writes = W /\ j.after = "closed" /\ Begins(j)
      BY <1>9, <2>1, CommandJobFacts
    <2>3. AtPlace /\ UNCHANGED state /\ SameMarks /\ job' = j
      BY <1>1, <2>2, PlaceNow
    <2>4. state' = "closed" => Shut'
      BY <2>3, PlacesKept DEF AtPlace
    <2>5. PlanInv'
      BY <1>9, <2>2, <2>3, <2>4 DEF PlanInv, AfterRun
    <2> QED
      BY <1>1, <1>9, <2>2, <2>5, BeginsKeeps
  <1>10. AtPlace /\ UNCHANGED state
    <2>1. PICK j : j = CommandJob(cmd, first \o (IF state = "closed" THEN <<>> ELSE more), "closed")
      OBVIOUS
    <2> QED
      BY <1>1, <2>1, PlaceNow
  <1>11. CASE state = "closed"
    <2>1. PICK W : W = first
      OBVIOUS
    <2>2. first \o <<>> = W
      BY <1>7, <2>1, ConcatEmptySeq
    <2>3. Begins(CommandJob(cmd, W, "closed"))
      BY <1>1, <1>11, <2>2
    <2>4. AllQuiet(W, Len(W)) /\ Silent(W)
      BY <1>3, <1>7, <1>8, <2>1 DEF AllQuiet, Silent
    <2>5. SameMarks => ClosePlan(W)'
      BY <1>10, <1>11, <2>4, PlacesKept DEF AtPlace, ClosePlan
    <2> QED
      BY <1>9, <2>3, <2>4, <2>5
  <1>12. CASE state = "idle"
    <2>1. PICK W : W = first \o more
      OBVIOUS
    <2>2. Begins(CommandJob(cmd, W, "closed"))
      BY <1>1, <1>12, <2>1
    <2>3. /\ Len(W) = 4 /\ W[4] = tell /\ W[3] = mark /\ W[2] = fact /\ W[1] = note
          /\ \A i \in 1..4 : i = 1 \/ W[i] \in {fact, mark, tell}
      <3>1. PICK p \in Seq(StoreCall), q \in Seq(StoreCall) : p = first /\ q = more
        BY <1>2, <1>7, SomeCalls
      <3>2. Len(q) = 3 /\ q[1] = fact /\ q[2] = mark /\ q[3] = tell
        BY <3>1, ThreeOf
      <3>3. W = p \o q /\ Len(p) = 1 /\ p[1] = note
        BY <1>7, <2>1, <3>1
      <3>4. /\ Len(W) = 1 + 3 /\ W[1 + 3] = tell /\ W[1 + 2] = mark /\ W[1 + 1] = fact
            /\ \A i \in 1..1 : W[i] = p[i]
            /\ \A i \in 1..(1 + 3) : i \in 1..1 \/ W[i] \in {fact, mark, tell}
        <4>1. /\ Len(p \o q) = Len(p) + 3
              /\ \A i \in 1..Len(p) : (p \o q)[i] = p[i]
              /\ /\ (p \o q)[Len(p) + 3] = q[3]
                 /\ (p \o q)[Len(p) + 2] = q[2]
                 /\ (p \o q)[Len(p) + 1] = q[1]
              /\ \A i \in 1..(Len(p) + 3) : i \in 1..Len(p) \/ (p \o q)[i] \in {q[1], q[2], q[3]}
          BY <3>2, JoinThree
        <4> HIDE DEF fact, mark, tell
        <4>2. /\ Len(W) = 1 + 3 /\ W[1 + 3] = tell /\ W[1 + 2] = mark /\ W[1 + 1] = fact
              /\ \A i \in 1..1 : W[i] = p[i]
          BY <3>2, <3>3, <4>1
        <4>3. \A i \in 1..(1 + 3) : i \in 1..1 \/ W[i] \in {fact, mark, tell}
          BY <3>2, <3>3, <4>1
        <4> QED
          BY <4>2, <4>3
      <3> QED
        BY <3>3, <3>4
    <2>4. Silent(W)
      BY <1>6, <1>8, <2>3 DEF Silent
    <2>5. AllQuiet(W, 1)
      BY <1>3, <2>3 DEF AllQuiet
    <2>6. SameMarks => ClosePlan(W)'
      <3> SUFFICES ASSUME SameMarks PROVE ClosePlan(W)'
        OBVIOUS
      <3>1. Resting'
        BY <1>10, <1>12, PlacesKept DEF AtPlace
      <3> QED
        BY <1>3, <1>4, <1>5, <2>3, <2>5, <3>1 DEF ClosePlan
    <2> QED
      BY <1>9, <2>2, <2>4, <2>6
  <1> QED
    BY <1>1, <1>11, <1>12

LEMMA FinishRunKeeps ==
  ASSUME AInv, FinishRun
  PROVE  CInv'
  <1>1. PICK run \in Nat, rec \in {OutcomeFact} : run = goroutine.run /\ rec = OutcomeFact
    BY OutcomeFacts DEF AInv
  <1>2. At("finish") /\ LockFree /\ UNCHANGED goroutine
    BY DEF FinishRun
  <1>3. IsOutcome(rec, run) /\ state = "running"
    BY <1>1, <1>2, OutcomeFacts DEF AInv, IInv, ActiveInv, At
  <1>4. TerminalEvent(run, goroutine.outcome, goroutine.cause) = ReportOf(rec)
    <2>1. goroutine.outcome \in {"completed", "failed", "cancelled"}
      BY <1>2 DEF AInv, Types, PlaceInv
    <2>2. /\ rec.run = run /\ rec.outcome = goroutine.outcome /\ rec.cause = goroutine.cause
      BY <1>1 DEF OutcomeFact, RunOutcome, Fact
    <2>3. Reported(goroutine.outcome) = goroutine.outcome
      BY <2>1 DEF Reported
    <2> QED
      BY <2>2, <2>3 DEF ReportOf
  <1> DEFINE boundary == AppendW(<<Fact("cancellation_boundary", run)>>, "fault")
             fact == AppendW(<<rec>>, "fault")
             event == PersistW(ReportOf(rec), "fault")
             marker == Write("finish", "fault")
             first == IF goroutine.outcome = "cancelled" THEN <<boundary>> ELSE <<>>
             last == <<fact, event, marker>>
  <1>5. Begins(Job(first \o last, "settle"))
    BY <1>1, <1>4 DEF FinishRun, OutcomeFact
  <1>6. /\ boundary \in StoreCall /\ fact \in StoreCall /\ event \in StoreCall /\ marker \in StoreCall
    <2>1. Fact("cancellation_boundary", run) \in Record /\ rec \in Record
      BY <1>3, RecordsTyped DEF Kinds, IsOutcome
    <2>2. <<Fact("cancellation_boundary", run)>> \in Seq(Record) /\ <<rec>> \in Seq(Record)
      BY <2>1, OneRecord
    <2>3. ReportOf(rec) \in Event
      BY <1>3, ReportTyped
    <2> QED
      BY <2>2, <2>3, CallsTyped DEF WriteOp, OnError
  <1>7. PlainWrite(boundary, run)
    BY PlainOnes, PlainRecords DEF Kinds
  <1>8. RecordWrite(fact, rec)
    <2>1. PICK recs : recs = <<rec>>
      OBVIOUS
    <2>2. Len(recs) = 1 /\ recs[1] = rec
      BY <2>1, OneOf
    <2>3. fact.op = "append" /\ fact.recs = recs
      BY <2>1, WriteFields, FieldsOfWrites
    <2> QED
      BY <2>2, <2>3 DEF RecordWrite
  <1>9. EventWrite(event, ReportOf(rec)) /\ marker.op = "finish"
    BY WriteFields, FieldsOfWrites DEF EventWrite
  <1>10. /\ boundary.onError = "fault" /\ fact.onError = "fault" /\ event.onError = "fault"
         /\ marker.onError = "fault"
         /\ boundary.op # "emit" /\ fact.op # "emit" /\ event.op # "emit" /\ marker.op # "emit"
    BY WriteFields, FieldsOfWrites
  <1> HIDE DEF boundary, fact, event, marker
  <1>11. first \in Seq(StoreCall) /\ \A i \in 1..Len(first) : first[i] = boundary
    <2>1. CASE goroutine.outcome = "cancelled"
      BY <1>6, <2>1, OneOf, OneCall
    <2>2. CASE goroutine.outcome # "cancelled"
      <3>1. first = <<>>
        BY <2>2
      <3> QED
        BY <3>1
    <2> QED
      BY <2>1, <2>2
  <1>12. PICK p \in Seq(StoreCall), q \in Seq(StoreCall) : p = first /\ q = last
    BY <1>6, <1>11, SomeCalls
  <1>13. /\ Len(q) = 3 /\ q[1] = fact /\ q[2] = event /\ q[3] = marker
         /\ \A i \in 1..Len(p) : p[i] = boundary
    BY <1>11, <1>12, ThreeOf
  <1>14. Begins(Job(p \o q, "settle"))
    BY <1>5, <1>12
  <1> HIDE DEF first, last
  <1>15. PICK W : W = p \o q
    OBVIOUS
  <1>16. /\ Len(W) = Len(p) + 3 /\ Len(p) \in Nat
         /\ W[Len(W)] = marker /\ W[Len(W) - 1] = event /\ W[Len(W) - 2] = fact
         /\ \A i \in 1..Len(p) : W[i] = p[i]
         /\ \A i \in 1..Len(W) : i \in 1..Len(p) \/ W[i] \in {fact, event, marker}
    <2>1. PICK m \in Nat : m = Len(p)
      OBVIOUS
    <2>2. /\ Len(W) = m + 3 /\ W[m + 3] = marker /\ W[m + 2] = event /\ W[m + 1] = fact
          /\ \A i \in 1..m : W[i] = p[i]
          /\ \A i \in 1..(m + 3) : i \in 1..m \/ W[i] \in {fact, event, marker}
      BY <1>13, <1>15, <2>1, JoinThree
    <2>3. (m + 3) - 1 = m + 2 /\ (m + 3) - 2 = m + 1
      OBVIOUS
    <2> QED
      BY <2>1, <2>2, <2>3
  <1>17. PICK j : j = Job(W, "settle")
    OBVIOUS
  <1>18. j.writes = W /\ j.after = "settle" /\ Begins(j)
    BY <1>14, <1>15, <1>17, JobFacts
  <1>19. AtPlace /\ SameMarks /\ job' = j
    BY <1>2, <1>18, PlaceNow
  <1>20. Open(run)'
    BY <1>1, <1>3, <1>19, PlacesKept DEF AtPlace
  <1>21. \A i \in 1..Len(W) : W[i] \in {boundary, fact, event, marker}
    BY <1>13, <1>16
  <1>22. EndPlan(W, run, rec)'
    <2>1. AllPlain(W, Len(W) - 3, run)
      BY <1>7, <1>13, <1>16 DEF AllPlain
    <2>2. Len(W) >= 3
      BY <1>16
    <2> QED
      BY <1>8, <1>9, <1>16, <1>20, <2>1, <2>2 DEF EndPlan
  <1>23. PlanInv'
    <2>1. goroutine'.run = run /\ OutcomeFact' = rec /\ job'.writes = W /\ job'.after = "settle"
      BY <1>1, <1>2, <1>18, <1>19 DEF OutcomeFact
    <2>2. \A i \in 1..Len(W) : W[i].onError = "fault"
      BY <1>10, <1>21
    <2> QED
      BY <1>20, <1>22, <2>1, <2>2 DEF PlanInv, AfterRun
  <1>24. Silent(W)
    BY <1>10, <1>21 DEF Silent
  <1> QED
    BY <1>2, <1>3, <1>18, <1>23, <1>24, BeginsKeeps

LEMMA ShutdownKeeps ==
  ASSUME AInv, Shutdown
  PROVE  CInv'
  BY UntouchedAside DEF Shutdown, counters
-----------------------------------------------------------------------------
LEMMA InitKeeps == Init => CInv
  <1> SUFFICES ASSUME Init PROVE CInv
    OBVIOUS
  <1>1. /\ transcriptLog = <<>> /\ eventLog = <<>> /\ history = <<>> /\ job = NoJob
        /\ manifestFile = Store!FreshManifest /\ manifest = Store!FreshManifest
        /\ opened = TRUE /\ state = "idle" /\ crashes = 0
    BY DEF Init, Store!Init
  <1>2. Len(transcriptLog) = 0 /\ Len(eventLog) = 0 /\ Len(history) = 0
    BY <1>1
  <1>3. /\ Store!FreshManifest.nextRun = 0 /\ Store!FreshManifest.active = NoRun
        /\ Store!FreshManifest.closed = FALSE
    BY DEF Store!FreshManifest, Store!NoRun, NoRun
  <1>4. DiskInv
    <2>1. \A i : i \notin 1..0
      OBVIOUS
    <2>2. RunsInv /\ OnceInv /\ KnownInv /\ BlocksInv /\ ReportInv
      BY <1>1, <1>2, <1>3, <2>1 DEF RunsInv, OnceInv, KnownInv, BlocksInv, ReportInv
    <2>3. CloseInv
      BY <1>1, <1>2, <1>3, <2>1 DEF CloseInv, FactThere, CloseTold
    <2> QED
      BY <2>2, <2>3 DEF DiskInv
  <1>5. PlanInv
    <2>1. ~ FactThere
      BY <1>2 DEF FactThere
    <2>2. AtPlace
      BY <1>1, <1>3, <2>1 DEF AtPlace, Resting
    <2>3. job.after = "free" /\ Len(job.writes) = 0
      BY <1>1, NoJobFacts
    <2>4. AllQuiet(job.writes, Len(job.writes))
      BY <2>3 DEF AllQuiet
    <2> QED
      BY <2>2, <2>3, <2>4 DEF PlanInv, AfterRun
  <1>6. HandleInv
    BY <1>1 DEF HandleInv, Agree
  <1>7. ShownInv
    <2>1. Len(job.writes) = 0
      BY <1>1, NoJobFacts
    <2> QED
      BY <1>2, <2>1 DEF ShownInv
  <1> QED
    BY <1>4, <1>5, <1>6, <1>7 DEF CInv

LEMMA NextKeeps == AInv /\ [Next]_vars => AInv'
  <1> SUFFICES ASSUME AInv, [Next]_vars PROVE AInv'
    OBVIOUS
  <1>1. IInv' /\ Types'
    BY NextGood, NextTyped DEF AInv, Good
  <1>2. CASE \E cmd \in CommandIDs : Command(cmd)
    <2>1. PICK cmd \in CommandIDs : Command(cmd)
      BY <1>2
    <2>2. CInv'
      BY <2>1, SubmitKeeps, QuietCommandsKeep, CloseKeeps DEF Command
    <2> QED
      BY <1>1, <2>2 DEF AInv
  <1>3. CASE Shutdown
    BY <1>1, <1>3, ShutdownKeeps DEF AInv
  <1>4. CASE HoldsLock
    <2>1. CInv'
      BY <1>1, <1>4, WriteSucceedsKeeps, WriteErrorsKeep, CommandDoneKeeps, SettleKeeps,
         GoroutineGoesOnKeeps DEF HoldsLock
    <2> QED
      BY <1>1, <2>1 DEF AInv
  <1>5. CASE WriteFails
    BY <1>1, <1>5, WriteErrorsKeep DEF AInv
  <1>6. CASE ModelCall
    <2>1. CInv'
      BY <1>6, LocalStepsKeep, ReservationsKeep, StreamsKeep, CheckKeeps DEF ModelCall
    <2> QED
      BY <1>1, <2>1 DEF AInv
  <1>7. CASE ToolCalls
    <2>1. CInv'
      BY <1>7, RecordCallsKeeps, ToolStepsKeep, LocalStepsKeep, FinishRunKeeps, FaultRunKeeps
         DEF ToolCalls
    <2> QED
      BY <1>1, <2>1 DEF AInv
  <1>8. CASE Provider
    <2>1. CInv'
      BY <1>8, LocalStepsKeep, StreamsKeep DEF Provider
    <2> QED
      BY <1>1, <2>1 DEF AInv
  <1>9. CASE Load
    BY <1>1, <1>9, LoadKeeps DEF AInv
  <1>10. CASE NewSessionEnds
    <2>1. CInv'
      BY <1>1, <1>10, LoadedKeeps, LoadRefusedKeeps DEF NewSessionEnds
    <2> QED
      BY <1>1, <2>1 DEF AInv
  <1>11. CASE ProcessDies
    BY <1>1, <1>11, ProcessDiesKeeps DEF AInv
  <1>12. CASE UNCHANGED vars
    <2>1. UNCHANGED <<storeVars, state, records, history, cursor, job, crashes>> /\ UNCHANGED goroutine
      BY <1>12 DEF vars, memory, counters
    <2>2. CInv'
      BY <2>1, UntouchedAside
    <2> QED
      BY <1>1, <2>2 DEF AInv
  <1> QED
    BY <1>2, <1>3, <1>4, <1>5, <1>6, <1>7, <1>8, <1>9, <1>10, <1>11, <1>12 DEF Next

\* In every state, whoever holds the mutex and whatever it still has to write,
\* the logs and the manifest file are where its plan says (finishRun
\* session.go:843, NewSession session.go:197, Apply session.go:389), the open
\* handle knows the runs of the file, and what was published is in the log.
THEOREM SessionDiskInvariant == Spec => []AInv
  <1>1. Init => AInv
    BY InitInv, InitTyped, InitKeeps DEF AInv
  <1> QED
    BY <1>1, NextKeeps, PTL DEF Spec
-----------------------------------------------------------------------------
(***************************************************************************)
(* The command line as the frontend of a session, for any commands, lines  *)
(* and signals, answers, failing writes and crashes: the prompt is back    *)
(* only when the run of the turn is over, and what the turn was told was   *)
(* the end of that run.                                                    *)
(*                                                                         *)
(* The steps of the session keep its own invariants whoever sends the      *)
(* commands.  The rest is where the session stands for each place of the   *)
(* command line (CliInv): in a turn the run it submitted is about to begin *)
(* (Submitting), was refused (Refused), or goes on or has ended, and then  *)
(* no end of another run can reach the turn (Following).                   *)
(***************************************************************************)
\* Writes that publish no end of a run, and writes to the logs.
QuietCalls == {w \in StoreCall : w.op = "emit" => w.ev.kind \notin TerminalEvents}
LogCalls == {w \in StoreCall : w.op \in {"append", "emit"}}

\* Only a session that is being loaded publishes the end of a run with a write.
EmitsInv == state # "starting" => job.writes \in Seq(QuietCalls)

\* What was published after the events the turn took: no end of a run, or only
\* of its own.
NoEndSince ==
  \A i \in (cli.seen + 1)..Len(history) : history[i].ev.kind \notin TerminalEvents
OwnEndSince ==
  \A i \in (cli.seen + 1)..Len(history) :
    history[i].ev.kind \in TerminalEvents => history[i].ev.run = cli.run

\* No run is under way, nor about to be.
NoRunAhead == state # "running" /\ job.after # "started"

\* The writes of the command of a turn begin its run, or have begun it.
Starts(writes, run) ==
  \/ /\ writes # <<>> /\ Head(writes).op = "begin" /\ manifest.nextRun + 1 = run
     /\ Tail(writes) \in Seq(LogCalls)
  \/ manifest.active = run /\ writes \in Seq(LogCalls)

\* The command of a turn is under way, or was refused.
Submitting ==
  /\ job.command = cli.cmd /\ cli.cmd \cap acked = {} /\ state = "idle" /\ NoEndSince
  /\ job.after = "rejected" \/ (job.after = "started" /\ Starts(job.writes, cli.run))
Refused == job.command # cli.cmd /\ ~ Accepted /\ NoRunAhead /\ LockFree

\* The run of the turn goes on, or has ended and the turn will be told so.
Following ==
  /\ job.after # "started" /\ state # "starting" /\ OwnEndSince
  /\ state = "running" => goroutine.run = cli.run /\ NoEndSince

CliPCs == {"none", "prompt", "submit", "submitting", "turn", "cancelling", "starting", "resuming",
           "closing", "closed", "leaving"}
CliType == [pc : CliPCs, cmd : SUBSET CommandIDs, seen : Nat, run : Nat, told : Nat]
AtRestPCs == {"prompt", "starting", "resuming", "closing", "closed", "leaving"}

RestingInv ==
  cli.pc \in AtRestPCs => NoRunAhead /\ cli.told \in {NoRun, cli.run}
TurnInv ==
  /\ InTurn => cli.told = NoRun /\ cli.seen <= Len(history)
  /\ Cli("submit") => NoRunAhead /\ LockFree /\ NoEndSince
  /\ Cli("submitting") =>
       cli.cmd # {} /\ (Submitting \/ (Returned /\ Accepted /\ Following) \/ Refused)
  /\ cli.pc \in {"turn", "cancelling"} => Following

CliInv ==
  cli \in CliType /\ (cli.pc # "none" => state # "down") /\ RestingInv /\ TurnInv

FInv == IInv /\ Types /\ EmitsInv /\ CliInv
-----------------------------------------------------------------------------
(***************************************************************************)
(* Sequences of writes that all belong to one set.                         *)
(***************************************************************************)
LEMMA CallsOf ==
  ASSUME NEW S
  PROVE  /\ <<>> \in Seq(S)
         /\ \A a \in S : <<a>> \in Seq(S)
         /\ \A a, b \in S : <<a, b>> \in Seq(S)
         /\ \A a, b, c \in S : <<a, b, c>> \in Seq(S)
         /\ \A p, q \in Seq(S) : p \o q \in Seq(S)
         /\ \A p \in Seq(S) : p # <<>> => Head(p) \in S /\ Tail(p) \in Seq(S)
  OBVIOUS

LEMMA QuietWrites ==
  /\ \A op \in WriteOp \ {"emit"}, e \in OnError : Write(op, e) \in QuietCalls
  /\ \A recs \in Seq(Record), e \in OnError : AppendW(recs, e) \in QuietCalls \cap LogCalls
  /\ \A ev \in Event, e \in OnError :
       /\ PersistW(ev, e) \in QuietCalls
       /\ EmitW(ev, e) \in LogCalls
       /\ ev.kind \notin TerminalEvents => EmitW(ev, e) \in QuietCalls
  BY CallsTyped, WriteFields, FieldsOfWrites DEF QuietCalls, LogCalls, OnError, WriteOp

LEMMA QuietEvents ==
  ASSUME NEW run \in Nat
  PROVE  \A kind \in RunEvents \cup SessionEvents, e \in OnError :
           EmitW(Ev(kind, run), e) \in QuietCalls \cap LogCalls
  <1> SUFFICES ASSUME NEW kind \in RunEvents \cup SessionEvents, NEW e \in OnError
               PROVE  EmitW(Ev(kind, run), e) \in QuietCalls \cap LogCalls
    OBVIOUS
  <1>1. Ev(kind, run) \in Event
    BY EventsTyped
  <1>2. Ev(kind, run).kind \notin TerminalEvents
    BY DEF Ev, RunEvents, SessionEvents, TerminalEvents
  <1> QED
    BY <1>1, <1>2, QuietWrites

LEMMA JoinsTail ==
  ASSUME NEW S, NEW p \in Seq(S), NEW q \in Seq(S), p # <<>>
  PROVE  p \o q # <<>> /\ Head(p \o q) = Head(p) /\ Tail(p \o q) = Tail(p) \o q
  OBVIOUS

(***************************************************************************)
(* The goroutine of the run: it moves on, or takes the mutex for writes    *)
(* that publish no end of the run.                                         *)
(***************************************************************************)
SameMarkers ==
  UNCHANGED <<state, history, acked>> /\ manifest'.active = manifest.active
    /\ manifest'.nextRun = manifest.nextRun /\ goroutine'.run = goroutine.run

RunStep ==
  /\ state = "running" /\ SameMarkers
  /\ \/ job' = job
     \/ job'.command = {} /\ job'.after \in AfterRun /\ job'.writes \in Seq(QuietCalls)

LEMMA MovesRun ==
  ASSUME state = "running", NEW g, Moves(g), g.run = goroutine.run
  PROVE  RunStep
  BY DEF RunStep, SameMarkers, Moves, storeVars, counters

LEMMA TakesRun ==
  ASSUME state = "running", NEW W \in Seq(QuietCalls), NEW after \in AfterRun,
         Begins(Job(W, after)), goroutine'.run = goroutine.run
  PROVE  RunStep
  BY JobFacts DEF RunStep, SameMarkers, Begins, storeVars, counters

LEMMA LocalRun ==
  ASSUME IInv, Types,
         \/ LoopTop \/ Sleep \/ WakeUp \/ ResponseError \/ CallsDone
         \/ ProviderAnswers \/ ProviderFails \/ ProviderCancelled
  PROVE  RunStep
  <1>1. state = "running"
    BY DEF LoopTop, Sleep, WakeUp, ResponseError, CallsDone, ProviderAnswers, ProviderFails,
           ProviderCancelled, At, IInv, ActiveInv
  <1>2. \E g : Moves(g) /\ g.run = goroutine.run
    <2>1. CASE LoopTop
      BY <2>1, MovesOn DEF LoopTop
    <2>2. CASE Sleep \/ WakeUp
      BY <2>2, MovesOn DEF Sleep, WakeUp
    <2>3. CASE ResponseError
      <3>1. \E outcome, cause : Moves(Ending(outcome, cause))
        BY <2>3 DEF ResponseError
      <3> QED
        BY <3>1, MovesOn
    <2>4. CASE CallsDone
      <3>1. (\E outcome, cause : Moves(Ending(outcome, cause))) \/ Moves(Goto("loop"))
        BY <2>4 DEF CallsDone
      <3> QED
        BY <3>1, MovesOn
    <2>5. CASE ProviderAnswers
      <3>1. PICK a : Moves([Goto("answered") EXCEPT !.answer = a])
        BY <2>5 DEF ProviderAnswers
      <3>2. [Goto("answered") EXCEPT !.answer = a].run = goroutine.run
        BY SameRun
      <3> QED
        BY <3>1, <3>2
    <2>6. CASE ProviderFails
      <3>1. \/ \E class : Moves(Erring(CauseOf(class)))
            \/ \E d : Moves([Goto("reserve_delay") EXCEPT !.delay = d])
        BY <2>6 DEF ProviderFails
      <3>2. ASSUME NEW class, Moves(Erring(CauseOf(class)))
            PROVE  \E g : Moves(g) /\ g.run = goroutine.run
        BY <3>2, SameRun
      <3>3. ASSUME NEW d, Moves([Goto("reserve_delay") EXCEPT !.delay = d])
            PROVE  \E g : Moves(g) /\ g.run = goroutine.run
        <4>1. [Goto("reserve_delay") EXCEPT !.delay = d].run = goroutine.run
          BY SameRun
        <4> QED
          BY <3>3, <4>1
      <3> QED
        BY <3>1, <3>2, <3>3
    <2>7. CASE ProviderCancelled
      BY <2>7, SameRun DEF ProviderCancelled
    <2> QED
      BY <2>1, <2>2, <2>3, <2>4, <2>5, <2>6, <2>7
  <1> QED
    BY <1>1, <1>2, MovesRun

LEMMA ReservationRun ==
  ASSUME Types, NEW counter, NEW amount, NEW granted, NEW exhausted, NEW broken,
         Reserve(counter, amount, granted, exhausted, broken), state = "running",
         \A g \in {granted, exhausted, broken} : g.run = goroutine.run
  PROVE  RunStep
  <1>1. UNCHANGED <<state, history, job, acked>> /\ goroutine'.run = goroutine.run
    BY DEF Reserve
  <1>2. CASE UNCHANGED storeVars
    BY <1>1, <1>2 DEF RunStep, SameMarkers, storeVars
  <1>3. ASSUME NEW result, Store!ReserveBudget(goroutine.run, counter, amount, result)
        PROVE  RunStep
    <2> DEFINE budgets == [manifest.budgets EXCEPT ![goroutine.run] = Store!Reserved(@, counter, amount)]
               n == [manifest EXCEPT !.budgets[goroutine.run] = Store!Reserved(@, counter, amount)]
    <2>1. Store!OnlyManifest(n, result)
      BY <1>3 DEF Store!ReserveBudget
    <2>2. n.nextRun = manifest.nextRun /\ n.active = manifest.active
      <3>1. manifest \in Store!Manifest
        BY DEF Types, Store!TypeOK
      <3>2. n = [manifest EXCEPT !.budgets = budgets]
        BY <3>1 DEF Store!Manifest
      <3> HIDE DEF budgets
      <3> QED
        BY <3>1, <3>2 DEF Store!Manifest
    <2> HIDE DEF n
    <2>3. manifest' \in {n, manifest}
      BY <2>1 DEF Store!OnlyManifest, Store!ReplaceManifest
    <2> QED
      BY <1>1, <2>2, <2>3 DEF RunStep, SameMarkers
  <1> QED
    BY <1>2, <1>3 DEF Reserve

LEMMA ReservationsRun ==
  ASSUME IInv, Types, ReserveCall \/ ReserveAttempt \/ ReserveDelay
  PROVE  RunStep
  <1>1. state = "running"
    BY DEF ReserveCall, ReserveAttempt, ReserveDelay, At, IInv, ActiveInv
  <1>2. CASE ReserveCall
    <2> DEFINE g == [Goto("reserve_attempt") EXCEPT !.retry = 0, !.streamed = FALSE]
               h == Ending("failed", "budget_exhausted")
    <2>1. Reserve("logical_model_call", 0, g, h, h)
      BY <1>2 DEF ReserveCall
    <2>2. g.run = goroutine.run /\ h.run = goroutine.run
      BY SameRun
    <2> HIDE DEF g, h
    <2> QED
      BY <1>1, <2>1, <2>2, ReservationRun
  <1>3. CASE ReserveAttempt
    BY <1>1, <1>3, SameRun, ReservationRun DEF ReserveAttempt
  <1>4. CASE ReserveDelay
    BY <1>1, <1>4, SameRun, ReservationRun DEF ReserveDelay
  <1> QED
    BY <1>2, <1>3, <1>4

LEMMA StreamsRun ==
  ASSUME IInv, Types, StreamDelta \/ RetryStep \/ Answered
  PROVE  RunStep
  <1> DEFINE delta == <<EmitW(Ev("assistant_delta", goroutine.run), "fail_stream")>>
             retry == <<EmitW(Ev("retry_scheduled", goroutine.run), "fail_stream")>>
  <1>1. delta \in Seq(QuietCalls) /\ retry \in Seq(QuietCalls)
    BY RunTyped, QuietEvents, CallsOf DEF RunEvents, OnError
  <1>2. state = "running"
    BY DEF StreamDelta, RetryStep, Answered, At, IInv, ActiveInv
  <1>3. \/ Moves(Goto("check"))
        \/ /\ \E b : goroutine' = [goroutine EXCEPT !.streamed = b]
           /\ \/ Begins(Job(delta, "attempt")) \/ Begins(Job(delta, "check"))
              \/ Begins(Job(retry, "sleep"))
    BY DEF StreamDelta, RetryStep, Answered
  <1> HIDE DEF delta, retry
  <1>4. CASE Moves(Goto("check"))
    BY <1>2, <1>4, SameRun, MovesRun
  <1>5. CASE /\ \E b : goroutine' = [goroutine EXCEPT !.streamed = b]
             /\ \/ Begins(Job(delta, "attempt")) \/ Begins(Job(delta, "check"))
                \/ Begins(Job(retry, "sleep"))
    <2>1. goroutine'.run = goroutine.run
      BY <1>5, SameRun
    <2> QED
      BY <1>1, <1>2, <1>5, <2>1, TakesRun DEF AfterRun
  <1> QED
    BY <1>3, <1>4, <1>5

LEMMA CheckRun ==
  ASSUME IInv, Types, CheckResponse
  PROVE  RunStep
  <1> DEFINE v == AppendW(<<Fact("assistant_block", goroutine.run)>>, "fail_run")
             w == EmitW(Ev("assistant_text", goroutine.run), "fail_run")
             W == <<v, w>>
  <1>1. W \in Seq(QuietCalls)
    <2>1. goroutine.run \in Nat
      BY RunTyped
    <2>2. <<Fact("assistant_block", goroutine.run)>> \in Seq(Record)
      BY <2>1, RecordsTyped, OneRecord DEF Kinds
    <2>3. v \in QuietCalls /\ w \in QuietCalls
      BY <2>1, <2>2, QuietWrites, QuietEvents DEF RunEvents, OnError
    <2> HIDE DEF v, w
    <2> QED
      BY <2>3, CallsOf
  <1>2. state = "running"
    BY DEF CheckResponse, At, IInv, ActiveInv
  <1>3. \/ \E outcome, cause : Moves(Ending(outcome, cause))
        \/ Moves(Goto("calls"))
        \/ /\ \/ \E outcome, cause : goroutine' = Ending(outcome, cause)
              \/ goroutine' = Goto("calls")
           /\ UNCHANGED <<storeVars, state, records, history, cursor, job, counters>>
        \/ Begins(Job(W, "calls")) /\ UNCHANGED goroutine
    BY DEF CheckResponse
  <1> HIDE DEF W
  <1>4. CASE \/ \E outcome, cause : Moves(Ending(outcome, cause))
             \/ Moves(Goto("calls"))
    <2>1. \E g : Moves(g) /\ g.run = goroutine.run
      BY <1>4, MovesOn
    <2> QED
      BY <1>2, <2>1, MovesRun
  <1>5. CASE /\ \/ \E outcome, cause : goroutine' = Ending(outcome, cause)
                \/ goroutine' = Goto("calls")
             /\ UNCHANGED <<storeVars, state, records, history, cursor, job, counters>>
    <2>1. goroutine'.run = goroutine.run
      BY <1>5, SameRun
    <2> QED
      BY <1>2, <1>5, <2>1 DEF RunStep, SameMarkers, storeVars, counters
  <1>6. CASE Begins(Job(W, "calls")) /\ UNCHANGED goroutine
    BY <1>1, <1>2, <1>6, TakesRun DEF AfterRun
  <1> QED
    BY <1>3, <1>4, <1>5, <1>6

LEMMA RecordCallsRun ==
  ASSUME IInv, Types, RecordCalls
  PROVE  RunStep
  <1> DEFINE calls == goroutine.answer.calls
             recs == [i \in DOMAIN calls |-> ToolCall(goroutine.run, calls[i])]
             w == AppendW(recs, "fault_run")
  <1>1. <<w>> \in Seq(QuietCalls)
    <2>1. calls \in Seq(CallIDs) /\ goroutine.run \in Nat
      BY DEF Types, GoroutineType, Answer
    <2>2. recs \in Seq(Record)
      BY <2>1, CallRecords
    <2>3. w \in QuietCalls
      BY <2>2, QuietWrites DEF OnError
    <2> QED
      BY <2>3, CallsOf
  <1>2. state = "running"
    BY DEF RecordCalls, At, IInv, ActiveInv
  <1>3. \/ \E outcome, cause : Moves(Ending(outcome, cause))
        \/ /\ goroutine' = [goroutine EXCEPT !.rest = calls, !.answer = NoAnswer,
                              !.streamed = FALSE, !.stopped = FALSE, !.blocked = FALSE]
           /\ Begins(Job(<<w>>, "tool"))
    BY DEF RecordCalls
  <1> HIDE DEF w
  <1>4. CASE \E outcome, cause : Moves(Ending(outcome, cause))
    <2>1. \E g : Moves(g) /\ g.run = goroutine.run
      BY <1>4, MovesOn
    <2> QED
      BY <1>2, <2>1, MovesRun
  <1>5. CASE /\ goroutine' = [goroutine EXCEPT !.rest = calls, !.answer = NoAnswer,
                                !.streamed = FALSE, !.stopped = FALSE, !.blocked = FALSE]
             /\ Begins(Job(<<w>>, "tool"))
    <2>1. goroutine'.run = goroutine.run
      BY <1>5 DEF Types, GoroutineType
    <2> QED
      BY <1>1, <1>2, <1>5, <2>1, TakesRun DEF AfterRun
  <1> QED
    BY <1>3, <1>4, <1>5

LEMMA ToolsRun ==
  ASSUME IInv, Types, NextTool \/ ExecuteTool
  PROVE  RunStep
  <1>1. state = "running" /\ goroutine.run \in Nat
    BY RunTyped DEF NextTool, ExecuteTool, At, IInv, ActiveInv
  <1>2. /\ NextTool => goroutine.rest # <<>>
        /\ ExecuteTool => goroutine.rest # <<>>
    BY DEF NextTool, ExecuteTool, Types, PlaceInv, At, LockFree, NoJob
  <1>3. ASSUME NEW outcome \in ToolResultOutcomes, FinishesTool(outcome)
        PROVE  RunStep
    <2> DEFINE rec == ToolResult(goroutine.run, Head(goroutine.rest), outcome)
               v == AppendW(<<rec>>, "fault_run")
               w == EmitW(Ev("tool_finished", goroutine.run), "fault_run")
    <2>1. goroutine.rest \in Seq(CallIDs)
      BY DEF Types, GoroutineType
    <2>2. Head(goroutine.rest) \in CallIDs
      BY <1>2, <2>1
    <2>3. <<rec>> \in Seq(Record)
      BY <1>1, <2>2, RecordsTyped, OneRecord
    <2>4. v \in QuietCalls /\ w \in QuietCalls
      BY <1>1, <2>3, QuietWrites, QuietEvents DEF RunEvents, OnError
    <2>5. Begins(Job(<<v, w>>, "tool"))
      BY <1>3 DEF FinishesTool
    <2>6. goroutine'.run = goroutine.run
      BY <1>3 DEF FinishesTool, Types, GoroutineType
    <2> HIDE DEF v, w
    <2>7. <<v, w>> \in Seq(QuietCalls)
      BY <2>4, CallsOf
    <2> QED
      BY <1>1, <2>5, <2>6, <2>7, TakesRun DEF AfterRun
  <1> DEFINE started == EmitW(Ev("tool_started", goroutine.run), "fault")
  <1>4. <<started>> \in Seq(QuietCalls)
    BY <1>1, QuietEvents, CallsOf DEF RunEvents, OnError
  <1>5. \/ \E outcome \in ToolResultOutcomes : FinishesTool(outcome)
        \/ Begins(Job(<<started>>, "exec")) /\ UNCHANGED goroutine
    BY DEF NextTool, ExecuteTool, ToolResultOutcomes
  <1> HIDE DEF started
  <1>6. CASE Begins(Job(<<started>>, "exec")) /\ UNCHANGED goroutine
    BY <1>1, <1>4, <1>6, TakesRun DEF AfterRun
  <1> QED
    BY <1>3, <1>5, <1>6

LEMMA FinishRunRuns ==
  ASSUME IInv, Types, FinishRun
  PROVE  RunStep
  <1>1. state = "running"
    BY DEF FinishRun, At, IInv, ActiveInv
  <1>2. /\ goroutine.run \in Nat /\ goroutine.cause \in FailureCauses \cup {""}
        /\ goroutine.outcome \in {"completed", "failed", "cancelled"}
    BY DEF FinishRun, Types, GoroutineType, PlaceInv
  <1> DEFINE boundary == AppendW(<<Fact("cancellation_boundary", goroutine.run)>>, "fault")
             ending == AppendW(<<RunOutcome(goroutine.run, goroutine.outcome, goroutine.cause)>>, "fault")
             event == PersistW(TerminalEvent(goroutine.run, goroutine.outcome, goroutine.cause), "fault")
             marker == Write("finish", "fault")
             first == IF goroutine.outcome = "cancelled" THEN <<boundary>> ELSE <<>>
             last == <<ending, event, marker>>
  <1>3. boundary \in QuietCalls /\ ending \in QuietCalls /\ event \in QuietCalls /\ marker \in QuietCalls
    <2>1. <<Fact("cancellation_boundary", goroutine.run)>> \in Seq(Record)
      BY <1>2, RecordsTyped, OneRecord DEF Kinds
    <2>2. <<RunOutcome(goroutine.run, goroutine.outcome, goroutine.cause)>> \in Seq(Record)
      BY <1>2, RecordsTyped, OneRecord DEF RunOutcomes
    <2>3. TerminalEvent(goroutine.run, goroutine.outcome, goroutine.cause) \in Event
      BY <1>2, EventsTyped
    <2> QED
      BY <2>1, <2>2, <2>3, QuietWrites DEF OnError, WriteOp
  <1>4. Begins(Job(first \o last, "settle")) /\ UNCHANGED goroutine
    BY DEF FinishRun
  <1> HIDE DEF boundary, ending, event, marker
  <1>5. first \in Seq(QuietCalls) /\ last \in Seq(QuietCalls)
    BY <1>3, CallsOf
  <1> HIDE DEF first, last
  <1>6. first \o last \in Seq(QuietCalls)
    BY <1>5, CallsOf
  <1> QED
    BY <1>1, <1>4, <1>6, TakesRun DEF AfterRun

LEMMA GoroutineRuns ==
  ASSUME IInv, Types, ModelCall \/ (ToolCalls /\ ~ FaultRun) \/ Provider
  PROVE  RunStep
  BY LocalRun, ReservationsRun, StreamsRun, CheckRun, RecordCallsRun, ToolsRun, FinishRunRuns
     DEF ModelCall, ToolCalls, Provider
-----------------------------------------------------------------------------
(***************************************************************************)
(* Commands: the mutex is taken for writes that publish no end of a run.   *)
(***************************************************************************)
\* Who sends a command finds the session loaded.
CommandStep(cmd) ==
  /\ LockFree /\ state \in {"idle", "running", "closed"} /\ cmd \notin acked
  /\ UNCHANGED <<state, history, acked, manifest, goroutine>>
  /\ job'.command = {cmd} /\ job'.writes \in Seq(QuietCalls)

LEMMA BeginsCommand ==
  ASSUME IInv, NEW cmd, Takes(cmd), state \in {"idle", "running", "closed"}, UNCHANGED goroutine,
         NEW W \in Seq(QuietCalls), NEW after, Begins(CommandJob(cmd, W, after))
  PROVE  CommandStep(cmd) /\ job' = CommandJob(cmd, W, after) /\ job'.after = after
  <1>1. cmd \notin acked
    BY DEF Takes, IInv, SeenInv
  <1>2. /\ job' = CommandJob(cmd, W, after)
        /\ UNCHANGED <<state, history, acked, manifest>>
    BY DEF Begins, storeVars, counters
  <1>3. job'.command = {cmd} /\ job'.writes = W /\ job'.after = after
    BY <1>2 DEF CommandJob
  <1> QED
    BY <1>1, <1>2, <1>3 DEF CommandStep, Takes

LEMMA SubmitBegins ==
  ASSUME IInv, Types, NEW cmd, Submit(cmd)
  PROVE  /\ CommandStep(cmd) /\ state = "idle" /\ job'.after = "started"
         /\ job'.writes # <<>> /\ Head(job'.writes).op = "begin"
         /\ Tail(job'.writes) \in Seq(LogCalls)
  <1> DEFINE start == Write("begin", "fault")
             message == AppendW(<<Fact("user_message", NextRun)>>, "fault")
             instructions == AppendW(<<Fact("instructions_loaded", NextRun)>>, "fault")
             event == EmitW(Ev("run_started", NextRun), "fault")
             more == IF HasInstructions THEN <<instructions>> ELSE <<>>
             first == <<start, message>>
             last == <<event>>
             W == first \o more \o last
  <1>1. NextRun \in Nat
    BY DEF NextRun, Types, Store!TypeOK, Store!Manifest
  <1>2. /\ start \in QuietCalls /\ start.op = "begin"
        /\ {message, instructions, event} \subseteq QuietCalls \cap LogCalls
    <2>1. /\ <<Fact("user_message", NextRun)>> \in Seq(Record)
          /\ <<Fact("instructions_loaded", NextRun)>> \in Seq(Record)
      BY <1>1, RecordsTyped, OneRecord DEF Kinds
    <2>2. start \in QuietCalls /\ start.op = "begin"
      BY QuietWrites, WriteFields DEF WriteOp, OnError
    <2>3. event \in QuietCalls \cap LogCalls
      BY <1>1, QuietEvents DEF RunEvents, OnError
    <2> QED
      BY <2>1, <2>2, <2>3, QuietWrites DEF OnError
  <1>3. Begins(CommandJob(cmd, W, "started"))
    BY DEF Submit
  <1>4. Takes(cmd) /\ state = "idle" /\ UNCHANGED goroutine
    BY DEF Submit
  <1> HIDE DEF start, message, instructions, event
  <1>5. /\ first \in Seq(QuietCalls) /\ first # <<>> /\ Head(first) = start
        /\ Tail(first) \in Seq(LogCalls)
    BY <1>2
  <1>6. /\ more \in Seq(QuietCalls) /\ more \in Seq(LogCalls)
        /\ last \in Seq(QuietCalls) /\ last \in Seq(LogCalls)
    BY <1>2, CallsOf
  <1> HIDE DEF first, more, last
  <1>7. /\ W \in Seq(QuietCalls) /\ W # <<>> /\ Head(W) = start
        /\ Tail(W) \in Seq(LogCalls)
    <2>1. /\ first \o more \in Seq(QuietCalls) /\ first \o more # <<>>
          /\ Head(first \o more) = start /\ Tail(first \o more) = Tail(first) \o more
      BY <1>5, <1>6, CallsOf, JoinsTail
    <2>2. /\ W \in Seq(QuietCalls) /\ W # <<>> /\ Head(W) = start
          /\ Tail(W) = Tail(first \o more) \o last
      <3>1. PICK p \in Seq(QuietCalls) :
              p = first \o more /\ p # <<>> /\ Head(p) = start
        BY <2>1
      <3>2. W = p \o last
        BY <3>1
      <3>3. W \in Seq(QuietCalls)
        BY <1>6, <3>1, <3>2, CallsOf
      <3>4. p \o last # <<>> /\ Head(p \o last) = Head(p) /\ Tail(p \o last) = Tail(p) \o last
        BY <1>6, <3>1, JoinsTail
      <3> HIDE DEF W
      <3> QED
        BY <3>1, <3>2, <3>3, <3>4
    <2>3. Tail(first) \o more \in Seq(LogCalls)
      BY <1>5, <1>6, CallsOf
    <2>4. Tail(first) \o more \o last \in Seq(LogCalls)
      BY <1>6, <2>3, CallsOf
    <2> QED
      BY <2>1, <2>2, <2>4
  <1> HIDE DEF W
  <1>8. /\ CommandStep(cmd) /\ job' = CommandJob(cmd, W, "started") /\ job'.after = "started"
    BY <1>3, <1>4, <1>7, BeginsCommand
  <1>9. job'.writes = W
    BY <1>8, CommandJobFacts
  <1> QED
    BY <1>2, <1>4, <1>7, <1>8, <1>9

LEMMA OthersBegin ==
  ASSUME IInv, NEW cmd
  PROVE  /\ SubmitSensitive(cmd) => CommandStep(cmd) /\ state = "idle" /\ job'.after = "rejected"
         /\ Cancel(cmd) => CommandStep(cmd) /\ job'.after = "cancelled"
         /\ Resume(cmd) => CommandStep(cmd) /\ state = "idle" /\ job'.after = "done"
         /\ Close(cmd) =>
              CommandStep(cmd) /\ state \in {"idle", "closed"} /\ job'.after = "closed"
  <1> DEFINE record == Write("record", "return")
             warning == EmitW(Ev("warning", NoRun), "fault")
             resumed == EmitW(Ev("session_resumed", NoRun), "fault")
             fact == AppendW(<<SessionClosed>>, "fault")
             mark == Write("close", "fault")
             closed == EmitW(Ev("session_closed", NoRun), "fault")
  <1>0. NoRun \in Nat
    BY DEF NoRun
  <1>1. /\ record \in QuietCalls /\ warning \in QuietCalls /\ resumed \in QuietCalls
        /\ fact \in QuietCalls /\ mark \in QuietCalls /\ closed \in QuietCalls
    <2>1. <<SessionClosed>> \in Seq(Record)
      BY <1>0, RecordsTyped, OneRecord
    <2>2. warning \in QuietCalls /\ resumed \in QuietCalls /\ closed \in QuietCalls
      BY <1>0, QuietEvents DEF SessionEvents, OnError
    <2> QED
      BY <2>1, <2>2, QuietWrites DEF WriteOp, OnError
  <1>2. ASSUME SubmitSensitive(cmd)
        PROVE  CommandStep(cmd) /\ state = "idle" /\ job'.after = "rejected"
    <2>1. /\ Takes(cmd) /\ state = "idle" /\ UNCHANGED goroutine
          /\ Begins(CommandJob(cmd, <<record, warning>>, "rejected"))
      BY <1>2 DEF SubmitSensitive
    <2> HIDE DEF record, warning
    <2>2. <<record, warning>> \in Seq(QuietCalls)
      BY <1>1, CallsOf
    <2> QED
      BY <2>1, <2>2, BeginsCommand
  <1>3. ASSUME Cancel(cmd)
        PROVE  CommandStep(cmd) /\ job'.after = "cancelled"
    <2>1. /\ Takes(cmd) /\ state \in {"idle", "running", "closed"} /\ UNCHANGED goroutine
          /\ Begins(CommandJob(cmd, <<record>>, "cancelled"))
      BY <1>3 DEF Cancel
    <2> HIDE DEF record
    <2>2. <<record>> \in Seq(QuietCalls)
      BY <1>1, CallsOf
    <2> QED
      BY <2>1, <2>2, BeginsCommand
  <1>4. ASSUME Resume(cmd)
        PROVE  CommandStep(cmd) /\ state = "idle" /\ job'.after = "done"
    <2>1. /\ Takes(cmd) /\ state = "idle" /\ UNCHANGED goroutine
          /\ Begins(CommandJob(cmd, <<record, resumed>>, "done"))
      BY <1>4 DEF Resume
    <2> HIDE DEF record, resumed
    <2>2. <<record, resumed>> \in Seq(QuietCalls)
      BY <1>1, CallsOf
    <2> QED
      BY <2>1, <2>2, BeginsCommand
  <1>5. ASSUME Close(cmd)
        PROVE  CommandStep(cmd) /\ state \in {"idle", "closed"} /\ job'.after = "closed"
    <2> DEFINE more == IF state = "closed" THEN <<>> ELSE <<fact, mark, closed>>
    <2>1. /\ Takes(cmd) /\ state \in {"idle", "closed"} /\ UNCHANGED goroutine
          /\ Begins(CommandJob(cmd, <<record>> \o more, "closed"))
      BY <1>5 DEF Close
    <2> HIDE DEF record, fact, mark, closed
    <2>2. more \in Seq(QuietCalls) /\ <<record>> \in Seq(QuietCalls)
      BY <1>1, CallsOf
    <2> HIDE DEF more
    <2>3. <<record>> \o more \in Seq(QuietCalls)
      BY <2>2, CallsOf
    <2> QED
      BY <2>1, <2>3, BeginsCommand
  <1> QED
    BY <1>2, <1>3, <1>4, <1>5

LEMMA CommandBegins ==
  ASSUME IInv, Types, NEW cmd, Command(cmd)
  PROVE  CommandStep(cmd)
  BY SubmitBegins, OthersBegin DEF Command
-----------------------------------------------------------------------------
(***************************************************************************)
(* The holder of the mutex.                                                *)
(***************************************************************************)
Publishes(e) == history' = Append(history, e)

WriteStep ==
  /\ job.writes # <<>> /\ UNCHANGED <<state, acked, goroutine>>
  /\ job'.command = job.command /\ job'.after = job.after /\ job'.writes = Tail(job.writes)
  /\ \/ history' = history
     \/ Head(job.writes).op = "emit" /\ \E e : Publishes(e) /\ e.ev = Head(job.writes).ev
  /\ Head(job.writes).op = "begin" => manifest'.active = manifest.nextRun + 1
  /\ Head(job.writes).op \in {"append", "emit"} => manifest'.active = manifest.active

LEMMA WriteFacts ==
  ASSUME IInv, Types, WriteSucceeds
  PROVE  WriteStep
  <1> DEFINE w == Head(job.writes)
             entry == [cursor |-> cursor + 1, ev |-> w.ev]
  <1>1. /\ job.writes # <<>> /\ StoreWrite(w, "ok")
        /\ job' = [job EXCEPT !.writes = Tail(@)]
        /\ history' = IF w.op = "emit" THEN Append(history, entry) ELSE history
        /\ UNCHANGED <<state, goroutine, acked>>
    BY DEF WriteSucceeds, counters
  <1>2. /\ job'.writes = Tail(job.writes) /\ job'.command = job.command /\ job'.after = job.after
    BY <1>1 DEF IInv, Shapes
  <1>3. manifest \in Store!Manifest
    BY DEF Types, Store!TypeOK
  <1>4. ASSUME w.op = "begin" PROVE manifest'.active = manifest.nextRun + 1
    <2>1. PICK cmd : Store!BeginRun(cmd, "ok")
      BY <1>1, <1>4 DEF StoreWrite
    <2>2. manifest' = [manifest EXCEPT !.seen = @ \cup {cmd},
                                       !.nextRun = @ + 1,
                                       !.budgets = Append(@, Store!FreshBudget),
                                       !.active = manifest.nextRun + 1]
      BY <2>1 DEF Store!BeginRun, Store!OnlyManifest, Store!ReplaceManifest
    <2> QED
      BY <1>3, <2>2 DEF Store!Manifest
  <1>5. ASSUME w.op \in {"append", "emit"} PROVE manifest'.active = manifest.active
    <2>1. Store!AppendTranscript(w.recs, "ok") \/ Store!AppendEvent(cursor + 1, w.ev, "ok")
      BY <1>1, <1>5 DEF StoreWrite
    <2>2. \/ \E n : manifest' = [manifest EXCEPT !.transcriptSeq = n]
          \/ \E n : manifest' = [manifest EXCEPT !.eventCursor = n]
          \/ manifest' = manifest
      BY <2>1 DEF Store!AppendTranscript, Store!AppendEvent, Store!ReplaceManifest
    <2> QED
      BY <1>3, <2>2 DEF Store!Manifest
  <1>6. \/ history' = history
        \/ w.op = "emit" /\ Publishes(entry) /\ entry.ev = w.ev
    BY <1>1 DEF Publishes
  <1> QED
    BY <1>1, <1>2, <1>4, <1>5, <1>6 DEF WriteStep

ErrorStep ==
  /\ job.writes # <<>> /\ UNCHANGED <<history, acked>>
  /\ \/ state = "starting" /\ state' = state /\ job'.after = "refused" /\ job'.command = {}
     \/ /\ state # "starting" /\ job' = NoJob
        /\ state' = "faulted" \/ (state' = state /\ goroutine'.run = goroutine.run)

LEMMA ErrorFacts ==
  ASSUME IInv, Types, WriteFails \/ EventRefused
  PROVE  ErrorStep
  <1> DEFINE error == Head(job.writes).onError
  <1>1. job.writes # <<>> /\ HandleError(error) /\ acked' = acked
    BY DEF WriteFails, EventRefused, counters
  <1> HIDE DEF error
  <1>2. CASE state = "starting"
    <2>1. job' = Job(<<>>, "refused") /\ state' = state /\ history' = history
      BY <1>1, <1>2 DEF HandleError
    <2> QED
      BY <1>1, <1>2, <2>1, JobFacts DEF ErrorStep
  <1>3. CASE state # "starting" /\ error = "fault"
    BY <1>1, <1>3 DEF HandleError, Fault, ErrorStep
  <1>4. CASE state # "starting" /\ error # "fault"
    <2>1. /\ job' = NoJob /\ state' = state /\ history' = history
          /\ goroutine' = CASE error = "fault_run" -> Goto("faulting")
                            [] error = "fail_run" -> Ending("failed", "engine_invariant")
                            [] error = "fail_stream" -> Erring("engine_invariant")
                            [] OTHER -> goroutine
      BY <1>1, <1>4 DEF HandleError
    <2>2. goroutine'.run = goroutine.run
      BY <2>1, SameRun
    <2> QED
      BY <1>1, <1>4, <2>1, <2>2 DEF ErrorStep
  <1> QED
    BY <1>2, <1>3, <1>4

\* The mutex is freed: a command is over, a run has ended or goes on.
DoneStep ==
  /\ job.writes = <<>> /\ job' = NoJob
  /\ \/ /\ job.after = "started" /\ state = "idle" /\ state' = "running"
        /\ acked' = acked \cup job.command /\ goroutine'.run = manifest.active
        /\ history' = history
     \/ /\ job.after = "rejected" /\ UNCHANGED <<state, acked, history, goroutine>>
     \/ /\ job.after \in {"done", "cancelled", "closed"} /\ state # "starting"
        /\ state' \in {state, "closed"} /\ goroutine' = goroutine
        /\ acked' = acked \cup job.command /\ history' = history
     \/ /\ job.after = "settle" /\ state = "running" /\ state' = "idle" /\ acked' = acked
        /\ \E e : Publishes(e) /\ e.ev.run = goroutine.run
     \/ /\ job.after \in AfterRun /\ state = "running" /\ state' = state
        /\ UNCHANGED <<acked, history>> /\ goroutine'.run = goroutine.run
     \/ /\ job.after \in AfterLoad /\ state = "starting" /\ state' \in {"idle", "closed"}
        /\ UNCHANGED <<acked, history, goroutine>>

LEMMA DoneFacts ==
  ASSUME IInv, Types, CommandDone \/ Settle \/ GoroutineGoesOn \/ Loaded
  PROVE  DoneStep
  <1>1. CASE CommandDone
    <2>1. PICK after \in {"done", "rejected", "started", "cancelled", "closed"} :
            /\ job.writes = <<>> /\ job.after = after /\ job' = NoJob
            /\ acked' = IF after = "rejected" THEN acked ELSE acked \cup job.command
            /\ state' = CASE after = "started" -> "running"
                          [] after = "closed" -> "closed"
                          [] OTHER -> state
            /\ goroutine' = IF after = "started"
                            THEN [NoGoroutine EXCEPT !.pc = "loop", !.run = manifest.active]
                            ELSE goroutine
      BY <1>1 DEF CommandDone, Finishes
    <2>2. history' = history
      BY <1>1 DEF CommandDone
    <2>3. state # "starting" /\ (after = "started" => state = "idle")
      BY <2>1 DEF IInv, JobInv, AfterRun, AfterLoad
    <2>4. after = "started" => goroutine'.run = manifest.active
      BY <2>1 DEF NoGoroutine
    <2> QED
      BY <2>1, <2>2, <2>3, <2>4 DEF DoneStep
  <1>2. CASE Settle
    <2> DEFINE e == [cursor |-> cursor,
                     ev |-> TerminalEvent(goroutine.run, goroutine.outcome, goroutine.cause)]
    <2>1. /\ job.writes = <<>> /\ job.after = "settle" /\ job' = NoJob /\ Publishes(e)
          /\ state' = "idle" /\ acked' = acked
      BY <1>2 DEF Settle, Finishes, Publishes
    <2>2. state = "running"
      BY <2>1 DEF IInv, JobInv, AfterLoad
    <2>3. e.ev.run = goroutine.run
      <3>1. /\ goroutine.run \in Nat /\ goroutine.cause \in FailureCauses \cup {""}
            /\ goroutine.outcome \in {"completed", "failed", "cancelled"}
        BY <2>1 DEF Types, GoroutineType, PlaceInv
      <3> QED
        BY <3>1, EventsTyped
    <2> QED
      BY <2>1, <2>2, <2>3 DEF DoneStep
  <1>3. CASE GoroutineGoesOn
    <2>1. PICK pc \in {"attempt", "sleep", "check", "calls", "tool", "exec"} :
            /\ job.writes = <<>> /\ job.after = pc /\ job' = NoJob /\ goroutine' = Goto(pc)
            /\ UNCHANGED <<state, history, acked>>
      BY <1>3 DEF GoroutineGoesOn, Finishes, counters
    <2>2. state = "running" /\ job.after \in AfterRun
      BY <2>1 DEF IInv, JobInv, AfterRun, AfterLoad
    <2>3. goroutine'.run = goroutine.run
      BY <2>1, SameRun
    <2> QED
      BY <2>1, <2>2, <2>3 DEF DoneStep
  <1>4. CASE Loaded
    <2>1. /\ job.writes = <<>> /\ job.after \in AfterLoad /\ job' = NoJob
          /\ state' \in {"idle", "closed"} /\ UNCHANGED <<history, acked, goroutine>>
      BY <1>4 DEF Loaded, Finishes, AfterLoad, counters
    <2>2. state = "starting"
      BY <2>1 DEF IInv, JobInv, AfterRun, AfterLoad
    <2> QED
      BY <2>1, <2>2 DEF DoneStep
  <1> QED
    BY <1>1, <1>2, <1>3, <1>4

FaultStep ==
  state = "running" /\ state' = "faulted" /\ job' = NoJob /\ UNCHANGED <<history, acked>>

LEMMA FaultFacts ==
  ASSUME IInv, FaultRun
  PROVE  FaultStep
  BY DEF FaultStep, FaultRun, Fault, At, IInv, ActiveInv, counters

EngineStep == RunStep \/ WriteStep \/ ErrorStep \/ DoneStep \/ FaultStep

LEMMA EngineSteps ==
  ASSUME IInv, Types, HoldsLock \/ WriteFails \/ ModelCall \/ ToolCalls \/ Provider \/ Loaded
  PROVE  EngineStep
  <1>1. CASE ModelCall \/ (ToolCalls /\ ~ FaultRun) \/ Provider
    BY <1>1, GoroutineRuns DEF EngineStep
  <1>2. CASE FaultRun
    BY <1>2, FaultFacts DEF EngineStep
  <1>3. CASE WriteSucceeds
    BY <1>3, WriteFacts DEF EngineStep
  <1>4. CASE WriteFails \/ EventRefused
    BY <1>4, ErrorFacts DEF EngineStep
  <1>5. CASE CommandDone \/ Settle \/ GoroutineGoesOn \/ Loaded
    BY <1>5, DoneFacts DEF EngineStep
  <1> QED
    BY <1>1, <1>2, <1>3, <1>4, <1>5 DEF HoldsLock

LEMMA EmitsKept ==
  ASSUME EmitsInv,
         \/ EngineStep \/ (\E cmd : CommandStep(cmd))
         \/ UNCHANGED <<state, job>> \/ job' = NoJob \/ state' = "starting"
  PROVE  EmitsInv'
  <1>1. job' = NoJob => EmitsInv'
    BY NoJobFacts, CallsOf DEF EmitsInv
  <1>2. CASE RunStep
    BY <1>2 DEF RunStep, SameMarkers, EmitsInv
  <1>3. CASE WriteStep
    BY <1>3, CallsOf DEF WriteStep, EmitsInv
  <1>4. CASE ErrorStep
    BY <1>1, <1>4 DEF ErrorStep, EmitsInv
  <1>5. CASE DoneStep
    BY <1>1, <1>5 DEF DoneStep
  <1>6. CASE FaultStep
    BY <1>1, <1>6 DEF FaultStep
  <1>7. CASE \E cmd : CommandStep(cmd)
    BY <1>7 DEF CommandStep, EmitsInv
  <1>8. CASE UNCHANGED <<state, job>>
    BY <1>8 DEF EmitsInv
  <1>9. CASE state' = "starting"
    BY <1>9 DEF EmitsInv
  <1> QED
    BY <1>1, <1>2, <1>3, <1>4, <1>5, <1>6, <1>7, <1>8, <1>9 DEF EngineStep
-----------------------------------------------------------------------------
(***************************************************************************)
(* The command line waits while the session goes on.                       *)
(***************************************************************************)
LEMMA LongerHistory ==
  ASSUME Types, NEW e, Publishes(e), NEW n \in Nat
  PROVE  /\ Len(history') = Len(history) + 1 /\ Len(history) \in Nat
         /\ \A i \in (n + 1)..Len(history') :
              \/ i \in (n + 1)..Len(history) /\ history'[i] = history[i]
              \/ history'[i] = e
  <1>1. history \in Seq(Store!EventEntry)
    BY DEF Types
  <1>2. /\ Len(history) \in Nat /\ Len(history') = Len(history) + 1
        /\ \A i \in 1..Len(history) : history'[i] = history[i]
        /\ history'[Len(history) + 1] = e
    BY <1>1 DEF Publishes
  <1> QED
    BY <1>2

\* An event that ends no run was published, or one that ends the run of the turn.
LEMMA EndsKept ==
  ASSUME Types, cli \in CliType, cli' = cli,
         history' = history \/ \E e : Publishes(e)
  PROVE  /\ /\ \/ history' = history
               \/ \E e : Publishes(e) /\ e.ev.kind \notin TerminalEvents
            /\ NoEndSince
            => NoEndSince'
         /\ /\ \/ history' = history
               \/ \E e : Publishes(e) /\ (e.ev.kind \in TerminalEvents => e.ev.run = cli.run)
            /\ OwnEndSince
            => OwnEndSince'
         /\ cli.seen <= Len(history) => cli'.seen <= Len(history')
  <1>1. cli.seen \in Nat
    BY DEF CliType
  <1>2. ASSUME \/ history' = history
               \/ \E e : Publishes(e) /\ e.ev.kind \notin TerminalEvents,
               NoEndSince
        PROVE  NoEndSince'
    <2>1. CASE history' = history
      BY <1>2, <2>1 DEF NoEndSince
    <2>2. ASSUME NEW e, Publishes(e), e.ev.kind \notin TerminalEvents
          PROVE  NoEndSince'
      <3>1. \A i \in (cli.seen + 1)..Len(history') :
              \/ i \in (cli.seen + 1)..Len(history) /\ history'[i] = history[i]
              \/ history'[i] = e
        BY <1>1, <2>2, LongerHistory
      <3> QED
        BY <1>2, <2>2, <3>1 DEF NoEndSince
    <2> QED
      BY <1>2, <2>1, <2>2
  <1>3. ASSUME \/ history' = history
               \/ \E e : Publishes(e) /\ (e.ev.kind \in TerminalEvents => e.ev.run = cli.run),
               OwnEndSince
        PROVE  OwnEndSince'
    <2>1. CASE history' = history
      BY <1>3, <2>1 DEF OwnEndSince
    <2>2. ASSUME NEW e, Publishes(e), e.ev.kind \in TerminalEvents => e.ev.run = cli.run
          PROVE  OwnEndSince'
      <3>1. \A i \in (cli.seen + 1)..Len(history') :
              \/ i \in (cli.seen + 1)..Len(history) /\ history'[i] = history[i]
              \/ history'[i] = e
        BY <1>1, <2>2, LongerHistory
      <3> QED
        BY <1>3, <2>2, <3>1 DEF OwnEndSince
    <2> QED
      BY <1>3, <2>1, <2>2
  <1>4. cli.seen <= Len(history) => cli'.seen <= Len(history')
    BY <1>1, LongerHistory
  <1> QED
    BY <1>2, <1>3, <1>4

LEMMA WhatIsPublished ==
  ASSUME EmitsInv, state # "starting", WriteStep
  PROVE  \/ history' = history
         \/ \E e : Publishes(e) /\ e.ev.kind \notin TerminalEvents
  <1>1. job.writes \in Seq(QuietCalls) /\ job.writes # <<>>
    BY DEF EmitsInv, WriteStep
  <1>2. Head(job.writes).op = "emit" => Head(job.writes).ev.kind \notin TerminalEvents
    BY <1>1, CallsOf DEF QuietCalls
  <1> QED
    BY <1>2 DEF WriteStep

LEMMA FollowingKept ==
  ASSUME IInv, Types, EmitsInv, cli \in CliType, cli' = cli, Following, EngineStep
  PROVE  Following'
  <1>0. NoEndSince => OwnEndSince
    BY DEF NoEndSince, OwnEndSince
  <1>1. CASE RunStep
    BY <1>1, EndsKept DEF RunStep, SameMarkers, Following, AfterRun
  <1>2. CASE WriteStep
    <2>1. \/ history' = history
          \/ \E e : Publishes(e) /\ e.ev.kind \notin TerminalEvents
      BY <1>2, WhatIsPublished DEF Following
    <2>2. OwnEndSince' /\ (NoEndSince => NoEndSince')
      BY <2>1, EndsKept DEF Following
    <2> QED
      BY <1>2, <2>2 DEF WriteStep, Following
  <1>3. CASE ErrorStep
    BY <1>3, NoJobFacts, EndsKept DEF ErrorStep, Following
  <1>4. CASE DoneStep
    <2>1. CASE job.after = "settle" /\ state = "running" /\ state' = "idle"
               /\ \E e : Publishes(e) /\ e.ev.run = goroutine.run
      <3>1. OwnEndSince'
        BY <2>1, EndsKept DEF Following
      <3> QED
        BY <1>4, <2>1, <3>1, NoJobFacts DEF DoneStep, Following
    <2>2. CASE history' = history
      <3>1. OwnEndSince' /\ (NoEndSince => NoEndSince')
        BY <2>2, EndsKept DEF Following
      <3> QED
        BY <1>4, <3>1, NoJobFacts DEF DoneStep, Following
    <2> QED
      BY <1>4, <2>1, <2>2 DEF DoneStep
  <1>5. CASE FaultStep
    BY <1>5, NoJobFacts, EndsKept DEF FaultStep, Following
  <1> QED
    BY <1>1, <1>2, <1>3, <1>4, <1>5 DEF EngineStep

LEMMA SubmittingKept ==
  ASSUME IInv, Types, EmitsInv, cli \in CliType, cli' = cli, cli.cmd # {}, Submitting, EngineStep
  PROVE  Submitting' \/ (Returned /\ Accepted /\ Following)' \/ Refused'
  <1>1. state = "idle"
    BY DEF Submitting
  <1>2. CASE WriteStep
    <2>1. NoEndSince'
      BY <1>1, <1>2, WhatIsPublished, EndsKept DEF Submitting
    <2>2. ASSUME Starts(job.writes, cli.run)
          PROVE  Starts(job.writes, cli.run)'
      <3>1. job.writes # <<>> /\ job'.writes = Tail(job.writes)
        BY <1>2 DEF WriteStep
      <3>2. CASE Head(job.writes).op = "begin" /\ manifest.nextRun + 1 = cli.run
                 /\ Tail(job.writes) \in Seq(LogCalls)
        BY <1>2, <3>1, <3>2 DEF WriteStep, Starts
      <3>3. CASE manifest.active = cli.run /\ job.writes \in Seq(LogCalls)
        <4>1. Head(job.writes).op \in {"append", "emit"} /\ Tail(job.writes) \in Seq(LogCalls)
          BY <3>1, <3>3, CallsOf DEF LogCalls
        <4> QED
          BY <1>2, <3>1, <3>3, <4>1 DEF WriteStep, Starts
      <3> QED
        BY <2>2, <3>2, <3>3 DEF Starts
    <2> QED
      BY <1>2, <2>1, <2>2 DEF WriteStep, Submitting
  <1>3. CASE ErrorStep
    BY <1>1, <1>3, NoJobFacts DEF ErrorStep, Submitting, Refused, Accepted, NoRunAhead, LockFree
  <1>4. CASE DoneStep
    <2>1. CASE job.after = "rejected"
      BY <1>1, <1>4, <2>1, NoJobFacts
         DEF DoneStep, Submitting, Refused, Accepted, NoRunAhead, LockFree, AfterRun, AfterLoad
    <2>2. CASE job.after = "started" /\ Starts(job.writes, cli.run)
      <3>1. /\ job.writes = <<>> /\ job' = NoJob /\ acked' = acked \cup job.command
            /\ state' = "running" /\ goroutine'.run = manifest.active /\ history' = history
        BY <1>4, <2>2 DEF DoneStep, AfterRun, AfterLoad
      <3>2. goroutine'.run = cli'.run
        BY <2>2, <3>1 DEF Starts
      <3>3. NoEndSince' /\ OwnEndSince'
        BY <3>1, EndsKept DEF Submitting, NoEndSince, OwnEndSince
      <3> QED
        BY <3>1, <3>2, <3>3, NoJobFacts DEF Submitting, Returned, Accepted, Following
    <2> QED
      BY <2>1, <2>2 DEF Submitting
  <1> QED
    BY <1>1, <1>2, <1>3, <1>4 DEF EngineStep, RunStep, FaultStep

\* While the mutex is free and no run is under way, the session does nothing.
LEMMA NothingRuns ==
  ASSUME IInv, LockFree, state # "running" PROVE ~ EngineStep
  <1>1. job.writes = <<>> /\ job.after = "free"
    BY NoJobFacts DEF LockFree
  <1> QED
    BY <1>1 DEF EngineStep, RunStep, WriteStep, ErrorStep, DoneStep, FaultStep, AfterRun, AfterLoad

LEMMA RestingKept ==
  ASSUME cli' = cli, RestingInv, EngineStep PROVE RestingInv'
  <1> SUFFICES ASSUME cli.pc \in AtRestPCs PROVE NoRunAhead'
    BY DEF RestingInv
  <1>1. state # "running" /\ job.after # "started"
    BY DEF RestingInv, NoRunAhead
  <1> QED
    BY <1>1, NoJobFacts
       DEF EngineStep, RunStep, WriteStep, ErrorStep, DoneStep, FaultStep, NoRunAhead, AfterRun,
           AfterLoad

LEMMA EngineKeeps ==
  ASSUME FInv, EngineStep, cli' = cli PROVE CliInv'
  <1> USE DEF FInv, CliInv
  <1>1. cli.pc # "none" => state' # "down"
    BY DEF EngineStep, RunStep, SameMarkers, WriteStep, ErrorStep, DoneStep, FaultStep
  <1>2. history' = history \/ \E e : Publishes(e)
    BY DEF EngineStep, RunStep, SameMarkers, WriteStep, ErrorStep, DoneStep, FaultStep
  <1>3. InTurn' => cli'.told = NoRun /\ cli'.seen <= Len(history')
    BY <1>2, EndsKept DEF TurnInv, InTurn
  <1>4. ~ Cli("submit")
    BY NothingRuns DEF TurnInv, NoRunAhead
  <1>5. Cli("submitting") =>
          Submitting' \/ (Returned /\ Accepted /\ Following)' \/ Refused'
    <2> SUFFICES ASSUME Cli("submitting")
                 PROVE  Submitting' \/ (Returned /\ Accepted /\ Following)' \/ Refused'
      OBVIOUS
    <2>1. CASE Submitting
      BY <2>1, SubmittingKept DEF TurnInv
    <2>2. CASE Returned /\ Accepted /\ Following
      <3>1. Following'
        BY <2>2, FollowingKept
      <3>2. acked \subseteq acked' /\ job'.command \in {job.command, {}}
        BY NoJobFacts DEF EngineStep, RunStep, SameMarkers, WriteStep, ErrorStep, DoneStep, FaultStep
      <3>3. cli.cmd # {}
        BY DEF TurnInv
      <3> QED
        BY <2>2, <3>1, <3>2, <3>3 DEF Returned, Accepted
    <2>3. CASE Refused
      BY <2>3, NothingRuns DEF Refused, NoRunAhead
    <2> QED
      BY <2>1, <2>2, <2>3 DEF TurnInv
  <1>6. cli.pc \in {"turn", "cancelling"} => Following'
    BY FollowingKept DEF TurnInv
  <1>7. TurnInv'
    BY <1>3, <1>4, <1>5, <1>6 DEF TurnInv, Cli
  <1> QED
    BY <1>1, <1>7, RestingKept

\* The command line moves while the session stands still, or begins a command.
LEMMA PromptKept ==
  ASSUME state' # "down", cli' \in CliType, cli'.pc \in AtRestPCs, NoRunAhead',
         cli'.told \in {NoRun, cli'.run}
  PROVE  CliInv'
  BY DEF CliInv, RestingInv, TurnInv, InTurn, Cli, AtRestPCs

LEMMA NobodyKept ==
  ASSUME cli' \in CliType, cli'.pc = "none" PROVE CliInv'
  BY DEF CliInv, RestingInv, TurnInv, InTurn, Cli, AtRestPCs

LEMMA CliRecords ==
  /\ NoCli \in CliType /\ Prompting \in CliType
  /\ NoCli.pc = "none" /\ NoCli.told = NoRun
  /\ Prompting.pc = "prompt" /\ Prompting.told = NoRun
  /\ \A pc \in CliPCs : /\ [NoCli EXCEPT !.pc = pc] \in CliType
                        /\ [NoCli EXCEPT !.pc = pc].pc = pc /\ [NoCli EXCEPT !.pc = pc].told = NoRun
  BY DEF NoCli, Prompting, CliType, CliPCs, NoRun

LEMMA CliMoves ==
  ASSUME cli \in CliType, NEW pc \in CliPCs
  PROVE  LET c == [cli EXCEPT !.pc = pc]
         IN  c \in CliType /\ c.pc = pc /\ c.cmd = cli.cmd /\ c.seen = cli.seen
             /\ c.run = cli.run /\ c.told = cli.told
  BY DEF CliType

LEMMA ReadLineKeeps ==
  ASSUME FInv, ReadLine PROVE CliInv'
  <1> USE DEF FInv, CliInv
  <1>1. /\ cli.pc = "prompt" /\ LockFree /\ NoRunAhead /\ state # "down"
        /\ cli' = [cli EXCEPT !.pc = "submit", !.seen = Len(history), !.told = NoRun]
        /\ UNCHANGED <<state, job, history>>
    BY DEF ReadLine, Cli, RestingInv, AtRestPCs, vars, memory
  <1>2. Len(history) \in Nat /\ NoRun \in Nat /\ "submit" \in CliPCs
    BY DEF Types, NoRun, CliPCs
  <1>3. cli' \in CliType /\ cli'.pc = "submit" /\ cli'.seen = Len(history) /\ cli'.told = NoRun
    BY <1>1, <1>2 DEF CliType
  <1>4. NoEndSince'
    BY <1>1, <1>2, <1>3 DEF NoEndSince
  <1>5. NoRunAhead' /\ LockFree'
    BY <1>1 DEF NoRunAhead, LockFree
  <1> QED
    BY <1>1, <1>2, <1>3, <1>4, <1>5 DEF RestingInv, AtRestPCs, TurnInv, InTurn, Cli

LEMMA ApplySubmitKeeps ==
  ASSUME FInv, ApplySubmit PROVE CliInv'
  <1> USE DEF FInv, CliInv
  <1>1. /\ cli.pc = "submit" /\ state # "down" /\ NoRunAhead /\ NoEndSince
        /\ cli.told = NoRun /\ cli.seen <= Len(history)
    BY DEF ApplySubmit, Cli, TurnInv, InTurn
  <1>2. ASSUME NEW cmd \in CommandIDs, Submit(cmd) \/ SubmitSensitive(cmd),
               cli' = [cli EXCEPT !.pc = "submitting", !.cmd = {cmd}, !.run = NextRun]
        PROVE  CliInv'
    <2>1. NextRun \in Nat /\ "submitting" \in CliPCs
      BY DEF NextRun, Types, Store!TypeOK, Store!Manifest, CliPCs
    <2>2. /\ cli' \in CliType /\ cli'.pc = "submitting" /\ cli'.cmd = {cmd} /\ cli'.run = NextRun
          /\ cli'.seen = cli.seen /\ cli'.told = NoRun
      BY <1>1, <1>2, <2>1 DEF CliType
    <2>3. /\ CommandStep(cmd) /\ state = "idle"
          /\ \/ job'.after = "rejected"
             \/ /\ job'.after = "started" /\ job'.writes # <<>> /\ Head(job'.writes).op = "begin"
                /\ Tail(job'.writes) \in Seq(LogCalls)
      BY <1>2, SubmitBegins, OthersBegin
    <2>4. /\ state' = "idle" /\ history' = history /\ acked' = acked /\ manifest' = manifest
          /\ job'.command = {cmd} /\ cmd \notin acked
      BY <2>3 DEF CommandStep
    <2>5. NoEndSince'
      BY <1>1, <2>2, <2>4 DEF NoEndSince
    <2>6. job'.after = "rejected" \/ (job'.after = "started" /\ Starts(job.writes, cli.run)')
      BY <2>2, <2>3, <2>4 DEF Starts, NextRun
    <2>7. Submitting'
      BY <2>2, <2>4, <2>5, <2>6 DEF Submitting
    <2> QED
      BY <1>1, <2>2, <2>4, <2>7 DEF RestingInv, AtRestPCs, TurnInv, InTurn, Cli
  <1>3. ASSUME GoesTo("prompt"), UNCHANGED vars
        PROVE  CliInv'
    <2>1. cli' \in CliType /\ cli'.pc = "prompt" /\ cli'.told = NoRun
      BY <1>1, <1>3, CliMoves DEF GoesTo, CliPCs
    <2>2. state' = state /\ NoRunAhead'
      BY <1>1, <1>3 DEF vars, memory, NoRunAhead
    <2> QED
      BY <1>1, <2>1, <2>2, PromptKept DEF AtRestPCs
  <1> QED
    BY <1>2, <1>3 DEF ApplySubmit

\* Nothing but the place of the command line changes.
LEMMA StillHere ==
  ASSUME FInv, UNCHANGED vars, NEW pc \in CliPCs, GoesTo(pc)
  PROVE  /\ cli' \in CliType /\ cli'.pc = pc /\ cli'.told = cli.told /\ cli'.run = cli.run
         /\ cli'.seen = cli.seen /\ cli'.cmd = cli.cmd
         /\ UNCHANGED <<state, job, history, acked, goroutine, manifest>>
         /\ (NoRunAhead => NoRunAhead') /\ (Following => Following')
  <1>1. UNCHANGED <<state, job, history, acked, goroutine, manifest>>
    BY DEF vars, memory, counters, storeVars
  <1>2. /\ cli' \in CliType /\ cli'.pc = pc /\ cli'.told = cli.told /\ cli'.run = cli.run
        /\ cli'.seen = cli.seen /\ cli'.cmd = cli.cmd
    BY CliMoves DEF GoesTo, FInv, CliInv
  <1>3. (NoRunAhead => NoRunAhead') /\ (Following => Following')
    BY <1>1, <1>2 DEF NoRunAhead, Following, OwnEndSince, NoEndSince
  <1> QED
    BY <1>1, <1>2, <1>3

LEMMA SubmitReturnsKeeps ==
  ASSUME FInv, SubmitReturns PROVE CliInv'
  <1> USE DEF FInv, CliInv
  <1>1. /\ cli.pc = "submitting" /\ job.command # cli.cmd /\ UNCHANGED vars
        /\ state # "down" /\ cli.told = NoRun /\ cli.seen <= Len(history)
        /\ (Accepted /\ Following) \/ (~ Accepted /\ NoRunAhead)
    BY DEF SubmitReturns, Cli, Returned, TurnInv, InTurn, Submitting, Refused
  <1>2. CASE Accepted
    <2>1. GoesTo("turn") /\ "turn" \in CliPCs
      BY <1>2 DEF SubmitReturns, CliPCs
    <2> QED
      BY <1>1, <1>2, <2>1, StillHere DEF RestingInv, AtRestPCs, TurnInv, InTurn, Cli
  <1>3. CASE ~ Accepted
    <2>1. GoesTo("prompt") /\ "prompt" \in CliPCs /\ "prompt" \in AtRestPCs
      BY <1>3 DEF SubmitReturns, CliPCs, AtRestPCs
    <2> QED
      BY <1>1, <1>3, <2>1, StillHere, PromptKept
  <1> QED
    BY <1>2, <1>3

LEMMA TakeEventKeeps ==
  ASSUME FInv, TakeEvent PROVE CliInv'
  <1> USE DEF FInv, CliInv
  <1> DEFINE ev == history[cli.seen + 1].ev
  <1>1. /\ cli.pc = "turn" /\ state # "down" /\ Following /\ cli.seen < Len(history)
        /\ cli.told = NoRun
        /\ cli' = [cli EXCEPT !.seen = @ + 1,
                              !.pc = IF ev.kind \in TerminalEvents THEN "prompt" ELSE @,
                              !.told = IF ev.kind \in TerminalEvents THEN ev.run ELSE @]
        /\ UNCHANGED <<state, job, history, acked, goroutine>>
    BY DEF TakeEvent, Cli, TurnInv, InTurn, vars, memory, counters
  <1>2. /\ cli.seen \in Nat /\ Len(history) \in Nat /\ cli.seen + 1 \in (cli.seen + 1)..Len(history)
        /\ ev.run \in Nat
    <2>1. cli.seen \in Nat /\ Len(history) \in Nat
      BY DEF CliType, Types
    <2>2. cli.seen + 1 \in 1..Len(history) /\ cli.seen + 1 \in (cli.seen + 1)..Len(history)
      BY <1>1, <2>1
    <2>3. history \in Seq([cursor : Nat, ev : Event])
      BY StoreSets DEF Types
    <2>4. history[cli.seen + 1] \in [cursor : Nat, ev : Event]
      BY <2>2, <2>3, ElementOfSeq
    <2> QED
      BY <2>1, <2>2, <2>4 DEF Event
  <1>3. CASE ev.kind \in TerminalEvents
    <2>1. ev.run = cli.run /\ state # "running"
      BY <1>1, <1>2, <1>3 DEF Following, OwnEndSince, NoEndSince
    <2>2. PICK n \in Nat, run \in Nat :
            run = ev.run /\ cli' = [cli EXCEPT !.pc = "prompt", !.seen = n, !.told = run]
      <3>1. cli' = [cli EXCEPT !.pc = "prompt", !.seen = cli.seen + 1, !.told = ev.run]
        BY <1>1, <1>3 DEF CliType
      <3>2. cli.seen + 1 \in Nat
        BY <1>2
      <3> HIDE DEF ev
      <3> QED
        BY <1>2, <3>1, <3>2
    <2> HIDE DEF ev
    <2>3. cli' \in CliType /\ cli'.pc = "prompt" /\ cli'.told = cli'.run
      BY <2>1, <2>2 DEF CliType, CliPCs
    <2>4. NoRunAhead'
      BY <1>1, <2>1 DEF NoRunAhead, Following
    <2> QED
      BY <1>1, <2>3, <2>4, PromptKept DEF AtRestPCs
  <1>4. CASE ev.kind \notin TerminalEvents
    <2>1. PICK n \in Nat :
            n = cli.seen + 1 /\ cli' = [cli EXCEPT !.pc = "turn", !.seen = n, !.told = NoRun]
      <3>1. cli' = [cli EXCEPT !.pc = "turn", !.seen = cli.seen + 1, !.told = NoRun]
        BY <1>1, <1>4 DEF CliType
      <3>2. cli.seen + 1 \in Nat
        BY <1>2
      <3> QED
        BY <3>1, <3>2
    <2> HIDE DEF ev
    <2>2. /\ cli' \in CliType /\ cli'.pc = "turn" /\ cli'.seen = cli.seen + 1 /\ cli'.run = cli.run
          /\ cli'.told = NoRun
      BY <2>1 DEF CliType, CliPCs, NoRun
    <2>3. (NoEndSince => NoEndSince') /\ OwnEndSince'
      BY <1>1, <1>2, <2>2 DEF Following, NoEndSince, OwnEndSince
    <2>4. Following'
      BY <1>1, <2>2, <2>3 DEF Following
    <2>5. cli'.seen <= Len(history')
      BY <1>1, <1>2, <2>2
    <2> QED
      BY <1>1, <2>2, <2>4, <2>5 DEF RestingInv, AtRestPCs, TurnInv, InTurn, Cli
  <1> QED
    BY <1>3, <1>4

LEMMA ObservationClosesKeeps ==
  ASSUME FInv, ObservationCloses PROVE CliInv'
  <1> USE DEF FInv, CliInv
  <1>1. /\ cli.pc = "turn" /\ state = "faulted" /\ Following /\ cli.told = NoRun
        /\ GoesTo("prompt") /\ UNCHANGED vars
    BY DEF ObservationCloses, Cli, TurnInv, InTurn
  <1>2. NoRunAhead
    BY <1>1 DEF Following, NoRunAhead
  <1>3. "prompt" \in CliPCs /\ "prompt" \in AtRestPCs
    BY DEF CliPCs, AtRestPCs
  <1> QED
    BY <1>1, <1>2, <1>3, StillHere, PromptKept

LEMMA TakeInterruptKeeps ==
  ASSUME FInv, TakeInterrupt PROVE CliInv'
  <1> USE DEF FInv, CliInv
  <1>1. /\ cli.pc = "turn" /\ state # "down" /\ Following /\ cli.told = NoRun
        /\ cli.seen <= Len(history)
    BY DEF TakeInterrupt, Cli, TurnInv, InTurn
  <1>2. ASSUME NEW cmd \in CommandIDs, Cancel(cmd), Applies(cmd, "cancelling")
        PROVE  CliInv'
    <2>1. /\ cli' \in CliType /\ cli'.pc = "cancelling" /\ cli'.seen = cli.seen
          /\ cli'.run = cli.run /\ cli'.told = NoRun
      BY <1>1, <1>2 DEF CliType, Applies, CliPCs
    <2>2. CommandStep(cmd) /\ job'.after = "cancelled"
      BY <1>2, OthersBegin
    <2>3. UNCHANGED <<state, history, goroutine>>
      BY <2>2 DEF CommandStep
    <2>4. Following'
      BY <1>1, <2>1, <2>2, <2>3 DEF Following, OwnEndSince, NoEndSince
    <2> QED
      BY <1>1, <2>1, <2>3, <2>4 DEF RestingInv, AtRestPCs, TurnInv, InTurn, Cli
  <1>3. ASSUME UNCHANGED <<vars, cli>> PROVE CliInv'
    <2>1. UNCHANGED <<state, job, history, acked, goroutine, cli>>
      BY <1>3 DEF vars, memory, counters
    <2>2. Following'
      BY <1>1, <2>1 DEF Following, OwnEndSince, NoEndSince
    <2> QED
      BY <1>1, <2>1, <2>2 DEF RestingInv, AtRestPCs, TurnInv, InTurn, Cli
  <1> QED
    BY <1>2, <1>3 DEF TakeInterrupt

LEMMA CancelReturnsKeeps ==
  ASSUME FInv, CancelReturns PROVE CliInv'
  <1> USE DEF FInv, CliInv
  <1>1. /\ cli.pc = "cancelling" /\ state # "down" /\ Following /\ cli.told = NoRun
        /\ cli.seen <= Len(history) /\ GoesTo("turn") /\ UNCHANGED vars /\ "turn" \in CliPCs
    BY DEF CancelReturns, Cli, TurnInv, InTurn, CliPCs
  <1> QED
    BY <1>1, StillHere DEF RestingInv, AtRestPCs, TurnInv, InTurn, Cli
-----------------------------------------------------------------------------
(***************************************************************************)
(* Processes begin and end; any other frontend.                            *)
(***************************************************************************)
LEMMA ResumesAndCloses ==
  ASSUME FInv, ApplyResume \/ ResumeReturns \/ ApplyClose \/ CloseReturns
  PROVE  CliInv'
  <1> USE DEF FInv, CliInv
  <1>1. /\ cli.pc \in {"starting", "resuming", "closing", "closed"} /\ state # "down"
        /\ NoRunAhead /\ cli.told \in {NoRun, cli.run}
    BY DEF ApplyResume, ResumeReturns, ApplyClose, CloseReturns, Cli, RestingInv, AtRestPCs
  <1>2. ASSUME NEW cmd \in CommandIDs, NEW pc \in {"resuming", "closed"}, Applies(cmd, pc),
               CommandStep(cmd), state \in {"idle", "closed"}, job'.after \in {"done", "closed"}
        PROVE  CliInv'
    <2>1. cli' \in CliType /\ cli'.pc = pc /\ cli'.told \in {NoRun, cli'.run}
      BY <1>1, <1>2 DEF CliType, Applies, CliPCs
    <2>2. NoRunAhead' /\ state' # "down"
      BY <1>2 DEF CommandStep, NoRunAhead
    <2> QED
      BY <1>2, <2>1, <2>2, PromptKept DEF AtRestPCs
  <1>3. ASSUME GoesTo("leaving"), UNCHANGED vars PROVE CliInv'
    <2>1. "leaving" \in CliPCs /\ "leaving" \in AtRestPCs
      BY DEF CliPCs, AtRestPCs
    <2> QED
      BY <1>1, <1>3, <2>1, StillHere, PromptKept
  <1>4. ASSUME cli' \in {Prompting, [NoCli EXCEPT !.pc = "leaving"]}, UNCHANGED vars
        PROVE  CliInv'
    <2>1. cli' \in CliType /\ cli'.pc \in {"prompt", "leaving"} /\ cli'.told = NoRun
      BY <1>4, CliRecords DEF CliPCs
    <2>2. NoRunAhead' /\ state' # "down"
      BY <1>1, <1>4 DEF NoRunAhead, vars, memory
    <2> QED
      BY <2>1, <2>2, PromptKept DEF AtRestPCs
  <1>5. CASE ApplyResume
    <2>1. ASSUME NEW cmd \in CommandIDs, Resume(cmd), Applies(cmd, "resuming") PROVE CliInv'
      BY <1>2, <2>1, OthersBegin
    <2> QED
      BY <1>3, <1>5, <2>1 DEF ApplyResume
  <1>6. CASE ApplyClose
    <2>1. ASSUME NEW cmd \in CommandIDs, Close(cmd), Applies(cmd, "closed") PROVE CliInv'
      BY <1>2, <2>1, OthersBegin
    <2> QED
      BY <1>6, <2>1 DEF ApplyClose
  <1> QED
    BY <1>3, <1>4, <1>5, <1>6 DEF ResumeReturns, CloseReturns

LEMMA StartsKeep ==
  ASSUME FInv, StartProcess PROVE CliInv'
  <1>1. PICK pc \in {"starting", "closing"} : cli' = [NoCli EXCEPT !.pc = pc]
    BY DEF StartProcess
  <1>2. /\ state' = "starting"
        /\ job' = Job((IF manifestFile.active = NoRun THEN <<>>
                       ELSE ReconcileWrites(manifestFile.active)) \o CloseWrites,
                      IF manifestFile.active = NoRun THEN "loaded" ELSE "reconciled")
    BY DEF StartProcess, Load
  <1>3. NoRunAhead'
    BY <1>2, JobFacts DEF NoRunAhead
  <1>4. cli' \in CliType /\ cli'.pc = pc /\ cli'.told = NoRun
    BY <1>1, CliRecords DEF CliPCs
  <1> QED
    BY <1>2, <1>3, <1>4, PromptKept DEF AtRestPCs

\* What the end of a process that left keeps of the session; its counter of
\* crashes stands still.
LEMMA ExitsKeep ==
  ASSUME IInv, Types, Store!Crash, Forgets, UNCHANGED crashes
  PROVE  IInv' /\ Types'
  <1>1. IInv'
    BY ForgetsGood DEF Store!Crash, Store!disk, Good
  <1>2. Store!TypeOK'
    BY DiesTyped DEF Types
  <1>3. crashes' \in Nat
    BY DEF Types
  <1> QED
    BY <1>1, <1>2, <1>3, ForgetsTyped

\* Every step is one of the session, but for the end of a process that left.
LEMMA SessionSteps ==
  ASSUME FInv, [CliNext]_allVars PROVE IInv' /\ Types'
  <1> USE DEF FInv
  <1>1. ASSUME [Next]_vars PROVE IInv' /\ Types'
    BY <1>1, NextGood, NextTyped DEF Good
  <1>2. CASE OtherFrontend \/ StartProcess \/ Engine
    BY <1>1, <1>2 DEF OtherFrontend, StartProcess, Engine, Next, NewSessionEnds
  <1>3. CASE ProcessEnds
    BY <1>1, <1>3 DEF ProcessEnds, Next, NewSessionEnds
  <1>4. CASE Signal \/ ReadLine \/ UNCHANGED allVars
    BY <1>1, <1>4 DEF Signal, ReadLine, allVars
  <1>5. CASE TakeInterrupt
    BY <1>1, <1>5 DEF TakeInterrupt, Next, Command
  <1>6. CASE CliGoesOn
    BY <1>1, <1>6
       DEF CliGoesOn, ApplySubmit, SubmitReturns, TakeEvent, ObservationCloses, CancelReturns,
           ApplyResume, ResumeReturns, ApplyClose, CloseReturns, Next, Command
  <1>7. CASE Exits
    BY <1>7, ExitsKeep DEF Exits
  <1> QED
    BY <1>2, <1>3, <1>4, <1>5, <1>6, <1>7 DEF CliNext

LEMMA EmitsNext ==
  ASSUME FInv, [CliNext]_allVars PROVE EmitsInv'
  <1> USE DEF FInv
  <1>1. CASE OtherFrontend
    <2>1. ASSUME NEW cmd \in CommandIDs, Command(cmd) PROVE EmitsInv'
      BY <2>1, CommandBegins, EmitsKept
    <2>2. ASSUME Shutdown \/ Load PROVE EmitsInv'
      BY <2>2, EmitsKept DEF Shutdown, Load
    <2> QED
      BY <1>1, <2>1, <2>2 DEF OtherFrontend
  <1>2. CASE Engine
    BY <1>2, EngineSteps, EmitsKept DEF Engine
  <1>3. CASE StartProcess
    BY <1>3, EmitsKept DEF StartProcess, Load
  <1>4. CASE ProcessEnds \/ Exits
    BY <1>4, EmitsKept DEF ProcessEnds, ProcessDies, LoadRefused, Exits, Forgets
  <1>5. CASE UNCHANGED vars
    BY <1>5, EmitsKept DEF vars, memory
  <1>6. ASSUME \E cmd \in CommandIDs : Command(cmd) PROVE EmitsInv'
    BY <1>6, CommandBegins, EmitsKept
  <1>7. CASE TakeInterrupt
    BY <1>5, <1>6, <1>7 DEF TakeInterrupt, Command, vars
  <1>8. CASE CliGoesOn
    BY <1>5, <1>6, <1>8
       DEF CliGoesOn, ApplySubmit, SubmitReturns, TakeEvent, ObservationCloses, CancelReturns,
           ApplyResume, ResumeReturns, ApplyClose, CloseReturns, Command
  <1>9. CASE Signal \/ ReadLine \/ UNCHANGED allVars
    BY <1>5, <1>9 DEF Signal, ReadLine, allVars
  <1> QED
    BY <1>1, <1>2, <1>3, <1>4, <1>7, <1>8, <1>9 DEF CliNext

LEMMA CliStands ==
  ASSUME FInv, UNCHANGED <<vars, cli>> PROVE CliInv'
  <1>1. UNCHANGED <<state, job, history, acked, goroutine, manifest, cli>>
    BY DEF vars, memory, counters, storeVars
  <1> QED
    BY <1>1 DEF FInv, CliInv, RestingInv, TurnInv, NoRunAhead, LockFree, NoEndSince, OwnEndSince,
                Submitting, Starts, Refused, Following, Returned, Accepted, InTurn, Cli

LEMMA CliKeeps ==
  ASSUME FInv, [CliNext]_allVars PROVE CliInv'
  <1>1. CASE OtherFrontend
    BY <1>1, NobodyKept DEF OtherFrontend, Cli, cliVars, FInv, CliInv
  <1>2. CASE Engine
    BY <1>2, EngineSteps, EngineKeeps DEF Engine, cliVars, FInv
  <1>3. CASE ProcessEnds \/ Exits
    BY <1>3, CliRecords, NobodyKept DEF ProcessEnds, Exits
  <1>4. CASE Signal \/ UNCHANGED allVars
    BY <1>4, CliStands DEF Signal, allVars, cliVars
  <1>5. CASE CliGoesOn
    BY <1>5, ApplySubmitKeeps, SubmitReturnsKeeps, TakeEventKeeps, ObservationClosesKeeps,
       CancelReturnsKeeps, ResumesAndCloses DEF CliGoesOn
  <1> QED
    BY <1>1, <1>2, <1>3, <1>4, <1>5, StartsKeep, ReadLineKeeps, TakeInterruptKeeps DEF CliNext

LEMMA CliInitInv == CliInit => FInv
  <1> SUFFICES ASSUME CliInit PROVE FInv
    OBVIOUS
  <1>1. IInv /\ Types
    BY InitInv, InitTyped DEF CliInit
  <1>2. state = "idle" /\ job = NoJob /\ cli \in {NoCli, Prompting}
    BY DEF CliInit, Init
  <1>3. EmitsInv
    BY <1>2, NoJobFacts, CallsOf DEF EmitsInv
  <1>4. CliInv
    BY <1>2, NoJobFacts, CliRecords
       DEF CliInv, RestingInv, TurnInv, InTurn, Cli, AtRestPCs, NoRunAhead
  <1> QED
    BY <1>1, <1>3, <1>4 DEF FInv

LEMMA CliNextInv == FInv /\ [CliNext]_allVars => FInv'
  BY SessionSteps, EmitsNext, CliKeeps DEF FInv
-----------------------------------------------------------------------------
\* Where the session stands wherever the command line is: a turn follows the
\* run it submitted, from its acknowledgement to the event that ends it, and
\* everywhere else no run is under way, nor about to be (interact main.go:215,
\* runTurn main.go:243, resume main.go:128, close main.go:180).
THEOREM FrontendInvariant == CliSpec => []FInv
  <1>1. CliInit => FInv
    BY CliInitInv
  <1>2. FInv /\ [CliNext]_allVars => FInv'
    BY CliNextInv
  <1> QED
    BY <1>1, <1>2, PTL DEF CliSpec

\* The prompt is back only when the run of the turn is over: no signal, no
\* refused command, no failed write and no other frontend brings it back while
\* a run is left behind, and the end a turn is told is the end of the run it
\* submitted (runTurn main.go:250).
THEOREM FrontendPromptIsHonest == CliSpec => []PromptIsHonest
  <1>1. FInv => PromptIsHonest
    BY DEF FInv, CliInv, RestingInv, PromptIsHonest, NoRunAhead, AtRestPCs, Cli
  <1> QED
    BY <1>1, FrontendInvariant, PTL

\* What the session acknowledged is on disk also between the processes of the
\* command line, whose exit is no crash the engine counts (shutdown
\* main.go:348, deferred by every form of it): a command acknowledged to one
\* process is known to the next.
THEOREM FrontendAckedIsDurable == CliSpec => []AckedIsDurable
  <1>1. FInv => AckedIsDurable
    BY DEF FInv, IInv, SeenInv, AckedIsDurable
  <1> QED
    BY <1>1, FrontendInvariant, PTL
=============================================================================
