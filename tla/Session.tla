------------------------------ MODULE Session ------------------------------
(***************************************************************************)
(* One session of internal/engine on top of its durable session: commands  *)
(* of the frontends, the goroutine of the active run, recovery after the   *)
(* process died, and the Faulted state after a failed write.               *)
(*                                                                         *)
(* A handler that holds Session.mu makes a fixed sequence of durable       *)
(* writes and then changes memory once.  `job' is that sequence: whoever   *)
(* takes the mutex fills it, one step performs its first write, and a last *)
(* step does what follows and frees the mutex.  The process can die, and a *)
(* write can fail, before, in and after every write.  The budget           *)
(* reservations of the run do not take the mutex and have steps of their   *)
(* own.  A rejected command changes nothing and is no step.                *)
(***************************************************************************)
EXTENDS Prompt, Integers

CONSTANTS CommandIDs,            \* the command IDs of the frontends
          MaxLogicalModelCalls, MaxTransportAttempts, MaxRetryDelay,
          MaxRetries,            \* retries of one model call (8)
          Delays,                \* retry delays, from the header or computed
          Answers,               \* responses a provider completes with
          ProviderFailures,      \* failure classes a provider reports
          Streams,               \* the provider streams its text
          SensitiveCalls,        \* calls in which a credential is detected
          HasInstructions,       \* the workspace has instruction files
          Mishaps,               \* what else may end a run: see MishapKinds
          FreshCallIDs,          \* no response reuses the call ID of an earlier one
          MaxDeltas,             \* bound: with as many deltas in the log, an attempt
                                 \* has no second one
          MaxCrashes,            \* bound: times the process dies
          MaxFailures            \* bound: writes that fail

VARIABLES transcriptLog, eventLog, torn, manifestFile,  \* SessionStore: the disk
          opened, manifest, failed,                     \* and the open handle
          state, records, history, cursor,              \* Session.state, ...
          partial,     \* Session.partial holds text
          activeTool,  \* Session.activeTool, or NoCall
          job,         \* what the holder of Session.mu still has to do
          goroutine,   \* run: program counter and locals
          cancelled,   \* the context of the run is cancelled
          acked,       \* commands for which Apply returned nil
          late,        \* transport attempts started after the cancellation
          tolerated,   \* a failed append that did not fault the session: see Tolerates
          crashes, failures

memory == <<state, records, history, cursor, partial, activeTool, job, goroutine, cancelled>>
counters == <<acked, late, tolerated, crashes, failures>>
storeVars == <<transcriptLog, eventLog, torn, manifestFile, opened, manifest, failed>>
vars == <<storeVars, memory, counters>>
-----------------------------------------------------------------------------
RunEvents == {"run_started", "assistant_delta", "assistant_text", "tool_started",
              "tool_finished", "retry_scheduled"}
TerminalEvents == {"run_completed", "run_failed", "run_cancelled"}
SessionEvents == {"warning", "session_resumed", "session_closed"}

\* An event without the text, the call and the times it carries.
Event == [kind : RunEvents \cup TerminalEvents \cup SessionEvents \cup {""},
          run : Nat, cause : FailureCauses \cup {""}]
Ev(kind, run) == [kind |-> kind, run |-> run, cause |-> ""]
NoEvent == Ev("", NoRun)

Store == INSTANCE SessionStore WITH
  Batches <- {}, Events <- Event, MaxRuns <- 0, MaxRecords <- 0, MaxEvents <- 0

FailureClasses == {"permanent", "protocol", "context_overflow", "output_limit",
                   "rate_limit", "transient", "overloaded"}
Retryable == {"rate_limit", "transient", "overloaded"}

\* failureCause of a provider failure.
CauseOf(class) ==
  CASE class = "permanent" -> "provider_permanent"
    [] class = "protocol" -> "provider_protocol"
    [] class = "context_overflow" -> "context_limit"
    [] class = "output_limit" -> "provider_output_limit"
    [] class \in Retryable -> "provider_transient_exhausted"

\* The assembled request exceeds the context window; the streamed text is not
\* the projection of the completed text.
MishapKinds == {"context_limit", "stream_disagrees"}

\* A completed response: is there text, was it cut by the length limit, and
\* the tool calls it proposes.
Answer == [text : BOOLEAN, length : BOOLEAN, calls : Seq(CallIDs)]
NoAnswer == [text |-> FALSE, length |-> FALSE, calls |-> <<>>]

ASSUME SessionAssumption ==
  /\ MaxLogicalModelCalls \in Nat /\ MaxTransportAttempts \in Nat
  /\ MaxRetryDelay \in Nat /\ MaxRetries \in Nat
  /\ Delays \subseteq Nat
  /\ Answers \subseteq Answer
  /\ ProviderFailures \subseteq FailureClasses
  /\ SensitiveCalls \subseteq CallIDs
  /\ Mishaps \subseteq MishapKinds
  /\ Streams \in BOOLEAN /\ HasInstructions \in BOOLEAN /\ FreshCallIDs \in BOOLEAN
  /\ MaxDeltas \in Nat /\ MaxCrashes \in Nat /\ MaxFailures \in Nat
-----------------------------------------------------------------------------
(***************************************************************************)
(* Writes and the jobs made of them.  onError says what the code does when *)
(* the write fails: return the error and nothing else, "fault" the session,*)
(* leave the mutex and then fault it ("fault_run"), or end the run         *)
(* ("fail_run", "fail_stream").                                            *)
(***************************************************************************)
Write(op, onError) == [op |-> op, recs |-> <<>>, ev |-> NoEvent, onError |-> onError]
AppendW(recs, onError) == [Write("append", onError) EXCEPT !.recs = recs]
EmitW(ev, onError) == [Write("emit", onError) EXCEPT !.ev = ev]
PersistW(ev, onError) == [Write("persist", onError) EXCEPT !.ev = ev]

NoJob == [command |-> {}, writes |-> <<>>, after |-> "free"]
LockFree == job = NoJob
Job(writes, after) == [command |-> {}, writes |-> writes, after |-> after]
CommandJob(cmd, writes, after) == [command |-> {cmd}, writes |-> writes, after |-> after]

NoGoroutine ==
  [pc |-> "none", run |-> NoRun, answer |-> NoAnswer, rest |-> <<>>,
   stopped |-> FALSE, blocked |-> FALSE, streamed |-> FALSE, retry |-> 0,
   delay |-> 0, outcome |-> "", cause |-> ""]

At(pc) == goroutine.pc = pc
Goto(pc) == [goroutine EXCEPT !.pc = pc]
\* The goroutine is about to call finishRun.
Ending(outcome, cause) ==
  [NoGoroutine EXCEPT !.pc = "finish", !.run = goroutine.run,
                      !.outcome = outcome, !.cause = cause]
\* completeWithRetry or onText returned an error.
Erring(cause) == [Goto("response_error") EXCEPT !.cause = cause]
-----------------------------------------------------------------------------
\* faultSessionLocked; the goroutine of a run returns with it.
Fault ==
  /\ state' = "faulted" /\ partial' = FALSE /\ activeTool' = NoCall
  /\ goroutine' = NoGoroutine /\ cancelled' = FALSE
  /\ job' = NoJob
  /\ UNCHANGED <<records, history, cursor>>

\* Seeded fault: an engine that ends the run when a result was not written.
HandleErrorNeverFaults(onError) ==
  /\ job' = NoJob
  /\ goroutine' = IF At("none") THEN goroutine ELSE Ending("failed", "engine_invariant")
  /\ UNCHANGED <<state, records, history, cursor, partial, activeTool, cancelled>>

\* NewSession returns every error; otherwise it is the write that decides.
HandleError(onError) ==
  \/ /\ state = "starting" /\ job' = Job(<<>>, "refused")
     /\ UNCHANGED <<state, records, history, cursor, partial, activeTool, goroutine, cancelled>>
  \/ state # "starting" /\ onError = "fault" /\ Fault
  \/ /\ state # "starting" /\ onError # "fault" /\ job' = NoJob
     /\ goroutine' = CASE onError = "fault_run" -> Goto("faulting")
                       [] onError = "fail_run" -> Ending("failed", "engine_invariant")
                       [] onError = "fail_stream" -> Erring("engine_invariant")
                       [] OTHER -> goroutine
     /\ UNCHANGED <<state, records, history, cursor, partial, activeTool, cancelled>>

\* The store operation of the first write of the job.
StoreWrite(w, result) ==
  \/ w.op = "begin" /\ \E cmd \in job.command : Store!BeginRun(cmd, result)
  \/ w.op = "record" /\ \E cmd \in job.command : Store!RecordCommand(cmd, result)
  \/ w.op = "append" /\ Store!AppendTranscript(w.recs, result)
  \/ w.op \in {"emit", "persist"} /\ Store!AppendEvent(cursor + 1, w.ev, result)
  \/ w.op = "finish" /\ Store!FinishRun(manifest.active, result)
  \/ w.op = "close" /\ Store!CloseStore(result)

WriteSucceeds ==
  /\ job.writes # <<>>
  /\ LET w == Head(job.writes)
         entry == [cursor |-> cursor + 1, ev |-> w.ev]
     IN  /\ StoreWrite(w, "ok")
         /\ records' = IF w.op = "append"
                       THEN records \o Numbered(manifest.transcriptSeq, w.recs) ELSE records
         /\ cursor' = IF w.op \in {"emit", "persist"} THEN cursor + 1 ELSE cursor
         /\ history' = IF w.op = "emit" THEN Append(history, entry) ELSE history
  /\ job' = [job EXCEPT !.writes = Tail(@)]
  /\ UNCHANGED <<state, partial, activeTool, goroutine, cancelled, counters>>

\* The run ends and the session goes on, after an append that did not complete
\* or one that completed without the manifest.
Tolerates(onError) ==
  tolerated' = IF onError \notin {"fail_run", "fail_stream"} THEN tolerated
               ELSE IF failed' THEN "incomplete" ELSE "unmarked"

WriteFails ==
  /\ job.writes # <<>> /\ failures < MaxFailures
  /\ \E result \in Store!AppendResults \ {"ok"} : StoreWrite(Head(job.writes), result)
  /\ HandleError(Head(job.writes).onError)
  /\ failures' = failures + 1
  /\ Tolerates(Head(job.writes).onError)
  /\ UNCHANGED <<acked, late, crashes>>

\* The store refuses an event whose cursor does not follow the handle's mark.
EventRefused ==
  /\ job.writes # <<>>
  /\ Head(job.writes).op \in {"emit", "persist"} /\ ~ Store!CursorFollows(cursor + 1)
  /\ HandleError(Head(job.writes).onError)
  /\ UNCHANGED <<storeVars, counters>>
-----------------------------------------------------------------------------
(***************************************************************************)
(* Apply: one action per command.  A command whose ID was seen, or that    *)
(* the state does not allow, is rejected and changes nothing.              *)
(***************************************************************************)
Takes(cmd) == LockFree /\ opened /\ cmd \notin manifest.seen

\* Only the mutex is taken and a job is started.
Begins(newJob) ==
  /\ job' = newJob
  /\ UNCHANGED <<storeVars, state, records, history, cursor, cancelled, counters>>

NextRun == manifest.nextRun + 1

Submit(cmd) ==
  /\ Takes(cmd) /\ state = "idle"
  /\ Begins(CommandJob(cmd,
       <<Write("begin", "fault"),
         AppendW(<<Fact("user_message", NextRun)>>, "fault")>>
         \o (IF HasInstructions
             THEN <<AppendW(<<Fact("instructions_loaded", NextRun)>>, "fault")>> ELSE <<>>)
         \o <<EmitW(Ev("run_started", NextRun), "fault")>>,
       "started"))
  /\ UNCHANGED <<partial, activeTool, goroutine>>

\* A prompt with a detected credential consumes its ID and starts no run.
SubmitSensitive(cmd) ==
  /\ Takes(cmd) /\ state = "idle"
  /\ Begins(CommandJob(cmd, <<Write("record", "return"), EmitW(Ev("warning", NoRun), "fault")>>,
                       "rejected"))
  /\ UNCHANGED <<partial, activeTool, goroutine>>

Cancel(cmd) ==
  /\ Takes(cmd) /\ state \in {"idle", "running", "closed"}
  /\ Begins(CommandJob(cmd, <<Write("record", "return")>>, "cancelled"))
  /\ UNCHANGED <<partial, activeTool, goroutine>>

Resume(cmd) ==
  /\ Takes(cmd) /\ state = "idle"
  /\ Begins(CommandJob(cmd, <<Write("record", "return"),
                              EmitW(Ev("session_resumed", NoRun), "fault")>>, "done"))
  /\ UNCHANGED <<partial, activeTool, goroutine>>

\* Seeded fault: the closing is announced before it is a fact.
CloseAnnouncedFirst(cmd) ==
  /\ Takes(cmd) /\ state \in {"idle", "closed"}
  /\ Begins(CommandJob(cmd,
       <<Write("record", "return")>>
         \o (IF state = "closed" THEN <<>>
             ELSE <<EmitW(Ev("session_closed", NoRun), "fault"),
                    AppendW(<<SessionClosed>>, "fault"), Write("close", "fault")>>),
       "closed"))
  /\ UNCHANGED <<partial, activeTool, goroutine>>

\* Closing a closed session only consumes the command.
Close(cmd) ==
  /\ Takes(cmd) /\ state \in {"idle", "closed"}
  /\ Begins(CommandJob(cmd,
       <<Write("record", "return")>>
         \o (IF state = "closed" THEN <<>>
             ELSE <<AppendW(<<SessionClosed>>, "fault"), Write("close", "fault"),
                    EmitW(Ev("session_closed", NoRun), "fault")>>),
       "closed"))
  /\ UNCHANGED <<partial, activeTool, goroutine>>

\* Shutdown cancels the run; waiting for it changes nothing.
Shutdown ==
  /\ LockFree /\ state = "running" /\ ~ cancelled
  /\ cancelled' = TRUE
  /\ UNCHANGED <<storeVars, state, records, history, cursor, partial, activeTool, job,
                 goroutine, counters>>
-----------------------------------------------------------------------------
\* What the holder of the mutex does after its last write; the mutex is free.
Finishes(after) == job.writes = <<>> /\ job.after = after /\ job' = NoJob

CommandDone ==
  /\ \E after \in {"done", "rejected", "started", "cancelled", "closed"} :
       /\ Finishes(after)
       /\ acked' = IF after = "rejected" THEN acked ELSE acked \cup job.command
       /\ state' = CASE after = "started" -> "running"
                     [] after = "closed" -> "closed"
                     [] OTHER -> state
       /\ goroutine' = IF after = "started"
                       THEN [NoGoroutine EXCEPT !.pc = "loop", !.run = manifest.active]
                       ELSE goroutine
       /\ cancelled' = IF after = "cancelled" THEN state = "running" \/ cancelled ELSE cancelled
  /\ UNCHANGED <<storeVars, records, history, cursor, partial, activeTool, late, tolerated, crashes,
                 failures>>

TerminalEvent(run, outcome, cause) ==
  CASE outcome = "completed" -> Ev("run_completed", run)
    [] outcome = "cancelled" -> Ev("run_cancelled", run)
    [] outcome = "failed" -> [Ev("run_failed", run) EXCEPT !.cause = cause]

\* Seeded fault: the goroutine does not return after finishRun.
SettleGoesOn ==
  /\ Finishes("settle")
  /\ history' = Append(history, [cursor |-> cursor,
       ev |-> TerminalEvent(goroutine.run, goroutine.outcome, goroutine.cause)])
  /\ state' = "idle" /\ partial' = FALSE /\ activeTool' = NoCall
  /\ goroutine' = Goto("loop") /\ cancelled' = FALSE /\ late' = 0
  /\ UNCHANGED <<storeVars, records, cursor, acked, tolerated, crashes, failures>>

\* The end of finishRun: publish the terminal event, become idle.
Settle ==
  /\ Finishes("settle")
  /\ history' = Append(history, [cursor |-> cursor,
       ev |-> TerminalEvent(goroutine.run, goroutine.outcome, goroutine.cause)])
  /\ state' = "idle" /\ partial' = FALSE /\ activeTool' = NoCall
  /\ goroutine' = NoGoroutine /\ cancelled' = FALSE /\ late' = 0
  /\ UNCHANGED <<storeVars, records, cursor, acked, tolerated, crashes, failures>>

\* The goroutine leaves the mutex and goes on.
GoroutineGoesOn ==
  /\ \E pc \in {"attempt", "sleep", "check", "calls", "tool", "exec"} :
       Finishes(pc) /\ goroutine' = Goto(pc)
  /\ UNCHANGED <<storeVars, state, records, history, cursor, partial, activeTool, cancelled,
                 counters>>

\* faultRun, in a mutex section of its own after the one whose write failed.
FaultRun ==
  /\ LockFree /\ At("faulting")
  /\ Fault
  /\ UNCHANGED <<storeVars, counters>>
-----------------------------------------------------------------------------
(***************************************************************************)
(* run: the model call.                                                    *)
(***************************************************************************)
\* Steps of the goroutine that touch its own locals only.
Moves(g) ==
  /\ goroutine' = g
  /\ UNCHANGED <<storeVars, state, records, history, cursor, partial, activeTool, job,
                 cancelled, counters>>

\* The head of the loop: context check, then the request is built.
LoopTop ==
  /\ At("loop") /\ LockFree
  /\ \/ cancelled /\ Moves(Ending("cancelled", ""))
     \/ ~ cancelled /\ Moves(Goto("reserve_call"))
     \/ ~ cancelled /\ "context_limit" \in Mishaps /\ Moves(Ending("failed", "context_limit"))

\* A reservation does not take Session.mu, only the store's.
Reserve(counter, amount, granted, exhausted, broken) ==
  /\ \/ /\ Store!ReserveBudget(goroutine.run, counter, amount, "ok")
        /\ goroutine' = granted
        /\ UNCHANGED failures
     \/ /\ Store!Exhausted(manifest.budgets[goroutine.run], counter, amount)
        /\ goroutine' = exhausted
        /\ UNCHANGED <<storeVars, failures>>
     \/ /\ failures < MaxFailures
        /\ \E result \in Store!ReplaceResults \ {"ok"} :
             Store!ReserveBudget(goroutine.run, counter, amount, result)
        /\ goroutine' = broken
        /\ failures' = failures + 1
  /\ UNCHANGED <<state, records, history, cursor, partial, activeTool, job, cancelled,
                 acked, tolerated, crashes>>

\* Any error of this reservation is reported as budget_exhausted.
ReserveCall ==
  /\ At("reserve_call")
  /\ Reserve("logical_model_call", 0,
             [Goto("reserve_attempt") EXCEPT !.retry = 0, !.streamed = FALSE],
             Ending("failed", "budget_exhausted"), Ending("failed", "budget_exhausted"))
  /\ UNCHANGED late

ReserveAttempt ==
  /\ At("reserve_attempt")
  /\ Reserve("transport_attempt", 0, Goto("attempt"),
             Erring("budget_exhausted"), Erring("engine_invariant"))
  /\ late' = IF cancelled /\ goroutine'.pc = "attempt" THEN late + 1 ELSE late

ReserveDelay ==
  /\ At("reserve_delay")
  /\ Reserve("retry_delay", goroutine.delay, Goto("retry"),
             Erring("budget_exhausted"), Erring("engine_invariant"))
  /\ UNCHANGED late

Deltas == {i \in DOMAIN history : history[i].ev.kind = "assistant_delta"}
MoreDeltas == goroutine.streamed => Cardinality(Deltas) < MaxDeltas

\* onText: a delta for each chunk of which the redactor lets something pass.
StreamDelta ==
  /\ At("attempt") /\ LockFree /\ Streams /\ MoreDeltas
  /\ partial' = TRUE
  /\ goroutine' = [goroutine EXCEPT !.streamed = TRUE]
  /\ Begins(Job(<<EmitW(Ev("assistant_delta", goroutine.run), "fail_stream")>>, "attempt"))
  /\ UNCHANGED activeTool

UsedCallIDs ==
  {records[i].rec.call : i \in {j \in DOMAIN records : records[j].rec.kind = "tool_call"}}

\* The call completes, even after the cancellation.
ProviderAnswers ==
  /\ At("attempt") /\ LockFree
  /\ \E a \in Answers :
       /\ FreshCallIDs => \A i \in DOMAIN a.calls : a.calls[i] \notin UsedCallIDs
       /\ Moves([Goto("answered") EXCEPT !.answer = a])

\* Seeded fault: a failure is retried without asking the context.
ProviderFailsUnasked ==
  /\ At("attempt") /\ LockFree
  /\ \E class \in ProviderFailures :
       IF class \notin Retryable \/ goroutine.retry >= MaxRetries
       THEN Moves(Erring(CauseOf(class)))
       ELSE \E d \in Delays : Moves([Goto("reserve_delay") EXCEPT !.delay = d])

ProviderFails ==
  /\ At("attempt") /\ LockFree
  /\ \E class \in ProviderFailures :
       IF cancelled \/ class \notin Retryable \/ goroutine.retry >= MaxRetries
       THEN Moves(Erring(CauseOf(class)))
       ELSE \E d \in Delays : Moves([Goto("reserve_delay") EXCEPT !.delay = d])

\* Seeded fault: the first attempt is sent without the context of the run.
ProviderCancelledRetriesOnly ==
  /\ At("attempt") /\ LockFree /\ cancelled /\ goroutine.retry > 0
  /\ Moves(Erring("engine_invariant"))

\* The transport gives up because the context is done.
ProviderCancelled ==
  /\ At("attempt") /\ LockFree /\ cancelled
  /\ Moves(Erring("engine_invariant"))

\* resetStream, then the retry is announced.
RetryStep ==
  /\ At("retry") /\ LockFree
  /\ partial' = FALSE
  /\ goroutine' = [goroutine EXCEPT !.streamed = FALSE]
  /\ Begins(Job(<<EmitW(Ev("retry_scheduled", goroutine.run), "fail_stream")>>, "sleep"))
  /\ UNCHANGED activeTool

\* sleepContext: when both are ready the select takes either; a parked
\* goroutine is woken by what happens first.
NextAttempt == [Goto("reserve_attempt") EXCEPT !.retry = @ + 1, !.delay = 0]

Sleep ==
  /\ At("sleep")
  /\ \/ ~ cancelled /\ Moves(Goto("parked"))
     \/ cancelled /\ Moves(NextAttempt)
     \/ cancelled /\ Moves(Erring("engine_invariant"))

\* Seeded fault: the timer is stopped before it fires.
WakeUpByCancelOnly ==
  /\ At("parked") /\ cancelled /\ Moves(Erring("engine_invariant"))

WakeUp ==
  /\ At("parked")
  /\ IF cancelled THEN Moves(Erring("engine_invariant")) ELSE Moves(NextAttempt)

\* The context is asked before the error.
ResponseError ==
  /\ At("response_error")
  /\ Moves(IF cancelled THEN Ending("cancelled", "") ELSE Ending("failed", goroutine.cause))
-----------------------------------------------------------------------------
(***************************************************************************)
(* run: the response and its tool calls.                                   *)
(***************************************************************************)
\* The redactor may have withheld a tail, and has when it let nothing pass of
\* a response with text.
Answered ==
  /\ At("answered") /\ LockFree
  /\ \/ /\ Streams /\ (goroutine.answer.text \/ goroutine.streamed) /\ MoreDeltas
        /\ partial' = TRUE
        /\ goroutine' = [goroutine EXCEPT !.streamed = TRUE]
        /\ Begins(Job(<<EmitW(Ev("assistant_delta", goroutine.run), "fail_stream")>>, "check"))
        /\ UNCHANGED activeTool
     \/ /\ ~ Streams \/ ~ goroutine.answer.text \/ goroutine.streamed
        /\ Moves(Goto("check"))

Disagrees ==
  /\ goroutine.streamed
  /\ ~ goroutine.answer.text \/ "stream_disagrees" \in Mishaps

MustAgree == goroutine.streamed => goroutine.answer.text

CheckResponse ==
  /\ At("check") /\ LockFree
  /\ LET a == goroutine.answer IN
     \/ cancelled /\ Moves(Ending("cancelled", ""))
     \/ ~ cancelled /\ Disagrees /\ Moves(Ending("failed", "engine_invariant"))
     \/ /\ ~ cancelled /\ MustAgree /\ a.length
        /\ partial' = FALSE
        /\ goroutine' = IF a.calls = <<>> THEN Ending("failed", "provider_output_limit")
                        ELSE Goto("calls")
        /\ UNCHANGED <<storeVars, state, records, history, cursor, activeTool, job, cancelled,
                       counters>>
     \/ /\ ~ cancelled /\ MustAgree /\ ~ a.length /\ a.text
        /\ partial' = FALSE
        /\ Begins(Job(<<AppendW(<<Fact("assistant_block", goroutine.run)>>, "fail_run"),
                        EmitW(Ev("assistant_text", goroutine.run), "fail_run")>>, "calls"))
        /\ UNCHANGED <<activeTool, goroutine>>
     \/ ~ cancelled /\ MustAgree /\ ~ a.length /\ ~ a.text /\ Moves(Goto("calls"))

NoRepeats(calls) == \A i, j \in DOMAIN calls : calls[i] = calls[j] => i = j

\* No context check here: a response without calls completes the run.
RecordCalls ==
  /\ At("calls") /\ LockFree
  /\ LET calls == goroutine.answer.calls IN
     \/ calls = <<>> /\ Moves(Ending("completed", ""))
     \/ ~ NoRepeats(calls) /\ Moves(Ending("failed", "provider_protocol"))
     \/ /\ calls # <<>> /\ NoRepeats(calls)
        /\ goroutine' = [goroutine EXCEPT !.rest = calls, !.answer = NoAnswer, !.streamed = FALSE,
                                          !.stopped = FALSE, !.blocked = FALSE]
        /\ Begins(Job(<<AppendW([i \in DOMAIN calls |-> ToolCall(goroutine.run, calls[i])],
                                "fault_run")>>, "tool"))
        /\ UNCHANGED <<partial, activeTool>>

\* Appends the result of the first call that is left.
FinishesTool(outcome) ==
  LET run == goroutine.run
      id == Head(goroutine.rest)
  IN  /\ goroutine' = [goroutine EXCEPT !.rest = Tail(@),
                         !.stopped = @ \/ outcome # "success",
                         !.blocked = @ \/ outcome = "blocked"]
      /\ activeTool' = NoCall
      /\ Begins(Job(<<AppendW(<<ToolResult(run, id, outcome)>>, "fault_run"),
                      EmitW(Ev("tool_finished", run), "fault_run")>>, "tool"))
      /\ UNCHANGED partial

NextTool ==
  /\ At("tool") /\ LockFree /\ goroutine.rest # <<>>
  /\ LET id == Head(goroutine.rest) IN
     \/ goroutine.stopped /\ FinishesTool("skipped")
     \/ ~ goroutine.stopped /\ id \in SensitiveCalls /\ FinishesTool("blocked")
     \/ /\ ~ goroutine.stopped /\ id \notin SensitiveCalls
        /\ activeTool' = id
        /\ Begins(Job(<<EmitW(Ev("tool_started", goroutine.run), "fault")>>, "exec"))
        /\ UNCHANGED <<partial, goroutine>>

\* Broker.Execute: the tool may finish although the context is done.
ExecuteTool ==
  /\ At("exec") /\ LockFree
  /\ \/ \E outcome \in {"success", "error"} : FinishesTool(outcome)
     \/ cancelled /\ FinishesTool("cancelled")

CallsDone ==
  /\ At("tool") /\ LockFree /\ goroutine.rest = <<>>
  /\ Moves(IF cancelled THEN Ending("cancelled", "")
           ELSE IF goroutine.blocked THEN Ending("failed", "sensitive_content_blocked")
           ELSE Goto("loop"))

\* Seeded faults: the four writes in another order, the terminal event
\* published with its write, and the context asked once more for its kind.
FinishRunBoundaryLast ==
  /\ At("finish") /\ LockFree
  /\ LET run == goroutine.run
         outcome == goroutine.outcome
     IN  Begins(Job(
           <<AppendW(<<RunOutcome(run, outcome, goroutine.cause)>>, "fault")>>
             \o (IF outcome = "cancelled"
                 THEN <<AppendW(<<Fact("cancellation_boundary", run)>>, "fault")>> ELSE <<>>)
             \o <<PersistW(TerminalEvent(run, outcome, goroutine.cause), "fault"),
                  Write("finish", "fault")>>,
           "settle"))
  /\ UNCHANGED <<partial, activeTool, goroutine>>

FinishRunMarkerFirst ==
  /\ At("finish") /\ LockFree
  /\ Begins(Job(
       <<Write("finish", "fault"),
         AppendW(<<RunOutcome(goroutine.run, goroutine.outcome, goroutine.cause)>>, "fault"),
         PersistW(TerminalEvent(goroutine.run, goroutine.outcome, goroutine.cause), "fault")>>,
       "settle"))
  /\ UNCHANGED <<partial, activeTool, goroutine>>

FinishRunPublishing ==
  /\ At("finish") /\ LockFree
  /\ Begins(Job(
       <<AppendW(<<RunOutcome(goroutine.run, goroutine.outcome, goroutine.cause)>>, "fault"),
         EmitW(TerminalEvent(goroutine.run, goroutine.outcome, goroutine.cause), "fault"),
         Write("finish", "fault")>>,
       "settle"))
  /\ UNCHANGED <<partial, activeTool, goroutine>>

FinishRunAskingAgain ==
  /\ At("finish") /\ LockFree
  /\ LET kind == IF cancelled THEN "cancelled" ELSE goroutine.outcome
     IN  Begins(Job(
           <<AppendW(<<RunOutcome(goroutine.run, goroutine.outcome, goroutine.cause)>>, "fault"),
             PersistW(TerminalEvent(goroutine.run, kind, goroutine.cause), "fault"),
             Write("finish", "fault")>>,
           "settle"))
  /\ UNCHANGED <<partial, activeTool, goroutine>>

\* finishRun: boundary, outcome, terminal event, then the active-run marker.
FinishRun ==
  /\ At("finish") /\ LockFree
  /\ LET run == goroutine.run
         outcome == goroutine.outcome
         cause == goroutine.cause
     IN  Begins(Job(
           (IF outcome = "cancelled"
            THEN <<AppendW(<<Fact("cancellation_boundary", run)>>, "fault")>> ELSE <<>>)
             \o <<AppendW(<<RunOutcome(run, outcome, cause)>>, "fault"),
                  PersistW(TerminalEvent(run, outcome, cause), "fault"),
                  Write("finish", "fault")>>,
           "settle"))
  /\ UNCHANGED <<partial, activeTool, goroutine>>
-----------------------------------------------------------------------------
(***************************************************************************)
(* The process dies, and the session is loaded again.                      *)
(***************************************************************************)
Forgets ==
  /\ state' = "down" /\ records' = <<>> /\ history' = <<>> /\ cursor' = 0
  /\ partial' = FALSE /\ activeTool' = NoCall /\ job' = NoJob
  /\ goroutine' = NoGoroutine /\ cancelled' = FALSE /\ late' = 0
  /\ UNCHANGED <<acked, tolerated, failures>>

ProcessDies ==
  /\ crashes < MaxCrashes
  /\ \/ Store!Crash
     \/ /\ job.writes # <<>>
        /\ LET w == Head(job.writes) IN
           \/ w.op = "append" /\ Store!CrashAppending(w.recs)
           \/ w.op \in {"emit", "persist"} /\ Store!CrashAppendingEvent(cursor + 1, w.ev)
  /\ Forgets
  /\ crashes' = crashes + 1

CloseFacts(entries) ==
  Cardinality({i \in DOMAIN entries : entries[i].rec.kind = "session_closed"})
CloseEvents(entries) ==
  Cardinality({i \in DOMAIN entries : entries[i].ev.kind = "session_closed"})

\* Seeded fault: a fact without the mark of the manifest is refused as well.
CloseConsistentExact ==
  LET facts == CloseFacts(transcriptLog)
      events == CloseEvents(eventLog)
  IN  /\ facts <= 1 /\ events <= 1
      /\ manifestFile.closed <=> facts = 1
      /\ events > 0 => facts = 1

CloseConsistent ==
  LET facts == CloseFacts(transcriptLog)
      events == CloseEvents(eventLog)
  IN  /\ facts <= 1 /\ events <= 1
      /\ manifestFile.closed => facts = 1
      /\ events > 0 => facts = 1
      /\ facts = 1 => manifestFile.active = NoRun

HasOutcome(entries, run) ==
  \E i \in DOMAIN entries : entries[i].rec.kind = "run_outcome" /\ entries[i].rec.run = run
HasTerminalEvent(entries, run) ==
  \E i \in DOMAIN entries : entries[i].ev.kind \in TerminalEvents /\ entries[i].ev.run = run

\* Seeded fault: the terminal event is written again although it is there.
ReconcileWritesAlways(run) ==
  [i \in DOMAIN RepairRecords(transcriptLog, run) |->
     AppendW(<<RepairRecords(transcriptLog, run)[i]>>, "return")]
    \o <<EmitW([Ev("run_failed", run) EXCEPT !.cause = "interrupted"], "return"),
         Write("finish", "return")>>

\* reconcileInterrupted: repair the transcript, add the terminal event, clear
\* the marker; what is already there is not written again.
ReconcileWrites(run) ==
  LET repair == RepairRecords(transcriptLog, run)
  IN  (IF HasOutcome(transcriptLog, run) THEN <<>>
       ELSE [i \in DOMAIN repair |-> AppendW(<<repair[i]>>, "return")])
        \o (IF HasTerminalEvent(eventLog, run) THEN <<>>
            ELSE <<EmitW([Ev("run_failed", run) EXCEPT !.cause = "interrupted"], "return")>>)
        \o <<Write("finish", "return")>>

\* A close that was cut short is completed.
CloseWrites ==
  IF CloseFacts(transcriptLog) = 0 THEN <<>>
  ELSE (IF manifestFile.closed THEN <<>> ELSE <<Write("close", "return")>>)
         \o (IF CloseEvents(eventLog) > 0 THEN <<>>
             ELSE <<EmitW(Ev("session_closed", NoRun), "return")>>)

\* Seeded fault: the cursor is the mark of the manifest file.
LoadStaleCursor ==
  /\ state = "down" /\ Store!Open /\ CloseConsistent
  /\ LET run == manifestFile.active IN
     /\ run # NoRun /\ ~ HasOutcome(transcriptLog, run) => ~ OtherRunLeftOpen(transcriptLog, run)
     /\ job' = Job((IF run = NoRun THEN <<>> ELSE ReconcileWrites(run)) \o CloseWrites,
                   IF run = NoRun THEN "loaded" ELSE "reconciled")
  /\ state' = "starting"
  /\ records' = transcriptLog /\ history' = eventLog /\ cursor' = manifestFile.eventCursor
  /\ UNCHANGED <<partial, activeTool, goroutine, cancelled, counters>>

\* Load: store.Open and NewSession up to its writes.
Load ==
  /\ state = "down" /\ Store!Open /\ CloseConsistent
  /\ LET run == manifestFile.active IN
     /\ run # NoRun /\ ~ HasOutcome(transcriptLog, run) => ~ OtherRunLeftOpen(transcriptLog, run)
     /\ job' = Job((IF run = NoRun THEN <<>> ELSE ReconcileWrites(run)) \o CloseWrites,
                   IF run = NoRun THEN "loaded" ELSE "reconciled")
  /\ state' = "starting"
  /\ records' = transcriptLog /\ history' = eventLog /\ cursor' = Len(eventLog)
  /\ UNCHANGED <<partial, activeTool, goroutine, cancelled, counters>>

\* The end of NewSession.
Loaded ==
  /\ \/ Finishes("loaded")
     \/ Finishes("reconciled") /\ ValidateTranscript(records)
  /\ state' = IF CloseFacts(records) = 1 THEN "closed" ELSE "idle"
  /\ UNCHANGED <<storeVars, records, history, cursor, partial, activeTool, goroutine, cancelled,
                 counters>>

\* NewSession returns an error and the handle is dropped.
LoadRefused ==
  /\ job.writes = <<>>
  /\ \/ job.after = "refused"
     \/ job.after = "reconciled" /\ ~ ValidateTranscript(records)
  /\ Store!Crash /\ Forgets
  /\ UNCHANGED crashes
-----------------------------------------------------------------------------
\* CreateSession: a new session directory and its first Session.
Init ==
  /\ Store!Init
  /\ state = "idle" /\ records = <<>> /\ history = <<>> /\ cursor = 0
  /\ partial = FALSE /\ activeTool = NoCall /\ job = NoJob
  /\ goroutine = NoGoroutine /\ cancelled = FALSE
  /\ acked = {} /\ late = 0 /\ tolerated = "none" /\ crashes = 0 /\ failures = 0

Command(cmd) ==
  \/ Submit(cmd) \/ SubmitSensitive(cmd) \/ Cancel(cmd) \/ Resume(cmd) \/ Close(cmd)

HoldsLock == WriteSucceeds \/ EventRefused \/ CommandDone \/ Settle \/ GoroutineGoesOn

ModelCall ==
  \/ LoopTop \/ ReserveCall \/ ReserveAttempt \/ ReserveDelay \/ RetryStep \/ Sleep \/ WakeUp
  \/ ResponseError \/ Answered \/ CheckResponse

ToolCalls ==
  RecordCalls \/ NextTool \/ ExecuteTool \/ CallsDone \/ FinishRun \/ FaultRun

NewSessionEnds == Loaded \/ LoadRefused

Provider == StreamDelta \/ ProviderAnswers \/ ProviderFails \/ ProviderCancelled

Next ==
  \/ \E cmd \in CommandIDs : Command(cmd)
  \/ Shutdown
  \/ HoldsLock \/ WriteFails
  \/ ModelCall \/ ToolCalls
  \/ Provider
  \/ Load \/ NewSessionEnds
  \/ ProcessDies

Spec == Init /\ [][Next]_vars
-----------------------------------------------------------------------------
PCs == {"none", "loop", "reserve_call", "reserve_attempt", "attempt", "answered",
        "reserve_delay", "retry", "sleep", "parked", "response_error", "check",
        "calls", "tool", "exec", "finish", "faulting"}

TypeOK ==
  /\ Store!TypeOK
  /\ state \in {"down", "starting", "idle", "running", "closed", "faulted"}
  /\ records \in Seq(Entry) /\ history \in Seq(Store!EventEntry) /\ cursor \in Nat
  /\ partial \in BOOLEAN /\ activeTool \in CallIDs \cup {NoCall}
  /\ job.command \subseteq CommandIDs
  /\ \A i \in DOMAIN job.writes :
       job.writes[i].ev \in Event /\ job.writes[i].recs \in Seq(Record)
  /\ goroutine.pc \in PCs /\ goroutine.answer \in Answer
  /\ cancelled \in BOOLEAN /\ tolerated \in {"none", "unmarked", "incomplete"} /\ acked \subseteq CommandIDs
  /\ {late, crashes, failures} \subseteq Nat
  /\ (state = "running") <=> ~ At("none")

Outcomes(run) ==
  {i \in DOMAIN transcriptLog :
     transcriptLog[i].rec.kind = "run_outcome" /\ transcriptLog[i].rec.run = run}
Terminals(run) ==
  {i \in DOMAIN eventLog : eventLog[i].ev.kind \in TerminalEvents /\ eventLog[i].ev.run = run}

\* A run ends once: one outcome record, at most one terminal event, and that
\* event never before the record; and as long as one is missing, the active-run
\* marker names the run, so that the next Load settles it (finishRun
\* session.go:843, reconcileInterrupted session.go:1055).
EndsOnce ==
  \A run \in 1..manifestFile.nextRun :
    /\ Outcomes(run) = {} \/ Terminals(run) = {} => manifestFile.active = run
    /\ Cardinality(Outcomes(run)) <= 1
    /\ Cardinality(Terminals(run)) <= Cardinality(Outcomes(run))

\* The records of one run are not mixed with those of another, and nothing
\* of a run follows its outcome.
RunsAreBlocks ==
  \A i, j \in DOMAIN transcriptLog :
    i < j /\ transcriptLog[i].rec.run # NoRun =>
      /\ transcriptLog[i].rec.kind = "run_outcome"
           => transcriptLog[j].rec.run # transcriptLog[i].rec.run
      /\ transcriptLog[j].rec.run # NoRun => transcriptLog[i].rec.run <= transcriptLog[j].rec.run

\* Whenever a request is sent, its context is a loadable transcript, unless the
\* append of an answer failed and was tolerated, which leaves a gap in the records
\* (run session.go:572, appendPayloadLocked session.go:969).
ContextLoads == At("attempt") /\ tolerated = "none" => ValidateTranscript(records)

\* And of the messages it becomes, every batch of tool calls is followed by the
\* results of exactly these calls in their order, whatever was skipped, blocked,
\* cancelled or interrupted (recordsToMessages assembler.go:92).
ContextIsPaired ==
  At("attempt") /\ tolerated = "none" =>
    ContextLoads /\ CallsAnswered(RecordsToMessages(records))

\* A session at rest holds in memory what is on disk, and no run is open.
AtRest ==
  state \in {"idle", "closed"} /\ LockFree /\ tolerated = "none" =>
    /\ records = transcriptLog /\ history = eventLog /\ cursor = Len(eventLog)
    /\ manifest.active = NoRun
    /\ ValidateTranscript(records)
    /\ ~ partial /\ activeTool = NoCall
    /\ \A run \in 1..manifest.nextRun : Cardinality(Terminals(run)) = 1
    /\ state = "closed" <=> CloseFacts(records) = 1

\* No two events of the session have the same cursor, and cursors increase in
\* the order the events were written (persistEventLocked, session.go:1027).
CursorsIncrease ==
  \A i, j \in DOMAIN eventLog : i < j => eventLog[i].cursor < eventLog[j].cursor

\* NewSession, run on what is on disk now, would not refuse it: not after a
\* crash between any two writes and not after a failed one.  Only a partial
\* final line cannot be loaded, nor what was written after a tolerated failure.
Reopenable ==
  ~ torn /\ tolerated # "incomplete" =>
    /\ Store!BookkeepingLoads /\ ValidateRecords(transcriptLog)
    /\ CloseConsistent
    /\ LET run == manifestFile.active IN
       run # NoRun =>
         IF HasOutcome(transcriptLog, run) THEN ValidateTranscript(transcriptLog)
         ELSE /\ ~ OtherRunLeftOpen(transcriptLog, run)
              /\ ValidateTranscript(transcriptLog
                   \o Numbered(Len(transcriptLog), RepairRecords(transcriptLog, run)))

\* After Apply returned nil the command ID is consumed for ever.
AckedIsDurable == acked \subseteq manifestFile.seen

\* What a subscriber has seen is on disk, and a terminal event it has seen
\* means that no restart will touch the run again.
PublishedIsDurable ==
  opened => \A i \in DOMAIN history :
    /\ \E j \in DOMAIN eventLog : eventLog[j] = history[i]
    /\ (history[i].ev.kind \in TerminalEvents /\ state # "starting")
         => manifestFile.active # history[i].ev.run

\* After the cancellation at most one more transport attempt is started
\* (completeWithRetry, session.go:733; sleepContext, session.go:803).
LittleLateWork == late <= 1

\* The terminal event of a run reports the outcome the transcript records
\* (finishRun session.go:856-863, reconcileInterrupted session.go:1085).
TerminalAgrees ==
  \A run \in 1..manifestFile.nextRun : \A i \in Outcomes(run), j \in Terminals(run) :
    LET rec == transcriptLog[i].rec
        reported == IF rec.outcome = "interrupted" THEN "failed" ELSE rec.outcome
    IN  eventLog[j].ev = TerminalEvent(run, reported, rec.cause)

\* Once an append did not complete in its log file, the process writes to
\* neither log again (Faulted, session.go:905), unless it was the append of
\* streamed text, of an answer or of a retry (session.go:597, 618, 644, 769).
FailClosed ==
  [][failed /\ tolerated # "incomplete" /\ opened' => UNCHANGED <<transcriptLog, eventLog>>]_vars

\* The disk alone, at every moment, is a lifecycle of runs.
OutcomeOf(run) ==
  IF Outcomes(run) = {} THEN "active"
  ELSE transcriptLog[CHOOSE i \in Outcomes(run) : TRUE].rec.outcome

Lifecycle == INSTANCE RunLifecycle WITH
  runs <- [run \in 1..manifestFile.nextRun |-> OutcomeOf(run)],
  closed <- CloseFacts(transcriptLog) > 0

\* Whatever the process, its crashes and its failing writes do.
ImplementsLifecycle == Lifecycle!Spec

\* Cancellation reaches every blocking operation: a cancelled run ends, in
\* this process or by its death (session.go:297, session.go:488).
CancelledRunEnds == cancelled ~> ~ cancelled

\* A run that never ends waits for its provider and for nothing else.
OnlyProviderBlocks == <>[](state = "running") => <>[]At("attempt")

\* Unless a log ends in a partial line, or was written to after a tolerated
\* failure, a session that went down is loaded again and is idle or closed.
ComesBack ==
  (state = "down" /\ ~ torn /\ tolerated # "incomplete")
    ~> (state \in {"idle", "closed"} \/ torn)
=============================================================================
