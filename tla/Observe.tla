------------------------------ MODULE Observe ------------------------------
(***************************************************************************)
(* What an observer of a session is told: the snapshot of Session.Observe, *)
(* the events that follow it, and the critical sections in which the       *)
(* engine changes what they report.                                        *)
(*                                                                         *)
(* Every action of the engine is one hold of Session.mu, cut down to the   *)
(* events it publishes, the transcript facts these stand for, and the      *)
(* streamed text and active tool a snapshot shows.  Why a run takes one    *)
(* branch rather than another is the subject of Session and is a free      *)
(* choice here.                                                            *)
(***************************************************************************)
EXTENDS Subscribers, FiniteSets

VARIABLES state,       \* Session.state, until it is Faulted
          phase,       \* where the goroutine of the run is: "none", "calling",
                       \* "resetting", "calls", "tool", "finishing" or "faulting"
          history,     \* Session.history: the kinds, by cursor
          records,     \* Session.records: the facts that have an event
          partial,     \* Session.partial: the number of deltas in it
          activeTool,  \* Session.activeTool is set
          lost,        \* history variable: a write of the engine failed
          snapshot     \* the Snapshot of each observer

viewVars == <<partial, activeTool>>
engineVars == <<state, phase, history, records, viewVars, lost>>
vars == <<observationVars, engineVars, snapshot>>
-----------------------------------------------------------------------------
\* The transcript fact an event kind reports, where there is one; "run_ended"
\* is the terminal event of any outcome.
FactOf == [run_started |-> "user_message", assistant_text |-> "assistant_block",
           tool_finished |-> "tool_result", run_ended |-> "run_outcome",
           session_closed |-> "session_closed"]

NoSnapshot == [cursor |-> 0, records |-> 0, partial |-> 0, activeTool |-> FALSE]
-----------------------------------------------------------------------------
\* emitLocked, after the fact it reports was recorded, if there is one.
Emit(kind) ==
  /\ Publish
  /\ history' = Append(history, kind)
  /\ records' = IF kind \in DOMAIN FactOf THEN Append(records, FactOf[kind]) ELSE records
  /\ UNCHANGED <<lost, snapshot>>

\* Nothing is published in this hold of the mutex; recs are recorded.
Silently(recs) ==
  /\ records' = records \o recs
  /\ UNCHANGED <<observationVars, history, snapshot>>

\* A write failed, after recs were recorded, and the error ends the run.
WriteFails(recs) ==
  /\ phase' = "finishing" /\ lost' = TRUE
  /\ Silently(recs)

\* Seeded fault: the subscribers of a faulted session are left alone.
FaultKeepsSubscribers(recs) ==
  /\ ~ faulted /\ faulted' = TRUE
  /\ cursor' \in {cursor, cursor + 1}
  /\ phase' = "none" /\ lost' = TRUE
  /\ records' = records \o recs
  /\ partial' = 0 /\ activeTool' = FALSE
  /\ UNCHANGED <<published, subs, subscriberVars, frontendVars, state, history, snapshot>>

\* A write failed, after recs were recorded, and the session faults.
Fault(recs) ==
  /\ FaultSession
  /\ phase' = "none" /\ lost' = TRUE
  /\ records' = records \o recs
  /\ partial' = 0 /\ activeTool' = FALSE
  /\ UNCHANGED <<state, history, snapshot>>
-----------------------------------------------------------------------------
(***************************************************************************)
(* Apply.                                                                  *)
(***************************************************************************)
Idle == state = "idle" /\ ~ faulted

Submit ==
  /\ Idle
  /\ \/ /\ Emit("run_started")
        /\ state' = "running" /\ phase' = "calling"
        /\ UNCHANGED viewVars
     \/ \E recs \in {<<>>, <<"user_message">>} : Fault(recs) /\ UNCHANGED cursor

\* Resume, and a prompt in which a credential was detected.
Notice ==
  /\ Idle
  /\ \/ /\ \E kind \in {"warning", "session_resumed"} : Emit(kind)
        /\ UNCHANGED <<state, phase, viewVars>>
     \/ Fault(<<>>) /\ UNCHANGED cursor

Close ==
  /\ Idle
  /\ \/ /\ Emit("session_closed")
        /\ state' = "closed"
        /\ UNCHANGED <<phase, viewVars>>
     \/ \E recs \in {<<>>, <<"session_closed">>} : Fault(recs) /\ UNCHANGED cursor

Apply == Submit \/ Notice \/ Close
-----------------------------------------------------------------------------
(***************************************************************************)
(* The goroutine of the run.                                               *)
(***************************************************************************)

\* onText, and the withheld tail of the stream.
Delta ==
  /\ phase = "calling"
  /\ partial' = partial + 1
  /\ \/ Emit("assistant_delta") /\ UNCHANGED phase
     \/ WriteFails(<<>>)
  /\ UNCHANGED <<state, activeTool>>

ResetStream ==
  /\ phase = "calling"
  /\ partial' = 0
  /\ phase' = "resetting"
  /\ Silently(<<>>)
  /\ UNCHANGED <<state, activeTool, lost>>

RetryScheduled ==
  /\ phase = "resetting"
  /\ \/ Emit("retry_scheduled") /\ phase' = "calling"
     \/ WriteFails(<<>>)
  /\ UNCHANGED <<state, viewVars>>

AssistantText ==
  /\ phase = "calling"
  /\ partial' = 0
  /\ \/ Emit("assistant_text") /\ phase' \in {"calls", "finishing"}
     \/ \E recs \in {<<>>, <<"assistant_block">>} : WriteFails(recs)
  /\ UNCHANGED <<state, activeTool>>

\* A response cut by the length limit: its text is dropped without an event.
Truncated ==
  /\ phase = "calling"
  /\ partial' = 0
  /\ phase' \in {"calls", "finishing"}
  /\ Silently(<<>>)
  /\ UNCHANGED <<state, activeTool, lost>>

\* A response with calls and no text.
NoText ==
  /\ phase = "calling" /\ partial = 0
  /\ phase' = "calls"
  /\ Silently(<<>>)
  /\ UNCHANGED <<state, viewVars, lost>>

ToolStarted ==
  /\ phase = "calls"
  /\ \/ /\ Emit("tool_started")
        /\ activeTool' = TRUE /\ phase' = "tool"
        /\ UNCHANGED <<state, partial>>
     \/ Fault(<<>>) /\ UNCHANGED cursor

\* The result of an executed, blocked or skipped call.  A failed write faults
\* the session, but in a hold of the mutex of its own.
ToolFinished ==
  /\ phase \in {"calls", "tool"}
  /\ activeTool' = FALSE
  /\ \/ Emit("tool_finished") /\ phase' \in {"calls", "calling", "finishing"}
     \/ /\ phase' = "faulting" /\ lost' = TRUE
        /\ \E recs \in {<<>>, <<"tool_result">>} : Silently(recs)
  /\ UNCHANGED <<state, partial>>

\* appendToolCalls failed as well; the calls have no event.
FaultRun ==
  /\ phase \in {"calls", "faulting"}
  /\ Fault(<<>>) /\ UNCHANGED cursor

\* Seeded fault: the terminal event is published before the outcome is recorded.
FinishRunEventFirst ==
  \/ /\ phase \in {"calling", "finishing"}
     /\ Publish
     /\ history' = Append(history, "run_ended")
     /\ phase' = "recording"
     /\ UNCHANGED <<state, records, viewVars, lost, snapshot>>
  \/ /\ phase = "recording"
     /\ state' = "idle" /\ phase' = "none"
     /\ partial' = 0 /\ activeTool' = FALSE
     /\ Silently(<<"run_outcome">>)
     /\ UNCHANGED lost

\* finishRun.  The terminal event is published only when FinishRun succeeded;
\* its cursor is taken before.
FinishRun ==
  /\ phase \in {"calling", "finishing"}
  /\ \/ /\ Emit("run_ended")
        /\ state' = "idle" /\ phase' = "none"
        /\ partial' = 0 /\ activeTool' = FALSE
     \/ Fault(<<>>) /\ UNCHANGED cursor
     \/ Fault(<<"run_outcome">>)

Run ==
  \/ Delta \/ ResetStream \/ RetryScheduled
  \/ AssistantText \/ Truncated \/ NoText
  \/ ToolStarted \/ ToolFinished \/ FaultRun
  \/ FinishRun
-----------------------------------------------------------------------------
(***************************************************************************)
(* Observers.                                                              *)
(***************************************************************************)

\* Seeded fault: the snapshot leaves out the buffer of the running stream.
ConnectWithoutPartial(o) ==
  /\ Register(o)
  /\ snapshot' = [snapshot EXCEPT ![o] =
       [cursor |-> cursor, records |-> Len(records),
        partial |-> 0, activeTool |-> activeTool]]
  /\ UNCHANGED engineVars

\* Observe: registration and snapshot in one hold of the mutex.
Connect(o) ==
  /\ Register(o)
  /\ snapshot' = [snapshot EXCEPT ![o] =
       [cursor |-> cursor, records |-> Len(records),
        partial |-> partial, activeTool |-> activeTool]]
  /\ UNCHANGED engineVars

\* The steps that concern the delivery alone.
Deliver ==
  /\ \/ Shutdown
     \/ \E o \in Observers : Unsubscribe(o) \/ UnsubscribeCloses(o) \/ Receive(o) \/ Pump(o)
  /\ UNCHANGED <<engineVars, snapshot>>

Init ==
  /\ ObservationInit
  /\ state = "idle" /\ phase = "none"
  /\ history = <<>> /\ records = <<>>
  /\ partial = 0 /\ activeTool = FALSE /\ lost = FALSE
  /\ snapshot = [o \in Observers |-> NoSnapshot]

\* Bound: what the engine does after the last observer has gone is not followed.
Watched == \E o \in Observers : ~ left[o] /\ ~ closed[o]

Next ==
  \/ Watched /\ Apply
  \/ Watched /\ Run
  \/ Deliver
  \/ \E o \in Observers : Connect(o)

Spec == Init /\ [][Next]_vars

\* The pumps and whoever closes a subscriber go on.  Frontends may stop reading,
\* and the engine may stop anywhere.
DeliveryGoesOn(o) == (Pump(o) \/ UnsubscribeCloses(o)) /\ UNCHANGED <<engineVars, snapshot>>

FairSpec == Spec /\ \A o \in Observers : WF_vars(DeliveryGoesOn(o))
-----------------------------------------------------------------------------
(***************************************************************************)
(* Properties.                                                             *)
(***************************************************************************)

\* The cursors after the snapshot that the frontend has or will get.
News(o) == {c \in {Stream(o)[i] : i \in 1..Len(Stream(o))} : c > snapshot[o].cursor}
Latest(cursors) == CHOOSE c \in cursors : \A d \in cursors : d <= c

\* The streamed text a frontend shows that adds deltas to the text of the
\* snapshot and starts again at every other event.
ShownPartial(o) ==
  LET breaks == {c \in News(o) : history[c] # "assistant_delta"}
  IN  IF breaks = {} THEN snapshot[o].partial + Cardinality(News(o))
      ELSE Cardinality({c \in News(o) : c > Latest(breaks)})

\* The tool it shows as active.
ShownTool(o) ==
  LET changes == {c \in News(o) : history[c] \in {"tool_started", "tool_finished", "run_ended"}}
  IN  IF changes = {} THEN snapshot[o].activeTool
      ELSE history[Latest(changes)] = "tool_started"

\* A frontend that starts from the snapshot and applies the events after its
\* cursor ends up with the session's own streamed text and active tool,
\* whenever it connected and from whatever cursor.  Only between the reset of
\* the stream and the next event may it still show text the session dropped
\* (onText and resetStream, session.go:589-610; run, session.go:642-698).
ReplayAgrees ==
  \A o \in subs :
    /\ phase # "faulting" => ShownTool(o) = activeTool
    /\ phase \in {"none", "calling", "tool"} => ShownPartial(o) = partial
    /\ phase \in {"resetting", "calls"} => ShownPartial(o) = partial \/ partial = 0

\* The transcript of a snapshot holds the fact behind every event up to the
\* snapshot's cursor, and no fact whose event is still to come: what is
\* replayed from the transcript is not told again as an event.  A write that
\* failed may leave a fact without an event, never an event without its fact
\* (appendPayloadLocked and emitLocked under one lock, session.go:642-648, 843-880).
SnapshotIsACut ==
  \A o \in Observers : Observing(o) =>
    \A kind \in DOMAIN FactOf :
      LET told == {c \in 1..Len(history) : c <= snapshot[o].cursor /\ history[c] = kind}
          held == {i \in 1..snapshot[o].records : records[i] = FactOf[kind]}
      IN  /\ Cardinality(told) <= Cardinality(held)
          /\ ~ lost => Cardinality(told) = Cardinality(held)

\* What the engine does to its subscribers is what Subscribers allows, so what
\* holds of their streams there holds here (session.go:347, 905, 1048).
ImplementsSubscribers == ObservationSpec
=============================================================================
