---------------------------- MODULE Subscribers ----------------------------
(***************************************************************************)
(* The subscribers of one session and their pump goroutines: what becomes  *)
(* of the events the engine publishes.  An event is its cursor.  The       *)
(* engine is any sequence of publications until it faults; Observe says    *)
(* what it publishes and when.                                             *)
(***************************************************************************)
EXTENDS Naturals, Sequences

CONSTANTS Observers,   \* each observes once; who reconnects is another one
          MaxEvents    \* bound: events published

VARIABLES faulted,     \* Session.state is Faulted
          published,   \* the length of Session.history
          cursor,      \* Session.cursor
          subs,        \* Session.subs
          after,       \* the argument of Observe
          queue, wake, closed, done,  \* the subscriber
          pump,        \* program counter of subscriber.run
          offered,     \* its ev, while it is at the send
          received,    \* what the frontend read from Events
          left         \* unsubscribe was called

sessionVars == <<faulted, published, cursor>>
subscriberVars == <<queue, wake, closed, done, pump, offered>>
frontendVars == <<after, received, left>>
observationVars == <<sessionVars, subs, subscriberVars, frontendVars>>
-----------------------------------------------------------------------------
\* The cursors first+1, ..., last.
Cursors(first, last) == [i \in 1..(IF last > first THEN last - first ELSE 0) |-> first + i]

\* All that an observer was, is being, or is about to be sent.
Stream(o) == received[o] \o offered[o] \o queue[o]

Observing(o) == pump[o] # "none"
-----------------------------------------------------------------------------
(***************************************************************************)
(* What the engine does, with Session.mu held.                             *)
(***************************************************************************)

\* Seeded fault: an event is dropped while the subscriber has not woken up.
PublishIfAwake ==
  LET open == {o \in subs : ~ closed[o] /\ ~ wake[o]} IN
  /\ ~ faulted /\ cursor < MaxEvents
  /\ cursor' = cursor + 1
  /\ published' = published + 1
  /\ queue' = [o \in Observers |-> IF o \in open THEN Append(queue[o], cursor') ELSE queue[o]]
  /\ wake' = [o \in Observers |-> wake[o] \/ o \in open]
  /\ UNCHANGED <<faulted, subs, closed, done, pump, offered, frontendVars>>

\* persistEventLocked and publishEventLocked; enqueue puts a token into wake.
Publish ==
  LET open == {o \in subs : ~ closed[o]} IN
  /\ ~ faulted /\ cursor < MaxEvents
  /\ cursor' = cursor + 1
  /\ published' = published + 1
  /\ queue' = [o \in Observers |-> IF o \in open THEN Append(queue[o], cursor') ELSE queue[o]]
  /\ wake' = [o \in Observers |-> wake[o] \/ o \in open]
  /\ UNCHANGED <<faulted, subs, closed, done, pump, offered, frontendVars>>

\* The loops of faultSessionLocked and Shutdown; close(done) is CloseDone.
CloseSubscribers ==
  /\ subs' = {}
  /\ closed' = [o \in Observers |-> closed[o] \/ o \in subs]
  /\ queue' = [o \in Observers |-> IF o \in subs THEN <<>> ELSE queue[o]]
  /\ UNCHANGED <<published, wake, done, pump, offered, frontendVars>>

\* faultSessionLocked.  A terminal event that reached the log but could not be
\* finished has taken its cursor and is not published.
FaultSession ==
  /\ ~ faulted /\ faulted' = TRUE
  /\ cursor' \in {cursor, cursor + 1}
  /\ CloseSubscribers

\* The end of Shutdown; the WaitIdle before it may also have given up.
Shutdown ==
  /\ subs # {}
  /\ CloseSubscribers
  /\ UNCHANGED <<faulted, cursor>>

Engine == Publish \/ FaultSession \/ Shutdown
-----------------------------------------------------------------------------
(***************************************************************************)
(* The frontend.                                                           *)
(***************************************************************************)

\* Seeded fault: a new subscriber is woken by the next event only.
RegisterAsleep(o) ==
  /\ ~ Observing(o)
  /\ \E c \in 0..cursor :
       /\ after' = [after EXCEPT ![o] = c]
       /\ queue' = [queue EXCEPT ![o] = Cursors(c, published)]
  /\ subs' = subs \cup {o}
  /\ pump' = [pump EXCEPT ![o] = "select"]
  /\ UNCHANGED <<sessionVars, wake, closed, done, offered, received, left>>

\* Observe, with a cursor HighWaterMark or an event told the frontend earlier:
\* the cursor never goes back between holds of the mutex, so any up to now.
\* Subscribe is the case in which it read the cursor itself.
Register(o) ==
  /\ ~ Observing(o)
  /\ \E c \in 0..cursor :
       /\ after' = [after EXCEPT ![o] = c]
       /\ queue' = [queue EXCEPT ![o] = Cursors(c, published)]
       /\ wake' = [wake EXCEPT ![o] = published > c]
  /\ subs' = subs \cup {o}
  /\ pump' = [pump EXCEPT ![o] = "select"]
  /\ UNCHANGED <<sessionVars, closed, done, offered, received, left>>

\* unsubscribe: first off the list under Session.mu, then close.
Unsubscribe(o) ==
  /\ Observing(o) /\ ~ left[o]
  /\ left' = [left EXCEPT ![o] = TRUE]
  /\ subs' = subs \ {o}
  /\ UNCHANGED <<sessionVars, subscriberVars, after, received>>

UnsubscribeCloses(o) ==
  /\ left[o] /\ ~ closed[o]
  /\ closed' = [closed EXCEPT ![o] = TRUE]
  /\ queue' = [queue EXCEPT ![o] = <<>>]
  /\ UNCHANGED <<sessionVars, subs, wake, done, pump, offered, frontendVars>>

\* The frontend receives what the pump offers; it may be slow, or stop.
Receive(o) ==
  /\ pump[o] = "offer"
  /\ received' = [received EXCEPT ![o] = @ \o offered[o]]
  /\ offered' = [offered EXCEPT ![o] = <<>>]
  /\ pump' = [pump EXCEPT ![o] = "drain"]
  /\ UNCHANGED <<sessionVars, subs, after, left, queue, wake, closed, done>>

Frontend(o) == Register(o) \/ Unsubscribe(o) \/ UnsubscribeCloses(o) \/ Receive(o)
-----------------------------------------------------------------------------
(***************************************************************************)
(* subscriber.close and subscriber.run.                                    *)
(***************************************************************************)
CloseDone(o) ==
  /\ closed[o] /\ ~ done[o]
  /\ done' = [done EXCEPT ![o] = TRUE]
  /\ UNCHANGED <<sessionVars, subs, queue, wake, closed, pump, offered, frontendVars>>

PumpWakes(o) ==
  /\ pump[o] = "select" /\ wake[o]
  /\ wake' = [wake EXCEPT ![o] = FALSE]
  /\ pump' = [pump EXCEPT ![o] = "drain"]
  /\ UNCHANGED <<sessionVars, subs, queue, closed, done, offered, frontendVars>>

\* Seeded fault: the whole queue is taken, its first event sent.
PumpTakesAll(o) ==
  /\ pump[o] = "drain"
  /\ \/ /\ closed[o]
        /\ pump' = [pump EXCEPT ![o] = "gone"]
        /\ UNCHANGED <<queue, offered>>
     \/ /\ ~ closed[o] /\ queue[o] = <<>>
        /\ pump' = [pump EXCEPT ![o] = "select"]
        /\ UNCHANGED <<queue, offered>>
     \/ /\ ~ closed[o] /\ queue[o] # <<>>
        /\ pump' = [pump EXCEPT ![o] = "offer"]
        /\ offered' = [offered EXCEPT ![o] = <<Head(queue[o])>>]
        /\ queue' = [queue EXCEPT ![o] = <<>>]
  /\ UNCHANGED <<sessionVars, subs, wake, closed, done, frontendVars>>

\* One look at the queue, under the subscriber's mutex.
PumpTakes(o) ==
  /\ pump[o] = "drain"
  /\ \/ /\ closed[o]
        /\ pump' = [pump EXCEPT ![o] = "gone"]
        /\ UNCHANGED <<queue, offered>>
     \/ /\ ~ closed[o] /\ queue[o] = <<>>
        /\ pump' = [pump EXCEPT ![o] = "select"]
        /\ UNCHANGED <<queue, offered>>
     \/ /\ ~ closed[o] /\ queue[o] # <<>>
        /\ pump' = [pump EXCEPT ![o] = "offer"]
        /\ offered' = [offered EXCEPT ![o] = <<Head(queue[o])>>]
        /\ queue' = [queue EXCEPT ![o] = Tail(@)]
  /\ UNCHANGED <<sessionVars, subs, wake, closed, done, frontendVars>>

\* Seeded fault: the send does not watch done.
PumpDoneAtWakeOnly(o) ==
  /\ pump[o] = "select" /\ done[o]
  /\ pump' = [pump EXCEPT ![o] = "gone"]
  /\ UNCHANGED <<sessionVars, subs, queue, wake, closed, done, offered, frontendVars>>

\* At either select; an event still offered is dropped, and Events closes.
PumpDone(o) ==
  /\ pump[o] \in {"select", "offer"} /\ done[o]
  /\ pump' = [pump EXCEPT ![o] = "gone"]
  /\ offered' = [offered EXCEPT ![o] = <<>>]
  /\ UNCHANGED <<sessionVars, subs, queue, wake, closed, done, frontendVars>>

Pump(o) == CloseDone(o) \/ PumpWakes(o) \/ PumpTakes(o) \/ PumpDone(o)
-----------------------------------------------------------------------------
\* A session without a past; a loaded one differs in its first cursor only.
ObservationInit ==
  /\ faulted = FALSE /\ published = 0 /\ cursor = 0
  /\ subs = {}
  /\ after = [o \in Observers |-> 0]
  /\ queue = [o \in Observers |-> <<>>]
  /\ wake = [o \in Observers |-> FALSE]
  /\ closed = [o \in Observers |-> FALSE]
  /\ done = [o \in Observers |-> FALSE]
  /\ pump = [o \in Observers |-> "none"]
  /\ offered = [o \in Observers |-> <<>>]
  /\ received = [o \in Observers |-> <<>>]
  /\ left = [o \in Observers |-> FALSE]

ObservationNext == Engine \/ \E o \in Observers : Frontend(o) \/ Pump(o)

ObservationSpec == ObservationInit /\ [][ObservationNext]_observationVars
-----------------------------------------------------------------------------
(***************************************************************************)
(* Properties.                                                             *)
(***************************************************************************)

\* Every variable has its type.
ObservationTypeOK ==
  /\ faulted \in BOOLEAN /\ published \in Nat /\ cursor \in Nat
  /\ subs \in SUBSET Observers
  /\ after \in [Observers -> Nat]
  /\ queue \in [Observers -> Seq(Nat)]
  /\ wake \in [Observers -> BOOLEAN] /\ closed \in [Observers -> BOOLEAN]
  /\ done \in [Observers -> BOOLEAN] /\ left \in [Observers -> BOOLEAN]
  /\ pump \in [Observers -> {"none", "select", "drain", "offer", "gone"}]
  /\ offered \in [Observers -> Seq(Nat)] /\ received \in [Observers -> Seq(Nat)]

\* What an observer was and will be sent are the events after its cursor, in
\* order, without gap and without repetition, also while it is being closed
\* (enqueue and run, session.go:91-150; Observe, session.go:347).
Gapless ==
  \A o \in Observers : \A i \in 1..Len(Stream(o)) : Stream(o)[i] = after[o] + i

\* While an observer is registered it will be sent everything that was
\* published, whatever happened between reading its cursor and Observe and
\* however slowly it reads (session.go:347, publishEventLocked session.go:1048).
NothingMissed ==
  \A o \in subs : after[o] + Len(Stream(o)) >= published

\* A pump does not sleep on a queue that holds something: the token in wake
\* outlives the race of enqueue with the end of the inner loop (session.go:91-150).
NoLostWakeup ==
  \A o \in Observers : pump[o] = "select" /\ queue[o] # <<>> => wake[o]

\* The channel of an observation that was closed or left ends, also when
\* nobody reads from it: no pump stays behind (close and run, session.go:112-150).
ObservationEnds ==
  \A o \in Observers : (closed[o] \/ left[o]) ~> pump[o] = "gone"
=============================================================================
