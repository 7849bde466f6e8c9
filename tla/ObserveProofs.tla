---------------------------- MODULE ObserveProofs ----------------------------
(***************************************************************************)
(* What every observer of a session is sent, for any number of observers   *)
(* and events: first of the streams of Subscribers alone, then of the      *)
(* engine that publishes to them, which is one of its clients.             *)
(***************************************************************************)
EXTENDS Observe, FiniteSetTheorems, SequenceTheorems, TLAPS

-----------------------------------------------------------------------------
(***************************************************************************)
(* The inductive invariant.                                                *)
(***************************************************************************)

\* A cursor is taken without being published only by a session that faults.
CursorIsPublished == cursor >= published /\ (~ faulted => cursor = published)

\* The three places an event can be in continue one another: received r,
\* offered f and queued q, after cursor a.
Ordered(a, r, f, q) ==
  /\ \A i \in 1..Len(r) : r[i] = a + i
  /\ \A i \in 1..Len(f) : f[i] = a + Len(r) + i
  /\ \A i \in 1..Len(q) : q[i] = a + Len(r) + Len(f) + i

\* The last cursor in them.
Reaches(a, r, f, q) == a + Len(r) + Len(f) + Len(q)

InOrder(o) == Ordered(after[o], received[o], offered[o], queue[o])
Reach(o) == Reaches(after[o], received[o], offered[o], queue[o])

\* Of a registered observer the stream reaches exactly what was published, so
\* that the next event continues it; a faulted session publishes no more, and
\* who observes it from beyond what was published is sent nothing.
Registered(o) ==
  /\ ~ closed[o] /\ Observing(o)
  /\ Reach(o) >= published
  /\ ~ faulted => Reach(o) = published
  /\ Reach(o) <= published \/ Reach(o) = after[o]

\* The pump holds an event exactly while it offers it, does not sleep on a
\* queue that holds something, and a closed subscriber has an empty queue.
PumpState(o) ==
  /\ pump[o] = "offer" => Len(offered[o]) = 1
  /\ pump[o] # "offer" => offered[o] = <<>>
  /\ pump[o] = "select" /\ queue[o] # <<>> => wake[o]
  /\ closed[o] => queue[o] = <<>>
  /\ done[o] => closed[o]
  /\ left[o] => Observing(o) /\ o \notin subs
  /\ ~ Observing(o) => /\ received[o] = <<>> /\ queue[o] = <<>>
                       /\ ~ closed[o] /\ o \notin subs

ObserverInv(o) == InOrder(o) /\ PumpState(o) /\ (o \in subs => Registered(o))

IInv == ObservationTypeOK /\ CursorIsPublished /\ \A o \in Observers : ObserverInv(o)
-----------------------------------------------------------------------------
(***************************************************************************)
(* Lemmas.                                                                 *)
(***************************************************************************)

\* Parts in order make up a stream without gap.
LEMMA GaplessParts ==
  ASSUME NEW a \in Nat, NEW r \in Seq(Nat), NEW f \in Seq(Nat), NEW q \in Seq(Nat)
  PROVE  LET s == r \o f \o q IN
         /\ a + Len(s) = Reaches(a, r, f, q)
         /\ Ordered(a, r, f, q) => \A i \in 1..Len(s) : s[i] = a + i
  <1> DEFINE s == r \o f \o q
  <1>1. /\ Len(r) \in Nat /\ Len(f) \in Nat /\ Len(q) \in Nat
        /\ Len(s) = Len(r) + Len(f) + Len(q)
        /\ \A i \in 1..Len(s) :
             s[i] = IF i <= Len(r) THEN r[i]
                    ELSE IF i <= Len(r) + Len(f) THEN f[i - Len(r)]
                    ELSE q[i - Len(r) - Len(f)]
    OBVIOUS
  <1>2. a + Len(s) = Reaches(a, r, f, q)
    BY <1>1 DEF Reaches
  <1>3. ASSUME Ordered(a, r, f, q), NEW i \in 1..Len(s) PROVE s[i] = a + i
    <2> HIDE DEF s
    <2>0. i \in Nat /\ i > 0 /\ i <= Len(r) + Len(f) + Len(q)
      BY <1>1
    <2>1. CASE i <= Len(r)
      <3>1. i \in 1..Len(r) /\ s[i] = r[i]
        BY <1>1, <2>0, <2>1
      <3> QED BY <1>3, <3>1 DEF Ordered
    <2>2. CASE i > Len(r) /\ i <= Len(r) + Len(f)
      <3>1. i - Len(r) \in 1..Len(f) /\ s[i] = f[i - Len(r)]
        BY <1>1, <2>2
      <3> QED BY <1>1, <1>3, <3>1 DEF Ordered
    <2>3. CASE i > Len(r) + Len(f)
      <3>1. i - Len(r) - Len(f) \in 1..Len(q) /\ s[i] = q[i - Len(r) - Len(f)]
        BY <1>1, <2>3
      <3> QED BY <1>1, <1>3, <3>1 DEF Ordered
    <2> QED BY <1>1, <2>1, <2>2, <2>3
  <1> QED BY <1>2, <1>3

\* A new subscriber starts with everything after its cursor.
LEMMA Starts ==
  ASSUME NEW a \in Nat, NEW last \in Nat
  PROVE  LET q == Cursors(a, last) IN
         /\ q \in Seq(Nat)
         /\ Ordered(a, <<>>, <<>>, q)
         /\ Reaches(a, <<>>, <<>>, q) >= last
         /\ a <= last => Reaches(a, <<>>, <<>>, q) = last
         /\ Reaches(a, <<>>, <<>>, q) <= last \/ Reaches(a, <<>>, <<>>, q) = a
         /\ ~ last > a => q = <<>>
  <1> DEFINE n == IF last > a THEN last - a ELSE 0
             q == Cursors(a, last)
  <1>1. n \in Nat /\ \A i \in 1..n : a + i \in Nat
    OBVIOUS
  <1>2. q \in Seq(Nat) /\ Len(q) = n /\ \A i \in 1..n : q[i] = a + i
    <2> HIDE DEF n
    <2>1. [i \in 1..n |-> a + i] \in Seq(Nat)
      BY <1>1, IsASeq
    <2> QED BY <1>1, <2>1 DEF Cursors, n
  <1>3. ~ last > a => q = <<>>
    BY <1>2, EmptySeq
  <1>4. Ordered(a, <<>>, <<>>, q) /\ Reaches(a, <<>>, <<>>, q) = a + n
    <2> HIDE DEF n, q
    <2> QED BY <1>1, <1>2 DEF Ordered, Reaches
  <1> QED BY <1>2, <1>3, <1>4

\* An event that is queued next.
LEMMA Arrives ==
  ASSUME NEW a \in Nat, NEW r \in Seq(Nat), NEW f \in Seq(Nat), NEW q \in Seq(Nat),
         NEW c \in Nat, Ordered(a, r, f, q), Reaches(a, r, f, q) = c
  PROVE  /\ Ordered(a, r, f, Append(q, c + 1))
         /\ Reaches(a, r, f, Append(q, c + 1)) = c + 1
  BY DEF Ordered, Reaches

\* An event that goes from the queue to the pump.
LEMMA Leaves ==
  ASSUME NEW a \in Nat, NEW r \in Seq(Nat), NEW q \in Seq(Nat), q # <<>>,
         Ordered(a, r, <<>>, q)
  PROVE  /\ Head(q) \in Nat /\ Tail(q) \in Seq(Nat)
         /\ <<Head(q)>> \in Seq(Nat) /\ Len(<<Head(q)>>) = 1
         /\ Ordered(a, r, <<Head(q)>>, Tail(q))
         /\ Reaches(a, r, <<Head(q)>>, Tail(q)) = Reaches(a, r, <<>>, q)
  <1>1. /\ Len(q) \in Nat /\ Len(q) > 0
        /\ Head(q) = q[1] /\ Head(q) \in Nat /\ Tail(q) \in Seq(Nat)
        /\ Len(Tail(q)) = Len(q) - 1
        /\ \A i \in 1..Len(Tail(q)) : Tail(q)[i] = q[i + 1]
    BY HeadTailProperties, EmptySeq
  <1>2. <<Head(q)>> \in Seq(Nat) /\ Len(<<Head(q)>>) = 1 /\ <<Head(q)>>[1] = q[1]
    BY <1>1
  <1> DEFINE f == <<Head(q)>>
             t == Tail(q)
  <1>3. Ordered(a, r, f, t) /\ Reaches(a, r, f, t) = Reaches(a, r, <<>>, q)
    <2> HIDE DEF f, t
    <2> QED BY <1>1, <1>2 DEF Ordered, Reaches, f, t
  <1> QED BY <1>1, <1>2, <1>3

\* An event that goes from the pump to the frontend.
LEMMA Arrived ==
  ASSUME NEW a \in Nat, NEW r \in Seq(Nat), NEW f \in Seq(Nat), NEW q \in Seq(Nat),
         Len(f) = 1, Ordered(a, r, f, q)
  PROVE  /\ r \o f \in Seq(Nat)
         /\ Ordered(a, r \o f, <<>>, q)
         /\ Reaches(a, r \o f, <<>>, q) = Reaches(a, r, f, q)
  <1> DEFINE s == r \o f
  <1>1. /\ Len(r) \in Nat /\ Len(q) \in Nat /\ s \in Seq(Nat) /\ Len(s) = Len(r) + 1
        /\ \A i \in 1..Len(r) : s[i] = r[i]
        /\ s[Len(r) + 1] = f[1]
    <2>1. Len(r) \in Nat /\ Len(q) \in Nat
      BY LenProperties
    <2>2. /\ s \in Seq(Nat) /\ Len(s) = Len(r) + Len(f)
          /\ \A i \in 1..Len(r) + Len(f) : s[i] = IF i <= Len(r) THEN r[i] ELSE f[i - Len(r)]
      BY ConcatProperties
    <2> HIDE DEF s
    <2>3. s[Len(r) + 1] = f[1]
      <3> DEFINE n == Len(r)
      <3>1. n \in Nat /\ \A i \in 1..n + 1 : s[i] = IF i <= n THEN r[i] ELSE f[i - n]
        BY <2>1, <2>2
      <3> HIDE DEF n
      <3>2. n + 1 \in 1..n + 1 /\ ~ n + 1 <= n /\ n + 1 - n = 1
        BY <3>1
      <3>3. s[n + 1] = f[1]
        BY <3>1, <3>2
      <3> QED BY <3>3 DEF n
    <2>4. ASSUME NEW i \in 1..Len(r) PROVE s[i] = r[i]
      BY <2>1, <2>2
    <2>5. Len(s) = Len(r) + 1
      BY <2>2
    <2> QED BY <2>1, <2>2, <2>3, <2>4, <2>5
  <1>2. f[1] = a + (Len(r) + 1)
    BY <1>1 DEF Ordered
  <1>3. Ordered(a, s, <<>>, q) /\ Reaches(a, s, <<>>, q) = Reaches(a, r, f, q)
    <2> HIDE DEF s
    <2>1. ASSUME NEW i \in 1..Len(s) PROVE s[i] = a + i
      <3>1. CASE i = Len(r) + 1
        BY <1>1, <1>2, <3>1
      <3>2. CASE i \in 1..Len(r)
        BY <1>1, <3>2 DEF Ordered
      <3> QED BY <1>1, <3>1, <3>2
    <2>2. \A i \in 1..Len(q) : q[i] = a + Len(s) + Len(<<>>) + i
      BY <1>1 DEF Ordered
    <2>3. Len(<<>>) = 0
      OBVIOUS
    <2> QED BY <1>1, <2>1, <2>2, <2>3 DEF Ordered, Reaches
  <1> QED BY <1>1, <1>3

\* Events that are dropped from the queue, or from the pump.
LEMMA Drops ==
  ASSUME NEW a \in Nat, NEW r \in Seq(Nat), NEW f \in Seq(Nat), NEW q \in Seq(Nat),
         Ordered(a, r, f, q)
  PROVE  Ordered(a, r, f, <<>>) /\ Ordered(a, r, <<>>, <<>>)
  BY DEF Ordered

\* The invariant of one observer, with the types of what it is about.
LEMMA Parts ==
  ASSUME IInv, NEW o \in Observers
  PROVE  /\ received[o] \in Seq(Nat) /\ offered[o] \in Seq(Nat) /\ queue[o] \in Seq(Nat)
         /\ after[o] \in Nat /\ published \in Nat /\ cursor \in Nat
         /\ InOrder(o) /\ PumpState(o) /\ (o \in subs => Registered(o))
  BY DEF IInv, ObservationTypeOK, ObserverInv

\* What a step leaves alone of an observer stays in order.
LEMMA Untouched ==
  ASSUME NEW o, ObserverInv(o),
         queue'[o] = queue[o], wake'[o] = wake[o], closed'[o] = closed[o],
         done'[o] = done[o], pump'[o] = pump[o], offered'[o] = offered[o],
         received'[o] = received[o], after'[o] = after[o], left'[o] = left[o],
         o \in subs' => o \in subs,
         published' = published, faulted => faulted'
  PROVE  ObserverInv(o)'
  BY DEF ObserverInv, InOrder, PumpState, Registered, Reach, Observing
-----------------------------------------------------------------------------
(***************************************************************************)
(* The invariant is inductive: one lemma per action.                       *)
(***************************************************************************)

LEMMA InitEstablishes == ObservationInit => IInv
  <1> SUFFICES ASSUME ObservationInit PROVE IInv
    OBVIOUS
  <1>1. [o \in Observers |-> <<>>] \in [Observers -> Seq(Nat)]
    OBVIOUS
  <1>2. ObservationTypeOK /\ CursorIsPublished
    <2>1. faulted \in BOOLEAN /\ subs \in SUBSET Observers
      BY DEF ObservationInit
    <2>4. published \in Nat /\ cursor \in Nat /\ CursorIsPublished
      <3>1. published = 0 /\ cursor = 0
        BY DEF ObservationInit
      <3> QED BY <3>1 DEF CursorIsPublished
    <2>2. /\ after \in [Observers -> Nat] /\ wake \in [Observers -> BOOLEAN]
          /\ closed \in [Observers -> BOOLEAN] /\ done \in [Observers -> BOOLEAN]
          /\ left \in [Observers -> BOOLEAN]
          /\ pump \in [Observers -> {"none", "select", "drain", "offer", "gone"}]
      BY DEF ObservationInit
    <2>3. /\ queue \in [Observers -> Seq(Nat)] /\ offered \in [Observers -> Seq(Nat)]
          /\ received \in [Observers -> Seq(Nat)]
      BY <1>1 DEF ObservationInit
    <2> QED BY <2>1, <2>2, <2>3, <2>4 DEF ObservationTypeOK
  <1>3. ASSUME NEW o \in Observers PROVE ObserverInv(o)
    <2>1. /\ received[o] = <<>> /\ offered[o] = <<>> /\ queue[o] = <<>> /\ pump[o] = "none"
          /\ ~ closed[o] /\ ~ done[o] /\ ~ left[o] /\ o \notin subs
      BY DEF ObservationInit
    <2>2. InOrder(o)
      BY <2>1 DEF InOrder, Ordered
    <2>3. PumpState(o)
      BY <2>1 DEF PumpState, Observing
    <2> QED BY <2>1, <2>2, <2>3 DEF ObserverInv
  <1> QED BY <1>2, <1>3 DEF IInv

LEMMA PublishKeeps ==
  ASSUME IInv, Publish PROVE IInv'
  <1>1. cursor = published /\ cursor \in Nat /\ ~ faulted /\ ~ faulted'
        /\ cursor' = cursor + 1 /\ published' = published + 1
    BY DEF IInv, CursorIsPublished, ObservationTypeOK, Publish
  <1>2. ObservationTypeOK' /\ CursorIsPublished'
    <2>1. \A o \in Observers : Append(queue[o], cursor') \in Seq(Nat)
      BY <1>1 DEF IInv, ObservationTypeOK
    <2>2. queue' \in [Observers -> Seq(Nat)] /\ wake' \in [Observers -> BOOLEAN]
      BY <2>1 DEF IInv, ObservationTypeOK, Publish
    <2> QED
      BY <1>1, <2>2 DEF IInv, ObservationTypeOK, CursorIsPublished, Publish, frontendVars
  <1>3. ASSUME NEW o \in Observers PROVE ObserverInv(o)'
    <2>0. /\ received'[o] = received[o] /\ offered'[o] = offered[o] /\ after'[o] = after[o]
          /\ pump'[o] = pump[o] /\ closed'[o] = closed[o] /\ done'[o] = done[o]
          /\ left'[o] = left[o] /\ subs' = subs
      BY DEF Publish, frontendVars
    <2>1. CASE o \in subs
      <3>1. Registered(o) /\ InOrder(o) /\ PumpState(o) /\ ~ closed[o]
        BY <2>1, Parts DEF Registered
      <3>2. queue'[o] = Append(queue[o], cursor + 1) /\ wake'[o] = TRUE
        BY <1>1, <2>1, <3>1 DEF Publish
      <3>3. InOrder(o)' /\ Reach(o)' = cursor + 1
        <4>1. Reaches(after[o], received[o], offered[o], queue[o]) = cursor
          BY <1>1, <3>1 DEF Registered, Reach
        <4>2. /\ after[o] \in Nat /\ received[o] \in Seq(Nat)
              /\ offered[o] \in Seq(Nat) /\ queue[o] \in Seq(Nat)
          BY Parts
        <4>3. Ordered(after[o], received[o], offered[o], queue[o])
          BY <3>1 DEF InOrder
        <4>4. /\ Ordered(after[o], received[o], offered[o], Append(queue[o], cursor + 1))
              /\ Reaches(after[o], received[o], offered[o], Append(queue[o], cursor + 1)) = cursor + 1
          <5> cursor \in Nat
            BY <1>1
          <5> QED BY <4>1, <4>2, <4>3, Arrives, SMTT(60)
        <4> QED BY <2>0, <3>2, <4>4 DEF InOrder, Reach
      <3>4. PumpState(o)'
        BY <2>0, <2>1, <3>1, <3>2 DEF PumpState, Registered, Observing
      <3>5. Registered(o)'
        BY <1>1, <2>0, <3>1, <3>3 DEF Registered, Observing
      <3> QED BY <3>3, <3>4, <3>5 DEF ObserverInv
    <2>2. CASE o \notin subs
      <3>1. queue'[o] = queue[o] /\ wake'[o] = wake[o]
        BY <2>2 DEF Publish, IInv, ObservationTypeOK
      <3>2. InOrder(o)' /\ PumpState(o)'
        BY <2>0, <3>1, Parts DEF InOrder, PumpState, Observing
      <3> QED BY <2>0, <2>2, <3>2 DEF ObserverInv
    <2> QED BY <2>1, <2>2
  <1> QED BY <1>2, <1>3 DEF IInv

LEMMA CloseSubscribersKeeps ==
  ASSUME IInv, CloseSubscribers, NEW o \in Observers
  PROVE  ObserverInv(o)'
  <1>1. /\ o \notin subs'
        /\ received'[o] = received[o] /\ offered'[o] = offered[o] /\ after'[o] = after[o]
        /\ pump'[o] = pump[o] /\ done'[o] = done[o] /\ wake'[o] = wake[o] /\ left'[o] = left[o]
    BY DEF CloseSubscribers, frontendVars
  <1>2. CASE o \in subs
    <2>1. queue'[o] = <<>> /\ closed'[o] /\ pump[o] # "none"
      BY <1>2, Parts DEF CloseSubscribers, Registered, Observing
    <2>2. InOrder(o)'
      BY <1>1, <2>1, Parts, Drops DEF InOrder
    <2>3. PumpState(o)'
      BY <1>1, <2>1, Parts DEF PumpState, Observing
    <2> QED BY <1>1, <2>2, <2>3 DEF ObserverInv
  <1>3. CASE o \notin subs
    <2>1. queue'[o] = queue[o] /\ closed'[o] = closed[o]
      BY <1>3 DEF CloseSubscribers, IInv, ObservationTypeOK
    <2>2. InOrder(o)' /\ PumpState(o)'
      BY <1>1, <1>3, <2>1, Parts DEF InOrder, PumpState, Observing
    <2> QED BY <1>1, <2>2 DEF ObserverInv
  <1> QED BY <1>2, <1>3

LEMMA EngineKeeps ==
  ASSUME IInv, Engine PROVE IInv'
  <1>1. CASE Publish
    BY <1>1, PublishKeeps
  <1>2. CASE FaultSession \/ Shutdown
    <2>1. CloseSubscribers
      BY <1>2 DEF FaultSession, Shutdown
    <2>2. /\ faulted' \in BOOLEAN /\ cursor' \in Nat /\ cursor' >= cursor
          /\ ~ faulted' => ~ faulted /\ cursor' = cursor
      <3>1. cursor \in Nat /\ faulted \in BOOLEAN
        BY DEF IInv, ObservationTypeOK
      <3>2. CASE FaultSession
        BY <3>1, <3>2 DEF FaultSession
      <3>3. CASE Shutdown
        BY <3>1, <3>3 DEF Shutdown
      <3> QED BY <1>2, <3>2, <3>3
    <2>3. closed' \in [Observers -> BOOLEAN] /\ queue' \in [Observers -> Seq(Nat)]
      BY <2>1 DEF CloseSubscribers, IInv, ObservationTypeOK
    <2>4. ObservationTypeOK'
      BY <2>1, <2>2, <2>3 DEF CloseSubscribers, frontendVars, IInv, ObservationTypeOK
    <2>5. CursorIsPublished'
      BY <2>1, <2>2 DEF CloseSubscribers, IInv, ObservationTypeOK, CursorIsPublished
    <2> QED BY <2>1, <2>4, <2>5, CloseSubscribersKeeps DEF IInv
  <1> QED BY <1>1, <1>2 DEF Engine

LEMMA RegisterKeeps ==
  ASSUME IInv, NEW o \in Observers, Register(o) PROVE IInv'
  <1>1. PICK c \in 0..cursor :
          /\ after' = [after EXCEPT ![o] = c]
          /\ queue' = [queue EXCEPT ![o] = Cursors(c, published)]
          /\ wake' = [wake EXCEPT ![o] = published > c]
    BY DEF Register
  <1>2. c \in Nat /\ published \in Nat /\ cursor \in Nat /\ c <= cursor
    BY DEF IInv, ObservationTypeOK
  <1>3. /\ Cursors(c, published) \in Seq(Nat)
        /\ Ordered(c, <<>>, <<>>, Cursors(c, published))
        /\ Reaches(c, <<>>, <<>>, Cursors(c, published)) >= published
        /\ c <= published => Reaches(c, <<>>, <<>>, Cursors(c, published)) = published
        /\ \/ Reaches(c, <<>>, <<>>, Cursors(c, published)) <= published
           \/ Reaches(c, <<>>, <<>>, Cursors(c, published)) = c
        /\ ~ published > c => Cursors(c, published) = <<>>
    BY <1>2, Starts
  <1>4. ObservationTypeOK' /\ CursorIsPublished'
    <2>1. wake' \in [Observers -> BOOLEAN]
      BY <1>1, <1>2 DEF IInv, ObservationTypeOK
    <2>2. queue' \in [Observers -> Seq(Nat)] /\ after' \in [Observers -> Nat]
      BY <1>1, <1>2, <1>3 DEF IInv, ObservationTypeOK
    <2>3. pump' \in [Observers -> {"none", "select", "drain", "offer", "gone"}]
          /\ subs' \in SUBSET Observers
      BY DEF Register, IInv, ObservationTypeOK
    <2> QED
      BY <2>1, <2>2, <2>3 DEF Register, sessionVars, IInv, ObservationTypeOK, CursorIsPublished
  <1>5. ObserverInv(o)'
    <2>1. PumpState(o) /\ pump[o] = "none"
      BY Parts DEF Register, Observing
    <2>2. /\ received'[o] = <<>> /\ offered'[o] = <<>>
          /\ ~ closed'[o] /\ ~ done'[o] /\ ~ left'[o]
      BY <2>1 DEF Register, PumpState, Observing
    <2>3. /\ after'[o] = c /\ queue'[o] = Cursors(c, published)
          /\ wake'[o] = (published > c) /\ pump'[o] = "select"
      BY <1>1 DEF Register, IInv, ObservationTypeOK
    <2>4. InOrder(o)'
      BY <1>3, <2>2, <2>3 DEF InOrder
    <2>5. queue'[o] # <<>> => wake'[o]
      BY <1>3, <2>3
    <2>6. PumpState(o)'
      BY <2>2, <2>3, <2>5 DEF PumpState, Observing
    <2>7. published' = published /\ faulted' = faulted /\ (~ faulted => cursor = published)
      BY DEF Register, sessionVars, IInv, CursorIsPublished
    <2>8. /\ Reach(o)' >= published /\ (~ faulted => Reach(o)' = published)
          /\ Reach(o)' <= published \/ Reach(o)' = after'[o]
      BY <1>2, <1>3, <2>2, <2>3, <2>7 DEF Reach
    <2>9. Registered(o)'
      BY <2>2, <2>3, <2>7, <2>8 DEF Registered, Observing
    <2> QED BY <2>4, <2>6, <2>9 DEF ObserverInv
  <1>6. ASSUME NEW p \in Observers, p # o PROVE ObserverInv(p)'
    BY <1>1, <1>6, Untouched DEF Register, sessionVars, IInv, ObservationTypeOK
  <1> QED BY <1>4, <1>5, <1>6 DEF IInv

LEMMA UnsubscribeKeeps ==
  ASSUME IInv, NEW o \in Observers, Unsubscribe(o) PROVE IInv'
  <1>1. ObservationTypeOK' /\ CursorIsPublished'
    <2>1. left' \in [Observers -> BOOLEAN] /\ subs' \in SUBSET Observers
      BY DEF Unsubscribe, IInv, ObservationTypeOK
    <2> QED
      BY <2>1 DEF Unsubscribe, sessionVars, subscriberVars, IInv, ObservationTypeOK, CursorIsPublished
  <1>2. ObserverInv(o)'
    BY Parts DEF Unsubscribe, subscriberVars, ObserverInv, InOrder, PumpState, Observing
  <1>3. ASSUME NEW p \in Observers, p # o PROVE ObserverInv(p)'
    BY <1>3, Untouched DEF Unsubscribe, sessionVars, subscriberVars, IInv, ObservationTypeOK
  <1> QED BY <1>1, <1>2, <1>3 DEF IInv

LEMMA UnsubscribeClosesKeeps ==
  ASSUME IInv, NEW o \in Observers, UnsubscribeCloses(o) PROVE IInv'
  <1>1. ObservationTypeOK' /\ CursorIsPublished'
    <2>1. closed' \in [Observers -> BOOLEAN] /\ queue' \in [Observers -> Seq(Nat)]
      BY DEF UnsubscribeCloses, IInv, ObservationTypeOK
    <2> QED
      BY <2>1 DEF UnsubscribeCloses, sessionVars, frontendVars, IInv, ObservationTypeOK, CursorIsPublished
  <1>2. ObserverInv(o)'
    <2>1. /\ queue'[o] = <<>> /\ closed'[o] = TRUE
          /\ received'[o] = received[o] /\ offered'[o] = offered[o] /\ after'[o] = after[o]
          /\ pump'[o] = pump[o] /\ left'[o] = left[o] /\ left[o] /\ subs' = subs
          /\ done'[o] = done[o]
      BY DEF UnsubscribeCloses, frontendVars, IInv, ObservationTypeOK
    <2>2. o \notin subs
      BY <2>1, Parts DEF PumpState
    <2>3. InOrder(o)'
      BY <2>1, Parts, Drops DEF InOrder
    <2>4. PumpState(o)'
      BY <2>1, <2>2, Parts DEF PumpState, Observing
    <2> QED BY <2>1, <2>2, <2>3, <2>4 DEF ObserverInv
  <1>3. ASSUME NEW p \in Observers, p # o PROVE ObserverInv(p)'
    BY <1>3, Untouched DEF UnsubscribeCloses, sessionVars, frontendVars, IInv, ObservationTypeOK
  <1> QED BY <1>1, <1>2, <1>3 DEF IInv

LEMMA ReceiveKeeps ==
  ASSUME IInv, NEW o \in Observers, Receive(o) PROVE IInv'
  <1> DEFINE r == received[o] \o offered[o]
  <1>1. /\ received'[o] = r /\ offered'[o] = <<>> /\ pump'[o] = "drain"
        /\ queue'[o] = queue[o] /\ wake'[o] = wake[o]
        /\ closed'[o] = closed[o] /\ done'[o] = done[o] /\ left'[o] = left[o]
        /\ after'[o] = after[o] /\ subs' = subs
        /\ received' = [received EXCEPT ![o] = r]
    BY DEF Receive, IInv, ObservationTypeOK
  <1>2. /\ r \in Seq(Nat)
        /\ Ordered(after[o], r, <<>>, queue[o])
        /\ Reaches(after[o], r, <<>>, queue[o]) = Reach(o)
    BY Parts, Arrived DEF Receive, PumpState, InOrder, Reach
  <1> HIDE DEF r
  <1>3. ObservationTypeOK' /\ CursorIsPublished'
    <2>1. received' \in [Observers -> Seq(Nat)]
      BY <1>1, <1>2 DEF IInv, ObservationTypeOK
    <2>2. offered' \in [Observers -> Seq(Nat)]
      BY DEF Receive, IInv, ObservationTypeOK
    <2> QED
      BY <2>1, <2>2 DEF Receive, sessionVars, IInv, ObservationTypeOK, CursorIsPublished
  <1>4. ObserverInv(o)'
    <2>1. InOrder(o)'
      BY <1>1, <1>2 DEF InOrder
    <2>2. PumpState(o)'
      BY <1>1, Parts DEF Receive, PumpState, Observing
    <2>3. Reach(o)' = Reach(o)
      BY <1>1, <1>2 DEF Reach
    <2>4. o \in subs' => Registered(o)'
      BY <1>1, <2>3, Parts DEF Receive, sessionVars, Registered, Observing
    <2> QED BY <2>1, <2>2, <2>4 DEF ObserverInv
  <1>5. ASSUME NEW p \in Observers, p # o PROVE ObserverInv(p)'
    BY <1>5, Untouched DEF Receive, sessionVars, IInv, ObservationTypeOK
  <1> QED BY <1>3, <1>4, <1>5 DEF IInv

LEMMA PumpTakesKeeps ==
  ASSUME IInv, NEW o \in Observers, PumpTakes(o) PROVE IInv'
  <1>0. pump[o] = "drain" /\ offered[o] = <<>>
    BY Parts DEF PumpTakes, PumpState
  <1>1. CASE ~ closed[o] /\ queue[o] # <<>>
    <2>1. /\ offered' = [offered EXCEPT ![o] = <<Head(queue[o])>>]
          /\ queue' = [queue EXCEPT ![o] = Tail(queue[o])]
          /\ pump' = [pump EXCEPT ![o] = "offer"]
      BY <1>1 DEF PumpTakes
    <2>2. /\ offered'[o] = <<Head(queue[o])>> /\ queue'[o] = Tail(queue[o]) /\ pump'[o] = "offer"
          /\ received'[o] = received[o] /\ after'[o] = after[o] /\ closed'[o] = closed[o]
          /\ done'[o] = done[o] /\ left'[o] = left[o] /\ subs' = subs
      BY <2>1 DEF PumpTakes, frontendVars, IInv, ObservationTypeOK
    <2>3. /\ Tail(queue[o]) \in Seq(Nat)
          /\ <<Head(queue[o])>> \in Seq(Nat) /\ Len(<<Head(queue[o])>>) = 1
          /\ Ordered(after[o], received[o], <<Head(queue[o])>>, Tail(queue[o]))
          /\ Reaches(after[o], received[o], <<Head(queue[o])>>, Tail(queue[o])) = Reach(o)
      BY <1>0, <1>1, Parts, Leaves DEF InOrder, Reach
    <2>4. ObservationTypeOK' /\ CursorIsPublished'
      <3>1. /\ queue' \in [Observers -> Seq(Nat)]
            /\ pump' \in [Observers -> {"none", "select", "drain", "offer", "gone"}]
        BY <2>1, <2>3 DEF IInv, ObservationTypeOK
      <3>2. offered' \in [Observers -> Seq(Nat)]
        BY <2>1, <2>3 DEF IInv, ObservationTypeOK
      <3> QED
        BY <3>1, <3>2 DEF PumpTakes, sessionVars, frontendVars, IInv, ObservationTypeOK, CursorIsPublished
    <2>5. InOrder(o)'
      BY <2>2, <2>3 DEF InOrder
    <2>6. PumpState(o)'
      <3>1. Len(offered'[o]) = 1
        BY <2>2, <2>3
      <3> QED BY <1>0, <1>1, <2>2, <3>1, Parts DEF PumpState, Observing
    <2>7. o \in subs' => Registered(o)'
      <3>1. Reach(o)' = Reach(o)
        BY <2>2, <2>3 DEF Reach
      <3> QED BY <1>0, <2>2, <3>1, Parts DEF PumpTakes, sessionVars, Registered, Observing
    <2>8. ASSUME NEW p \in Observers, p # o PROVE ObserverInv(p)'
      BY <2>1, <2>8, Untouched DEF PumpTakes, sessionVars, frontendVars, IInv, ObservationTypeOK
    <2> QED BY <2>4, <2>5, <2>6, <2>7, <2>8 DEF IInv, ObserverInv
  <1>2. CASE closed[o] \/ queue[o] = <<>>
    <2>1. /\ UNCHANGED <<queue, offered>>
          /\ \/ closed[o] /\ pump' = [pump EXCEPT ![o] = "gone"]
             \/ queue[o] = <<>> /\ pump' = [pump EXCEPT ![o] = "select"]
      BY <1>2 DEF PumpTakes
    <2>2. ObservationTypeOK' /\ CursorIsPublished'
      <3>1. pump' \in [Observers -> {"none", "select", "drain", "offer", "gone"}]
        BY <2>1 DEF IInv, ObservationTypeOK
      <3> QED
        BY <2>1, <3>1 DEF PumpTakes, sessionVars, frontendVars, IInv, ObservationTypeOK, CursorIsPublished
    <2>3. ObserverInv(o)'
      <3>1. /\ queue'[o] = queue[o] /\ offered'[o] = offered[o] /\ received'[o] = received[o]
            /\ after'[o] = after[o] /\ wake'[o] = wake[o] /\ closed'[o] = closed[o]
            /\ done'[o] = done[o] /\ left'[o] = left[o]
            /\ pump'[o] \in {"gone", "select"}
            /\ pump'[o] = "select" => queue[o] = <<>>
        BY <2>1 DEF PumpTakes, frontendVars, IInv, ObservationTypeOK
      <3>2. InOrder(o)'
        BY <3>1, Parts DEF InOrder
      <3>3. PumpState(o)'
        BY <1>0, <3>1, Parts DEF PumpTakes, PumpState, Observing
      <3>4. o \in subs' => Registered(o)'
        BY <3>1, Parts DEF PumpTakes, sessionVars, Registered, Reach, Observing
      <3> QED BY <3>2, <3>3, <3>4 DEF ObserverInv
    <2>4. ASSUME NEW p \in Observers, p # o PROVE ObserverInv(p)'
      BY <2>1, <2>4, Untouched DEF PumpTakes, sessionVars, frontendVars, IInv, ObservationTypeOK
    <2> QED BY <2>2, <2>3, <2>4 DEF IInv
  <1> QED BY <1>1, <1>2

LEMMA CloseDoneKeeps ==
  ASSUME IInv, NEW o \in Observers, CloseDone(o) PROVE IInv'
  <1>1. ObservationTypeOK' /\ CursorIsPublished'
    <2>1. done' \in [Observers -> BOOLEAN]
      BY DEF CloseDone, IInv, ObservationTypeOK
    <2> QED
      BY <2>1 DEF CloseDone, sessionVars, frontendVars, IInv, ObservationTypeOK, CursorIsPublished
  <1>2. ObserverInv(o)'
    BY Parts DEF CloseDone, sessionVars, frontendVars, ObserverInv, InOrder, PumpState,
                 Registered, Reach, Observing
  <1>3. ASSUME NEW p \in Observers, p # o PROVE ObserverInv(p)'
    BY <1>3, Untouched DEF CloseDone, sessionVars, frontendVars, IInv, ObservationTypeOK
  <1> QED BY <1>1, <1>2, <1>3 DEF IInv

LEMMA PumpWakesKeeps ==
  ASSUME IInv, NEW o \in Observers, PumpWakes(o) PROVE IInv'
  <1>1. ObservationTypeOK' /\ CursorIsPublished'
    <2>1. /\ wake' \in [Observers -> BOOLEAN]
          /\ pump' \in [Observers -> {"none", "select", "drain", "offer", "gone"}]
      BY DEF PumpWakes, IInv, ObservationTypeOK
    <2> QED
      BY <2>1 DEF PumpWakes, sessionVars, frontendVars, IInv, ObservationTypeOK, CursorIsPublished
  <1>2. ObserverInv(o)'
    <2>1. pump[o] = "select" /\ pump'[o] = "drain"
      BY DEF PumpWakes, IInv, ObservationTypeOK
    <2> QED
      BY <2>1, Parts DEF PumpWakes, sessionVars, frontendVars, ObserverInv, InOrder, PumpState,
                         Registered, Reach, Observing
  <1>3. ASSUME NEW p \in Observers, p # o PROVE ObserverInv(p)'
    BY <1>3, Untouched DEF PumpWakes, sessionVars, frontendVars, IInv, ObservationTypeOK
  <1> QED BY <1>1, <1>2, <1>3 DEF IInv

LEMMA PumpDoneKeeps ==
  ASSUME IInv, NEW o \in Observers, PumpDone(o) PROVE IInv'
  <1>1. ObservationTypeOK' /\ CursorIsPublished'
    <2>1. /\ offered' \in [Observers -> Seq(Nat)]
          /\ pump' \in [Observers -> {"none", "select", "drain", "offer", "gone"}]
      BY DEF PumpDone, IInv, ObservationTypeOK
    <2> QED
      BY <2>1 DEF PumpDone, sessionVars, frontendVars, IInv, ObservationTypeOK, CursorIsPublished
  <1>2. ObserverInv(o)'
    <2>1. /\ o \notin subs /\ queue[o] = <<>> /\ offered'[o] = <<>> /\ pump'[o] = "gone"
          /\ pump[o] # "none"
      BY Parts DEF PumpDone, PumpState, Registered, IInv, ObservationTypeOK
    <2>2. InOrder(o)'
      BY <2>1, Parts, Drops DEF PumpDone, frontendVars, InOrder
    <2>3. PumpState(o)'
      BY <2>1, Parts DEF PumpDone, frontendVars, PumpState, Observing
    <2> QED BY <2>1, <2>2, <2>3 DEF PumpDone, ObserverInv
  <1>3. ASSUME NEW p \in Observers, p # o PROVE ObserverInv(p)'
    BY <1>3, Untouched DEF PumpDone, sessionVars, frontendVars, IInv, ObservationTypeOK
  <1> QED BY <1>1, <1>2, <1>3 DEF IInv

\* Nothing of the invariant depends on anything but the observation variables.
LEMMA StutterKeeps ==
  ASSUME IInv, UNCHANGED observationVars PROVE IInv'
  <1>1. ObservationTypeOK' /\ CursorIsPublished'
    BY DEF observationVars, sessionVars, subscriberVars, frontendVars, IInv,
           ObservationTypeOK, CursorIsPublished
  <1>2. ASSUME NEW o \in Observers PROVE ObserverInv(o)'
    BY Untouched DEF observationVars, sessionVars, subscriberVars, frontendVars, IInv
  <1> QED BY <1>1, <1>2 DEF IInv

THEOREM ObservationInvariant == ObservationSpec => []IInv
  <1>1. IInv /\ [ObservationNext]_observationVars => IInv'
    <2> SUFFICES ASSUME IInv, [ObservationNext]_observationVars PROVE IInv'
      OBVIOUS
    <2>1. CASE Engine
      BY <2>1, EngineKeeps
    <2>2. CASE \E o \in Observers : Frontend(o)
      BY <2>2, RegisterKeeps, UnsubscribeKeeps, UnsubscribeClosesKeeps, ReceiveKeeps DEF Frontend
    <2>3. CASE \E o \in Observers : Pump(o)
      BY <2>3, CloseDoneKeeps, PumpWakesKeeps, PumpTakesKeeps, PumpDoneKeeps DEF Pump
    <2>4. CASE UNCHANGED observationVars
      BY <2>4, StutterKeeps
    <2> QED BY <2>1, <2>2, <2>3, <2>4 DEF ObservationNext
  <1> QED BY InitEstablishes, <1>1, PTL DEF ObservationSpec
-----------------------------------------------------------------------------
(***************************************************************************)
(* What follows from it.                                                   *)
(***************************************************************************)

\* The observation variables keep their types.
THEOREM ObservationTypes == ObservationSpec => []ObservationTypeOK
  <1>1. IInv => ObservationTypeOK
    BY DEF IInv
  <1> QED BY <1>1, ObservationInvariant, PTL

\* Every observer is sent the events after its cursor, in order, without gap
\* or repetition (enqueue and run, session.go:91-150).
THEOREM StreamsAreGapless == ObservationSpec => []Gapless
  <1>1. IInv => Gapless
    <2> SUFFICES ASSUME IInv, NEW o \in Observers, NEW i \in 1..Len(Stream(o))
                 PROVE  Stream(o)[i] = after[o] + i
      BY DEF Gapless
    <2>1. /\ received[o] \in Seq(Nat) /\ offered[o] \in Seq(Nat) /\ queue[o] \in Seq(Nat)
          /\ after[o] \in Nat
      BY DEF IInv, ObservationTypeOK
    <2>2. InOrder(o)
      BY DEF IInv, ObserverInv
    <2> DEFINE r == received[o]  f == offered[o]  q == queue[o]
    <2>3. \A j \in 1..Len(r \o f \o q) : (r \o f \o q)[j] = after[o] + j
      BY <2>1, <2>2, GaplessParts DEF InOrder
    <2> QED BY <2>3 DEF Stream
  <1> QED BY <1>1, ObservationInvariant, PTL

\* A registered observer misses nothing that was published (Observe,
\* session.go:347).
THEOREM ObserversMissNothing == ObservationSpec => []NothingMissed
  <1>1. IInv => NothingMissed
    <2> SUFFICES ASSUME IInv, NEW o \in subs
                 PROVE  after[o] + Len(Stream(o)) >= published
      BY DEF NothingMissed
    <2>1. /\ o \in Observers
          /\ received[o] \in Seq(Nat) /\ offered[o] \in Seq(Nat) /\ queue[o] \in Seq(Nat)
      BY DEF IInv, ObservationTypeOK
    <2>2. Registered(o)
      BY <2>1 DEF IInv, ObserverInv
    <2>3. after[o] \in Nat
      BY <2>1 DEF IInv, ObservationTypeOK
    <2> DEFINE r == received[o]  f == offered[o]  q == queue[o]
    <2>4. after[o] + Len(r \o f \o q) = Reaches(after[o], r, f, q)
      BY <2>1, <2>3, GaplessParts
    <2> QED BY <2>2, <2>4 DEF Stream, Registered, Reach
  <1> QED BY <1>1, ObservationInvariant, PTL

\* No pump sleeps on a queue that holds something (session.go:91-150).
THEOREM NoWakeupIsLost == ObservationSpec => []NoLostWakeup
  <1>1. IInv => NoLostWakeup
    BY DEF IInv, ObserverInv, PumpState, NoLostWakeup
  <1> QED BY <1>1, ObservationInvariant, PTL
-----------------------------------------------------------------------------
(***************************************************************************)
(* The engine as a client of its subscribers.                              *)
(***************************************************************************)
\* What a hold of the mutex does to the subscribers: publish, fault or nothing.
LEMMA HoldsAreEngineSteps ==
  /\ \A kind : Emit(kind) => Publish
  /\ \A recs : Silently(recs) => UNCHANGED observationVars
  /\ \A recs : WriteFails(recs) => UNCHANGED observationVars
  /\ \A recs : Fault(recs) => FaultSession
  BY DEF Emit, Silently, WriteFails, Fault

\* A command publishes an event or faults the session.
LEMMA ApplySteps == ASSUME Apply PROVE Publish \/ FaultSession
  BY HoldsAreEngineSteps DEF Apply, Submit, Notice, Close

\* So does a step of the run, unless it concerns the run alone.
LEMMA RunSteps ==
  ASSUME Run PROVE Publish \/ FaultSession \/ UNCHANGED observationVars
  <1>1. CASE Delta \/ RetryScheduled \/ AssistantText
    BY <1>1, HoldsAreEngineSteps DEF Delta, RetryScheduled, AssistantText
  <1>2. CASE ResetStream \/ Truncated \/ NoText
    BY <1>2, HoldsAreEngineSteps DEF ResetStream, Truncated, NoText
  <1>3. CASE ToolStarted \/ ToolFinished \/ FaultRun \/ FinishRun
    BY <1>3, HoldsAreEngineSteps DEF ToolStarted, ToolFinished, FaultRun, FinishRun
  <1> QED BY <1>1, <1>2, <1>3 DEF Run

\* Every step of the session and its observers is a step of Subscribers or
\* leaves the subscribers alone (session.go:347, 905, 1048).
THEOREM ObserveImplementsSubscribers == Spec => ImplementsSubscribers
  <1>1. Init => ObservationInit
    BY DEF Init
  <1>2. [Next]_vars => [ObservationNext]_observationVars
    <2> SUFFICES ASSUME [Next]_vars PROVE ObservationNext \/ UNCHANGED observationVars
      OBVIOUS
    <2>1. CASE Apply
      BY <2>1, ApplySteps DEF ObservationNext, Engine
    <2>2. CASE Run
      BY <2>2, RunSteps DEF ObservationNext, Engine
    <2>3. CASE Deliver
      BY <2>3 DEF Deliver, ObservationNext, Engine, Frontend
    <2>4. CASE \E o \in Observers : Connect(o)
      BY <2>4 DEF Connect, ObservationNext, Frontend
    <2>5. CASE UNCHANGED vars
      BY <2>5 DEF vars
    <2> QED BY <2>1, <2>2, <2>3, <2>4, <2>5 DEF Next
  <1> QED BY <1>1, <1>2, PTL DEF Spec, ImplementsSubscribers, ObservationSpec

\* An observer of a session is told the events after its cursor in order and
\* without gap, and misses none while it is registered.
THEOREM ObserversAreToldInOrder == Spec => [](Gapless /\ NothingMissed)
  BY ObserveImplementsSubscribers, StreamsAreGapless, ObserversMissNothing, PTL
     DEF ImplementsSubscribers
-----------------------------------------------------------------------------
(***************************************************************************)
(* What a snapshot and the events after it add up to.                      *)
(***************************************************************************)
EventKinds == DOMAIN FactOf \cup {"warning", "session_resumed", "assistant_delta",
                                  "retry_scheduled", "tool_started"}
FactKinds == {FactOf[kind] : kind \in DOMAIN FactOf}
Phases == {"none", "calling", "resetting", "calls", "tool", "finishing", "faulting"}
Snapshots == [cursor : Nat, records : Nat, partial : Nat, activeTool : BOOLEAN]

EngineTypeOK ==
  /\ state \in {"idle", "running", "closed"} /\ phase \in Phases
  /\ history \in Seq(EventKinds) /\ records \in Seq(FactKinds)
  /\ partial \in Nat /\ activeTool \in BOOLEAN /\ lost \in BOOLEAN
  /\ snapshot \in [Observers -> Snapshots]

\* The events of a kind up to a cursor, and the facts of that kind among the
\* first records.
Told(kind, last) == {c \in 1..Len(history) : c <= last /\ history[c] = kind}
Held(kind, last) == {i \in 1..last : records[i] = FactOf[kind]}

\* As many events as facts of every kind, fewer after a write that failed.
Balanced(last, recorded) ==
  \A kind \in DOMAIN FactOf :
    /\ Cardinality(Told(kind, last)) <= Cardinality(Held(kind, recorded))
    /\ ~ lost => Cardinality(Told(kind, last)) = Cardinality(Held(kind, recorded))

\* It holds at every moment, and so at the moment of every snapshot.
SnapshotInv(o) ==
  /\ snapshot[o].records <= Len(records)
  /\ snapshot[o].cursor <= Len(history) \/ faulted
  /\ Balanced(snapshot[o].cursor, snapshot[o].records)

CutInv ==
  /\ Len(history) = published
  /\ Balanced(Len(history), Len(records))
  /\ \A o \in Observers : Observing(o) => SnapshotInv(o)

\* The events after a cursor; among them those at which a frontend drops the
\* streamed text, and those which change the active tool.
Since(k) == {c \in 1..Len(history) : c > k}
Breaks(k) == {c \in Since(k) : history[c] # "assistant_delta"}
Changes(k) == {c \in Since(k) : history[c] \in {"tool_started", "tool_finished", "run_ended"}}

PartialSince(k, shown) ==
  IF Breaks(k) = {} THEN shown + Cardinality(Since(k))
  ELSE Cardinality({c \in Since(k) : c > Latest(Breaks(k))})

ToolSince(k, shown) ==
  IF Changes(k) = {} THEN shown ELSE history[Latest(Changes(k))] = "tool_started"

HasLast(S) == S = {} \/ \E m \in S : \A c \in S : c <= m

\* What a registered frontend shows; and that it was told nothing twice.
Shows(o) == PartialSince(snapshot[o].cursor, snapshot[o].partial)
ShowsTool(o) == ToolSince(snapshot[o].cursor, snapshot[o].activeTool)

Fits(o) ==
  /\ after[o] <= snapshot[o].cursor
  /\ HasLast(Breaks(snapshot[o].cursor)) /\ HasLast(Changes(snapshot[o].cursor))

\* Text is streamed during a model call only; a run that failed keeps its own
\* until it is finished.
ViewInv ==
  /\ state # "running" => phase = "none"
  /\ phase \in {"none", "resetting", "calls", "tool"} => partial = 0
  /\ \A o \in subs : Fits(o)
  /\ phase # "faulting" => \A o \in subs : ShowsTool(o) <=> activeTool
  /\ phase \in {"none", "calling", "tool"} => \A o \in subs : Shows(o) = partial
-----------------------------------------------------------------------------
(***************************************************************************)
(* The snapshot is a cut.                                                  *)
(***************************************************************************)

\* Where x occurs in s.
Occurs(s, x) == {i \in 1..Len(s) : s[i] = x}

\* An element that is appended is counted once.
LEMMA OccursAppended ==
  ASSUME NEW S, NEW s \in Seq(S), NEW e \in S, NEW x
  PROVE  /\ Cardinality(Occurs(s, x)) \in Nat
         /\ Cardinality(Occurs(Append(s, e), x)) =
              IF e = x THEN Cardinality(Occurs(s, x)) + 1 ELSE Cardinality(Occurs(s, x))
  <1> DEFINE n == Len(s)
             t == Append(s, e)
  <1>1. n \in Nat /\ Len(t) = n + 1 /\ t[n + 1] = e /\ \A i \in 1..n : t[i] = s[i]
    OBVIOUS
  <1>2. IsFiniteSet(Occurs(s, x)) /\ Cardinality(Occurs(s, x)) \in Nat
    <2>1. IsFiniteSet(1..n) /\ Occurs(s, x) \in SUBSET (1..n)
      BY <1>1, FS_Interval DEF Occurs
    <2> QED BY <2>1, FS_Subset, FS_CardinalityType
  <1> HIDE DEF t, n
  <1>3. n + 1 \notin Occurs(s, x)
    BY <1>1 DEF Occurs, n
  <1>4. CASE e = x
    <2>1. Occurs(t, x) = Occurs(s, x) \cup {n + 1}
      BY <1>1, <1>4 DEF Occurs, n
    <2> QED BY <1>2, <1>3, <1>4, <2>1, FS_AddElement DEF t
  <1>5. CASE e # x
    <2>1. Occurs(t, x) = Occurs(s, x)
      BY <1>1, <1>5 DEF Occurs, n
    <2> QED BY <1>2, <1>5, <2>1 DEF t
  <1> QED BY <1>4, <1>5

\* The facts tell the events that report them apart.
LEMMA FactsDiffer ==
  /\ \A k \in DOMAIN FactOf : k \in EventKinds /\ FactOf[k] \in FactKinds
  /\ \A k, l \in DOMAIN FactOf : FactOf[k] = FactOf[l] => k = l
  BY DEF FactOf, EventKinds, FactKinds

\* All that was told and all that is held.
LEMMA AllOfThem ==
  ASSUME EngineTypeOK, NEW kind, NEW last \in Nat, last >= Len(history)
  PROVE  /\ Told(kind, last) = Occurs(history, kind)
         /\ Held(kind, Len(records)) = Occurs(records, FactOf[kind])
  BY DEF EngineTypeOK, Told, Held, Occurs

\* What was told up to a cursor and held up to a record does not change.
LEMMA PastKept ==
  ASSUME EngineTypeOK, NEW kind, NEW last \in Nat, NEW recorded \in Nat,
         recorded <= Len(records),
         \/ history' = history
         \/ last <= Len(history) /\ \E k \in EventKinds : history' = Append(history, k),
         records' = records \/ \E f \in FactKinds : records' = Append(records, f)
  PROVE  Told(kind, last)' = Told(kind, last) /\ Held(kind, recorded)' = Held(kind, recorded)
  <1>1. Told(kind, last)' = Told(kind, last)
    <2>1. CASE history' = history
      BY <2>1 DEF Told
    <2>2. ASSUME last <= Len(history), NEW k \in EventKinds, history' = Append(history, k)
          PROVE  Told(kind, last)' = Told(kind, last)
      BY <2>2 DEF EngineTypeOK, Told
    <2> QED BY <2>1, <2>2
  <1>2. Held(kind, recorded)' = Held(kind, recorded)
    <2>1. CASE records' = records
      BY <2>1 DEF Held
    <2>2. ASSUME NEW f \in FactKinds, records' = Append(records, f)
          PROVE  Held(kind, recorded)' = Held(kind, recorded)
      BY <2>2 DEF EngineTypeOK, Held
    <2> QED BY <2>1, <2>2
  <1> QED BY <1>1, <1>2

\* A fact may be recorded without an event when the write of the event fails;
\* the events and the facts stay balanced, as the write that failed is noted.
RecordsOnly ==
  /\ UNCHANGED <<history, published, snapshot, pump>> /\ (faulted => faulted')
  /\ \/ records' = records
     \/ lost' /\ \E f \in FactKinds : records' = Append(records, f)
  /\ lost' \in BOOLEAN /\ (lost => lost')

\* A step of the engine publishes an event together with its fact, or adds at
\* most a fact.
LEMMA EngineHolds ==
  ASSUME EngineTypeOK, Apply \/ Run
  PROVE  (\E kind \in EventKinds : Emit(kind)) \/ RecordsOnly
  <1> DEFINE Few == {<<>>} \cup {<<f>> : f \in FactKinds}
  <1>1. ASSUME NEW recs \in Few
        PROVE  records \o recs = records \/ \E f \in FactKinds : records \o recs = Append(records, f)
    <2>1. records \in Seq(FactKinds)
      BY DEF EngineTypeOK
    <2>2. CASE recs = <<>>
      BY <2>1, <2>2
    <2>3. ASSUME NEW f \in FactKinds, recs = <<f>> PROVE records \o recs = Append(records, f)
      BY <2>1, <2>3
    <2> QED BY <2>2, <2>3
  <1>2. /\ \A f \in {"user_message", "session_closed", "assistant_block", "tool_result",
                     "run_outcome"} : <<f>> \in Few
        /\ <<>> \in Few
    BY DEF FactKinds, FactOf
  <1>3. ASSUME NEW recs \in Few, Fault(recs) PROVE RecordsOnly
    BY <1>1, <1>3 DEF Fault, FaultSession, CloseSubscribers, RecordsOnly
  <1>4. ASSUME NEW recs \in Few, Silently(recs), lost' = TRUE PROVE RecordsOnly
    BY <1>1, <1>4 DEF Silently, RecordsOnly, observationVars, sessionVars, subscriberVars
  <1>5. ASSUME Silently(<<>>), UNCHANGED lost PROVE RecordsOnly
    BY <1>1, <1>2, <1>5 DEF Silently, RecordsOnly, observationVars, sessionVars, subscriberVars,
                               EngineTypeOK
  <1>6. \A kind \in {"run_started", "warning", "session_resumed", "session_closed",
                     "assistant_delta", "retry_scheduled", "assistant_text", "tool_started",
                     "tool_finished", "run_ended"} : kind \in EventKinds
    BY DEF EventKinds, FactOf
  <1> HIDE DEF Few
  <1>7. CASE Submit \/ Notice \/ Close
    BY <1>2, <1>3, <1>6, <1>7 DEF Submit, Notice, Close
  <1>8. CASE Delta \/ RetryScheduled \/ AssistantText
    BY <1>2, <1>4, <1>6, <1>8 DEF Delta, RetryScheduled, AssistantText, WriteFails
  <1>9. CASE ResetStream \/ Truncated \/ NoText
    BY <1>5, <1>9 DEF ResetStream, Truncated, NoText
  <1>10. CASE ToolStarted \/ ToolFinished \/ FaultRun \/ FinishRun
    BY <1>2, <1>3, <1>4, <1>6, <1>10 DEF ToolStarted, ToolFinished, FaultRun, FinishRun
  <1> QED BY <1>7, <1>8, <1>9, <1>10 DEF Apply, Run

\* The types of what the engine and the snapshots keep.
LEMMA EngineTypesKept ==
  ASSUME EngineTypeOK, IInv, [Next]_vars PROVE EngineTypeOK'
  <1>1. ASSUME NEW kind \in EventKinds, Emit(kind)
        PROVE  /\ history' \in Seq(EventKinds) /\ records' \in Seq(FactKinds)
               /\ lost' \in BOOLEAN /\ snapshot' \in [Observers -> Snapshots]
    <2>1. kind \in DOMAIN FactOf => Append(records, FactOf[kind]) \in Seq(FactKinds)
      BY FactsDiffer DEF EngineTypeOK
    <2> QED BY <1>1, <2>1 DEF Emit, EngineTypeOK
  <1>2. ASSUME RecordsOnly
        PROVE  /\ history' \in Seq(EventKinds) /\ records' \in Seq(FactKinds)
               /\ lost' \in BOOLEAN /\ snapshot' \in [Observers -> Snapshots]
    BY <1>2 DEF RecordsOnly, EngineTypeOK
  <1>3. CASE Apply \/ Run
    <2>1. /\ history' \in Seq(EventKinds) /\ records' \in Seq(FactKinds)
          /\ lost' \in BOOLEAN /\ snapshot' \in [Observers -> Snapshots]
      BY <1>1, <1>2, <1>3, EngineHolds
    <2>2. /\ state' \in {"idle", "running", "closed"} /\ phase' \in Phases
          /\ partial' \in Nat /\ activeTool' \in BOOLEAN
      <3>0. ASSUME NEW recs, Fault(recs)
            PROVE  /\ state' \in {"idle", "running", "closed"} /\ phase' \in Phases
                   /\ partial' \in Nat /\ activeTool' \in BOOLEAN
        <4>1. state' = state /\ phase' = "none" /\ partial' = 0 /\ activeTool' = FALSE
          BY <3>0 DEF Fault
        <4> QED BY <4>1 DEF EngineTypeOK, Phases
      <3> DEFINE Faults == \E recs : Fault(recs)
      <3>1. CASE Faults
        BY <3>0, <3>1
      <3>2. CASE ~ Faults
        <4>1. \A recs : ~ Fault(recs)
          BY <3>2
        <4>2. CASE Submit \/ Notice \/ Close
          BY <4>1, <4>2 DEF EngineTypeOK, Submit, Notice, Close, Phases, viewVars
        <4>3. CASE Delta \/ RetryScheduled \/ AssistantText
          BY <4>3 DEF EngineTypeOK, Delta, RetryScheduled, AssistantText, WriteFails, Phases, viewVars
        <4>4. CASE ResetStream \/ Truncated \/ NoText
          BY <4>4 DEF EngineTypeOK, ResetStream, Truncated, NoText, Phases, viewVars
        <4>5. CASE ToolStarted
          BY <4>1, <4>5 DEF EngineTypeOK, ToolStarted, Phases
        <4>6. CASE ToolFinished
          BY <4>6 DEF EngineTypeOK, ToolFinished, Phases
        <4>7. CASE FaultRun
          BY <4>1, <4>7 DEF FaultRun
        <4>8. CASE FinishRun
          <5>1. ~ Fault(<<>>) /\ ~ Fault(<<"run_outcome">>)
            BY <4>1
          <5>2. state' = "idle" /\ phase' = "none" /\ partial' = 0 /\ activeTool' = FALSE
            BY <4>8, <5>1 DEF FinishRun
          <5> QED BY <5>2 DEF Phases
        <4> QED BY <1>3, <4>2, <4>3, <4>4, <4>5, <4>6, <4>7, <4>8 DEF Apply, Run
      <3> QED BY <3>1, <3>2
    <2> QED BY <2>1, <2>2 DEF EngineTypeOK
  <1>4. CASE Deliver \/ UNCHANGED vars
    BY <1>4 DEF Deliver, vars, engineVars, viewVars, EngineTypeOK
  <1>5. ASSUME NEW o \in Observers, Connect(o) PROVE EngineTypeOK'
    <2>1. [cursor |-> cursor, records |-> Len(records), partial |-> partial,
           activeTool |-> activeTool] \in Snapshots
      BY DEF EngineTypeOK, IInv, ObservationTypeOK, Snapshots
    <2> QED BY <1>5, <2>1 DEF Connect, engineVars, viewVars, EngineTypeOK
  <1> QED BY <1>3, <1>4, <1>5 DEF Next

\* Publishing keeps events and facts balanced.
LEMMA EmitBalances ==
  ASSUME EngineTypeOK, EngineTypeOK', CutInv, NEW kind \in EventKinds, Emit(kind)
  PROVE  Len(history') = published' /\ Balanced(Len(history), Len(records))'
  <1>1. /\ history' = Append(history, kind) /\ published' = published + 1 /\ lost' = lost
        /\ records' = IF kind \in DOMAIN FactOf THEN Append(records, FactOf[kind]) ELSE records
    BY DEF Emit, Publish
  <1>2. history \in Seq(EventKinds) /\ records \in Seq(FactKinds)
    BY DEF EngineTypeOK
  <1>3. ASSUME NEW k \in DOMAIN FactOf
        PROVE  LET t == Cardinality(Occurs(history, k))
                   h == Cardinality(Occurs(records, FactOf[k]))
                   one == IF k = kind THEN 1 ELSE 0
               IN  /\ t \in Nat /\ h \in Nat
                   /\ Cardinality(Occurs(history', k)) = t + one
                   /\ Cardinality(Occurs(records', FactOf[k])) = h + one
    <2>1. /\ Cardinality(Occurs(history, k)) \in Nat
          /\ Cardinality(Occurs(history', k)) =
               IF kind = k THEN Cardinality(Occurs(history, k)) + 1
               ELSE Cardinality(Occurs(history, k))
      BY <1>1, <1>2, OccursAppended
    <2>2. ASSUME NEW f \in FactKinds
          PROVE /\ Cardinality(Occurs(records, FactOf[k])) \in Nat
                /\ Cardinality(Occurs(Append(records, f), FactOf[k])) =
                     IF f = FactOf[k] THEN Cardinality(Occurs(records, FactOf[k])) + 1
                     ELSE Cardinality(Occurs(records, FactOf[k]))
      BY <1>2, OccursAppended
    <2>3. CASE kind \in DOMAIN FactOf
      <3>1. FactOf[kind] \in FactKinds /\ (FactOf[kind] = FactOf[k] <=> kind = k)
        BY <2>3, FactsDiffer
      <3> QED BY <1>1, <2>1, <2>2, <2>3, <3>1
    <2>4. CASE kind \notin DOMAIN FactOf
      <3>1. FactOf[k] \in FactKinds /\ kind # k
        BY <2>4, FactsDiffer
      <3> QED BY <1>1, <2>1, <2>2, <2>4, <3>1
    <2> QED BY <2>3, <2>4
  <1>4. /\ \A k : Told(k, Len(history)) = Occurs(history, k)
        /\ \A k : Held(k, Len(records)) = Occurs(records, FactOf[k])
        /\ \A k : Told(k, Len(history))' = Occurs(history', k)
        /\ \A k : Held(k, Len(records))' = Occurs(records', FactOf[k])
    <2>1. Len(history) \in Nat /\ Len(history') \in Nat
      BY <1>2 DEF EngineTypeOK
    <2> QED BY <2>1 DEF Told, Held, Occurs
  <1>5. Balanced(Len(history), Len(records))
    BY DEF CutInv
  <1>6. Balanced(Len(history), Len(records))'
    <2> SUFFICES ASSUME NEW k \in DOMAIN FactOf
                 PROVE  /\ Cardinality(Occurs(history', k)) <= Cardinality(Occurs(records', FactOf[k]))
                        /\ ~ lost' => Cardinality(Occurs(history', k)) =
                                        Cardinality(Occurs(records', FactOf[k]))
      BY <1>4 DEF Balanced
    <2>1. /\ Cardinality(Occurs(history, k)) <= Cardinality(Occurs(records, FactOf[k]))
          /\ ~ lost => Cardinality(Occurs(history, k)) = Cardinality(Occurs(records, FactOf[k]))
      BY <1>4, <1>5 DEF Balanced
    <2> QED BY <1>1, <1>3, <2>1
  <1>7. Len(history') = published'
    BY <1>1, <1>2 DEF CutInv
  <1> QED BY <1>6, <1>7

\* So does a fact without an event, as a write was lost.
LEMMA RecordingBalances ==
  ASSUME EngineTypeOK, CutInv, RecordsOnly
  PROVE  Len(history') = published' /\ Balanced(Len(history), Len(records))'
  <1>1. history' = history /\ published' = published /\ (~ lost' => ~ lost /\ records' = records)
    BY DEF RecordsOnly, EngineTypeOK
  <1>2. history \in Seq(EventKinds) /\ records \in Seq(FactKinds)
    BY DEF EngineTypeOK
  <1>3. ASSUME NEW k \in DOMAIN FactOf
        PROVE  /\ Cardinality(Occurs(records, FactOf[k])) \in Nat
               /\ Cardinality(Occurs(history, k)) \in Nat
               /\ Cardinality(Occurs(records', FactOf[k])) \in Nat
               /\ Cardinality(Occurs(records', FactOf[k])) >= Cardinality(Occurs(records, FactOf[k]))
    <2>0. /\ "user_message" \in FactKinds /\ "run_started" \in EventKinds
      BY DEF FactKinds, EventKinds, FactOf
    <2>1. /\ Cardinality(Occurs(records, FactOf[k])) \in Nat
          /\ Cardinality(Occurs(history, k)) \in Nat
      BY <1>2, <2>0, OccursAppended
    <2>2. ASSUME NEW f \in FactKinds, records' = Append(records, f)
          PROVE  /\ Cardinality(Occurs(records', FactOf[k])) \in Nat
                 /\ Cardinality(Occurs(records', FactOf[k])) >= Cardinality(Occurs(records, FactOf[k]))
      BY <1>2, <2>1, <2>2, OccursAppended
    <2> QED BY <2>1, <2>2 DEF RecordsOnly
  <1>4. /\ \A k : Told(k, Len(history)) = Occurs(history, k)
        /\ \A k : Held(k, Len(records)) = Occurs(records, FactOf[k])
        /\ \A k : Told(k, Len(history))' = Occurs(history', k)
        /\ \A k : Held(k, Len(records))' = Occurs(records', FactOf[k])
    BY <1>1, <1>2 DEF Told, Held, Occurs
  <1>5. Balanced(Len(history), Len(records))'
    <2> SUFFICES ASSUME NEW k \in DOMAIN FactOf
                 PROVE  /\ Cardinality(Occurs(history', k)) <= Cardinality(Occurs(records', FactOf[k]))
                        /\ ~ lost' => Cardinality(Occurs(history', k)) =
                                        Cardinality(Occurs(records', FactOf[k]))
      BY <1>4 DEF Balanced
    <2>1. /\ Cardinality(Occurs(history, k)) <= Cardinality(Occurs(records, FactOf[k]))
          /\ ~ lost => Cardinality(Occurs(history, k)) = Cardinality(Occurs(records, FactOf[k]))
      BY <1>4 DEF CutInv, Balanced
    <2> QED BY <1>1, <1>3, <2>1
  <1> QED BY <1>1, <1>5 DEF CutInv

\* A snapshot stays a cut while the engine goes on.
LEMMA SnapshotKept ==
  ASSUME EngineTypeOK, NEW o \in Observers, SnapshotInv(o), snapshot' = snapshot,
         lost => lost', faulted => faulted',
         \/ history' = history
         \/ ~ faulted /\ \E k \in EventKinds : history' = Append(history, k),
         records' = records \/ \E f \in FactKinds : records' = Append(records, f)
  PROVE  SnapshotInv(o)'
  <1> DEFINE c == snapshot[o].cursor
             r == snapshot[o].records
  <1>1. c \in Nat /\ r \in Nat /\ snapshot'[o].cursor = c /\ snapshot'[o].records = r
    BY DEF EngineTypeOK, Snapshots
  <1>2. r <= Len(records) /\ (c <= Len(history) \/ faulted) /\ Balanced(c, r)
    BY DEF SnapshotInv
  <1>3. Len(records') >= Len(records) /\ Len(history') >= Len(history)
        /\ Len(records) \in Nat /\ Len(history) \in Nat
        /\ Len(records') \in Nat /\ Len(history') \in Nat
    BY DEF EngineTypeOK
  <1> HIDE DEF c, r
  <1>4. ASSUME NEW k, NEW last \in Nat, NEW recorded \in Nat, last = c, recorded = r
        PROVE  Told(k, last)' = Told(k, last) /\ Held(k, recorded)' = Held(k, recorded)
    <2>1. \/ history' = history
          \/ last <= Len(history) /\ \E l \in EventKinds : history' = Append(history, l)
      BY <1>2, <1>4
    <2>2. recorded <= Len(records)
      BY <1>2, <1>4
    <2> QED BY <2>1, <2>2, PastKept
  <1>5. \A k : /\ Told(k, snapshot[o].cursor)' = Told(k, c)
               /\ Held(k, snapshot[o].records)' = Held(k, r)
    <2>1. PICK last \in Nat, recorded \in Nat : last = c /\ recorded = r
      BY <1>1
    <2>2. snapshot'[o].cursor = last /\ snapshot'[o].records = recorded
      BY <1>1, <2>1
    <2>3. \A k : /\ Told(k, snapshot[o].cursor)' = Told(k, last)'
                 /\ Held(k, snapshot[o].records)' = Held(k, recorded)'
      BY <2>2 DEF Told, Held
    <2> QED BY <1>4, <2>1, <2>3
  <1>6. Balanced(snapshot[o].cursor, snapshot[o].records)'
    BY <1>2, <1>5 DEF Balanced
  <1> QED BY <1>1, <1>2, <1>3, <1>6 DEF SnapshotInv, c, r

\* Only Register starts an observation.
LEMMA DeliverObserves ==
  ASSUME ObservationTypeOK, Deliver, NEW o \in Observers, Observing(o)' PROVE Observing(o)
  <1>1. CASE Shutdown
    BY <1>1 DEF Shutdown, CloseSubscribers, Observing
  <1>2. ASSUME NEW p \in Observers, Unsubscribe(p) \/ UnsubscribeCloses(p) \/ CloseDone(p)
        PROVE  pump' = pump
    BY <1>2 DEF Unsubscribe, UnsubscribeCloses, CloseDone, subscriberVars
  <1>3. ASSUME NEW p \in Observers, Receive(p) \/ PumpWakes(p) \/ PumpTakes(p) \/ PumpDone(p)
        PROVE  Observing(p) /\ \A q \in Observers : q # p => pump'[q] = pump[q]
    BY <1>3 DEF Receive, PumpWakes, PumpTakes, PumpDone, Observing, ObservationTypeOK
  <1> QED BY <1>1, <1>2, <1>3 DEF Deliver, Pump, Observing

LEMMA CutKept ==
  ASSUME EngineTypeOK, EngineTypeOK', IInv, CutInv, [Next]_vars PROVE CutInv'
  <1>1. ASSUME NEW kind \in EventKinds, Emit(kind) PROVE CutInv'
    <2>1. Len(history') = published' /\ Balanced(Len(history), Len(records))'
      BY <1>1, EmitBalances
    <2>2. /\ snapshot' = snapshot /\ lost' = lost /\ pump' = pump
          /\ ~ faulted /\ history' = Append(history, kind)
          /\ records' = records \/ \E f \in FactKinds : records' = Append(records, f)
      BY <1>1, FactsDiffer DEF Emit, Publish
    <2>3. ASSUME NEW o \in Observers, Observing(o)' PROVE SnapshotInv(o)'
      <3>1. SnapshotInv(o)
        BY <2>2, <2>3 DEF CutInv, Observing
      <3> QED BY <2>2, <3>1, SnapshotKept
    <2> QED BY <2>1, <2>3 DEF CutInv
  <1>2. ASSUME RecordsOnly PROVE CutInv'
    <2>1. Len(history') = published' /\ Balanced(Len(history), Len(records))'
      BY <1>2, RecordingBalances
    <2>2. /\ snapshot' = snapshot /\ (lost => lost') /\ pump' = pump
          /\ (faulted => faulted') /\ history' = history
          /\ records' = records \/ \E f \in FactKinds : records' = Append(records, f)
      BY <1>2 DEF RecordsOnly
    <2>3. ASSUME NEW o \in Observers, Observing(o)' PROVE SnapshotInv(o)'
      <3>1. SnapshotInv(o)
        BY <2>2, <2>3 DEF CutInv, Observing
      <3> QED BY <2>2, <3>1, SnapshotKept
    <2> QED BY <2>1, <2>3 DEF CutInv
  <1>3. ASSUME UNCHANGED <<history, records, lost, published>>
        PROVE  Len(history') = published' /\ Balanced(Len(history), Len(records))'
    BY <1>3 DEF CutInv, Balanced, Told, Held
  <1>4. CASE Deliver \/ UNCHANGED vars
    <2>1. UNCHANGED <<history, records, lost, published, snapshot>> /\ (faulted => faulted')
      <3>1. CASE UNCHANGED vars
        BY <3>1 DEF vars, observationVars, sessionVars, engineVars
      <3>2. CASE Deliver
        <4>1. UNCHANGED <<history, records, lost, snapshot>>
          BY <3>2 DEF Deliver, engineVars
        <4>2. UNCHANGED <<published, faulted>>
          BY <3>2 DEF Deliver, sessionVars, Shutdown, CloseSubscribers, Unsubscribe,
                      UnsubscribeCloses, Receive, Pump, CloseDone, PumpWakes, PumpTakes, PumpDone
        <4> QED BY <4>1, <4>2
      <3> QED BY <1>4, <3>1, <3>2
    <2>2. ASSUME NEW o \in Observers, Observing(o)' PROVE SnapshotInv(o)'
      <3>1. Observing(o)
        BY <1>4, <2>2, DeliverObserves
           DEF IInv, Observing, vars, observationVars, subscriberVars
      <3> QED BY <2>1, <3>1, SnapshotKept DEF CutInv
    <2> QED BY <1>3, <2>1, <2>2 DEF CutInv
  <1>5. ASSUME NEW o \in Observers, Connect(o) PROVE CutInv'
    <2>1. UNCHANGED <<history, records, lost, published, cursor, faulted>>
      BY <1>5 DEF Connect, Register, sessionVars, engineVars
    <2>2. /\ snapshot'[o].cursor = cursor /\ snapshot'[o].records = Len(records)
          /\ \A p \in Observers : p # o => snapshot'[p] = snapshot[p] /\ pump'[p] = pump[p]
      BY <1>5 DEF Connect, Register, EngineTypeOK, IInv, ObservationTypeOK
    <2>3. /\ Len(history) = published /\ Balanced(Len(history), Len(records))
          /\ cursor \in Nat /\ cursor >= published /\ (~ faulted => cursor = published)
          /\ Len(records) \in Nat /\ published \in Nat
      BY DEF CutInv, IInv, CursorIsPublished, ObservationTypeOK, EngineTypeOK
    <2>4. SnapshotInv(o)'
      <3>1. \A k : /\ Told(k, snapshot[o].cursor)' = Told(k, Len(history))
                   /\ Held(k, snapshot[o].records)' = Held(k, Len(records))
        BY <2>1, <2>2, <2>3 DEF Told, Held
      <3>2. Balanced(snapshot[o].cursor, snapshot[o].records)'
        BY <2>1, <2>3, <3>1 DEF Balanced
      <3> QED BY <2>1, <2>2, <2>3, <3>2 DEF SnapshotInv
    <2>5. ASSUME NEW p \in Observers, p # o, Observing(p)' PROVE SnapshotInv(p)'
      <3>1. SnapshotInv(p)
        BY <2>2, <2>5 DEF CutInv, Observing
      <3> QED BY <2>1, <2>2, <2>5, <3>1 DEF SnapshotInv, Balanced, Told, Held
    <2> QED BY <1>3, <2>1, <2>4, <2>5 DEF CutInv
  <1> QED BY <1>1, <1>2, <1>4, <1>5, EngineHolds DEF Next

\* In every state the log and the transcript are balanced, and so is what each
\* snapshot holds of them: as many events of a kind as facts of it, unless a write
\* failed (Observe, session.go:347; emitLocked and appendPayloadLocked under one
\* hold of the mutex, session.go:843-880).
THEOREM SnapshotInvariant == Spec => [](EngineTypeOK /\ CutInv)
  <1>1. Init => EngineTypeOK /\ CutInv
    <2> SUFFICES ASSUME Init PROVE EngineTypeOK /\ CutInv
      OBVIOUS
    <2>1. history = <<>> /\ records = <<>> /\ published = 0 /\ \A o \in Observers : pump[o] = "none"
      BY DEF Init, ObservationInit
    <2>2. EngineTypeOK
      <3>1. NoSnapshot \in Snapshots
        BY DEF NoSnapshot, Snapshots
      <3>2. <<>> \in Seq(EventKinds) /\ <<>> \in Seq(FactKinds)
        OBVIOUS
      <3> QED BY <2>1, <3>1, <3>2 DEF Init, EngineTypeOK, Phases
    <2>3. \A k : Told(k, Len(history)) = {} /\ Held(k, Len(records)) = {}
      BY <2>1 DEF Told, Held
    <2>4. Balanced(Len(history), Len(records))
      <3>1. Cardinality({}) <= Cardinality({})
        BY FS_EmptySet
      <3> QED BY <2>3, <3>1 DEF Balanced
    <2>5. Len(history) = published
      BY <2>1
    <2> QED BY <2>1, <2>2, <2>4, <2>5 DEF CutInv, Observing
  <1>2. IInv /\ EngineTypeOK /\ CutInv /\ [Next]_vars => (EngineTypeOK /\ CutInv)'
    BY EngineTypesKept, CutKept
  <1> QED BY <1>1, <1>2, ObserveImplementsSubscribers, ObservationInvariant, PTL
             DEF Spec, ImplementsSubscribers

\* The transcript of every snapshot holds the facts of the events before its
\* cursor and no others, unless a write failed (Observe, session.go:347; the
\* facts and their events are written under one lock, session.go:843-880).
THEOREM SnapshotsAreCuts == Spec => []SnapshotIsACut
  <1>1. EngineTypeOK /\ CutInv => SnapshotIsACut
    BY DEF CutInv, SnapshotInv, Balanced, Told, Held, SnapshotIsACut
  <1> QED BY <1>1, SnapshotInvariant, PTL
-----------------------------------------------------------------------------
(***************************************************************************)
(* The events after a snapshot bring it up to date.                        *)
(***************************************************************************)

LEMMA StreamParts ==
  ASSUME NEW o, received[o] \in Seq(Nat), offered[o] \in Seq(Nat), queue[o] \in Seq(Nat),
         after[o] \in Nat, InOrder(o)
  PROVE  /\ after[o] + Len(Stream(o)) = Reach(o)
         /\ \A i \in 1..Len(Stream(o)) : Stream(o)[i] = after[o] + i
  <1> DEFINE r == received[o]  f == offered[o]  q == queue[o]
  <1>1. after[o] + Len(r \o f \o q) = Reaches(after[o], r, f, q)
    BY GaplessParts
  <1>2. \A i \in 1..Len(r \o f \o q) : (r \o f \o q)[i] = after[o] + i
    BY GaplessParts DEF InOrder
  <1> QED BY <1>1, <1>2 DEF Stream, Reach

\* What a registered frontend has or will get of the events after its
\* snapshot is all of them.
LEMMA NewsIsAll ==
  ASSUME IInv, EngineTypeOK, Len(history) = published, NEW o \in subs,
         after[o] <= snapshot[o].cursor
  PROVE  News(o) = Since(snapshot[o].cursor)
  <1>1. /\ o \in Observers /\ snapshot[o].cursor \in Nat
        /\ received[o] \in Seq(Nat) /\ offered[o] \in Seq(Nat) /\ queue[o] \in Seq(Nat)
        /\ after[o] \in Nat /\ published \in Nat
    BY DEF IInv, ObservationTypeOK, EngineTypeOK, Snapshots
  <1>2. InOrder(o) /\ Registered(o)
    BY <1>1 DEF IInv, ObserverInv
  <1> DEFINE s == Stream(o)
             n == Len(s)
             a == after[o]
             k == snapshot[o].cursor
  <1>3. n \in Nat /\ a + n = Reach(o) /\ \A i \in 1..n : s[i] = a + i
    <2>1. s \in Seq(Nat)
      BY <1>1 DEF Stream
    <2>2. n \in Nat
      BY <2>1
    <2> QED BY <1>1, <1>2, <2>2, StreamParts
  <1>4. a + n >= published /\ (a + n <= published \/ n = 0)
    BY <1>1, <1>2, <1>3 DEF Registered
  <1> HIDE DEF s, n, a, k
  <1>5. {s[i] : i \in 1..n} = {c \in Nat : c > a /\ c <= a + n}
    <2>1. a \in Nat
      BY <1>1 DEF a
    <2>2. ASSUME NEW c \in Nat, c > a, c <= a + n PROVE c \in {s[i] : i \in 1..n}
      <3>1. c - a \in 1..n /\ c = a + (c - a)
        BY <1>3, <2>1, <2>2
      <3> QED BY <1>3, <3>1
    <2>3. ASSUME NEW i \in 1..n PROVE s[i] \in Nat /\ s[i] > a /\ s[i] <= a + n
      BY <1>3, <2>1, <2>3
    <2> QED BY <2>2, <2>3
  <1>6. News(o) = {c \in {s[i] : i \in 1..n} : c > k}
    BY DEF News, s, n, k
  <1>7. Since(k) = {c \in 1..published : c > k}
    BY DEF Since
  <1>8. a \in Nat /\ k \in Nat /\ a <= k
    BY <1>1 DEF a, k
  <1>9. News(o) = Since(k)
    <2>1. News(o) = {c \in {d \in Nat : d > a /\ d <= a + n} : c > k}
      BY <1>5, <1>6
    <2>2. ASSUME NEW c \in News(o) PROVE c \in Since(k)
      <3>1. c \in Nat /\ c > a /\ c <= a + n /\ c > k
        BY <2>1, <2>2
      <3>2. c \in 1..published
        BY <1>1, <1>3, <1>4, <1>8, <3>1
      <3> QED BY <1>7, <3>1, <3>2
    <2>3. ASSUME NEW c \in Since(k) PROVE c \in News(o)
      <3>1. c \in 1..published /\ c > k
        BY <1>7, <2>3
      <3>2. c \in Nat /\ c > a /\ c <= a + n
        BY <1>1, <1>3, <1>4, <1>8, <3>1
      <3> QED BY <2>1, <3>1, <3>2
    <2> QED BY <2>2, <2>3
  <1> QED BY <1>9 DEF k

\* The last of a set to which a later element is added is that element.
LEMMA LatestAdded ==
  ASSUME NEW n \in Nat, NEW S \in SUBSET (1..n)
  PROVE  /\ HasLast(S \cup {n + 1}) /\ Latest(S \cup {n + 1}) = n + 1
         /\ HasLast(S) /\ S # {} => Latest(S) \in S /\ \A c \in S : c <= Latest(S)
  <1>1. \A c \in S \cup {n + 1} : c <= n + 1
    OBVIOUS
  <1>2. ASSUME NEW m \in S \cup {n + 1}, \A c \in S \cup {n + 1} : c <= m PROVE m = n + 1
    BY <1>2
  <1>3. Latest(S \cup {n + 1}) = n + 1
    BY <1>1, <1>2 DEF Latest
  <1>4. ASSUME HasLast(S), S # {} PROVE Latest(S) \in S /\ \A c \in S : c <= Latest(S)
    BY <1>4 DEF HasLast, Latest
  <1> QED BY <1>1, <1>3, <1>4 DEF HasLast

\* What an event changes in what a frontend shows.
LEMMA EventShown ==
  ASSUME NEW k \in Nat, NEW shown \in Nat, NEW tool \in BOOLEAN, NEW kind \in EventKinds,
         history \in Seq(EventKinds), history' = Append(history, kind), k <= Len(history),
         HasLast(Breaks(k)), HasLast(Changes(k))
  PROVE  /\ HasLast(Breaks(k))' /\ HasLast(Changes(k))'
         /\ kind = "assistant_delta" => PartialSince(k, shown)' = PartialSince(k, shown) + 1
         /\ kind # "assistant_delta" => PartialSince(k, shown)' = 0
         /\ kind \in {"tool_started", "tool_finished", "run_ended"} =>
              (ToolSince(k, tool)' <=> kind = "tool_started")
         /\ kind \notin {"tool_started", "tool_finished", "run_ended"} =>
              (ToolSince(k, tool)' <=> ToolSince(k, tool))
  <1> DEFINE n == Len(history)
             S == Since(k)
             B == Breaks(k)
             C == Changes(k)
  <1>1. /\ n \in Nat /\ Len(history') = n + 1 /\ history'[n + 1] = kind
        /\ \A i \in 1..n : history'[i] = history[i]
    OBVIOUS
  <1>2. S' = S \cup {n + 1} /\ S \in SUBSET (1..n) /\ n + 1 \notin S
    BY <1>1 DEF Since
  <1>3. IsFiniteSet(S)
    <2>1. IsFiniteSet(1..n)
      BY <1>1, FS_Interval
    <2> QED BY <1>2, <2>1, FS_Subset
  <1>4. B \in SUBSET (1..n) /\ C \in SUBSET (1..n) /\ B \in SUBSET S
    BY <1>2 DEF Breaks, Changes
  <1>5. B' = IF kind = "assistant_delta" THEN B ELSE B \cup {n + 1}
    BY <1>1, <1>2 DEF Breaks
  <1>6. C' = IF kind \in {"tool_started", "tool_finished", "run_ended"} THEN C \cup {n + 1} ELSE C
    BY <1>1, <1>2 DEF Changes
  <1> HIDE DEF n, S, B, C
  <1>7. /\ HasLast(B \cup {n + 1}) /\ Latest(B \cup {n + 1}) = n + 1
        /\ HasLast(C \cup {n + 1}) /\ Latest(C \cup {n + 1}) = n + 1
        /\ B # {} => Latest(B) \in B
        /\ C # {} => Latest(C) \in C
    BY <1>1, <1>4, LatestAdded DEF B, C
  <1>8. HasLast(B)' /\ HasLast(C)'
    <2>1. HasLast(B) /\ HasLast(C)
      BY DEF B, C
    <2>2. HasLast(B') /\ HasLast(C')
      BY <1>5, <1>6, <1>7, <2>1
    <2> QED BY <2>2 DEF HasLast
  <1>9. ASSUME kind = "assistant_delta"
        PROVE  PartialSince(k, shown)' = PartialSince(k, shown) + 1
    <2>1. B' = B
      BY <1>5, <1>9
    <2>2. CASE B = {}
      <3>1. Cardinality(S') = Cardinality(S) + 1 /\ Cardinality(S) \in Nat
        BY <1>2, <1>3, FS_AddElement, FS_CardinalityType
      <3>2. PartialSince(k, shown) = shown + Cardinality(S)
            /\ PartialSince(k, shown)' = shown + Cardinality(S')
        BY <2>1, <2>2 DEF PartialSince, S, B
      <3> QED BY <3>1, <3>2
    <2>3. CASE B # {}
      <3> DEFINE T == {c \in S : c > Latest(B)}
                 U == {c \in S' : c > Latest(B)}
      <3>1. Latest(B) \in 1..n
        BY <1>4, <1>7, <2>3
      <3>2. U = T \cup {n + 1} /\ n + 1 \notin T
        BY <1>1, <1>2, <3>1
      <3>3. IsFiniteSet(T)
        BY <1>3, FS_Subset
      <3>4. Cardinality(U) = Cardinality(T) + 1
        BY <3>2, <3>3, FS_AddElement
      <3>5. PartialSince(k, shown) = Cardinality(T)
        BY <2>3 DEF PartialSince, S, B
      <3>6. PartialSince(k, shown)' = Cardinality(U)
        <4>1. Latest(B)' = Latest(B)
          BY <2>1 DEF Latest
        <4>2. B' # {}
          BY <2>1, <2>3
        <4> QED BY <4>1, <4>2 DEF PartialSince, S, B
      <3> QED BY <3>4, <3>5, <3>6
    <2> QED BY <2>2, <2>3
  <1>10. ASSUME kind # "assistant_delta" PROVE PartialSince(k, shown)' = 0
    <2>1. B' = B \cup {n + 1}
      BY <1>5, <1>10
    <2>2. Latest(B)' = n + 1
      BY <1>7, <2>1 DEF Latest
    <2>3. {c \in S' : c > n + 1} = {}
      <3>1. \A c \in S' : c \in 1..(n + 1)
        BY <1>1, <1>2
      <3>2. \A c \in S' : ~ c > n + 1
        BY <1>1, <3>1
      <3> QED BY <3>2
    <2>4. PartialSince(k, shown)' = Cardinality({c \in S' : c > n + 1})
      BY <2>1, <2>2 DEF PartialSince, S, B
    <2> QED BY <2>3, <2>4, FS_EmptySet
  <1>11. ASSUME kind \in {"tool_started", "tool_finished", "run_ended"}
         PROVE  ToolSince(k, tool)' <=> kind = "tool_started"
    <2>1. C' = C \cup {n + 1}
      BY <1>6, <1>11
    <2>2. Latest(C)' = n + 1
      BY <1>7, <2>1 DEF Latest
    <2>3. ToolSince(k, tool)' <=> history'[n + 1] = "tool_started"
      BY <2>1, <2>2 DEF ToolSince, C
    <2> QED BY <1>1, <2>3
  <1>12. ASSUME kind \notin {"tool_started", "tool_finished", "run_ended"}
         PROVE  ToolSince(k, tool)' <=> ToolSince(k, tool)
    <2>1. C' = C
      BY <1>6, <1>12
    <2>2. Latest(C)' = Latest(C)
      BY <2>1 DEF Latest
    <2>3. CASE C = {}
      BY <2>1, <2>3 DEF ToolSince, C
    <2>4. CASE C # {}
      <3>1. history'[Latest(C)] = history[Latest(C)]
        BY <1>1, <1>4, <1>7, <2>4
      <3>2. ToolSince(k, tool) <=> history[Latest(C)] = "tool_started"
        BY <2>4 DEF ToolSince, C
      <3>3. ToolSince(k, tool)' <=> history'[Latest(C)] = "tool_started"
        BY <2>1, <2>2, <2>4 DEF ToolSince, C
      <3> QED BY <3>1, <3>2, <3>3
    <2> QED BY <2>3, <2>4
  <1> QED BY <1>8, <1>9, <1>10, <1>11, <1>12 DEF B, C

\* What a hold of the mutex does to what the registered frontends show: an
\* event changes it as above, no event leaves it, a fault ends every observation.
Quiet ==
  /\ subs' = subs
  /\ \A o \in subs : /\ Fits(o)' /\ Shows(o)' = Shows(o)
                     /\ ShowsTool(o)' <=> ShowsTool(o)

Brought(kind) ==
  /\ subs' = subs /\ ~ faulted
  /\ \A o \in subs :
       /\ Fits(o)'
       /\ Shows(o)' = IF kind = "assistant_delta" THEN Shows(o) + 1 ELSE 0
       /\ kind \in {"tool_started", "tool_finished", "run_ended"} =>
            (ShowsTool(o)' <=> kind = "tool_started")
       /\ kind \notin {"tool_started", "tool_finished", "run_ended"} =>
            (ShowsTool(o)' <=> ShowsTool(o))

LEMMA EmitBrings ==
  ASSUME EngineTypeOK, IInv, CutInv, ViewInv, NEW kind \in EventKinds, Emit(kind)
  PROVE  Brought(kind)
  <1>1. /\ subs' = subs /\ ~ faulted /\ after' = after /\ snapshot' = snapshot
        /\ history' = Append(history, kind)
    BY DEF Emit, Publish, frontendVars
  <1>2. ASSUME NEW o \in subs
        PROVE  /\ Fits(o)'
               /\ Shows(o)' = IF kind = "assistant_delta" THEN Shows(o) + 1 ELSE 0
               /\ kind \in {"tool_started", "tool_finished", "run_ended"} =>
                    (ShowsTool(o)' <=> kind = "tool_started")
               /\ kind \notin {"tool_started", "tool_finished", "run_ended"} =>
                    (ShowsTool(o)' <=> ShowsTool(o))
    <2>1. o \in Observers /\ Observing(o)
      BY DEF IInv, ObservationTypeOK, ObserverInv, Registered
    <2>2. PICK k \in Nat, shown \in Nat, tool \in BOOLEAN :
            /\ k = snapshot[o].cursor /\ shown = snapshot[o].partial
            /\ tool = snapshot[o].activeTool
      BY <2>1 DEF EngineTypeOK, Snapshots
    <2>3. k <= Len(history)
      BY <1>1, <2>1, <2>2 DEF CutInv, SnapshotInv
    <2>4. after[o] <= k /\ HasLast(Breaks(k)) /\ HasLast(Changes(k))
      BY <2>2 DEF ViewInv, Fits
    <2>5. history \in Seq(EventKinds)
      BY DEF EngineTypeOK
    <2>6. /\ HasLast(Breaks(k))' /\ HasLast(Changes(k))'
          /\ kind = "assistant_delta" => PartialSince(k, shown)' = PartialSince(k, shown) + 1
          /\ kind # "assistant_delta" => PartialSince(k, shown)' = 0
          /\ kind \in {"tool_started", "tool_finished", "run_ended"} =>
               (ToolSince(k, tool)' <=> kind = "tool_started")
          /\ kind \notin {"tool_started", "tool_finished", "run_ended"} =>
               (ToolSince(k, tool)' <=> ToolSince(k, tool))
      BY <1>1, <2>3, <2>4, <2>5, EventShown
    <2>7. Shows(o) = PartialSince(k, shown) /\ (ShowsTool(o) <=> ToolSince(k, tool))
      BY <2>2 DEF Shows, ShowsTool
    <2>8. snapshot'[o].cursor = k /\ snapshot'[o].partial = shown /\ snapshot'[o].activeTool = tool
      BY <1>1, <2>2
    <2>9. Shows(o)' = PartialSince(k, shown)' /\ (ShowsTool(o)' <=> ToolSince(k, tool)')
      BY <2>8 DEF Shows, ShowsTool, PartialSince, ToolSince, Breaks, Changes, Since
    <2>10. Fits(o)'
      BY <1>1, <2>4, <2>6, <2>8 DEF Fits, HasLast, Breaks, Changes, Since
    <2> QED BY <2>6, <2>7, <2>9, <2>10
  <1> QED BY <1>1, <1>2 DEF Brought

\* Nothing that is shown depends on anything but the history and the snapshot.
LEMMA ShownKept ==
  ASSUME NEW o, history' = history, after'[o] = after[o], snapshot'[o] = snapshot[o]
  PROVE  /\ Fits(o)' <=> Fits(o)
         /\ Shows(o)' = Shows(o)
         /\ ShowsTool(o)' <=> ShowsTool(o)
  BY DEF Fits, Shows, ShowsTool, PartialSince, ToolSince, HasLast, Breaks, Changes, Since, Latest

LEMMA SilenceIsQuiet ==
  ASSUME ViewInv, NEW recs, Silently(recs) PROVE Quiet
  <1>1. UNCHANGED <<subs, after, history, snapshot>>
    BY DEF Silently, observationVars, frontendVars
  <1> QED BY <1>1, ShownKept DEF Quiet, ViewInv

\* Every hold of the mutex keeps what is shown in step with what there is.
LEMMA ApplyInView ==
  ASSUME EngineTypeOK, IInv, CutInv, ViewInv, Apply PROVE ViewInv'
  <1>1. \A kind \in EventKinds : Emit(kind) => Brought(kind)
    BY EmitBrings
  <1>2. {"run_started", "warning", "session_resumed", "session_closed"} \subseteq EventKinds
    BY DEF EventKinds, FactOf
  <1>3. \A recs : Fault(recs) => subs' = {} /\ state' = state /\ phase' = "none" /\ partial' = 0
    BY DEF Fault, FaultSession, CloseSubscribers
  <1>4. phase = "none" /\ partial = 0
    BY DEF Apply, Submit, Notice, Close, Idle, ViewInv
  <1>5. CASE \E recs : Fault(recs)
    BY <1>3, <1>4, <1>5 DEF ViewInv
  <1>6. CASE ~ \E recs : Fault(recs)
    <2>1. \A recs : ~ Fault(recs)
      BY <1>6
    <2>2. \E kind \in {"run_started", "warning", "session_resumed", "session_closed"} :
            Emit(kind) /\ UNCHANGED viewVars /\ phase' \in {"none", "calling"}
            /\ (state' # "running" => phase' = "none")
      BY <1>4, <2>1 DEF Apply, Submit, Notice, Close, Idle
    <2>3. PICK kind \in {"run_started", "warning", "session_resumed", "session_closed"} :
            Brought(kind) /\ UNCHANGED viewVars /\ phase' \in {"none", "calling"}
            /\ (state' # "running" => phase' = "none")
      BY <1>1, <1>2, <2>2
    <2> QED BY <1>4, <2>3 DEF ViewInv, Brought, viewVars
  <1> QED BY <1>5, <1>6

LEMMA RunInView ==
  ASSUME EngineTypeOK, IInv, CutInv, ViewInv, Run PROVE ViewInv'
  <1>1. \A kind \in EventKinds : Emit(kind) => Brought(kind)
    BY EmitBrings
  <1>2. /\ {"assistant_delta", "retry_scheduled", "assistant_text"} \subseteq EventKinds
        /\ {"tool_started", "tool_finished", "run_ended"} \subseteq EventKinds
    BY DEF EventKinds, FactOf
  <1>3. \A recs : Silently(recs) => Quiet
    BY SilenceIsQuiet
  <1>4. ASSUME \E recs : Fault(recs) PROVE ViewInv'
    <2>1. subs' = {} /\ phase' = "none" /\ partial' = 0
      BY <1>4 DEF Fault, FaultSession, CloseSubscribers
    <2> QED BY <2>1 DEF ViewInv
  <1>5. partial \in Nat
    BY DEF EngineTypeOK
  <1>6. CASE Delta
    <2>1. /\ phase = "calling" /\ state = "running" /\ state' = state /\ partial' = partial + 1
          /\ activeTool' = activeTool
          /\ \/ Brought("assistant_delta") /\ phase' = phase
             \/ Quiet /\ phase' = "finishing"
      BY <1>1, <1>2, <1>3, <1>6 DEF Delta, WriteFails, ViewInv
    <2> QED BY <2>1 DEF ViewInv, Brought, Quiet
  <1>7. CASE ResetStream \/ Truncated
    <2>1. /\ phase = "calling" /\ state = "running" /\ state' = state /\ partial' = 0
          /\ activeTool' = activeTool /\ Quiet /\ phase' \in {"resetting", "calls", "finishing"}
      BY <1>3, <1>7 DEF ResetStream, Truncated, ViewInv
    <2> QED BY <2>1 DEF ViewInv, Quiet
  <1>8. CASE RetryScheduled
    <2>1. /\ phase = "resetting" /\ state = "running" /\ state' = state /\ partial' = partial
          /\ activeTool' = activeTool
          /\ \/ Brought("retry_scheduled") /\ phase' = "calling"
             \/ Quiet /\ phase' = "finishing"
      BY <1>1, <1>2, <1>3, <1>8 DEF RetryScheduled, WriteFails, ViewInv, viewVars
    <2> QED BY <2>1 DEF ViewInv, Brought, Quiet
  <1>9. CASE AssistantText
    <2>1. /\ phase = "calling" /\ state = "running" /\ state' = state /\ partial' = 0
          /\ activeTool' = activeTool
          /\ \/ Brought("assistant_text") /\ phase' \in {"calls", "finishing"}
             \/ Quiet /\ phase' = "finishing"
      BY <1>1, <1>2, <1>3, <1>9 DEF AssistantText, WriteFails, ViewInv
    <2> QED BY <2>1 DEF ViewInv, Brought, Quiet
  <1>10. CASE NoText
    <2>1. /\ phase = "calling" /\ state = "running" /\ state' = state /\ partial = 0
          /\ partial' = 0 /\ activeTool' = activeTool /\ Quiet /\ phase' = "calls"
      BY <1>3, <1>10 DEF NoText, ViewInv, viewVars
    <2> QED BY <2>1 DEF ViewInv, Quiet
  <1>11. CASE ToolStarted /\ ~ \E recs : Fault(recs)
    <2>0. ~ Fault(<<>>)
      BY <1>11
    <2>1. /\ phase = "calls" /\ state = "running" /\ state' = state /\ partial' = partial
          /\ activeTool' = TRUE /\ Brought("tool_started") /\ phase' = "tool"
      BY <1>1, <1>2, <1>11, <2>0 DEF ToolStarted, ViewInv
    <2> QED BY <2>1 DEF ViewInv, Brought
  <1>12. CASE ToolFinished
    <2>1. /\ phase \in {"calls", "tool"} /\ state = "running" /\ state' = state
          /\ partial' = partial /\ activeTool' = FALSE
          /\ \/ Brought("tool_finished") /\ phase' \in {"calls", "calling", "finishing"}
             \/ Quiet /\ phase' = "faulting"
      BY <1>1, <1>2, <1>3, <1>12 DEF ToolFinished, ViewInv
    <2> QED BY <2>1 DEF ViewInv, Brought, Quiet
  <1>13. CASE FinishRun /\ ~ \E recs : Fault(recs)
    <2>0. ~ Fault(<<>>) /\ ~ Fault(<<"run_outcome">>)
      BY <1>13
    <2>1. /\ state' = "idle" /\ phase' = "none" /\ partial' = 0 /\ activeTool' = FALSE
          /\ Brought("run_ended")
      BY <1>1, <1>2, <1>13, <2>0 DEF FinishRun
    <2> QED BY <2>1 DEF ViewInv, Brought
  <1>14. FaultRun => \E recs : Fault(recs)
    BY DEF FaultRun
  <1> QED
    BY <1>4, <1>6, <1>7, <1>8, <1>9, <1>10, <1>11, <1>12, <1>13, <1>14 DEF Run

\* Delivery may end observations and changes nothing else.
LEMMA DeliveryInView ==
  ASSUME ViewInv, Deliver \/ UNCHANGED vars PROVE ViewInv'
  <1>1. UNCHANGED <<state, phase, partial, activeTool, history, snapshot>>
    BY DEF Deliver, vars, engineVars, viewVars
  <1>2. subs' \in SUBSET subs /\ after' = after
    <2>1. CASE UNCHANGED vars
      BY <2>1 DEF vars, observationVars, frontendVars
    <2>2. CASE Deliver
      BY <2>2 DEF Deliver, Shutdown, CloseSubscribers, Unsubscribe, UnsubscribeCloses, Receive,
                  Pump, CloseDone, PumpWakes, PumpTakes, PumpDone, frontendVars
    <2> QED BY <2>1, <2>2
  <1>3. ASSUME NEW o \in subs
        PROVE  (Fits(o)' <=> Fits(o)) /\ Shows(o)' = Shows(o) /\ (ShowsTool(o)' <=> ShowsTool(o))
    BY <1>1, <1>2, ShownKept
  <1> QED BY <1>1, <1>2, <1>3 DEF ViewInv

\* A frontend that connects shows what there is.
LEMMA ConnectInView ==
  ASSUME EngineTypeOK, IInv, CutInv, ViewInv, NEW o \in Observers, Connect(o) PROVE ViewInv'
  <1>1. /\ UNCHANGED <<state, phase, partial, activeTool, history, cursor, published, faulted>>
        /\ subs' = subs \cup {o}
        /\ snapshot'[o] = [cursor |-> cursor, records |-> Len(records),
                           partial |-> partial, activeTool |-> activeTool]
        /\ after'[o] \in 0..cursor
        /\ \A p \in Observers : p # o => snapshot'[p] = snapshot[p] /\ after'[p] = after[p]
    BY DEF Connect, Register, sessionVars, engineVars, viewVars, EngineTypeOK, IInv,
           ObservationTypeOK
  <1>2. cursor \in Nat /\ cursor >= Len(history) /\ Len(history) \in Nat /\ partial \in Nat
    BY DEF IInv, CursorIsPublished, ObservationTypeOK, CutInv, EngineTypeOK
  <1>3. Fits(o)' /\ Shows(o)' = partial /\ (ShowsTool(o)' <=> activeTool)
    <2>1. /\ Since(snapshot[o].cursor)' = {}
          /\ Breaks(snapshot[o].cursor)' = {} /\ Changes(snapshot[o].cursor)' = {}
      BY <1>1, <1>2 DEF Since, Breaks, Changes
    <2>2. after'[o] <= snapshot'[o].cursor
      BY <1>1, <1>2
    <2>3. Fits(o)'
      BY <2>1, <2>2 DEF Fits, HasLast
    <2>4. Shows(o)' = partial + Cardinality({})
      <3>1. snapshot'[o].partial = partial
        BY <1>1
      <3>2. Shows(o)' = snapshot'[o].partial + Cardinality(Since(snapshot[o].cursor)')
        BY <2>1 DEF Shows, PartialSince
      <3> QED BY <2>1, <3>1, <3>2
    <2>5. ShowsTool(o)' <=> activeTool
      BY <1>1, <2>1 DEF ShowsTool, ToolSince
    <2> QED BY <1>2, <2>3, <2>4, <2>5, FS_EmptySet
  <1>4. ASSUME NEW p \in subs, p # o
        PROVE  (Fits(p)' <=> Fits(p)) /\ Shows(p)' = Shows(p) /\ (ShowsTool(p)' <=> ShowsTool(p))
    <2>1. p \in Observers
      BY DEF IInv, ObservationTypeOK
    <2> QED BY <1>1, <1>4, <2>1, ShownKept
  <1>5. \A p \in subs' : p = o \/ (p \in subs /\ p # o)
    BY <1>1
  <1> QED BY <1>1, <1>3, <1>4, <1>5 DEF ViewInv

\* What an observer gets by applying the events since its snapshot is, in every
\* state, what the session itself holds, up to the text that is reset without an
\* event (onText and resetStream, session.go:589-610).
THEOREM ViewInvariant == Spec => []ViewInv
  <1>1. Init => ViewInv
    BY DEF Init, ObservationInit, ViewInv
  <1>2. IInv /\ EngineTypeOK /\ CutInv /\ ViewInv /\ [Next]_vars => ViewInv'
    BY ApplyInView, RunInView, DeliveryInView, ConnectInView DEF Next
  <1> QED BY <1>1, <1>2, ObserveImplementsSubscribers, ObservationInvariant, SnapshotInvariant, PTL
             DEF Spec, ImplementsSubscribers

\* A frontend that applies the events after its snapshot to it ends up with
\* the streamed text and the active tool of the session, from whatever cursor
\* it asked for events and whenever it connected (Observe, session.go:347;
\* onText and resetStream, session.go:589-610; run, session.go:642-698).
THEOREM ReplaysAgree == Spec => []ReplayAgrees
  <1>1. IInv /\ EngineTypeOK /\ CutInv /\ ViewInv => ReplayAgrees
    <2> SUFFICES ASSUME IInv, EngineTypeOK, CutInv, ViewInv, NEW o \in subs
                 PROVE  /\ phase # "faulting" => ShownTool(o) = activeTool
                        /\ phase \in {"none", "calling", "tool"} => ShownPartial(o) = partial
                        /\ phase \in {"resetting", "calls"} =>
                             ShownPartial(o) = partial \/ partial = 0
      BY DEF ReplayAgrees
    <2> DEFINE k == snapshot[o].cursor
    <2>1. News(o) = Since(k)
      BY NewsIsAll DEF CutInv, ViewInv, Fits
    <2>2. ShownPartial(o) = Shows(o)
      BY <2>1 DEF ShownPartial, Shows, PartialSince, Breaks
    <2>3. ShownTool(o) = ShowsTool(o)
      BY <2>1 DEF ShownTool, ShowsTool, ToolSince, Changes
    <2>4. ShowsTool(o) \in BOOLEAN /\ activeTool \in BOOLEAN
      <3>1. o \in Observers
        BY DEF IInv, ObservationTypeOK
      <3>2. snapshot[o].activeTool \in BOOLEAN /\ activeTool \in BOOLEAN
        BY <3>1 DEF EngineTypeOK, Snapshots
      <3> QED BY <3>2 DEF ShowsTool, ToolSince
    <2>5. phase # "faulting" => ShownTool(o) = activeTool
      BY <2>3, <2>4 DEF ViewInv
    <2> QED BY <2>2, <2>5 DEF ViewInv
  <1> QED BY <1>1, ObserveImplementsSubscribers, ObservationInvariant, SnapshotInvariant,
             ViewInvariant, PTL
             DEF ImplementsSubscribers
=============================================================================
