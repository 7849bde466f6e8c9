-------------------------- MODULE TranscriptProofs --------------------------
(***************************************************************************)
(* The pairing scan of Transcript, for every log of every length: what it  *)
(* has collected after each entry, that it accepts exactly the logs whose  *)
(* calls and results are paired, and that the records of the repair make a *)
(* loadable log a transcript again.  Of the messages made of a log, that   *)
(* they answer every batch of calls if the log is in order.                *)
(*                                                                         *)
(* Induction over the length of a log is by the least number at which a    *)
(* claim fails, which is the least of the intervals 1..n.                  *)
(***************************************************************************)
EXTENDS Prompt, Integers, FiniteSetTheorems, SequenceTheorems, TLAPS

LEMMA LeastNumber ==
  ASSUME NEW T \in SUBSET Nat, T # {}
  PROVE  \E m \in T : \A n \in T : m <= n
  <1> DEFINE Intervals == {1..n : n \in T}
             Smaller == StrictSubsetOrdering(Nat)
             Finite == FiniteSubsetsOf(Nat)
  <1>1. IsWellFoundedOn(Smaller, Finite)
    BY FS_StrictSubsetOrderingWellFounded
  <1>2. Intervals \subseteq Finite /\ Intervals # {}
    <2>1. ASSUME NEW n \in T PROVE 1..n \in SUBSET Nat /\ IsFiniteSet(1..n)
      <3>1. n \in Int /\ 1 \in Int /\ 1..n \subseteq Nat
        OBVIOUS
      <3> QED
        BY <3>1, FS_Interval
    <2>2. ASSUME NEW n \in T PROVE 1..n \in Finite
      BY <2>1 DEF FiniteSubsetsOf
    <2> HIDE DEF Finite
    <2> QED
      BY <2>2
  <1>3. PICK x \in Intervals : \A y \in Intervals : <<y, x>> \notin Smaller
    <2> HIDE DEF Intervals, Smaller, Finite
    <2> QED
      BY <1>1, <1>2, WFMin, Zenon
  <1>4. PICK m \in T : x = 1..m
    OBVIOUS
  <1>5. ASSUME NEW n \in T, n < m PROVE FALSE
    <2>1. 1..n \in Intervals
      OBVIOUS
    <2>2. 1..n \subseteq 1..m /\ 1..n # 1..m /\ 1..n \subseteq Nat /\ 1..m \subseteq Nat
      <3>1. n \in Nat /\ m \in Nat /\ n < m
        BY <1>5
      <3>2. m \in 1..m /\ m \notin 1..n
        BY <3>1
      <3> QED
        BY <3>1, <3>2
    <2>3. <<1..n, 1..m>> \in Smaller
      BY <2>2 DEF StrictSubsetOrdering
    <2> QED
      BY <2>1, <2>3, <1>3, <1>4
  <1> QED
    BY <1>5

LEMMA UpTo ==
  ASSUME NEW m \in Nat, NEW S, 0 \in S, \A n \in 0..(m - 1) : n \in S => n + 1 \in S
  PROVE  0..m \subseteq S
  <1> DEFINE T == {n \in 0..m : n \notin S}
  <1> SUFFICES ASSUME T # {} PROVE FALSE
    OBVIOUS
  <1>1. PICK k \in T : \A n \in T : k <= n
    <2>1. T \in SUBSET Nat
      OBVIOUS
    <2> HIDE DEF T
    <2> QED
      BY <2>1, LeastNumber
  <1>2. k \in 0..m /\ k # 0
    OBVIOUS
  <1>3. k - 1 \in 0..(m - 1) /\ k - 1 \notin T
    BY <1>1, <1>2
  <1>4. k - 1 \in S /\ (k - 1) + 1 = k
    BY <1>2, <1>3
  <1> QED
    BY <1>3, <1>4

\* A function that is computed entry by entry exists.
Recurses(f, m, first, step) ==
  \A n \in 0..m : f[n] = IF n = 0 THEN first ELSE step[n][f[n - 1]]

LEMMA Recursion ==
  ASSUME NEW m \in Nat, NEW P, NEW first \in P, NEW step \in [1..m -> [P -> P]]
  PROVE  \E f \in [0..m -> P] : Recurses(f, m, first, step)
  <1> DEFINE S == {k \in 0..m : \E f \in [0..k -> P] : Recurses(f, k, first, step)}
  <1>1. 0 \in S
    <2> DEFINE f == [n \in 0..0 |-> first]
    <2>1. f \in [0..0 -> P] /\ Recurses(f, 0, first, step)
      BY DEF Recurses
    <2> HIDE DEF f
    <2> QED
      BY <2>1
  <1>2. ASSUME NEW k \in 0..(m - 1), k \in S PROVE k + 1 \in S
    <2>1. PICK f \in [0..k -> P] : Recurses(f, k, first, step)
      BY <1>2
    <2> DEFINE g == [n \in 0..(k + 1) |-> IF n <= k THEN f[n] ELSE step[k + 1][f[k]]]
    <2>2. g \in [0..(k + 1) -> P]
      <3>1. k + 1 \in 1..m /\ k \in 0..k
        OBVIOUS
      <3>2. step[k + 1] \in [P -> P] /\ f[k] \in P
        BY <3>1
      <3>3. step[k + 1][f[k]] \in P
        BY <3>2
      <3> QED
        BY <3>3
    <2>3. ASSUME NEW n \in 0..(k + 1)
          PROVE  g[n] = IF n = 0 THEN first ELSE step[n][g[n - 1]]
      <3>1. CASE n <= k
        <4>1. n \in 0..k
          BY <3>1
        <4>2. g[n] = f[n] /\ (n # 0 => g[n - 1] = f[n - 1])
          BY <4>1
        <4>3. f[n] = IF n = 0 THEN first ELSE step[n][f[n - 1]]
          BY <4>1, <2>1 DEF Recurses
        <4> QED
          BY <4>2, <4>3
      <3>2. CASE n = k + 1
        BY <3>2
      <3> QED
        BY <3>1, <3>2
    <2>4. Recurses(g, k + 1, first, step)
      BY <2>3 DEF Recurses
    <2>5. k + 1 \in 0..m
      OBVIOUS
    <2> HIDE DEF g
    <2> QED
      BY <2>2, <2>4, <2>5
  <1>3. 0..m \subseteq S
    <2> HIDE DEF S
    <2> QED
      BY <1>1, <1>2, UpTo
  <1> QED
    BY <1>3
-----------------------------------------------------------------------------
(***************************************************************************)
(* What the scan has collected after n entries.                            *)
(***************************************************************************)
CallOf(entries, i) == [id |-> entries[i].rec.call, run |-> entries[i].rec.run]
CallsUpTo(entries, n) == {CallOf(entries, i) : i \in {k \in 1..n : CallAt(entries, k)}}
ResultsUpTo(entries, n) ==
  {entries[j].rec.call : j \in {k \in 1..n : ResultAt(entries, k)}}

\* One of the first n entries is a result carrying the ID of this call.
HasResult(entries, i, n) ==
  \E j \in 1..n : ResultAt(entries, j) /\ entries[j].rec.call = entries[i].rec.call

\* The entry can be paired with those before it.
Pairable(entries, k) ==
  /\ CallAt(entries, k) =>
       \A i \in 1..(k - 1) : CallAt(entries, i) => entries[i].rec.call # entries[k].rec.call
  /\ ResultAt(entries, k) =>
       /\ \E i \in 1..(k - 1) : ResultFor(entries, i, k)
       /\ \A j \in 1..(k - 1) : ResultAt(entries, j) => entries[j].rec.call # entries[k].rec.call
  /\ entries[k].rec.kind = "run_outcome" =>
       \A i \in 1..(k - 1) : CallAt(entries, i) /\ entries[i].rec.run = entries[k].rec.run
         => HasResult(entries, i, k - 1)

PairableUpTo(entries, n) == \A k \in 1..n : Pairable(entries, k)

Collected(entries, n, pairs) ==
  /\ pairs \in Pairs
  /\ pairs.ok <=> PairableUpTo(entries, n)
  /\ pairs.ok => pairs.calls = CallsUpTo(entries, n) /\ pairs.results = ResultsUpTo(entries, n)

\* The record can be paired with what was collected before it.
Accepts(pairs, rec) ==
  /\ rec.kind = "tool_call" => \A c \in pairs.calls : c.id # rec.call
  /\ rec.kind = "tool_result" =>
       /\ \E c \in pairs.calls : c.id = rec.call /\ c.run = rec.run
       /\ rec.call \notin pairs.results
  /\ rec.kind = "run_outcome" => \A c \in pairs.calls : c.run = rec.run => c.id \in pairs.results

LEMMA PairStepFacts ==
  ASSUME NEW pairs \in Pairs, NEW rec \in Record
  PROVE  /\ PairStep(pairs, rec) \in Pairs
         /\ PairStep(pairs, rec).ok <=> pairs.ok /\ Accepts(pairs, rec)
         /\ PairStep(pairs, rec).ok =>
              /\ PairStep(pairs, rec).calls =
                   pairs.calls \cup (IF rec.kind = "tool_call"
                                     THEN {[id |-> rec.call, run |-> rec.run]} ELSE {})
              /\ PairStep(pairs, rec).results =
                   pairs.results \cup (IF rec.kind = "tool_result" THEN {rec.call} ELSE {})
  <1> DEFINE after == PairStep(pairs, rec)
             reject == [pairs EXCEPT !.ok = FALSE]
             call == [id |-> rec.call, run |-> rec.run]
  <1>1. /\ pairs.ok \in BOOLEAN /\ pairs.results \in SUBSET AnyCall
        /\ pairs.calls \in SUBSET [id : AnyCall, run : Nat]
        /\ reject \in Pairs /\ reject.ok = FALSE
    BY DEF Pairs
  <1>2. rec.call \in AnyCall /\ call \in [id : AnyCall, run : Nat]
    BY DEF Record, AnyCall
  <1>3. CASE ~ pairs.ok
    <2>1. after = pairs
      BY <1>3 DEF PairStep
    <2> QED
      BY <1>3, <2>1
  <1>4. CASE pairs.ok /\ rec.kind = "tool_call"
    <2>1. after = IF \A c \in pairs.calls : c.id # rec.call
                  THEN [pairs EXCEPT !.calls = @ \cup {call}] ELSE reject
      BY <1>4 DEF PairStep
    <2>2. /\ [pairs EXCEPT !.calls = @ \cup {call}] \in Pairs
          /\ [pairs EXCEPT !.calls = @ \cup {call}].ok = pairs.ok
          /\ [pairs EXCEPT !.calls = @ \cup {call}].calls = pairs.calls \cup {call}
          /\ [pairs EXCEPT !.calls = @ \cup {call}].results = pairs.results
      BY <1>1, <1>2 DEF Pairs
    <2> HIDE DEF reject
    <2> QED
      BY <1>1, <1>4, <2>1, <2>2 DEF Accepts
  <1>5. CASE pairs.ok /\ rec.kind = "tool_result"
    <2>1. after = IF /\ \E c \in pairs.calls : c.id = rec.call /\ c.run = rec.run
                     /\ rec.call \notin pairs.results
                  THEN [pairs EXCEPT !.results = @ \cup {rec.call}] ELSE reject
      BY <1>5 DEF PairStep
    <2>2. /\ [pairs EXCEPT !.results = @ \cup {rec.call}] \in Pairs
          /\ [pairs EXCEPT !.results = @ \cup {rec.call}].ok = pairs.ok
          /\ [pairs EXCEPT !.results = @ \cup {rec.call}].calls = pairs.calls
          /\ [pairs EXCEPT !.results = @ \cup {rec.call}].results = pairs.results \cup {rec.call}
      BY <1>1, <1>2 DEF Pairs
    <2> HIDE DEF reject
    <2> QED
      BY <1>1, <1>5, <2>1, <2>2 DEF Accepts
  <1>6. CASE pairs.ok /\ rec.kind = "run_outcome"
    <2>1. after = IF \A c \in pairs.calls : c.run = rec.run => c.id \in pairs.results
                  THEN pairs ELSE reject
      BY <1>6 DEF PairStep, Unpaired
    <2> HIDE DEF reject
    <2> QED
      BY <1>1, <1>6, <2>1 DEF Accepts
  <1>7. CASE pairs.ok /\ rec.kind \notin {"tool_call", "tool_result", "run_outcome"}
    <2>1. after = pairs
      BY <1>7 DEF PairStep
    <2> QED
      BY <1>7, <2>1 DEF Accepts
  <1> QED
    BY <1>1, <1>3, <1>4, <1>5, <1>6, <1>7

\* One entry more.
LEMMA EntryFacts ==
  ASSUME NEW entries \in Seq(Entry), NEW k \in 1..Len(entries)
  PROVE  /\ entries[k].rec \in Record /\ entries[k].rec.kind \in Kinds
         /\ entries[k].rec.call \in AnyCall /\ entries[k].rec.run \in Nat /\ entries[k].seq \in Nat
  <1>1. entries[k] \in Entry
    BY ElementOfSeq
  <1> QED
    BY <1>1 DEF Entry, Record, AnyCall

LEMMA CollectedGrows ==
  ASSUME NEW entries \in Seq(Entry), NEW n \in 0..(Len(entries) - 1)
  PROVE  /\ CallsUpTo(entries, n + 1) =
              CallsUpTo(entries, n) \cup
                (IF CallAt(entries, n + 1) THEN {CallOf(entries, n + 1)} ELSE {})
         /\ ResultsUpTo(entries, n + 1) =
              ResultsUpTo(entries, n) \cup
                (IF ResultAt(entries, n + 1) THEN {entries[n + 1].rec.call} ELSE {})
         /\ PairableUpTo(entries, n + 1) <=> PairableUpTo(entries, n) /\ Pairable(entries, n + 1)
  <1>1. 1..(n + 1) = (1..n) \cup {n + 1}
    OBVIOUS
  <1>2. CallsUpTo(entries, n + 1) =
          CallsUpTo(entries, n) \cup
            (IF CallAt(entries, n + 1) THEN {CallOf(entries, n + 1)} ELSE {})
    BY <1>1 DEF CallsUpTo
  <1>3. ResultsUpTo(entries, n + 1) =
          ResultsUpTo(entries, n) \cup
            (IF ResultAt(entries, n + 1) THEN {entries[n + 1].rec.call} ELSE {})
    BY <1>1 DEF ResultsUpTo
  <1>4. PairableUpTo(entries, n + 1) <=> PairableUpTo(entries, n) /\ Pairable(entries, n + 1)
    BY <1>1 DEF PairableUpTo
  <1> QED
    BY <1>2, <1>3, <1>4

\* What was collected tells whether the next entry can be paired.
LEMMA PairableMeansAccepted ==
  ASSUME NEW entries \in Seq(Entry), NEW n \in 0..(Len(entries) - 1), NEW pairs \in Pairs,
         pairs.calls = CallsUpTo(entries, n), pairs.results = ResultsUpTo(entries, n)
  PROVE  Pairable(entries, n + 1) <=> Accepts(pairs, entries[n + 1].rec)
  <1> DEFINE k == n + 1
             rec == entries[k].rec
  <1>1. k \in 1..Len(entries) /\ k - 1 = n /\ \A i \in 1..n : i < k
    OBVIOUS
  <1>2. /\ \A c : c \in pairs.calls <=> \E i \in 1..n : CallAt(entries, i) /\ c = CallOf(entries, i)
        /\ \A id : id \in pairs.results <=>
                     \E j \in 1..n : ResultAt(entries, j) /\ id = entries[j].rec.call
        /\ \A i : /\ CallOf(entries, i).id = entries[i].rec.call
                  /\ CallOf(entries, i).run = entries[i].rec.run
    BY DEF CallsUpTo, ResultsUpTo, CallOf
  <1> HIDE DEF k
  <1>3. (\A i \in 1..n : CallAt(entries, i) => entries[i].rec.call # rec.call)
          <=> \A c \in pairs.calls : c.id # rec.call
    BY <1>2
  <1>4. ResultAt(entries, k) =>
          ((\E i \in 1..n : ResultFor(entries, i, k))
             <=> \E c \in pairs.calls : c.id = rec.call /\ c.run = rec.run)
    <2>1. ResultAt(entries, k) => \A i \in 1..n : ResultFor(entries, i, k) <=>
            CallAt(entries, i) /\ entries[i].rec.call = rec.call /\ entries[i].rec.run = rec.run
      BY <1>1 DEF ResultFor
    <2> QED
      BY <1>2, <2>1
  <1>5. (\A j \in 1..n : ResultAt(entries, j) => entries[j].rec.call # rec.call)
          <=> rec.call \notin pairs.results
    BY <1>2
  <1>6. (\A i \in 1..n : CallAt(entries, i) /\ entries[i].rec.run = rec.run
           => HasResult(entries, i, n))
          <=> \A c \in pairs.calls : c.run = rec.run => c.id \in pairs.results
    <2>1. \A i \in 1..n : CallOf(entries, i).id \in pairs.results <=> HasResult(entries, i, n)
      BY <1>2 DEF HasResult
    <2> QED
      BY <1>2, <2>1
  <1>7. Pairable(entries, k) <=> Accepts(pairs, rec)
    BY <1>1, <1>3, <1>4, <1>5, <1>6 DEF Pairable, Accepts, CallAt, ResultAt
  <1> QED
    BY <1>7 DEF k

LEMMA CollectedStep ==
  ASSUME NEW entries \in Seq(Entry), NEW n \in 0..(Len(entries) - 1), NEW pairs,
         Collected(entries, n, pairs)
  PROVE  Collected(entries, n + 1, PairStep(pairs, entries[n + 1].rec))
  <1> DEFINE rec == entries[n + 1].rec
             after == PairStep(pairs, rec)
             calls == pairs.calls \cup (IF rec.kind = "tool_call"
                                        THEN {[id |-> rec.call, run |-> rec.run]} ELSE {})
             results == pairs.results \cup (IF rec.kind = "tool_result" THEN {rec.call} ELSE {})
  <1>1. rec \in Record /\ pairs \in Pairs
    BY EntryFacts DEF Collected
  <1>2. /\ after \in Pairs
        /\ after.ok <=> pairs.ok /\ Accepts(pairs, rec)
        /\ after.ok => after.calls = calls /\ after.results = results
    BY <1>1, PairStepFacts
  <1>3. PairableUpTo(entries, n + 1) <=> PairableUpTo(entries, n) /\ Pairable(entries, n + 1)
    BY CollectedGrows
  <1>4. pairs.ok <=> PairableUpTo(entries, n)
    BY DEF Collected
  <1>5. ASSUME pairs.ok PROVE Pairable(entries, n + 1) <=> Accepts(pairs, rec)
    BY <1>1, <1>5, PairableMeansAccepted DEF Collected
  <1>6. ASSUME pairs.ok PROVE calls = CallsUpTo(entries, n + 1)
    <2>1. pairs.calls = CallsUpTo(entries, n)
      BY <1>6 DEF Collected
    <2>2. calls = CallsUpTo(entries, n) \cup
            (IF CallAt(entries, n + 1) THEN {CallOf(entries, n + 1)} ELSE {})
      BY <2>1 DEF CallAt, CallOf
    <2> QED
      BY <2>2, CollectedGrows
  <1>7. ASSUME pairs.ok PROVE results = ResultsUpTo(entries, n + 1)
    <2>1. pairs.results = ResultsUpTo(entries, n)
      BY <1>7 DEF Collected
    <2>2. results = ResultsUpTo(entries, n) \cup
            (IF ResultAt(entries, n + 1) THEN {entries[n + 1].rec.call} ELSE {})
      BY <2>1 DEF ResultAt
    <2> QED
      BY <2>2, CollectedGrows
  <1> HIDE DEF after, calls, results
  <1>8. Collected(entries, n + 1, after)
    BY <1>2, <1>3, <1>4, <1>5, <1>6, <1>7 DEF Collected
  <1> QED
    BY <1>8 DEF after

\* The scan exists, and collects what it should.
LEMMA ScanCollects ==
  ASSUME NEW entries \in Seq(Entry) PROVE Collected(entries, Len(entries), ToolPairs(entries))
  <1> DEFINE L == Len(entries)
             step == [n \in 1..L |-> [pairs \in Pairs |-> PairStep(pairs, entries[n].rec)]]
             Body(f) == [n \in 0..L |-> IF n = 0 THEN NoPairs ELSE step[n][f[n - 1]]]
             scan == CHOOSE f : f = Body(f)
  <1>1. NoPairs \in Pairs
    BY DEF NoPairs, Pairs
  <1>2. step \in [1..L -> [Pairs -> Pairs]]
    <2>1. ASSUME NEW n \in 1..L, NEW pairs \in Pairs PROVE PairStep(pairs, entries[n].rec) \in Pairs
      BY EntryFacts, PairStepFacts
    <2> QED
      BY <2>1
  <1>3. L \in Nat
    OBVIOUS
  <1>4. PICK f \in [0..L -> Pairs] : Recurses(f, L, NoPairs, step)
    <2> HIDE DEF L, step
    <2> QED
      BY <1>1, <1>2, <1>3, Recursion
  <1>5. f = Body(f)
    <2>1. ASSUME NEW n \in 0..L, n # 0 PROVE f[n] = step[n][f[n - 1]]
      BY <1>4, <2>1 DEF Recurses
    <2>2. f[0] = NoPairs
      <3> HIDE DEF step
      <3> QED
        BY <1>3, <1>4 DEF Recurses
    <2> QED
      BY <2>1, <2>2
  <1>6. scan = Body(scan)
    <2> HIDE DEF Body
    <2> QED
      BY <1>5
  <1>7. ToolPairs(entries) = scan[L]
    BY DEF ToolPairs
  <1>8. scan[0] = NoPairs
    <2> HIDE DEF scan
    <2> QED
      BY <1>3, <1>6
  <1>9. ASSUME NEW n \in 0..(L - 1), scan[n] \in Pairs
        PROVE  scan[n + 1] = PairStep(scan[n], entries[n + 1].rec)
    <2> HIDE DEF scan
    <2>1. n + 1 \in 1..L /\ n + 1 # 0 /\ (n + 1) - 1 = n
      BY <1>3
    <2>2. scan[n + 1] = step[n + 1][scan[n]]
      <3> HIDE DEF step
      <3> QED
        BY <1>6, <2>1
    <2>3. step[n + 1][scan[n]] = PairStep(scan[n], entries[n + 1].rec)
      BY <1>9, <2>1
    <2> QED
      BY <2>2, <2>3
  <1> HIDE DEF scan
  <1> DEFINE S == {n \in 0..L : Collected(entries, n, scan[n])}
  <1>10. 0 \in S
    <2>1. Collected(entries, 0, NoPairs)
      BY <1>1 DEF Collected, NoPairs, CallsUpTo, ResultsUpTo, PairableUpTo
    <2> QED
      BY <1>3, <1>8, <2>1
  <1>11. ASSUME NEW n \in 0..(L - 1), n \in S PROVE n + 1 \in S
    BY <1>9, <1>11, CollectedStep DEF Collected
  <1>12. 0..L \subseteq S
    <2> HIDE DEF S, L
    <2> QED
      BY <1>3, <1>10, <1>11, UpTo
  <1>13. L \in 0..L
    BY <1>3
  <1> QED
    BY <1>7, <1>12, <1>13
-----------------------------------------------------------------------------
(***************************************************************************)
(* The scan and the reference.                                             *)
(***************************************************************************)
\* In a pairable log, a result carrying the ID of a call is the result of it.
LEMMA ResultsBelong ==
  ASSUME NEW entries \in Seq(Entry), NEW n \in 0..Len(entries), PairableUpTo(entries, n),
         NEW i \in 1..n, NEW j \in 1..n, CallAt(entries, i), ResultAt(entries, j),
         entries[i].rec.call = entries[j].rec.call
  PROVE  ResultFor(entries, i, j)
  <1>1. PICK h \in 1..(j - 1) : ResultFor(entries, h, j)
    BY DEF PairableUpTo, Pairable
  <1>2. h \in 1..n /\ CallAt(entries, h) /\ entries[h].rec.call = entries[i].rec.call
    BY <1>1 DEF ResultFor
  <1>3. ~ h < i
    <2>1. ASSUME h < i PROVE FALSE
      <3>1. h \in 1..(i - 1) /\ Pairable(entries, i)
        BY <1>2, <2>1 DEF PairableUpTo
      <3> QED
        BY <1>2, <3>1 DEF Pairable
    <2> QED
      BY <2>1
  <1>4. ~ i < h
    <2>1. ASSUME i < h PROVE FALSE
      <3>1. i \in 1..(h - 1) /\ Pairable(entries, h)
        BY <1>2, <2>1 DEF PairableUpTo
      <3> QED
        BY <1>2, <3>1 DEF Pairable
    <2> QED
      BY <2>1
  <1>5. h = i
    BY <1>2, <1>3, <1>4
  <1> QED
    BY <1>1, <1>5

LEMMA PairableIsPaired ==
  ASSUME NEW entries \in Seq(Entry)
  PROVE  PairableUpTo(entries, Len(entries)) <=> Paired(entries)
  <1> DEFINE L == Len(entries)
  <1>0. L \in Nat /\ DOMAIN entries = 1..L
    OBVIOUS
  <1>1. ASSUME Paired(entries), NEW k \in 1..L PROVE Pairable(entries, k)
    <2>1. \A i \in 1..(k - 1) : i \in 1..L /\ i # k
      BY <1>0
    <2>2. ASSUME CallAt(entries, k), NEW i \in 1..(k - 1), CallAt(entries, i)
          PROVE  entries[i].rec.call # entries[k].rec.call
      BY <1>0, <1>1, <2>1, <2>2 DEF Paired
    <2>3. ASSUME ResultAt(entries, k) PROVE \E i \in 1..(k - 1) : ResultFor(entries, i, k)
      <3>1. PICK i \in 1..L : ResultFor(entries, i, k)
        BY <1>0, <1>1, <2>3 DEF Paired
      <3>2. i \in 1..(k - 1)
        BY <1>0, <3>1 DEF ResultFor
      <3> QED
        BY <3>1, <3>2
    <2>4. ASSUME ResultAt(entries, k), NEW j \in 1..(k - 1), ResultAt(entries, j)
          PROVE  entries[j].rec.call # entries[k].rec.call
      BY <1>0, <1>1, <2>1, <2>4 DEF Paired
    <2>5. ASSUME entries[k].rec.kind = "run_outcome", NEW i \in 1..(k - 1), CallAt(entries, i),
                 entries[i].rec.run = entries[k].rec.run
          PROVE  HasResult(entries, i, k - 1)
      <3>1. PICK j \in 1..(k - 1) : ResultFor(entries, i, j)
        BY <1>0, <1>1, <2>5 DEF Paired
      <3> QED
        BY <3>1 DEF ResultFor, HasResult
    <2> QED
      BY <2>2, <2>3, <2>4, <2>5 DEF Pairable
  <1>2. ASSUME PairableUpTo(entries, L) PROVE Paired(entries)
    <2>1. \A k \in 1..L : Pairable(entries, k)
      BY <1>2 DEF PairableUpTo
    <2>2. ASSUME NEW i \in 1..L, NEW j \in 1..L, CallAt(entries, i), CallAt(entries, j),
                 entries[i].rec.call = entries[j].rec.call
          PROVE  i = j
      <3>1. ~ i < j
        BY <1>0, <2>1, <2>2 DEF Pairable
      <3>2. ~ j < i
        BY <1>0, <2>1, <2>2 DEF Pairable
      <3> QED
        BY <3>1, <3>2
    <2>3. ASSUME NEW i \in 1..L, NEW j \in 1..L, ResultAt(entries, i), ResultAt(entries, j),
                 entries[i].rec.call = entries[j].rec.call
          PROVE  i = j
      <3>1. ~ i < j
        BY <1>0, <2>1, <2>3 DEF Pairable
      <3>2. ~ j < i
        BY <1>0, <2>1, <2>3 DEF Pairable
      <3> QED
        BY <3>1, <3>2
    <2>4. ASSUME NEW j \in 1..L, ResultAt(entries, j) PROVE \E i \in 1..L : ResultFor(entries, i, j)
      <3>1. PICK i \in 1..(j - 1) : ResultFor(entries, i, j)
        BY <2>1, <2>4 DEF Pairable
      <3> QED
        BY <1>0, <3>1
    <2>5. ASSUME NEW k \in 1..L, entries[k].rec.kind = "run_outcome", NEW i \in 1..(k - 1),
                 CallAt(entries, i), entries[i].rec.run = entries[k].rec.run
          PROVE  \E j \in 1..(k - 1) : ResultFor(entries, i, j)
      <3>1. PICK j \in 1..(k - 1) :
               ResultAt(entries, j) /\ entries[j].rec.call = entries[i].rec.call
        BY <2>1, <2>5 DEF Pairable, HasResult
      <3>2. L \in 0..L /\ i \in 1..L /\ j \in 1..L
        BY <1>0
      <3>3. ResultFor(entries, i, j)
        BY <1>2, <2>5, <3>1, <3>2, ResultsBelong
      <3> QED
        BY <3>3
    <2> QED
      BY <1>0, <2>2, <2>3, <2>4, <2>5 DEF Paired
  <1> QED
    BY <1>1, <1>2 DEF PairableUpTo

\* What the scan has collected, in terms of positions.
LEMMA ScanFacts ==
  ASSUME NEW entries \in Seq(Entry)
  PROVE  /\ ToolPairs(entries).ok <=> PairableUpTo(entries, Len(entries))
         /\ ToolPairs(entries).ok =>
              /\ ToolPairs(entries).calls = CallsUpTo(entries, Len(entries))
              /\ ToolPairs(entries).results = ResultsUpTo(entries, Len(entries))
  BY ScanCollects DEF Collected

LEMMA ScanSeesOpenCalls ==
  ASSUME NEW entries \in Seq(Entry), ToolPairs(entries).ok
  PROVE  (\A c \in ToolPairs(entries).calls : c.id \in ToolPairs(entries).results)
           <=> NoCallOpen(entries)
  <1> DEFINE L == Len(entries)
             calls == ToolPairs(entries).calls
             results == ToolPairs(entries).results
  <1>0. L \in Nat /\ DOMAIN entries = 1..L /\ L \in 0..L
    OBVIOUS
  <1>1. PairableUpTo(entries, L) /\ calls = CallsUpTo(entries, L) /\ results = ResultsUpTo(entries, L)
    BY ScanFacts
  <1> HIDE DEF calls, results
  <1>2. /\ \A c : c \in calls <=> \E i \in 1..L : CallAt(entries, i) /\ c = CallOf(entries, i)
        /\ \A id : id \in results <=> \E j \in 1..L : ResultAt(entries, j) /\ id = entries[j].rec.call
        /\ \A i : CallOf(entries, i).id = entries[i].rec.call
    BY <1>1 DEF CallsUpTo, ResultsUpTo, CallOf
  <1>3. ASSUME \A c \in calls : c.id \in results, NEW i \in 1..L, CallAt(entries, i)
        PROVE  \E j \in 1..L : ResultFor(entries, i, j)
    <2>1. PICK j \in 1..L : ResultAt(entries, j) /\ entries[i].rec.call = entries[j].rec.call
      BY <1>2, <1>3
    <2>2. ResultFor(entries, i, j)
      BY <1>0, <1>1, <1>3, <2>1, ResultsBelong
    <2> QED
      BY <2>2
  <1>4. ASSUME NoCallOpen(entries), NEW c \in calls PROVE c.id \in results
    <2>1. PICK i \in 1..L : CallAt(entries, i) /\ c = CallOf(entries, i)
      BY <1>2
    <2>2. PICK j \in 1..L : ResultFor(entries, i, j)
      BY <1>0, <1>4, <2>1 DEF NoCallOpen
    <2> QED
      BY <1>2, <2>1, <2>2 DEF ResultFor
  <1>5. (\A c \in calls : c.id \in results) <=> NoCallOpen(entries)
    BY <1>0, <1>3, <1>4 DEF NoCallOpen
  <1> QED
    BY <1>5 DEF calls, results

\* toolPairs accepts a log of any length exactly when every call ID occurs once,
\* every result follows its call in the same run and is the only one, and no run
\* ends with a call open; ValidateTranscript exactly when no call is open at all.
THEOREM ScanIsRight == \A entries \in Seq(Entry) : ScanAgreesOn(entries)
  <1> SUFFICES ASSUME NEW entries \in Seq(Entry) PROVE ScanAgreesOn(entries)
    OBVIOUS
  <1>1. ToolPairs(entries).ok <=> Paired(entries)
    BY ScanFacts, PairableIsPaired
  <1>2. ASSUME ValidateRecords(entries) PROVE ValidateTranscript(entries) <=> NoCallOpen(entries)
    <2>1. ToolPairs(entries).ok
      BY <1>2 DEF ValidateRecords
    <2> QED
      BY <1>2, <2>1, ScanSeesOpenCalls DEF ValidateTranscript
  <1> QED
    BY <1>1, <1>2 DEF ScanAgreesOn
-----------------------------------------------------------------------------
(***************************************************************************)
(* The calls a log leaves open.                                            *)
(***************************************************************************)
OpenAt(entries, i) == CallAt(entries, i) /\ entries[i].rec.call \notin ToolPairs(entries).results

\* The list holds the open calls among the first n entries, each once, in order.
Listed(entries, n, list) ==
  /\ list \in Seq(Entry)
  /\ \A i \in 1..Len(list) : \E h \in 1..n : OpenAt(entries, h) /\ list[i] = entries[h]
  /\ \A h \in 1..n : OpenAt(entries, h) => \E i \in 1..Len(list) : list[i] = entries[h]
  /\ \A i, j \in 1..Len(list) : list[i].rec.call = list[j].rec.call => i = j
  /\ \A i, j \in 1..Len(list) : \A g, h \in 1..n :
       /\ i < j /\ OpenAt(entries, g) /\ OpenAt(entries, h)
       /\ list[i].rec.call = entries[g].rec.call /\ list[j].rec.call = entries[h].rec.call
       => g < h

OpenStep(entries, n, list) ==
  IF OpenAt(entries, n) THEN Append(list, entries[n]) ELSE list

LEMMA ListedStep ==
  ASSUME NEW entries \in Seq(Entry), PairableUpTo(entries, Len(entries)),
         NEW n \in 0..(Len(entries) - 1), NEW list, Listed(entries, n, list)
  PROVE  Listed(entries, n + 1, OpenStep(entries, n + 1, list))
  <1> DEFINE k == n + 1
             m == Len(list)
             more == Append(list, entries[k])
  <1>1. k \in 1..Len(entries) /\ k - 1 = n /\ 1..k = (1..n) \cup {k}
    OBVIOUS
  <1>2. CASE ~ OpenAt(entries, k)
    <2> HIDE DEF k
    <2>1. Listed(entries, k, list)
      BY <1>1, <1>2 DEF Listed
    <2>2. OpenStep(entries, k, list) = list
      BY <1>2 DEF OpenStep
    <2> QED
      BY <2>1, <2>2 DEF k
  <1>3. CASE OpenAt(entries, k)
    <2>1. list \in Seq(Entry) /\ m \in Nat /\ entries[k] \in Entry
      BY <1>1, ElementOfSeq DEF Listed
    <2>2. /\ more \in Seq(Entry) /\ Len(more) = m + 1 /\ more[m + 1] = entries[k]
          /\ \A i \in 1..m : more[i] = list[i]
          /\ 1..(m + 1) = (1..m) \cup {m + 1}
      BY <2>1
    <2>3. \A h \in 1..n : OpenAt(entries, h) => entries[h].rec.call # entries[k].rec.call
      BY <1>1, <1>3 DEF PairableUpTo, Pairable, OpenAt
    <2>4. \A i \in 1..m : list[i].rec.call # entries[k].rec.call
      <3>1. \A i \in 1..m : \E h \in 1..n : OpenAt(entries, h) /\ list[i] = entries[h]
        BY DEF Listed
      <3> QED
        BY <2>3, <3>1
    <2> HIDE DEF k, m, more
    <2>5. ASSUME NEW i \in 1..(m + 1)
          PROVE  \E h \in 1..k : OpenAt(entries, h) /\ more[i] = entries[h]
      <3>1. CASE i = m + 1
        <4>1. k \in 1..k
          BY <1>1
        <4> QED
          BY <1>3, <2>2, <3>1, <4>1
      <3>2. CASE i \in 1..m
        <4>1. PICK h \in 1..n : OpenAt(entries, h) /\ list[i] = entries[h]
          BY <3>2 DEF Listed, m
        <4>2. h \in 1..k
          BY <1>1
        <4> QED
          BY <2>2, <3>2, <4>1, <4>2
      <3> QED
        BY <2>2, <3>1, <3>2
    <2>6. ASSUME NEW h \in 1..k, OpenAt(entries, h) PROVE \E i \in 1..(m + 1) : more[i] = entries[h]
      <3>1. CASE h = k
        <4>1. m + 1 \in 1..(m + 1)
          BY <2>1
        <4> QED
          BY <2>2, <3>1, <4>1
      <3>2. CASE h \in 1..n
        <4>1. PICK i \in 1..m : list[i] = entries[h]
          BY <2>6, <3>2 DEF Listed, m
        <4>2. i \in 1..(m + 1)
          BY <2>2
        <4> QED
          BY <2>2, <4>1, <4>2
      <3> QED
        BY <1>1, <3>1, <3>2
    <2>7. \A i, j \in 1..(m + 1) : more[i].rec.call = more[j].rec.call => i = j
      BY <2>2, <2>4 DEF Listed, m
    <2>8. ASSUME NEW i \in 1..(m + 1), NEW j \in 1..(m + 1), NEW g \in 1..k, NEW h \in 1..k,
                 i < j, OpenAt(entries, g), OpenAt(entries, h),
                 more[i].rec.call = entries[g].rec.call, more[j].rec.call = entries[h].rec.call
          PROVE  g < h
      <3>1. i \in 1..m /\ more[i] = list[i]
        BY <2>1, <2>2, <2>8
      <3>2. g \in 1..n
        BY <1>1, <2>4, <2>8, <3>1
      <3>3. CASE j = m + 1
        <4>1. h \notin 1..n
          BY <2>2, <2>3, <2>8, <3>3
        <4> QED
          BY <1>1, <3>2, <4>1
      <3>4. CASE j \in 1..m
        <4>1. h \in 1..n
          BY <1>1, <2>2, <2>4, <2>8, <3>4
        <4> QED
          BY <2>2, <2>8, <3>1, <3>2, <3>4, <4>1 DEF Listed, m
      <3> QED
        BY <2>2, <3>3, <3>4
    <2>9. Listed(entries, k, more)
      BY <2>2, <2>5, <2>6, <2>7, <2>8 DEF Listed
    <2>10. OpenStep(entries, k, list) = more
      BY <1>3 DEF OpenStep, more
    <2> QED
      BY <2>9, <2>10 DEF k
  <1> QED
    BY <1>2, <1>3

\* OpenToolCalls of a log that can be loaded.
LEMMA OpenCallsListed ==
  ASSUME NEW entries \in Seq(Entry), PairableUpTo(entries, Len(entries))
  PROVE  Listed(entries, Len(entries), OpenToolCalls(entries))
  <1> DEFINE L == Len(entries)
             step == [n \in 1..L |-> [list \in Seq(Entry) |-> OpenStep(entries, n, list)]]
             Body(f) == [n \in 0..L |->
                           IF n = 0 THEN <<>>
                           ELSE IF entries[n].rec.kind = "tool_call"
                                     /\ entries[n].rec.call \notin ToolPairs(entries).results
                                THEN Append(f[n - 1], entries[n]) ELSE f[n - 1]]
             found == CHOOSE f : f = Body(f)
  <1>1. << >> \in Seq(Entry) /\ L \in Nat
    OBVIOUS
  <1>2. step \in [1..L -> [Seq(Entry) -> Seq(Entry)]]
    <2>1. ASSUME NEW n \in 1..L, NEW list \in Seq(Entry) PROVE OpenStep(entries, n, list) \in Seq(Entry)
      <3>1. entries[n] \in Entry
        BY ElementOfSeq
      <3> QED
        BY <3>1 DEF OpenStep
    <2> QED
      BY <2>1
  <1>3. \A f, n : n \in 1..L =>
          (IF entries[n].rec.kind = "tool_call"
                /\ entries[n].rec.call \notin ToolPairs(entries).results
           THEN Append(f[n - 1], entries[n]) ELSE f[n - 1]) = OpenStep(entries, n, f[n - 1])
    BY DEF OpenStep, OpenAt, CallAt
  <1>4. PICK f \in [0..L -> Seq(Entry)] : Recurses(f, L, << >>, step)
    <2> HIDE DEF L, step
    <2> QED
      BY <1>1, <1>2, Recursion
  <1>5. f = Body(f)
    <2>1. ASSUME NEW n \in 0..L, n # 0 PROVE f[n] = OpenStep(entries, n, f[n - 1]) /\ n \in 1..L
      <3>1. n \in 1..L /\ n - 1 \in 0..L
        BY <2>1
      <3>2. f[n] = step[n][f[n - 1]] /\ f[n - 1] \in Seq(Entry)
        BY <1>4, <2>1, <3>1 DEF Recurses
      <3> QED
        BY <3>1, <3>2
    <2>2. f[0] = << >>
      <3> HIDE DEF step
      <3> QED
        BY <1>4 DEF Recurses
    <2> QED
      BY <1>3, <2>1, <2>2
  <1>6. found = Body(found)
    <2> HIDE DEF Body
    <2> QED
      BY <1>5
  <1>7. OpenToolCalls(entries) = found[L]
    BY DEF OpenToolCalls
  <1>8. found[0] = << >>
    <2> HIDE DEF found
    <2> QED
      BY <1>1, <1>6
  <1>9. ASSUME NEW n \in 0..(L - 1) PROVE found[n + 1] = OpenStep(entries, n + 1, found[n])
    <2> HIDE DEF found
    <2>1. n + 1 \in 0..L /\ n + 1 # 0 /\ (n + 1) - 1 = n /\ n + 1 \in 1..L
      BY <1>1
    <2> QED
      BY <1>3, <1>6, <2>1
  <1> HIDE DEF found
  <1> DEFINE S == {n \in 0..L : Listed(entries, n, found[n])}
  <1>10. 0 \in S
    <2>1. Listed(entries, 0, << >>)
      BY DEF Listed
    <2> QED
      BY <1>1, <1>8, <2>1
  <1>11. ASSUME NEW n \in 0..(L - 1), n \in S PROVE n + 1 \in S
    BY <1>9, <1>11, ListedStep
  <1>12. 0..L \subseteq S
    <2> HIDE DEF S, L
    <2> QED
      BY <1>1, <1>10, <1>11, UpTo
  <1>13. L \in 0..L
    BY <1>1
  <1> QED
    BY <1>7, <1>12, <1>13
-----------------------------------------------------------------------------
(***************************************************************************)
(* Appending to a log.                                                     *)
(***************************************************************************)
LEMMA ConcatEntries ==
  ASSUME NEW entries \in Seq(Entry), NEW more \in Seq(Entry)
  PROVE  /\ entries \o more \in Seq(Entry) /\ Len(entries \o more) = Len(entries) + Len(more)
         /\ \A i \in 1..Len(entries) : (entries \o more)[i] = entries[i]
         /\ \A i \in 1..Len(more) : (entries \o more)[Len(entries) + i] = more[i]
         /\ \A k \in 1..(Len(entries) + Len(more)) :
              k \in 1..Len(entries) \/ \E i \in 1..Len(more) : k = Len(entries) + i
  <1>1. /\ entries \o more \in Seq(Entry) /\ Len(entries \o more) = Len(entries) + Len(more)
        /\ \A i \in 1..(Len(entries) + Len(more)) :
             (entries \o more)[i] = IF i <= Len(entries) THEN entries[i] ELSE more[i - Len(entries)]
    BY ConcatProperties
  <1>2. Len(entries) \in Nat /\ Len(more) \in Nat
    OBVIOUS
  <1>3. ASSUME NEW k \in 1..(Len(entries) + Len(more)), k \notin 1..Len(entries)
        PROVE  k - Len(entries) \in 1..Len(more) /\ k = Len(entries) + (k - Len(entries))
    BY <1>2, <1>3
  <1>4. \A i \in 1..Len(more) : (entries \o more)[Len(entries) + i] = more[i]
    BY <1>1, <1>2
  <1>5. \A i \in 1..Len(entries) : (entries \o more)[i] = entries[i]
    BY <1>1, <1>2
  <1> QED
    BY <1>1, <1>3, <1>4, <1>5

LEMMA NumberedEntries ==
  ASSUME NEW mark \in Nat, NEW recs \in Seq(Record)
  PROVE  /\ Numbered(mark, recs) \in Seq(Entry) /\ Len(Numbered(mark, recs)) = Len(recs)
         /\ \A i \in 1..Len(recs) : /\ Numbered(mark, recs)[i].seq = mark + i
                                    /\ Numbered(mark, recs)[i].rec = recs[i]
  <1> DEFINE entry(i) == [seq |-> mark + i, rec |-> recs[i]]
  <1>1. Len(recs) \in Nat
    OBVIOUS
  <1>2. ASSUME NEW i \in 1..Len(recs)
        PROVE  entry(i) \in Entry /\ entry(i).seq = mark + i /\ entry(i).rec = recs[i]
    <2>1. recs[i] \in Record /\ mark + i \in Nat
      BY ElementOfSeq
    <2> QED
      BY <2>1 DEF Entry
  <1> HIDE DEF entry
  <1>3. [i \in 1..Len(recs) |-> entry(i)] \in Seq(Entry)
    BY <1>1, <1>2
  <1>4. Numbered(mark, recs) = [i \in 1..Len(recs) |-> entry(i)]
    BY DEF Numbered, entry
  <1> QED
    BY <1>1, <1>2, <1>3, <1>4

\* Whether an entry can be paired is a matter of the log up to it.
LEMMA HasResultEarlier ==
  ASSUME NEW a, NEW b, NEW n, NEW i, a[i] = b[i], \A j \in 1..n : a[j] = b[j],
         HasResult(a, i, n)
  PROVE  HasResult(b, i, n)
  <1>1. PICK j \in 1..n : ResultAt(a, j) /\ a[j].rec.call = a[i].rec.call
    BY DEF HasResult
  <1>2. ResultAt(b, j) /\ b[j].rec.call = b[i].rec.call
    BY <1>1 DEF ResultAt
  <1> QED
    BY <1>2 DEF HasResult

LEMMA PairableEarlier ==
  ASSUME NEW a, NEW b, NEW k \in Nat \ {0}, \A i \in 1..k : a[i] = b[i], Pairable(a, k)
  PROVE  Pairable(b, k)
  <1>1. a[k] = b[k] /\ \A i \in 1..(k - 1) : a[i] = b[i]
    <2>1. k \in 1..k /\ \A i \in 1..(k - 1) : i \in 1..k
      OBVIOUS
    <2> QED
      BY <2>1
  <1>2. ASSUME CallAt(b, k), NEW i \in 1..(k - 1), CallAt(b, i)
        PROVE  b[i].rec.call # b[k].rec.call
    <2>1. CallAt(a, k) /\ CallAt(a, i)
      BY <1>1, <1>2 DEF CallAt
    <2>2. a[i].rec.call # a[k].rec.call
      BY <2>1 DEF Pairable
    <2> QED
      BY <1>1, <2>2
  <1>3. ASSUME ResultAt(b, k) PROVE \E i \in 1..(k - 1) : ResultFor(b, i, k)
    <2>1. PICK i \in 1..(k - 1) : ResultFor(a, i, k)
      BY <1>1, <1>3 DEF Pairable, ResultAt
    <2>2. ResultFor(b, i, k)
      BY <1>1, <2>1 DEF ResultFor, CallAt, ResultAt
    <2> QED
      BY <2>2
  <1>4. ASSUME ResultAt(b, k), NEW j \in 1..(k - 1), ResultAt(b, j)
        PROVE  b[j].rec.call # b[k].rec.call
    <2>1. ResultAt(a, k) /\ ResultAt(a, j)
      BY <1>1, <1>4 DEF ResultAt
    <2>2. a[j].rec.call # a[k].rec.call
      BY <2>1 DEF Pairable
    <2> QED
      BY <1>1, <2>2
  <1>5. ASSUME b[k].rec.kind = "run_outcome", NEW i \in 1..(k - 1), CallAt(b, i),
               b[i].rec.run = b[k].rec.run
        PROVE  HasResult(b, i, k - 1)
    <2>1. a[k].rec.kind = "run_outcome" /\ CallAt(a, i) /\ a[i].rec.run = a[k].rec.run
      BY <1>1, <1>5 DEF CallAt
    <2>2. HasResult(a, i, k - 1)
      BY <2>1 DEF Pairable
    <2> QED
      BY <1>1, <2>2, HasResultEarlier
  <1> QED
    BY <1>2, <1>3, <1>4, <1>5 DEF Pairable

LEMMA PairablePrefix ==
  ASSUME NEW entries \in Seq(Entry), NEW more \in Seq(Entry), NEW k \in 1..Len(entries)
  PROVE  Pairable(entries \o more, k) <=> Pairable(entries, k)
  <1> DEFINE longer == entries \o more
  <1>1. k \in Nat \ {0} /\ \A i \in 1..k : longer[i] = entries[i] /\ entries[i] = longer[i]
    BY ConcatEntries
  <1> HIDE DEF longer
  <1>2. Pairable(longer, k) => Pairable(entries, k)
    BY <1>1, PairableEarlier
  <1>3. Pairable(entries, k) => Pairable(longer, k)
    BY <1>1, PairableEarlier
  <1> QED
    BY <1>2, <1>3 DEF longer

\* The records of the repair, one by one.
LEMMA RepairFacts ==
  ASSUME NEW entries \in Seq(Entry), PairableUpTo(entries, Len(entries)), NEW run \in Nat
  PROVE  /\ RepairRecords(entries, run) \in Seq(Record)
         /\ Len(RepairRecords(entries, run)) = Len(OpenToolCalls(entries)) + 1
         /\ \A i \in 1..Len(OpenToolCalls(entries)) :
              RepairRecords(entries, run)[i] =
                ToolResult(run, OpenToolCalls(entries)[i].rec.call, "interrupted")
         /\ RepairRecords(entries, run)[Len(OpenToolCalls(entries)) + 1] =
              RunOutcome(run, "interrupted", "interrupted")
  <1> DEFINE open == OpenToolCalls(entries)
             answer(i) == ToolResult(run, open[i].rec.call, "interrupted")
             answers == [i \in 1..Len(open) |-> answer(i)]
             outcome == RunOutcome(run, "interrupted", "interrupted")
  <1>1. open \in Seq(Entry)
    BY OpenCallsListed DEF Listed
  <1>2. outcome \in Record
    BY DEF RunOutcome, Fact, Record, Kinds, RunOutcomes, FailureCauses
  <1>3. ASSUME NEW i \in 1..Len(open) PROVE answer(i) \in Record
    <2>1. open[i].rec.call \in AnyCall
      BY <1>1, EntryFacts
    <2> HIDE DEF open
    <2> QED
      BY <2>1 DEF ToolResult, Fact, Record, AnyCall, Kinds, ToolResultOutcomes
  <1>4. RepairRecords(entries, run) = answers \o <<outcome>>
    BY DEF RepairRecords
  <1> HIDE DEF open, answer, outcome
  <1>5. answers \in Seq(Record) /\ Len(answers) = Len(open) /\ Len(open) \in Nat
    BY <1>1, <1>3
  <1>6. <<outcome>> \in Seq(Record) /\ Len(<<outcome>>) = 1 /\ <<outcome>>[1] = outcome
    BY <1>2
  <1> DEFINE all == answers \o <<outcome>>
  <1>7. /\ all \in Seq(Record) /\ Len(all) = Len(answers) + Len(<<outcome>>)
        /\ \A i \in 1..(Len(answers) + Len(<<outcome>>)) :
             all[i] = IF i <= Len(answers) THEN answers[i] ELSE <<outcome>>[i - Len(answers)]
    <2> HIDE DEF answers
    <2> QED
      BY <1>5, <1>6, ConcatProperties
  <1> HIDE DEF all
  <1>8. \A i \in 1..Len(open) : all[i] = answer(i)
    BY <1>5, <1>6, <1>7
  <1>9. all[Len(open) + 1] = outcome
    <2> HIDE DEF answers
    <2> QED
      BY <1>5, <1>6, <1>7
  <1> QED
    BY <1>4, <1>5, <1>6, <1>7, <1>8, <1>9 DEF all, answer, outcome, open
Repaired(entries, run) == entries \o Numbered(Len(entries), RepairRecords(entries, run))

\* A repaired log is the log, a result for each call it left open, and the outcome.
IsRepair(entries, run, repaired, L, m) ==
  /\ repaired \in Seq(Entry) /\ Len(repaired) = L + m + 1
  /\ \A i \in 1..L : repaired[i] = entries[i]
  /\ \A k \in 1..(L + m + 1) : k > L => repaired[k].seq = k
  /\ \A i \in 1..m : repaired[L + i].rec =
                       ToolResult(run, OpenToolCalls(entries)[i].rec.call, "interrupted")
  /\ repaired[L + m + 1].rec = RunOutcome(run, "interrupted", "interrupted")
  /\ \A k \in 1..(L + m + 1) : k \in 1..L \/ k - L \in 1..m \/ k = L + m + 1

LEMMA RepairedFacts ==
  ASSUME NEW entries \in Seq(Entry), PairableUpTo(entries, Len(entries)), NEW run \in Nat,
         NEW L, NEW m, L = Len(entries), m = Len(OpenToolCalls(entries))
  PROVE  L \in Nat /\ m \in Nat /\ IsRepair(entries, run, Repaired(entries, run), L, m)
  <1> DEFINE open == OpenToolCalls(entries)
             recs == RepairRecords(entries, run)
             more == Numbered(Len(entries), recs)
             repaired == entries \o more
  <1>1. L \in Nat /\ open \in Seq(Entry) /\ m \in Nat
    BY OpenCallsListed DEF Listed
  <1>2. /\ recs \in Seq(Record) /\ Len(recs) = m + 1
        /\ \A i \in 1..m : recs[i] = ToolResult(run, open[i].rec.call, "interrupted")
        /\ recs[m + 1] = RunOutcome(run, "interrupted", "interrupted")
    BY RepairFacts
  <1> HIDE DEF recs, open
  <1>3. /\ more \in Seq(Entry) /\ Len(more) = m + 1
        /\ \A i \in 1..(m + 1) : more[i].seq = L + i /\ more[i].rec = recs[i]
    <2>1. /\ more \in Seq(Entry) /\ Len(more) = Len(recs)
          /\ \A i \in 1..Len(recs) : /\ more[i].seq = Len(entries) + i
                                     /\ more[i].rec = recs[i]
      BY <1>1, <1>2, NumberedEntries
    <2> HIDE DEF more
    <2> QED
      BY <1>2, <2>1
  <1> HIDE DEF more
  <1>4. /\ repaired \in Seq(Entry) /\ Len(repaired) = L + (m + 1)
        /\ \A i \in 1..L : repaired[i] = entries[i]
        /\ \A i \in 1..(m + 1) : repaired[L + i] = more[i]
    <2>1. /\ repaired \in Seq(Entry) /\ Len(repaired) = Len(entries) + Len(more)
          /\ \A i \in 1..Len(entries) : repaired[i] = entries[i]
          /\ \A i \in 1..Len(more) : repaired[Len(entries) + i] = more[i]
      BY <1>3, ConcatEntries
    <2> HIDE DEF repaired
    <2> QED
      BY <1>3, <2>1
  <1> HIDE DEF repaired
  <1>5. ASSUME NEW k \in 1..(L + m + 1), k > L PROVE repaired[k].seq = k
    <2>1. k - L \in 1..(m + 1) /\ L + (k - L) = k
      BY <1>1, <1>5
    <2>2. repaired[L + (k - L)] = more[k - L] /\ more[k - L].seq = L + (k - L)
      BY <1>3, <1>4, <2>1
    <2> QED
      BY <2>1, <2>2
  <1>6. ASSUME NEW i \in 1..m
        PROVE  repaired[L + i].rec = ToolResult(run, open[i].rec.call, "interrupted")
    <2>1. i \in 1..(m + 1)
      BY <1>1
    <2> QED
      BY <1>2, <1>3, <1>4, <2>1
  <1>7. repaired[L + m + 1].rec = RunOutcome(run, "interrupted", "interrupted")
    <2>1. m + 1 \in 1..(m + 1) /\ L + m + 1 = L + (m + 1)
      BY <1>1
    <2>2. repaired[L + (m + 1)] = more[m + 1] /\ more[m + 1].rec = recs[m + 1]
      BY <1>3, <1>4, <2>1
    <2> QED
      BY <1>2, <2>1, <2>2
  <1>8. \A k \in 1..(L + m + 1) : k \in 1..L \/ k - L \in 1..m \/ k = L + m + 1
    BY <1>1
  <1>9. Repaired(entries, run) = repaired
    BY DEF Repaired, repaired, more, recs
  <1> QED
    BY <1>1, <1>4, <1>5, <1>6, <1>7, <1>8, <1>9 DEF open, IsRepair

\* reconcileInterrupted makes a loadable log of any length, in which one run left
\* any number of calls open, a transcript again.
THEOREM RepairIsRight ==
  \A entries \in Seq(Entry), run \in Nat \ {NoRun} : RepairCompletesOn(entries, run)
  <1> SUFFICES ASSUME NEW entries \in Seq(Entry), NEW run \in Nat \ {NoRun},
                      ValidateRecords(entries), ~ OtherRunLeftOpen(entries, run),
                      \A i \in DOMAIN entries : entries[i].rec.kind # "session_closed"
               PROVE  ValidateTranscript(Repaired(entries, run))
    BY DEF RepairCompletesOn, Repaired
  <1> DEFINE open == OpenToolCalls(entries)
             repaired == Repaired(entries, run)
  <1>1. PICK L, m : L = Len(entries) /\ m = Len(open)
    OBVIOUS
  <1>2. PairableUpTo(entries, L) /\ ToolPairs(entries).results = ResultsUpTo(entries, L)
    BY <1>1, ScanFacts DEF ValidateRecords
  <1>3. Listed(entries, L, open)
    BY <1>1, <1>2, OpenCallsListed
  <1>4. /\ L \in Nat /\ m \in Nat
        /\ repaired \in Seq(Entry) /\ Len(repaired) = L + m + 1
        /\ \A i \in 1..L : repaired[i] = entries[i]
        /\ \A k \in 1..(L + m + 1) : k > L => repaired[k].seq = k
        /\ \A i \in 1..m : repaired[L + i].rec = ToolResult(run, open[i].rec.call, "interrupted")
        /\ repaired[L + m + 1].rec = RunOutcome(run, "interrupted", "interrupted")
        /\ \A k \in 1..(L + m + 1) : k \in 1..L \/ k - L \in 1..m \/ k = L + m + 1
    <2>1. PairableUpTo(entries, Len(entries)) /\ run \in Nat
      BY <1>1, <1>2
    <2>2. L \in Nat /\ m \in Nat /\ IsRepair(entries, run, repaired, L, m)
      BY <1>1, <2>1, RepairedFacts
    <2> HIDE DEF repaired, open
    <2> QED
      BY <2>2 DEF IsRepair, open
  <1>5. DOMAIN entries = 1..L /\ DOMAIN repaired = 1..(L + m + 1)
    BY <1>1, <1>4
  <1>6. \A h \in 1..L : OpenAt(entries, h) <=>
          CallAt(entries, h) /\ \A j \in 1..L : ResultAt(entries, j)
                                   => entries[j].rec.call # entries[h].rec.call
    BY <1>2 DEF OpenAt, ResultsUpTo
  <1> HIDE DEF open, repaired
  \* The records of the repair, kind by kind.
  <1>7. \A i \in 1..m : /\ ResultAt(repaired, L + i) /\ ~ CallAt(repaired, L + i)
                        /\ repaired[L + i].rec.call = open[i].rec.call
                        /\ repaired[L + i].rec.run = run
    BY <1>4 DEF ToolResult, Fact, ResultAt, CallAt
  <1>8. /\ repaired[L + m + 1].rec.kind = "run_outcome" /\ repaired[L + m + 1].rec.run = run
        /\ ~ CallAt(repaired, L + m + 1) /\ ~ ResultAt(repaired, L + m + 1)
    BY <1>4 DEF RunOutcome, Fact, CallAt, ResultAt
  <1>9. \A i \in 1..L : /\ CallAt(repaired, i) <=> CallAt(entries, i)
                        /\ ResultAt(repaired, i) <=> ResultAt(entries, i)
    BY <1>4 DEF CallAt, ResultAt
  \* Every open call belongs to the run and is answered by one of them.
  <1>10. ASSUME NEW i \in 1..m
         PROVE  \E h \in 1..L : OpenAt(entries, h) /\ open[i] = entries[h] /\ open[i].rec.run = run
    <2>1. i \in DOMAIN open
      BY <1>1, <1>3 DEF Listed
    <2>2. open[i].rec.run = run
      BY <1>3, <2>1 DEF OtherRunLeftOpen, open
    <2>3. \E h \in 1..L : OpenAt(entries, h) /\ open[i] = entries[h]
      BY <1>1, <1>3 DEF Listed
    <2> QED
      BY <2>2, <2>3
  <1>11. ASSUME NEW h \in 1..L, OpenAt(entries, h) PROVE \E i \in 1..m : open[i] = entries[h]
    BY <1>1, <1>3, <1>11 DEF Listed
  \* Every record is well formed and numbered.
  <1>12. ASSUME NEW k \in 1..(L + m + 1) PROVE repaired[k].seq = k /\ WellFormed(repaired[k].rec)
    <2>1. CASE k \in 1..L
      BY <1>4, <1>5, <2>1 DEF ValidateRecords
    <2>2. CASE k - L \in 1..m
      <3>1. PICK i \in 1..m : k = L + i
        BY <1>4, <2>2
      <3>2. PICK h \in 1..L : CallAt(entries, h) /\ open[i] = entries[h]
        BY <1>10 DEF OpenAt
      <3>3. open[i].rec.call # NoCall
        BY <1>5, <3>2 DEF ValidateRecords, WellFormed, CallAt
      <3>4. repaired[k].rec = ToolResult(run, open[i].rec.call, "interrupted") /\ repaired[k].seq = k
        BY <1>4, <3>1
      <3> QED
        BY <3>3, <3>4 DEF WellFormed, ToolResult, Fact, Kinds, ToolResultOutcomes, NoRun
    <2>3. CASE k = L + m + 1
      <3>1. repaired[k].seq = k /\ repaired[k].rec = RunOutcome(run, "interrupted", "interrupted")
        BY <1>4, <2>3
      <3> QED
        BY <3>1 DEF WellFormed, RunOutcome, Fact, Kinds, RunOutcomes, FailureCauses, NoRun
    <2> QED
      BY <1>4, <2>1, <2>2, <2>3
  <1>13. ASSUME NEW k \in 1..(L + m + 1) PROVE repaired[k].rec.kind # "session_closed"
    <2>1. CASE k \in 1..L
      BY <1>4, <1>5, <2>1
    <2>2. CASE k - L \in 1..m
      <3>1. PICK i \in 1..m : k = L + i
        BY <1>4, <2>2
      <3> QED
        BY <1>7, <3>1 DEF ResultAt
    <2>3. CASE k = L + m + 1
      BY <1>8, <2>3
    <2> QED
      BY <1>4, <2>1, <2>2, <2>3
  \* A call is answered: in the log, or by the repair.
  <1>14. ASSUME NEW h \in 1..L, CallAt(entries, h) PROVE HasResult(repaired, h, L + m)
    <2>1. repaired[h] = entries[h]
      BY <1>4
    <2>2. CASE OpenAt(entries, h)
      <3>1. PICK i \in 1..m : open[i] = entries[h]
        BY <1>11, <2>2
      <3>2. L + i \in 1..(L + m)
        BY <1>4
      <3>3. ResultAt(repaired, L + i) /\ repaired[L + i].rec.call = repaired[h].rec.call
        BY <1>7, <2>1, <3>1
      <3> QED
        BY <3>2, <3>3 DEF HasResult
    <2>3. CASE ~ OpenAt(entries, h)
      <3>1. PICK j \in 1..L : ResultAt(entries, j) /\ entries[j].rec.call = entries[h].rec.call
        BY <1>6, <1>14, <2>3
      <3>2. j \in 1..(L + m) /\ ResultAt(repaired, j) /\ repaired[j] = entries[j]
        BY <1>4, <1>9, <3>1
      <3> QED
        BY <2>1, <3>1, <3>2 DEF HasResult
    <2> QED
      BY <2>2, <2>3
  \* Every record can be paired with those before it.
  <1>15. ASSUME NEW k \in 1..(L + m + 1) PROVE Pairable(repaired, k)
    <2>1. CASE k \in 1..L
      <3>1. \A i \in 1..k : entries[i] = repaired[i]
        BY <1>4, <2>1
      <3> QED
        BY <1>2, <2>1, <3>1, PairableEarlier DEF PairableUpTo
    <2>2. CASE k - L \in 1..m
      <3>1. PICK i \in 1..m : k = L + i
        BY <1>4, <2>2
      <3>2. PICK h \in 1..L : OpenAt(entries, h) /\ open[i] = entries[h] /\ open[i].rec.run = run
        BY <1>10
      <3>3. h \in 1..(k - 1) /\ ResultFor(repaired, h, k)
        <4>1. h < k /\ h \in 1..(k - 1) /\ repaired[h] = entries[h]
          BY <1>4, <3>1
        <4> QED
          BY <1>7, <1>9, <3>1, <3>2, <4>1 DEF ResultFor, OpenAt
      <3>4. ASSUME NEW j \in 1..(k - 1), ResultAt(repaired, j)
            PROVE  repaired[j].rec.call # repaired[k].rec.call
        <4>1. CASE j \in 1..L
          <5>1. ResultAt(entries, j) /\ repaired[j] = entries[j]
            BY <1>4, <1>9, <3>4, <4>1
          <5>2. entries[j].rec.call # entries[h].rec.call
            BY <1>6, <3>2, <4>1, <5>1
          <5>3. repaired[k].rec.call = entries[h].rec.call
            BY <1>7, <3>1, <3>2
          <5> QED
            BY <5>1, <5>2, <5>3
        <4>2. CASE j \notin 1..L
          <5>1. j - L \in 1..m /\ j = L + (j - L) /\ j - L # i
            BY <1>4, <3>1, <4>2
          <5>2. open[j - L].rec.call # open[i].rec.call
            BY <1>1, <1>3, <5>1 DEF Listed
          <5>3. repaired[L + (j - L)].rec.call = open[j - L].rec.call
            BY <1>7, <5>1
          <5> QED
            BY <1>7, <3>1, <5>1, <5>2, <5>3
        <4> QED
          BY <4>1, <4>2
      <3>5. repaired[k].rec.kind = "tool_result" /\ ~ CallAt(repaired, k)
        BY <1>7, <3>1 DEF ResultAt
      <3> QED
        BY <3>3, <3>4, <3>5 DEF Pairable
    <2>3. CASE k = L + m + 1
      <3>1. k - 1 = L + m
        BY <1>4, <2>3
      <3>2. ASSUME NEW i \in 1..(k - 1), CallAt(repaired, i) PROVE HasResult(repaired, i, k - 1)
        <4>1. i \in 1..L
          <5>1. CASE i - L \in 1..m
            <6>1. i = L + (i - L)
              BY <1>4
            <6> QED
              BY <1>7, <3>2, <5>1, <6>1
          <5> QED
            BY <1>4, <3>1, <5>1
        <4> QED
          BY <1>9, <1>14, <3>1, <3>2, <4>1
      <3> QED
        BY <1>8, <2>3, <3>2 DEF Pairable
    <2> QED
      BY <1>4, <2>1, <2>2, <2>3
  <1>16. ToolPairs(repaired).ok
    BY <1>4, <1>15, ScanFacts DEF PairableUpTo
  <1>17. NoCallOpen(repaired)
    <2> SUFFICES ASSUME NEW i \in 1..(L + m + 1), CallAt(repaired, i)
                 PROVE  \E j \in 1..(L + m + 1) : ResultFor(repaired, i, j)
      BY <1>5 DEF NoCallOpen
    <2>1. i \in 1..L
      <3>1. CASE i - L \in 1..m
        <4>1. i = L + (i - L)
          BY <1>4
        <4> QED
          BY <1>7, <3>1, <4>1
      <3> QED
        BY <1>4, <1>8, <3>1
    <2>2. PICK j \in 1..(L + m) : ResultAt(repaired, j) /\ repaired[j].rec.call = repaired[i].rec.call
      BY <1>9, <1>14, <2>1 DEF HasResult
    <2>3. j \in 1..(L + m + 1) /\ L + m + 1 \in 0..(L + m + 1)
      BY <1>4
    <2>4. ResultFor(repaired, i, j)
      BY <1>4, <1>15, <2>2, <2>3, ResultsBelong DEF PairableUpTo
    <2> QED
      BY <2>3, <2>4
  <1>18. ValidateRecords(repaired)
    BY <1>5, <1>12, <1>13, <1>16 DEF ValidateRecords, CloseIsLast
  <1>19. ValidateTranscript(repaired)
    BY <1>4, <1>16, <1>17, <1>18, ScanSeesOpenCalls DEF ValidateTranscript
  <1> QED
    BY <1>19 DEF repaired
-----------------------------------------------------------------------------
(***************************************************************************)
(* The calls of a log come in batches.                                     *)
(***************************************************************************)
AnsweredBefore(entries, k) ==
  \A i \in 1..(k - 1) : CallAt(entries, i) => HasResult(entries, i, k - 1)

\* Results come in the order of their calls, and whatever else is not one more
\* call of a batch comes when every call has its result.
OrderedAt(entries, k) ==
  /\ ResultAt(entries, k) =>
       \A i, h \in 1..(k - 1) : CallAt(entries, i) /\ i < h /\ ResultFor(entries, h, k)
         => HasResult(entries, i, k - 1)
  /\ ~ ResultAt(entries, k) =>
       \/ AnsweredBefore(entries, k)
       \/ k > 1 /\ CallAt(entries, k - 1) /\ CallAt(entries, k)

OrderedUpTo(entries, n) == \A k \in 1..n : OrderedAt(entries, k)

\* The first k entries end with n calls, from b + 1 on, and the results of the
\* first m of these; every call before them has its result.
Batch(entries, k, b, n, m) ==
  /\ b \in Nat /\ n \in Nat /\ m \in Nat /\ m <= n /\ k = b + n + m
  /\ \A i \in 1..n : CallAt(entries, b + i)
  /\ \A i \in 1..m : /\ ResultAt(entries, b + n + i)
                     /\ entries[b + n + i].rec.call = entries[b + i].rec.call
  /\ n = 0 /\ k > 0 => ~ CallAt(entries, k)
  /\ \A i \in 1..b : CallAt(entries, i) => HasResult(entries, i, k)

\* The calls of a batch that have no result in it have none at all.
LEMMA BatchUnanswered ==
  ASSUME NEW entries, NEW k, NEW b, NEW n, NEW m, Batch(entries, k, b, n, m),
         PairableUpTo(entries, k), NEW q \in (m + 1)..n
  PROVE  ~ HasResult(entries, b + q, k)
  <1> SUFFICES ASSUME NEW j \in 1..k, ResultAt(entries, j),
                      entries[j].rec.call = entries[b + q].rec.call
               PROVE  FALSE
    BY DEF HasResult
  <1>1. b \in Nat /\ n \in Nat /\ m \in Nat /\ m <= n /\ k = b + n + m /\ q \in 1..n /\ q > m
    BY DEF Batch
  <1>2. CallAt(entries, b + q) /\ b + q \in 1..k
    BY <1>1 DEF Batch
  <1>3. ASSUME NEW i \in 1..(b + q - 1), CallAt(entries, i)
         PROVE  entries[i].rec.call # entries[b + q].rec.call
    <2>1. Pairable(entries, b + q)
      BY <1>2 DEF PairableUpTo
    <2> QED
      BY <1>1, <1>2, <1>3, <2>1 DEF Pairable
  <1>4. PICK h \in 1..(j - 1) : ResultFor(entries, h, j)
    BY DEF PairableUpTo, Pairable
  <1>5. h \in 1..k /\ CallAt(entries, h) /\ entries[h].rec.call = entries[b + q].rec.call
    BY <1>1, <1>4 DEF ResultFor
  <1>6. h = b + q
    <2>1. h \in 1..(b + q - 1) => FALSE
      BY <1>2, <1>5, <1>3
    <2>2. b + q \in 1..(h - 1) => FALSE
      BY <1>2, <1>5 DEF PairableUpTo, Pairable
    <2> QED
      BY <1>1, <1>5, <2>1, <2>2
  <1>7. ~ CallAt(entries, j)
    BY DEF CallAt, ResultAt
  <1>8. j - (b + n) \in 1..m
    <2>1. j > b + q
      BY <1>1, <1>4, <1>6
    <2>2. j - b \in 1..n => CallAt(entries, b + (j - b))
      BY <1>1 DEF Batch
    <2>3. b + (j - b) = j
      BY <1>1
    <2> QED
      BY <1>1, <1>7, <2>1, <2>2, <2>3
  <1>9. PICK i \in 1..m : j = b + n + i
    BY <1>1, <1>8
  <1>10. entries[b + i].rec.call = entries[b + q].rec.call /\ CallAt(entries, b + i)
    BY <1>1, <1>9 DEF Batch
  <1>11. b + i \in 1..(b + q - 1)
    BY <1>1
  <1> QED
    BY <1>10, <1>11, <1>3

LEMMA BatchClosed ==
  ASSUME NEW entries, NEW k \in Nat, NEW b, NEW n, NEW m, Batch(entries, k, b, n, m),
         PairableUpTo(entries, k), AnsweredBefore(entries, k + 1)
  PROVE  m = n /\ \A i \in 1..k : CallAt(entries, i) => HasResult(entries, i, k)
  <1>1. b \in Nat /\ n \in Nat /\ m \in Nat /\ m <= n /\ k = b + n + m /\ (k + 1) - 1 = k
    BY DEF Batch
  <1>2. \A i \in 1..k : CallAt(entries, i) => HasResult(entries, i, k)
    BY <1>1 DEF AnsweredBefore
  <1>3. CASE m < n
    <2>1. m + 1 \in (m + 1)..n /\ m + 1 \in 1..n /\ b + (m + 1) \in 1..k
      BY <1>1, <1>3
    <2>2. CallAt(entries, b + (m + 1))
      BY <2>1 DEF Batch
    <2> QED
      BY <1>2, <2>1, <2>2, BatchUnanswered
  <1> QED
    BY <1>1, <1>2, <1>3

LEMMA HasResultLater ==
  ASSUME NEW entries, NEW i, NEW k \in Nat, HasResult(entries, i, k)
  PROVE  HasResult(entries, i, k + 1)
  BY DEF HasResult

\* A result is the one the batch waits for.
LEMMA BatchResult ==
  ASSUME NEW entries, NEW k \in Nat, NEW b, NEW n, NEW m, Batch(entries, k, b, n, m),
         PairableUpTo(entries, k + 1), OrderedAt(entries, k + 1), ResultAt(entries, k + 1)
  PROVE  Batch(entries, k + 1, b, n, m + 1)
  <1>1. b \in Nat /\ n \in Nat /\ m \in Nat /\ m <= n /\ k = b + n + m /\ (k + 1) - 1 = k
    BY DEF Batch
  <1>2. PairableUpTo(entries, k) /\ Pairable(entries, k + 1)
    BY DEF PairableUpTo
  <1>3. PICK h \in 1..k : ResultFor(entries, h, k + 1)
    BY <1>1, <1>2 DEF Pairable
  <1>4. CallAt(entries, h) /\ entries[h].rec.call = entries[k + 1].rec.call
    BY <1>3 DEF ResultFor
  <1>5. ~ HasResult(entries, h, k)
    BY <1>1, <1>2, <1>4 DEF Pairable, HasResult
  <1>6. h > b
    BY <1>1, <1>4, <1>5 DEF Batch
  <1>7. ~ ResultAt(entries, h)
    BY <1>4 DEF CallAt, ResultAt
  <1>8. h - b \in 1..n
    <2>1. h - (b + n) \in 1..m => ResultAt(entries, b + n + (h - (b + n)))
      BY <1>1 DEF Batch
    <2>2. b + n + (h - (b + n)) = h
      BY <1>1
    <2> QED
      BY <1>1, <1>6, <1>7, <2>1, <2>2
  <1>9. PICK q \in 1..n : h = b + q
    BY <1>1, <1>8
  <1>10. CASE q <= m
    <2>1. ResultAt(entries, b + n + q) /\ entries[b + n + q].rec.call = entries[h].rec.call
      BY <1>1, <1>9, <1>10 DEF Batch
    <2>2. b + n + q \in 1..k
      BY <1>1, <1>10
    <2> QED
      BY <1>5, <2>1, <2>2 DEF HasResult
  <1>11. CASE q > m + 1
    <2>1. m + 1 \in 1..n /\ m + 1 \in (m + 1)..n /\ b + (m + 1) \in 1..k /\ b + (m + 1) < h
      BY <1>1, <1>9, <1>11
    <2>2. CallAt(entries, b + (m + 1))
      BY <2>1 DEF Batch
    <2>3. HasResult(entries, b + (m + 1), k)
      BY <1>1, <1>3, <2>1, <2>2 DEF OrderedAt
    <2> QED
      BY <1>2, <2>1, <2>3, BatchUnanswered
  <1>12. CASE q = m + 1
    <2>1. m + 1 \in Nat /\ m + 1 <= n /\ k + 1 = b + n + (m + 1) /\ n # 0
      BY <1>1, <1>12
    <2>2. ASSUME NEW i \in 1..(m + 1)
          PROVE  /\ ResultAt(entries, b + n + i)
                 /\ entries[b + n + i].rec.call = entries[b + i].rec.call
      <3>1. CASE i \in 1..m
        BY <3>1 DEF Batch
      <3>2. CASE i = m + 1
        BY <1>4, <1>9, <1>12, <2>1, <3>2
      <3> QED
        BY <1>1, <3>1, <3>2
    <2>3. \A i \in 1..b : CallAt(entries, i) => HasResult(entries, i, k + 1)
      BY HasResultLater DEF Batch
    <2>4. \A i \in 1..n : CallAt(entries, b + i)
      BY DEF Batch
    <2> QED
      BY <1>1, <2>1, <2>2, <2>3, <2>4 DEF Batch
  <1> QED
    BY <1>1, <1>10, <1>11, <1>12

\* One more call of the same answer.
LEMMA BatchCall ==
  ASSUME NEW entries, NEW k \in Nat \ {0}, NEW b, NEW n, NEW m, Batch(entries, k, b, n, m),
         CallAt(entries, k), CallAt(entries, k + 1)
  PROVE  n > 0 /\ m = 0 /\ Batch(entries, k + 1, b, n + 1, 0)
  <1>1. b \in Nat /\ n \in Nat /\ m \in Nat /\ m <= n /\ k = b + n + m
    BY DEF Batch
  <1>2. n > 0
    BY <1>1 DEF Batch
  <1>3. m = 0
    <2>1. m \in 1..m => ResultAt(entries, k)
      BY <1>1 DEF Batch
    <2>2. ~ ResultAt(entries, k)
      BY DEF CallAt, ResultAt
    <2> QED
      BY <1>1, <2>1, <2>2
  <1>4. \A i \in 1..(n + 1) : CallAt(entries, b + i)
    <2> TAKE i \in 1..(n + 1)
    <2>1. CASE i \in 1..n
      BY <2>1 DEF Batch
    <2>2. CASE i = n + 1
      BY <1>1, <1>3, <2>2
    <2> QED
      BY <1>1, <2>1, <2>2
  <1>5. \A i \in 1..b : CallAt(entries, i) => HasResult(entries, i, k + 1)
    BY HasResultLater DEF Batch
  <1> QED
    BY <1>1, <1>2, <1>3, <1>4, <1>5 DEF Batch

\* The first call of an answer, or a record that is no call and no result.
LEMMA BatchNew ==
  ASSUME NEW entries, NEW k \in Nat,
         \A i \in 1..k : CallAt(entries, i) => HasResult(entries, i, k)
  PROVE  /\ CallAt(entries, k + 1) => Batch(entries, k + 1, k, 1, 0)
         /\ ~ CallAt(entries, k + 1) => Batch(entries, k + 1, k + 1, 0, 0)
  <1>1. \A i \in 1..k : CallAt(entries, i) => HasResult(entries, i, k + 1)
    BY HasResultLater
  <1>2. CallAt(entries, k + 1) => Batch(entries, k + 1, k, 1, 0)
    BY <1>1 DEF Batch
  <1>3. ASSUME ~ CallAt(entries, k + 1)
        PROVE  \A i \in 1..(k + 1) : CallAt(entries, i) => HasResult(entries, i, k + 1)
    BY <1>1, <1>3
  <1> QED
    BY <1>2, <1>3 DEF Batch
-----------------------------------------------------------------------------
(***************************************************************************)
(* What recordsToMessages has built after n entries.                       *)
(***************************************************************************)
MessageType ==
  [role : {"user", "assistant", "tool"}, calls : Seq(AnyCall), answers : AnyCall]
Built ==
  {built \in [messages : Seq(MessageType), last : Kinds \cup {""}] :
     built.last = "tool_call" => built.messages # <<>>}

\* The first p messages are CallsAnswered.
FirstAnswered(messages, p) ==
  /\ \A i \in 1..p : \A k \in 1..Len(messages[i].calls) :
       i + k <= p /\ messages[i + k].answers = messages[i].calls[k]
  /\ \A j \in 1..p : messages[j].role = "tool" =>
       \E i \in 1..(j - 1) : j - i \in 1..Len(messages[i].calls)

\* The message of the batch, behind p others, and the answers it has so far.
Answering(entries, messages, p, b, n, m) ==
  /\ p \in Nat /\ Len(messages) = p + 1 + m /\ FirstAnswered(messages, p)
  /\ messages[p + 1].role # "tool" /\ Len(messages[p + 1].calls) = n
  /\ \A i \in 1..n : messages[p + 1].calls[i] = entries[b + i].rec.call
  /\ \A i \in 1..m : /\ messages[p + 1 + i].role = "tool" /\ messages[p + 1 + i].calls = <<>>
                     /\ messages[p + 1 + i].answers = entries[b + i].rec.call

Shaped(entries, messages, b, n, m) ==
  IF n = 0 THEN FirstAnswered(messages, Len(messages))
  ELSE \E p : Answering(entries, messages, p, b, n, m)

LEMMA FirstAnsweredKept ==
  ASSUME NEW messages, NEW more, NEW p \in Nat, \A i \in 1..p : more[i] = messages[i],
         FirstAnswered(messages, p), \A i \in 1..p : Len(messages[i].calls) \in Nat
  PROVE  FirstAnswered(more, p)
  <1>1. ASSUME NEW i \in 1..p, NEW k \in 1..Len(more[i].calls)
        PROVE  i + k <= p /\ more[i + k].answers = more[i].calls[k]
    <2>1. i + k <= p /\ messages[i + k].answers = messages[i].calls[k]
      BY <1>1 DEF FirstAnswered
    <2>2. i + k \in 1..p
      BY <1>1, <2>1
    <2> QED
      BY <2>1, <2>2
  <1>2. ASSUME NEW j \in 1..p, more[j].role = "tool"
        PROVE  \E i \in 1..(j - 1) : j - i \in 1..Len(more[i].calls)
    <2>1. PICK i \in 1..(j - 1) : j - i \in 1..Len(messages[i].calls)
      BY <1>2 DEF FirstAnswered
    <2>2. i \in 1..p
      OBVIOUS
    <2> QED
      BY <2>1, <2>2
  <1> QED
    BY <1>1, <1>2 DEF FirstAnswered

LEMMA MessageFacts ==
  ASSUME NEW messages \in Seq(MessageType)
  PROVE  /\ Len(messages) \in Nat
         /\ \A i \in 1..Len(messages) :
              /\ messages[i] \in MessageType /\ messages[i].calls \in Seq(AnyCall)
              /\ Len(messages[i].calls) \in Nat
         /\ \A message : LET more == Append(messages, message)
                         IN  /\ Len(more) = Len(messages) + 1
                             /\ more[Len(messages) + 1] = message
                             /\ \A i \in 1..Len(messages) : more[i] = messages[i]
  <1>1. \A i \in 1..Len(messages) : messages[i] \in MessageType
    BY ElementOfSeq
  <1> QED
    BY <1>1 DEF MessageType

\* A message without calls that answers none.
LEMMA FirstAnsweredGrows ==
  ASSUME NEW messages \in Seq(MessageType), NEW message,
         FirstAnswered(messages, Len(messages)), message.calls = <<>>, message.role # "tool"
  PROVE  FirstAnswered(Append(messages, message), Len(messages) + 1)
  <1> DEFINE more == Append(messages, message)
             p == Len(messages)
  <1>1. /\ p \in Nat /\ Len(more) = p + 1 /\ more[p + 1] = message
        /\ \A i \in 1..p : more[i] = messages[i] /\ Len(messages[i].calls) \in Nat
    BY MessageFacts
  <1>2. FirstAnswered(more, p)
    <2> HIDE DEF more, p
    <2> QED
      BY <1>1, FirstAnsweredKept DEF p
  <1> HIDE DEF more, p
  <1>3. ASSUME NEW i \in 1..(p + 1), NEW k \in 1..Len(more[i].calls)
        PROVE  i + k <= p + 1 /\ more[i + k].answers = more[i].calls[k]
    <2>1. CASE i \in 1..p
      <3>1. i + k <= p /\ more[i + k].answers = more[i].calls[k]
        BY <1>2, <1>3, <2>1 DEF FirstAnswered
      <3>2. Len(more[i].calls) \in Nat
        BY <1>1, <2>1
      <3> QED
        BY <1>1, <3>1, <3>2
    <2>2. CASE i = p + 1
      <3>1. Len(more[i].calls) = 0
        BY <1>1, <2>2
      <3> QED
        BY <3>1
    <2> QED
      BY <1>1, <2>1, <2>2
  <1>4. ASSUME NEW j \in 1..(p + 1), more[j].role = "tool"
        PROVE  \E i \in 1..(j - 1) : j - i \in 1..Len(more[i].calls)
    <2>1. j \in 1..p
      BY <1>1, <1>4
    <2> QED
      BY <1>2, <1>4, <2>1 DEF FirstAnswered
  <1>5. FirstAnswered(more, p + 1)
    BY <1>3, <1>4 DEF FirstAnswered
  <1> QED
    BY <1>5 DEF more, p

\* The last result completes its batch.
LEMMA AnsweringDone ==
  ASSUME NEW entries, NEW messages \in Seq(MessageType), NEW p, NEW b, NEW n \in Nat,
         Answering(entries, messages, p, b, n, n)
  PROVE  FirstAnswered(messages, Len(messages))
  <1>1. p \in Nat /\ Len(messages) = p + 1 + n /\ Len(messages[p + 1].calls) = n
    BY DEF Answering
  <1>2. \A i \in 1..Len(messages) : Len(messages[i].calls) \in Nat
    BY MessageFacts
  <1>3. \A i \in 1..(p + 1 + n) : i \in 1..p \/ i = p + 1 \/ \E q \in 1..n : i = p + 1 + q
    <2> TAKE i \in 1..(p + 1 + n)
    <2>1. CASE i > p + 1
      <3>1. i - (p + 1) \in 1..n /\ i = p + 1 + (i - (p + 1))
        BY <1>1, <2>1
      <3> QED
        BY <3>1
    <2> QED
      BY <1>1, <2>1
  <1>4. ASSUME NEW i \in 1..(p + 1 + n), NEW k \in 1..Len(messages[i].calls)
        PROVE  i + k <= p + 1 + n /\ messages[i + k].answers = messages[i].calls[k]
    <2>1. CASE i \in 1..p
      <3>1. i + k <= p /\ messages[i + k].answers = messages[i].calls[k]
        BY <1>4, <2>1 DEF Answering, FirstAnswered
      <3>2. Len(messages[i].calls) \in Nat
        BY <1>1, <1>2
      <3> QED
        BY <1>1, <3>1, <3>2
    <2>2. CASE i = p + 1
      <3>1. k \in 1..n
        BY <1>1, <1>4, <2>2
      <3> QED
        BY <1>1, <2>2, <3>1 DEF Answering
    <2>3. CASE \E q \in 1..n : i = p + 1 + q
      <3>1. messages[i].calls = <<>>
        BY <2>3 DEF Answering
      <3> QED
        BY <1>4, <3>1
    <2> QED
      BY <1>3, <2>1, <2>2, <2>3
  <1>5. ASSUME NEW j \in 1..(p + 1 + n), messages[j].role = "tool"
        PROVE  \E i \in 1..(j - 1) : j - i \in 1..Len(messages[i].calls)
    <2>1. CASE j \in 1..p
      BY <1>5, <2>1 DEF Answering, FirstAnswered
    <2>2. CASE \E q \in 1..n : j = p + 1 + q
      <3>1. p + 1 \in 1..(j - 1) /\ j - (p + 1) \in 1..Len(messages[p + 1].calls)
        BY <1>1, <2>2
      <3> QED
        BY <3>1
    <2>3. CASE j = p + 1
      BY <1>5, <2>3 DEF Answering
    <2> QED
      BY <1>3, <2>1, <2>2, <2>3
  <1> QED
    BY <1>1, <1>4, <1>5 DEF FirstAnswered

LEMMA FirstAnsweredPart ==
  ASSUME NEW entries, NEW messages \in Seq(MessageType), NEW more, NEW p, NEW b, NEW n, NEW m,
         Answering(entries, messages, p, b, n, m), \A i \in 1..p : more[i] = messages[i], m \in Nat
  PROVE  FirstAnswered(more, p)
  <1>1. p \in Nat /\ \A i \in 1..p : Len(messages[i].calls) \in Nat
    <2>1. p \in Nat /\ Len(messages) = p + 1 + m
      BY DEF Answering
    <2>2. \A i \in 1..p : i \in 1..Len(messages)
      BY <2>1
    <2> QED
      BY <2>1, <2>2, MessageFacts
  <1> QED
    BY <1>1, FirstAnsweredKept DEF Answering

\* The message of a result.
LEMMA ShapedResult ==
  ASSUME NEW entries, NEW messages \in Seq(MessageType), NEW message,
         NEW b, NEW n \in Nat, NEW m \in Nat, Shaped(entries, messages, b, n, m), m + 1 <= n,
         message.role = "tool", message.calls = <<>>,
         message.answers = entries[b + (m + 1)].rec.call
  PROVE  Shaped(entries, Append(messages, message), b, n, m + 1)
  <1> DEFINE more == Append(messages, message)
  <1>1. PICK p : Answering(entries, messages, p, b, n, m)
    BY DEF Shaped
  <1>2. p \in Nat /\ Len(messages) = p + 1 + m
    BY <1>1 DEF Answering
  <1>3. /\ Len(more) = p + 1 + (m + 1) /\ more[p + 1 + (m + 1)] = message
        /\ \A i \in 1..(p + 1 + m) : more[i] = messages[i]
    BY <1>2, MessageFacts
  <1> HIDE DEF more
  <1>4. FirstAnswered(more, p)
    BY <1>1, <1>2, <1>3, FirstAnsweredPart
  <1>5. more[p + 1] = messages[p + 1]
    BY <1>2, <1>3
  <1>6. ASSUME NEW i \in 1..(m + 1)
        PROVE  /\ more[p + 1 + i].role = "tool" /\ more[p + 1 + i].calls = <<>>
               /\ more[p + 1 + i].answers = entries[b + i].rec.call
    <2>1. CASE i \in 1..m
      <3>1. more[p + 1 + i] = messages[p + 1 + i]
        BY <1>2, <1>3, <2>1
      <3> QED
        BY <1>1, <2>1, <3>1 DEF Answering
    <2>2. CASE i = m + 1
      BY <1>3, <2>2
    <2> QED
      BY <2>1, <2>2
  <1>7. Answering(entries, more, p, b, n, m + 1)
    BY <1>1, <1>2, <1>3, <1>4, <1>5, <1>6 DEF Answering
  <1> QED
    BY <1>7 DEF Shaped, more

\* The message of the first call of an answer.
LEMMA ShapedCall ==
  ASSUME NEW entries, NEW messages \in Seq(MessageType), NEW message, NEW b \in Nat,
         FirstAnswered(messages, Len(messages)),
         message.role # "tool", message.calls = <<entries[b + 1].rec.call>>
  PROVE  Shaped(entries, Append(messages, message), b, 1, 0)
  <1> DEFINE more == Append(messages, message)
             p == Len(messages)
  <1>1. /\ p \in Nat /\ Len(more) = p + 1 + 0 /\ more[p + 1] = message
        /\ \A i \in 1..p : more[i] = messages[i] /\ Len(messages[i].calls) \in Nat
    BY MessageFacts
  <1> HIDE DEF more
  <1>2. FirstAnswered(more, p)
    <2> HIDE DEF p
    <2> QED
      BY <1>1, FirstAnsweredKept DEF p
  <1>3. Len(more[p + 1].calls) = 1 /\ more[p + 1].calls[1] = entries[b + 1].rec.call
    <2> HIDE DEF p
    <2>1. more[p + 1].calls = <<entries[b + 1].rec.call>>
      BY <1>1
    <2> QED
      BY <2>1
  <1>4. Answering(entries, more, p, b, 1, 0)
    <2> HIDE DEF p
    <2>1. \A i \in 1..1 : i = 1
      OBVIOUS
    <2> QED
      BY <1>1, <1>2, <1>3, <2>1 DEF Answering
  <1> QED
    BY <1>4 DEF Shaped, more

\* One more call in the last message.
LEMMA ShapedAgain ==
  ASSUME NEW entries, NEW messages \in Seq(MessageType), NEW b, NEW n \in Nat \ {0},
         Shaped(entries, messages, b, n, 0), entries[b + (n + 1)].rec.call \in AnyCall
  PROVE  Shaped(entries, AddCall(messages, TRUE, entries[b + (n + 1)].rec.call), b, n + 1, 0)
  <1> DEFINE id == entries[b + (n + 1)].rec.call
             L == Len(messages)
             more == [messages EXCEPT ![L].calls = Append(@, id)]
  <1>1. PICK p : Answering(entries, messages, p, b, n, 0)
    BY DEF Shaped
  <1>2. p \in Nat /\ L = p + 1 /\ L \in 1..L /\ DOMAIN messages = 1..L
    <2>1. p \in Nat /\ L = p + 1
      BY <1>1 DEF Answering
    <2> QED
      BY <2>1
  <1>3. /\ messages[L] \in MessageType /\ messages[L].calls \in Seq(AnyCall)
        /\ Len(messages[L].calls) = n
        /\ \A i \in 1..n : messages[L].calls[i] = entries[b + i].rec.call
    BY <1>1, <1>2, MessageFacts DEF Answering
  <1>4. /\ DOMAIN more = 1..L /\ \A i \in 1..p : more[i] = messages[i]
        /\ more[L] = [messages[L] EXCEPT !.calls = Append(messages[L].calls, id)]
    BY <1>2
  <1>5. more[L].role = messages[L].role /\ more[L].calls = Append(messages[L].calls, id)
    BY <1>3, <1>4 DEF MessageType
  <1>6. Len(more) = L
    <2> DEFINE last == [messages[L] EXCEPT !.calls = Append(messages[L].calls, id)]
    <2>1. last \in MessageType
      <3>1. Append(messages[L].calls, id) \in Seq(AnyCall)
        BY <1>3
      <3> QED
        BY <1>3, <3>1 DEF MessageType
    <2>2. more = [messages EXCEPT ![L] = last]
      OBVIOUS
    <2> HIDE DEF last, more
    <2> QED
      BY <1>2, <2>1, <2>2, ExceptSeq
  <1>7. /\ Len(more[L].calls) = n + 1 /\ more[L].calls[n + 1] = id
        /\ \A i \in 1..n : more[L].calls[i] = messages[L].calls[i]
    <2> HIDE DEF more, id
    <2> QED
      BY <1>3, <1>5
  <1>8. \A i \in 1..(n + 1) : more[L].calls[i] = entries[b + i].rec.call
    <2> TAKE i \in 1..(n + 1)
    <2>1. CASE i \in 1..n
      <3> HIDE DEF more
      <3> QED
        BY <1>3, <1>7, <2>1
    <2>2. CASE i = n + 1
      BY <1>7, <2>2
    <2>3. i \in 1..n \/ i = n + 1
      OBVIOUS
    <2> QED
      BY <2>1, <2>2, <2>3
  <1> HIDE DEF more
  <1>9. FirstAnswered(more, p)
    BY <1>1, <1>4, FirstAnsweredPart
  <1>10. Answering(entries, more, p, b, n + 1, 0)
    BY <1>1, <1>2, <1>5, <1>6, <1>7, <1>8, <1>9 DEF Answering
  <1>11. AddCall(messages, TRUE, id) = more
    BY DEF AddCall, more
  <1>12. n + 1 # 0
    OBVIOUS
  <1> HIDE DEF id
  <1> QED
    BY <1>10, <1>11, <1>12 DEF Shaped, id
-----------------------------------------------------------------------------
(***************************************************************************)
(* Entry by entry.                                                         *)
(***************************************************************************)
LEMMA MessagesTyped ==
  /\ \A role \in {"user", "assistant", "tool"} :
       /\ Message(role) \in MessageType
       /\ Message(role).role = role /\ Message(role).calls = <<>>
  /\ \A id \in AnyCall :
       LET message == [Message("assistant") EXCEPT !.calls = <<id>>]
       IN  message \in MessageType /\ message.role = "assistant" /\ message.calls = <<id>>
  /\ \A id \in AnyCall :
       LET message == [Message("tool") EXCEPT !.answers = id]
       IN  /\ message \in MessageType /\ message.role = "tool" /\ message.calls = <<>>
           /\ message.answers = id
  <1>1. NoCall \in AnyCall /\ << >> \in Seq(AnyCall) /\ \A id \in AnyCall : <<id>> \in Seq(AnyCall)
    BY DEF AnyCall
  <1> QED
    BY <1>1 DEF Message, MessageType

LEMMA AddCallTyped ==
  ASSUME NEW messages \in Seq(MessageType), NEW again \in BOOLEAN, again => messages # <<>>,
         NEW id \in AnyCall
  PROVE  AddCall(messages, again, id) \in Seq(MessageType) /\ AddCall(messages, again, id) # <<>>
  <1>1. CASE ~ again
    <2>1. AddCall(messages, again, id)
            = Append(messages, [Message("assistant") EXCEPT !.calls = <<id>>])
      BY <1>1 DEF AddCall
    <2> DEFINE message == [Message("assistant") EXCEPT !.calls = <<id>>]
    <2>2. message \in MessageType
      BY MessagesTyped
    <2> HIDE DEF message
    <2> QED
      BY <2>1, <2>2 DEF message
  <1>2. CASE again
    <2> DEFINE L == Len(messages)
               last == [messages[L] EXCEPT !.calls = Append(messages[L].calls, id)]
    <2>1. L \in 1..Len(messages)
      BY <1>2
    <2>2. messages[L] \in MessageType /\ messages[L].calls \in Seq(AnyCall)
      BY <2>1, MessageFacts
    <2>3. last \in MessageType
      <3>1. Append(messages[L].calls, id) \in Seq(AnyCall)
        BY <2>2
      <3> QED
        BY <2>2, <3>1 DEF MessageType
    <2>4. AddCall(messages, again, id) = [messages EXCEPT ![L] = last]
      BY <1>2 DEF AddCall
    <2> HIDE DEF last
    <2>5. /\ [messages EXCEPT ![L] = last] \in Seq(MessageType)
          /\ Len([messages EXCEPT ![L] = last]) = L
      BY <2>1, <2>3, ExceptSeq
    <2>6. L # 0
      BY <2>1
    <2> QED
      BY <2>4, <2>5, <2>6
  <1> QED
    BY <1>1, <1>2

LEMMA AddRecordFacts ==
  ASSUME NEW built \in Built, NEW rec \in Record
  PROVE  LET after == AddRecord(built, rec)
         IN  /\ after \in Built /\ after.last = rec.kind
             /\ rec.kind = "user_message" =>
                  after.messages = Append(built.messages, Message("user"))
             /\ rec.kind = "assistant_block" =>
                  after.messages = Append(built.messages, Message("assistant"))
             /\ rec.kind = "tool_call" =>
                  after.messages = AddCall(built.messages, built.last = "tool_call", rec.call)
             /\ rec.kind = "tool_result" =>
                  after.messages =
                    Append(built.messages, [Message("tool") EXCEPT !.answers = rec.call])
             /\ rec.kind \notin {"user_message", "assistant_block", "tool_call", "tool_result"} =>
                  after.messages = built.messages
  <1> DEFINE after == AddRecord(built, rec)
             again == built.last = "tool_call"
             answer == [Message("tool") EXCEPT !.answers = rec.call]
  <1>1. /\ built.messages \in Seq(MessageType)
        /\ again => built.messages # <<>>
        /\ rec.kind \in Kinds /\ rec.call \in AnyCall
    BY DEF Built, Record, AnyCall
  <1>2. /\ after.last = rec.kind /\ DOMAIN after = {"messages", "last"}
        /\ rec.kind = "user_message" => after.messages = Append(built.messages, Message("user"))
        /\ rec.kind = "assistant_block" =>
             after.messages = Append(built.messages, Message("assistant"))
        /\ rec.kind = "tool_call" => after.messages = AddCall(built.messages, again, rec.call)
        /\ rec.kind = "tool_result" => after.messages = Append(built.messages, answer)
        /\ rec.kind \notin {"user_message", "assistant_block", "tool_call", "tool_result"} =>
             after.messages = built.messages
        /\ after = [messages |-> after.messages, last |-> after.last]
    BY DEF AddRecord
  <1>3. /\ Message("user") \in MessageType /\ Message("assistant") \in MessageType
        /\ answer \in MessageType
    BY <1>1, MessagesTyped
  <1>4. /\ AddCall(built.messages, again, rec.call) \in Seq(MessageType)
        /\ AddCall(built.messages, again, rec.call) # <<>>
    <2>1. CASE again
      <3>1. AddCall(built.messages, again, rec.call) = AddCall(built.messages, TRUE, rec.call)
        BY <2>1 DEF AddCall
      <3>2. built.messages # <<>>
        BY <1>1, <2>1
      <3> HIDE DEF again
      <3>3. /\ AddCall(built.messages, TRUE, rec.call) \in Seq(MessageType)
            /\ AddCall(built.messages, TRUE, rec.call) # <<>>
        BY <1>1, <3>2, AddCallTyped
      <3> QED
        BY <3>1, <3>3
    <2>2. CASE ~ again
      <3>1. AddCall(built.messages, again, rec.call) = AddCall(built.messages, FALSE, rec.call)
        BY <2>2 DEF AddCall
      <3> HIDE DEF again
      <3>2. /\ AddCall(built.messages, FALSE, rec.call) \in Seq(MessageType)
            /\ AddCall(built.messages, FALSE, rec.call) # <<>>
        BY <1>1, AddCallTyped
      <3> QED
        BY <3>1, <3>2
    <2> QED
      BY <2>1, <2>2
  <1> HIDE DEF after, again, answer
  <1>5. after.messages \in Seq(MessageType) /\ (rec.kind = "tool_call" => after.messages # <<>>)
    <2>1. CASE rec.kind = "tool_call"
      BY <1>2, <1>4, <2>1
    <2>2. \A message \in MessageType : Append(built.messages, message) \in Seq(MessageType)
      <3>1. \A messages \in Seq(MessageType), message \in MessageType :
              Append(messages, message) \in Seq(MessageType)
        OBVIOUS
      <3> QED
        BY <1>1, <3>1
    <2>3. CASE rec.kind # "tool_call"
      BY <1>1, <1>2, <1>3, <2>2, <2>3
    <2> QED
      BY <2>1, <2>3
  <1>6. after \in Built
    BY <1>1, <1>2, <1>5 DEF Built
  <1> QED
    BY <1>2, <1>6 DEF after, again, answer

BuiltUpTo(entries, n, built) ==
  /\ built \in Built
  /\ built.last = IF n = 0 THEN "" ELSE entries[n].rec.kind
  /\ \E b, c, m : Batch(entries, n, b, c, m) /\ Shaped(entries, built.messages, b, c, m)

\* What was built when every call before has its result.
LEMMA BuiltClosed ==
  ASSUME NEW entries, NEW k \in Nat, NEW built, BuiltUpTo(entries, k, built),
         PairableUpTo(entries, k), AnsweredBefore(entries, k + 1)
  PROVE  /\ FirstAnswered(built.messages, Len(built.messages))
         /\ \A i \in 1..k : CallAt(entries, i) => HasResult(entries, i, k)
  <1>1. PICK b, c, m : Batch(entries, k, b, c, m) /\ Shaped(entries, built.messages, b, c, m)
    BY DEF BuiltUpTo
  <1>2. m = c /\ c \in Nat /\ \A i \in 1..k : CallAt(entries, i) => HasResult(entries, i, k)
    <2>1. m = c /\ \A i \in 1..k : CallAt(entries, i) => HasResult(entries, i, k)
      BY <1>1, BatchClosed
    <2>2. c \in Nat
      BY <1>1 DEF Batch
    <2> QED
      BY <2>1, <2>2
  <1>3. built.messages \in Seq(MessageType)
    BY DEF BuiltUpTo, Built
  <1> QED
    BY <1>1, <1>2, <1>3, AnsweringDone DEF Shaped

LEMMA BuiltStep ==
  ASSUME NEW entries \in Seq(Entry), NEW k \in 0..(Len(entries) - 1),
         PairableUpTo(entries, Len(entries)), OrderedUpTo(entries, Len(entries)),
         NEW built, BuiltUpTo(entries, k, built)
  PROVE  BuiltUpTo(entries, k + 1, AddRecord(built, entries[k + 1].rec))
  <1> DEFINE rec == entries[k + 1].rec
             after == AddRecord(built, rec)
             messages == built.messages
  <1>1. /\ k \in Nat /\ k + 1 \in 1..Len(entries) /\ (k + 1) - 1 = k
        /\ rec \in Record /\ rec.kind \in Kinds /\ rec.call \in AnyCall
    BY EntryFacts
  <1>2. built \in Built /\ messages \in Seq(MessageType)
        /\ built.last = IF k = 0 THEN "" ELSE entries[k].rec.kind
    BY DEF BuiltUpTo, Built
  <1>3. /\ PairableUpTo(entries, k) /\ PairableUpTo(entries, k + 1) /\ OrderedAt(entries, k + 1)
    BY <1>1 DEF PairableUpTo, OrderedUpTo
  <1>4. PICK b, c, m : Batch(entries, k, b, c, m) /\ Shaped(entries, messages, b, c, m)
    BY DEF BuiltUpTo
  <1>5. b \in Nat /\ c \in Nat /\ m \in Nat
    BY <1>4 DEF Batch
  <1> SUFFICES \E x, y, z : Batch(entries, k + 1, x, y, z) /\ Shaped(entries, after.messages, x, y, z)
    <2>1. after \in Built /\ after.last = rec.kind
      BY <1>1, <1>2, AddRecordFacts
    <2>2. k + 1 # 0
      BY <1>1
    <2> HIDE DEF after
    <2> QED
      BY <2>1, <2>2 DEF BuiltUpTo, after
  <1>6. CASE ResultAt(entries, k + 1)
    <2> DEFINE message == [Message("tool") EXCEPT !.answers = rec.call]
    <2>1. after.messages = Append(messages, message)
      BY <1>1, <1>2, <1>6, AddRecordFacts DEF ResultAt
    <2>2. message.role = "tool" /\ message.calls = <<>> /\ message.answers = rec.call
      BY <1>1, MessagesTyped
    <2>3. Batch(entries, k + 1, b, c, m + 1)
      BY <1>1, <1>3, <1>4, <1>6, BatchResult
    <2>4. m + 1 <= c /\ m + 1 \in 1..(m + 1) /\ k + 1 = b + c + (m + 1)
      BY <1>5, <2>3 DEF Batch
    <2>5. rec.call = entries[b + (m + 1)].rec.call
      BY <2>3, <2>4 DEF Batch
    <2> HIDE DEF message, rec, messages, after
    <2>6. Shaped(entries, Append(messages, message), b, c, m + 1)
      BY <1>2, <1>4, <1>5, <2>2, <2>4, <2>5, ShapedResult
    <2> QED
      BY <2>1, <2>3, <2>6
  <1>7. CASE k > 0 /\ CallAt(entries, k) /\ CallAt(entries, k + 1)
    <2>0. k # 0
      BY <1>1, <1>7
    <2>1. built.last = "tool_call" /\ rec.kind = "tool_call" /\ k # 0
      BY <1>2, <1>7, <2>0 DEF CallAt
    <2>2. after.messages = AddCall(messages, TRUE, rec.call)
      BY <1>1, <1>2, <2>1, AddRecordFacts
    <2>3. c > 0 /\ m = 0 /\ Batch(entries, k + 1, b, c + 1, 0)
      BY <1>1, <1>4, <1>7, <2>1, BatchCall
    <2>4. k + 1 = b + (c + 1)
      BY <1>5, <2>3 DEF Batch
    <2> HIDE DEF messages, after
    <2>5. Shaped(entries, AddCall(messages, TRUE, rec.call), b, c + 1, 0)
      <3>1. entries[b + (c + 1)].rec.call = rec.call
        BY <2>4
      <3>2. c \in Nat \ {0} /\ entries[b + (c + 1)].rec.call \in AnyCall
        BY <1>1, <1>5, <2>3, <3>1
      <3>3. Shaped(entries, messages, b, c, 0)
        BY <1>4, <2>3
      <3> HIDE DEF rec
      <3>4. Shaped(entries, AddCall(messages, TRUE, entries[b + (c + 1)].rec.call), b, c + 1, 0)
        BY <1>2, <1>5, <3>2, <3>3, ShapedAgain
      <3> QED
        BY <3>1, <3>4
    <2> QED
      BY <2>2, <2>3, <2>5
  <1>8. CASE ~ ResultAt(entries, k + 1) /\ ~ (k > 0 /\ CallAt(entries, k) /\ CallAt(entries, k + 1))
    <2>1. AnsweredBefore(entries, k + 1)
      BY <1>1, <1>3, <1>8 DEF OrderedAt
    <2>2. /\ FirstAnswered(messages, Len(messages))
          /\ \A i \in 1..k : CallAt(entries, i) => HasResult(entries, i, k)
      BY <1>1, <1>3, <2>1, BuiltClosed
    <2>3. CASE CallAt(entries, k + 1)
      <3>1. rec.kind = "tool_call" /\ built.last # "tool_call"
        <4>1. rec.kind = "tool_call"
          BY <2>3 DEF CallAt
        <4>2. CASE k = 0
          BY <1>2, <4>1, <4>2
        <4>3. CASE k # 0
          <5>1. k > 0 /\ built.last = entries[k].rec.kind
            BY <1>1, <1>2, <4>3
          <5> QED
            BY <1>8, <2>3, <4>1, <5>1 DEF CallAt
        <4> QED
          BY <4>2, <4>3
      <3> DEFINE message == [Message("assistant") EXCEPT !.calls = <<rec.call>>]
      <3>2. after.messages = Append(messages, message)
        <4>1. after.messages = AddCall(messages, built.last = "tool_call", rec.call)
          BY <1>1, <1>2, <3>1, AddRecordFacts
        <4> QED
          BY <3>1, <4>1 DEF AddCall
      <3>3. message.role # "tool" /\ message.calls = <<entries[k + 1].rec.call>>
        BY <1>1, MessagesTyped
      <3> HIDE DEF message, messages, after
      <3>4. Shaped(entries, Append(messages, message), k, 1, 0)
        BY <1>1, <1>2, <2>2, <3>3, ShapedCall
      <3> QED
        BY <1>1, <2>2, <2>3, <3>2, <3>4, BatchNew
    <2>4. CASE ~ CallAt(entries, k + 1)
      <3>1. rec.kind \notin {"tool_call", "tool_result"}
        BY <1>8, <2>4 DEF CallAt, ResultAt
      <3>2. FirstAnswered(after.messages, Len(after.messages))
        <4>1. CASE rec.kind \in {"user_message", "assistant_block"}
          <5>1. PICK role \in {"user", "assistant"} : after.messages = Append(messages, Message(role))
            BY <1>1, <1>2, <4>1, AddRecordFacts
          <5>2. Message(role).calls = <<>> /\ Message(role).role # "tool"
            BY MessagesTyped
          <5> HIDE DEF messages, after
          <5>3. Len(Append(messages, Message(role))) = Len(messages) + 1
            BY <1>2, MessageFacts
          <5> QED
            BY <1>2, <2>2, <5>1, <5>2, <5>3, FirstAnsweredGrows
        <4>2. CASE rec.kind \notin {"user_message", "assistant_block"}
          <5>1. after.messages = messages
            BY <1>1, <1>2, <3>1, <4>2, AddRecordFacts
          <5> HIDE DEF after
          <5> QED
            BY <2>2, <5>1
        <4> QED
          BY <4>1, <4>2
      <3> HIDE DEF after
      <3>3. Shaped(entries, after.messages, k + 1, 0, 0)
        BY <3>2 DEF Shaped
      <3> QED
        BY <1>1, <2>2, <2>4, <3>3, BatchNew
    <2> QED
      BY <2>3, <2>4
  <1> QED
    BY <1>6, <1>7, <1>8 DEF CallAt, ResultAt

LEMMA BuiltFromRecords ==
  ASSUME NEW entries \in Seq(Entry), PairableUpTo(entries, Len(entries)),
         OrderedUpTo(entries, Len(entries))
  PROVE  \E built : /\ BuiltUpTo(entries, Len(entries), built)
                    /\ RecordsToMessages(entries) = built.messages
  <1> DEFINE L == Len(entries)
             step == [n \in 1..L |-> [built \in Built |-> AddRecord(built, entries[n].rec)]]
             Body(f) == [n \in 0..L |->
                           IF n = 0 THEN NoMessages ELSE AddRecord(f[n - 1], entries[n].rec)]
             scan == CHOOSE f : f = Body(f)
  <1>1. NoMessages \in Built
    <2>1. <<>> \in Seq(MessageType) /\ "" # "tool_call"
      OBVIOUS
    <2> QED
      BY <2>1 DEF NoMessages, Built
  <1>2. step \in [1..L -> [Built -> Built]]
    <2>1. ASSUME NEW n \in 1..L, NEW built \in Built PROVE AddRecord(built, entries[n].rec) \in Built
      BY EntryFacts, AddRecordFacts
    <2> QED
      BY <2>1
  <1>3. L \in Nat
    OBVIOUS
  <1>4. PICK f \in [0..L -> Built] : Recurses(f, L, NoMessages, step)
    <2> HIDE DEF L, step
    <2> QED
      BY <1>1, <1>2, <1>3, Recursion
  <1>5. f = Body(f)
    <2>1. ASSUME NEW n \in 0..L, n # 0 PROVE f[n] = AddRecord(f[n - 1], entries[n].rec)
      <3>1. n \in 1..L /\ n - 1 \in 0..L
        BY <2>1
      <3>2. f[n] = step[n][f[n - 1]] /\ f[n - 1] \in Built
        BY <1>4, <2>1, <3>1 DEF Recurses
      <3> QED
        BY <3>1, <3>2
    <2>2. f[0] = NoMessages
      <3> HIDE DEF step
      <3> QED
        BY <1>3, <1>4 DEF Recurses
    <2> QED
      BY <2>1, <2>2
  <1>6. scan = Body(scan)
    <2> HIDE DEF Body
    <2> QED
      BY <1>5
  <1>7. RecordsToMessages(entries) = scan[L].messages
    BY DEF RecordsToMessages
  <1>8. scan[0] = NoMessages
    <2> HIDE DEF scan
    <2> QED
      BY <1>3, <1>6
  <1>9. ASSUME NEW n \in 0..(L - 1) PROVE scan[n + 1] = AddRecord(scan[n], entries[n + 1].rec)
    <2> HIDE DEF scan
    <2>1. n + 1 \in 0..L /\ n + 1 # 0 /\ (n + 1) - 1 = n
      BY <1>3
    <2> QED
      BY <1>6, <2>1
  <1> HIDE DEF scan
  <1> DEFINE S == {n \in 0..L : BuiltUpTo(entries, n, scan[n])}
  <1>10. 0 \in S
    <2>1. Batch(entries, 0, 0, 0, 0)
      BY DEF Batch
    <2>2. NoMessages.messages = <<>> /\ NoMessages.last = ""
      BY DEF NoMessages
    <2>3. Shaped(entries, <<>>, 0, 0, 0)
      BY DEF Shaped, FirstAnswered
    <2>4. BuiltUpTo(entries, 0, NoMessages)
      BY <1>1, <2>1, <2>2, <2>3 DEF BuiltUpTo
    <2> QED
      BY <1>3, <1>8, <2>4
  <1>11. ASSUME NEW n \in 0..(L - 1), n \in S PROVE n + 1 \in S
    <2>1. BuiltUpTo(entries, n + 1, AddRecord(scan[n], entries[n + 1].rec))
      BY <1>11, BuiltStep
    <2>2. n + 1 \in 0..L
      BY <1>3
    <2> QED
      BY <1>9, <2>1, <2>2
  <1>12. 0..L \subseteq S
    <2> HIDE DEF S, L
    <2> QED
      BY <1>3, <1>10, <1>11, UpTo
  <1>13. L \in 0..L
    BY <1>3
  <1> QED
    BY <1>7, <1>12, <1>13

\* recordsToMessages makes a log of any length, whose calls are answered in their
\* order before anything else is written, into messages a provider accepts: the
\* calls of a message are answered, in order, by the messages behind it.
THEOREM MessagesAnswerCalls ==
  ASSUME NEW entries \in Seq(Entry), PairableUpTo(entries, Len(entries)),
         OrderedUpTo(entries, Len(entries)), AnsweredBefore(entries, Len(entries) + 1)
  PROVE  CallsAnswered(RecordsToMessages(entries))
  <1>1. PICK built : /\ BuiltUpTo(entries, Len(entries), built)
                     /\ RecordsToMessages(entries) = built.messages
    BY BuiltFromRecords
  <1>2. FirstAnswered(built.messages, Len(built.messages)) /\ built.messages \in Seq(MessageType)
    <2>1. Len(entries) \in Nat
      OBVIOUS
    <2>2. FirstAnswered(built.messages, Len(built.messages))
      BY <1>1, <2>1, BuiltClosed
    <2>3. built.messages \in Seq(MessageType)
      BY <1>1 DEF BuiltUpTo, Built
    <2> QED
      BY <2>2, <2>3
  <1> DEFINE messages == built.messages
             p == Len(messages)
  <1>3. /\ p \in Nat /\ DOMAIN messages = 1..p
        /\ \A i \in 1..p : DOMAIN messages[i].calls = 1..Len(messages[i].calls)
    BY <1>2, MessageFacts
  <1> HIDE DEF messages
  <1>4. ASSUME NEW i \in 1..p, NEW k \in 1..Len(messages[i].calls)
        PROVE  i + k \in 1..p /\ messages[i + k].answers = messages[i].calls[k]
    <2>1. i + k <= p /\ messages[i + k].answers = messages[i].calls[k]
      BY <1>2 DEF FirstAnswered, messages
    <2>2. k \in Int /\ k >= 1
      OBVIOUS
    <2> QED
      BY <1>3, <2>1, <2>2
  <1>5. ASSUME NEW j \in 1..p, messages[j].role = "tool"
        PROVE  \E i \in 1..(j - 1) : j - i \in DOMAIN messages[i].calls
    <2>1. PICK i \in 1..(j - 1) : j - i \in 1..Len(messages[i].calls)
      BY <1>2, <1>5 DEF FirstAnswered, messages
    <2>2. i \in 1..p
      BY <1>3
    <2> QED
      BY <1>3, <2>1, <2>2
  <1>6. CallsAnswered(messages)
    BY <1>3, <1>4, <1>5 DEF CallsAnswered
  <1> QED
    BY <1>1, <1>6 DEF messages
=============================================================================
