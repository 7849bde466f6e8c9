------------------------- MODULE SessionStoreProofs -------------------------
(***************************************************************************)
(* What one durable session promises for every value of the constants, to  *)
(* the process that writes it and to one that only looks at it.            *)
(***************************************************************************)
EXTENDS SharedStore, SequenceTheorems, TLAPS

-----------------------------------------------------------------------------
(***************************************************************************)
(* Lemmas on the operators of the store.                                   *)
(***************************************************************************)

\* The lines of one append are entries numbered from the mark on.
LEMMA NumberedProperties ==
  ASSUME NEW mark \in Nat, NEW recs \in Seq(Record)
  PROVE  /\ Numbered(mark, recs) \in Seq(Entry)
         /\ Len(Numbered(mark, recs)) = Len(recs)
         /\ \A i \in 1..Len(recs) : Numbered(mark, recs)[i].seq = mark + i
  <1>1. Len(recs) \in Nat /\ \A i \in 1..Len(recs) : recs[i] \in Record
    BY LenProperties, ElementOfSeq
  <1> DEFINE e(i) == [seq |-> mark + i, rec |-> recs[i]]
  <1>2. \A i \in 1..Len(recs) : e(i) \in Entry
    BY <1>1 DEF Entry
  <1>3. [i \in 1..Len(recs) |-> e(i)] \in Seq(Entry)
    <2> HIDE DEF e
    <2> QED BY <1>1, <1>2, IsASeq
  <1>4. Numbered(mark, recs) = [i \in 1..Len(recs) |-> e(i)]
    BY DEF Numbered
  <1>5. Len([i \in 1..Len(recs) |-> e(i)]) = Len(recs)
    BY <1>1
  <1> QED
    BY <1>1, <1>3, <1>4, <1>5

\* Any part of the lines that a broken write leaves is a sequence of entries
\* numbered from the mark on, appended to what was there.
LEMMA FragmentAppended ==
  ASSUME NEW mark \in Nat, NEW recs \in Seq(Record), NEW log \in Seq(Entry),
         NEW k \in 0..Len(recs)
  PROVE  LET new == log \o SubSeq(Numbered(mark, recs), 1, k) IN
         /\ new \in Seq(Entry)
         /\ Len(new) = Len(log) + k
         /\ \A i \in 1..Len(log) : new[i] = log[i]
         /\ \A i \in Len(log)+1..Len(log)+k : new[i].seq = mark + i - Len(log)
  <1> DEFINE lines == Numbered(mark, recs)
             part == SubSeq(lines, 1, k)
  <1>1. /\ lines \in Seq(Entry)
        /\ Len(lines) = Len(recs) /\ Len(recs) \in Nat /\ Len(log) \in Nat
        /\ \A i \in 1..Len(recs) : lines[i].seq = mark + i
    BY NumberedProperties, LenProperties
  <1>2. \A i \in 1..k : lines[i] \in Entry
    BY <1>1, ElementOfSeq
  <1>3. /\ part \in Seq(Entry)
        /\ Len(part) = k
        /\ \A i \in 1..k : part[i] = lines[i]
    <2> HIDE DEF lines
    <2>1. /\ part \in Seq(Entry)
          /\ Len(part) = IF 1 <= k THEN k - 1 + 1 ELSE 0
          /\ \A i \in 1..k - 1 + 1 : part[i] = lines[1 + i - 1]
      BY <1>2, SubSeqProperties
    <2> QED BY <2>1
  <1>4. /\ log \o part \in Seq(Entry)
        /\ Len(log \o part) = Len(log) + k
        /\ \A i \in 1..Len(log) + k :
             (log \o part)[i] = IF i <= Len(log) THEN log[i] ELSE part[i - Len(log)]
    <2> HIDE DEF part
    <2> QED BY <1>3, ConcatProperties
  <1> HIDE DEF lines, part
  <1>5. ASSUME NEW i \in Len(log)+1..Len(log)+k
        PROVE  (log \o part)[i].seq = mark + i - Len(log)
    <2>1. i - Len(log) \in 1..k /\ i \in 1..Len(log) + k /\ ~ (i <= Len(log))
      BY <1>1
    <2>2. (log \o part)[i] = lines[i - Len(log)]
      BY <1>3, <1>4, <2>1
    <2> QED BY <1>1, <2>1, <2>2
  <1> QED
    BY <1>1, <1>4, <1>5 DEF lines, part

-----------------------------------------------------------------------------
(***************************************************************************)
(* Manifests: every operation turns a sound manifest into a sound one that *)
(* has only advanced.                                                      *)
(***************************************************************************)
Sound(m) == m \in Manifest /\ KeepsLimits(m) /\ ActiveHasBudget(m)

\* The manifest of a new session is sound.
LEMMA FreshIsSound == Sound(FreshManifest)
  BY EmptySeq, LenProperties
  DEF Sound, FreshManifest, Manifest, KeepsLimits, ActiveHasBudget, NoRun

\* A manifest that does not change has advanced.
LEMMA AdvancesReflexive ==
  ASSUME NEW m \in Manifest
  PROVE  Advances(m, m)
  <1>1. m.budgets \in Seq(Budget) /\ m.nextRun \in Nat
    BY DEF Manifest
  <1>2. Len(m.budgets) \in Nat /\ \A r \in DOMAIN m.budgets : m.budgets[r] \in Budget
    BY <1>1, LenProperties, ElementOfSeq
  <1>3. \A r \in DOMAIN m.budgets : NotReduced(m.budgets[r], m.budgets[r])
    BY <1>2 DEF NotReduced, Budget
  <1> QED
    BY <1>1, <1>2, <1>3 DEF Advances

\* Advancing twice is advancing.
LEMMA AdvancesTransitive ==
  ASSUME NEW a \in Manifest, NEW b \in Manifest, NEW c \in Manifest,
         Advances(a, b), Advances(b, c)
  PROVE  Advances(a, c)
  <1>1. /\ a.budgets \in Seq(Budget) /\ b.budgets \in Seq(Budget) /\ c.budgets \in Seq(Budget)
        /\ a.nextRun \in Nat /\ b.nextRun \in Nat /\ c.nextRun \in Nat
    BY DEF Manifest
  <1>2. /\ Len(a.budgets) <= Len(b.budgets) /\ Len(b.budgets) <= Len(c.budgets)
        /\ DOMAIN a.budgets = 1..Len(a.budgets) /\ Len(a.budgets) \in Nat
        /\ DOMAIN b.budgets = 1..Len(b.budgets) /\ Len(b.budgets) \in Nat
        /\ DOMAIN c.budgets = 1..Len(c.budgets) /\ Len(c.budgets) \in Nat
    BY <1>1, LenProperties DEF Advances
  <1>3. ASSUME NEW r \in DOMAIN a.budgets
        PROVE  NotReduced(a.budgets[r], c.budgets[r])
    <2>1. r \in DOMAIN b.budgets /\ r \in DOMAIN c.budgets
      BY <1>2
    <2>2. a.budgets[r] \in Budget /\ b.budgets[r] \in Budget /\ c.budgets[r] \in Budget
      BY <1>1, <1>2, <2>1, ElementOfSeq
    <2>3. NotReduced(a.budgets[r], b.budgets[r]) /\ NotReduced(b.budgets[r], c.budgets[r])
      BY <2>1 DEF Advances
    <2> QED BY <2>2, <2>3 DEF NotReduced, Budget
  <1> QED
    BY <1>1, <1>2, <1>3 DEF Advances

\* A manifest that differs in its marks, its command IDs, its active run or its
\* closing only, none of them going back.
LEMMA SameBudgetsSound ==
  ASSUME NEW m \in Manifest, Sound(m), NEW n \in Manifest,
         n.budgets = m.budgets, n.active \in {m.active, NoRun},
         m.seen \subseteq n.seen, n.nextRun = m.nextRun, m.closed => n.closed
  PROVE  Sound(n) /\ Advances(m, n)
  <1>1. Advances(m, m)
    BY AdvancesReflexive
  <1>2. Advances(m, n)
    BY <1>1 DEF Advances
  <1>3. Sound(n)
    BY DEF Sound, KeepsLimits, ActiveHasBudget
  <1> QED BY <1>2, <1>3

\* BeginRun (store.go:415) leaves a sound manifest: the new run is active and
\* has a budget.
LEMMA BeginRunSound ==
  ASSUME NEW m \in Manifest, Sound(m), NEW cmd \in CommandIDs, m.nextRun = Len(m.budgets)
  PROVE  LET n == [m EXCEPT !.seen = @ \cup {cmd}, !.nextRun = @ + 1,
                            !.budgets = Append(@, FreshBudget),
                            !.active = m.nextRun + 1]
         IN  Sound(n) /\ Advances(m, n) /\ n.nextRun = Len(n.budgets)
  <1> DEFINE n == [m EXCEPT !.seen = @ \cup {cmd}, !.nextRun = @ + 1,
                            !.budgets = Append(@, FreshBudget),
                            !.active = m.nextRun + 1]
  <1>1. FreshBudget \in Budget
    BY DEF FreshBudget, Budget
  <1>2. /\ m.budgets \in Seq(Budget) /\ Len(m.budgets) \in Nat
        /\ DOMAIN m.budgets = 1..Len(m.budgets)
        /\ m.nextRun \in Nat
    BY LenProperties DEF Manifest
  <1>3. /\ Append(m.budgets, FreshBudget) \in Seq(Budget)
        /\ Len(Append(m.budgets, FreshBudget)) = Len(m.budgets) + 1
        /\ DOMAIN Append(m.budgets, FreshBudget) = 1..Len(m.budgets) + 1
        /\ \A r \in 1..Len(m.budgets) : Append(m.budgets, FreshBudget)[r] = m.budgets[r]
        /\ Append(m.budgets, FreshBudget)[Len(m.budgets) + 1] = FreshBudget
    BY <1>1, <1>2
  <1>4. /\ n \in Manifest
        /\ n.seen = m.seen \cup {cmd} /\ n.nextRun = m.nextRun + 1
        /\ n.budgets = Append(m.budgets, FreshBudget)
        /\ n.active = m.nextRun + 1 /\ n.closed = m.closed
    <2>1. m.seen \cup {cmd} \in SUBSET CommandIDs /\ m.nextRun + 1 \in Nat
      BY <1>2 DEF Manifest
    <2> DEFINE bs == Append(m.budgets, FreshBudget)
    <2>2. bs \in Seq(Budget)
      BY <1>3
    <2> HIDE DEF bs
    <2>3. n = [m EXCEPT !.seen = m.seen \cup {cmd}, !.nextRun = m.nextRun + 1,
                        !.budgets = bs, !.active = m.nextRun + 1]
      BY DEF bs
    <2> HIDE DEF n
    <2>4. n \in Manifest
      BY <2>1, <2>2, <2>3 DEF Manifest
    <2>5. /\ n.seen = m.seen \cup {cmd} /\ n.nextRun = m.nextRun + 1
          /\ n.budgets = bs
          /\ n.active = m.nextRun + 1 /\ n.closed = m.closed
      BY <2>3 DEF Manifest
    <2> QED BY <2>4, <2>5 DEF bs
  <1> HIDE DEF n
  <1>5. KeepsLimits(n)
    BY <1>2, <1>3, <1>4, StoreAssumption DEF Sound, KeepsLimits, FreshBudget
  <1>6. ActiveHasBudget(n)
    BY <1>2, <1>3, <1>4 DEF ActiveHasBudget
  <1>7. Advances(m, n)
    <2>1. Advances(m, m)
      BY AdvancesReflexive
    <2> QED BY <1>2, <1>3, <1>4, <2>1 DEF Advances
  <1>8. n.nextRun = Len(n.budgets)
    BY <1>2, <1>3, <1>4
  <1> QED
    BY <1>4, <1>5, <1>6, <1>7, <1>8 DEF Sound, n

\* A reservation that is not refused (ReserveBudget, store.go:492) leaves the
\* counters within the limits.
LEMMA ReservedSound ==
  ASSUME NEW m \in Manifest, Sound(m), NEW run \in DOMAIN m.budgets,
         NEW counter \in Counters, NEW amount \in Nat,
         ~ Exhausted(m.budgets[run], counter, amount)
  PROVE  LET n == [m EXCEPT !.budgets[run] = Reserved(@, counter, amount)]
         IN  Sound(n) /\ Advances(m, n) /\ Len(n.budgets) = Len(m.budgets)
  <1> DEFINE b == m.budgets[run]
             c == Reserved(b, counter, amount)
             n == [m EXCEPT !.budgets[run] = c]
  <1>1. /\ m.budgets \in Seq(Budget) /\ Len(m.budgets) \in Nat
        /\ DOMAIN m.budgets = 1..Len(m.budgets)
        /\ \A r \in 1..Len(m.budgets) : m.budgets[r] \in Budget
    BY LenProperties, ElementOfSeq DEF Manifest
  <1>2. /\ b \in Budget
        /\ b.calls <= MaxLogicalModelCalls
        /\ b.attempts <= MaxTransportAttempts
        /\ b.delay <= MaxRetryDelay
    BY <1>1 DEF Sound, KeepsLimits
  <1>3. /\ c \in Budget
        /\ c.calls <= MaxLogicalModelCalls
        /\ c.attempts <= MaxTransportAttempts
        /\ c.delay <= MaxRetryDelay
        /\ NotReduced(b, c)
    <2>0. ~ Exhausted(b, counter, amount)
      OBVIOUS
    <2> HIDE DEF b
    <2>1. CASE counter = "logical_model_call"
      <3>1. c = [b EXCEPT !.calls = @ + 1] /\ ~ (b.calls >= MaxLogicalModelCalls)
        BY <2>0, <2>1 DEF Reserved, Exhausted
      <3> HIDE DEF c
      <3> QED BY <1>2, <3>1, StoreAssumption DEF Budget, NotReduced
    <2>2. CASE counter = "transport_attempt"
      <3>1. c = [b EXCEPT !.attempts = @ + 1] /\ ~ (b.attempts >= MaxTransportAttempts)
        BY <2>0, <2>2 DEF Reserved, Exhausted
      <3> HIDE DEF c
      <3> QED BY <1>2, <3>1, StoreAssumption DEF Budget, NotReduced
    <2>3. CASE counter = "retry_delay"
      <3>1. c = [b EXCEPT !.delay = @ + amount] /\ ~ (b.delay > MaxRetryDelay - amount)
        BY <2>0, <2>3 DEF Reserved, Exhausted
      <3> HIDE DEF c
      <3> QED BY <1>2, <3>1, StoreAssumption DEF Budget, NotReduced
    <2> HIDE DEF c
    <2> QED BY <2>1, <2>2, <2>3 DEF Counters
  <1> HIDE DEF b, c
  <1>4. /\ n.budgets = [m.budgets EXCEPT ![run] = c]
        /\ n.budgets \in Seq(Budget) /\ Len(n.budgets) = Len(m.budgets)
        /\ DOMAIN n.budgets = DOMAIN m.budgets
        /\ n.budgets[run] = c
        /\ \A r \in DOMAIN m.budgets : r # run => n.budgets[r] = m.budgets[r]
    <2>1. n.budgets = [m.budgets EXCEPT ![run] = c]
      BY DEF Manifest
    <2>2. /\ [m.budgets EXCEPT ![run] = c] \in Seq(Budget)
          /\ Len([m.budgets EXCEPT ![run] = c]) = Len(m.budgets)
      BY <1>1, <1>3, ExceptSeq
    <2> QED BY <1>1, <2>1, <2>2
  <1>5. /\ n \in Manifest /\ n.seen = m.seen /\ n.nextRun = m.nextRun
        /\ n.active = m.active /\ n.closed = m.closed
    BY <1>4 DEF Manifest
  <1> HIDE DEF n
  <1>6. KeepsLimits(n) /\ ActiveHasBudget(n)
    BY <1>3, <1>4, <1>5 DEF Sound, KeepsLimits, ActiveHasBudget
  <1>7. Advances(m, n)
    <2>1. Advances(m, m)
      BY AdvancesReflexive
    <2> QED BY <1>3, <1>4, <1>5, <2>1 DEF Advances, b
  <1> QED
    BY <1>4, <1>5, <1>6, <1>7 DEF Sound, n, c, b
-----------------------------------------------------------------------------
(***************************************************************************)
(* The inductive invariant.  TypeOK and BookkeepingLoads alone do not      *)
(* survive a step: an append numbers its lines from the handle's mark, so  *)
(* the mark must equal the log's length as long as no append failed, and   *)
(* the file can only advance because the handle's copy is never behind it. *)
(***************************************************************************)
Good(m) == Sound(m) /\ MarksBehind(m) /\ m.nextRun = Len(m.budgets)

InStep ==
  /\ ~ failed => /\ manifest.transcriptSeq = Len(transcriptLog)
                 /\ manifest.eventCursor = Len(eventLog)
  /\ Advances(manifestFile, manifest)

IInv ==
  /\ TypeOK
  /\ Contiguous
  /\ Good(manifestFile)
  /\ Good(manifest)
  /\ opened => InStep

\* What a step establishes: the invariant and the two action properties.
Preserved ==
  /\ IInv'
  /\ Grows(transcriptLog, transcriptLog') /\ Grows(eventLog, eventLog')
  /\ Advances(manifestFile, manifestFile')

\* A log that does not change has grown.
LEMMA GrowsReflexive == ASSUME NEW log, Len(log) \in Nat PROVE Grows(log, log)
  BY DEF Grows

\* The initial state of Create satisfies the invariant.
LEMMA InitIInv == Init => IInv
  <1> SUFFICES ASSUME Init PROVE IInv
    OBVIOUS
  <1>1. Sound(FreshManifest)
    BY FreshIsSound
  <1>2. FreshManifest \in Manifest /\ Advances(FreshManifest, FreshManifest)
    BY <1>1, AdvancesReflexive DEF Sound
  <1>3. Good(FreshManifest)
    BY <1>1 DEF Init, Good, MarksBehind, FreshManifest
  <1>4. TypeOK
    <2>1. <<>> \in Seq(Entry) /\ <<>> \in Seq(EventEntry)
      BY EmptySeq
    <2> QED BY <1>2, <2>1 DEF Init, TypeOK
  <1>5. Contiguous
    BY DEF Init, Contiguous
  <1>6. InStep
    BY <1>2 DEF Init, InStep, FreshManifest
  <1> QED
    BY <1>3, <1>4, <1>5, <1>6 DEF Init, IInv

\* A manifest write whose new contents are good keeps the invariant, whether
\* or not the file is replaced, when the logs have been dealt with.
LEMMA ReplaceKeeps ==
  ASSUME IInv, opened, opened',
         NEW n \in Manifest, NEW result \in ReplaceResults,
         ReplaceManifest(n, result),
         Sound(n), Advances(manifest, n), n.nextRun = Len(n.budgets),
         transcriptLog' \in Seq(Entry), eventLog' \in Seq(EventEntry),
         torn' \in BOOLEAN, failed' \in BOOLEAN, Contiguous',
         Grows(transcriptLog, transcriptLog'), Grows(eventLog, eventLog'),
         n.transcriptSeq <= Len(transcriptLog'), n.eventCursor <= Len(eventLog'),
         ~ failed' => /\ n.transcriptSeq = Len(transcriptLog')
                      /\ n.eventCursor = Len(eventLog')
  PROVE  Preserved
  <1>1. /\ Good(manifestFile) /\ Good(manifest) /\ manifestFile \in Manifest
        /\ manifest \in Manifest /\ Advances(manifestFile, manifest)
    BY DEF IInv, InStep, TypeOK
  <1>2. /\ manifestFile.transcriptSeq \in Nat /\ manifestFile.eventCursor \in Nat
        /\ Len(transcriptLog) \in Nat /\ Len(eventLog) \in Nat
        /\ Len(transcriptLog') \in Nat /\ Len(eventLog') \in Nat
    BY <1>1, LenProperties DEF IInv, TypeOK, Manifest
  <1>3. manifest' = n /\ (manifestFile' = manifestFile \/ manifestFile' = n)
    BY DEF ReplaceManifest
  <1>4. Advances(manifestFile, n)
    BY <1>1, AdvancesTransitive
  <1>5. Advances(manifestFile, manifestFile) /\ Advances(n, n)
    BY <1>1, AdvancesReflexive
  <1>6. Good(manifest)'
    BY <1>3 DEF Good, MarksBehind, Sound, KeepsLimits, ActiveHasBudget
  <1>7. Good(manifestFile)'
    <2>1. CASE manifestFile' = n
      BY <2>1 DEF Good, MarksBehind, Sound, KeepsLimits, ActiveHasBudget
    <2>2. CASE manifestFile' = manifestFile
      BY <1>1, <1>2, <2>2 DEF Good, MarksBehind, Sound, KeepsLimits, ActiveHasBudget, Grows
    <2> QED BY <1>3, <2>1, <2>2
  <1>8. InStep'
    BY <1>3, <1>4, <1>5 DEF InStep
  <1>9. TypeOK'
    BY <1>1, <1>3 DEF TypeOK
  <1> QED
    BY <1>3, <1>4, <1>5, <1>6, <1>7, <1>8, <1>9 DEF Preserved, IInv

\* An operation that replaces the manifest and touches no log.
LEMMA OnlyManifestKeeps ==
  ASSUME IInv, NEW n \in Manifest, NEW result, OnlyManifest(n, result),
         Sound(n), Advances(manifest, n), n.nextRun = Len(n.budgets),
         n.transcriptSeq = manifest.transcriptSeq, n.eventCursor = manifest.eventCursor
  PROVE  Preserved
  <1>1. /\ opened /\ opened' /\ result \in ReplaceResults /\ ReplaceManifest(n, result)
        /\ UNCHANGED <<transcriptLog, eventLog, torn, failed>>
    BY DEF OnlyManifest
  <1>2. /\ transcriptLog' \in Seq(Entry) /\ eventLog' \in Seq(EventEntry)
        /\ torn' \in BOOLEAN /\ failed' \in BOOLEAN
    BY <1>1 DEF IInv, TypeOK
  <1>3. Contiguous'
    BY <1>1 DEF IInv, Contiguous
  <1>4. Len(transcriptLog) \in Nat /\ Len(eventLog) \in Nat
    BY LenProperties DEF IInv, TypeOK
  <1>5. Grows(transcriptLog, transcriptLog') /\ Grows(eventLog, eventLog')
    BY <1>1, <1>4 DEF Grows
  <1>6. /\ n.transcriptSeq <= Len(transcriptLog') /\ n.eventCursor <= Len(eventLog')
        /\ ~ failed' => /\ n.transcriptSeq = Len(transcriptLog')
                        /\ n.eventCursor = Len(eventLog')
    BY <1>1 DEF IInv, InStep, Good, MarksBehind
  <1> QED
    BY <1>1, <1>2, <1>3, <1>5, <1>6, ReplaceKeeps

\* A broken write or the end of the process leaves the manifest file as it
\* was: the handle then makes no further append, or is gone.
LEMMA BreakKeeps ==
  ASSUME IInv, opened,
         transcriptLog' \in Seq(Entry), eventLog' \in Seq(EventEntry),
         torn' \in BOOLEAN, Contiguous',
         Grows(transcriptLog, transcriptLog'), Grows(eventLog, eventLog'),
         manifestFile' = manifestFile,
         \/ opened' = opened /\ failed' = TRUE /\ manifest' = manifest
         \/ opened' = FALSE /\ failed' = FALSE /\ manifest' = FreshManifest
  PROVE  Preserved
  <1>1. /\ Good(manifestFile) /\ Good(manifest) /\ manifestFile \in Manifest
        /\ manifest \in Manifest /\ Advances(manifestFile, manifest)
    BY DEF IInv, InStep, TypeOK
  <1>2. /\ Good(FreshManifest) /\ FreshManifest \in Manifest
    <2>1. Sound(FreshManifest)
      BY FreshIsSound
    <2>2. Len(transcriptLog) \in Nat /\ Len(eventLog) \in Nat
      BY LenProperties DEF IInv, TypeOK
    <2> QED BY <2>1, <2>2 DEF Good, Sound, MarksBehind, FreshManifest
  <1>3. \A m \in Manifest : Good(m) => /\ Sound(m) /\ m.nextRun = Len(m.budgets)
                                     /\ m.transcriptSeq <= Len(transcriptLog')
                                     /\ m.eventCursor <= Len(eventLog')
    <2>1. /\ Len(transcriptLog) \in Nat /\ Len(transcriptLog') \in Nat
          /\ Len(eventLog) \in Nat /\ Len(eventLog') \in Nat
      BY LenProperties DEF IInv, TypeOK
    <2> SUFFICES ASSUME NEW m \in Manifest, Good(m)
                 PROVE  /\ m.transcriptSeq <= Len(transcriptLog')
                        /\ m.eventCursor <= Len(eventLog')
      BY DEF Good
    <2>2. m.transcriptSeq \in Nat /\ m.eventCursor \in Nat
      BY DEF Manifest
    <2> QED BY <2>1, <2>2 DEF Good, MarksBehind, Grows
  <1>4. Good(manifestFile)'
    BY <1>1, <1>3 DEF Good, MarksBehind, Sound, KeepsLimits, ActiveHasBudget
  <1>5. (Good(FreshManifest))'
    BY <1>2, <1>3 DEF Good, MarksBehind, Sound, KeepsLimits, ActiveHasBudget
  <1>6. Good(manifest)'
    <2>1. CASE manifest' = manifest
      BY <1>1, <1>3, <2>1 DEF Good, MarksBehind, Sound, KeepsLimits, ActiveHasBudget
    <2>2. CASE manifest' = FreshManifest
      BY <1>5, <2>2 DEF Good, MarksBehind, Sound, KeepsLimits, ActiveHasBudget
    <2> QED BY <2>1, <2>2
  <1>7. TypeOK'
    BY <1>1, <1>2 DEF TypeOK
  <1>8. opened' => InStep'
    BY <1>1 DEF InStep
  <1>9. Advances(manifestFile, manifestFile')
    BY <1>1, AdvancesReflexive
  <1> QED
    BY <1>4, <1>6, <1>7, <1>8, <1>9 DEF Preserved, IInv

\* Writing the first k lines numbered from the end of a contiguous log leaves
\* it contiguous.
LEMMA AppendedContiguous ==
  ASSUME NEW log \in Seq(Entry), \A i \in DOMAIN log : log[i].seq = i,
         NEW recs \in Seq(Record), NEW k \in 0..Len(recs), NEW new,
         new = log \o SubSeq(Numbered(Len(log), recs), 1, k)
  PROVE  /\ new \in Seq(Entry) /\ Len(new) = Len(log) + k
         /\ Grows(log, new)
         /\ \A i \in DOMAIN new : new[i].seq = i
  <1>1. Len(log) \in Nat /\ Len(recs) \in Nat /\ DOMAIN log = 1..Len(log)
    BY LenProperties
  <1>2. /\ new \in Seq(Entry)
        /\ Len(new) = Len(log) + k
        /\ \A i \in 1..Len(log) : new[i] = log[i]
        /\ \A i \in Len(log)+1..Len(log)+k : new[i].seq = Len(log) + i - Len(log)
    <2>1. LET n == log \o SubSeq(Numbered(Len(log), recs), 1, k) IN
          /\ n \in Seq(Entry)
          /\ Len(n) = Len(log) + k
          /\ \A i \in 1..Len(log) : n[i] = log[i]
          /\ \A i \in Len(log)+1..Len(log)+k : n[i].seq = Len(log) + i - Len(log)
      BY <1>1, FragmentAppended
    <2> QED BY <2>1
  <1>3. DOMAIN new = 1..Len(log) + k
    BY <1>1, <1>2, LenProperties
  <1>4. ASSUME NEW i \in DOMAIN new PROVE new[i].seq = i
    <2>1. CASE i \in 1..Len(log)
      BY <1>1, <1>2, <2>1
    <2>2. CASE i \in Len(log)+1..Len(log)+k
      BY <1>1, <1>2, <2>2
    <2> QED BY <1>1, <1>3, <2>1, <2>2
  <1> QED
    BY <1>1, <1>2, <1>4 DEF Grows

\* The complete lines that an append leaves, all of them or some, keep the
\* transcript contiguous (AppendTranscript, store.go:371).
LEMMA BatchContiguous ==
  ASSUME NEW log \in Seq(Entry), \A i \in DOMAIN log : log[i].seq = i,
         NEW recs \in Seq(Record), NEW new,
         new = log \o Numbered(Len(log), recs)
  PROVE  /\ new \in Seq(Entry) /\ Len(new) = Len(log) + Len(recs)
         /\ Grows(log, new)
         /\ \A i \in DOMAIN new : new[i].seq = i
  <1>1. /\ Numbered(Len(log), recs) \in Seq(Entry)
        /\ Len(Numbered(Len(log), recs)) = Len(recs) /\ Len(recs) \in Nat
    BY NumberedProperties, LenProperties
  <1>2. SubSeq(Numbered(Len(log), recs), 1, Len(recs)) = Numbered(Len(log), recs)
    BY <1>1, SubSeqFull
  <1>3. Len(recs) \in 0..Len(recs)
    BY <1>1
  <1>4. new = log \o SubSeq(Numbered(Len(log), recs), 1, Len(recs))
    BY <1>2
  <1> QED BY <1>3, <1>4, AppendedContiguous

\* An event written at the cursor that follows the log leaves it contiguous.
LEMMA EventContiguous ==
  ASSUME NEW log \in Seq(EventEntry), \A i \in DOMAIN log : log[i].cursor = i,
         NEW ev \in Events, NEW new,
         new = Append(log, [cursor |-> Len(log) + 1, ev |-> ev])
  PROVE  /\ new \in Seq(EventEntry) /\ Len(new) = Len(log) + 1
         /\ Grows(log, new)
         /\ \A i \in DOMAIN new : new[i].cursor = i
  <1>1. Len(log) \in Nat /\ DOMAIN log = 1..Len(log)
    BY LenProperties
  <1> DEFINE e == [cursor |-> Len(log) + 1, ev |-> ev]
  <1>2. e \in EventEntry /\ e.cursor = Len(log) + 1
    BY <1>1 DEF EventEntry
  <1> HIDE DEF e
  <1>3. /\ new = Append(log, e) /\ new \in Seq(EventEntry) /\ Len(new) = Len(log) + 1
        /\ DOMAIN new = 1..Len(log) + 1
        /\ \A i \in 1..Len(log) : new[i] = log[i]
        /\ new[Len(log) + 1] = e
    <2>1. new = Append(log, e)
      BY DEF e
    <2> QED BY <1>1, <1>2, <2>1
  <1>4. \A i \in DOMAIN new : new[i].cursor = i
    BY <1>1, <1>2, <1>3
  <1> QED
    BY <1>1, <1>3, <1>4 DEF Grows
-----------------------------------------------------------------------------
(***************************************************************************)
(* One lemma per operation.                                                *)
(***************************************************************************)
\* What the invariant says of an open handle whose appends all succeeded.
LEMMA OpenFacts ==
  ASSUME IInv, opened
  PROVE  /\ manifest \in Manifest /\ Sound(manifest) /\ manifest.nextRun = Len(manifest.budgets)
         /\ Advances(manifestFile, manifest)
         /\ manifest.transcriptSeq \in Nat /\ manifest.eventCursor \in Nat
         /\ transcriptLog \in Seq(Entry) /\ eventLog \in Seq(EventEntry)
         /\ Len(transcriptLog) \in Nat /\ Len(eventLog) \in Nat
         /\ \A i \in DOMAIN transcriptLog : transcriptLog[i].seq = i
         /\ \A i \in DOMAIN eventLog : eventLog[i].cursor = i
         /\ torn \in BOOLEAN /\ failed \in BOOLEAN
         /\ ~ failed => /\ manifest.transcriptSeq = Len(transcriptLog)
                        /\ manifest.eventCursor = Len(eventLog)
  BY LenProperties DEF IInv, TypeOK, Good, InStep, Contiguous, Manifest

\* AppendTranscript (store.go:371), with every way it can end.
LEMMA AppendTranscriptKeeps ==
  ASSUME IInv, NEW recs \in Batches, NEW result, ~ failed, AppendTranscript(recs, result)
  PROVE  Preserved
  <1>1. opened /\ opened' /\ eventLog' = eventLog /\ recs \in Seq(Record)
    BY StoreAssumption DEF AppendTranscript
  <1>2. Len(recs) \in Nat /\ Len(recs) \in 0..Len(recs)
    BY <1>1, LenProperties
  <1>3. manifest.transcriptSeq = Len(transcriptLog) /\ manifest.eventCursor = Len(eventLog)
    BY <1>1, OpenFacts
  <1>4. Lines(recs) = Numbered(Len(transcriptLog), recs)
    BY <1>3 DEF Lines
  <1>5. Grows(eventLog, eventLog')
    BY <1>1, OpenFacts DEF Grows
  <1>6. CASE /\ result \in ReplaceResults
             /\ transcriptLog' = transcriptLog \o Lines(recs)
             /\ ReplaceManifest([manifest EXCEPT !.transcriptSeq = @ + Len(recs)], result)
             /\ UNCHANGED <<torn, failed>>
    <2> DEFINE n == [manifest EXCEPT !.transcriptSeq = manifest.transcriptSeq + Len(recs)]
    <2>1. n = [manifest EXCEPT !.transcriptSeq = manifest.transcriptSeq + Len(recs)]
      OBVIOUS
    <2> ReplaceManifest(n, result)
      BY <1>6
    <2> HIDE DEF n
    <2>2. /\ manifest \in Manifest /\ Sound(manifest)
          /\ manifest.nextRun = Len(manifest.budgets)
          /\ manifest.transcriptSeq + Len(recs) \in Nat /\ manifest.eventCursor \in Nat
      BY <1>1, <1>2, OpenFacts
    <2>3. /\ n \in Manifest /\ n.transcriptSeq = manifest.transcriptSeq + Len(recs)
          /\ n.eventCursor = manifest.eventCursor
          /\ Sound(n) /\ Advances(manifest, n) /\ n.nextRun = Len(n.budgets)
      <3>1. /\ n \in Manifest /\ n.transcriptSeq = manifest.transcriptSeq + Len(recs)
            /\ n.eventCursor = manifest.eventCursor
            /\ n.budgets = manifest.budgets /\ n.active = manifest.active
            /\ n.seen = manifest.seen /\ n.nextRun = manifest.nextRun
            /\ n.closed = manifest.closed
        BY <2>1, <2>2 DEF Manifest
      <3> QED BY <2>2, <3>1, SameBudgetsSound
    <2>4. /\ transcriptLog' \in Seq(Entry)
          /\ Len(transcriptLog') = Len(transcriptLog) + Len(recs)
          /\ Grows(transcriptLog, transcriptLog')
          /\ \A i \in DOMAIN transcriptLog' : transcriptLog'[i].seq = i
      <3>1. transcriptLog \in Seq(Entry) /\ \A i \in DOMAIN transcriptLog : transcriptLog[i].seq = i
        BY <1>1, OpenFacts
      <3>2. transcriptLog' = transcriptLog \o Numbered(Len(transcriptLog), recs)
        BY <1>4, <1>6
      <3> QED BY <1>1, <3>1, <3>2, BatchContiguous
    <2>5. Contiguous'
      BY <1>1, <2>4, OpenFacts DEF Contiguous
    <2>6. /\ n.transcriptSeq = Len(transcriptLog') /\ n.eventCursor = Len(eventLog')
          /\ n.transcriptSeq <= Len(transcriptLog') /\ n.eventCursor <= Len(eventLog')
      <3>1. Len(transcriptLog') \in Nat /\ Len(eventLog') \in Nat
        BY <1>1, <2>4, OpenFacts, LenProperties
      <3> QED BY <1>1, <1>3, <2>3, <2>4, <3>1
    <2>7. eventLog' \in Seq(EventEntry) /\ torn' \in BOOLEAN /\ failed' \in BOOLEAN
      BY <1>1, <1>6, OpenFacts
    <2> QED
      BY <1>1, <1>5, <1>6, <2>3, <2>4, <2>5, <2>6, <2>7, ReplaceKeeps
  <1>7. CASE /\ result = "not_logged"
             /\ \E f \in Fragments(recs) :
                  /\ transcriptLog' = transcriptLog \o SubSeq(Lines(recs), 1, f.kept)
                  /\ torn' = (torn \/ f.cut)
             /\ failed' = TRUE
             /\ UNCHANGED <<manifest, manifestFile>>
    <2>1. PICK f \in Fragments(recs) :
            /\ transcriptLog' = transcriptLog \o SubSeq(Lines(recs), 1, f.kept)
            /\ torn' = (torn \/ f.cut)
      BY <1>7
    <2>2. f.kept \in 0..Len(recs) /\ f.cut \in BOOLEAN
      BY DEF Fragments
    <2>3. /\ transcriptLog' \in Seq(Entry)
          /\ Grows(transcriptLog, transcriptLog')
          /\ \A i \in DOMAIN transcriptLog' : transcriptLog'[i].seq = i
      <3>1. transcriptLog \in Seq(Entry) /\ \A i \in DOMAIN transcriptLog : transcriptLog[i].seq = i
        BY <1>1, OpenFacts
      <3>2. transcriptLog' = transcriptLog \o SubSeq(Numbered(Len(transcriptLog), recs), 1, f.kept)
        BY <1>4, <2>1
      <3> QED BY <1>1, <2>2, <3>1, <3>2, AppendedContiguous
    <2>4. Contiguous' /\ eventLog' \in Seq(EventEntry)
      BY <1>1, <2>3, OpenFacts DEF Contiguous
    <2>5. torn' \in BOOLEAN
      BY <1>1, <2>1, <2>2, OpenFacts
    <2>6. opened' = opened /\ failed' = TRUE /\ manifest' = manifest /\ manifestFile' = manifestFile
      BY <1>7 DEF AppendTranscript
    <2> QED
      BY <1>1, <1>5, <2>3, <2>4, <2>5, <2>6, BreakKeeps
  <1> QED BY <1>6, <1>7 DEF AppendTranscript

\* AppendEvent (store.go:398), with every way it can end.
LEMMA AppendEventKeeps ==
  ASSUME IInv, NEW ev \in Events, NEW result, ~ failed,
         AppendEvent(manifest.eventCursor + 1, ev, result)
  PROVE  Preserved
  <1>1. opened /\ opened' /\ transcriptLog' = transcriptLog
    BY DEF AppendEvent
  <1>2. manifest.transcriptSeq = Len(transcriptLog) /\ manifest.eventCursor = Len(eventLog)
    BY <1>1, OpenFacts
  <1>3. Grows(transcriptLog, transcriptLog') /\ Grows(eventLog, eventLog)
    BY <1>1, OpenFacts DEF Grows
  <1> DEFINE entry == [cursor |-> Len(eventLog) + 1, ev |-> ev]
             longer == Append(eventLog, entry)
  <1>4. /\ longer \in Seq(EventEntry) /\ Len(longer) = Len(eventLog) + 1
        /\ Grows(eventLog, longer)
        /\ \A i \in DOMAIN longer : longer[i].cursor = i
    BY <1>1, OpenFacts, EventContiguous
  <1> HIDE DEF entry, longer
  <1>5. CASE /\ result \in ReplaceResults
             /\ eventLog' = longer
             /\ ReplaceManifest([manifest EXCEPT !.eventCursor = Len(eventLog) + 1], result)
             /\ UNCHANGED <<torn, failed>>
    <2> DEFINE n == [manifest EXCEPT !.eventCursor = Len(eventLog) + 1]
    <2>1. n = [manifest EXCEPT !.eventCursor = Len(eventLog) + 1]
      OBVIOUS
    <2> ReplaceManifest(n, result)
      BY <1>5
    <2> HIDE DEF n
    <2>2. /\ manifest \in Manifest /\ Sound(manifest)
          /\ manifest.nextRun = Len(manifest.budgets)
          /\ manifest.transcriptSeq \in Nat /\ Len(eventLog) + 1 \in Nat
      BY <1>1, OpenFacts
    <2>3. /\ n \in Manifest /\ n.transcriptSeq = manifest.transcriptSeq
          /\ n.eventCursor = Len(eventLog) + 1
          /\ Sound(n) /\ Advances(manifest, n) /\ n.nextRun = Len(n.budgets)
      <3>1. /\ n \in Manifest /\ n.transcriptSeq = manifest.transcriptSeq
            /\ n.eventCursor = Len(eventLog) + 1
            /\ n.budgets = manifest.budgets /\ n.active = manifest.active
            /\ n.seen = manifest.seen /\ n.nextRun = manifest.nextRun
            /\ n.closed = manifest.closed
        BY <2>1, <2>2 DEF Manifest
      <3> QED BY <2>2, <3>1, SameBudgetsSound
    <2>4. Contiguous'
      BY <1>1, <1>4, <1>5, OpenFacts DEF Contiguous
    <2>5. /\ n.transcriptSeq = Len(transcriptLog') /\ n.eventCursor = Len(eventLog')
          /\ n.transcriptSeq <= Len(transcriptLog') /\ n.eventCursor <= Len(eventLog')
      BY <1>1, <1>2, <1>4, <1>5, <2>2, <2>3, OpenFacts
    <2>6. /\ transcriptLog' \in Seq(Entry) /\ eventLog' \in Seq(EventEntry)
          /\ torn' \in BOOLEAN /\ failed' \in BOOLEAN /\ Grows(eventLog, eventLog')
      BY <1>1, <1>4, <1>5, OpenFacts
    <2> QED
      BY <1>1, <1>3, <1>5, <2>3, <2>4, <2>5, <2>6, ReplaceKeeps
  <1>6. CASE /\ result = "not_logged"
             /\ \/ torn' = TRUE /\ UNCHANGED eventLog
                \/ eventLog' = longer /\ UNCHANGED torn
                \/ UNCHANGED <<eventLog, torn>>
             /\ failed' = TRUE
             /\ UNCHANGED <<manifest, manifestFile, opened>>
    <2>1. /\ transcriptLog' \in Seq(Entry) /\ eventLog' \in Seq(EventEntry)
          /\ torn' \in BOOLEAN /\ Grows(eventLog, eventLog')
      BY <1>1, <1>3, <1>4, <1>6, OpenFacts
    <2>2. Contiguous'
      BY <1>1, <1>4, <1>6, OpenFacts DEF Contiguous
    <2> QED
      BY <1>1, <1>3, <1>6, <2>1, <2>2, BreakKeeps
  <1> QED
    BY <1>2, <1>5, <1>6 DEF AppendEvent, entry, longer

\* BeginRun and RecordCommand (store.go:415-449).
LEMMA CommandsKeep ==
  ASSUME IInv, NEW cmd \in CommandIDs, NEW result,
         BeginRun(cmd, result) \/ RecordCommand(cmd, result)
  PROVE  Preserved
  <1>1. opened
    BY DEF BeginRun, RecordCommand, OnlyManifest
  <1>2. manifest \in Manifest /\ Sound(manifest) /\ manifest.nextRun = Len(manifest.budgets)
    BY <1>1, OpenFacts
  <1>3. CASE BeginRun(cmd, result)
    <2> DEFINE n == [manifest EXCEPT !.seen = @ \cup {cmd}, !.nextRun = @ + 1,
                                     !.budgets = Append(@, FreshBudget),
                                     !.active = manifest.nextRun + 1]
    <2>1. OnlyManifest(n, result)
      BY <1>3 DEF BeginRun
    <2>2. Sound(n) /\ Advances(manifest, n) /\ n.nextRun = Len(n.budgets)
      BY <1>2, BeginRunSound
    <2>3. n \in Manifest /\ n.transcriptSeq = manifest.transcriptSeq /\ n.eventCursor = manifest.eventCursor
      BY <1>2, <2>2 DEF Sound, Manifest
    <2> HIDE DEF n
    <2> QED BY <2>1, <2>2, <2>3, OnlyManifestKeeps
  <1>4. CASE RecordCommand(cmd, result)
    <2> DEFINE n == [manifest EXCEPT !.seen = manifest.seen \cup {cmd}]
    <2>1. OnlyManifest(n, result)
      BY <1>4 DEF RecordCommand
    <2>2. /\ n \in Manifest /\ n.transcriptSeq = manifest.transcriptSeq
          /\ n.eventCursor = manifest.eventCursor
          /\ n.budgets = manifest.budgets /\ n.active = manifest.active
          /\ manifest.seen \subseteq n.seen /\ n.nextRun = manifest.nextRun
          /\ n.closed = manifest.closed
      BY <1>2 DEF Manifest
    <2> HIDE DEF n
    <2>3. Sound(n) /\ Advances(manifest, n)
      BY <1>2, <2>2, SameBudgetsSound
    <2> QED BY <1>2, <2>1, <2>2, <2>3, OnlyManifestKeeps
  <1> QED BY <1>3, <1>4

\* FinishRun and Close (store.go:451-481).
LEMMA EndsKeep ==
  ASSUME IInv, NEW result, FinishRun(manifest.active, result) \/ CloseStore(result)
  PROVE  Preserved
  <1>1. opened
    BY DEF FinishRun, CloseStore, OnlyManifest
  <1>2. manifest \in Manifest /\ Sound(manifest) /\ manifest.nextRun = Len(manifest.budgets)
    BY <1>1, OpenFacts
  <1>3. ASSUME NEW n, n = [manifest EXCEPT !.active = NoRun] \/ n = [manifest EXCEPT !.closed = TRUE],
               OnlyManifest(n, result)
        PROVE  Preserved
    <2>1. /\ n \in Manifest /\ n.transcriptSeq = manifest.transcriptSeq
          /\ n.eventCursor = manifest.eventCursor
          /\ n.budgets = manifest.budgets /\ n.active \in {manifest.active, NoRun}
          /\ n.seen = manifest.seen /\ n.nextRun = manifest.nextRun
          /\ manifest.closed => n.closed
      <3>1. CASE n = [manifest EXCEPT !.active = NoRun]
        BY <1>2, <3>1 DEF Manifest, NoRun
      <3>2. CASE n = [manifest EXCEPT !.closed = TRUE]
        BY <1>2, <3>2 DEF Manifest
      <3> QED BY <1>3, <3>1, <3>2
    <2>2. Sound(n) /\ Advances(manifest, n)
      BY <1>2, <2>1, SameBudgetsSound
    <2> QED BY <1>2, <1>3, <2>1, <2>2, OnlyManifestKeeps
  <1>4. CASE FinishRun(manifest.active, result)
    BY <1>3, <1>4 DEF FinishRun
  <1>5. CASE CloseStore(result)
    BY <1>3, <1>5 DEF CloseStore
  <1> QED BY <1>4, <1>5

\* ReserveBudget (store.go:492).
LEMMA ReserveBudgetKeeps ==
  ASSUME IInv, NEW run \in DOMAIN manifest.budgets, NEW counter \in Counters,
         NEW amount \in Delays, NEW result,
         ReserveBudget(run, counter, amount, result)
  PROVE  Preserved
  <1>1. opened /\ ~ Exhausted(manifest.budgets[run], counter, amount) /\ amount \in Nat
    BY StoreAssumption DEF ReserveBudget, OnlyManifest
  <1>2. manifest \in Manifest /\ Sound(manifest) /\ manifest.nextRun = Len(manifest.budgets)
    BY <1>1, OpenFacts
  <1> DEFINE n == [manifest EXCEPT !.budgets[run] = Reserved(@, counter, amount)]
  <1>3. OnlyManifest(n, result)
    BY DEF ReserveBudget
  <1>4. Sound(n) /\ Advances(manifest, n) /\ Len(n.budgets) = Len(manifest.budgets)
    BY <1>1, <1>2, ReservedSound
  <1>5. /\ n \in Manifest /\ n.transcriptSeq = manifest.transcriptSeq
        /\ n.eventCursor = manifest.eventCursor /\ n.nextRun = manifest.nextRun
    BY <1>2, <1>4 DEF Sound, Manifest
  <1> HIDE DEF n
  <1> QED BY <1>2, <1>3, <1>4, <1>5, OnlyManifestKeeps

\* The death of the process between two operations or in an append.
LEMMA ProcessDiesKeeps ==
  ASSUME IInv, ProcessDies
  PROVE  Preserved
  <1>1. opened
    BY DEF ProcessDies, Crash, CrashAppending, CrashAppendingEvent
  <1>2. /\ Grows(transcriptLog, transcriptLog) /\ Grows(eventLog, eventLog)
    BY <1>1, OpenFacts, GrowsReflexive
  <1>3. CASE Crash
    <2>1. /\ transcriptLog' = transcriptLog /\ eventLog' = eventLog /\ torn' = torn
          /\ manifestFile' = manifestFile
          /\ opened' = FALSE /\ failed' = FALSE /\ manifest' = FreshManifest
      BY <1>3 DEF Crash, disk
    <2>2. Contiguous'
      BY <2>1 DEF IInv, Contiguous
    <2> QED BY <1>1, <1>2, <2>1, <2>2, OpenFacts, BreakKeeps
  <1>4. ASSUME NEW recs \in Batches, ~ failed, CrashAppending(recs)
        PROVE  Preserved
    <2>1. PICK f \in Fragments(recs) :
            /\ transcriptLog' = transcriptLog \o SubSeq(Lines(recs), 1, f.kept)
            /\ torn' = (torn \/ f.cut)
      BY <1>4 DEF CrashAppending
    <2>2. f.kept \in 0..Len(recs) /\ f.cut \in BOOLEAN /\ recs \in Seq(Record)
      BY StoreAssumption DEF Fragments
    <2>3. transcriptLog \in Seq(Entry) /\ \A i \in DOMAIN transcriptLog : transcriptLog[i].seq = i
      BY <1>1, OpenFacts
    <2>4. transcriptLog' = transcriptLog \o SubSeq(Numbered(Len(transcriptLog), recs), 1, f.kept)
      BY <1>1, <1>4, <2>1, OpenFacts DEF Lines
    <2>5. /\ transcriptLog' \in Seq(Entry)
          /\ Grows(transcriptLog, transcriptLog')
          /\ \A i \in DOMAIN transcriptLog' : transcriptLog'[i].seq = i
      BY <2>2, <2>3, <2>4, AppendedContiguous
    <2>6. /\ eventLog' = eventLog /\ manifestFile' = manifestFile
          /\ opened' = FALSE /\ failed' = FALSE /\ manifest' = FreshManifest
      BY <1>4 DEF CrashAppending
    <2>7. Contiguous' /\ eventLog' \in Seq(EventEntry) /\ torn' \in BOOLEAN
      BY <1>1, <2>1, <2>2, <2>5, <2>6, OpenFacts DEF Contiguous
    <2> QED BY <1>1, <1>2, <2>5, <2>6, <2>7, BreakKeeps
  <1>5. ASSUME NEW ev \in Events, ~ failed, CrashAppendingEvent(manifest.eventCursor + 1, ev)
        PROVE  Preserved
    <2> DEFINE longer == Append(eventLog, [cursor |-> Len(eventLog) + 1, ev |-> ev])
    <2>1. /\ longer \in Seq(EventEntry) /\ Grows(eventLog, longer)
          /\ \A i \in DOMAIN longer : longer[i].cursor = i
      BY <1>1, OpenFacts, EventContiguous
    <2>2. /\ \/ torn' = TRUE /\ UNCHANGED eventLog
             \/ eventLog' = longer /\ UNCHANGED torn
          /\ transcriptLog' = transcriptLog /\ manifestFile' = manifestFile
          /\ opened' = FALSE /\ failed' = FALSE /\ manifest' = FreshManifest
      BY <1>1, <1>5, OpenFacts DEF CrashAppendingEvent
    <2> HIDE DEF longer
    <2>3. /\ transcriptLog' \in Seq(Entry) /\ eventLog' \in Seq(EventEntry)
          /\ torn' \in BOOLEAN /\ Grows(eventLog, eventLog')
      BY <1>1, <1>2, <2>1, <2>2, OpenFacts
    <2>4. Contiguous'
      BY <1>1, <2>1, <2>2, OpenFacts DEF Contiguous
    <2> QED BY <1>1, <1>2, <2>2, <2>3, <2>4, BreakKeeps
  <1> QED BY <1>3, <1>4, <1>5 DEF ProcessDies

\* Open (store.go:212) repairs the marks of the handle and writes nothing.
LEMMA OpenKeeps ==
  ASSUME IInv, Open
  PROVE  Preserved
  <1>1. /\ transcriptLog \in Seq(Entry) /\ eventLog \in Seq(EventEntry)
        /\ Len(transcriptLog) \in Nat /\ Len(eventLog) \in Nat
        /\ manifestFile \in Manifest /\ Good(manifestFile)
    BY LenProperties DEF IInv, TypeOK
  <1> DEFINE n == [manifestFile EXCEPT !.transcriptSeq = Len(transcriptLog),
                                       !.eventCursor = Len(eventLog)]
  <1>2. /\ manifest' = n /\ opened' = TRUE
        /\ transcriptLog' = transcriptLog /\ eventLog' = eventLog /\ torn' = torn
        /\ manifestFile' = manifestFile /\ failed' = failed
    BY DEF Open, disk
  <1>3. /\ n \in Manifest /\ n.transcriptSeq = Len(transcriptLog)
        /\ n.eventCursor = Len(eventLog)
        /\ n.budgets = manifestFile.budgets /\ n.active = manifestFile.active
        /\ n.seen = manifestFile.seen /\ n.nextRun = manifestFile.nextRun
        /\ n.closed = manifestFile.closed
    BY <1>1 DEF Manifest
  <1> HIDE DEF n
  <1>4. Sound(n) /\ Advances(manifestFile, n)
    BY <1>1, <1>3, SameBudgetsSound DEF Good
  <1>5. Good(manifest)'
    BY <1>1, <1>2, <1>3, <1>4 DEF Good, MarksBehind, Sound, KeepsLimits, ActiveHasBudget
  <1>6. Good(manifestFile)'
    BY <1>1, <1>2 DEF Good, MarksBehind, Sound, KeepsLimits, ActiveHasBudget
  <1>7. InStep'
    BY <1>2, <1>3, <1>4 DEF InStep
  <1>8. TypeOK' /\ Contiguous'
    BY <1>2, <1>3 DEF IInv, TypeOK, Contiguous
  <1>9. Grows(transcriptLog, transcriptLog') /\ Grows(eventLog, eventLog')
    BY <1>1, <1>2 DEF Grows
  <1>10. Advances(manifestFile, manifestFile')
    BY <1>1, <1>2, AdvancesReflexive
  <1> QED
    BY <1>5, <1>6, <1>7, <1>8, <1>9, <1>10 DEF Preserved, IInv

\* A step that changes nothing.
LEMMA StutterKeeps ==
  ASSUME IInv, UNCHANGED storeVars
  PROVE  IInv'
  BY DEF IInv, storeVars, TypeOK, Contiguous, Good, Sound, KeepsLimits, ActiveHasBudget,
         MarksBehind, InStep

\* The invariant is inductive, and every step grows the logs and advances the
\* manifest.
LEMMA NextPreserves == IInv /\ Next => Preserved
  <1> SUFFICES ASSUME IInv, Next PROVE Preserved
    OBVIOUS
  <1>1. CASE ClientAppends
    BY <1>1, AppendTranscriptKeeps DEF ClientAppends
  <1>2. CASE ClientEmits
    BY <1>2, AppendEventKeeps DEF ClientEmits
  <1>3. CASE ClientCommands
    BY <1>3, CommandsKeep DEF ClientCommands
  <1>4. CASE ClientReserves
    BY <1>4, ReserveBudgetKeeps DEF ClientReserves
  <1>5. CASE ClientEnds
    BY <1>5, EndsKeep DEF ClientEnds
  <1>6. CASE ProcessDies
    BY <1>6, ProcessDiesKeeps
  <1>7. CASE Open
    BY <1>7, OpenKeeps
  <1> QED
    BY <1>1, <1>2, <1>3, <1>4, <1>5, <1>6, <1>7 DEF Next
-----------------------------------------------------------------------------
(***************************************************************************)
(* The theorems.                                                           *)
(***************************************************************************)
\* The invariant holds in every state the store reaches.
THEOREM StoreInvariant == Spec => []IInv
  <1>1. Init => IInv
    BY InitIInv
  <1>2. IInv /\ [Next]_storeVars => IInv'
    BY NextPreserves, StutterKeeps DEF Preserved
  <1> QED
    BY <1>1, <1>2, PTL DEF Spec

\* The manifest and the logs stay well typed: budgets are a sequence with one
\* entry per run, whatever failed (Manifest, store.go:103).
THEOREM StoreTypeOK == Spec => []TypeOK
  <1>1. IInv => TypeOK
    BY DEF IInv
  <1> QED
    BY <1>1, StoreInvariant, PTL

\* Whatever write failed and wherever the process died, the bookkeeping that
\* Open checks (store.go:212-292) is intact.
THEOREM StoreReopens == Spec => []BookkeepingLoads
  <1>1. IInv => BookkeepingLoads
    BY DEF IInv, BookkeepingLoads, Good, Sound
  <1> QED
    BY <1>1, StoreInvariant, PTL

\* ReserveBudget (store.go:492) never lets a run past its limits, for any
\* limits, any delays and any number of restarts.
THEOREM StoreWithinLimits == Spec => []WithinLimits
  <1>1. IInv => WithinLimits
    BY DEF IInv, WithinLimits, Good, Sound
  <1> QED
    BY <1>1, StoreInvariant, PTL

\* No step changes or removes a log entry (AppendTranscript, AppendEvent, Open).
THEOREM StoreLogsOnlyGrow == Spec => LogsOnlyGrow
  <1>1. IInv /\ [Next]_storeVars
          => [Grows(transcriptLog, transcriptLog') /\ Grows(eventLog, eventLog')]_storeVars
    BY NextPreserves DEF Preserved
  <1> QED
    BY <1>1, StoreInvariant, PTL DEF Spec, LogsOnlyGrow

\* The manifest file never forgets a command ID, a run, a charge or the closing
\* (writeManifestLocked, store.go:525, and its callers).
THEOREM StoreManifestAdvances == Spec => ManifestOnlyAdvances
  <1>1. IInv /\ [Next]_storeVars => [Advances(manifestFile, manifestFile')]_storeVars
    BY NextPreserves DEF Preserved
  <1> QED
    BY <1>1, StoreInvariant, PTL DEF Spec, ManifestOnlyAdvances
-----------------------------------------------------------------------------
(***************************************************************************)
(* A look at a session is consistent at whatever moments its three reads   *)
(* happen: logs only grow, and the manifest, which is never ahead of them, *)
(* is read first.                                                          *)
(***************************************************************************)
Looked == [transcriptSeq : Nat, eventCursor : Nat, records : Nat, events : Nat]

\* The reads that may be left.
AfterManifest == <<"transcript", "events">>
AfterTranscript == <<"events">>

\* What was read of the manifest is behind the logs as they are now, and behind
\* what was read of them since.
LookInv ==
  /\ left \in {OpenReads, AfterManifest, AfterTranscript, <<>>}
  /\ looked \in Looked
  /\ looked.transcriptSeq <= Len(transcriptLog)
  /\ looked.eventCursor <= Len(eventLog)
  /\ left \in {AfterTranscript, <<>>} => looked.transcriptSeq <= looked.records
  /\ left = <<>> => looked.eventCursor <= looked.events

LEMMA NothingRead ==
  /\ Nothing \in Looked
  /\ Nothing.transcriptSeq = 0 /\ Nothing.eventCursor = 0
  /\ Nothing.records = 0 /\ Nothing.events = 0
  BY DEF Nothing, Looked

\* The order of the reads, one after the other.
LEMMA ReadsInOrder ==
  /\ Head(OpenReads) = "manifest" /\ Tail(OpenReads) = AfterManifest
  /\ Head(AfterManifest) = "transcript" /\ Tail(AfterManifest) = AfterTranscript
  /\ Head(AfterTranscript) = "events" /\ Tail(AfterTranscript) = <<>>
  BY DEF OpenReads, AfterManifest, AfterTranscript

LEMMA ReadsDiffer ==
  /\ OpenReads # AfterManifest /\ OpenReads # AfterTranscript /\ OpenReads # <<>>
  /\ AfterManifest # AfterTranscript /\ AfterManifest # <<>>
  /\ AfterTranscript # <<>>
  BY DEF OpenReads, AfterManifest, AfterTranscript

LEMMA LogsHaveLengths == IInv => Len(transcriptLog) \in Nat /\ Len(eventLog) \in Nat
  BY DEF IInv, TypeOK

\* Whatever the owner of the session does: the logs grow behind the look.
LEMMA OwnerKeepsLook ==
  ASSUME IInv, LookInv, Preserved, UNCHANGED lookVars
  PROVE  LookInv'
  <1>1. /\ Len(transcriptLog') >= Len(transcriptLog)
        /\ Len(eventLog') >= Len(eventLog)
    BY DEF Preserved, Grows
  <1>2. /\ Len(transcriptLog) \in Nat /\ Len(eventLog) \in Nat
        /\ Len(transcriptLog') \in Nat /\ Len(eventLog') \in Nat
    BY LogsHaveLengths DEF Preserved, IInv, TypeOK
  <1>3. left' = left /\ looked' = looked
    BY DEF lookVars
  <1>4. looked.transcriptSeq \in Nat /\ looked.eventCursor \in Nat
    BY DEF LookInv, Looked
  <1> QED
    BY <1>1, <1>2, <1>3, <1>4 DEF LookInv

\* A look that begins, or that is given up, has read nothing.
LEMMA EmptyLook ==
  ASSUME IInv, UNCHANGED storeVars, looked' = Nothing, left' \in {OpenReads, <<>>}
  PROVE  LookInv'
  <1>1. transcriptLog' = transcriptLog /\ eventLog' = eventLog
    BY DEF storeVars
  <1> QED
    BY <1>1, LogsHaveLengths, NothingRead, ReadsDiffer DEF LookInv

LEMMA LookKeeps ==
  ASSUME IInv, LookInv, Look
  PROVE  LookInv'
  <1>1. transcriptLog' = transcriptLog /\ eventLog' = eventLog
    BY DEF Look, storeVars
  <1>2. Len(transcriptLog) \in Nat /\ Len(eventLog) \in Nat
    BY LogsHaveLengths
  <1>3. left \in {OpenReads, AfterManifest, AfterTranscript}
    BY DEF Look, LookInv
  <1>4. CASE left = OpenReads
    <2>1. /\ left' = AfterManifest
          /\ looked' = [looked EXCEPT !.transcriptSeq = manifestFile.transcriptSeq,
                                      !.eventCursor = manifestFile.eventCursor]
      BY <1>4, ReadsInOrder DEF Look, Read
    <2>2. /\ manifestFile.transcriptSeq \in Nat /\ manifestFile.eventCursor \in Nat
          /\ manifestFile.transcriptSeq <= Len(transcriptLog)
          /\ manifestFile.eventCursor <= Len(eventLog)
      BY DEF IInv, TypeOK, Good, MarksBehind, Manifest
    <2> QED
      BY <1>1, <1>2, <2>1, <2>2, ReadsDiffer DEF LookInv, Looked
  <1>5. CASE left = AfterManifest
    <2>1. left' = AfterTranscript /\ looked' = [looked EXCEPT !.records = Len(transcriptLog)]
      BY <1>5, ReadsInOrder DEF Look, Read
    <2> QED
      BY <1>1, <1>2, <2>1, ReadsDiffer DEF LookInv, Looked
  <1>6. CASE left = AfterTranscript
    <2>1. left' = <<>> /\ looked' = [looked EXCEPT !.events = Len(eventLog)]
      BY <1>6, ReadsInOrder DEF Look, Read
    <2> QED
      BY <1>1, <1>2, <1>6, <2>1 DEF LookInv, Looked
  <1> QED
    BY <1>3, <1>4, <1>5, <1>6

LEMMA SharedInitInv == SharedInit => IInv /\ LookInv
  <1> SUFFICES ASSUME SharedInit PROVE IInv /\ LookInv
    OBVIOUS
  <1>1. IInv
    BY InitIInv DEF SharedInit
  <1> QED
    BY <1>1, LogsHaveLengths, NothingRead DEF SharedInit, LookInit, LookInv

LEMMA SharedNextInv ==
  ASSUME IInv, LookInv, [SharedNext]_<<storeVars, lookVars>>
  PROVE  IInv' /\ LookInv'
  <1>1. CASE Next /\ UNCHANGED lookVars
    BY <1>1, NextPreserves, OwnerKeepsLook DEF Preserved
  <1>2. CASE StartLook
    <2>1. UNCHANGED storeVars /\ looked' = Nothing /\ left' = OpenReads
      BY <1>2 DEF StartLook
    <2> QED
      BY <2>1, StutterKeeps, EmptyLook
  <1>3. CASE Look
    <2>1. UNCHANGED storeVars
      BY <1>3 DEF Look
    <2> QED
      BY <1>3, <2>1, StutterKeeps, LookKeeps
  <1>4. CASE LookFails
    <2>1. UNCHANGED storeVars /\ looked' = Nothing /\ left' = <<>>
      BY <1>4 DEF LookFails
    <2> QED
      BY <2>1, StutterKeeps, EmptyLook
  <1>5. CASE UNCHANGED <<storeVars, lookVars>>
    BY <1>5, StutterKeeps DEF LookInv, lookVars, storeVars
  <1> QED
    BY <1>1, <1>2, <1>3, <1>4, <1>5 DEF SharedNext

\* A second process changes nothing for the store: its invariant holds, and that
\* of the look with it (Open store.go:212, List store.go:322).
THEOREM SharedInvariant == SharedSpec => [](IInv /\ LookInv)
  <1>1. SharedInit => IInv /\ LookInv
    BY SharedInitInv
  <1>2. IInv /\ LookInv /\ [SharedNext]_<<storeVars, lookVars>> => (IInv /\ LookInv)'
    BY SharedNextInv
  <1> QED
    BY <1>1, <1>2, PTL DEF SharedSpec

\* Whoever looks finds no mark ahead of its log, whatever the owner of the
\* session does between the three reads (Open store.go:237, 268 and 275).
THEOREM LooksAreConsistent == SharedSpec => []LookIsConsistent
  <1>1. LookInv => LookIsConsistent
    BY DEF LookInv, LookIsConsistent
  <1> QED
    BY <1>1, SharedInvariant, PTL
=============================================================================
