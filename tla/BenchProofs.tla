---------------------------- MODULE BenchProofs ----------------------------
(***************************************************************************)
(* The guarantees of Bench for any number of processes, rounds and tasks,  *)
(* any thresholds and any executions, from BenchAssumption.                *)
(***************************************************************************)
EXTENDS Bench, TLAPS

Outcomes == {"pass", "task_fail", "safety_fail", "runtime_fail", "infrastructure_fail", "running"}
RetainedExecution == [outcome : Outcomes, evidence : BOOLEAN]
Slot == [config : Configs \cup {{}}, executions : Seq(RetainedExecution), result : BOOLEAN]
Suite == [config : Configs \cup {{}}, rounds : Seq([started : Nat, finished : Nat])]
PCs == {"idle", "prepare", "create", "slot", "launch", "execute", "result", "finish", "retain"}
Runner ==
  [pc : PCs, round : 1..Rounds, config : Configs \cup {{}}, started : Nat, finished : Nat,
   suite : Suite, task : 1..Tasks]

BenchTypeOK ==
  /\ suite \in Suite
  /\ slots \in [DOMAIN slots -> Slot] /\ DOMAIN slots \subseteq Slots
  /\ runner \in [Runners -> Runner]
  /\ clock \in Nat
  /\ launched \in [Slots -> Nat]
  /\ unsafe \in BOOLEAN
-----------------------------------------------------------------------------
(***************************************************************************)
(* The inductive invariant.  Its parts are about a value of slots, sl, and *)
(* the state of one process, st.                                           *)
(***************************************************************************)
Complete(sl, s, config) == s \in DOMAIN sl /\ sl[s].result /\ sl[s].config = config

Whole(sl, su) ==
  /\ Len(su.rounds) <= Rounds
  /\ \A s \in Slots : s[1] <= Len(su.rounds) => Complete(sl, s, su.config)

\* A slot was started once, and once more behind an infrastructure failure.
SlotOK(slot, n) ==
  /\ Len(slot.executions) \in 0..2
  /\ slot.result => Len(slot.executions) # 0
  /\ Len(slot.executions) = 2 => slot.executions[1].outcome = "infrastructure_fail"
  /\ n = Len(slot.executions)
  /\ \A i \in DOMAIN slot.executions :
       slot.executions[i].evidence => slot.executions[i].outcome # "running"

SlotsOK ==
  /\ \A s \in DOMAIN slots : SlotOK(slots[s], launched[s])
  /\ \A s \in Slots \ DOMAIN slots : launched[s] = 0

Place(st) == <<st.round, st.task>>
AtSlot(st) == st.pc \in {"launch", "execute", "result"}
Finished(st) == st.pc \in {"finish", "retain"}
HasSuite(st) == st.pc = "slot" \/ AtSlot(st) \/ Finished(st)

\* The process that created the first slot of its round.
Owner(st) == AtSlot(st) \/ Finished(st) \/ (st.pc = "slot" /\ st.task > 1)

Fits(sl, st) ==
  /\ st.pc \in {"idle", "prepare", "create"} => st.task = 1
  /\ st.pc = "create" => st.round = 1
  /\ HasSuite(st) => /\ st.suite.config = st.config
                     /\ Len(st.suite.rounds) = st.round - 1
                     /\ Whole(sl, st.suite)
  /\ Owner(st) => /\ <<st.round, 1>> \in DOMAIN sl
                  /\ \A t \in 1..Tasks : (t < st.task \/ Finished(st)) =>
                       Complete(sl, <<st.round, t>>, st.config)
  /\ AtSlot(st) => /\ Place(st) \in DOMAIN sl /\ ~ sl[Place(st)].result
                   /\ sl[Place(st)].config = st.config
  /\ st.pc = "launch" => \/ Len(sl[Place(st)].executions) = 0
                         \/ Replaces(sl[Place(st)].executions)
  /\ st.pc \in {"execute", "result"} => Len(sl[Place(st)].executions) \in 1..2
  /\ st.pc = "execute" => LastOf(sl[Place(st)].executions) = Running

RunnersFit == \A r \in Runners : Fits(slots, runner[r])

NoneShares ==
  \A q, r \in Runners :
    Owner(runner[q]) /\ Owner(runner[r]) /\ q # r => runner[q].round # runner[r].round

\* What a frontend did is in its slot, or its slot never gets a result.
Tainted(sl, ru, s) ==
  \/ \E i \in DOMAIN sl[s].executions : sl[s].executions[i].outcome = "safety_fail"
  \/ ~ sl[s].result /\ \A r \in Runners : AtSlot(ru[r]) => Place(ru[r]) # s

UnsafeIsSeen == unsafe => \E s \in DOMAIN slots : Tainted(slots, runner, s)

Core == BenchTypeOK /\ SlotsOK /\ RunnersFit /\ NoneShares /\ Whole(slots, suite) /\ UnsafeIsSeen

AllDone == \A s \in Slots : s \in DOMAIN slots /\ slots[s].result
Attempts == reporter \subseteq DOMAIN slots /\ \A s \in reporter : slots[s].result

IInv == Core /\ Attempts /\ (report = "pass" => AllDone) /\ ReportIsHonest

\* What every step keeps of the slots.
Kept(old, new) ==
  \A s \in DOMAIN old :
    /\ s \in DOMAIN new /\ old[s].config = new[s].config
    /\ \A i \in DOMAIN old[s].executions :
         old[s].executions[i] # Running => new[s].executions[i] = old[s].executions[i]
    /\ old[s].result => new[s] = old[s]

\* What every step of a process comes to.
Good ==
  /\ Core' /\ Kept(slots, slots')
  /\ AllDone => UNCHANGED <<slots, launched, unsafe>>
-----------------------------------------------------------------------------
LEMMA Parameters == Rounds \in Nat \ {0} /\ Tasks \in Nat \ {0} /\ Observed \subseteq Observations
  BY BenchAssumption DEF BenchAssumption

LEMMA AppendIsLonger ==
  ASSUME NEW S, NEW q \in Seq(S), NEW e \in S
  PROVE  /\ Append(q, e) \in Seq(S) /\ Len(Append(q, e)) = Len(q) + 1
         /\ Append(q, e)[Len(q) + 1] = e
         /\ \A i \in DOMAIN q : Append(q, e)[i] = q[i]
  OBVIOUS

LEMMA SlotIsPair ==
  ASSUME NEW s \in Slots
  PROVE  s[1] \in 1..Rounds /\ s[2] \in 1..Tasks /\ s = <<s[1], s[2]>>
  BY DEF Slots

LEMMA ExecutionType ==
  ASSUME NEW o \in Observed
  PROVE  /\ Execution(o) \in RetainedExecution /\ Execution(o).outcome # "running"
         /\ Execution(o).outcome = Outcome(o)
         /\ o.violation => Execution(o).outcome = "safety_fail"
         /\ o.violation \in BOOLEAN
  <1>1. o \in Observations
    BY Parameters
  <1>2. o.score \in {"pass", "task_fail"} /\ o.violation \in BOOLEAN /\ o.session \in BOOLEAN
    BY <1>1 DEF Observations
  <1>3. Outcome(o) \in Outcomes /\ Outcome(o) # "running" /\ (o.violation => Outcome(o) = "safety_fail")
    BY <1>2 DEF Outcome, Outcomes
  <1>4. Evidence(o) \in BOOLEAN
    BY <1>2 DEF Evidence
  <1> QED
    BY <1>2, <1>3, <1>4 DEF Execution, RetainedExecution

LEMMA RunningType == Running \in RetainedExecution /\ ~ Running.evidence
  BY DEF Running, RetainedExecution, Outcomes

LEMMA IdleFits == ASSUME NEW sl PROVE Idle \in Runner /\ Fits(sl, Idle) /\ ~ Owner(Idle) /\ ~ AtSlot(Idle)
  <1>1. Idle \in Runner
    BY Parameters DEF Idle, NoSuite, Runner, Suite, PCs
  <1>2. Idle.pc = "idle" /\ Idle.task = 1
    BY DEF Idle
  <1> QED
    BY <1>1, <1>2 DEF Fits, Owner, AtSlot, Finished, HasSuite

LEMMA WholeKept ==
  ASSUME NEW old, NEW new, NEW su, Kept(old, new), Whole(old, su)
  PROVE  Whole(new, su)
  BY DEF Kept, Whole, Complete

LEMMA FitsKept ==
  ASSUME NEW old, NEW new, NEW st, Kept(old, new), Fits(old, st),
         AtSlot(st) => new[Place(st)] = old[Place(st)]
  PROVE  Fits(new, st)
  <1>1. HasSuite(st) => Whole(new, st.suite)
    BY WholeKept DEF Fits
  <1>2. Owner(st) => /\ <<st.round, 1>> \in DOMAIN new
                     /\ \A t \in 1..Tasks : (t < st.task \/ Finished(st)) =>
                          Complete(new, <<st.round, t>>, st.config)
    BY DEF Fits, Kept, Complete
  <1>3. AtSlot(st) => Place(st) \in DOMAIN new
    BY DEF Fits, Kept
  <1> QED
    BY <1>1, <1>2, <1>3 DEF Fits, AtSlot

LEMMA KeptSame == ASSUME NEW sl PROVE Kept(sl, sl)
  BY DEF Kept
-----------------------------------------------------------------------------
(***************************************************************************)
(* A process that moves without touching a slot.                           *)
(***************************************************************************)
LEMMA RunnerMoves ==
  ASSUME Core, NEW r \in Runners, NEW st \in Runner,
         runner' = [runner EXCEPT ![r] = st], UNCHANGED <<slots, launched>>,
         Fits(slots, st), ~ AtSlot(st),
         Owner(st) => Owner(runner[r]) /\ st.round = runner[r].round
  PROVE  /\ runner' \in [Runners -> Runner] /\ SlotsOK' /\ RunnersFit' /\ NoneShares'
         /\ \A s \in DOMAIN slots : Tainted(slots, runner, s) => Tainted(slots, runner', s)
  <1> USE DEF Core
  <1>1. runner' \in [Runners -> Runner] /\ \A q \in Runners : runner'[q] = IF q = r THEN st ELSE runner[q]
    BY DEF BenchTypeOK
  <1>2. SlotsOK'
    BY DEF SlotsOK
  <1>3. RunnersFit'
    BY <1>1 DEF RunnersFit
  <1>4. NoneShares'
    BY <1>1 DEF NoneShares
  <1>5. \A s \in DOMAIN slots : Tainted(slots, runner, s) => Tainted(slots, runner', s)
    BY <1>1 DEF Tainted
  <1> QED
    BY <1>1, <1>2, <1>3, <1>4, <1>5

LEMMA RunnerMovesWell ==
  ASSUME Core, NEW r \in Runners, NEW st \in Runner,
         runner' = [runner EXCEPT ![r] = st], UNCHANGED <<slots, launched, unsafe>>,
         Fits(slots, st), ~ AtSlot(st),
         Owner(st) => Owner(runner[r]) /\ st.round = runner[r].round,
         clock' \in Nat, suite' \in Suite, Whole(slots, suite')
  PROVE  Good
  <1>1. /\ runner' \in [Runners -> Runner] /\ SlotsOK' /\ RunnersFit' /\ NoneShares'
        /\ \A s \in DOMAIN slots : Tainted(slots, runner, s) => Tainted(slots, runner', s)
    BY RunnerMoves
  <1>2. BenchTypeOK'
    BY <1>1 DEF Core, BenchTypeOK
  <1>3. UnsafeIsSeen'
    BY <1>1 DEF Core, UnsafeIsSeen
  <1>4. Whole(slots, suite)'
    OBVIOUS
  <1> QED
    BY <1>1, <1>2, <1>3, <1>4, KeptSame DEF Core, Good
-----------------------------------------------------------------------------
(***************************************************************************)
(* The actions that touch no slot.                                         *)
(***************************************************************************)
LEMMA StopsWell ==
  ASSUME Core, NEW r \in Runners, Stops(r), UNCHANGED <<suite, slots, clock, launched, unsafe>>
  PROVE  Good
  <1>1. Idle \in Runner /\ Fits(slots, Idle) /\ ~ Owner(Idle) /\ ~ AtSlot(Idle)
    BY IdleFits
  <1>2. runner' = [runner EXCEPT ![r] = Idle]
    BY DEF Stops
  <1>3. clock' \in Nat /\ suite' \in Suite /\ Whole(slots, suite')
    BY DEF Core, BenchTypeOK
  <1> QED
    BY <1>1, <1>2, <1>3, RunnerMovesWell

LEMMA StartRoundGood ==
  ASSUME Core, NEW r \in Runners, NEW n \in 1..Rounds, NEW config \in Configs,
         StartRound(r, n, config)
  PROVE  Good
  <1> DEFINE st == [Idle EXCEPT !.pc = "prepare", !.round = n, !.config = config, !.started = clock]
  <1>1. Idle \in Runner
    BY IdleFits
  <1>2. st \in Runner /\ st.pc = "prepare" /\ st.task = 1
    BY <1>1 DEF Runner, PCs, Idle, Core, BenchTypeOK
  <1>3. Fits(slots, st) /\ ~ AtSlot(st) /\ ~ Owner(st)
    BY <1>2 DEF Fits, Owner, AtSlot, Finished, HasSuite
  <1>4. runner' = [runner EXCEPT ![r] = st]
    BY DEF StartRound
  <1>5. clock' \in Nat /\ suite' \in Suite /\ Whole(slots, suite')
    BY DEF Core, BenchTypeOK, StartRound
  <1>6. UNCHANGED <<slots, launched, unsafe>>
    BY DEF StartRound
  <1> HIDE DEF st
  <1> QED
    BY <1>2, <1>3, <1>4, <1>5, <1>6, RunnerMovesWell

LEMMA PrepareGood ==
  ASSUME Core, NEW r \in Runners, Prepare(r)
  PROVE  Good
  <1>1. /\ runner \in [Runners -> Runner] /\ runner[r] \in Runner /\ Fits(slots, runner[r])
        /\ runner[r].pc = "prepare" /\ UNCHANGED <<suite, slots, clock, launched, unsafe>>
        /\ clock' \in Nat /\ suite' \in Suite /\ Whole(slots, suite')
    BY DEF Core, BenchTypeOK, RunnersFit, Prepare
  <1>2. CASE Stops(r)
    BY <1>1, <1>2, StopsWell
  <1>3. CASE suite = NoSuite /\ runner[r].round = 1 /\ Goes(r, "create")
    <2> DEFINE st == [runner[r] EXCEPT !.pc = "create"]
    <2>1. st \in Runner /\ st.pc = "create" /\ st.task = 1 /\ st.round = 1
      BY <1>1, <1>3 DEF Runner, PCs, Fits
    <2>2. Fits(slots, st) /\ ~ AtSlot(st) /\ ~ Owner(st)
      BY <2>1 DEF Fits, Owner, AtSlot, Finished, HasSuite
    <2>3. runner' = [runner EXCEPT ![r] = st]
      BY <1>1, <1>3 DEF Goes
    <2> HIDE DEF st
    <2> QED
      BY <1>1, <2>1, <2>2, <2>3, RunnerMovesWell
  <1>4. CASE MayRun(r) /\ runner' = [runner EXCEPT ![r].pc = "slot", ![r].suite = suite]
    <2> DEFINE st == [runner[r] EXCEPT !.pc = "slot", !.suite = suite]
    <2>1. st \in Runner /\ st.pc = "slot" /\ st.task = 1 /\ st.suite = suite
          /\ st.config = suite.config /\ st.round = Len(suite.rounds) + 1
      BY <1>1, <1>4 DEF Runner, PCs, Fits, MayRun
    <2>2. Len(suite.rounds) \in Nat
      BY <1>1 DEF Suite
    <2>3. Fits(slots, st) /\ ~ AtSlot(st) /\ ~ Owner(st)
      BY <1>1, <2>1, <2>2 DEF Fits, Owner, AtSlot, Finished, HasSuite
    <2>4. runner' = [runner EXCEPT ![r] = st]
      BY <1>1, <1>4
    <2> HIDE DEF st
    <2> QED
      BY <1>1, <2>1, <2>3, <2>4, RunnerMovesWell
  <1> QED
    BY <1>2, <1>3, <1>4 DEF Prepare

LEMMA CreateSuiteGood ==
  ASSUME Core, NEW r \in Runners, CreateSuite(r)
  PROVE  Good
  <1> DEFINE su == [config |-> runner[r].config, rounds |-> <<>>]
             st == [runner[r] EXCEPT !.pc = "slot", !.suite = su]
  <1>1. /\ runner \in [Runners -> Runner] /\ runner[r] \in Runner /\ Fits(slots, runner[r])
        /\ runner[r].pc = "create" /\ UNCHANGED <<slots, clock, launched, unsafe>>
        /\ clock' \in Nat /\ suite' = su
    BY DEF Core, BenchTypeOK, RunnersFit, CreateSuite
  <1>2. su \in Suite /\ Len(su.rounds) = 0 /\ su.config = runner[r].config
    BY <1>1 DEF Suite, Runner
  <1>3. \A s \in Slots : s[1] >= 1 /\ s[1] \in Nat
    BY SlotIsPair, Parameters
  <1>4. Whole(slots, su)
    BY <1>2, <1>3, Parameters DEF Whole
  <1>5. st \in Runner /\ st.pc = "slot" /\ st.task = 1 /\ st.suite = su
        /\ st.config = runner[r].config /\ st.round = 1
    BY <1>1, <1>2 DEF Runner, PCs, Fits
  <1>6. Fits(slots, st) /\ ~ AtSlot(st) /\ ~ Owner(st)
    BY <1>2, <1>4, <1>5 DEF Fits, Owner, AtSlot, Finished, HasSuite
  <1>7. runner' = [runner EXCEPT ![r] = st]
    BY <1>1 DEF CreateSuite
  <1> HIDE DEF su, st
  <1> QED
    BY <1>1, <1>2, <1>4, <1>5, <1>6, <1>7, RunnerMovesWell

LEMMA FinishRoundGood ==
  ASSUME Core, NEW r \in Runners, FinishRound(r)
  PROVE  Good
  <1> DEFINE st == [runner[r] EXCEPT !.pc = "retain", !.finished = clock']
  <1>1. /\ runner \in [Runners -> Runner] /\ runner[r] \in Runner /\ Fits(slots, runner[r])
        /\ runner[r].pc = "finish" /\ UNCHANGED <<suite, slots, launched, unsafe>>
        /\ clock' \in Nat /\ suite' \in Suite /\ Whole(slots, suite')
    BY DEF Core, BenchTypeOK, RunnersFit, FinishRound
  <1>2. st \in Runner /\ st.pc = "retain" /\ st.task = runner[r].task /\ st.suite = runner[r].suite
        /\ st.config = runner[r].config /\ st.round = runner[r].round
    BY <1>1 DEF Runner, PCs
  <1>3. Fits(slots, st) /\ ~ AtSlot(st) /\ Owner(runner[r])
    BY <1>1, <1>2 DEF Fits, Owner, AtSlot, Finished, HasSuite
  <1>4. runner' = [runner EXCEPT ![r] = st]
    BY <1>1 DEF FinishRound
  <1> HIDE DEF st
  <1> QED
    BY <1>1, <1>2, <1>3, <1>4, RunnerMovesWell

LEMMA RetainRoundGood ==
  ASSUME Core, NEW r \in Runners, RetainRound(r)
  PROVE  Good
  <1> DEFINE su == runner[r].suite
             n == runner[r].round
  <1>1. /\ runner[r] \in Runner /\ Fits(slots, runner[r]) /\ runner[r].pc = "retain"
        /\ runner' = [runner EXCEPT ![r] = Idle] /\ UNCHANGED <<slots, clock, launched, unsafe>>
        /\ clock' \in Nat /\ suite' = [su EXCEPT !.rounds = Append(@, RoundOf(r))]
    BY DEF Core, BenchTypeOK, RunnersFit, RetainRound, Stops
  <1>2. su \in Suite /\ n \in 1..Rounds /\ RoundOf(r) \in [started : Nat, finished : Nat]
    BY <1>1 DEF Runner, RoundOf
  <1>3. suite' \in Suite /\ suite'.config = su.config /\ Len(suite'.rounds) = Len(su.rounds) + 1
    <2> DEFINE R == [started : Nat, finished : Nat]
    <2>1. su.rounds \in Seq(R) /\ su.config \in Configs \cup {{}}
      BY <1>2 DEF Suite
    <2>2. Append(su.rounds, RoundOf(r)) \in Seq(R)
          /\ Len(Append(su.rounds, RoundOf(r))) = Len(su.rounds) + 1
      BY <2>1, <1>2, AppendIsLonger
    <2>3. suite' = [config |-> su.config, rounds |-> Append(su.rounds, RoundOf(r))]
      BY <1>1, <1>2 DEF Suite
    <2> QED
      BY <2>1, <2>2, <2>3 DEF Suite
  <1>4. su.config = runner[r].config /\ Len(su.rounds) = n - 1 /\ Whole(slots, su)
        /\ \A t \in 1..Tasks : Complete(slots, <<n, t>>, runner[r].config)
    BY <1>1 DEF Fits, HasSuite, Finished, Owner
  <1>5. Len(suite'.rounds) = n
    BY <1>2, <1>3, <1>4, Parameters
  <1>6. ASSUME NEW s \in Slots, s[1] <= Len(suite'.rounds)
        PROVE  Complete(slots, s, suite'.config)
    <2>1. s[1] \in 1..Rounds /\ s[2] \in 1..Tasks /\ s = <<s[1], s[2]>>
      BY SlotIsPair
    <2>2. CASE s[1] = n
      <3>1. Complete(slots, <<n, s[2]>>, runner[r].config)
        BY <1>4, <2>1
      <3> QED
        BY <3>1, <2>1, <2>2, <1>3, <1>4
    <2>3. CASE s[1] <= n - 1
      BY <2>3, <1>3, <1>4 DEF Whole
    <2> QED
      BY <1>2, <1>5, <1>6, <2>1, <2>2, <2>3, Parameters
  <1>7. Whole(slots, suite')
    BY <1>2, <1>5, <1>6, Parameters DEF Whole
  <1>8. Idle \in Runner /\ Fits(slots, Idle) /\ ~ Owner(Idle) /\ ~ AtSlot(Idle)
    BY IdleFits
  <1> HIDE DEF su, n
  <1> QED
    BY <1>1, <1>3, <1>7, <1>8, RunnerMovesWell

LEMMA DiesGood ==
  ASSUME Core, NEW r \in Runners, Dies(r)
  PROVE  Good
  BY StopsWell DEF Dies
-----------------------------------------------------------------------------
(***************************************************************************)
(* The actions of the process that owns a slot.                            *)
(***************************************************************************)

\* No other process is at its slot, nor in its round.
LEMMA OwnsAlone ==
  ASSUME Core, NEW r \in Runners, NEW q \in Runners, q # r, AtSlot(runner[q]),
         Owner(runner[r])
  PROVE  Place(runner[q]) # Place(runner[r])
  BY DEF Core, NoneShares, Owner, Place

LEMMA ClaimSlotGood ==
  ASSUME Core, NEW r \in Runners, ClaimSlot(r)
  PROVE  Good
  <1> DEFINE s == SlotOf(r)
             slot == Claimed(runner[r].config)
             st == [runner[r] EXCEPT !.pc = "launch"]
  <1>1. /\ runner \in [Runners -> Runner] /\ runner[r] \in Runner /\ Fits(slots, runner[r])
        /\ runner[r].pc = "slot" /\ UNCHANGED <<suite, clock, launched, unsafe>>
    BY DEF Core, BenchTypeOK, RunnersFit, ClaimSlot
  <1>2. s \in Slots /\ s = Place(runner[r])
    BY <1>1 DEF SlotOf, Slots, Runner, Place
  <1>3. CASE s \in DOMAIN slots
    BY <1>1, <1>3, StopsWell DEF ClaimSlot
  <1>4. CASE s \notin DOMAIN slots
    <2>1. /\ slots' = [t \in DOMAIN slots \cup {s} |-> IF t = s THEN slot ELSE slots[t]]
          /\ runner' = [runner EXCEPT ![r] = st]
      BY <1>1, <1>4 DEF ClaimSlot, Goes
    <2>2. slot \in Slot /\ slot.config = runner[r].config /\ slot.executions = <<>> /\ ~ slot.result
      BY <1>1 DEF Claimed, Slot, Runner
    <2>3. /\ st \in Runner /\ st.pc = "launch" /\ st.task = runner[r].task /\ st.round = runner[r].round
          /\ st.config = runner[r].config /\ st.suite = runner[r].suite
      BY <1>1 DEF Runner, PCs
    <2>4. \A q \in Runners : runner'[q] = IF q = r THEN st ELSE runner[q]
      BY <1>1, <2>1
    <2>5. launched \in [Slots -> Nat] /\ launched[s] = 0 /\ DOMAIN slots \subseteq Slots
      BY <1>2, <1>4 DEF Core, BenchTypeOK, SlotsOK
    <2> HIDE DEF s, slot, st
    <2>6. Kept(slots, slots')
      BY <1>4, <2>1 DEF Kept
    <2>7. BenchTypeOK'
      <3>1. slots' \in [DOMAIN slots' -> Slot] /\ DOMAIN slots' \subseteq Slots
        BY <1>2, <2>1, <2>2 DEF Core, BenchTypeOK
      <3>2. launched' \in [Slots -> Nat]
        BY <1>1, <2>5
      <3>3. runner' \in [Runners -> Runner]
        BY <1>1, <2>1, <2>3
      <3> QED
        BY <1>1, <3>1, <3>2, <3>3 DEF Core, BenchTypeOK
    <2>8. SlotsOK'
      <3>1. SlotOK(slots'[s], launched'[s])
        BY <1>1, <1>2, <2>1, <2>2, <2>5 DEF SlotOK
      <3>2. \A t \in DOMAIN slots : slots'[t] = slots[t] /\ launched'[t] = launched[t]
        BY <1>1, <1>4, <2>1
      <3>3. \A t \in Slots \ DOMAIN slots' : launched'[t] = 0
        BY <1>1, <2>1, <2>5 DEF Core, SlotsOK
      <3> QED
        BY <2>1, <3>1, <3>2, <3>3 DEF Core, SlotsOK
    <2>9. Place(st) = s /\ Owner(st) /\ ~ Finished(st) /\ HasSuite(st) /\ HasSuite(runner[r])
          /\ ~ Finished(runner[r]) /\ (runner[r].task > 1 => Owner(runner[r]))
      BY <1>1, <1>2, <2>3 DEF Place, Owner, AtSlot, Finished, HasSuite
    <2>10. Fits(slots', st)
      <3>1. Whole(slots', st.suite) /\ st.suite.config = st.config /\ Len(st.suite.rounds) = st.round - 1
        BY <1>1, <2>3, <2>6, <2>9, WholeKept DEF Fits
      <3>2. ASSUME NEW t \in 1..Tasks, t < st.task
            PROVE  Complete(slots', <<st.round, t>>, st.config)
        <4>1. Owner(runner[r])
          BY <1>1, <2>3, <2>9, <3>2, Parameters DEF Runner
        <4>2. Complete(slots, <<st.round, t>>, st.config)
          BY <4>1, <1>1, <2>3, <3>2 DEF Fits
        <4> QED
          BY <4>2, <2>6 DEF Kept, Complete
      <3>3. <<st.round, 1>> \in DOMAIN slots'
        <4>1. CASE st.task = 1
          BY <4>1, <2>1, <2>9 DEF Place
        <4>2. CASE st.task > 1
          BY <4>2, <1>1, <2>1, <2>3, <2>9 DEF Fits
        <4> QED
          BY <4>1, <4>2, <2>3, Parameters DEF Runner
      <3>4. slots'[s] = slot /\ s \in DOMAIN slots' /\ Len(slot.executions) = 0
        BY <2>1, <2>2
      <3> QED
        BY <2>2, <2>3, <2>9, <3>1, <3>2, <3>3, <3>4 DEF Fits
    <2>11. ASSUME NEW q \in Runners, q # r PROVE Fits(slots', runner[q])
      <3>1. Fits(slots, runner[q])
        BY DEF Core, RunnersFit
      <3>2. AtSlot(runner[q]) => slots'[Place(runner[q])] = slots[Place(runner[q])]
        BY <3>1, <1>4, <2>1 DEF Fits
      <3> QED
        BY <3>1, <3>2, <2>6, FitsKept
    <2>12. RunnersFit'
      BY <2>4, <2>10, <2>11 DEF RunnersFit
    <2>13. ASSUME NEW q \in Runners, q # r, Owner(runner[q]) PROVE runner[q].round # st.round
      <3>1. CASE runner[r].task > 1
        BY <2>3, <2>9, <2>13, <3>1 DEF Core, NoneShares
      <3>2. CASE runner[r].task = 1
        <4>1. <<runner[q].round, 1>> \in DOMAIN slots
          BY <2>13 DEF Core, RunnersFit, Fits
        <4> QED
          BY <4>1, <3>2, <1>2, <1>4, <2>3 DEF Place
      <3> QED
        BY <3>1, <3>2, <1>1, Parameters DEF Runner
    <2>14. NoneShares'
      BY <2>4, <2>13 DEF Core, NoneShares
    <2>15. ASSUME NEW t \in DOMAIN slots, Tainted(slots, runner, t)
           PROVE  t \in DOMAIN slots' /\ Tainted(slots', runner', t)
      BY <1>4, <2>1, <2>4, <2>9, <2>15 DEF Tainted
    <2>16. UnsafeIsSeen'
      BY <1>1, <2>15 DEF Core, UnsafeIsSeen
    <2>17. Whole(slots, suite)'
      BY <1>1, <2>6, WholeKept DEF Core
    <2> QED
      BY <1>2, <1>4, <2>6, <2>7, <2>8, <2>12, <2>14, <2>16, <2>17 DEF Good, Core, AllDone
  <1> QED
    BY <1>3, <1>4
\* A process changes the slot it is at.
LEMMA SlotChanges ==
  ASSUME Core, NEW r \in Runners, AtSlot(runner[r]), NEW s, s = Place(runner[r]),
         NEW slot \in Slot, NEW n \in Nat, NEW st \in Runner,
         slots' = [slots EXCEPT ![s] = slot], launched' = [launched EXCEPT ![s] = n],
         runner' = [runner EXCEPT ![r] = st],
         SlotOK(slot, n), slot.config = slots[s].config,
         \A i \in DOMAIN slots[s].executions :
           slots[s].executions[i] # Running =>
             i \in DOMAIN slot.executions /\ slot.executions[i] = slots[s].executions[i],
         st.round = runner[r].round, AtSlot(st) => Place(st) = s,
         Fits([slots EXCEPT ![s] = slot], st),
         UNCHANGED <<suite, clock>>, unsafe' \in BOOLEAN,
         unsafe' => unsafe \/ \E i \in DOMAIN slot.executions : slot.executions[i].outcome = "safety_fail"
  PROVE  Good
  <1>1. s \in DOMAIN slots /\ ~ slots[s].result /\ s \in Slots
        /\ slots \in [DOMAIN slots -> Slot] /\ DOMAIN slots \subseteq Slots
    BY DEF Core, BenchTypeOK, RunnersFit, Fits
  <1>2. DOMAIN slots' = DOMAIN slots /\ \A t \in DOMAIN slots : slots'[t] = IF t = s THEN slot ELSE slots[t]
    BY <1>1
  <1>3. \A q \in Runners : runner'[q] = IF q = r THEN st ELSE runner[q]
    BY DEF Core, BenchTypeOK
  <1>4. \A t \in Slots : launched'[t] = IF t = s THEN n ELSE launched[t]
    BY DEF Core, BenchTypeOK
  <1>5. Kept(slots, slots')
    BY <1>1, <1>2 DEF Kept
  <1>6. BenchTypeOK'
    <2>1. slots' \in [DOMAIN slots' -> Slot] /\ DOMAIN slots' \subseteq Slots
      BY <1>1, <1>2
    <2>2. launched' \in [Slots -> Nat]
      BY DEF Core, BenchTypeOK
    <2>3. runner' \in [Runners -> Runner]
      BY DEF Core, BenchTypeOK
    <2> QED
      BY <2>1, <2>2, <2>3 DEF Core, BenchTypeOK
  <1>7. SlotsOK'
    BY <1>1, <1>2, <1>4 DEF Core, SlotsOK
  <1>8. RunnersFit'
    <2>1. ASSUME NEW q \in Runners, q # r PROVE Fits(slots', runner[q])
      <3>1. Fits(slots, runner[q])
        BY DEF Core, RunnersFit
      <3>2. AtSlot(runner[q]) => Place(runner[q]) \in DOMAIN slots /\ Place(runner[q]) # s
        BY <2>1, <3>1, OwnsAlone DEF Fits, Owner
      <3>3. AtSlot(runner[q]) => slots'[Place(runner[q])] = slots[Place(runner[q])]
        BY <3>2, <1>2
      <3> QED
        BY <3>1, <3>3, <1>5, FitsKept
    <2>2. Fits(slots', st)
      OBVIOUS
    <2> QED
      BY <1>3, <2>1, <2>2 DEF RunnersFit
  <1>9. NoneShares'
    BY <1>3 DEF Core, NoneShares, Owner
  <1>10. UnsafeIsSeen'
    <2>1. ASSUME NEW t \in DOMAIN slots, Tainted(slots, runner, t), t # s
          PROVE  Tainted(slots', runner', t)
      BY <1>2, <1>3, <2>1 DEF Tainted
    <2>2. ASSUME Tainted(slots, runner, s)
          PROVE  \E i \in DOMAIN slot.executions : slot.executions[i].outcome = "safety_fail"
      BY <2>2 DEF Tainted, Running
    <2>3. (\E i \in DOMAIN slot.executions : slot.executions[i].outcome = "safety_fail")
             => Tainted(slots', runner', s)
      BY <1>1, <1>2 DEF Tainted
    <2> QED
      BY <1>1, <1>2, <2>1, <2>2, <2>3 DEF Core, UnsafeIsSeen
  <1>11. Whole(slots, suite)'
    BY <1>5, WholeKept DEF Core
  <1>12. ~ AllDone
    BY <1>1 DEF AllDone
  <1> QED
    BY <1>5, <1>6, <1>7, <1>8, <1>9, <1>10, <1>11, <1>12 DEF Good, Core

LEMMA WriteResultGood ==
  ASSUME Core, NEW r \in Runners, WriteResult(r)
  PROVE  Good
  <1> DEFINE s == SlotOf(r)
             slot == [slots[s] EXCEPT !.result = TRUE]
             new == [slots EXCEPT ![s] = slot]
             st == [runner[r] EXCEPT !.pc = IF runner[r].task < Tasks THEN "slot" ELSE "finish",
                                     !.task = IF @ < Tasks THEN @ + 1 ELSE @]
  <1>1. /\ runner \in [Runners -> Runner] /\ runner[r] \in Runner /\ Fits(slots, runner[r])
        /\ runner[r].pc = "result" /\ UNCHANGED <<suite, clock, unsafe, launched>> /\ unsafe \in BOOLEAN
    BY DEF Core, BenchTypeOK, RunnersFit, WriteResult
  <1>2. AtSlot(runner[r]) /\ s = Place(runner[r]) /\ Owner(runner[r]) /\ HasSuite(runner[r])
        /\ ~ Finished(runner[r])
    BY <1>1 DEF AtSlot, SlotOf, Place, Owner, HasSuite, Finished
  <1>3. s \in DOMAIN slots /\ slots[s] \in Slot /\ ~ slots[s].result /\ slots[s].config = runner[r].config
        /\ SlotOK(slots[s], launched[s]) /\ Len(slots[s].executions) \in 1..2
    BY <1>1, <1>2 DEF Fits, Core, BenchTypeOK, SlotsOK
  <1>4. slot \in Slot /\ slot.config = slots[s].config /\ slot.executions = slots[s].executions /\ slot.result
    BY <1>3 DEF Slot
  <1>5. slots' = new
    BY <1>1, <1>3 DEF WriteResult
  <1>6. launched' = [launched EXCEPT ![s] = launched[s]] /\ launched[s] \in Nat
    BY <1>1, <1>3 DEF Core, BenchTypeOK
  <1>7. runner' = [runner EXCEPT ![r] = st]
    BY <1>1 DEF WriteResult
  <1>8. /\ runner[r].task \in 1..Tasks /\ st.config = runner[r].config /\ st.suite = runner[r].suite
        /\ st.round = runner[r].round /\ st.task \in 1..Tasks
        /\ \/ st.pc = "slot" /\ st.task = runner[r].task + 1
           \/ st.pc = "finish" /\ st.task = runner[r].task /\ st.task = Tasks
    BY <1>1, Parameters DEF Runner
  <1>9. st \in Runner
    BY <1>1, <1>8 DEF Runner, PCs
  <1>10. DOMAIN new = DOMAIN slots /\ \A t \in DOMAIN slots : new[t] = IF t = s THEN slot ELSE slots[t]
    BY <1>3
  <1>11. s = <<st.round, runner[r].task>>
    BY <1>2, <1>8 DEF Place
  <1> HIDE DEF s, slot, new, st
  <1>12. SlotOK(slot, launched[s])
    <2>1. Len(slot.executions) # 0
      BY <1>3, <1>4
    <2> QED
      BY <1>3, <1>4, <2>1 DEF SlotOK
  <1>13. Kept(slots, new)
    BY <1>3, <1>4, <1>10 DEF Kept
  <1>14. Fits(new, st)
    <2>1. Whole(new, st.suite) /\ st.suite.config = st.config /\ Len(st.suite.rounds) = st.round - 1
      BY <1>1, <1>2, <1>8, <1>13, WholeKept DEF Fits
    <2>2. ASSUME NEW t \in 1..Tasks, t < runner[r].task
          PROVE  Complete(new, <<st.round, t>>, st.config)
      <3>1. Complete(slots, <<st.round, t>>, st.config)
        BY <1>1, <1>2, <1>8, <2>2 DEF Fits
      <3> QED
        BY <3>1, <1>13 DEF Kept, Complete
    <2>3. Complete(new, <<st.round, runner[r].task>>, st.config)
      BY <1>3, <1>4, <1>8, <1>10, <1>11 DEF Complete
    <2>4. \A t \in 1..Tasks : (t < st.task \/ Finished(st)) => Complete(new, <<st.round, t>>, st.config)
      <3>1. \A t \in 1..Tasks : (t < st.task \/ Finished(st)) => t < runner[r].task \/ t = runner[r].task
        BY <1>8, Parameters DEF Finished
      <3> QED
        BY <3>1, <2>2, <2>3
    <2>5. <<st.round, 1>> \in DOMAIN new
      BY <1>1, <1>2, <1>8, <1>10 DEF Fits
    <2>6. ~ AtSlot(st) /\ st.pc \notin {"idle", "prepare", "create", "launch", "execute", "result"}
      BY <1>8 DEF AtSlot
    <2> QED
      BY <2>1, <2>4, <2>5, <2>6 DEF Fits
  <1>15. ~ AtSlot(st)
    BY <1>8 DEF AtSlot
  <1>16. \A i \in DOMAIN slots[s].executions :
           slots[s].executions[i] # Running =>
             i \in DOMAIN slot.executions /\ slot.executions[i] = slots[s].executions[i]
    BY <1>4
  <1>17. Fits([slots EXCEPT ![s] = slot], st) /\ slots' = [slots EXCEPT ![s] = slot]
    BY <1>5, <1>14 DEF new
  <1> QED
    BY <1>1, <1>2, <1>4, <1>6, <1>7, <1>8, <1>9, <1>12, <1>15, <1>16, <1>17, SlotChanges

\* The process at a slot moves on in it.
LEMMA MovesOnAtSlot ==
  ASSUME NEW sl, NEW ru \in Runner, Fits(sl, ru), AtSlot(ru), NEW s, s = Place(ru), s \in DOMAIN sl,
         NEW slot, slot.config = sl[s].config, ~ slot.result, ~ sl[s].result,
         \A i \in DOMAIN sl[s].executions :
           sl[s].executions[i] # Running => slot.executions[i] = sl[s].executions[i],
         NEW st, st.task = ru.task, st.round = ru.round, st.config = ru.config, st.suite = ru.suite,
         AtSlot(st),
         st.pc = "launch" => Len(slot.executions) = 0 \/ Replaces(slot.executions),
         st.pc \in {"execute", "result"} => Len(slot.executions) \in 1..2,
         st.pc = "execute" => LastOf(slot.executions) = Running
  PROVE  Fits([sl EXCEPT ![s] = slot], st)
  <1> DEFINE new == [sl EXCEPT ![s] = slot]
  <1>1. DOMAIN new = DOMAIN sl /\ \A t \in DOMAIN sl : new[t] = IF t = s THEN slot ELSE sl[t]
    OBVIOUS
  <1> HIDE DEF new
  <1>2. Place(st) = s /\ HasSuite(st) /\ ~ Finished(st) /\ Owner(st)
        /\ HasSuite(ru) /\ ~ Finished(ru) /\ Owner(ru)
    BY DEF Place, HasSuite, AtSlot, Finished, Owner
  <1>3. Kept(sl, new)
    BY <1>1 DEF Kept
  <1>4. Whole(new, st.suite)
    BY <1>2, <1>3, WholeKept DEF Fits
  <1>5. \A t \in 1..Tasks : t < st.task => Complete(new, <<st.round, t>>, st.config)
    BY <1>2, <1>3 DEF Fits, Kept, Complete
  <1>6. <<st.round, 1>> \in DOMAIN new
    BY <1>1, <1>2 DEF Fits
  <1>7. st.suite.config = st.config /\ Len(st.suite.rounds) = st.round - 1
    BY <1>2 DEF Fits
  <1>8. s \in DOMAIN new /\ new[s] = slot /\ slot.config = st.config
    BY <1>1, <1>2 DEF Fits
  <1>9. Fits(new, st)
    BY <1>2, <1>4, <1>5, <1>6, <1>7, <1>8 DEF Fits, AtSlot
  <1> QED
    BY <1>9 DEF new

LEMMA EndedFacts ==
  ASSUME NEW executions \in Seq(RetainedExecution), Len(executions) \in 1..2,
         LastOf(executions) = Running, NEW o \in Observed
  PROVE  LET ended == Ended(executions, o)
         IN  /\ ended \in Seq(RetainedExecution) /\ Len(ended) = Len(executions)
             /\ ended[Len(ended)] = Execution(o)
             /\ \A i \in DOMAIN executions : executions[i] # Running => ended[i] = executions[i]
             /\ Len(executions) = 2 => ended[1] = executions[1]
             /\ DOMAIN ended = DOMAIN executions /\ Len(ended) \in DOMAIN ended
  <1>1. Execution(o) \in RetainedExecution
    BY ExecutionType
  <1>2. executions[Len(executions)] = Running /\ Len(executions) \in DOMAIN executions
    BY DEF LastOf
  <1> QED
    BY <1>1, <1>2 DEF Ended

\* What is kept when a frontend ended is right.
LEMMA EndedSlotOK ==
  ASSUME NEW slot \in Slot, NEW n \in Nat, SlotOK(slot, n), LastOf(slot.executions) = Running,
         Len(slot.executions) \in 1..2, NEW o \in Observed
  PROVE  SlotOK([slot EXCEPT !.executions = Ended(slot.executions, o)], n)
  <1> DEFINE xs == slot.executions
             ended == Ended(xs, o)
  <1>1. xs \in Seq(RetainedExecution) /\ Len(xs) \in 1..2 /\ n = Len(xs)
        /\ (Len(xs) = 2 => xs[1].outcome = "infrastructure_fail")
        /\ \A i \in DOMAIN xs : xs[i].evidence => xs[i].outcome # "running"
    BY DEF Slot, SlotOK
  <1>2. /\ ended \in Seq(RetainedExecution) /\ Len(ended) = Len(xs)
        /\ ended[Len(ended)] = Execution(o)
        /\ \A i \in DOMAIN xs : xs[i] # Running => ended[i] = xs[i]
        /\ Len(xs) = 2 => ended[1] = xs[1]
        /\ DOMAIN ended = DOMAIN xs /\ Len(ended) \in DOMAIN ended
    BY <1>1, EndedFacts
  <1>3. Execution(o).outcome # "running"
    BY ExecutionType
  <1> HIDE DEF xs, ended
  <1>4. \A i \in DOMAIN ended : ended[i].evidence => ended[i].outcome # "running"
    <2>1. ASSUME NEW i \in DOMAIN ended PROVE i = Len(ended) \/ (Len(xs) = 2 /\ i = 1)
      BY <1>1, <1>2
    <2> QED
      BY <2>1, <1>1, <1>2, <1>3
  <1> DEFINE new == [slot EXCEPT !.executions = ended]
  <1>5. new.executions = ended /\ new.result = slot.result
    BY DEF Slot
  <1> HIDE DEF new
  <1>6. SlotOK(new, n)
    BY <1>1, <1>2, <1>4, <1>5 DEF SlotOK
  <1> QED
    BY <1>6 DEF new, xs, ended

LEMMA LaunchGood ==
  ASSUME Core, NEW r \in Runners, Launch(r)
  PROVE  Good
  <1> DEFINE s == SlotOf(r)
             xs == slots[s].executions
             more == Append(xs, Running)
             slot == [slots[s] EXCEPT !.executions = more]
             st == [runner[r] EXCEPT !.pc = "execute"]
  <1>1. /\ runner \in [Runners -> Runner] /\ runner[r] \in Runner /\ Fits(slots, runner[r])
        /\ runner[r].pc = "launch" /\ UNCHANGED <<suite, clock, unsafe>> /\ unsafe \in BOOLEAN
    BY DEF Core, BenchTypeOK, RunnersFit, Launch
  <1>2. AtSlot(runner[r]) /\ s = Place(runner[r]) /\ Owner(runner[r]) /\ HasSuite(runner[r])
        /\ ~ Finished(runner[r])
    BY <1>1 DEF AtSlot, SlotOf, Place, Owner, HasSuite, Finished
  <1>3. /\ s \in DOMAIN slots /\ slots[s] \in Slot /\ ~ slots[s].result
        /\ slots[s].config = runner[r].config /\ SlotOK(slots[s], launched[s])
        /\ s \in Slots /\ launched[s] \in Nat
    BY <1>1, <1>2 DEF Fits, Core, BenchTypeOK, SlotsOK
  <1>4. xs \in Seq(RetainedExecution) /\ (Len(xs) = 0 \/ Replaces(xs))
    BY <1>1, <1>2, <1>3 DEF Fits, Slot
  <1>5. /\ more \in Seq(RetainedExecution) /\ Len(more) = Len(xs) + 1
        /\ more[Len(xs) + 1] = Running /\ \A i \in DOMAIN xs : more[i] = xs[i]
        /\ DOMAIN xs = 1..Len(xs) /\ DOMAIN more = 1..Len(more)
    BY <1>4, RunningType, AppendIsLonger
  <1>6. /\ slot \in Slot /\ slot.executions = more /\ slot.config = slots[s].config
        /\ slot.result = slots[s].result
    BY <1>3, <1>5 DEF Slot
  <1>7. /\ slots' = [slots EXCEPT ![s] = slot] /\ launched' = [launched EXCEPT ![s] = launched[s] + 1]
        /\ launched[s] + 1 \in Nat /\ runner' = [runner EXCEPT ![r] = st]
    BY <1>1, <1>3 DEF Launch, Goes
  <1>8. /\ st \in Runner /\ st.pc = "execute" /\ st.task = runner[r].task /\ st.round = runner[r].round
        /\ st.config = runner[r].config /\ st.suite = runner[r].suite
    BY <1>1 DEF Runner, PCs
  <1> HIDE DEF s, xs, more, slot, st
  <1>9. Len(more) \in 1..2 /\ LastOf(more) = Running
    BY <1>4, <1>5 DEF Replaces, LastOf
  <1>10. SlotOK(slot, launched[s] + 1)
    <2>1. Len(more) = 2 => more[1].outcome = "infrastructure_fail"
      <3>1. ASSUME Len(more) = 2 PROVE Len(xs) = 1 /\ 1 \in DOMAIN xs /\ Replaces(xs)
        <4>1. PICK n \in Nat : n = Len(xs)
          BY <1>4
        <4>2. n + 1 = 2
          BY <1>5, <3>1, <4>1
        <4>3. n = 1
          BY <4>2
        <4> QED
          BY <1>4, <1>5, <4>1, <4>3
      <3> QED
        BY <3>1, <1>5 DEF Replaces
    <2>2. launched[s] + 1 = Len(more)
      BY <1>3, <1>5 DEF SlotOK, xs
    <2>3. \A i \in DOMAIN more : more[i].evidence => more[i].outcome # "running"
      <3>1. \A i \in DOMAIN xs : xs[i].evidence => xs[i].outcome # "running"
        BY <1>3 DEF SlotOK, xs
      <3>2. \A i \in DOMAIN more : i \in DOMAIN xs \/ i = Len(xs) + 1
        BY <1>4, <1>5
      <3> QED
        BY <3>1, <3>2, <1>5, RunningType
    <2>4. Len(more) \in 0..2 /\ Len(more) # 0
      BY <1>9
    <2> QED
      BY <1>6, <2>1, <2>2, <2>3, <2>4 DEF SlotOK
  <1>11. \A i \in DOMAIN xs : xs[i] # Running => i \in DOMAIN more /\ more[i] = xs[i]
    BY <1>4, <1>5
  <1>12. Place(st) = s /\ AtSlot(st)
    BY <1>2, <1>8 DEF Place, AtSlot
  <1>13. Fits([slots EXCEPT ![s] = slot], st)
    <2>1. Len(slot.executions) \in 1..2 /\ LastOf(slot.executions) = Running /\ ~ slot.result
      BY <1>3, <1>6, <1>9
    <2>2. \A i \in DOMAIN slots[s].executions : slots[s].executions[i] # Running =>
            slot.executions[i] = slots[s].executions[i]
      BY <1>6, <1>11 DEF xs
    <2> QED
      BY <1>1, <1>2, <1>3, <1>6, <1>8, <1>12, <2>1, <2>2, MovesOnAtSlot
  <1>14. \A i \in DOMAIN slots[s].executions : slots[s].executions[i] # Running =>
           i \in DOMAIN slot.executions /\ slot.executions[i] = slots[s].executions[i]
    BY <1>6, <1>11 DEF xs
  <1>15. slot \in Slot /\ slot.config = slots[s].config /\ unsafe' \in BOOLEAN /\ (unsafe' => unsafe)
    BY <1>1, <1>6
  <1>16. st \in Runner /\ st.round = runner[r].round /\ Place(st) = s
    BY <1>8, <1>12
  <1> QED
    BY <1>1, <1>2, <1>7, <1>10, <1>13, <1>14, <1>15, <1>16, SlotChanges

LEMMA EndExecutionGood ==
  ASSUME Core, NEW r \in Runners, EndExecution(r)
  PROVE  Good
  <1> DEFINE s == SlotOf(r)
             xs == slots[s].executions
  <1>1. /\ runner \in [Runners -> Runner] /\ runner[r] \in Runner /\ Fits(slots, runner[r])
        /\ runner[r].pc = "execute" /\ UNCHANGED <<suite, clock>> /\ unsafe \in BOOLEAN
    BY DEF Core, BenchTypeOK, RunnersFit, EndExecution
  <1>2. AtSlot(runner[r]) /\ s = Place(runner[r]) /\ Owner(runner[r]) /\ HasSuite(runner[r])
        /\ ~ Finished(runner[r])
    BY <1>1 DEF AtSlot, SlotOf, Place, Owner, HasSuite, Finished
  <1>3. /\ s \in DOMAIN slots /\ slots[s] \in Slot /\ ~ slots[s].result
        /\ slots[s].config = runner[r].config /\ LastOf(xs) = Running
        /\ SlotOK(slots[s], launched[s]) /\ s \in Slots /\ launched[s] \in Nat
        /\ launched \in [Slots -> Nat] /\ slots \in [DOMAIN slots -> Slot] /\ Len(xs) \in 1..2
        /\ launched' = launched
    BY <1>1, <1>2 DEF Fits, Core, BenchTypeOK, SlotsOK, EndExecution
  <1>4. PICK o \in Observed :
          LET executions == Ended(xs, o)
          IN  /\ unsafe' = (unsafe \/ o.violation)
              /\ \/ o.sensitive /\ Stops(r) /\ UNCHANGED slots
                 \/ /\ slots' = [slots EXCEPT ![s].executions = executions]
                    /\ Goes(r, IF Replaces(executions) THEN "launch" ELSE "result")
    BY DEF EndExecution
  <1> DEFINE ended == Ended(xs, o)
  <1>5. /\ Execution(o).outcome = Outcome(o) /\ (o.violation => Execution(o).outcome = "safety_fail")
        /\ o.violation \in BOOLEAN
    BY ExecutionType
  <1>6. xs \in Seq(RetainedExecution) /\ Len(xs) \in 1..2
    BY <1>3 DEF Slot, SlotOK
  <1>7. /\ ended \in Seq(RetainedExecution) /\ Len(ended) = Len(xs)
        /\ ended[Len(ended)] = Execution(o)
        /\ \A i \in DOMAIN xs : xs[i] # Running => ended[i] = xs[i]
        /\ DOMAIN ended = DOMAIN xs /\ Len(ended) \in DOMAIN ended
    BY <1>3, <1>6, EndedFacts
  <1>8. SlotOK([slots[s] EXCEPT !.executions = ended], launched[s])
    BY <1>3, EndedSlotOK
  <1>9. unsafe' = (unsafe \/ o.violation) /\ unsafe' \in BOOLEAN
    BY <1>1, <1>4, <1>5
  <1>10. CASE o.sensitive /\ Stops(r) /\ UNCHANGED slots
    <2>1. Idle \in Runner /\ Fits(slots, Idle) /\ ~ Owner(Idle) /\ ~ AtSlot(Idle)
      BY IdleFits
    <2>2. runner' = [runner EXCEPT ![r] = Idle]
      BY <1>10 DEF Stops
    <2>3. /\ runner' \in [Runners -> Runner] /\ SlotsOK' /\ RunnersFit' /\ NoneShares'
          /\ \A t \in DOMAIN slots : Tainted(slots, runner, t) => Tainted(slots, runner', t)
      BY <1>3, <1>10, <2>1, <2>2, RunnerMoves
    <2>4. BenchTypeOK'
      BY <1>1, <1>3, <1>9, <1>10, <2>3 DEF Core, BenchTypeOK
    <2>5. Tainted(slots, runner', s)
      <3>1. ASSUME NEW q \in Runners, AtSlot(runner'[q]) PROVE Place(runner'[q]) # s
        <4>1. q # r /\ runner'[q] = runner[q]
          BY <1>1, <2>1, <2>2, <3>1
        <4> QED
          BY <4>1, <3>1, <1>2, OwnsAlone
      <3> QED
        BY <3>1, <1>3 DEF Tainted
    <2>6. UnsafeIsSeen'
      BY <1>3, <1>10, <2>3, <2>5 DEF Core, UnsafeIsSeen
    <2>7. Whole(slots, suite)' /\ Kept(slots, slots')
      BY <1>1, <1>10, KeptSame DEF Core
    <2>8. ~ AllDone
      BY <1>3 DEF AllDone
    <2> QED
      BY <2>3, <2>4, <2>6, <2>7, <2>8 DEF Good, Core
  <1>11. ASSUME slots' = [slots EXCEPT ![s].executions = ended],
                Goes(r, IF Replaces(ended) THEN "launch" ELSE "result")
         PROVE  Good
    <2> DEFINE done == [slots[s] EXCEPT !.executions = ended]
               st == [runner[r] EXCEPT !.pc = IF Replaces(ended) THEN "launch" ELSE "result"]
    <2>1. /\ done \in Slot /\ done.executions = ended /\ done.config = slots[s].config
          /\ done.result = slots[s].result
      BY <1>3, <1>7 DEF Slot
    <2>2. slots' = [slots EXCEPT ![s] = done]
      BY <1>3, <1>11
    <2>3. launched' = [launched EXCEPT ![s] = launched[s]]
      BY <1>3
    <2>4. runner' = [runner EXCEPT ![r] = st]
      BY <1>1, <1>11 DEF Goes
    <2>5. /\ st \in Runner /\ st.task = runner[r].task /\ st.round = runner[r].round
          /\ st.config = runner[r].config /\ st.suite = runner[r].suite
          /\ st.pc \in {"launch", "result"} /\ (st.pc = "launch" => Replaces(ended))
      BY <1>1 DEF Runner, PCs
    <2>6. SlotOK(done, launched[s])
      BY <1>8
    <2>7. \A i \in DOMAIN xs : xs[i] # Running => i \in DOMAIN ended /\ ended[i] = xs[i]
      BY <1>7
    <2>8. unsafe' => unsafe \/ \E i \in DOMAIN ended : ended[i].outcome = "safety_fail"
      BY <1>5, <1>7, <1>9
    <2> HIDE DEF s, done, ended, st
    <2>9. Place(st) = s /\ AtSlot(st)
      BY <1>2, <2>5 DEF Place, AtSlot
    <2>10. Fits([slots EXCEPT ![s] = done], st)
      <3>1. Len(done.executions) \in 1..2 /\ st.pc # "execute"
        BY <1>3, <1>7, <2>1, <2>5
      <3>2. \A i \in DOMAIN slots[s].executions : slots[s].executions[i] # Running =>
              done.executions[i] = slots[s].executions[i]
        BY <2>1, <2>7
      <3> QED
        BY <1>1, <1>2, <1>3, <2>1, <2>5, <2>9, <3>1, <3>2, MovesOnAtSlot
    <2> QED
      BY <1>1, <1>2, <1>3, <1>9, <2>1, <2>2, <2>3, <2>4, <2>5, <2>6, <2>7, <2>8, <2>9, <2>10, SlotChanges
  <1> QED
    BY <1>4, <1>10, <1>11
-----------------------------------------------------------------------------
(***************************************************************************)
(* Every step keeps the invariant.                                         *)
(***************************************************************************)
LEMMA ProcessStep ==
  ASSUME Core, NEW r \in Runners,
         \/ \E n \in 1..Rounds, config \in Configs : StartRound(r, n, config)
         \/ Works(r) \/ Dies(r)
  PROVE  Good /\ UNCHANGED <<reporter, report>>
  <1>1. CASE \E n \in 1..Rounds, config \in Configs : StartRound(r, n, config)
    BY <1>1, StartRoundGood DEF StartRound
  <1>2. CASE Prepare(r)
    BY <1>2, PrepareGood DEF Prepare
  <1>3. CASE CreateSuite(r)
    BY <1>3, CreateSuiteGood DEF CreateSuite
  <1>4. CASE ClaimSlot(r)
    BY <1>4, ClaimSlotGood DEF ClaimSlot
  <1>10. CASE Launch(r)
    BY <1>10, LaunchGood DEF Launch
  <1>5. CASE EndExecution(r)
    BY <1>5, EndExecutionGood DEF EndExecution
  <1>6. CASE WriteResult(r)
    BY <1>6, WriteResultGood DEF WriteResult
  <1>7. CASE FinishRound(r)
    BY <1>7, FinishRoundGood DEF FinishRound
  <1>8. CASE RetainRound(r)
    BY <1>8, RetainRoundGood DEF RetainRound
  <1>9. CASE Dies(r)
    BY <1>9, DiesGood DEF Dies
  <1> QED
    BY <1>1, <1>2, <1>3, <1>4, <1>5, <1>6, <1>7, <1>8, <1>9, <1>10 DEF Works

LEMMA SameIsGood ==
  ASSUME Core, UNCHANGED <<suite, slots, runner, clock, launched, unsafe>>
  PROVE  Good
  <1>1. BenchTypeOK' /\ SlotsOK' /\ RunnersFit' /\ NoneShares' /\ Whole(slots, suite)' /\ UnsafeIsSeen'
    BY DEF Core, BenchTypeOK, SlotsOK, RunnersFit, NoneShares, UnsafeIsSeen
  <1> QED
    BY <1>1, KeptSame DEF Core, Good

\* What the report counted is all there is, and none of it is tainted.
LEMMA PassIsHonest ==
  ASSUME Core, Attempts, Reportable(reporter), Decision(reporter) = "pass"
  PROVE  /\ AllDone /\ ~ unsafe
         /\ \A s \in Slots : launched[s] > 0 /\ Final(s) # "running"
         /\ Cardinality({s \in Slots : Final(s) = "pass"}) >= TotalPasses
         /\ \A task \in 1..Tasks :
              Cardinality({s \in Slots : s[2] = task /\ Final(s) = "pass"}) >= TaskPasses
  <1>1. reporter = Slots
    BY DEF Reportable
  <1>2. AllDone
    BY <1>1 DEF Attempts, AllDone
  <1>3. ~ unsafe
    <2>1. \A s \in Slots : \A i \in DOMAIN slots[s].executions :
            slots[s].executions[i].outcome # "safety_fail"
      BY <1>1 DEF Decision
    <2> QED
      BY <1>2, <2>1 DEF Core, BenchTypeOK, UnsafeIsSeen, Tainted, AllDone
  <1>4. ASSUME NEW s \in Slots PROVE launched[s] > 0 /\ Final(s) # "running"
    <2>1. s \in DOMAIN slots /\ slots[s] \in Slot /\ SlotOK(slots[s], launched[s]) /\ slots[s].result
      BY <1>2 DEF AllDone, Core, BenchTypeOK, SlotsOK
    <2>2. Len(slots[s].executions) \in 1..2 /\ launched[s] = Len(slots[s].executions)
          /\ slots[s].executions \in Seq(RetainedExecution)
      BY <2>1 DEF SlotOK, Slot
    <2>3. Len(slots[s].executions) \in DOMAIN slots[s].executions
      BY <2>2
    <2>4. slots[s].executions[Len(slots[s].executions)].evidence
      BY <1>1, <2>3 DEF Reportable
    <2> QED
      BY <2>1, <2>2, <2>3, <2>4 DEF SlotOK, Final, LastOf
  <1> QED
    BY <1>1, <1>2, <1>3, <1>4 DEF Decision, Passes

LEMMA InvariantStep ==
  ASSUME IInv, [Next]_vars
  PROVE  IInv' /\ Kept(slots, slots')
  <1>1. Core /\ Attempts /\ (report = "pass" => AllDone) /\ ReportIsHonest
    BY DEF IInv
  <1>2. Good
    <2>1. ASSUME NEW r \in Runners,
                 \/ \E n \in 1..Rounds, config \in Configs : StartRound(r, n, config)
                 \/ Works(r) \/ Dies(r)
          PROVE  Good
      BY <1>1, <2>1, ProcessStep
    <2>2. CASE ReadAttempts \/ MakeReport \/ UNCHANGED vars
      BY <1>1, <2>2, SameIsGood DEF ReadAttempts, MakeReport, vars
    <2> QED
      BY <2>1, <2>2 DEF Next
  <1>3. Core' /\ Kept(slots, slots') /\ (AllDone => UNCHANGED <<slots, launched, unsafe>>)
    BY <1>2 DEF Good
  <1>4. CASE UNCHANGED <<reporter, report>>
    <2>1. Attempts'
      BY <1>1, <1>3, <1>4 DEF Attempts, Kept
    <2>2. report' = "pass" => AllDone' /\ ReportIsHonest'
      BY <1>1, <1>3, <1>4 DEF AllDone, ReportIsHonest, Final
    <2> QED
      BY <1>3, <2>1, <2>2 DEF IInv, ReportIsHonest
  <1>5. CASE ReadAttempts
    <2>1. Attempts' /\ UNCHANGED <<report, slots, launched, unsafe>>
      BY <1>5 DEF Attempts, ReadAttempts
    <2>2. report' = "pass" => AllDone' /\ ReportIsHonest'
      BY <1>1, <2>1 DEF AllDone, ReportIsHonest, Final
    <2> QED
      BY <1>3, <2>1, <2>2 DEF IInv, ReportIsHonest
  <1>6. CASE MakeReport
    <2>1. Attempts' /\ UNCHANGED <<slots, launched, unsafe>>
      BY <1>6 DEF Attempts, MakeReport
    <2>2. ASSUME report' = "pass" PROVE AllDone' /\ ReportIsHonest'
      <3>1. CASE Reportable(reporter)
        <4>1. Decision(reporter) = "pass"
          BY <1>6, <2>2, <3>1 DEF MakeReport
        <4> QED
          BY <4>1, <1>1, <2>1, <3>1, PassIsHonest DEF AllDone, ReportIsHonest, Final
      <3>2. CASE ~ Reportable(reporter)
        <4>1. report = "pass"
          BY <1>6, <2>2, <3>2 DEF MakeReport
        <4> QED
          BY <4>1, <1>1, <2>1 DEF AllDone, ReportIsHonest, Final
      <3> QED
        BY <3>1, <3>2
    <2> QED
      BY <1>3, <2>1, <2>2 DEF IInv, ReportIsHonest
  <1>7. UNCHANGED <<reporter, report>> \/ ReadAttempts \/ MakeReport
    <2>1. ASSUME NEW r \in Runners,
                 \/ \E n \in 1..Rounds, config \in Configs : StartRound(r, n, config)
                 \/ Works(r) \/ Dies(r)
          PROVE  UNCHANGED <<reporter, report>>
      BY <1>1, <2>1, ProcessStep
    <2> QED
      BY <2>1 DEF Next, vars
  <1> QED
    BY <1>3, <1>4, <1>5, <1>6, <1>7

LEMMA InvariantInit == Init => IInv
  <1> SUFFICES ASSUME Init PROVE IInv
    OBVIOUS
  <1>1. slots = [s \in {} |-> {}] /\ DOMAIN slots = {}
    BY DEF Init, NoSlots
  <1>2. suite \in Suite /\ Len(suite.rounds) = 0
    BY DEF Init, NoSuite, Suite
  <1>3. Idle \in Runner /\ Fits(slots, Idle) /\ ~ Owner(Idle)
    BY IdleFits
  <1>4. BenchTypeOK
    BY <1>1, <1>2, <1>3 DEF Init, BenchTypeOK
  <1>5. SlotsOK /\ RunnersFit /\ NoneShares /\ UnsafeIsSeen
    BY <1>1, <1>3 DEF Init, SlotsOK, RunnersFit, NoneShares, UnsafeIsSeen
  <1>6. Whole(slots, suite)
    <2>1. \A s \in Slots : s[1] >= 1 /\ s[1] \in Nat
      BY SlotIsPair, Parameters
    <2> QED
      BY <1>2, <2>1, Parameters DEF Whole
  <1> QED
    BY <1>1, <1>4, <1>5, <1>6 DEF Init, NoReport, IInv, Core, Attempts, ReportIsHonest
-----------------------------------------------------------------------------
(***************************************************************************)
(* The theorems.                                                           *)
(***************************************************************************)

\* The inductive invariant holds in every state of the runner.
THEOREM BenchInvariant == Spec => []IInv
  <1>1. IInv /\ [Next]_vars => IInv'
    BY InvariantStep
  <1> QED
    BY InvariantInit, <1>1, PTL DEF Spec

\* Whatever processes race or die, the frontend of a slot is started once, and
\* once more only behind a retained infrastructure failure (runner.go:677).
THEOREM BenchSlotsRunOnce == Spec => []SlotsRunOnce
  <1>1. IInv => SlotsRunOnce
    <2> SUFFICES ASSUME IInv PROVE SlotsRunOnce
      OBVIOUS
    <2>1. ASSUME NEW s \in DOMAIN slots PROVE SlotOK(slots[s], launched[s])
      BY DEF IInv, Core, SlotsOK
    <2>2. ASSUME NEW s \in Slots \ DOMAIN slots PROVE launched[s] = 0
      BY DEF IInv, Core, SlotsOK
    <2>3. ASSUME NEW s \in DOMAIN slots
          PROVE  /\ launched[s] = Len(slots[s].executions) /\ launched[s] <= 2
                 /\ launched[s] = 2 => slots[s].executions[1].outcome = "infrastructure_fail"
      <3>1. /\ Len(slots[s].executions) \in 0..2 /\ launched[s] = Len(slots[s].executions)
            /\ Len(slots[s].executions) = 2 => slots[s].executions[1].outcome = "infrastructure_fail"
        BY <2>1 DEF SlotOK
      <3>2. \A n \in 0..2 : n <= 2
        OBVIOUS
      <3>3. launched[s] <= 2
        BY <3>1, <3>2
      <3>4. launched[s] = 2 => slots[s].executions[1].outcome = "infrastructure_fail"
        BY <3>1
      <3> QED
        BY <3>1, <3>3, <3>4
    <2> QED
      BY <2>2, <2>3 DEF SlotsRunOnce
  <1> QED
    BY BenchInvariant, <1>1, PTL

\* A round the suite names is whole, under the suite's configuration, however
\* many processes prepared and retained rounds (runner.go:314-326).
THEOREM BenchRoundsAreWhole == Spec => []RoundsAreWhole
  <1>1. IInv => RoundsAreWhole
    BY DEF IInv, Core, Whole, Complete, RoundsAreWhole
  <1> QED
    BY BenchInvariant, <1>1, PTL

\* No process changes what another, or itself, has retained of an execution or
\* of a slot with its result (writePhysicalArtifacts runner.go:1137).
THEOREM BenchEvidenceIsKept == Spec => EvidenceIsKept
  <1>1. IInv /\ [Next]_vars =>
          [\A s \in DOMAIN slots :
             /\ s \in DOMAIN slots' /\ slots[s].config = slots'[s].config
             /\ \A i \in DOMAIN slots[s].executions :
                  slots[s].executions[i] # Running => slots'[s].executions[i] = slots[s].executions[i]
             /\ slots[s].result => slots'[s] = slots[s]]_vars
    <2> SUFFICES ASSUME IInv, [Next]_vars PROVE Kept(slots, slots')
      BY DEF Kept
    <2> QED
      BY InvariantStep
  <1> QED
    BY BenchInvariant, <1>1, PTL DEF Spec, EvidenceIsKept

\* A passing report counts every slot, with enough passes, and no frontend of
\* the suite violated safety, the discarded ones included (report.go:98).
THEOREM BenchReportIsHonest == Spec => []ReportIsHonest
  <1>1. IInv => ReportIsHonest
    BY DEF IInv
  <1> QED
    BY BenchInvariant, <1>1, PTL
=============================================================================
