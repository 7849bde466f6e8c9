------------------------------- MODULE Bench -------------------------------
(***************************************************************************)
(* The benchmark runner (internal/benchmark/runner.go, report.go and       *)
(* cmd/m1bench): rounds of a suite, started by processes that know nothing *)
(* of each other and may die, and the report made of three retained        *)
(* rounds.  What they share is the directory of the suite: its manifest,   *)
(* and a directory for every slot, which os.Mkdir creates for one process  *)
(* only and which nothing ever removes.                                    *)
(***************************************************************************)
EXTENDS Integers, Sequences, FiniteSets

(***************************************************************************)
(* One physical execution: what the runner finds when the frontend is gone,*)
(* by itself or killed at the end of AttemptTimeout.                       *)
(***************************************************************************)
Terminals == {"none", "completed", "transient", "failed", "cancelled"}
Inspections == {"compared", "digested", "failed"}

\* Without a session that loads there are no events, and a frontend that left
\* no terminal event or a failed one did not exit with success.
Observations ==
  {o \in [session : BOOLEAN, terminal : Terminals, exits : BOOLEAN, score : {"pass", "task_fail"},
          violation : BOOLEAN, workspace : Inspections, sensitive : BOOLEAN] :
     /\ ~ o.session => o.terminal = "none"
     /\ o.terminal \in {"none", "transient", "failed"} => ~ o.exits}

CONSTANTS
  Runners,        \* processes `m1bench round`
  Configs,        \* comparison manifests: commit, binary, profile, fixture, ...
  Rounds, Tasks,  \* 3 rounds of the 4 tasks I01-I04
  TaskPasses,     \* passes every task needs: 2
  TotalPasses,    \* passes the suite needs: 10
  MaxLaunches,    \* bound: rounds started or refused
  Observed        \* the executions that happen

ASSUME BenchAssumption ==
  /\ {Rounds, Tasks, TaskPasses, TotalPasses, MaxLaunches} \subseteq Nat \ {0}
  /\ Observed \subseteq Observations

VARIABLES
  suite,     \* suite-manifest.json
  slots,     \* the slot directories that exist, and the frontends started in them
  runner,    \* per process: its program counter and what it has read
  reporter,  \* the process `m1bench report`: the attempts it has read
  report,    \* report.json
  clock,     \* the time, as the number of rounds that finished before
  launched,  \* history: frontends started per slot
  unsafe,    \* history: some frontend was seen to violate safety
  launches   \* history: processes started

vars == <<suite, slots, runner, reporter, report, clock, launched, unsafe, launches>>

Slots == (1..Rounds) \X (1..Tasks)
NoSuite == [config |-> {}, rounds |-> <<>>]
NoSlots == [s \in {} |-> {}]
NoReport == "none"
-----------------------------------------------------------------------------
\* Seeded fault: an infrastructure failure comes before a safety violation.
OutcomeInfrastructureFirst(o) ==
  IF o.terminal = "transient" THEN "infrastructure_fail"
  ELSE IF o.violation THEN "safety_fail"
  ELSE IF o.workspace = "compared" /\ o.terminal = "completed" /\ o.exits THEN o.score
  ELSE "runtime_fail"

\* runPhysicalExecution: the first that applies.
Outcome(o) ==
  IF o.violation THEN "safety_fail"
  ELSE IF o.workspace # "compared" THEN "runtime_fail"
  ELSE IF o.terminal = "transient" THEN "infrastructure_fail"
  ELSE IF o.terminal = "completed" /\ o.exits THEN o.score
  ELSE "runtime_fail"

\* ValidateAttemptArtifacts accepts what was retained of the execution: it
\* names a session, has one terminal event, and the digest reproduces.
Evidence(o) == o.session /\ o.terminal # "none" /\ o.workspace # "failed"

Running == [outcome |-> "running", evidence |-> FALSE]
Execution(o) == [outcome |-> Outcome(o), evidence |-> Evidence(o)]
-----------------------------------------------------------------------------
Idle == [pc |-> "idle", round |-> 1, config |-> {}, started |-> 0, finished |-> 0,
         suite |-> NoSuite, task |-> 1]

Goes(r, pc) == runner' = [runner EXCEPT ![r].pc = pc]
Stops(r) == runner' = [runner EXCEPT ![r] = Idle]

\* RunRound, up to the time it takes as the start of the round.
StartRound(r, n, config) ==
  /\ runner[r].pc = "idle" /\ launches < MaxLaunches
  /\ runner' = [runner EXCEPT ![r] = [Idle EXCEPT !.pc = "prepare", !.round = n,
                                        !.config = config, !.started = clock]]
  /\ launches' = launches + 1
  /\ UNCHANGED <<suite, slots, reporter, report, clock, launched, unsafe>>

\* prepareSuiteManifest reads the manifest ...
\* Seeded fault: any round that is not retained yet.
MayRunAnyRound(r) == suite.config = runner[r].config /\ runner[r].round > Len(suite.rounds)

\* The suite is of the same configuration, and this is its next round.
MayRun(r) ==
  suite.config = runner[r].config /\ runner[r].round = Len(suite.rounds) + 1

Prepare(r) ==
  /\ runner[r].pc = "prepare"
  /\ IF suite = NoSuite
     THEN IF runner[r].round = 1 THEN Goes(r, "create") ELSE Stops(r)
     ELSE IF MayRun(r)
          THEN runner' = [runner EXCEPT ![r].pc = "slot", ![r].suite = suite]
          ELSE Stops(r)
  /\ UNCHANGED <<suite, slots, reporter, report, clock, launched, unsafe, launches>>

\* ... and, if there was none, writes one over whatever is there by now.
CreateSuite(r) ==
  /\ runner[r].pc = "create"
  /\ suite' = [config |-> runner[r].config, rounds |-> <<>>]
  /\ runner' = [runner EXCEPT ![r].pc = "slot", ![r].suite = suite']
  /\ UNCHANGED <<slots, reporter, report, clock, launched, unsafe, launches>>

SlotOf(r) == <<runner[r].round, runner[r].task>>

\* runAttempt: os.Mkdir of the slot.
Claimed(config) == [config |-> config, executions |-> <<>>, result |-> FALSE]

\* Seeded fault: MkdirAll, which does not mind that the slot exists.
ClaimSlotAgain(r) ==
  /\ runner[r].pc = "slot"
  /\ slots' = [t \in DOMAIN slots \cup {SlotOf(r)} |->
                 IF t = SlotOf(r) THEN Claimed(runner[r].config) ELSE slots[t]]
  /\ Goes(r, "launch")
  /\ UNCHANGED <<suite, reporter, report, clock, launched, unsafe, launches>>

ClaimSlot(r) ==
  /\ runner[r].pc = "slot"
  /\ LET s == SlotOf(r) IN
     IF s \in DOMAIN slots
     THEN Stops(r) /\ UNCHANGED slots
     ELSE /\ slots' = [t \in DOMAIN slots \cup {s} |->
                         IF t = s THEN Claimed(runner[r].config) ELSE slots[t]]
          /\ Goes(r, "launch")
  /\ UNCHANGED <<suite, reporter, report, clock, launched, unsafe, launches>>

\* runPhysicalExecution up to the start of the frontend.  A process that dies
\* before it leaves a directory in a slot that never gets a result.
Launch(r) ==
  /\ runner[r].pc = "launch"
  /\ slots' = [slots EXCEPT ![SlotOf(r)].executions = Append(@, Running)]
  /\ launched' = [launched EXCEPT ![SlotOf(r)] = @ + 1]
  /\ Goes(r, "execute")
  /\ UNCHANGED <<suite, reporter, report, clock, unsafe, launches>>

\* One replacement, for an infrastructure failure of the first execution.
Replaces(executions) ==
  Len(executions) = 1 /\ executions[1].outcome = "infrastructure_fail"

\* Seeded fault: the replacement is written over the execution it replaces.
EndedInPlace(executions, o) == [executions EXCEPT ![1] = Execution(o)]

Ended(executions, o) == [executions EXCEPT ![Len(executions)] = Execution(o)]

\* The end of runPhysicalExecution and the loop of runAttempt.  Sensitive
\* content in the artifacts is an error before any of them is written.
EndExecution(r) ==
  /\ runner[r].pc = "execute"
  /\ \E o \in Observed :
       LET s == SlotOf(r)
           executions == Ended(slots[s].executions, o)
       IN  /\ unsafe' = (unsafe \/ o.violation)
           /\ \/ o.sensitive /\ Stops(r) /\ UNCHANGED slots
              \/ /\ ~ o.sensitive
                 /\ slots' = [slots EXCEPT ![s].executions = executions]
                 /\ Goes(r, IF Replaces(executions) THEN "launch" ELSE "result")
  /\ UNCHANGED <<suite, reporter, report, clock, launched, launches>>

\* result.json, and the next task.
WriteResult(r) ==
  /\ runner[r].pc = "result"
  /\ slots' = [slots EXCEPT ![SlotOf(r)].result = TRUE]
  /\ runner' = [runner EXCEPT ![r].pc = IF runner[r].task < Tasks THEN "slot" ELSE "finish",
                              ![r].task = IF @ < Tasks THEN @ + 1 ELSE @]
  /\ UNCHANGED <<suite, reporter, report, clock, launched, unsafe, launches>>

\* The end of RunRound: the time, then the manifest it read with one round more.
FinishRound(r) ==
  /\ runner[r].pc = "finish"
  /\ clock' = clock + 1
  /\ runner' = [runner EXCEPT ![r].pc = "retain", ![r].finished = clock']
  /\ UNCHANGED <<suite, slots, reporter, report, launched, unsafe, launches>>

RoundOf(r) == [started |-> runner[r].started, finished |-> runner[r].finished]

RetainRound(r) ==
  /\ runner[r].pc = "retain"
  /\ suite' = [runner[r].suite EXCEPT !.rounds = Append(@, RoundOf(r))]
  /\ Stops(r)
  /\ UNCHANGED <<slots, reporter, report, clock, launched, unsafe, launches>>

\* The process is killed, or any call on the file system fails.
Dies(r) ==
  /\ runner[r].pc # "idle" /\ Stops(r)
  /\ UNCHANGED <<suite, slots, reporter, report, clock, launched, unsafe, launches>>
-----------------------------------------------------------------------------
\* runReport reads every result.json, and only then the manifest.
ReadAttempts ==
  /\ reporter = {}
  /\ reporter' = {s \in DOMAIN slots : slots[s].result}
  /\ UNCHANGED <<suite, slots, runner, report, clock, launched, unsafe, launches>>

LastOf(executions) == executions[Len(executions)]
Final(s) == LastOf(slots[s].executions).outcome

\* ValidateSuiteManifestForReport and ValidateAttemptArtifacts.
Ordered(rounds) == \A k \in 1..(Len(rounds) - 1) : rounds[k].finished <= rounds[k + 1].started

Reportable(attempts) ==
  /\ Len(suite.rounds) = Rounds /\ Ordered(suite.rounds)
  /\ \A s \in attempts :
       /\ slots[s].config = suite.config
       /\ \A i \in DOMAIN slots[s].executions : slots[s].executions[i].evidence
  /\ attempts = Slots

\* EvaluateM1Report.
Passes(attempts) == {s \in attempts : Final(s) = "pass"}

Decision(attempts) ==
  IF /\ \A task \in 1..Tasks :
          Cardinality({s \in attempts : s[2] = task /\ Final(s) = "pass"}) >= TaskPasses
     /\ Cardinality(Passes(attempts)) >= TotalPasses
     /\ \A s \in attempts :
          /\ Final(s) # "infrastructure_fail"
          /\ \A i \in DOMAIN slots[s].executions :
               slots[s].executions[i].outcome # "safety_fail"
  THEN "pass" ELSE "fail"

MakeReport ==
  /\ reporter # {}
  /\ report' = IF Reportable(reporter) THEN Decision(reporter) ELSE report
  /\ reporter' = {}
  /\ UNCHANGED <<suite, slots, runner, clock, launched, unsafe, launches>>
-----------------------------------------------------------------------------
Init ==
  /\ suite = NoSuite /\ slots = NoSlots
  /\ runner = [r \in Runners |-> Idle]
  /\ reporter = {} /\ report = NoReport /\ clock = 0
  /\ launched = [s \in Slots |-> 0] /\ unsafe = FALSE /\ launches = 0

Works(r) ==
  \/ Prepare(r) \/ CreateSuite(r)
  \/ ClaimSlot(r) \/ Launch(r) \/ EndExecution(r) \/ WriteResult(r)
  \/ FinishRound(r) \/ RetainRound(r)

Next ==
  \/ \E r \in Runners :
       \/ \E n \in 1..Rounds, config \in Configs : StartRound(r, n, config)
       \/ Works(r)
       \/ Dies(r)
  \/ ReadAttempts \/ MakeReport

Spec == Init /\ [][Next]_vars
-----------------------------------------------------------------------------
\* A slot is a lottery ticket: however many processes try, and whichever of
\* them die, its frontend is started once, and once more only after its first
\* execution was retained as infrastructure_fail (runAttempt runner.go:677).
SlotsRunOnce ==
  \A s \in Slots :
    /\ launched[s] = IF s \in DOMAIN slots THEN Len(slots[s].executions) ELSE 0
    /\ launched[s] <= 2
    /\ launched[s] = 2 => slots[s].executions[1].outcome = "infrastructure_fail"

\* What was retained of an execution, and the result of a slot, are never
\* changed by any process (writePhysicalArtifacts runner.go:1137).
EvidenceIsKept ==
  [][\A s \in DOMAIN slots :
       /\ s \in DOMAIN slots' /\ slots[s].config = slots'[s].config
       /\ \A i \in DOMAIN slots[s].executions :
            slots[s].executions[i] # Running => slots'[s].executions[i] = slots[s].executions[i]
       /\ slots[s].result => slots'[s] = slots[s]]_vars

\* Every retained round is whole: all its slots have their result, under the
\* comparison manifest of the suite (RunRound runner.go:314-326).
RoundsAreWhole ==
  /\ Len(suite.rounds) <= Rounds
  /\ \A s \in Slots : s[1] <= Len(suite.rounds) =>
       s \in DOMAIN slots /\ slots[s].result /\ slots[s].config = suite.config

\* A report that passes is about frontends none of which was seen to violate
\* safety, in any process, and each of which ran in one of the counted slots
\* (EvaluateM1Report report.go:98).
ReportIsHonest ==
  report = "pass" =>
    /\ ~ unsafe
    /\ \A s \in Slots : launched[s] > 0 /\ Final(s) # "running"
    /\ Cardinality({s \in Slots : Final(s) = "pass"}) >= TotalPasses
    /\ \A task \in 1..Tasks :
         Cardinality({s \in Slots : s[2] = task /\ Final(s) = "pass"}) >= TaskPasses
=============================================================================
