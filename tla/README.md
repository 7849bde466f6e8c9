# A TLA+ model of coragent

Coragent is a local coding agent: a *session* accepts commands from a frontend,
runs a model in a loop with read-only tools, and keeps everything that matters
in a directory, so that it can be resumed after the process ended. The model
covers the parts in which order, failure and interruption decide whether that
works: the durable store and the processes that share it, the transcript rules,
the session engine with its command line, the observers of a session, one model
call, the paging of the tools, and the benchmark runner.

## 1. The system

| component | source (`src/`) | state | operations | modules |
|---|---|---|---|---|
| transcript rules | `internal/transcript` | none | `Record.Validate`, `ValidateRecords`, `ValidateTranscript`, `OpenToolCalls`, `OpenToolCallsForRun` | `Transcript` |
| durable store | `internal/store` | `transcript.jsonl`, `events.jsonl`, `manifest.json`; the handle's copy of the manifest | `Create`, `Open`, `AppendTranscript`, `AppendEvent`, `BeginRun`, `RecordCommand`, `FinishRun`, `ReconcileRun`, `Close`, `ReserveBudget`, `List` | `SessionStore`, `SharedStore` |
| session engine | `internal/engine/session.go` | `state`, `seen`, `cursor`, `history`, `records`, `partial`, `activeTool`; the goroutine of the run | `NewSession`, `Apply` (submit, cancel, resume, close), `run`, `completeWithRetry`, `finishRun`, `reconcileInterrupted`, `Shutdown`, `WaitIdle` | `Session`, `RunLifecycle` |
| observation | `internal/engine/session.go` | `history`, `subs`; per subscriber a queue, a wake token and a pump goroutine | `Observe`, `Subscribe`, unsubscribe, publication | `Subscribers`, `Observe` |
| engine | `internal/engine/engine.go` | none | create, load, list, inspect and close sessions; compares the workspace, provider and tool identities | `Frontend`, `SecondProcess`, `SharedStore`; not the identities |
| action broker | `internal/action` | tool table | `ProjectCalls`, `Execute`, `ExecuteBatch`, the cut of a long result | `Session`, `Tools`; in part |
| tools, workspace | `internal/tools`, `internal/workspace`, `internal/platform` | file system, read-only | read, list, search | `Tools`: read and list |
| prompt assembler | `internal/prompt` | none | `Build`, `recordsToMessages`, instruction discovery | `Prompt`; verdicts in `Session` |
| provider adapter | `internal/provider` | none | `Stream`, `Complete` | `ModelCall`; its outcomes in `Session` |
| data projection | `internal/dataproj` | tail of the stream redactor | `ValidatePrompt`, `ProjectText`, `StreamRedactor` | `Redaction`; its verdicts in `Session` |
| settings, credentials | `internal/settings`, `internal/credential` | none | read once | not modelled |
| command line | `cmd/coragent` | the channel of signals | new, resume, close, sessions; prompt and turn | `Frontend` |
| benchmark | `cmd/m1bench`, `internal/benchmark` | the directory of a suite | `RunRound`, scoring, report | `Bench`; not the scoring |

How they interact. A frontend calls `Session.Apply` with a command that carries
an ID. `Apply` holds `Session.mu` for a fixed sequence of store calls. A submit
starts one goroutine, `run`, which calls the provider without the mutex (the
provider calls back with text), takes the mutex for every write, and ends in
`finishRun`. Every store call holds the store's own mutex. Events are appended
to the log first and then published to `history` and the subscribers. A cancel
or `Shutdown` cancels the context of the run. Nothing else connects the two:
the goroutine asks the context at a few places only. The command line submits
a line, reads the events of its observation until one ends the run, and turns a signal
into a cancel. A new process reads the directory with `store.Open`, and `NewSession`
finishes what the last process left unfinished; no lock keeps a second process out
of the directory. The benchmark runner starts the command line as a frontend, once for each
slot of a suite, and reads what it left.

What is hard here, and hard to test:

- a process can die before, in or after every one of these writes, in recovery
  as well, and `NewSession` must make sense of every result;
- a write can fail: before the log, after the line but before the sync, in the
  manifest before or after the rename; what the engine does then depends on
  where it happened (nothing, end the run, or *Faulted*);
- the manifest and the logs are written one after the other, and the session
  and the store each keep their own high-water mark;
- a cancellation races the provider, the timer of a retry, the tools and the
  end of the run, and a signal comes at any moment of a turn or between two;
- budgets must hold over all retries and restarts;
- observers come and go at any moment, with a cursor they learnt earlier, and may
  stop reading while the engine publishes, faults or shuts down;
- other processes list, inspect or close a session while it is open;
- a tool is continued page by page while the files change, and every page is bounded
  twice, by the tool and by the broker;
- benchmark processes that know nothing of each other race for the slots of a suite,
  and what a dead one began must never be run again.

`PROJECT.json` lists the hazards one by one, each with its line and the
properties that watch it.

What makes each component correct: the store never loses or changes what it
acknowledged and is always readable again; the transcript rules accept exactly
the logs in which calls and results pair up; the session starts runs one after
the other, ends each of them once, says nothing to a frontend that is not on
disk, and comes back after every crash; an observer is told everything once and in
order; a turn of the command line is over when its run is, and not later;
the pages of a tool are one result; a passing report stands for frontends that
ran once each.

## 2. The modules

**`Transcript`** has the records and, as operators, the checks of `validate.go`.
`PairStep` is one iteration of the loop in `toolPairs`, `ToolPairs` the loop.
`RepairRecords` is what `reconcileInterrupted` appends. A record keeps kind, run,
call, outcome and cause. `MCAlgorithms` grows every log and compares the loop
with `Paired`, which says the same about positions.

**`Prompt`** has `recordsToMessages`: calls that follow each other become one
message, whatever is between them splits it. `CallsAnswered` is what a provider
demands of the messages; `Session` asks it of every request it sends.

**`Tools`** has `list` and `read` as a model uses them, page after page, behind the
broker, which cuts what is longer than its own limit. Sizes count one for each character
or piece, so the arithmetic of the two limits, the hint and the marker is that of
the code with small numbers. A path is the sequence of its characters by rank, since
only the order of strings matters to a list: `a-`, `a/` and `a` are told apart by
what sorts before the slash. `Changes` creates and removes paths between two
pages. The lines that are read go through `RedactLine` of `Redaction`.

**`SessionStore`** is one durable session: the disk (`transcriptLog`,
`eventLog`, `torn`, `manifestFile`) and the handle (`opened`, `manifest`,
`failed`). The handle's mutex is held for a whole operation, so one operation is
one step, and the ways it can end are its `result`. Two facts of the code decide
much of what follows: `writeManifestLocked` is called after the handle's copy
was changed, so a failed write leaves the two apart; and an append that fails
after its line was written leaves the line and does not count it. `failed` is a
history variable. The directory entry of a new session, and a power failure that
undoes an unsynced rename, are not modelled: an operation that returned is
taken to be on disk.

Its `Spec` is *any* client that makes no further append once one did not
complete, which is what Faulted is for. Without that the guarantees do not hold,
and finding 2 below is a place where the engine is not such a client.

**`SharedStore`** adds a process that only looks: `Open` for an inspection, `List`, the
replay of a closed session. It reads manifest, transcript and events one after the other
while the owner goes on in between; it fails when it meets a partial line, also one
that is only being written at that moment.

**`Session`** is the engine over an instance of the store. A handler that holds
`Session.mu` is a list of writes followed by one change of memory, so the holder
of the mutex is the variable `job`: `writes` (what is left, each with what the
code does if it fails) and `after`. `WriteSucceeds`, `WriteFails` and
`EventRefused` perform the first write; `CommandDone`, `Settle`,
`GoroutineGoesOn` and `Loaded` are what follows the last. `ProcessDies` may
happen at every point of this. `goroutine` is the program counter and the locals
of `run`, `completeWithRetry` and `sleepContext`; budget reservations do not take
the mutex and are steps of their own. The correspondence:

| action | code (`session.go`) |
|---|---|
| `Submit`, `SubmitSensitive`, `Cancel`, `Resume`, `Close` | the branches of `Apply`, 389-549 |
| `Shutdown` | 297-302 |
| `LoopTop`, `ReserveCall` | the head of the loop of `run`, 573-588 |
| `ReserveAttempt`, `StreamDelta`, `ProviderAnswers`, `ProviderFails`, `ProviderCancelled`, `ReserveDelay`, `RetryStep`, `Sleep`, `WakeUp` | `completeWithRetry`, `onText`, `sleepContext` |
| `ResponseError`, `Answered`, `CheckResponse` | 611-658 |
| `RecordCalls`, `NextTool`, `ExecuteTool`, `CallsDone` | 659-715 |
| `FinishRun`, `Settle`, `FaultRun` | `finishRun`, `faultRun`, 843-916 |
| `Load`, `Loaded`, `LoadRefused` | `store.Open`, `NewSession`, `reconcileInterrupted` |

A rejected command changes nothing and is no step. Instructions that cannot be
refreshed reject a submit before anything was written, so they are no step either.
Text is a Boolean (there is some), a response is `Answer`, and the provider picks
from `Answers` and `ProviderFailures`. `FreshCallIDs` is the assumption that a
provider does not use a call ID twice in a session; finding 3 drops it.
`sleepContext` is a `select`: entered with the context already done and a delay of
zero it can go either way; parked, it follows whichever came first.
`tolerated` is a history variable: whether a failed append ended a run without
faulting the session (`Tolerates`, finding 2), with the line in the log
(`incomplete`) or not (`unmarked`). After that some guarantees are gone, and the
properties that say so name it.

**`Frontend`** composes `Session` with the command line. `cli` is its process: at the
prompt, in a turn (`submit`, `submitting`, `turn`, `cancelling`), or in one of the two
forms that send one command (`resume`, `close`). `interrupt` is the channel of signals, which has
room for one. A turn observes from the high-water mark and takes the events in order
(that it gets them so is `Subscribers`' subject). One process after the other has the
session: while no command line has it, any other program may send any command. A
process that exits is `Exits`, one that dies is the engine's `ProcessDies`.

**`SecondProcess`** is `coragent close` in a process of its own while another one sits idle
with the session open: a second handle (an instance of the store) on the same disk.
It exists for finding 4.

**`RunLifecycle`** is the abstract specification: runs begin one after the other,
each ends once with an outcome that never changes, and nothing begins after the
close. `Session` implements it with a mapping that looks at the disk alone
(`ImplementsLifecycle`): a run is active until its outcome record is in the log.

**`Subscribers`** is the delivery of events: an event is its cursor, the engine is
any sequence of publications (`Publish`) that may end in a fault, and every
subscriber has the fields of the struct plus the program counter of `run`
(`pump`: at the outer `select`, at the look into the queue, at the send, gone).
Its `wake` channel has room for one token and is a Boolean. `unsubscribe` and
`close` give up one mutex before they take the next, so they are two steps each
(`Unsubscribe`, `UnsubscribeCloses`, `CloseDone`). `Subscribe` reads the cursor
and observes later; in general a frontend hands in any cursor it learnt before,
so `Register` takes any cursor up to the present one.

**`Observe`** extends `Subscribers` with what the events mean. Each of its engine
actions is one hold of `Session.mu` in which `partial`, `activeTool`, the
transcript or the log changes (`Delta`, `ResetStream`, `AssistantText`,
`ToolFinished`, `FinishRun`, ...), ending in `Emit` (published), `Silently` (nothing
to tell), `WriteFails` (the run ends) or `Fault`. Why a run goes this way and
not that is `Session`'s subject, so the choice is free here and the disk is left
out. `Connect` is `Observe`: registration and snapshot under one lock.
`ImplementsSubscribers` is the refinement of `Subscribers`.

**`Redaction`** has `Detector.Redact`, `LineRedactor` and `StreamRedactor` as
operators. A text is a sequence of the pieces the rules tell apart: a word, a
newline, the head and the tail of a credential (which matches when the tail follows
the head in its line), the first and the last marker of a private key (which
matches over lines). `RedactPiece` is the leftmost match, continued piece by piece.

**`ModelCall`** extends it with one model call at the level of the wire, which
`Session` has as a single choice. `pc` is where the call is: before the request,
in the loop of `decodeStream`, in `sleepContext`, done. `text` and `builders` are the
locals of `decodeStream`; `redactor` and `streamed` those of `run`, changed by
`onText` and `resetStream`; `calls` and `outcome` what the call returned. There is an
action for each thing a data line can hold (`ReadText`, `ReadPart`, `ReadGarbage`),
for the ends of a stream (`StreamEnds`, `StreamBreaks`, `EmptyStream`) and for a
request that gets none (`NotSent`, `HTTPError`, `UnexpectedMedia`); `ScriptedFails` is
the provider that stands in for the adapter, whose script may end in any failure. `Fails` is what
`completeWithRetry` does with a failure. Durations go up to `MaxDuration`: `RetryAfter`
wraps around behind it where the code multiplies seconds and saturates where it subtracts
times. The arguments of a call are the pieces `open` and `close`, and valid when they
are exactly these. Cancellation, the attempt counter and the writes are `Session`'s;
the reason and the usage of a response are left out.

**`Bench`** is the benchmark runner. The directory of a suite is `suite` (its manifest) and
`slots` (the directories `os.Mkdir` created, each with its executions and whether
`result.json` is there). The claim of a slot and the start of a frontend in it are steps of
their own (`ClaimSlot`, `Launch`): a runner that dies between them leaves a slot without
execution, which nobody runs again. A runner is a process with a program counter, what it read of the manifest,
and the time it started; it may die, or fail in a call on the file system, anywhere
(`Dies`). What the runner finds when a frontend is gone is one member of
`Observations`, and `Outcome` and `Evidence` are what the code makes of it: the order of the
classes in `runPhysicalExecution`, and what `ValidateAttemptArtifacts` accepts. A report
reads the results and the manifest in two steps. The clock counts the rounds that
finished, which is all the comparison of times can tell apart. `launched` and `unsafe` are
history.

**`MCAlgorithms`, `MCSharedStore`, `MCSession`, `MCFrontend`, `MCSecondProcess`, `MCObserve`,
`MCModelCall`, `MCBench`** hold the small instances. **`SessionStoreProofs`, `TranscriptProofs`,
`AlgorithmProofs`, `SessionProofs`, `SessionLogProofs`, `ObserveProofs`, `ModelCallProofs`,
`BenchProofs`** hold the proofs; those of `Frontend` are in `SessionProofs`, whose lemmas they go on from.

Definitions introduced by "Seeded fault" are versions of the definition that
follows with one plausible bug. No specification uses them: each is put in the
place of the original to see that the property it is meant for notices.

## 3. The runs

| run | bounds | what it checks |
|---|---|---|
| `algorithms` | logs of up to 5 records, 2 calls, 2 runs; trees of 5 paths with one change; files of 3 lines of 7 kinds; pages of 2 entries or lines and 10 bytes | the loop agrees with its declarative statement; recovery completes every loadable log; the pages of a list, and of a read, are one |
| `store` | 2 command IDs, 2 runs, 2 records in batches of 1 and 2, 1 event, limits 1/0/3 with a delay of 2, one process that looks | the store's guarantees under every failing write and every crash, and what somebody else sees meanwhile |
| `faults` | 2 commands, 1 model call, streaming (one delta a call), instructions, 1 failing write, 3 crashes | each run ends once, after an incomplete append nothing is written, the disk can be loaded after every step, also when recovery itself is cut short; runs are contiguous blocks, a session at rest agrees with its disk, acknowledged commands and published events are durable, no run is lost; refinement of `RunLifecycle` |
| `retry` | 2 commands, 2 model calls, 3 attempts, 2 retries, delays 2 and 1 with a limit of 2, streaming (up to two deltas an attempt), batches of two with a sensitive call, odd responses | at most one attempt after a cancellation; the event says what the record says; every request pairs its calls |
| `frontend` | 2 commands or signals, 1 retry, 1 tool call, 1 failing write, 1 crash | a turn ends, the prompt comes back with its run and not before; a cancelled run ends; only an unanswered request blocks a run; a session comes back |
| `observe` | 1 observer, 3 events, any failing write | what an observer is sent are the events after its cursor, in order, once, all of them; no pump sleeps on a filled queue; snapshot plus events give the session's own streamed text, active tool and transcript; a closed observation ends, also when nobody reads; refinement of `Subscribers` |
| `model_call` | 4 data lines per attempt, 5 pieces of output, 2 tool calls, 2 retries, ticks of 0.1 s, durations of 8 bits, a delay budget of 4.5 s | what is streamed does not depend on where the text was cut nor on earlier attempts; it disagrees with the recorded text only in the case named in section 4; a call has exactly the fragments sent for it; every wait is bounded, an overflowing header included |
| `bench` | 2 runners, 2 configurations, 2 rounds of 2 tasks, 3 launches, 5 kinds of execution | slots run once, rounds are whole, evidence stays, a passing report is honest |

Why these bounds are enough to be interesting: two commands give a run and a
cancel, a close or a second run. Two calls in a batch give a call before and
after one that did not succeed. Every counter reaches its limit in `retry` and
`store`; there the limit of zero attempts is the one at which the first
reservation is already refused. One crash reaches every window of one process,
three reach recovery from recovery. An attempt may stream any number of deltas; `MaxDeltas`, the number
of them in the log after which an attempt has no second one, is 2 in `retry`, where a second
delta meets a cancellation, a failure and a retry, and 1 in `faults`. In `frontend` a turn can be followed by another
one, be interrupted before its submit, in it and after its end, lose its process, or meet
a faulted session; signals and lines are bounded by the command IDs that are left
(`Affordable`), since each ends in a command. Three events let an observer connect
before, between and after two events of a run of any kind (a delta and a retry,
the start and the end of a tool), with an older cursor or the present one; what
one subscriber is sent does not depend on another, so one observer is enough.
What the engine does after the last observer has gone is cut off (`Watched`). Four lines cut a
credential and a key with text before and after it, put a second key behind the first,
and interleave two fragments of each of two calls; the delays reach the computed cap, the server's
cap and the budget; the headers of 13 and 26 seconds wrap around to a negative
and to a small positive delay. The paths have a directory with a sibling that
sorts between its name and its name with a slash; the lines fill a page exactly, leave no
room for the hint, fit into no page, or are part of a key. Two rounds and two
tasks let a runner meet a slot, a round and a manifest that another one wrote; three launches
let a dead runner be followed by two. The limits of the code (64 calls, 96 attempts, ten minutes,
8 retries, 2000 entries, 64 KiB, three rounds of four tasks) are constants; that every invariant of
the runs holds for every value of them is proved (section 5).

`CHECK_DEADLOCK FALSE` is set because the model stops when the command IDs (or
launches, or lines) are used up and because a faulted session waits for its process to end.
`store`, `faults`, `retry` and `bench` are symmetric in the command IDs, or in the
runners and the configurations, and check no liveness; `frontend` and `observe`,
which do, use no symmetry.

Reading some of the properties: `Reopenable` is the check of `Open` and
`NewSession` evaluated on the disk of *every* state, whether or not a process
dies there. A partial last line (`torn`) is refused by `Open` on purpose, so it is
excluded, and so is what was written after a tolerated failure. `EndsOnce` includes
that the active-run marker is never cleared before both the outcome and the terminal
event are there. `OnlyProviderBlocks` says that a run which never ends stays, from
some point on, at an outstanding request. `ReplayAgrees` applies the events after a snapshot to it as a frontend would and
compares the result with the session's variables; the code drops streamed text in
`resetStream`, and for a response cut by the length limit, without an event of its
own, and the property says where the two may differ until the next event.
`SnapshotIsACut` says that a snapshot's transcript and its cursor are one moment.
`ContextIsPaired` says of every request that its context could be loaded and that its messages are
`CallsAnswered`; it rests on skipped, blocked and cancelled results being written for the rest of a
batch. It stops where a failed append was tolerated: if the line had reached the log, the records in memory have
a gap at its number, and what is sent then is the context that `ContextLoads` would refuse.
`TurnEnds` says that a turn waits for nothing but a provider, and for that only
until there is a signal. `PromptIsHonest` says that no run is left behind the prompt and
that the end a turn was told was its own run's. `ListIsComplete` contains the one
exception of the code (section 4) as an equivalence, so the run shows both that
nothing else is lost and that this is.

**Fairness.** In `Frontend` (`CliFairSpec`): whoever holds the mutex goes on; the
goroutine goes on (timers fire, tools return, and the transport returns once its context is
done, adapter.go:159-163); a session that went down is loaded again; the loop of a turn
and a command that waits for the mutex go on (`WF` of `CliGoesOn`); and the `select` of a turn
does not pass a signal over for ever (`SF` of `TakeInterrupt`: Go chooses at random among
the ready cases, and the mutex may be taken each time one looks). There is no
fairness on the provider, since the code sets no timeout on it (the HTTP request
has the context of the run and nothing more), none on lines, signals and commands and
none on failures. In `Subscribers` the pumps and whoever started to unsubscribe go on
(`FairSpec` of `Observe`). Readers are not fair: a frontend may stop reading at any
moment. Neither is the engine. `Bench` needs none: nothing is promised to end.

## 4. Where code and documents disagree

1. **Terminal event after a crash** (`finding_terminal_event`). The outcome record
   and the terminal event of a run are two writes. If the process dies in
   between, `reconcileInterrupted` respects the record but writes
   `run_failed`/`interrupted` as the event, whatever the record says
   (session.go:1084-1085). `docs/architecture.md:114`: "An Event reports a fact
   that already occurred."
2. **Event cursors** (`finding_cursors`). A failed emit outside the tool and
   terminal sections ends the run instead of faulting the session. If the line
   had reached the log, the next event has the same cursor, and the session can
   never be loaded again. `docs/architecture.md:705`: "Event cursors are
   monotonic across the entire session." A failed `assistant_block` append does the
   same to sequence numbers. This is what `tolerated` records, and why
   `Reopenable`, `FailClosed`, `AtRest` and `ComesBack` stop there.
3. **Call IDs** (`finding_call_ids`). `validateToolCalls` looks at one response,
   `ValidateRecords` at the session. A provider that counts its calls from one in
   every response writes a transcript that cannot be loaded.
   `docs/m1/03-durable-sessions/02-session-lifecycle.md:27`: "Loading reproduces
   Transcript and current state without a Provider call."
4. **Two processes** (`finding_second_process`). `CloseStoredSession` works on any
   session nobody has closed, whether or not a process has it open. That process keeps its old
   marks: its next command is written behind the close, under numbers that are taken, and the
   session can never be opened again.
   `docs/m1/03-durable-sessions/02-session-lifecycle.md:18`: "A closed session remains
   available for replay but rejects new submit commands."

Some more points are not findings but are worth knowing. An `Observe` after a fault
or after `Shutdown` registers a subscriber that nobody but its own `unsubscribe`
ever closes: its pump waits for ever (`ObservationEnds` therefore starts at the close).
Text of a response cut by the length limit is taken out of the snapshot without
an event. And an error of the first
reservation, a broken disk included, is reported as `budget_exhausted`
(session.go:583). A response that holds a
private key over several lines always ends its run as `engine_invariant`: the stream
has a marker for each line, the projected text has one for the key, and `run` compares
the two (`DisagreesOnlyOnKeys`). A `Retry-After` whose seconds overflow a duration is not
capped but wraps: it is either ignored for the computed delay or a wrong one, always
within the cap (`WaitsAreBounded`). A body that ends cleanly after an event, without
`[DONE]` and without a finish reason, is taken as complete. The adapter classes every
failure after the first line as `protocol` or `output_limit`, which are not retried, so a
retry after streamed text comes from other providers only (`provider/scripted.go`:
`ScriptedFails`).

A signal at the idle prompt is not lost: it stays in the channel and cancels the next turn as soon
as its `select` sees it (`README.md:60`: "Press Ctrl-C during a run to cancel it"). SIGTERM does the
same as SIGINT. A directory is missing from a recursive list when a page ends between its name and its name
with a slash, since the next page compares the name with the hint (tools.go:209). A read never gets past a line
that is longer than a page, and a line that is not text fails the page before it, too. A page that is
nearly full is longer than the broker's limit once its hint is added: the broker
cuts the end, which is the hint
(`docs/m1/02-repository-investigation/03-list-tool.md:27` asks for one), and a model can
only go on after the last line it sees.

In the benchmark, a runner that dies in a round makes the round, and with it the suite,
impossible to complete, as the slots it began stay (this is the intended price of running each once).
A runner that read "no manifest" and is slow writes an empty one over a manifest that already has
rounds; what was run stays, but the suite is lost. A second round started before the first one
finished is refused by the report for ever. A frontend that was killed is `runtime_fail`, yet a suite
that has one cannot be reported, since `ValidateAttemptArtifacts` wants a terminal event of every
execution (`docs/benchmarks.md:331`). A second infrastructure failure of a slot makes the decision `fail`.

## 5. What is proved

`SessionStoreProofs` proves, for every value of the constants (limits, batches,
events, delays, bounds), from `StoreAssumption` and `CallIDsAssumption` only:

- `StoreTypeOK`: `Spec => []TypeOK`
- `StoreReopens`: `Spec => []BookkeepingLoads`
- `StoreWithinLimits`: `Spec => []WithinLimits`
- `StoreLogsOnlyGrow`: `Spec => LogsOnlyGrow`
- `StoreManifestAdvances`: `Spec => ManifestOnlyAdvances`

All follow from `StoreInvariant`, `Spec => []IInv`. None of the properties is
inductive alone. That the marks of the *file* are not ahead of the logs is
preserved only because the marks of the *handle* are not; that sequence numbers
stay contiguous needs the handle's mark to equal the length of the log, which is
true until an append did not complete (`InStep`) and is restored by `Open`; that
budgets stay in bounds and never shrink on disk needs the file to be behind the
handle in every field (`Advances(manifestFile, manifest)`), since the handle
may be ahead of the file after a failed replacement. `IInv` is the conjunction of
these.

The proof has one lemma per operation (`AppendTranscriptKeeps`,
`AppendEventKeeps`, `CommandsKeep`, `EndsKeep`, `ReserveBudgetKeeps`,
`ProcessDiesKeeps`, `OpenKeeps`), each of which proves `Preserved`: the
invariant after the step, together with what the two action properties say of
the step. Three lemmas carry the operations: `ReplaceKeeps` (a manifest write,
replaced or not), `OnlyManifestKeeps` (the operations that touch no log) and
`BreakKeeps` (a broken append or the death of the process).

The same module carries the store's invariant over to the specification with a second
process (`SharedInvariant`) and proves `LooksAreConsistent`, `SharedSpec => []LookIsConsistent`: what was
read of the manifest is not ahead of the logs *as they are now*, because logs only grow, so it
is not ahead of what is read of them later (`LookInv`). The order of the reads is all that makes
this true, and the proof uses it.

`SessionProofs` proves three guarantees of the engine for any commands, limits, delays, answers and
any number of crashes and failing writes:

- `SessionAckedIsDurable`: `Spec => []AckedIsDurable`
- `SessionFailsClosed`: `Spec => FailClosed`
- `SessionLittleLateWork`: `Spec => []LittleLateWork`

The first two rest on `SessionInvariant`. That an acknowledged command is on disk needs that the
command of a job is consumed by its first write (`CommandInv`), and that the handle never knows fewer
commands than the file, since the next replacement of the manifest would drop them (`SeenInv`). That
nothing is written after an incomplete append needs to know who holds the mutex in which state and how
each of its writes may fail (`JobInv`): a write whose failure is only returned is a
`RecordCommand`, which touches no log, and every other failure faults the session, makes
its goroutine fault it, is a tolerated one, or refuses the load. Between the failing write and the
fault a `Cancel` may still take the mutex (`FailedInv`); it writes to no log. The bound on late work
needs where the goroutine can be once an attempt was started after the cancellation: on the way to
`finishRun`, with the context still cancelled (`WindingUp`), and that it stands still while it holds
the mutex (`HoldingInv`). Each action has a lemma; `FreesGood`, `BeginsCommandGood`, `BeginsGood`
and `MovesGood` are what the actions share, and one lemma per store operation says what the
operation means for the commands and the logs. Of the records and events the proof says nothing.

It also proves `SessionTypeOK`, `Spec => []TypeOK`, from `SessionTyped`: besides the variables it
types what the writes of a job and the locals of the goroutine hold (`Types`, `JobType`,
`GoroutineType`, `PlaceInv`), and what each operation of the store inside `Session` does to the types.

`TranscriptProofs` proves of the rules of `Transcript`, for logs of every length:

- `ScanIsRight`: the loop of `toolPairs` accepts exactly the logs in which calls and results are
  `Paired`, and `ValidateTranscript` exactly those of them in which no call is open;
- `RepairIsRight`: what `reconcileInterrupted` appends makes a loadable log whose open
  calls are all of one run a transcript;
- `MessagesAnswerCalls`: `recordsToMessages` makes a log whose calls are answered in their order before
  anything else is written into messages that are `CallsAnswered`.

The loop is a function of the number of entries it has read, defined by the value for one less; that this
function exists (`Recursion`) and what it has collected after n entries (`Collected`) are shown step by step. The
library's induction theorem is out of reach, so a claim that fails somewhere is refuted at the least number
where it fails (`LeastNumber`: strict inclusion among finite sets is well-founded, and numbers are
compared as the intervals 1..n). `RecordsToMessages` is a function of the same form. After each record the messages
but those of the last batch are answered (`FirstAnswered`), and the log ends in a batch of calls and the results of the
first of them (`Batch`); the next record can only be a call, the result this batch waits for, or, once it is complete, anything.

`AlgorithmProofs` proves the four properties of the run `algorithms` without its bounds.
`AlgorithmsScanAgrees` and `AlgorithmsRepairCompletes` are the first two lemmas above, applied to every log that
can be written. The other two are about the pages of the tools, for files of every length, any
lines, any finite set of paths, any number of changes, and any limits in which the broker's marker fits
(`ToolsAssumption`, `LinesAssumption`):

- `AlgorithmsReadIsWhole`: `Spec => []ReadIsWhole`. The lines shown so far are the views of the lines before
  `start`, each what a read of the whole file shows (`ReadInv`). It rests on `FileProjected`: the redactor,
  started with the first line of the file, is in a key at a line exactly if a first marker stands before it and no last
  marker between them. That a page which shows nothing is stuck for the reason named needs that the first line
  always fits unless it is too long (`WrittenIs`, `WholeIs`).
- `AlgorithmsListIsComplete`: `Spec => []ListIsComplete`. The order of strings is shown to be total and
  transitive through the first place where two paths differ (`OrderIs`), and `Sorted` to be increasing and onto
  through the rank of an entry (`SortedIs`). `ListInv` then says of every path that no page missed: it was shown exactly
  if its name, with the slash of a directory, does not come after the hint, and it was not skipped. The hint is never
  itself the name of a directory that stayed in place, which is what keeps *skipped* and *still to come* apart.

`SessionLogProofs` proves what a session leaves on its disk, for any commands, answers, failures, any
number of crashes and failing writes, before, in and after every write:

- `SessionEndsOnce`: `Spec => []EndsOnce`
- `SessionRunsAreBlocks`: `Spec => []RunsAreBlocks`
- `SessionPublishedIsDurable`: `Spec => []PublishedIsDurable`
- `SessionTerminalAgrees`: `Spec => [](crashes = 0 => TerminalAgrees)`; with a crash it is finding 1
- `SessionImplementsLifecycle`: `Spec => ImplementsLifecycle`, the refinement of `RunLifecycle`

All rest on `SessionDiskInvariant` of `SessionProofs`, `Spec => []AInv`. What is on the disk is only understandable together
with what the holder of the mutex still has to write, so the heart of the invariant is `PlanInv`: for each
kind of job, which writes are left and how far the disk is. A run is `Open`, then `Untold` (outcome, no event),
then `Marked` (both, marker still set); a session is `Resting`, then `Unmarked`, `Untalked` and `Shut`;
`StartPlan`, `EndPlan` and `ClosePlan` pair these places with the writes that lead on from them. `DiskInv` says
of the logs and the manifest file alone what makes every such place recoverable: only the active run, which
is the last one, may lack an outcome or an event. `WriteLeaves` and `DeathLeaves` reduce every operation of
the store, with its results and its deaths, to `Leaves`, which is *made, not made, or an append that was
cut*, and `DiskInv` is preserved by these three for the first write of every plan (`DiskAfter`). A process
that dies therefore leaves `DiskInv`, and that is what `Load` needs to make a plan again
(`ReconcilePlanned`, `ClosePlanned`). `HandleInv` adds that the open handle agrees with the file about the
runs, which holds although a replaced manifest may be reported as failed, because then the session
faults; `ShownInv` that history is in the log.

For the refinement, `ActsOnRuns` says which effect on the lifecycle the first write of a plan can have, and
`DiskEffects` that a step of the session begins a run at rest, ends the open one, closes, or shows nothing.

It also proves that what a session leaves on its disk can be loaded again and becomes model
context again, under the same generality:

- `SessionReopens`: `Spec => [](FreshCallIDs => Reopenable)`
- `SessionAtRest`: `Spec => [](FreshCallIDs => AtRest)`
- `SessionContextLoads`: `Spec => [](FreshCallIDs => ContextLoads)`
- `SessionContextIsPaired`: `Spec => [](FreshCallIDs => ContextIsPaired)`

`FreshCallIDs` is the constant that says that the provider does not reuse the ID of a call; without it the
first is finding 3. Five more invariants are needed on top of `AInv`.

- `LogInv` (`SessionLogInvariant`): the marks of the manifest, in the file and in the handle, are not ahead of the
  logs, and equal to their lengths while no append failed (`MarksInv`); every line has its number and is valid
  in isolation (`LinesInv`); nothing is behind the close fact. The lines are right only as long as the log is
  `Trusted`: until an append that did not complete was tolerated, and again once such a log was
  loaded. That a failed append without a tolerated one does no harm is the point of the fault: no job
  writes after it.
- `PlacesInv`: a job of the goroutine goes on from where the goroutine stands, the calls that are left of a
  batch are different ones, and the failures in a batch fault the session.
- `PairInv` (`SessionPairInvariant`): the log can be paired (`PairSound`), and the open calls in it are exactly the ones
  whose results the goroutine still owes (`OpenInv`). The second is what makes the first inductive, since
  the outcome of a run may only be written when none of its calls is open, and it is broken inside a job: so there is a
  plan for each job that writes calls or results (`ToolPlan`, `RepairPlan`), which says what is open
  before each of its writes, also for the batch of results of `reconcileInterrupted` that a crash may cut anywhere.
  `FreshInv` and `KnownCalls` carry the freshness of an ID from the response to its record.
  `RecordsLoad` and `AnsweredLoads` turn this into the verdicts of the scan by `ScanIsRight`, and `RepairIsRight` gives
  the second half of `Reopenable`.
- `MemoryInv` (`SessionMemoryInvariant`): records, history and cursor are those of the logs, except that the terminal event is
  in the log before it is published (`Published`), as long as no failed append was tolerated and the
  session is not on its way to a fault (`Current`).
- `OrderInv` (`SessionOrderInvariant`): the log is `OrderSound`: between the calls of an answer and the last of their results stands
  nothing but calls and results, and each result is written when the calls before its own have theirs. For the next record
  to fit, what is still to be written must be in the order of the open calls, in each of the places where it can be:
  the calls left of a batch (`RestOrder`), the result of the tool that returned (`ResultOrder`), the results of
  `reconcileInterrupted` (`RepairOrder`), and no record at all between a call that was written and its execution (`ExecWrites`).
  `MessagesAnswerCalls` turns this into the messages of the request. The pairing of `PairInv` alone would not do: a log can be
  paired and answer its calls in another order.

The last part of `SessionProofs` is about the command line, over any sequence of its processes, with
other programs in between, signals and crashes at every moment:

- `FrontendPromptIsHonest`: `CliSpec => []PromptIsHonest`
- `FrontendAckedIsDurable`: `CliSpec => []AckedIsDurable`, which the theorem about `Session` does not give: a
  process of the command line that exits leaves the session without a crash the engine counts

Both follow from `FrontendInvariant`, which extends `IInv` and `Types` of the engine. That a prompt
has no run behind it needs to know where the session is in each place of the command line (`CliInv`). Before the submit
and after the end of a turn the session rests: no run, nobody on the way to one (`RestingInv`). In a turn
(`TurnInv`) the run submitted is either not yet begun (`Submitting`), refused (`Refused`), or followed
(`Following`): if a run goes on it is this one and no end was told since the turn began to observe, and every end
that was told since is its own. That a turn never takes another run's end for its own
rests on `EmitsInv`: only a session that is being loaded tells the end of a run by a write other than that of `finishRun`.

`ObserveProofs` proves, of `Subscribers` alone, `ObservationTypes`, `StreamsAreGapless`,
`ObserversMissNothing` and `NoWakeupIsLost` (`ObservationSpec => []ObservationTypeOK`,
`[]Gapless`, `[]NothingMissed`, `[]NoLostWakeup`) for any set of observers and any
number of events, from `ObservationInvariant`. That a stream has no gap is not
inductive: a publication appends the next cursor, so the stream must end exactly
at the last published event as long as its observer is open and registered
(`Reaches`), which in turn needs `cursor` and `published` to agree until the fault
that separates them (`Ordered`) and the empty queue of a closed subscriber.
It then proves `ObserveImplementsSubscribers`, `Spec => ObservationSpec` for
the composed module, action by action, and with it `ObserversAreToldInOrder`: the
two guarantees hold under the real engine's publications, not only under
arbitrary ones.

Two more theorems are about what an observer makes of the events:

- `SnapshotsAreCuts`: `Spec => []SnapshotIsACut`
- `ReplaysAgree`: `Spec => []ReplayAgrees`

For the first, `SnapshotInvariant`: the log and the transcript are `Balanced`, kind by kind, at the end of every hold of
the mutex (an event in excess is impossible, a fact in excess needs a failed write), and the balance of a
snapshot is the one of the moment it was taken, since both only grow. For the second, `ViewInvariant`: the news of an
observer are exactly the events since the cursor of its snapshot (`NewsIsAll`, from `Gapless` and
`NothingMissed` with the end of the stream), and the text and the tool these lead to (`Shows`, `ShowsTool`) follow
what the session holds through each of its actions; only text that was reset before its event is told lags behind.

`ModelCallProofs` proves, for any chunks, fragments, headers, limits and any number of lines, from
`ModelCallAssumption`:

- `ModelCallStreamIsOfText`: `Spec => []StreamIsOfText`
- `ModelCallDisagreesOnlyOnKeys`: `Spec => []DisagreesOnlyOnKeys`
- `ModelCallCallsAreWhole`: `Spec => []CallsAreWhole`
- `ModelCallWaitsAreBounded`: `Spec => []WaitsAreBounded`
- `StreamedIsRedacted`, of `Redaction` alone: what `StreamRedactor` shows of a text is what
  `Detector.Redact` makes of it exactly if no key of it spans lines

The functions of `Redaction` read a text piece by piece, so each is characterised by what one more piece
does to it. `ChunksJoin`: chunks written one after the other complete the same lines as their concatenation, and leave the same rest
pending. `StreamFollows`: as long as no key spans lines, the lines completed so far and the rest are
what `Redact` has made of the same pieces; after the first that does, the stream has more line ends than the
projection, whatever follows, so the two cannot agree by accident. The invariant
of the call (`ModelCallInvariant`, `CallInv`) says that the redactor is where the text of *this* attempt leads
(`StreamIsCompleted`, which needs `resetStream` before each attempt), that every builder has the arguments sent for its index in
order (`BuildersAreWhole`), and that a wait belongs to the header it came with (`WaitIsOfHeader`). Of the delays
the assumption is that the cap of a computed delay, with its jitter of a fifth, is below the cap of the server's, and
that below the longest duration; the code has 30 s, 120 s and 292 years.

`BenchProofs` proves, for any number of runners, configurations, rounds and tasks, any thresholds and any
executions, from `BenchAssumption`: `BenchSlotsRunOnce`, `BenchRoundsAreWhole`, `BenchEvidenceIsKept` and
`BenchReportIsHonest`. None is inductive. That a round is whole when it is retained needs what its runner
has behind it: every slot up to its task has a result under its own configuration
(`Fits`), the manifest it read is still whole although others replaced the file (`Whole`), and the runner
in a slot is the only one of its round that got past the first slot (`NoneShares`, from
`os.Mkdir`). That slots run once needs what a runner finds in its slot: nothing or one infrastructure failure
when it is about to start a frontend, at least one execution when it writes the result (`SlotOK`). That the report is honest needs two more facts: a violation that was seen is in an
execution that stays, or in a slot that never gets its result (`UnsafeIsSeen`); and when a report
passed, all slots are there for good (`AllDone`), so that what it counted is still so. There is one
lemma per action (`StartRoundGood`, ..., `EndExecutionGood`), each proving `Good`: the invariant after the
step and the two things a step may never do.

Only model-checked: liveness, which is out of the prover's reach, as is `ENABLED`. These are `TurnEnds`,
`CancelledRunEnds`, `ComesBack` and `OnlyProviderBlocks` of `Frontend` and `ObservationEnds` of
`Observe`.

## 6. Not modelled

Payload text and its encoding and time stamps; the identity fields of the manifest and their comparison
in `createOrLoad`, which is one conjunction of guards before the loading that is modelled; `search`, which
has a single page and no state; the opening of files within the workspace root and the file identities of
the platforms, which are system calls; the discovery of instructions; the building of requests and the
counting of tokens; settings and credentials, read once; flags, rendering and the listing of the
command line; the scoring of an answer, the fixture and the task pack, which are functions of their
inputs; and the engine without a durable store (used by tests only). Two processes that both
append are modelled only as far as finding 4 needs: the code does nothing to prevent them, and
what follows is arbitrary.

## 7. Plan

Done: `Transcript`, `SessionStore`, `RunLifecycle`, `Session`, `Subscribers`, `Observe`,
`Redaction`, `ModelCall`, then `SharedStore`, `Prompt`, `Tools`, `Frontend`, `SecondProcess` and
`Bench`, with the proofs of section 5.

Left, in this order:

1. `createOrLoad` with its identities, if they ever become more than guards.
2. `search` and the workspace, if they get a continuation or a cache.
