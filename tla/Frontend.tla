------------------------------ MODULE Frontend ------------------------------
(***************************************************************************)
(* The command line (cmd/coragent) as the frontend of a session.  One      *)
(* process after the other has the session: the command line, in one of    *)
(* its forms, or any other program, which may send any command at any time.*)
(*                                                                         *)
(* What the observation of a turn delivers is the history behind the cursor*)
(* it was asked for, in order, or its end once the session is faulted      *)
(* (module Subscribers).  Every command has a new ID.                      *)
(***************************************************************************)
EXTENDS Session

VARIABLES cli,       \* the command line's process: where it is, see NoCli
          interrupt  \* its channel of signals, with room for one

cliVars == <<cli, interrupt>>

\* cmd is the command it applies, seen how much of the history it took, run
\* what it submitted last and told the run whose end it was told.
NoCli == [pc |-> "none", cmd |-> {}, seen |-> 0, run |-> NoRun, told |-> NoRun]
Prompting == [NoCli EXCEPT !.pc = "prompt"]

Cli(pc) == cli.pc = pc
GoesTo(pc) == cli' = [cli EXCEPT !.pc = pc]
InTurn == cli.pc \in {"submit", "submitting", "turn", "cancelling"}

\* Bound: as many signals and lines as there are command IDs left.
Unused == CommandIDs \ (manifest.seen \cup job.command)
Affordable(pc, signal) ==
  (IF pc \in {"submit", "starting", "closing"} THEN 1 ELSE 0) + (IF signal THEN 1 ELSE 0)
    <= Cardinality(Unused)

Applies(cmd, pc) == cli' = [cli EXCEPT !.pc = pc, !.cmd = {cmd}]

\* Apply returns: the job of the command is over, and it was acknowledged.
Returned == job.command # cli.cmd
Accepted == cli.cmd \subseteq acked
-----------------------------------------------------------------------------
\* SIGINT or SIGTERM; a second one finds no room and is lost.
Signal ==
  /\ ~ Cli("none") /\ ~ interrupt /\ Affordable(cli.pc, TRUE)
  /\ interrupt' = TRUE
  /\ UNCHANGED <<vars, cli>>

\* Seeded fault: the turn observes the session from its beginning.
ReadLineFromStart ==
  /\ Cli("prompt") /\ LockFree /\ Affordable("submit", interrupt)
  /\ cli' = [cli EXCEPT !.pc = "submit", !.seen = 0, !.told = NoRun]
  /\ UNCHANGED <<vars, interrupt>>

\* A line is read, and the turn observes the session from its high-water mark.
ReadLine ==
  /\ Cli("prompt") /\ LockFree /\ Affordable("submit", interrupt)
  /\ cli' = [cli EXCEPT !.pc = "submit", !.seen = Len(history), !.told = NoRun]
  /\ UNCHANGED <<vars, interrupt>>

ApplySubmit ==
  /\ Cli("submit")
  /\ \/ \E cmd \in CommandIDs :
          /\ Submit(cmd) \/ SubmitSensitive(cmd)
          /\ cli' = [cli EXCEPT !.pc = "submitting", !.cmd = {cmd}, !.run = NextRun]
     \/ LockFree /\ state # "idle" /\ GoesTo("prompt") /\ UNCHANGED vars
  /\ UNCHANGED interrupt

SubmitReturns ==
  /\ Cli("submitting") /\ Returned
  /\ GoesTo(IF Accepted THEN "turn" ELSE "prompt")
  /\ UNCHANGED <<vars, interrupt>>

\* Seeded fault: a cancelled run is not taken for an end.
TakeEventMissingCancel ==
  /\ Cli("turn") /\ cli.seen < Len(history)
  /\ LET ev == history[cli.seen + 1].ev IN
       cli' = [cli EXCEPT !.seen = @ + 1,
                          !.pc = IF ev.kind \in TerminalEvents \ {"run_cancelled"}
                                 THEN "prompt" ELSE @,
                          !.told = IF ev.kind \in TerminalEvents THEN ev.run ELSE @]
  /\ UNCHANGED <<vars, interrupt>>

\* The loop of runTurn: the next event, the first that ends a run ends it too;
TakeEvent ==
  /\ Cli("turn") /\ cli.seen < Len(history)
  /\ LET ev == history[cli.seen + 1].ev IN
       cli' = [cli EXCEPT !.seen = @ + 1,
                          !.pc = IF ev.kind \in TerminalEvents THEN "prompt" ELSE @,
                          !.told = IF ev.kind \in TerminalEvents THEN ev.run ELSE @]
  /\ UNCHANGED <<vars, interrupt>>

\* or the end of the observation;
ObservationCloses ==
  /\ Cli("turn") /\ state = "faulted" /\ GoesTo("prompt")
  /\ UNCHANGED <<vars, interrupt>>

\* or a signal, whenever it came, which cancels; what Apply says is ignored.
TakeInterrupt ==
  /\ Cli("turn") /\ interrupt /\ interrupt' = FALSE
  /\ \/ \E cmd \in CommandIDs : Cancel(cmd) /\ Applies(cmd, "cancelling")
     \/ LockFree /\ state = "faulted" /\ UNCHANGED <<vars, cli>>

CancelReturns ==
  /\ Cli("cancelling") /\ Returned /\ GoesTo("turn")
  /\ UNCHANGED <<vars, interrupt>>
-----------------------------------------------------------------------------
\* coragent resume and coragent close: a session whose manifest is closed is
\* left alone, another one is loaded, and gets one command.
StartProcess ==
  /\ Load /\ ~ manifestFile.closed /\ CommandIDs \ manifestFile.seen # {}
  /\ \E pc \in {"starting", "closing"} : cli' = [NoCli EXCEPT !.pc = pc]
  /\ UNCHANGED interrupt

ApplyResume ==
  /\ Cli("starting")
  /\ \/ \E cmd \in CommandIDs : Resume(cmd) /\ Applies(cmd, "resuming")
     \/ LockFree /\ state = "closed" /\ GoesTo("leaving") /\ UNCHANGED vars
  /\ UNCHANGED interrupt

ResumeReturns ==
  /\ Cli("resuming") /\ Returned
  /\ cli' = IF Accepted THEN Prompting ELSE [NoCli EXCEPT !.pc = "leaving"]
  /\ UNCHANGED <<vars, interrupt>>

ApplyClose ==
  /\ Cli("closing") /\ \E cmd \in CommandIDs : Close(cmd) /\ Applies(cmd, "closed")
  /\ UNCHANGED interrupt

CloseReturns == Cli("closed") /\ Returned /\ GoesTo("leaving") /\ UNCHANGED <<vars, interrupt>>

\* The end of the input, of the only prompt, or of a process that was refused.
Exits ==
  /\ cli.pc \in {"prompt", "leaving"} /\ LockFree
  /\ Store!Crash /\ Forgets /\ UNCHANGED crashes
  /\ cli' = NoCli /\ interrupt' = FALSE
-----------------------------------------------------------------------------
CliInit == Init /\ cli \in {NoCli, Prompting} /\ interrupt = FALSE

OtherFrontend ==
  /\ Cli("none") /\ UNCHANGED cliVars
  /\ \/ \E cmd \in CommandIDs : Command(cmd)
     \/ Shutdown
     \/ Load

Loads == (Load /\ Cli("none") /\ UNCHANGED cliVars) \/ StartProcess

Engine ==
  /\ HoldsLock \/ WriteFails \/ ModelCall \/ ToolCalls \/ Provider \/ Loaded
  /\ UNCHANGED cliVars

ProcessEnds == (ProcessDies \/ LoadRefused) /\ cli' = NoCli /\ interrupt' = FALSE

CliGoesOn ==
  \/ ApplySubmit \/ SubmitReturns \/ TakeEvent \/ ObservationCloses \/ CancelReturns
  \/ ApplyResume \/ ResumeReturns \/ ApplyClose \/ CloseReturns

CliNext ==
  \/ OtherFrontend \/ StartProcess \/ Engine \/ ProcessEnds
  \/ Signal \/ ReadLine \/ TakeInterrupt \/ CliGoesOn \/ Exits

allVars == <<vars, cliVars>>

CliSpec == CliInit /\ [][CliNext]_allVars

(***************************************************************************)
(* Whoever holds the mutex goes on; the goroutine goes on: timers fire,    *)
(* tools return, the transport returns when its context is cancelled; and  *)
(* the session is loaded again after the process died.  The loop of a turn *)
(* goes on, and its select does not pass a signal over for ever, nor the   *)
(* mutex its command.  Nothing else is fair: no timeout bounds a provider  *)
(* that neither answers nor fails, nobody need send a command or a signal, *)
(* and no write need fail.                                                 *)
(***************************************************************************)
CliFairSpec ==
  /\ CliSpec
  /\ WF_allVars(HoldsLock /\ UNCHANGED cliVars)
  /\ WF_allVars((ModelCall \/ ToolCalls \/ ProviderCancelled) /\ UNCHANGED cliVars)
  /\ WF_allVars(Loads \/ (Loaded /\ UNCHANGED cliVars) \/ (LoadRefused /\ ProcessEnds))
  /\ WF_allVars(CliGoesOn)
  /\ SF_allVars(TakeInterrupt)
-----------------------------------------------------------------------------
\* A turn never waits for anything but a provider, and for that only until
\* there is a signal: otherwise the prompt comes back, whatever ended the run,
\* and whenever the signal came (runTurn main.go:243-277).
TurnEnds ==
  InTurn ~> (~ InTurn \/ (At("attempt") /\ ~ interrupt /\ ~ cancelled))

\* The prompt is back only when no run is left behind it, which the end of the
\* process would cut short, and what a turn was told was the end of the run it
\* had submitted (interact main.go:215, runTurn main.go:250).
PromptIsHonest ==
  Cli("prompt") => /\ state # "running"
                   /\ cli.told \in {NoRun, cli.run}
=============================================================================
