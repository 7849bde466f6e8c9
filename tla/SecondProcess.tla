--------------------------- MODULE SecondProcess ---------------------------
(***************************************************************************)
(* coragent close (CloseStoredSession, internal/engine/engine.go) from a   *)
(* process of its own, while another one has the session open: each has its*)
(* handle, the directory is one, and nothing locks it.  Only the case that *)
(* the other process is idle all the while and that no write fails.        *)
(***************************************************************************)
EXTENDS Session

VARIABLES closing,         \* what this process does next
          closingOpened,   \* and its handle
          closingManifest,
          closingFailed

closingVars == <<closing, closingOpened, closingManifest, closingFailed>>
allVars == <<vars, closingVars>>

Other == INSTANCE SessionStore WITH
  opened <- closingOpened, manifest <- closingManifest, failed <- closingFailed,
  Batches <- {}, Events <- Event, MaxRuns <- 0, MaxRecords <- 0, MaxEvents <- 0

Goes(from, to) ==
  /\ closing = from /\ closing' = to /\ state = "idle" /\ LockFree
  /\ UNCHANGED <<memory, counters, opened, manifest, failed>>

OpenStored ==
  /\ Goes("open", "record") /\ Other!Open
  /\ CloseConsistent /\ ~ manifestFile.closed

RecordClose == Goes("record", "append") /\ \E cmd \in CommandIDs : Other!RecordCommand(cmd, "ok")
AppendClose == Goes("append", "close") /\ Other!AppendTranscript(<<SessionClosed>>, "ok")
MarkClosed == Goes("close", "emit") /\ Other!CloseStore("ok")
EmitClosed ==
  /\ Goes("emit", "returned")
  /\ Other!AppendEvent(closingManifest.eventCursor + 1, Ev("session_closed", NoRun), "ok")

CloseStored == OpenStored \/ RecordClose \/ AppendClose \/ MarkClosed \/ EmitClosed

SharedInit ==
  /\ Init /\ closing = "open" /\ closingOpened = FALSE
  /\ closingManifest = Store!FreshManifest /\ closingFailed = FALSE

SharedSpec == SharedInit /\ [][(Next /\ UNCHANGED closingVars) \/ CloseStored]_allVars
-----------------------------------------------------------------------------
\* A closed session remains available for replay but rejects new submit
\* commands (docs/m1/03-durable-sessions/02-session-lifecycle.md:18): once
\* CloseStoredSession has returned (engine.go:86), Open still accepts it, if no
\* write failed.
ClosedStaysReplayable == closing = "returned" => Store!Openable
=============================================================================
