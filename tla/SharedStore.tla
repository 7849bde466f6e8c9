---------------------------- MODULE SharedStore ----------------------------
(***************************************************************************)
(* A process that only looks at a session (coragent sessions, and the      *)
(* replay of coragent resume) while another one writes it: store.Open and  *)
(* List, one file after the other and without any lock.                    *)
(***************************************************************************)
EXTENDS SessionStore

VARIABLES left,   \* the files this look still has to read
          looked  \* what it has read

lookVars == <<left, looked>>

\* Seeded fault: the manifest comes last.
OpenReadsLogsFirst == <<"transcript", "events", "manifest">>

\* The order in which Open reads.
OpenReads == <<"manifest", "transcript", "events">>

Nothing == [transcriptSeq |-> 0, eventCursor |-> 0, records |-> 0, events |-> 0]

LookInit == left = <<>> /\ looked = Nothing

Read(file) ==
  CASE file = "manifest" -> looked' = [looked EXCEPT !.transcriptSeq = manifestFile.transcriptSeq,
                                             !.eventCursor = manifestFile.eventCursor]
    [] file = "transcript" -> looked' = [looked EXCEPT !.records = Len(transcriptLog)]
    [] file = "events" -> looked' = [looked EXCEPT !.events = Len(eventLog)]

StartLook == left = <<>> /\ left' = OpenReads /\ looked' = Nothing /\ UNCHANGED storeVars

Look ==
  /\ left # <<>> /\ (torn => Head(left) = "manifest")
  /\ Read(Head(left)) /\ left' = Tail(left)
  /\ UNCHANGED storeVars

\* A log whose last line is partial, or is being written at this moment, ends
\* the look with an error, and List passes the session over.
LookFails ==
  /\ left # <<>> /\ Head(left) # "manifest" /\ (torn \/ opened)
  /\ left' = <<>> /\ looked' = Nothing
  /\ UNCHANGED storeVars

SharedInit == Init /\ LookInit

SharedNext == (Next /\ UNCHANGED lookVars) \/ StartLook \/ Look \/ LookFails

SharedSpec == SharedInit /\ [][SharedNext]_<<storeVars, lookVars>>
-----------------------------------------------------------------------------
\* Whoever looks at a session while its process works, fails and dies finds no
\* mark ahead of its log, although the three files are of three moments, so
\* nothing but a partial line makes a session look corrupt (Open store.go:212,
\* List store.go:318).
LookIsConsistent ==
  left = <<>> => /\ looked.transcriptSeq <= looked.records
                 /\ looked.eventCursor <= looked.events
=============================================================================
