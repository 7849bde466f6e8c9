---------------------------- MODULE MCAlgorithms ----------------------------
(***************************************************************************)
(* The parts without concurrency, on small inputs: every log of records,   *)
(* every directory listed page by page, every file read page by page.  The *)
(* three share nothing, so a behaviour is about one of them (subject), and *)
(* the states of the others stay out of its way.                           *)
(***************************************************************************)
EXTENDS Prompt, Tools

CONSTANTS MaxLength,   \* bound on the length of the log
          Runs,        \* the runs whose records are appended
          Lines,       \* the lines of the files
          MaxLines     \* bound on the length of the file

ASSUME RunsAssumption == Runs \subseteq Nat \ {NoRun}
ASSUME LinesAssumption ==
  Lines \subseteq {<<"begin">>, <<"end">>, <<"binary">>} \cup Seq({"word"}) /\ MaxLines \in Nat

VARIABLES subject, log

MCRecords ==
  {ToolCall(p[1], p[2]) : p \in Runs \X CallIDs}
    \cup {ToolResult(p[1], p[2], "success") : p \in Runs \X CallIDs}
    \cup {RunOutcome(r, "completed", "") : r \in Runs}
    \cup {SessionClosed}

\* -, a and a-, and something in the last two if they are directories, of
\* which the second is protected then.
MCPaths == {<<1>>, <<3>>, <<3, 1>>, <<3, 2, 3>>, <<3, 1, 2, 3>>}
MCProtected == {<<3, 1>>}

Trees == {t \in UNION {[D -> {"file", "dir"}] : D \in SUBSET Paths} :
            \A p \in DOMAIN t : Fits(t, p)}

\* Text: two of the second fill a page, one of the third leaves no room for
\* the hint, the fourth fits into no page; the markers of a private key; and
\* what is not text.
MCLines ==
  {<<"word">>, [i \in 1..3 |-> "word"], [i \in 1..6 |-> "word"], [i \in 1..9 |-> "word"],
   <<"begin">>, <<"end">>, <<"binary">>}

Init ==
  /\ subject \in {"log", "list", "read"}
  /\ log = <<>>
  /\ IF subject = "list" THEN \E t \in Trees : ListInit(t)
     ELSE ListInit(<<>>)
  /\ IF subject = "read" THEN \E n \in 0..MaxLines : \E lines \in [1..n -> Lines] : ReadInit(lines)
     ELSE ReadInit(<<>>)

AppendRecord ==
  /\ subject = "log" /\ Len(log) < MaxLength
  /\ \E rec \in MCRecords : log' = log \o Numbered(Len(log), <<rec>>)
  /\ UNCHANGED <<subject, toolVars>>

Investigate == subject # "log" /\ ToolsNext /\ UNCHANGED <<subject, log>>

Next == AppendRecord \/ Investigate

Spec == Init /\ [][Next]_<<subject, log, toolVars>>
-----------------------------------------------------------------------------
\* The scan of toolPairs (validate.go:144) accepts a log exactly when every
\* call ID occurs once, every result follows its call in the same run and is
\* the only one, and no run ends with a call open; and ValidateTranscript
\* accepts it exactly when no call is open at all.
ScanAgrees == ScanAgreesOn(log)

\* What reconcileInterrupted (session.go:1055) appends makes a loadable log
\* usable as model context again, whatever calls the run left open, unless
\* another run left a call open or the session is closed.
RepairCompletes == \A r \in Runs : RepairCompletesOn(log, r)
=============================================================================
