-------------------------- MODULE AlgorithmProofs --------------------------
(***************************************************************************)
(* What TLC checks of the algorithms on small inputs (MCAlgorithms), for   *)
(* logs of every length with records of any runs and calls, for files of   *)
(* every length read with pages of every size, and for every finite set of *)
(* paths that a list comes by, with any number of changes between pages.   *)
(***************************************************************************)
EXTENDS MCAlgorithms, TranscriptProofs

LogInv == log \in Seq(Entry)

LEMMA RecordsTyped == MCRecords \subseteq Record
  <1>1. ASSUME NEW p \in Runs \X CallIDs
        PROVE  ToolCall(p[1], p[2]) \in Record /\ ToolResult(p[1], p[2], "success") \in Record
    BY RunsAssumption DEF ToolCall, ToolResult, Fact, Record, Kinds, ToolResultOutcomes
  <1>2. ASSUME NEW r \in Runs PROVE RunOutcome(r, "completed", "") \in Record
    BY RunsAssumption DEF RunOutcome, Fact, Record, Kinds, RunOutcomes
  <1>3. SessionClosed \in Record
    BY DEF SessionClosed, Fact, Record, Kinds, NoRun
  <1> QED
    BY <1>1, <1>2, <1>3 DEF MCRecords

LEMMA LogInitial == Init => LogInv
  BY DEF Init, LogInv

LEMMA LogStep == LogInv /\ [Next]_<<subject, log, toolVars>> => LogInv'
  <1> SUFFICES ASSUME LogInv, [Next]_<<subject, log, toolVars>> PROVE LogInv'
    OBVIOUS
  <1>1. CASE AppendRecord
    <2>1. PICK rec \in MCRecords : log' = log \o Numbered(Len(log), <<rec>>)
      BY <1>1 DEF AppendRecord
    <2>2. <<rec>> \in Seq(Record)
      BY RecordsTyped
    <2>3. log \in Seq(Entry) /\ Len(log) \in Nat
      BY DEF LogInv
    <2>4. Numbered(Len(log), <<rec>>) \in Seq(Entry)
      BY <2>2, <2>3, NumberedEntries
    <2> QED
      BY <2>1, <2>3, <2>4, ConcatEntries DEF LogInv
  <1>2. CASE Investigate
    BY <1>2 DEF Investigate, LogInv
  <1>3. CASE UNCHANGED <<subject, log, toolVars>>
    BY <1>3 DEF LogInv
  <1> QED
    BY <1>1, <1>2, <1>3 DEF Next

LEMMA LogIsLog == Spec => []LogInv
  BY LogInitial, LogStep, PTL DEF Spec

\* Whatever records are appended one after the other, the scan of toolPairs
\* (validate.go:144) and the statement about positions agree.
THEOREM AlgorithmsScanAgrees == Spec => []ScanAgrees
  <1>1. LogInv => ScanAgrees
    BY ScanIsRight DEF LogInv, ScanAgrees
  <1> QED
    BY <1>1, LogIsLog, PTL

\* Whatever calls the runs left open, what reconcileInterrupted (session.go:1055)
\* appends makes the log usable as model context again.
THEOREM AlgorithmsRepairCompletes == Spec => []RepairCompletes
  <1>1. LogInv => RepairCompletes
    BY RepairIsRight, RunsAssumption DEF LogInv, RepairCompletes
  <1> QED
    BY <1>1, LogIsLog, PTL
-----------------------------------------------------------------------------
(***************************************************************************)
(* A file that is read page by page.                                       *)
(***************************************************************************)
Plain == {"word", "binary", "end"}

\* Redact leaves alone what belongs to no credential.
LEMMA PlainPiece ==
  ASSUME NEW out, NEW piece \in Plain
  PROVE  RedactPiece([at |-> "text", out |-> out], piece) = [at |-> "text", out |-> Append(out, piece)]
  <1> DEFINE seen == [at |-> "text", out |-> out]
             longer == Append(out, piece)
  <1>1. seen.at = "text" /\ seen.out = out
    OBVIOUS
  <1>2. piece # "begin" /\ piece # "head"
    BY DEF Plain
  <1> HIDE DEF seen
  <1>3. RedactPiece(seen, piece) = [at |-> "text", out |-> Append(seen.out, piece)]
    <2> DEFINE o == Append(seen.out, piece)
    <2> HIDE DEF o
    <2>1. RedactPiece(seen, piece) = [at |-> "text", out |-> o]
      BY <1>1, <1>2 DEF RedactPiece, o
    <2> QED
      BY <2>1 DEF o
  <1> QED
    BY <1>1, <1>3 DEF seen

LEMMA PlainText ==
  ASSUME NEW line \in Seq(Plain)
  PROVE  Redact(line) = line
  <1> DEFINE L == Len(line)
             Body(g) == [n \in 0..L |->
                           IF n = 0 THEN [at |-> "text", out |-> <<>>] ELSE RedactPiece(g[n - 1], line[n])]
             f == [n \in 0..L |-> [at |-> "text", out |-> SubSeq(line, 1, n)]]
             scan == CHOOSE g : g = Body(g)
  <1>1. /\ L \in Nat /\ SubSeq(line, 1, 0) = <<>> /\ SubSeq(line, 1, L) = line
        /\ \A n \in 1..L : line[n] \in Plain
                           /\ SubSeq(line, 1, n) = Append(SubSeq(line, 1, n - 1), line[n])
    OBVIOUS
  <1>2. ASSUME NEW n \in 1..L PROVE f[n] = RedactPiece(f[n - 1], line[n])
    <2>1. n \in 0..L /\ n - 1 \in 0..L
      BY <1>1
    <2> DEFINE short == SubSeq(line, 1, n - 1)
               long == SubSeq(line, 1, n)
    <2>2. line[n] \in Plain /\ long = Append(short, line[n])
      BY <1>1
    <2>3. f[n] = [at |-> "text", out |-> long] /\ f[n - 1] = [at |-> "text", out |-> short]
      <3> HIDE DEF L
      <3> QED
        BY <2>1
    <2> HIDE DEF short, long, f
    <2>4. RedactPiece(f[n - 1], line[n]) = [at |-> "text", out |-> Append(short, line[n])]
      BY <2>2, <2>3, PlainPiece
    <2> QED
      BY <2>2, <2>3, <2>4
  <1>3. f[0] = [at |-> "text", out |-> <<>>]
    <2>1. f[0] = [at |-> "text", out |-> SubSeq(line, 1, 0)]
      BY <1>1
    <2> HIDE DEF f
    <2> QED
      BY <1>1, <2>1
  <1>4. f = Body(f)
    <2>1. f = [n \in 0..L |-> f[n]]
      OBVIOUS
    <2> HIDE DEF f, L
    <2>2. \A n \in 0..L : f[n] = Body(f)[n]
      <3>1. ASSUME NEW n \in 0..L PROVE f[n] = Body(f)[n]
        <4>1. n = 0 \/ n \in 1..L
          BY <1>1
        <4> QED
          BY <1>2, <1>3, <4>1
      <3> QED
        BY <3>1
    <2> QED
      BY <2>1, <2>2
  <1>5. scan = Body(scan)
    <2> HIDE DEF Body
    <2> QED
      BY <1>4
  <1>6. Redact(line) = scan[L].out
    BY DEF Redact
  <1>7. scan[L] = f[L]
    <2> DEFINE S == {n \in 0..L : scan[n] = f[n]}
    <2> HIDE DEF scan, f, L
    <2>1. 0 \in S
      BY <1>1, <1>3, <1>5
    <2>2. ASSUME NEW n \in 0..(L - 1), n \in S PROVE n + 1 \in S
      <3>1. n + 1 \in 1..L /\ n + 1 \in 0..L /\ n + 1 # 0 /\ (n + 1) - 1 = n /\ scan[n] = f[n]
        BY <1>1, <2>2
      <3>2. scan[n + 1] = RedactPiece(scan[n], line[n + 1])
        BY <1>5, <3>1
      <3>3. f[n + 1] = RedactPiece(f[n], line[n + 1])
        BY <1>2, <3>1
      <3> QED
        BY <3>1, <3>2, <3>3
    <2>3. 0..L \subseteq S
      <3> HIDE DEF S
      <3> QED
        BY <1>1, <2>1, <2>2, UpTo
    <2> QED
      BY <1>1, <2>3
  <1>8. f[L].out = line
    <2>1. f[L] = [at |-> "text", out |-> SubSeq(line, 1, L)]
      <3> HIDE DEF L
      <3> QED
        BY <1>1
    <2> HIDE DEF f
    <2> QED
      BY <1>1, <2>1
  <1> HIDE DEF scan, f, L
  <1> QED
    BY <1>6, <1>7, <1>8

FileLine == {<<"begin">>, <<"end">>, <<"binary">>} \cup Seq({"word"})

\* The lines of a file are redacted one by one, with the key they are in.
LEMMA LineProjected ==
  ASSUME NEW inKey \in BOOLEAN, NEW line \in FileLine
  PROVE  /\ RedactLine(inKey, line).out = IF inKey \/ line = <<"begin">> THEN <<Marker>> ELSE line
         /\ RedactLine(inKey, line).inKey \in BOOLEAN
         /\ RedactLine(inKey, line).inKey <=> (inKey \/ line = <<"begin">>) /\ line # <<"end">>
  <1>1. Redact(<<>>) = <<>>
    <2>1. <<>> \in Seq(Plain)
      OBVIOUS
    <2> QED
      BY <2>1, PlainText
  <1>2. <<>> \o <<Marker>> = <<Marker>> /\ <<Marker>> \o <<>> = <<Marker>>
    OBVIOUS
  <1>3. Min({1}) = 1
    BY DEF Min
  <1>4. CASE line = <<"begin">>
    <2>1. Positions("begin", line) = {1} /\ Positions("end", line) = {} /\ Len(line) = 1
      BY <1>4 DEF Positions
    <2>2. Before(line, 0) = <<>> /\ Before(line, 1) = <<>>
      BY <1>4 DEF Before
    <2> DEFINE r == [inKey |-> TRUE, out |-> <<Marker>>]
    <2>3. RedactLine(inKey, line) = r
      <3> DEFINE first == IF inKey THEN 0 ELSE IF Positions("begin", line) = {} THEN Len(line) + 1
                          ELSE Min(Positions("begin", line))
                 lasts == {i \in Positions("end", line) : i > first}
      <3>1. first \in {0, 1} /\ ~ (first > Len(line)) /\ first <= Len(line) /\ lasts = {}
        BY <1>3, <2>1
      <3>2. Before(line, first) = <<>>
        BY <2>2, <3>1
      <3> HIDE DEF first, lasts
      <3>3. RedactLine(inKey, line) = [inKey |-> TRUE, out |-> Redact(Before(line, first)) \o <<Marker>>]
        <4> DEFINE o == Redact(Before(line, first)) \o <<Marker>>
        <4> HIDE DEF o
        <4>1. RedactLine(inKey, line) = [inKey |-> TRUE, out |-> o]
          BY <3>1, Zenon DEF RedactLine, first, lasts, o
        <4> QED
          BY <4>1 DEF o
      <3> QED
        BY <1>1, <1>2, <3>2, <3>3, Zenon
    <2>4. r.inKey = TRUE /\ r.out = <<Marker>>
      OBVIOUS
    <2>5. line # <<"end">>
      BY <1>4
    <2> HIDE DEF r
    <2> QED
      BY <1>4, <2>3, <2>4, <2>5, Zenon
  <1>5. CASE line = <<"end">>
    <2>1. Positions("begin", line) = {} /\ Positions("end", line) = {1} /\ Len(line) = 1
      BY <1>5 DEF Positions
    <2>2. Before(line, 0) = <<>> /\ After(line, 1) = <<>>
      BY <1>5 DEF Before, After
    <2>3. line # <<"begin">>
      BY <1>5
    <2>4. CASE inKey
      <3> DEFINE r == [inKey |-> FALSE, out |-> <<Marker>>]
                 lasts == {i \in Positions("end", line) : i > 0}
      <3>1. lasts = {1} /\ lasts # {} /\ ~ (0 > Len(line)) /\ 0 <= Len(line)
        BY <2>1
      <3> HIDE DEF lasts
      <3>2. RedactLine(inKey, line) =
              [inKey |-> FALSE, out |-> Redact(Before(line, 0)) \o <<Marker>> \o Redact(After(line, Min(lasts)))]
        <4> DEFINE o == Redact(Before(line, 0)) \o <<Marker>> \o Redact(After(line, Min(lasts)))
        <4> HIDE DEF o
        <4>1. RedactLine(inKey, line) = [inKey |-> FALSE, out |-> o]
          BY <2>4, <3>1, Zenon DEF RedactLine, lasts, o
        <4> QED
          BY <4>1 DEF o
      <3>3. RedactLine(inKey, line) = r
        BY <1>1, <1>2, <1>3, <2>2, <3>1, <3>2, Zenon
      <3>4. r.inKey = FALSE /\ r.out = <<Marker>>
        OBVIOUS
      <3> HIDE DEF r
      <3> QED
        BY <1>5, <2>4, <3>3, <3>4, Zenon
    <2>5. CASE ~ inKey
      <3> DEFINE r == [inKey |-> FALSE, out |-> line]
      <3>1. line \in Seq(Plain)
        BY <1>5 DEF Plain
      <3>2. Len(line) + 1 > Len(line)
        BY <2>1
      <3>3. RedactLine(inKey, line) = [inKey |-> FALSE, out |-> Redact(line)]
        <4> DEFINE first == IF inKey THEN 0 ELSE IF Positions("begin", line) = {} THEN Len(line) + 1
                            ELSE Min(Positions("begin", line))
                   o == Redact(line)
        <4>1. first > Len(line) /\ ~ (first <= Len(line))
          BY <2>1, <2>5
        <4> HIDE DEF first, o
        <4>2. RedactLine(inKey, line) = [inKey |-> FALSE, out |-> o]
          BY <4>1, Zenon DEF RedactLine, first, o
        <4> QED
          BY <4>2 DEF o
      <3>4. RedactLine(inKey, line) = r
        BY <3>1, <3>3, PlainText, Zenon
      <3>5. r.inKey = FALSE /\ r.out = line
        OBVIOUS
      <3> HIDE DEF r
      <3> QED
        BY <2>3, <2>5, <3>4, <3>5, Zenon
    <2> QED
      BY <2>4, <2>5
  <1>6. CASE line # <<"begin">> /\ line # <<"end">>
    <2>1. line \in Seq({"word", "binary"})
      <3>1. <<"binary">> \in Seq({"word", "binary"})
        OBVIOUS
      <3>2. Seq({"word"}) \subseteq Seq({"word", "binary"})
        OBVIOUS
      <3> QED
        BY <1>6, <3>1, <3>2 DEF FileLine
    <2>2. Positions("begin", line) = {} /\ Positions("end", line) = {} /\ Len(line) \in Nat
          /\ line \in Seq(Plain)
      BY <2>1 DEF Positions, Plain
    <2>3. CASE inKey
      <3> DEFINE r == [inKey |-> TRUE, out |-> <<Marker>>]
                 lasts == {i \in Positions("end", line) : i > 0}
      <3>1. lasts = {} /\ ~ (0 > Len(line)) /\ 0 <= Len(line)
        BY <2>2
      <3>2. Before(line, 0) = <<>>
        BY <2>2 DEF Before
      <3> HIDE DEF lasts
      <3>3. RedactLine(inKey, line) = [inKey |-> TRUE, out |-> Redact(Before(line, 0)) \o <<Marker>>]
        <4> DEFINE o == Redact(Before(line, 0)) \o <<Marker>>
        <4> HIDE DEF o
        <4>1. RedactLine(inKey, line) = [inKey |-> TRUE, out |-> o]
          BY <2>3, <3>1, Zenon DEF RedactLine, lasts, o
        <4> QED
          BY <4>1 DEF o
      <3>4. RedactLine(inKey, line) = r
        BY <1>1, <1>2, <3>2, <3>3, Zenon
      <3>5. r.inKey = TRUE /\ r.out = <<Marker>>
        OBVIOUS
      <3> HIDE DEF r
      <3> QED
        BY <1>6, <2>3, <3>4, <3>5, Zenon
    <2>4. CASE ~ inKey
      <3> DEFINE r == [inKey |-> FALSE, out |-> line]
      <3>1. Len(line) + 1 > Len(line)
        BY <2>2
      <3>2. RedactLine(inKey, line) = [inKey |-> FALSE, out |-> Redact(line)]
        <4> DEFINE first == IF inKey THEN 0 ELSE IF Positions("begin", line) = {} THEN Len(line) + 1
                            ELSE Min(Positions("begin", line))
                   o == Redact(line)
        <4>1. first > Len(line) /\ ~ (first <= Len(line))
          BY <2>2, <2>4
        <4> HIDE DEF first, o
        <4>2. RedactLine(inKey, line) = [inKey |-> FALSE, out |-> o]
          BY <4>1, Zenon DEF RedactLine, first, o
        <4> QED
          BY <4>2 DEF o
      <3>3. RedactLine(inKey, line) = r
        BY <2>2, <3>2, PlainText, Zenon
      <3>4. r.inKey = FALSE /\ r.out = line
        OBVIOUS
      <3> HIDE DEF r
      <3> QED
        BY <1>6, <2>4, <3>3, <3>4, Zenon
    <2> QED
      BY <2>3, <2>4
  <1> QED
    BY <1>4, <1>5, <1>6

\* Line n is of a private key: as ReadIsWhole says it, and after it.
OfKey(n) == \E b \in 1..n : file[b] = <<"begin">> /\ \A k \in b..(n - 1) : file[k] # <<"end">>
StillOfKey(n) == \E b \in 1..n : file[b] = <<"begin">> /\ \A k \in b..n : file[k] # <<"end">>
View(n) == IF OfKey(n) THEN <<Marker>> ELSE file[n]

LEMMA KeyGoesOn ==
  ASSUME NEW n \in Nat \ {0}
  PROVE  /\ OfKey(n) <=> StillOfKey(n - 1) \/ file[n] = <<"begin">>
         /\ StillOfKey(n) <=> OfKey(n) /\ file[n] # <<"end">>
         /\ StillOfKey(n) \in BOOLEAN /\ ~ StillOfKey(0)
  <1>1. OfKey(n) => StillOfKey(n - 1) \/ file[n] = <<"begin">>
    <2> SUFFICES ASSUME NEW b \in 1..n, file[b] = <<"begin">>, \A k \in b..(n - 1) : file[k] # <<"end">>,
                        b # n
                 PROVE  StillOfKey(n - 1)
      BY DEF OfKey
    <2>1. b \in 1..(n - 1)
      OBVIOUS
    <2> QED
      BY <2>1 DEF StillOfKey
  <1>2. StillOfKey(n - 1) => OfKey(n)
    <2> SUFFICES ASSUME NEW b \in 1..(n - 1), file[b] = <<"begin">>, \A k \in b..(n - 1) : file[k] # <<"end">>
                 PROVE  OfKey(n)
      BY DEF StillOfKey
    <2>1. b \in 1..n
      OBVIOUS
    <2> QED
      BY <2>1 DEF OfKey
  <1>3. file[n] = <<"begin">> => OfKey(n)
    <2>1. n \in 1..n /\ n..(n - 1) = {}
      OBVIOUS
    <2> QED
      BY <2>1 DEF OfKey
  <1>4. StillOfKey(n) => OfKey(n) /\ file[n] # <<"end">>
    <2> SUFFICES ASSUME NEW b \in 1..n, file[b] = <<"begin">>, \A k \in b..n : file[k] # <<"end">>
                 PROVE  OfKey(n) /\ file[n] # <<"end">>
      BY DEF StillOfKey
    <2>1. n \in b..n /\ b..(n - 1) \subseteq b..n
      OBVIOUS
    <2> QED
      BY <2>1 DEF OfKey
  <1>5. OfKey(n) /\ file[n] # <<"end">> => StillOfKey(n)
    <2> SUFFICES ASSUME NEW b \in 1..n, file[b] = <<"begin">>, \A k \in b..(n - 1) : file[k] # <<"end">>,
                        file[n] # <<"end">>
                 PROVE  StillOfKey(n)
      BY DEF OfKey
    <2>1. \A k \in b..n : k = n \/ k \in b..(n - 1)
      OBVIOUS
    <2> QED
      BY <2>1 DEF StillOfKey
  <1>6. ~ StillOfKey(0) /\ StillOfKey(n) \in BOOLEAN
    <2>1. 1..0 = {}
      OBVIOUS
    <2> QED
      BY <2>1 DEF StillOfKey
  <1> QED
    BY <1>1, <1>2, <1>3, <1>4, <1>5, <1>6

\* The redactor of a read knows at every line whether it is of a key.
LEMMA FileProjected ==
  ASSUME file \in Seq(FileLine), NEW start, NEW last
  PROVE  Projected(start, last) = SubSeq([n \in 1..Len(file) |-> View(n)], start, last)
  <1> DEFINE L == Len(file)
             none == [inKey |-> FALSE, lines |-> <<>>]
             Body(g) == [n \in 0..L |-> IF n = 0 THEN [inKey |-> FALSE, lines |-> <<>>]
                                        ELSE ProjectLine(g[n - 1], file[n])]
             Views(n) == [i \in 1..n |-> View(i)]
             f == [n \in 0..L |-> [inKey |-> StillOfKey(n), lines |-> Views(n)]]
             scan == CHOOSE g : g = Body(g)
  <1>1. L \in Nat /\ \A n \in 1..L : file[n] \in FileLine
    OBVIOUS
  <1>2. ASSUME NEW n \in 1..L PROVE f[n] = ProjectLine(f[n - 1], file[n])
    <2>1. n \in 0..L /\ n - 1 \in 0..L /\ n \in Nat \ {0} /\ n - 1 \in Nat /\ file[n] \in FileLine
      BY <1>1
    <2> DEFINE before == Views(n - 1)
               after == Views(n)
               key == StillOfKey(n - 1)
               line == file[n]
               r == RedactLine(key, line)
               view == View(n)
               short == f[n - 1]
    <2>2. key \in BOOLEAN
      BY DEF StillOfKey
    <2>3. f[n] = [inKey |-> StillOfKey(n), lines |-> after] /\ short = [inKey |-> key, lines |-> before]
      <3> HIDE DEF L, Views
      <3> QED
        BY <2>1, Zenon
    <2>4. short.inKey = key /\ short.lines = before
      <3> HIDE DEF key, before, short
      <3> QED
        BY <2>3
    <2>5. after = Append(before, view)
      <3> DEFINE m == n - 1
      <3>1. m \in Nat /\ n = m + 1
        BY <2>1
      <3>2. before = [i \in 1..m |-> View(i)] /\ after = [i \in 1..(m + 1) |-> View(i)] /\ view = View(m + 1)
        BY <3>1
      <3> HIDE DEF m, before, after, view
      <3>3. before \in Seq({View(i) : i \in 1..(m + 1)}) /\ Len(before) = m
        BY <3>1, <3>2
      <3> QED
        BY <3>1, <3>2, <3>3
    <2>6. r.out = view /\ r.inKey = StillOfKey(n)
      <3>1. OfKey(n) <=> key \/ line = <<"begin">>
        BY <2>1, KeyGoesOn
      <3>2. StillOfKey(n) <=> OfKey(n) /\ line # <<"end">>
        BY <2>1, KeyGoesOn
      <3>3. StillOfKey(n) \in BOOLEAN
        BY <2>1, KeyGoesOn
      <3> HIDE DEF key, line
      <3>4. /\ r.out = IF key \/ line = <<"begin">> THEN <<Marker>> ELSE line
            /\ r.inKey \in BOOLEAN
            /\ r.inKey <=> (key \/ line = <<"begin">>) /\ line # <<"end">>
        BY <2>1, <2>2, LineProjected DEF line
      <3> HIDE DEF r
      <3>5. r.inKey <=> StillOfKey(n)
        BY <3>1, <3>2, <3>4
      <3>6. r.inKey = StillOfKey(n)
        BY <3>3, <3>4, <3>5
      <3>7. r.out = view
        BY <3>1, <3>4 DEF View, line
      <3> QED
        BY <3>6, <3>7
    <2>7. ProjectLine(short, line) = [inKey |-> r.inKey, lines |-> Append(before, r.out)]
      <3> HIDE DEF short, key, before, line
      <3> QED
        BY <2>4, Zenon DEF ProjectLine, r
    <2> HIDE DEF short, before, after, r, line
    <2> QED
      BY <2>3, <2>5, <2>6, <2>7, Zenon DEF short, line
  <1>3. f[0] = none
    <2>1. f[0] = [inKey |-> StillOfKey(0), lines |-> Views(0)]
      BY <1>1
    <2>2. Views(0) = <<>>
      OBVIOUS
    <2>3. StillOfKey(0) = FALSE
      BY DEF StillOfKey
    <2> HIDE DEF f
    <2> QED
      BY <2>1, <2>2, <2>3, Zenon
  <1>4. f = Body(f)
    <2>1. f = [n \in 0..L |-> f[n]]
      OBVIOUS
    <2> HIDE DEF f, L
    <2>2. \A n \in 0..L : f[n] = Body(f)[n]
      <3>1. ASSUME NEW n \in 0..L PROVE f[n] = Body(f)[n]
        <4>1. n = 0 \/ (n \in 1..L /\ n # 0)
          BY <1>1
        <4> QED
          BY <1>2, <1>3, <4>1, Zenon
      <3> QED
        BY <3>1
    <2> QED
      BY <2>1, <2>2
  <1>5. scan = Body(scan)
    <2> HIDE DEF Body
    <2> QED
      BY <1>4
  <1>6. Projected(start, last) = SubSeq(scan[L].lines, start, last)
    BY DEF Projected
  <1>7. scan[L] = f[L]
    <2> DEFINE S == {n \in 0..L : scan[n] = f[n]}
    <2> HIDE DEF scan, f, L
    <2>1. 0 \in S
      <3>1. scan[0] = none
        <4>1. 0 \in 0..L
          BY <1>1
        <4> QED
          BY <1>5, <4>1, Zenon
      <3> QED
        BY <1>1, <1>3, <3>1
    <2>2. ASSUME NEW n \in 0..(L - 1), n \in S PROVE n + 1 \in S
      <3>1. n + 1 \in 1..L /\ n + 1 \in 0..L /\ n + 1 # 0 /\ (n + 1) - 1 = n /\ scan[n] = f[n]
        BY <1>1, <2>2
      <3>2. scan[n + 1] = ProjectLine(scan[n], file[n + 1])
        BY <1>5, <3>1, Zenon
      <3>3. f[n + 1] = ProjectLine(f[n], file[n + 1])
        BY <1>2, <3>1
      <3> QED
        BY <3>1, <3>2, <3>3
    <2>3. 0..L \subseteq S
      <3> HIDE DEF S
      <3> QED
        BY <1>1, <2>1, <2>2, UpTo
    <2> QED
      BY <1>1, <2>3
  <1>8. f[L].lines = Views(L)
    <2> DEFINE views == Views(L)
               key == StillOfKey(L)
    <2>1. f[L] = [inKey |-> key, lines |-> views]
      <3> HIDE DEF L, views, key
      <3> QED
        BY <1>1 DEF views, key
    <2> HIDE DEF f, views, key
    <2>2. f[L].lines = views
      BY <2>1
    <2> QED
      BY <2>2 DEF views
  <1> HIDE DEF scan, f
  <1> QED
    BY <1>6, <1>7, <1>8

LEMMA Largest ==
  ASSUME NEW L \in Nat, NEW T \in SUBSET (0..L), T # {}
  PROVE  Max(T) \in T /\ \A n \in T : n <= Max(T)
  <1> DEFINE U == {L - n : n \in T}
  <1>1. U \in SUBSET Nat /\ U # {}
    OBVIOUS
  <1>2. PICK u \in U : \A n \in U : u <= n
    <2> HIDE DEF U
    <2> QED
      BY <1>1, LeastNumber
  <1>3. L - u \in T /\ \A n \in T : L - u >= n
    BY <1>2
  <1>4. \E m \in T : \A n \in T : m >= n
    BY <1>3
  <1>5. Max(T) \in T /\ \A n \in T : Max(T) >= n
    BY <1>4 DEF Max
  <1> QED
    BY <1>5

LEMMA FirstOfBytes ==
  ASSUME NEW sizes
  PROVE  FirstBytes(sizes, 0) = 0 /\ (sizes[1] \in Nat => FirstBytes(sizes, 1) = sizes[1])
  <1>1. FirstBytes(sizes, 0) = 0
    <2> DEFINE Body(g) == [k \in 0..0 |-> IF k = 0 THEN 0 ELSE g[k - 1] + sizes[k]]
               f == [k \in 0..0 |-> 0]
               sum == CHOOSE g : g = Body(g)
    <2>1. f = Body(f)
      OBVIOUS
    <2>2. sum = Body(sum)
      <3> HIDE DEF Body
      <3> QED
        BY <2>1
    <2>3. FirstBytes(sizes, 0) = sum[0]
      BY DEF FirstBytes
    <2> HIDE DEF sum
    <2> QED
      BY <2>2, <2>3
  <1>2. ASSUME sizes[1] \in Nat PROVE FirstBytes(sizes, 1) = sizes[1]
    <2> DEFINE Body(g) == [k \in 0..1 |-> IF k = 0 THEN 0 ELSE g[k - 1] + sizes[k]]
               f == [k \in 0..1 |-> IF k = 0 THEN 0 ELSE sizes[1]]
               sum == CHOOSE g : g = Body(g)
    <2>1. f = Body(f)
      <3>1. \A k \in 0..1 : k = 0 \/ k = 1
        OBVIOUS
      <3>2. f[0] = 0 /\ f[1] = sizes[1]
        OBVIOUS
      <3>3. f[0] + sizes[1] = sizes[1]
        BY <1>2, <3>2
      <3>4. \A k \in 0..1 : f[k] = Body(f)[k]
        <4> HIDE DEF f
        <4> QED
          BY <3>1, <3>2, <3>3
      <3> HIDE DEF f
      <3>5. f = [k \in 0..1 |-> f[k]]
        BY DEF f
      <3> QED
        BY <3>4, <3>5
    <2>2. sum = Body(sum)
      <3> HIDE DEF Body
      <3> QED
        BY <2>1
    <2>3. FirstBytes(sizes, 1) = sum[1]
      BY DEF FirstBytes
    <2> HIDE DEF sum
    <2>4. sum[1] = sum[0] + sizes[1] /\ sum[0] = 0
      BY <2>2
    <2> QED
      BY <1>2, <2>3, <2>4
  <1> QED
    BY <1>1, <1>2

\* A page holds nothing only if its first line is too long for it.
LEMMA WrittenIs ==
  ASSUME NEW sizes, Len(sizes) \in Nat, NEW lines \in Nat \ {0}
  PROVE  /\ Written(sizes, lines) \in 0..Len(sizes)
         /\ Len(sizes) # 0 /\ sizes[1] \in Nat /\ Written(sizes, lines) = 0 => sizes[1] > MaxBytes
  <1> DEFINE T == {n \in 0..Len(sizes) : n <= lines /\ FirstBytes(sizes, n) <= MaxBytes}
  <1>1. MaxBytes \in Nat
    BY ToolsAssumption
  <1>2. 0 \in T /\ (Len(sizes) # 0 /\ sizes[1] \in Nat /\ sizes[1] <= MaxBytes => 1 \in T)
    BY <1>1, FirstOfBytes
  <1>3. T \in SUBSET (0..Len(sizes))
    OBVIOUS
  <1>4. Max(T) \in T /\ \A n \in T : n <= Max(T)
    <2> HIDE DEF T
    <2> QED
      BY <1>2, <1>3, Largest
  <1>5. Max(T) \in 0..Len(sizes)
    BY <1>3, <1>4
  <1>6. Len(sizes) # 0 /\ sizes[1] \in Nat /\ Max(T) = 0 => ~ (sizes[1] <= MaxBytes)
    <2> HIDE DEF T
    <2> QED
      BY <1>2, <1>4
  <1>7. Written(sizes, lines) = Max(T)
    BY DEF Written
  <1> QED
    BY <1>1, <1>5, <1>6, <1>7

\* What the broker leaves of a page holds nothing only if its first line is too
\* long for that.
LEMMA WholeIs ==
  ASSUME NEW sizes, NEW n \in Nat, NEW hint
  PROVE  /\ Whole(sizes, n, hint) \in 0..n
         /\ sizes[1] \in Nat /\ Whole(sizes, n, hint) = 0 /\ n # 0 =>
              sizes[1] - 1 > MaxBytes - MarkerBytes
  <1> DEFINE T == {k \in 0..n : k = 0 \/ FirstBytes(sizes, k) - 1 <= MaxBytes - MarkerBytes}
  <1>1. MaxBytes \in Nat /\ MarkerBytes \in Nat
    BY ToolsAssumption
  <1>2. 0 \in T /\ (sizes[1] \in Nat /\ sizes[1] - 1 <= MaxBytes - MarkerBytes /\ n # 0 => 1 \in T)
    BY <1>1, FirstOfBytes
  <1>3. T \in SUBSET (0..n)
    OBVIOUS
  <1>4. Max(T) \in T /\ \A k \in T : k <= Max(T)
    <2> HIDE DEF T
    <2> QED
      BY <1>2, <1>3, Largest
  <1>5. Max(T) \in 0..n
    BY <1>3, <1>4
  <1>6. sizes[1] \in Nat /\ Max(T) = 0 /\ n # 0 => ~ (sizes[1] - 1 <= MaxBytes - MarkerBytes)
    <2> HIDE DEF T
    <2> QED
      BY <1>2, <1>4
  <1>7. Whole(sizes, n, hint) = IF HintFits(sizes, n, hint) THEN n ELSE Max(T)
    BY DEF Whole
  <1> HIDE DEF T
  <1> QED
    BY <1>1, <1>5, <1>6, <1>7

\* What was shown of the file up to here, and why a read is over.
ReadInv ==
  /\ file \in Seq(FileLine)
  /\ DOMAIN reading = {"state", "start", "shown"} /\ reading.start \in 1..(Len(file) + 1)
  /\ reading.shown = [i \in 1..(reading.start - 1) |-> View(i)]
  /\ reading.state = "open" => reading.start <= Len(file)
  /\ reading.state = "ended" => reading.start = Len(file) + 1
  /\ reading.state = "stuck" =>
       reading.start <= Len(file) /\ Len(file[reading.start]) + 1 > MaxBytes - MarkerBytes
  /\ reading.state = "failed" => <<"binary">> \in ToSet(file)

LEMMA LinesAreOfFiles == Lines \subseteq FileLine /\ MaxLines \in Nat
  BY LinesAssumption DEF FileLine

LEMMA ReadInitial ==
  ASSUME Init
  PROVE  ReadInv
  <1>1. ASSUME NEW lines \in Seq(FileLine), ReadInit(lines) PROVE ReadInv
    <2>1. file = lines /\ reading = [state |-> IF lines = <<>> THEN "ended" ELSE "open",
                                     start |-> 1, shown |-> <<>>]
      BY <1>1 DEF ReadInit
    <2>2. /\ DOMAIN reading = {"state", "start", "shown"} /\ reading.start = 1 /\ reading.shown = <<>> /\ reading.state \in {"ended", "open"}
          /\ reading.state = "ended" <=> lines = <<>>
      BY <2>1
    <2>3. Len(file) \in Nat /\ (lines = <<>> <=> Len(file) = 0) /\ file \in Seq(FileLine)
      BY <2>1
    <2>4. [i \in 1..(1 - 1) |-> View(i)] = <<>>
      OBVIOUS
    <2> QED
      BY <2>2, <2>3, <2>4 DEF ReadInv
  <1>2. \E lines \in Seq(FileLine) : ReadInit(lines)
    <2>1. CASE subject = "read"
      <3>1. PICK n \in 0..MaxLines : \E lines \in [1..n -> Lines] : ReadInit(lines)
        BY <2>1 DEF Init
      <3>2. PICK lines \in [1..n -> Lines] : ReadInit(lines)
        BY <3>1
      <3>3. n \in Nat
        BY LinesAreOfFiles
      <3>4. lines \in Seq(FileLine)
        BY <3>3, LinesAreOfFiles
      <3> QED
        BY <3>2, <3>4
    <2>2. CASE subject # "read"
      <3>1. ReadInit(<<>>) /\ <<>> \in Seq(FileLine)
        BY <2>2 DEF Init
      <3> QED
        BY <3>1
    <2> QED
      BY <2>1, <2>2
  <1> QED
    BY <1>1, <1>2

LEMMA ViewsTyped ==
  ASSUME file \in Seq(FileLine), NEW n \in 1..Len(file)
  PROVE  Len(View(n)) \in Nat /\ (View(n) = <<Marker>> => Len(View(n)) = 1) /\ View(n) \in {<<Marker>>, file[n]}
  <1>1. file[n] \in FileLine
    OBVIOUS
  <1>2. Len(file[n]) \in Nat
    BY <1>1 DEF FileLine
  <1>3. Len(<<Marker>>) = 1
    OBVIOUS
  <1> QED
    BY <1>2, <1>3 DEF View

LEMMA CutOf ==
  ASSUME NEW S, NEW s \in Seq(S), NEW n \in 0..Len(s)
  PROVE  /\ SubSeq(s, 1, n) \in Seq(S) /\ Len(SubSeq(s, 1, n)) = n
         /\ \A i \in 1..n : SubSeq(s, 1, n)[i] = s[i]
  OBVIOUS

LEMMA JoinOf ==
  ASSUME NEW S, NEW a \in Seq(S), NEW b \in Seq(S)
  PROVE  /\ a \o b \in Seq(S) /\ Len(a \o b) = Len(a) + Len(b)
         /\ \A i \in 1..(Len(a) + Len(b)) :
               (a \o b)[i] = IF i <= Len(a) THEN a[i] ELSE b[i - Len(a)]
  OBVIOUS

\* The views of a range of lines follow those before it.
LEMMA ViewsFollow ==
  ASSUME NEW s \in Nat \ {0}, NEW m \in Nat, NEW k \in 0..m, NEW lines,
         lines = [j \in 1..m |-> View(s + j - 1)]
  PROVE  [i \in 1..(s - 1) |-> View(i)] \o SubSeq(lines, 1, k) = [i \in 1..(s + k - 1) |-> View(i)]
  <1> DEFINE V == {View(i) : i \in Nat}
             a == [i \in 1..(s - 1) |-> View(i)]
             b == SubSeq(lines, 1, k)
             c == [i \in 1..(s + k - 1) |-> View(i)]
  <1>1. a \in Seq(V) /\ Len(a) = s - 1 /\ \A i \in 1..(s - 1) : a[i] = View(i)
    OBVIOUS
  <1>2. lines \in Seq(V) /\ Len(lines) = m /\ \A j \in 1..m : lines[j] = View(s + j - 1)
    <2>1. \A j \in 1..m : s + j - 1 \in Nat
      OBVIOUS
    <2> QED
      BY <2>1
  <1>3. c \in Seq(V) /\ Len(c) = s + k - 1 /\ \A i \in 1..(s + k - 1) : c[i] = View(i)
    OBVIOUS
  <1> HIDE DEF V, a, c
  <1>4. b \in Seq(V) /\ Len(b) = k /\ \A j \in 1..k : b[j] = View(s + j - 1)
    <2>1. k \in 0..Len(lines) /\ lines \in Seq(V)
      BY <1>2
    <2>2. b \in Seq(V) /\ Len(b) = k /\ \A j \in 1..k : b[j] = lines[j]
      BY <2>1, CutOf
    <2> HIDE DEF b
    <2>3. \A j \in 1..k : j \in 1..m
      OBVIOUS
    <2> QED
      BY <1>2, <2>2, <2>3
  <1> HIDE DEF b
  <1>5. a \o b \in Seq(V) /\ Len(a \o b) = s + k - 1
        /\ \A i \in 1..(s + k - 1) : (a \o b)[i] = IF i <= s - 1 THEN a[i] ELSE b[i - (s - 1)]
    <2>1. /\ a \o b \in Seq(V) /\ Len(a \o b) = Len(a) + Len(b)
          /\ \A i \in 1..(Len(a) + Len(b)) :
                (a \o b)[i] = IF i <= Len(a) THEN a[i] ELSE b[i - Len(a)]
      BY <1>1, <1>4, JoinOf
    <2>2. Len(a) = s - 1 /\ Len(b) = k /\ Len(a) + Len(b) = s + k - 1
      BY <1>1, <1>4
    <2> QED
      BY <2>1, <2>2
  <1> DEFINE d == a \o b
  <1> HIDE DEF d
  <1>6. d \in Seq(V) /\ Len(d) = s + k - 1 /\ \A i \in 1..(s + k - 1) : d[i] = View(i)
    <2>1. ASSUME NEW i \in 1..(s + k - 1) PROVE d[i] = View(i)
      <3>1. CASE i <= s - 1
        BY <1>1, <1>5, <3>1 DEF d
      <3>2. CASE ~ (i <= s - 1)
        <4> DEFINE j == i - (s - 1)
        <4>1. j \in 1..k /\ s + j - 1 = i
          BY <3>2
        <4>2. d[i] = b[j]
          BY <1>5, <3>2 DEF d
        <4> HIDE DEF j
        <4> QED
          BY <1>4, <4>1, <4>2
      <3> QED
        BY <3>1, <3>2
    <2> QED
      BY <1>5, <2>1 DEF d
  <1>7. d = c
    <2>1. Len(d) = Len(c) /\ \A i \in 1..Len(d) : d[i] = c[i]
      BY <1>3, <1>6
    <2> QED
      BY <1>3, <1>6, <2>1
  <1> QED
    BY <1>7 DEF d, a, b, c

LEMMA SomeOf ==
  ASSUME NEW S, NEW s \in Seq(S), NEW n \in Nat, n <= Len(s)
  PROVE  ToSet(SubSeq(s, 1, n)) \subseteq ToSet(s)
  <1>1. DOMAIN SubSeq(s, 1, n) = 1..n /\ DOMAIN s = 1..Len(s)
        /\ \A i \in 1..n : SubSeq(s, 1, n)[i] = s[i] /\ i \in 1..Len(s)
    OBVIOUS
  <1> QED
    BY <1>1 DEF ToSet

LEMMA ReadPageKeeps ==
  ASSUME ReadInv, NEW last \in DOMAIN file, ReadPage(last)
  PROVE  ReadInv'
  <1> DEFINE s == reading.start
             L == Len(file)
             m == last - s + 1
             lines == Projected(s, last)
             sizes == [i \in DOMAIN lines |-> Len(lines[i]) + 2]
             n == Written(sizes, ReadLines)
             cut == n < Len(lines)
             hint == HintBytes + 1
             k == IF cut THEN Whole(sizes, n, hint) ELSE n
             binary == <<"binary">> \in ToSet(Scanned(s + n - 1))
  <1>1. /\ reading.state = "open" /\ last \in s..L /\ file' = file
        /\ IF binary
           THEN reading' = [reading EXCEPT !.state = "failed"]
           ELSE reading' =
                  [state |-> IF cut /\ k = 0 THEN "stuck" ELSE IF s + k > L THEN "ended" ELSE "open",
                   start |-> s + k,
                   shown |-> reading.shown \o SubSeq(lines, 1, k)]
    BY DEF ReadPage, Reads
  <1>2. /\ file \in Seq(FileLine) /\ L \in Nat /\ s \in 1..L /\ last \in 1..L
        /\ reading.shown = [i \in 1..(s - 1) |-> View(i)]
        /\ DOMAIN reading = {"state", "start", "shown"}
    BY <1>1 DEF ReadInv
  <1> HIDE DEF s, L
  <1>3. m \in Nat \ {0} /\ s \in Nat \ {0} /\ last = s + m - 1
    BY <1>1, <1>2
  <1>4. lines = [j \in 1..m |-> View(s + j - 1)]
    <2> DEFINE views == [i \in 1..L |-> View(i)]
    <2>1. lines = SubSeq(views, s, last)
      BY <1>2, FileProjected DEF L
    <2>2. SubSeq(views, s, last) = [j \in 1..m |-> views[s + j - 1]]
      <3> HIDE DEF views
      <3> QED
        BY <1>2, <1>3 DEF SubSeq
    <2>3. ASSUME NEW j \in 1..m PROVE views[s + j - 1] = View(s + j - 1)
      <3>1. s + j - 1 \in 1..L
        BY <1>1, <1>2, <1>3
      <3> QED
        BY <3>1
    <2> HIDE DEF lines, views, m
    <2> QED
      BY <2>1, <2>2, <2>3
  <1> HIDE DEF lines, m
  <1>5. Len(lines) = m /\ DOMAIN lines = 1..m /\ lines[1] = View(s)
    <2>1. s + 1 - 1 = s /\ 1 \in 1..m /\ m \in Nat
      BY <1>3
    <2>2. lines[1] = View(s + 1 - 1)
      BY <1>4, <2>1
    <2>3. Len(lines) = m /\ DOMAIN lines = 1..m
      BY <1>4, <2>1
    <2> QED
      BY <2>1, <2>2, <2>3
  <1>6. Len(View(s)) \in Nat
    BY <1>2, ViewsTyped DEF L
  <1>7. Len(sizes) = m /\ sizes[1] = Len(View(s)) + 2 /\ sizes[1] \in Nat
    <2>1. 1 \in 1..m /\ m \in Nat
      BY <1>3
    <2>2. sizes[1] = Len(View(s)) + 2
      BY <1>5, <2>1
    <2>3. Len(sizes) = m
      BY <1>5, <2>1
    <2> HIDE DEF sizes
    <2> QED
      BY <1>6, <2>2, <2>3
  <1> HIDE DEF sizes
  <1>8. ReadLines \in Nat \ {0} /\ MarkerBytes \in Nat /\ MarkerBytes > 0 /\ MaxBytes \in Nat
        /\ MarkerBytes + 2 <= MaxBytes
    BY ToolsAssumption
  <1>9. n \in 0..m /\ (n = 0 => sizes[1] > MaxBytes)
    BY <1>3, <1>7, <1>8, WrittenIs
  <1> HIDE DEF n
  <1>10. /\ k \in 0..n /\ k \in 0..m /\ (~ cut => k = m)
         /\ cut /\ k = 0 => sizes[1] - 1 > MaxBytes - MarkerBytes
    <2>1. Whole(sizes, n, hint) \in 0..n
          /\ (Whole(sizes, n, hint) = 0 /\ n # 0 => sizes[1] - 1 > MaxBytes - MarkerBytes)
      <3>1. n \in Nat
        BY <1>3, <1>9
      <3> HIDE DEF hint
      <3> QED
        BY <1>7, <3>1, WholeIs
    <2> HIDE DEF hint
    <2>2. CASE cut
      <3>1. k = Whole(sizes, n, hint)
        BY <2>2
      <3> HIDE DEF k
      <3> QED
        BY <1>3, <1>7, <1>8, <1>9, <2>1, <2>2, <3>1
    <2>3. CASE ~ cut
      BY <1>3, <1>5, <1>9, <2>3
    <2> QED
      BY <2>2, <2>3
  <1> HIDE DEF k
  <1>11. CASE binary
    <2>1. reading' = [reading EXCEPT !.state = "failed"]
      BY <1>1, <1>11
    <2>2. /\ DOMAIN reading' = DOMAIN reading /\ reading'.start = s /\ reading'.state = "failed"
          /\ reading'.shown = reading.shown
      BY <1>2, <2>1 DEF s
    <2>3. <<"binary">> \in ToSet(file)
      <3> DEFINE x == s + n - 1
                 y == IF x < L THEN x + 1 ELSE x
      <3>1. y \in Nat /\ y <= L
        BY <1>1, <1>2, <1>3, <1>9
      <3>2. Scanned(x) = SubSeq(file, 1, y)
        BY DEF Scanned, L
      <3> HIDE DEF x, y
      <3>3. ToSet(Scanned(x)) \subseteq ToSet(file)
        BY <1>2, <3>1, <3>2, SomeOf DEF L
      <3> QED
        BY <1>11, <3>3 DEF x
    <2> HIDE DEF binary
    <2>4. (\A i \in Nat : View(i) = View(i)')
      BY <1>1 DEF View, OfKey
    <2>5. (reading.shown = [i \in 1..(reading.start - 1) |-> View(i)])'
      BY <1>1, <1>2, <2>2 DEF View, OfKey
    <2> QED
      BY <1>1, <1>2, <2>2, <2>3, <2>5 DEF ReadInv, L
  <1>12. CASE ~ binary
    <2> DEFINE state == IF cut /\ k = 0 THEN "stuck" ELSE IF s + k > L THEN "ended" ELSE "open"
               shown == reading.shown \o SubSeq(lines, 1, k)
    <2>1. reading' = [state |-> state, start |-> s + k, shown |-> shown]
      BY <1>1, <1>12
    <2>2. shown = [i \in 1..(s + k - 1) |-> View(i)]
      <3>1. [i \in 1..(s - 1) |-> View(i)] \o SubSeq(lines, 1, k) = [i \in 1..(s + k - 1) |-> View(i)]
        BY <1>3, <1>4, <1>10, ViewsFollow
      <3> QED
        BY <1>2, <3>1, Zenon
    <2> HIDE DEF shown, state, binary
    <2>3. /\ DOMAIN reading' = {"state", "start", "shown"} /\ reading'.start = s + k
          /\ reading'.state = state /\ reading'.shown = shown
      BY <2>1
    <2>4. s + k \in 1..(L + 1)
      BY <1>1, <1>2, <1>3, <1>10
    <2>5. /\ state = "open" => s + k <= L
          /\ state = "ended" => s + k = L + 1
          /\ state = "stuck" => k = 0 /\ cut
          /\ state # "failed"
      <3> HIDE DEF cut
      <3> QED
        BY <2>4, <1>2 DEF state
    <2>6. state = "stuck" => s + k <= L /\ Len(file[s + k]) + 1 > MaxBytes - MarkerBytes
      <3> SUFFICES ASSUME state = "stuck" PROVE s + k <= L /\ Len(file[s + k]) + 1 > MaxBytes - MarkerBytes
        OBVIOUS
      <3>1. k = 0 /\ cut
        BY <2>5
      <3>2. sizes[1] - 1 > MaxBytes - MarkerBytes
        BY <1>10, <3>1
      <3>3. s + k = s
        BY <1>2, <3>1
      <3>4. Len(View(s)) + 1 > MaxBytes - MarkerBytes
        BY <1>6, <1>7, <1>8, <3>2
      <3>5. View(s) \in {<<Marker>>, file[s]} /\ (View(s) = <<Marker>> => Len(View(s)) = 1)
        BY <1>2, ViewsTyped DEF L
      <3>6. View(s) = file[s]
        <4> DEFINE view == View(s)
                   marker == <<Marker>>
        <4> HIDE DEF view, marker
        <4>1. view \in {marker, file[s]} /\ (view = marker => Len(view) = 1) /\ Len(view) + 1 > MaxBytes - MarkerBytes
          BY <3>4, <3>5 DEF view, marker
        <4>2. view = file[s]
          <5> SUFFICES ASSUME view = marker PROVE FALSE
            BY <4>1
          <5>1. 1 + 1 > MaxBytes - MarkerBytes
            BY <4>1, Zenon
          <5> QED
            BY <1>8, <5>1
        <4> QED
          BY <4>2 DEF view
      <3> QED
        BY <1>2, <3>3, <3>4, <3>6
    <2>7. (reading.shown = [i \in 1..(reading.start - 1) |-> View(i)])'
      <3>1. reading'.shown = [i \in 1..(reading'.start - 1) |-> View(i)]
        <4> DEFINE upTo(x) == [i \in 1..x |-> View(i)]
                   next == reading'.start
        <4>1. shown = upTo(s + k - 1)
          BY <2>2
        <4> HIDE DEF upTo
        <4>2. next = s + k
          BY <2>3
        <4> HIDE DEF next
        <4>4. s + k - 1 = (s + k) - 1
          BY <1>2, <1>3, <1>10
        <4>3. reading'.shown = upTo(next - 1)
          BY <2>3, <4>1, <4>2, <4>4, Zenon
        <4> QED
          BY <4>3 DEF upTo, next
      <3>2. file' = file
        BY <1>1
      <3> QED
        BY <3>1, <3>2 DEF View, OfKey
    <2> QED
      BY <1>1, <1>2, <2>3, <2>4, <2>5, <2>6, <2>7 DEF ReadInv, L
  <1> QED
    BY <1>11, <1>12

LEMMA ReadStep == ReadInv /\ [Next]_<<subject, log, toolVars>> => ReadInv'
  <1> SUFFICES ASSUME ReadInv, [Next]_<<subject, log, toolVars>> PROVE ReadInv'
    OBVIOUS
  <1>1. ASSUME UNCHANGED readVars PROVE ReadInv'
    BY <1>1 DEF readVars, ReadInv, View, OfKey
  <1>2. CASE AppendRecord
    BY <1>1, <1>2 DEF AppendRecord, toolVars
  <1>3. CASE Investigate
    <2>1. CASE ListPage
      BY <1>1, <2>1 DEF ListPage
    <2>2. CASE Changes
      BY <1>1, <2>2 DEF Changes
    <2>3. CASE \E last \in DOMAIN file : ReadPage(last)
      BY <2>3, ReadPageKeeps
    <2> QED
      BY <1>3, <2>1, <2>2, <2>3 DEF Investigate, ToolsNext
  <1>4. CASE UNCHANGED <<subject, log, toolVars>>
    BY <1>1, <1>4 DEF toolVars
  <1> QED
    BY <1>2, <1>3, <1>4 DEF Next

\* However a file is read, page after page, every line is shown once and in
\* order, and what belongs to a private key only as its marker; a read gives up
\* only at a line too long for a page, or for what is not text
\* (readTool.Execute tools.go:115-151, Broker.project broker.go:168-180).
THEOREM AlgorithmsReadIsWhole == Spec => []ReadIsWhole
  <1>1. ReadInv => ReadIsWhole
    <2> SUFFICES ASSUME ReadInv PROVE ReadIsWhole
      OBVIOUS
    <2> DEFINE s == reading.start
    <2>1. /\ s \in 1..(Len(file) + 1) /\ Len(file) \in Nat
          /\ reading.shown = [i \in 1..(s - 1) |-> View(i)]
      BY DEF ReadInv
    <2> HIDE DEF s
    <2>2. DOMAIN reading.shown = 1..(s - 1) /\ Len(reading.shown) = s - 1
          /\ \A i \in 1..(s - 1) : reading.shown[i] = View(i)
      BY <2>1
    <2>3. reading.state = "ended" => Len(reading.shown) = Len(file)
      BY <2>1, <2>2 DEF ReadInv, s
    <2>4. \A i \in DOMAIN reading.shown :
            reading.shown[i] = IF \E b \in 1..i : file[b] = <<"begin">> /\ \A k \in b..(i - 1) : file[k] # <<"end">>
                               THEN <<Marker>> ELSE file[i]
      BY <2>2 DEF View, OfKey
    <2> QED
      BY <2>3, <2>4 DEF ReadInv, ReadIsWhole
  <1> QED
    BY <1>1, ReadInitial, ReadStep, PTL DEF Spec
-----------------------------------------------------------------------------
(***************************************************************************)
(* The order of paths, as that of their characters with a least one behind *)
(* the end.                                                                *)
(***************************************************************************)
Character(p, i) == IF i \in DOMAIN p THEN p[i] ELSE -1
FirstDifference(p, q, i) ==
  Character(p, i) < Character(q, i) /\ \A k \in 1..(i - 1) : Character(p, k) = Character(q, k)

LEMMA CharactersTyped ==
  ASSUME NEW p \in Seq(Nat)
  PROVE  /\ Len(p) \in Nat /\ DOMAIN p = 1..Len(p)
         /\ \A i \in Nat \ {0} : /\ Character(p, i) \in Int /\ Character(p, i) >= -1
                                 /\ i <= Len(p) => Character(p, i) = p[i] /\ p[i] \in Nat
                                 /\ i > Len(p) => Character(p, i) = -1
  <1>1. Len(p) \in Nat /\ DOMAIN p = 1..Len(p) /\ \A i \in 1..Len(p) : p[i] \in Nat
    OBVIOUS
  <1> QED
    BY <1>1 DEF Character

LEMMA SameElements ==
  ASSUME NEW S, NEW a \in Seq(S), NEW b \in Seq(S), Len(a) = Len(b), \A k \in 1..Len(a) : a[k] = b[k]
  PROVE  a = b
  OBVIOUS

LEMMA SameCharacters ==
  ASSUME NEW p \in Seq(Nat), NEW q \in Seq(Nat), NEW n \in Nat, n <= Len(p), n <= Len(q)
  PROVE  SubSeq(p, 1, n) = SubSeq(q, 1, n) <=> \A k \in 1..n : Character(p, k) = Character(q, k)
  <1> DEFINE a == SubSeq(p, 1, n)
             b == SubSeq(q, 1, n)
  <1>1. /\ a \in Seq(Nat) /\ b \in Seq(Nat) /\ Len(a) = n /\ Len(b) = n
        /\ \A k \in 1..n : a[k] = p[k] /\ b[k] = q[k]
    <2>1. n \in 0..Len(p) /\ n \in 0..Len(q)
      BY CharactersTyped
    <2> QED
      BY <2>1, CutOf
  <1> HIDE DEF a, b
  <1>2. a = b <=> \A k \in 1..n : a[k] = b[k]
    <2>1. (\A k \in 1..n : a[k] = b[k]) => a = b
      BY <1>1, SameElements
    <2> QED
      BY <2>1
  <1>3. \A k \in 1..n : Character(p, k) = p[k] /\ Character(q, k) = q[k]
    <2>1. ASSUME NEW k \in 1..n PROVE Character(p, k) = p[k] /\ Character(q, k) = q[k]
      <3>1. k \in Nat \ {0} /\ k <= Len(p) /\ k <= Len(q)
        BY CharactersTyped
      <3> QED
        BY <3>1, CharactersTyped
    <2> QED
      BY <2>1
  <1> QED
    BY <1>1, <1>2, <1>3 DEF a, b

LEMMA OrderIs ==
  ASSUME NEW p \in Seq(Nat), NEW q \in Seq(Nat)
  PROVE  Precedes(p, q) <=> \E i \in Nat \ {0} : FirstDifference(p, q, i)
  <1>1. /\ Len(p) \in Nat /\ DOMAIN p = 1..Len(p) /\ Len(q) \in Nat /\ DOMAIN q = 1..Len(q)
    BY CharactersTyped
  <1>2. ASSUME IsStrictPrefix(p, q) PROVE \E i \in Nat \ {0} : FirstDifference(p, q, i)
    <2>1. SubSeq(p, 1, Len(p)) = SubSeq(q, 1, Len(p)) /\ p # q
      BY <1>2 DEF IsStrictPrefix, IsPrefix
    <2>7. Len(p) <= Len(q)
      BY <1>2 DEF IsStrictPrefix, IsPrefix
    <2>2. Len(p) # Len(q)
      <3> SUFFICES ASSUME Len(p) = Len(q) PROVE FALSE
        OBVIOUS
      <3>1. SubSeq(p, 1, Len(p)) = p /\ SubSeq(q, 1, Len(q)) = q
        OBVIOUS
      <3> QED
        BY <2>1, <3>1
    <2> DEFINE i == Len(p) + 1
    <2>3. i \in Nat \ {0} /\ i <= Len(q) /\ i > Len(p) /\ i - 1 = Len(p)
      <3> DEFINE a == Len(p)
                 b == Len(q)
      <3>1. a \in Nat /\ b \in Nat /\ a <= b /\ a # b
        BY <1>1, <2>2, <2>7
      <3> HIDE DEF a, b
      <3>2. a + 1 \in Nat \ {0} /\ a + 1 <= b /\ a + 1 > a /\ (a + 1) - 1 = a
        BY <3>1
      <3> QED
        BY <3>2 DEF a, b
    <2>4. \A k \in 1..(i - 1) : Character(p, k) = Character(q, k)
      <3>1. \A k \in 1..Len(p) : Character(p, k) = Character(q, k)
        <4>1. Len(p) <= Len(p)
          BY <1>1
        <4> QED
          BY <1>1, <2>1, <2>7, <4>1, SameCharacters
      <3> HIDE DEF i
      <3> QED
        BY <2>3, <3>1
    <2> HIDE DEF i
    <2>5. Character(p, i) = -1 /\ Character(q, i) \in Nat
      BY <2>3, CharactersTyped
    <2>6. Character(p, i) < Character(q, i)
      BY <2>5
    <2> QED
      BY <2>3, <2>4, <2>6 DEF FirstDifference
  <1>3. ASSUME NEW i \in DOMAIN p \cap DOMAIN q, p[i] < q[i], SubSeq(p, 1, i - 1) = SubSeq(q, 1, i - 1)
        PROVE  \E j \in Nat \ {0} : FirstDifference(p, q, j)
    <2>1. i \in Nat \ {0} /\ i <= Len(p) /\ i <= Len(q) /\ i - 1 \in Nat
      BY <1>1
    <2>2. Character(p, i) = p[i] /\ Character(q, i) = q[i]
      BY <2>1, CharactersTyped
    <2>3. \A k \in 1..(i - 1) : Character(p, k) = Character(q, k)
      <3>1. i - 1 <= Len(p) /\ i - 1 <= Len(q)
        BY <1>1, <2>1
      <3> QED
        BY <1>3, <2>1, <3>1, SameCharacters
    <2> QED
      BY <1>3, <2>1, <2>2, <2>3 DEF FirstDifference
  <1>4. ASSUME NEW i \in Nat \ {0}, FirstDifference(p, q, i) PROVE Precedes(p, q)
    <2>1. Character(p, i) < Character(q, i) /\ \A k \in 1..(i - 1) : Character(p, k) = Character(q, k)
      BY <1>4 DEF FirstDifference
    <2>2. i <= Len(q)
      <3> SUFFICES ASSUME i > Len(q) PROVE FALSE
        BY <1>1
      <3>1. Character(q, i) = -1 /\ Character(p, i) \in Int /\ Character(p, i) >= -1
        BY CharactersTyped
      <3> QED
        BY <2>1, <3>1
    <2>3. CASE i <= Len(p)
      <3>1. i \in DOMAIN p \cap DOMAIN q /\ i - 1 \in Nat /\ i - 1 <= Len(p) /\ i - 1 <= Len(q)
        BY <1>1, <2>2, <2>3
      <3>2. p[i] < q[i]
        <4>1. Character(p, i) = p[i] /\ Character(q, i) = q[i]
          BY <2>2, <2>3, CharactersTyped
        <4> QED
          BY <2>1, <4>1
      <3>3. SubSeq(p, 1, i - 1) = SubSeq(q, 1, i - 1)
        BY <2>1, <3>1, SameCharacters
      <3> QED
        BY <3>1, <3>2, <3>3 DEF Precedes
    <2>4. CASE i > Len(p)
      <3>1. i = Len(p) + 1
        <4> SUFFICES ASSUME i # Len(p) + 1 PROVE FALSE
          OBVIOUS
        <4> DEFINE k == Len(p) + 1
        <4>1. k \in 1..(i - 1) /\ k \in Nat \ {0} /\ k > Len(p) /\ k <= Len(q)
          BY <1>1, <2>2, <2>4
        <4> HIDE DEF k
        <4>2. Character(p, k) = -1 /\ Character(q, k) \in Nat
          BY <4>1, CharactersTyped
        <4>3. Character(p, k) = Character(q, k)
          BY <2>1, <4>1
        <4> QED
          BY <4>2, <4>3
      <3>2. Len(p) < Len(q) /\ i - 1 = Len(p)
        BY <1>1, <2>2, <3>1
      <3>3. SubSeq(p, 1, Len(p)) = SubSeq(q, 1, Len(p))
        <4>1. Len(p) <= Len(p) /\ Len(p) <= Len(q) /\ \A k \in 1..Len(p) : Character(p, k) = Character(q, k)
          BY <1>1, <2>1, <3>2
        <4> QED
          BY <1>1, <4>1, SameCharacters
      <3>4. p # q /\ Len(p) <= Len(q)
        BY <1>1, <3>2
      <3> QED
        BY <3>3, <3>4 DEF Precedes, IsStrictPrefix, IsPrefix
    <2> QED
      BY <1>1, <2>3, <2>4
  <1>5. Precedes(p, q) => \E i \in Nat \ {0} : FirstDifference(p, q, i)
    BY <1>2, <1>3 DEF Precedes
  <1> QED
    BY <1>4, <1>5

LEMMA Irreflexive ==
  ASSUME NEW p \in Seq(Nat)
  PROVE  ~ Precedes(p, p)
  <1>1. \A i \in Nat \ {0} : ~ FirstDifference(p, p, i)
    BY CharactersTyped DEF FirstDifference
  <1> QED
    BY <1>1, OrderIs

LEMMA Transitive ==
  ASSUME NEW p \in Seq(Nat), NEW q \in Seq(Nat), NEW r \in Seq(Nat), Precedes(p, q), Precedes(q, r)
  PROVE  Precedes(p, r)
  <1>1. PICK i \in Nat \ {0} : FirstDifference(p, q, i)
    BY OrderIs
  <1>2. PICK j \in Nat \ {0} : FirstDifference(q, r, j)
    BY OrderIs
  <1>3. /\ Character(p, i) < Character(q, i) /\ \A k \in 1..(i - 1) : Character(p, k) = Character(q, k)
        /\ Character(q, j) < Character(r, j) /\ \A k \in 1..(j - 1) : Character(q, k) = Character(r, k)
    BY <1>1, <1>2 DEF FirstDifference
  <1>4. \A k \in Nat \ {0} : Character(p, k) \in Int /\ Character(q, k) \in Int /\ Character(r, k) \in Int
    BY CharactersTyped
  <1>5. CASE i < j
    <2>1. i \in 1..(j - 1) /\ \A k \in 1..(i - 1) : k \in 1..(j - 1)
      BY <1>5
    <2>2. FirstDifference(p, r, i)
      BY <1>3, <1>4, <2>1 DEF FirstDifference
    <2> QED
      BY <2>2, OrderIs
  <1>6. CASE i = j
    <2>1. FirstDifference(p, r, i)
      BY <1>3, <1>4, <1>6 DEF FirstDifference
    <2> QED
      BY <2>1, OrderIs
  <1>7. CASE i > j
    <2>1. j \in 1..(i - 1) /\ \A k \in 1..(j - 1) : k \in 1..(i - 1)
      BY <1>7
    <2>2. FirstDifference(p, r, j)
      BY <1>3, <1>4, <2>1 DEF FirstDifference
    <2> QED
      BY <2>2, OrderIs
  <1> QED
    BY <1>5, <1>6, <1>7

LEMMA Total ==
  ASSUME NEW p \in Seq(Nat), NEW q \in Seq(Nat), p # q
  PROVE  Precedes(p, q) \/ Precedes(q, p)
  <1> DEFINE D == {i \in Nat \ {0} : Character(p, i) # Character(q, i)}
  <1>1. D # {}
    <2> SUFFICES ASSUME D = {} PROVE FALSE
      OBVIOUS
    <2>1. \A i \in Nat \ {0} : Character(p, i) = Character(q, i)
      OBVIOUS
    <2>2. Len(p) \in Nat /\ Len(q) \in Nat
      BY CharactersTyped
    <2>3. Len(p) = Len(q)
      <3>1. CASE Len(p) < Len(q)
        <4> DEFINE i == Len(p) + 1
        <4>1. i \in Nat \ {0} /\ i > Len(p) /\ i <= Len(q)
          BY <2>2, <3>1
        <4> HIDE DEF i
        <4>2. Character(p, i) = -1 /\ Character(q, i) \in Nat
          BY <4>1, CharactersTyped
        <4> HIDE DEF D
        <4> QED
          BY <2>1, <4>1, <4>2
      <3>2. CASE Len(q) < Len(p)
        <4> DEFINE i == Len(q) + 1
        <4>1. i \in Nat \ {0} /\ i > Len(q) /\ i <= Len(p)
          BY <2>2, <3>2
        <4> HIDE DEF i
        <4>2. Character(q, i) = -1 /\ Character(p, i) \in Nat
          BY <4>1, CharactersTyped
        <4> HIDE DEF D
        <4> QED
          BY <2>1, <4>1, <4>2
      <3> HIDE DEF D
      <3> QED
        BY <2>2, <3>1, <3>2
    <2> HIDE DEF D
    <2>4. SubSeq(p, 1, Len(p)) = SubSeq(q, 1, Len(p))
      <3>1. Len(p) <= Len(q) /\ Len(p) <= Len(p)
        BY <2>2, <2>3
      <3>2. \A k \in 1..Len(p) : Character(p, k) = Character(q, k)
        BY <2>1, <2>2
      <3> QED
        BY <2>2, <3>1, <3>2, SameCharacters
    <2>5. SubSeq(p, 1, Len(p)) = p /\ SubSeq(q, 1, Len(q)) = q
      OBVIOUS
    <2> QED
      BY <2>3, <2>4, <2>5
  <1>2. D \in SUBSET Nat
    OBVIOUS
  <1>3. PICK i \in D : \A k \in D : i <= k
    <2> HIDE DEF D
    <2> QED
      BY <1>1, <1>2, LeastNumber
  <1>4. /\ i \in Nat \ {0} /\ Character(p, i) # Character(q, i)
        /\ \A k \in 1..(i - 1) : Character(p, k) = Character(q, k)
    BY <1>3
  <1>5. Character(p, i) \in Int /\ Character(q, i) \in Int
    BY <1>4, CharactersTyped
  <1> HIDE DEF D
  <1>6. FirstDifference(p, q, i) \/ FirstDifference(q, p, i)
    BY <1>4, <1>5 DEF FirstDifference
  <1> QED
    BY <1>4, <1>6, OrderIs

LEMMA Extends ==
  ASSUME NEW p \in Seq(Nat), NEW c \in Nat
  PROVE  Append(p, c) \in Seq(Nat) /\ Precedes(p, Append(p, c))
  <1> DEFINE q == Append(p, c)
  <1>1. q \in Seq(Nat) /\ SubSeq(q, 1, Len(p)) = p /\ SubSeq(p, 1, Len(p)) = p
    OBVIOUS
  <1>4. Len(q) = Len(p) + 1 /\ Len(p) \in Nat
    OBVIOUS
  <1>2. p # q /\ Len(p) <= Len(q)
    BY <1>4
  <1> HIDE DEF q
  <1>3. Precedes(p, q)
    BY <1>1, <1>2 DEF Precedes, IsStrictPrefix, IsPrefix
  <1> QED
    BY <1>1, <1>3 DEF q
-----------------------------------------------------------------------------
(***************************************************************************)
(* Sorted: the entry at a place is the one with as many before it.         *)
(***************************************************************************)
Lower(S, e) == {d \in S : Precedes(d, e)}
Rank(S, e) == Cardinality(Lower(S, e))

LEMMA RankOrders ==
  ASSUME NEW S, S \subseteq Seq(Nat), IsFiniteSet(S), NEW e \in S
  PROVE  /\ Rank(S, e) \in 0..(Cardinality(S) - 1) /\ Cardinality(S) \in Nat
         /\ \A d \in S : Precedes(d, e) => Rank(S, d) < Rank(S, e)
  <1> DEFINE T == Lower(S, e)
  <1>1. T \in SUBSET S /\ e \in Seq(Nat)
    BY DEF Lower
  <1>2. e \notin T
    BY <1>1, Irreflexive DEF Lower
  <1> HIDE DEF T
  <1>3. IsFiniteSet(T) /\ Cardinality(T) <= Cardinality(S) /\ Cardinality(T) # Cardinality(S)
        /\ Cardinality(T) \in Nat /\ Cardinality(S) \in Nat
    BY <1>1, <1>2, FS_Subset, FS_CardinalityType
  <1>4. Rank(S, e) \in 0..(Cardinality(S) - 1)
    <2>1. Rank(S, e) = Cardinality(T)
      BY DEF Rank, T
    <2> QED
      BY <1>3, <2>1
  <1>5. ASSUME NEW d \in S, Precedes(d, e) PROVE Rank(S, d) < Rank(S, e)
    <2> DEFINE U == Lower(S, d)
    <2>1. d \in T /\ d \in Seq(Nat)
      BY <1>5 DEF T, Lower
    <2>2. U \in SUBSET T
      <3>1. ASSUME NEW x \in U PROVE x \in T
        <4>1. x \in S /\ x \in Seq(Nat) /\ Precedes(x, d)
          BY <3>1 DEF Lower
        <4>2. Precedes(x, e)
          BY <1>1, <1>5, <2>1, <4>1, Transitive
        <4> QED
          BY <4>1, <4>2 DEF T, Lower
      <3> QED
        BY <3>1
    <2>3. d \notin U
      BY <2>1, Irreflexive DEF Lower
    <2> HIDE DEF U
    <2>4. Cardinality(U) <= Cardinality(T) /\ Cardinality(U) # Cardinality(T) /\ IsFiniteSet(U)
      BY <1>3, <2>1, <2>2, <2>3, FS_Subset
    <2>5. Cardinality(U) \in Nat
      BY <2>4, FS_CardinalityType
    <2>6. Rank(S, d) = Cardinality(U) /\ Rank(S, e) = Cardinality(T)
      BY DEF Rank, U, T
    <2> QED
      BY <1>3, <2>4, <2>5, <2>6
  <1> QED
    BY <1>3, <1>4, <1>5

LEMMA RankTells ==
  ASSUME NEW S, S \subseteq Seq(Nat), IsFiniteSet(S), NEW d \in S, NEW e \in S, Rank(S, d) = Rank(S, e)
  PROVE  d = e
  <1> SUFFICES ASSUME d # e PROVE FALSE
    OBVIOUS
  <1>1. Precedes(d, e) \/ Precedes(e, d)
    BY Total
  <1>2. Rank(S, d) < Rank(S, e) \/ Rank(S, e) < Rank(S, d)
    BY <1>1, RankOrders
  <1>3. Rank(S, d) \in Int /\ Rank(S, e) \in Int
    <2>1. Cardinality(S) \in Nat /\ Rank(S, d) \in 0..(Cardinality(S) - 1)
          /\ Rank(S, e) \in 0..(Cardinality(S) - 1)
      BY RankOrders
    <2> QED
      BY <2>1
  <1> QED
    BY <1>2, <1>3

LEMMA EveryRank ==
  ASSUME NEW S, S \subseteq Seq(Nat), IsFiniteSet(S), NEW r \in 0..(Cardinality(S) - 1)
  PROVE  \E e \in S : Rank(S, e) = r
  <1> DEFINE n == Cardinality(S)
             T == 0..(n - 1)
             f == [e \in S |-> Rank(S, e)]
  <1>1. n \in Nat
    BY FS_CardinalityType
  <1>2. IsFiniteSet(T) /\ Cardinality(T) = n
    <2> HIDE DEF n
    <2>1. 0 \in Int /\ n - 1 \in Int
      BY <1>1
    <2>2. Cardinality(T) = (IF 0 > n - 1 THEN 0 ELSE n - 1 - 0 + 1) /\ IsFiniteSet(T)
      BY <2>1, FS_Interval
    <2> QED
      BY <1>1, <2>2
  <1>3. f \in Injection(S, T)
    <2>1. \A e \in S : Rank(S, e) \in T
      BY RankOrders
    <2>2. \A d, e \in S : Rank(S, d) = Rank(S, e) => d = e
      BY RankTells
    <2> HIDE DEF T
    <2>3. f \in [S -> T] /\ \A d, e \in S : f[d] = f[e] => d = e
      BY <2>1, <2>2
    <2> HIDE DEF f
    <2> QED
      BY <2>3 DEF Injection, IsInjective
  <1>4. f \in Surjection(S, T)
    <2> HIDE DEF f, T
    <2> QED
      BY <1>2, <1>3, FS_Injection
  <1>5. PICK e \in S : f[e] = r
    <2>1. r \in T
      OBVIOUS
    <2> HIDE DEF f, T
    <2> QED
      BY <1>4, <2>1 DEF Surjection
  <1> QED
    BY <1>5

LEMMA SortedIs ==
  ASSUME NEW S, S \subseteq Seq(Nat), IsFiniteSet(S)
  PROVE  /\ Cardinality(S) \in Nat /\ Sorted(S) \in [1..Cardinality(S) -> S]
         /\ \A i, j \in 1..Cardinality(S) : i < j => Precedes(Sorted(S)[i], Sorted(S)[j])
         /\ \A e \in S : \E i \in 1..Cardinality(S) : Sorted(S)[i] = e
  <1> DEFINE n == Cardinality(S)
             s == Sorted(S)
  <1>1. n \in Nat
    BY FS_CardinalityType
  <1>2. ASSUME NEW i \in 1..n PROVE s[i] \in S /\ Rank(S, s[i]) = i - 1
    <2>1. i - 1 \in 0..(n - 1)
      BY <1>1
    <2>2. \E e \in S : Rank(S, e) = i - 1
      <3> HIDE DEF n
      <3>1. \A r \in 0..(n - 1) : \E e \in S : Rank(S, e) = r
        BY EveryRank DEF n
      <3> QED
        BY <2>1, <3>1
    <2>3. s[i] = CHOOSE e \in S : Rank(S, e) = i - 1
      BY DEF Sorted, Rank, Lower
    <2> HIDE DEF s
    <2> QED
      BY <2>2, <2>3
  <1>3. s \in [1..n -> S]
    <2> DEFINE At(i) == CHOOSE e \in S : Cardinality({d \in S : Precedes(d, e)}) = i - 1
    <2>2. s = [i \in 1..n |-> At(i)]
      BY DEF Sorted
    <2> HIDE DEF s, n, At
    <2>1. s = [i \in 1..n |-> s[i]]
      BY <2>2
    <2> QED
      BY <1>2, <2>1
  <1> HIDE DEF s, n
  <1>4. ASSUME NEW i \in 1..n, NEW j \in 1..n, i < j PROVE Precedes(s[i], s[j])
    <2>1. s[i] \in S /\ s[j] \in S /\ Rank(S, s[i]) = i - 1 /\ Rank(S, s[j]) = j - 1
      BY <1>2
    <2>2. s[i] # s[j]
      BY <1>4, <2>1
    <2>3. ~ Precedes(s[j], s[i])
      <3> SUFFICES ASSUME Precedes(s[j], s[i]) PROVE FALSE
        OBVIOUS
      <3>1. Rank(S, s[j]) < Rank(S, s[i])
        BY <2>1, RankOrders
      <3> QED
        BY <1>4, <2>1, <3>1
    <2> QED
      BY <2>1, <2>2, <2>3, Total
  <1>5. ASSUME NEW e \in S PROVE \E i \in 1..n : s[i] = e
    <2> DEFINE i == Rank(S, e) + 1
    <2>1. i \in 1..n /\ i - 1 = Rank(S, e)
      <3>1. Rank(S, e) \in 0..(n - 1)
        BY RankOrders DEF n
      <3> QED
        BY <1>1, <3>1
    <2> HIDE DEF i
    <2>2. s[i] \in S /\ Rank(S, s[i]) = Rank(S, e)
      BY <1>2, <2>1
    <2>3. s[i] = e
      BY <2>2, RankTells
    <2> QED
      BY <2>1, <2>3
  <1> QED
    BY <1>1, <1>3, <1>4, <1>5 DEF n, s
-----------------------------------------------------------------------------
(***************************************************************************)
(* A page of a list: the first k entries, all of them behind the hint.     *)
(***************************************************************************)
AtMost(p, q) == p = q \/ Precedes(p, q)
NoneBehind(paths, a) == \A i \in 1..Len(paths) : AtMost(paths[i], a)
Rising(paths) == \A i, j \in 1..Len(paths) : i < j => Precedes(paths[i], paths[j])

\* The first k of the entries S, which are behind a, and b is where they end.
PageOf(S, a, k, b) ==
  /\ S \subseteq Seq(Nat) /\ IsFiniteSet(S) /\ k \in 0..Cardinality(S)
  /\ a \in Seq(Nat) /\ \A x \in S : Precedes(a, x)
  /\ b = IF k = 0 THEN a ELSE Sorted(S)[k]

LEMMA AtMostBefore ==
  ASSUME NEW p \in Seq(Nat), NEW q \in Seq(Nat), AtMost(p, q), NEW r \in Seq(Nat)
  PROVE  /\ Precedes(q, r) => Precedes(p, r)
         /\ AtMost(q, r) => AtMost(p, r)
         /\ ~ Precedes(q, p)
  <1>1. Precedes(q, r) => Precedes(p, r)
    BY Transitive DEF AtMost
  <1>2. ~ Precedes(q, p)
    <2> SUFFICES ASSUME Precedes(q, p) PROVE FALSE
      OBVIOUS
    <2>1. Precedes(p, p)
      BY Transitive DEF AtMost
    <2> QED
      BY <2>1, Irreflexive
  <1> QED
    BY <1>1, <1>2 DEF AtMost

\* Where the list goes on after a page.
LEMMA PageIs ==
  ASSUME NEW S, NEW a, NEW k, NEW b, PageOf(S, a, k, b)
  PROVE  /\ b \in S \cup {a} /\ b \in Seq(Nat) /\ AtMost(a, b)
         /\ \A i \in 1..k : Sorted(S)[i] \in S /\ AtMost(Sorted(S)[i], b)
         /\ \A x \in S : AtMost(x, b) <=> \E i \in 1..k : Sorted(S)[i] = x
         /\ k = Cardinality(S) => \A x \in S : AtMost(x, b)
  <1> DEFINE n == Cardinality(S)
             s == Sorted(S)
  <1>1. /\ n \in Nat /\ k \in 0..n /\ \A i \in 1..n : s[i] \in S
        /\ \A i, j \in 1..n : i < j => Precedes(s[i], s[j])
        /\ \A x \in S : \E i \in 1..n : s[i] = x
        /\ b = IF k = 0 THEN a ELSE s[k]
        /\ S \subseteq Seq(Nat) /\ a \in Seq(Nat) /\ \A x \in S : Precedes(a, x)
    BY SortedIs DEF PageOf
  <1> HIDE DEF n, s
  <1>2. b \in S \cup {a} /\ AtMost(a, b)
    <2>1. CASE k = 0
      BY <1>1, <2>1 DEF AtMost
    <2>2. CASE k # 0
      <3>1. k \in 1..n
        BY <1>1, <2>2
      <3> QED
        BY <1>1, <2>2, <3>1 DEF AtMost
    <2> QED
      BY <2>1, <2>2
  <1>3. b \in Seq(Nat)
    BY <1>1, <1>2
  <1>4. ASSUME NEW i \in 1..k PROVE s[i] \in S /\ AtMost(s[i], b)
    <2>1. i \in 1..n /\ k \in 1..n /\ k # 0 /\ (i = k \/ i < k)
      BY <1>1
    <2> QED
      BY <1>1, <2>1 DEF AtMost
  <1>5. ASSUME NEW x \in S, AtMost(x, b) PROVE \E i \in 1..k : s[i] = x
    <2>1. PICK i \in 1..n : s[i] = x
      BY <1>1
    <2>2. ~ Precedes(b, x) /\ x \in Seq(Nat)
      BY <1>1, <1>3, <1>5, AtMostBefore
    <2>3. k # 0
      BY <1>1, <2>2
    <2>4. ~ (k < i)
      BY <1>1, <2>1, <2>2, <2>3
    <2>5. i \in 1..k
      BY <1>1, <2>1, <2>4
    <2> QED
      BY <2>1, <2>5
  <1>6. ASSUME k = n, NEW x \in S PROVE AtMost(x, b)
    <2>1. PICK i \in 1..n : s[i] = x
      BY <1>1
    <2> QED
      BY <1>4, <1>6, <2>1
  <1> QED
    BY <1>2, <1>3, <1>4, <1>5, <1>6 DEF n, s

\* What a page adds to what was shown.
LEMMA PageFollows ==
  ASSUME NEW S, NEW a, NEW k, NEW b, PageOf(S, a, k, b),
         NEW shown \in Seq(Seq(Nat)), NoneBehind(shown, a), Rising(shown)
  PROVE  LET more == shown \o SubSeq(Sorted(S), 1, k) IN
         /\ more \in Seq(Seq(Nat))
         /\ NoneBehind(more, b) /\ Rising(more)
         /\ ToSet(more) = ToSet(shown) \cup {x \in S : AtMost(x, b)}
  <1> DEFINE n == Cardinality(S)
             s == Sorted(S)
             page == SubSeq(s, 1, k)
             l == Len(shown)
             more == shown \o SubSeq(Sorted(S), 1, k)
  <1> HIDE DEF more
  <1>1. /\ b \in Seq(Nat) /\ AtMost(a, b) /\ k \in 0..n
        /\ S \subseteq Seq(Nat) /\ a \in Seq(Nat) /\ \A x \in S : Precedes(a, x)
        /\ \A i \in 1..k : s[i] \in S /\ AtMost(s[i], b)
        /\ \A x \in S : AtMost(x, b) <=> \E i \in 1..k : s[i] = x
    BY PageIs DEF PageOf
  <1>2. /\ n \in Nat /\ s \in [1..n -> S] /\ \A i, j \in 1..n : i < j => Precedes(s[i], s[j])
    BY SortedIs DEF PageOf
  <1>3. s \in Seq(Seq(Nat)) /\ Len(s) = n
    <2> HIDE DEF n, s
    <2>1. s \in [1..n -> Seq(Nat)]
      BY <1>1, <1>2
    <2> QED
      BY <1>2, <2>1
  <1>4. k \in 0..n
    BY <1>1
  <1> HIDE DEF n, s
  <1>5. page \in Seq(Seq(Nat)) /\ Len(page) = k /\ \A i \in 1..k : page[i] = s[i]
    BY <1>3, <1>4, CutOf
  <1> HIDE DEF page
  <1>6. /\ more \in Seq(Seq(Nat)) /\ Len(more) = l + k
        /\ \A i \in 1..(l + k) : more[i] = IF i <= l THEN shown[i] ELSE page[i - l]
    <2>1. more = shown \o page
      BY DEF page, s, more
    <2>2. /\ shown \o page \in Seq(Seq(Nat)) /\ Len(shown \o page) = l + Len(page)
          /\ \A i \in 1..(l + Len(page)) :
               (shown \o page)[i] = IF i <= l THEN shown[i] ELSE page[i - l]
      BY <1>5, JoinOf
    <2> QED
      BY <1>5, <2>1, <2>2
  <1>7. l \in Nat /\ k \in Nat /\ \A i \in 1..l : shown[i] \in Seq(Nat)
    BY <1>2, <1>4
  <1>8. /\ \A i \in 1..l : AtMost(shown[i], a)
        /\ \A i, j \in 1..l : i < j => Precedes(shown[i], shown[j])
    BY DEF NoneBehind, Rising
  <1> HIDE DEF l
  <1>9. ASSUME NEW i \in 1..(l + k), i <= l
        PROVE  more[i] = shown[i] /\ more[i] \in Seq(Nat) /\ i \in 1..l /\ AtMost(more[i], a)
    <2>1. i \in 1..l
      BY <1>7, <1>9
    <2> QED
      BY <1>6, <1>7, <1>8, <1>9, <2>1
  <1>10. ASSUME NEW i \in 1..(l + k), ~ (i <= l)
         PROVE  /\ more[i] = s[i - l] /\ i - l \in 1..k /\ i - l \in 1..n
                /\ more[i] \in S /\ AtMost(more[i], b)
    <2>1. i - l \in 1..k /\ i - l \in 1..n
      BY <1>2, <1>4, <1>7, <1>10
    <2>2. more[i] = page[i - l]
      BY <1>6, <1>10
    <2> QED
      BY <1>1, <1>5, <2>1, <2>2
  <1>11. ASSUME NEW i \in 1..(l + k) PROVE AtMost(more[i], b)
    <2>1. CASE i <= l
      BY <1>1, <1>9, <2>1, AtMostBefore
    <2>2. CASE ~ (i <= l)
      BY <1>10, <2>2
    <2> QED
      BY <2>1, <2>2
  <1>12. ASSUME NEW i \in 1..(l + k), NEW j \in 1..(l + k), i < j PROVE Precedes(more[i], more[j])
    <2>1. CASE j <= l
      <3>1. i <= l
        BY <1>7, <1>12, <2>1
      <3> QED
        BY <1>8, <1>9, <1>12, <2>1, <3>1
    <2>2. CASE i <= l /\ ~ (j <= l)
      <3>1. more[j] \in S /\ more[j] \in Seq(Nat) /\ Precedes(a, more[j])
        BY <1>1, <1>10, <2>2
      <3> QED
        BY <1>1, <1>9, <2>2, <3>1, AtMostBefore
    <2>3. CASE ~ (i <= l)
      <3>1. ~ (j <= l) /\ i - l < j - l
        BY <1>7, <1>12, <2>3
      <3> QED
        BY <1>2, <1>10, <2>3, <3>1
    <2> QED
      BY <2>1, <2>2, <2>3
  <1>13. ToSet(more) = ToSet(shown) \cup {x \in S : AtMost(x, b)}
    <2>1. ToSet(more) = {more[i] : i \in 1..(l + k)} /\ ToSet(shown) = {shown[i] : i \in 1..l}
      <3>1. DOMAIN more = 1..Len(more) /\ DOMAIN shown = 1..Len(shown)
        BY <1>6
      <3> QED
        BY <1>6, <3>1 DEF ToSet, l
    <2>2. ASSUME NEW i \in 1..(l + k)
          PROVE  more[i] \in {shown[j] : j \in 1..l} \cup {x \in S : AtMost(x, b)}
      BY <1>9, <1>10
    <2>3. ASSUME NEW i \in 1..l PROVE \E j \in 1..(l + k) : more[j] = shown[i]
      <3>1. i \in 1..(l + k) /\ i <= l
        BY <1>7
      <3> QED
        BY <1>9, <3>1
    <2>4. ASSUME NEW x \in S, AtMost(x, b) PROVE \E j \in 1..(l + k) : more[j] = x
      <3>1. PICK i \in 1..k : s[i] = x
        BY <1>1, <2>4
      <3>2. l + i \in 1..(l + k) /\ ~ (l + i <= l) /\ (l + i) - l = i
        BY <1>7
      <3>3. more[l + i] = s[i]
        BY <1>10, <3>2
      <3> QED
        BY <3>1, <3>2, <3>3
    <2> QED
      BY <2>1, <2>2, <2>3, <2>4
  <1> QED
    BY <1>6, <1>11, <1>12, <1>13 DEF more, NoneBehind, Rising
-----------------------------------------------------------------------------
(***************************************************************************)
(* What a page does to one path that every page finds in place.            *)
(***************************************************************************)
TreeKinds == {"file", "dir"}
Named(path, kind) == IF kind = "dir" THEN Append(path, Slash) ELSE path
Skipped(hints, path, kind) ==
  kind = "dir" /\ \E h \in hints : Precedes(path, h) /\ Precedes(h, Append(path, Slash))
ShownUpTo(a, hints, shown, path, kind) ==
  Named(path, kind) \in shown <=> AtMost(Named(path, kind), a) /\ ~ Skipped(hints, path, kind)

LEMMA PathsTyped ==
  /\ IsFiniteSet(Paths)
  /\ \A p \in Paths : /\ p \in Seq(Nat) /\ Append(p, Slash) \in Seq(Nat)
                      /\ Precedes(p, Append(p, Slash))
  /\ \A p, q \in Paths : /\ Append(p, Slash) # q
                         /\ Append(p, Slash) = Append(q, Slash) => p = q
  <1>1. ASSUME NEW p \in Paths
        PROVE  p \in Seq(Nat) /\ Len(p) \in Nat /\ p[Len(p)] # Slash
    BY ToolsAssumption
  <1>2. Slash \in Nat
    BY DEF Slash
  <1>3. ASSUME NEW p \in Paths
        PROVE  Append(p, Slash) \in Seq(Nat) /\ Precedes(p, Append(p, Slash))
    BY <1>1, <1>2, Extends
  <1>4. ASSUME NEW p \in Paths, NEW q \in Paths PROVE Append(p, Slash) # q
    <2>1. p \in Seq(Nat) /\ q \in Seq(Nat) /\ q[Len(q)] # Slash
      BY <1>1
    <2>2. Append(p, Slash)[Len(Append(p, Slash))] = Slash
      <3> HIDE <1>1
      <3> QED
        BY <1>2, <2>1
    <2> QED
      BY <2>1, <2>2
  <1>5. ASSUME NEW p \in Paths, NEW q \in Paths, Append(p, Slash) = Append(q, Slash) PROVE p = q
    <2>1. p \in Seq(Nat) /\ q \in Seq(Nat)
      BY <1>1
    <2>2. /\ Len(Append(p, Slash)) = Len(p) + 1 /\ Len(Append(q, Slash)) = Len(q) + 1
          /\ \A k \in 1..Len(p) : Append(p, Slash)[k] = p[k]
          /\ \A k \in 1..Len(q) : Append(q, Slash)[k] = q[k]
          /\ Len(p) \in Nat /\ Len(q) \in Nat
      BY <2>1
    <2>3. Len(p) = Len(q)
      BY <1>5, <2>2
    <2>4. \A k \in 1..Len(p) : p[k] = q[k]
      BY <1>5, <2>2, <2>3
    <2> QED
      BY <2>1, <2>3, <2>4, SameElements
  <1>6. IsFiniteSet(Paths)
    BY ToolsAssumption
  <1> QED
    BY <1>1, <1>3, <1>4, <1>5, <1>6

LEMMA PageShows ==
  ASSUME NEW S, NEW a, NEW k, NEW b, PageOf(S, a, k, b),
         NEW path \in Paths, NEW kind \in TreeKinds,
         Named(path, kind) \in S <=> Precedes(a, path),
         kind = "dir" => a # path,
         NEW hints, hints \subseteq Seq(Nat), \A h \in hints : AtMost(h, a),
         NEW Z, ShownUpTo(a, hints, Z, path, kind)
  PROVE  /\ ShownUpTo(b, hints \cup {a}, Z \cup {x \in S : AtMost(x, b)}, path, kind)
         /\ k = Cardinality(S) =>
              AtMost(Named(path, kind), b) \/ Skipped(hints \cup {a}, path, kind)
  <1> DEFINE e == Named(path, kind)
             before == Skipped(hints, path, kind)
             skipped == Skipped(hints \cup {a}, path, kind)
  <1>1. /\ a \in Seq(Nat) /\ b \in Seq(Nat) /\ AtMost(a, b) /\ \A x \in S : Precedes(a, x)
        /\ k = Cardinality(S) => \A x \in S : AtMost(x, b)
    BY PageIs DEF PageOf
  <1>2. path \in Seq(Nat) /\ e \in Seq(Nat) /\ AtMost(path, e)
        /\ (kind = "file" => e = path) /\ (kind = "dir" => e = Append(path, Slash) /\ Precedes(path, e))
    BY PathsTyped DEF Named, TreeKinds, AtMost
  <1>3. e \in S <=> Precedes(a, path)
    OBVIOUS
  <1>4. e \in Z <=> AtMost(e, a) /\ ~ before
    BY DEF ShownUpTo
  <1>5. skipped <=> before \/ (kind = "dir" /\ Precedes(path, a) /\ Precedes(a, e))
    BY <1>2 DEF Skipped
  <1>6. before => \E h \in Seq(Nat) : AtMost(h, a) /\ Precedes(path, h)
    BY DEF Skipped
  <1> HIDE DEF e, before, skipped
  <1>7. CASE AtMost(e, a)
    <2>1. AtMost(e, b) /\ ~ Precedes(a, e)
      BY <1>1, <1>2, <1>7, AtMostBefore
    <2>2. (skipped <=> before) /\ e \notin S
      BY <1>1, <1>5, <2>1
    <2> QED
      BY <1>4, <1>7, <2>1, <2>2 DEF e, skipped, ShownUpTo
  <1>8. CASE Precedes(a, path)
    <2>1. ~ Precedes(path, a) /\ e \in S
      BY <1>1, <1>2, <1>3, <1>8, AtMostBefore DEF AtMost
    <2>2. ~ before
      <3> SUFFICES ASSUME NEW h \in Seq(Nat), AtMost(h, a), Precedes(path, h) PROVE FALSE
        BY <1>6
      <3>1. Precedes(path, a)
        BY <1>1, <1>2, Transitive DEF AtMost
      <3> QED
        BY <2>1, <3>1
    <2>3. ~ skipped
      BY <1>5, <2>1, <2>2
    <2>4. e \notin Z
      <3> SUFFICES ASSUME AtMost(e, a) PROVE FALSE
        BY <1>4
      <3> QED
        BY <1>1, <2>1, <1>2, AtMostBefore
    <2> QED
      BY <1>1, <2>1, <2>3, <2>4 DEF e, skipped, ShownUpTo
  <1>9. CASE ~ AtMost(e, a) /\ ~ Precedes(a, path)
    <2>1. Precedes(a, e)
      BY <1>1, <1>2, <1>9, Total DEF AtMost
    <2>2. kind = "dir" /\ a # path
      BY <1>2, <1>9, <2>1 DEF TreeKinds
    <2>3. Precedes(path, a)
      BY <1>1, <1>2, <1>9, <2>2, Total
    <2>4. skipped
      BY <1>5, <2>1, <2>2, <2>3
    <2> QED
      BY <1>3, <1>4, <1>9, <2>4 DEF e, skipped, ShownUpTo
  <1> QED
    BY <1>7, <1>8, <1>9
-----------------------------------------------------------------------------
(***************************************************************************)
(* The list, page after page.  What was shown is what comes up to where    *)
(* the next page starts, apart from the directories that were skipped.     *)
(***************************************************************************)
StandsAt(path, kind) == <<path, kind>> \in steady /\ Reached(path)

ListTyped ==
  /\ DOMAIN tree \subseteq Paths /\ \A p \in DOMAIN tree : tree[p] \in TreeKinds
  /\ steady \subseteq Paths \X TreeKinds
  /\ listing.after \in Seq(Nat) /\ listing.shown \in Seq(Seq(Nat)) /\ listing.hints \subseteq Seq(Nat)

ListInv ==
  /\ ListTyped
  /\ Rising(listing.shown) /\ NoneBehind(listing.shown, listing.after)
  /\ \A h \in listing.hints : AtMost(h, listing.after)
  /\ \A path \in Paths : <<path, "dir">> \in steady => listing.after # path
  /\ \A path \in Paths, kind \in TreeKinds : StandsAt(path, kind) =>
       /\ ShownUpTo(listing.after, listing.hints, ToSet(listing.shown), path, kind)
       /\ listing.state = "ended" =>
            AtMost(Named(path, kind), listing.after) \/ Skipped(listing.hints, path, kind)

LEMMA NoneBefore ==
  ASSUME NEW p \in Seq(Nat), NEW q \in Seq(Nat), Len(q) = 0
  PROVE  ~ Precedes(p, q)
  <1> SUFFICES ASSUME NEW i \in Nat \ {0}, FirstDifference(p, q, i) PROVE FALSE
    BY OrderIs
  <1>1. Character(q, i) = -1 /\ Character(p, i) \in Int /\ Character(p, i) >= -1
    <2>1. i > Len(q)
      OBVIOUS
    <2> QED
      BY <2>1, CharactersTyped
  <1> QED
    BY <1>1 DEF FirstDifference

LEMMA ListInitial == Init => ListInv
  <1> SUFFICES ASSUME Init PROVE ListInv
    OBVIOUS
  <1>1. PICK files \in Trees \cup {<<>>} : ListInit(files)
    BY DEF Init
  <1>2. /\ tree = files /\ steady = {<<p, files[p]>> : p \in DOMAIN files}
        /\ listing.state = "open" /\ listing.after = <<>> /\ listing.shown = <<>> /\ listing.hints = {}
    BY <1>1 DEF ListInit
  <1>3. DOMAIN files \subseteq Paths /\ \A p \in DOMAIN files : files[p] \in TreeKinds
    <2>1. CASE files \in Trees
      BY <2>1 DEF Trees, TreeKinds
    <2>2. CASE files = <<>>
      BY <2>2
    <2> QED
      BY <2>1, <2>2
  <1>4. ListTyped
    BY <1>2, <1>3 DEF ListTyped
  <1>5. Rising(listing.shown) /\ NoneBehind(listing.shown, listing.after)
    BY <1>2 DEF Rising, NoneBehind
  <1>6. ToSet(listing.shown) = {}
    BY <1>2 DEF ToSet
  <1>7. ASSUME NEW p \in Seq(Nat) PROVE AtMost(p, <<>>) => p = <<>>
    <2> SUFFICES ASSUME Precedes(p, <<>>) PROVE FALSE
      BY DEF AtMost
    <2>1. <<>> \in Seq(Nat) /\ Len(<<>>) = 0
      OBVIOUS
    <2> QED
      BY <2>1, NoneBefore
  <1>8. ASSUME NEW path \in Paths, NEW kind \in TreeKinds
        PROVE  path # <<>> /\ ~ AtMost(Named(path, kind), <<>>)
    <2>1. path \in Seq(Nat) /\ path # <<>>
      BY ToolsAssumption
    <2>2. Named(path, kind) \in Seq(Nat) /\ Named(path, kind) # <<>>
      BY <2>1, PathsTyped DEF Named
    <2> QED
      BY <1>7, <2>1, <2>2
  <1>9. ASSUME NEW path \in Paths, NEW kind \in TreeKinds
        PROVE  /\ ShownUpTo(listing.after, listing.hints, ToSet(listing.shown), path, kind)
               /\ listing.state # "ended" /\ listing.after # path
    <2>1. Named(path, kind) \notin ToSet(listing.shown)
      BY <1>6
    <2> QED
      BY <1>2, <1>8, <2>1 DEF ShownUpTo
  <1>10. \A h \in listing.hints : AtMost(h, listing.after)
    BY <1>2
  <1>11. \A path \in Paths : listing.after # path
    BY <1>9 DEF TreeKinds
  <1> QED
    BY <1>4, <1>5, <1>9, <1>10, <1>11 DEF ListInv

\* The entries of a page, and how far it gets.
LEMMA EntriesAre ==
  ASSUME ListTyped
  PROVE  LET S == {EntryOf(tree, p) : p \in {q \in DOMAIN tree : Reached(q) /\ Precedes(listing.after, q)}} IN
         /\ S \subseteq Seq(Nat) /\ IsFiniteSet(S)
         /\ \A x \in S : Precedes(listing.after, x)
         /\ \A path \in DOMAIN tree :
              /\ Reached(path) =>
                   (Named(path, tree[path]) \in S <=> Precedes(listing.after, path))
              /\ tree[path] = "dir" => path \notin S
  <1> DEFINE a == listing.after
             D == {q \in DOMAIN tree : Reached(q) /\ Precedes(a, q)}
             S == {EntryOf(tree, p) : p \in D}
  <1>1. DOMAIN tree \subseteq Paths /\ a \in Seq(Nat) /\ \A p \in DOMAIN tree : tree[p] \in TreeKinds
    BY DEF ListTyped
  <1>2. ASSUME NEW p \in DOMAIN tree
        PROVE  /\ EntryOf(tree, p) = Named(p, tree[p]) /\ EntryOf(tree, p) \in Seq(Nat)
               /\ p \in Paths /\ p \in Seq(Nat) /\ AtMost(p, EntryOf(tree, p))
    BY <1>1, PathsTyped DEF EntryOf, Named, AtMost
  <1>3. ASSUME NEW p \in DOMAIN tree, NEW q \in DOMAIN tree, EntryOf(tree, p) = EntryOf(tree, q)
        PROVE  p = q
    BY <1>1, <1>3, PathsTyped DEF EntryOf
  <1>4. ASSUME NEW p \in DOMAIN tree, NEW q \in DOMAIN tree, tree[p] = "dir" PROVE EntryOf(tree, q) # p
    <2>1. CASE tree[q] = "dir"
      BY <1>1, <2>1, PathsTyped DEF EntryOf
    <2>2. CASE tree[q] # "dir"
      BY <1>4, <2>2 DEF EntryOf
    <2> QED
      BY <2>1, <2>2
  <1>5. IsFiniteSet(D)
    <2>1. D \in SUBSET Paths
      BY <1>1
    <2> HIDE DEF D
    <2> QED
      BY <2>1, PathsTyped, FS_Subset
  <1>6. D \subseteq DOMAIN tree /\ \A p \in D : Precedes(a, p)
    OBVIOUS
  <1>7. \A p \in DOMAIN tree : Reached(p) => (p \in D <=> Precedes(a, p))
    OBVIOUS
  <1> HIDE DEF a, D
  <1>8. IsFiniteSet(S)
    <2> DEFINE f == [p \in D |-> EntryOf(tree, p)]
    <2>1. f \in [D -> S] /\ \A x \in S : \E p \in D : f[p] = x
      OBVIOUS
    <2>2. f \in Surjection(D, S)
      <3> HIDE DEF f, S
      <3> QED
        BY <2>1 DEF Surjection
    <2> HIDE DEF f, S
    <2> QED
      BY <1>5, <2>2, FS_Surjection
  <1>9. ASSUME NEW x \in S PROVE x \in Seq(Nat) /\ Precedes(a, x)
    <2>1. PICK p \in D : x = EntryOf(tree, p)
      OBVIOUS
    <2>2. p \in DOMAIN tree /\ Precedes(a, p)
      BY <1>6
    <2>3. x \in Seq(Nat) /\ p \in Seq(Nat) /\ AtMost(p, x)
      BY <1>2, <2>1, <2>2
    <2> QED
      BY <1>1, <2>2, <2>3, Transitive DEF AtMost
  <1>10. ASSUME NEW p \in DOMAIN tree, Reached(p)
         PROVE  Named(p, tree[p]) \in S <=> Precedes(a, p)
    BY <1>2, <1>3, <1>6, <1>7, <1>10
  <1>11. ASSUME NEW p \in DOMAIN tree, tree[p] = "dir" PROVE p \notin S
    BY <1>4, <1>6, <1>11
  <1> QED
    BY <1>8, <1>9, <1>10, <1>11 DEF a, D

\* How far a page gets.
LEMMA PageEnds ==
  ASSUME NEW n \in Nat, NEW entries \in [1..n -> Seq(Nat)], NEW hint
  PROVE  LET sizes == [i \in DOMAIN entries |-> Len(entries[i]) + 1]
             w == Written(sizes, ListLines)
         IN  w \in 0..n /\ Len(entries) = n /\ Whole(sizes, w, hint) \in 0..n
  <1> DEFINE sizes == [i \in DOMAIN entries |-> Len(entries[i]) + 1]
             w == Written(sizes, ListLines)
  <1>1. Len(sizes) = n /\ Len(entries) = n
    OBVIOUS
  <1>2. ListLines \in Nat \ {0}
    BY ToolsAssumption
  <1> HIDE DEF sizes
  <1>3. w \in 0..n
    BY <1>1, <1>2, WrittenIs
  <1> HIDE DEF w
  <1>4. Whole(sizes, w, hint) \in 0..n
    <2>1. w \in Nat
      BY <1>3
    <2>2. Whole(sizes, w, hint) \in 0..w
      BY <2>1, WholeIs
    <2> QED
      BY <1>3, <2>2
  <1> QED
    BY <1>1, <1>3, <1>4 DEF sizes, w

LEMMA ListPageKeeps ==
  ASSUME ListInv, ListPage
  PROVE  ListInv'
  <1> DEFINE a == listing.after
             S == {EntryOf(tree, p) : p \in {q \in DOMAIN tree : Reached(q) /\ Precedes(a, q)}}
             N == Cardinality(S)
             b == listing'.after
             more == listing.shown \o SubSeq(Sorted(S), 1, N)
  <1>1. /\ S \subseteq Seq(Nat) /\ IsFiniteSet(S)
        /\ \A x \in S : Precedes(a, x)
        /\ \A path \in DOMAIN tree :
             /\ Reached(path) => (Named(path, tree[path]) \in S <=> Precedes(a, path))
             /\ tree[path] = "dir" => path \notin S
    BY EntriesAre DEF ListInv
  <1>2. /\ a \in Seq(Nat) /\ listing.shown \in Seq(Seq(Nat)) /\ listing.hints \subseteq Seq(Nat)
        /\ Rising(listing.shown) /\ NoneBehind(listing.shown, a)
        /\ \A h \in listing.hints : AtMost(h, a)
    BY DEF ListInv, ListTyped
  <1>3. tree' = tree /\ recursive' = recursive
        /\ steady' = {p \in steady : p[1] \in DOMAIN tree /\ tree[p[1]] = p[2]}
    BY DEF ListPage
  <1> HIDE DEF S, a, more
  <1>4. N \in Nat /\ Sorted(S) \in [1..N -> Seq(Nat)]
    <2>1. N \in Nat /\ Sorted(S) \in [1..N -> S]
      BY <1>1, SortedIs
    <2> HIDE DEF N
    <2> QED
      BY <1>1, <2>1
  <1> HIDE DEF N
  <1>5. PICK k \in 0..N : /\ b = IF k = 0 THEN a ELSE Sorted(S)[k]
                          /\ listing'.shown = listing.shown \o SubSeq(Sorted(S), 1, k)
                          /\ listing'.hints = listing.hints \cup {a}
                          /\ listing'.state = "ended" => k = N
    <2> DEFINE entries == Sorted(S)
               sizes == [i \in DOMAIN entries |-> Len(entries[i]) + 1]
               w == Written(sizes, ListLines)
               cut == w < Len(entries)
               hint == HintBytes + (IF cut THEN Len(entries[w]) ELSE 0)
               k == IF cut THEN Whole(sizes, w, hint) ELSE w
    <2>1. listing' = [state |-> IF cut THEN "open" ELSE "ended",
                      after |-> IF k = 0 THEN a ELSE entries[k],
                      shown |-> listing.shown \o SubSeq(entries, 1, k),
                      hints |-> listing.hints \cup {a}]
      BY DEF ListPage, Entries, S, a
    <2>2. w \in 0..N /\ Len(entries) = N /\ Whole(sizes, w, hint) \in 0..N
      <3> HIDE DEF entries, hint
      <3>1. entries \in [1..N -> Seq(Nat)]
        BY <1>4 DEF entries
      <3> QED
        BY <1>4, <3>1, PageEnds
    <2> HIDE DEF entries, w, hint
    <2>3. k \in 0..N /\ (~ cut => k = N)
      <3> HIDE DEF sizes
      <3> QED
        BY <1>4, <2>2
    <2>4. listing'.state = "ended" => ~ cut
      BY <2>1
    <2> HIDE DEF k, cut
    <2>5. /\ b = IF k = 0 THEN a ELSE entries[k]
          /\ listing'.shown = listing.shown \o SubSeq(entries, 1, k)
          /\ listing'.hints = listing.hints \cup {a}
      BY <2>1
    <2> QED
      BY <2>3, <2>4, <2>5 DEF entries
  <1> HIDE DEF b
  <1>6. PageOf(S, a, k, b)
    BY <1>1, <1>2, <1>5 DEF PageOf, N
  <1>7. /\ b \in S \cup {a} /\ b \in Seq(Nat) /\ AtMost(a, b)
    BY <1>6, PageIs
  <1>8. /\ listing'.shown \in Seq(Seq(Nat)) /\ NoneBehind(listing'.shown, b) /\ Rising(listing'.shown)
        /\ ToSet(listing'.shown) = ToSet(listing.shown) \cup {x \in S : AtMost(x, b)}
    <2> DEFINE joined == listing.shown \o SubSeq(Sorted(S), 1, k)
    <2>1. /\ joined \in Seq(Seq(Nat)) /\ NoneBehind(joined, b) /\ Rising(joined)
          /\ ToSet(joined) = ToSet(listing.shown) \cup {x \in S : AtMost(x, b)}
      BY <1>2, <1>6, PageFollows
    <2> HIDE DEF joined
    <2>2. listing'.shown = joined
      BY <1>5 DEF joined
    <2> QED
      BY <2>1, <2>2
  <1>9. ListTyped'
    <2>1. listing'.hints \subseteq Seq(Nat)
      BY <1>2, <1>5
    <2>2. steady' \subseteq Paths \X TreeKinds
      BY <1>3 DEF ListInv, ListTyped
    <2> QED
      BY <1>3, <1>7, <1>8, <2>1, <2>2 DEF ListInv, ListTyped, b
  <1>10. \A h \in listing'.hints : AtMost(h, b)
    BY <1>2, <1>5, <1>7, AtMostBefore
  <1>11. ASSUME NEW path \in Paths, NEW kind \in TreeKinds, <<path, kind>> \in steady'
         PROVE  /\ <<path, kind>> \in steady /\ path \in DOMAIN tree /\ tree[path] = kind
    BY <1>3, <1>11
  <1>12. ASSUME NEW path \in Paths, <<path, "dir">> \in steady' PROVE b # path
    <2>1. <<path, "dir">> \in steady /\ path \in DOMAIN tree /\ tree[path] = "dir"
      BY <1>11, <1>12 DEF TreeKinds
    <2>2. a # path
      BY <2>1 DEF ListInv, a
    <2> QED
      BY <1>1, <1>7, <2>1, <2>2
  <1>13. ASSUME NEW path \in Paths, NEW kind \in TreeKinds, StandsAt(path, kind)'
         PROVE  /\ ShownUpTo(b, listing'.hints, ToSet(listing'.shown), path, kind)
                /\ listing'.state = "ended" =>
                     AtMost(Named(path, kind), b) \/ Skipped(listing'.hints, path, kind)
    <2>1. <<path, kind>> \in steady' /\ Reached(path)
      BY <1>3, <1>13 DEF StandsAt, Reached
    <2>2. <<path, kind>> \in steady /\ path \in DOMAIN tree /\ tree[path] = kind
      BY <1>11, <2>1
    <2>3. Named(path, kind) \in S <=> Precedes(a, path)
      BY <1>1, <2>1, <2>2
    <2>4. kind = "dir" => a # path
      BY <2>2 DEF ListInv, a
    <2>5. ShownUpTo(a, listing.hints, ToSet(listing.shown), path, kind)
      BY <2>1, <2>2 DEF ListInv, StandsAt, a
    <2>6. /\ ShownUpTo(b, listing.hints \cup {a}, ToSet(listing.shown) \cup {x \in S : AtMost(x, b)},
                       path, kind)
          /\ k = N =>
               AtMost(Named(path, kind), b) \/ Skipped(listing.hints \cup {a}, path, kind)
      BY <1>2, <1>6, <2>3, <2>4, <2>5, PageShows DEF N
    <2> QED
      BY <1>5, <1>8, <2>6
  <1> QED
    <2>1. (Rising(listing.shown))' /\ (NoneBehind(listing.shown, listing.after))'
      BY <1>8 DEF b, Rising, NoneBehind, AtMost, Precedes
    <2>2. (\A h \in listing.hints : AtMost(h, listing.after))'
      BY <1>10 DEF b, AtMost
    <2>3. (\A path \in Paths : <<path, "dir">> \in steady => listing.after # path)'
      BY <1>12 DEF b
    <2>4. (\A path \in Paths, kind \in TreeKinds : StandsAt(path, kind) =>
             /\ ShownUpTo(listing.after, listing.hints, ToSet(listing.shown), path, kind)
             /\ listing.state = "ended" =>
                  AtMost(Named(path, kind), listing.after) \/ Skipped(listing.hints, path, kind))'
      BY <1>13 DEF b
    <2> QED
      BY <1>9, <2>1, <2>2, <2>3, <2>4 DEF ListInv

LEMMA ListStep == ListInv /\ [Next]_<<subject, log, toolVars>> => ListInv'
  <1> SUFFICES ASSUME ListInv, [Next]_<<subject, log, toolVars>> PROVE ListInv'
    OBVIOUS
  <1>1. ASSUME UNCHANGED <<steady, recursive, listing>>, ListTyped' PROVE ListInv'
    <2>1. \A path, kind : StandsAt(path, kind)' <=> StandsAt(path, kind)
      BY <1>1 DEF StandsAt, Reached
    <2> QED
      BY <1>1, <2>1 DEF ListInv
  <1>2. ASSUME UNCHANGED listVars PROVE ListInv'
    BY <1>1, <1>2 DEF listVars, ListTyped, ListInv
  <1>3. CASE AppendRecord
    BY <1>2, <1>3 DEF AppendRecord, toolVars
  <1>4. CASE Investigate
    <2>1. CASE ListPage
      BY <2>1, ListPageKeeps
    <2>2. CASE Changes
      <3>1. /\ UNCHANGED <<steady, recursive, listing>>
            /\ DOMAIN tree \subseteq Paths /\ \A p \in DOMAIN tree : tree[p] \in TreeKinds
        BY <2>2 DEF Changes, ListInv, ListTyped
      <3>2. CASE \E p \in Paths \ DOMAIN tree, kind \in TreeKinds : tree' = Grown(p, kind)
        <4>1. PICK p \in Paths, kind \in TreeKinds : tree' = Grown(p, kind)
          BY <3>2
        <4>2. DOMAIN tree' \subseteq Paths /\ \A q \in DOMAIN tree' : tree'[q] \in TreeKinds
          BY <3>1, <4>1 DEF Grown
        <4> QED
          BY <1>1, <3>1, <4>2 DEF ListInv, ListTyped
      <3>3. CASE \E p \in DOMAIN tree : tree' = [q \in DOMAIN tree \ {p} |-> tree[q]]
        <4>1. DOMAIN tree' \subseteq Paths /\ \A q \in DOMAIN tree' : tree'[q] \in TreeKinds
          BY <3>1, <3>3
        <4> QED
          BY <1>1, <3>1, <4>1 DEF ListInv, ListTyped
      <3> QED
        BY <2>2, <3>2, <3>3 DEF Changes, TreeKinds
    <2>3. CASE \E last \in DOMAIN file : ReadPage(last)
      BY <1>2, <2>3 DEF ReadPage
    <2> QED
      BY <1>4, <2>1, <2>2, <2>3 DEF Investigate, ToolsNext
  <1>5. CASE UNCHANGED <<subject, log, toolVars>>
    BY <1>2, <1>5 DEF toolVars
  <1> QED
    BY <1>3, <1>4, <1>5 DEF Next

\* However many pages a list takes and whatever comes and goes between them, the
\* paths come in order and none twice, and of what stays in place none is missing
\* but a directory that the hint of a page lies behind while its name with the
\* slash lies behind the hint (listTool.Execute tools.go:187-246).
THEOREM AlgorithmsListIsComplete == Spec => []ListIsComplete
  <1>1. ASSUME ListInv PROVE ListIsComplete
    <2>1. \A i, j \in DOMAIN listing.shown :
            i < j => Precedes(listing.shown[i], listing.shown[j])
      <3>1. DOMAIN listing.shown = 1..Len(listing.shown)
        BY <1>1 DEF ListInv, ListTyped
      <3> QED
        BY <1>1, <3>1 DEF ListInv, Rising
    <2>2. ASSUME listing.state = "ended", NEW p \in steady, Reached(p[1])
          PROVE  EntryOf([q \in {p[1]} |-> p[2]], p[1]) \in ToSet(listing.shown)
                   <=> ~ Skipped(listing.hints, p[1], p[2])
      <3>1. p[1] \in Paths /\ p[2] \in TreeKinds /\ <<p[1], p[2]>> \in steady
        <4>1. p \in Paths \X TreeKinds
          BY <1>1 DEF ListInv, ListTyped
        <4>2. p = <<p[1], p[2]>> /\ p[1] \in Paths /\ p[2] \in TreeKinds
          BY <4>1
        <4> QED
          BY <4>2
      <3>2. EntryOf([q \in {p[1]} |-> p[2]], p[1]) = Named(p[1], p[2])
        BY DEF EntryOf, Named
      <3>3. StandsAt(p[1], p[2])
        BY <2>2, <3>1 DEF StandsAt
      <3> QED
        BY <1>1, <2>2, <3>1, <3>2, <3>3 DEF ListInv, ShownUpTo
    <2> QED
      BY <2>1, <2>2 DEF ListIsComplete, Skipped
  <1> QED
    BY <1>1, ListInitial, ListStep, PTL DEF Spec
=============================================================================
