-------------------------- MODULE ModelCallProofs --------------------------
(***************************************************************************)
(* The invariants of a model call, for every chunk, fragment, header and   *)
(* bound.  First the functions of Redaction, as what they do with one more *)
(* piece: a stream that is cut into chunks completes the lines of the text *)
(* (ChunksJoin), and Redact has shown what the stream has until a key goes *)
(* on in a second line (StreamFollows).  Then the arguments of a call and  *)
(* the delays.  The invariant CallInv combines them: the redactor has      *)
(* completed the lines of the attempt's text, and every builder has the    *)
(* arguments that were sent for it.                                        *)
(***************************************************************************)
EXTENDS ModelCall, TranscriptProofs

Out == Piece \cup {Marker}
Seeing == [at : {"text", "head", "match", "key"}, out : Seq(Out)]
Line == [inKey : BOOLEAN, out : Seq(Out)]
Writing == [inKey : BOOLEAN, pending : Seq(Piece), out : Seq(Out)]

\* Where Redact is after a text.
Seen(whole) ==
  LET seen[n \in 0..Len(whole)] ==
        IF n = 0 THEN [at |-> "text", out |-> <<>>] ELSE RedactPiece(seen[n - 1], whole[n])
  IN  seen[Len(whole)]

NoneSeen == [at |-> "text", out |-> <<>>]
NoneWritten(inKey) == [inKey |-> inKey, pending |-> <<>>, out |-> <<>>]
-----------------------------------------------------------------------------
(***************************************************************************)
(* Sequences.                                                              *)
(***************************************************************************)
LEMMA Fronts ==
  ASSUME NEW S, NEW s \in Seq(S), s # <<>>
  PROVE  Front(s) \in Seq(S) /\ s = Append(Front(s), s[Len(s)]) /\ s[Len(s)] \in S
         /\ Len(Front(s)) = Len(s) - 1
  <1>1. Front(s) = SubSeq(s, 1, Len(s) - 1)
    BY DEF Front
  <1>2. ASSUME NEW k \in 1..Len(s), k = Len(s)
        PROVE  /\ SubSeq(s, 1, k - 1) \in Seq(S) /\ s[k] \in S
               /\ s = Append(SubSeq(s, 1, k - 1), s[k])
               /\ Len(SubSeq(s, 1, k - 1)) = k - 1
    BY <1>2
  <1>3. Len(s) \in 1..Len(s)
    OBVIOUS
  <1> QED
    BY <1>1, <1>2, <1>3

LEMMA Joins ==
  ASSUME NEW S, NEW a \in Seq(S), NEW b \in Seq(S), NEW c \in Seq(S), NEW x \in S
  PROVE  /\ a \o b \in Seq(S) /\ Append(a, x) \in Seq(S)
         /\ a \o Append(b, x) = Append(a \o b, x)
         /\ (a \o b) \o c = a \o (b \o c)
         /\ a \o <<>> = a /\ <<>> \o a = a
         /\ a \o <<x>> = Append(a, x)
         /\ b # <<>> => a \o b # <<>>
  OBVIOUS

LEMMA PiecesSeen ==
  ASSUME NEW seen \in Seeing, NEW piece \in Piece
  PROVE  RedactPiece(seen, piece) \in Seeing
  <1>1. seen.out \in Seq(Out) /\ piece \in Out /\ Marker \in Out
    BY DEF Seeing, Out
  <1>2. CASE seen.at = "key"
    BY <1>1, <1>2 DEF RedactPiece, Seeing
  <1>3. CASE seen.at = "head" /\ piece = "tail" /\ seen.out # <<>>
    <2>1. Front(seen.out) \in Seq(Out)
      BY <1>1, <1>3, Fronts
    <2>2. Append(Front(seen.out), Marker) \in Seq(Out)
      BY <1>1, <2>1
    <2> QED
      BY <1>3, <2>2 DEF RedactPiece, Seeing
  <1>4. CASE seen.at = "head" /\ piece = "tail" /\ seen.out = <<>>
    <2>1. Front(seen.out) \in Seq(Out)
      BY <1>1, <1>4 DEF Front
    <2>2. Append(Front(seen.out), Marker) \in Seq(Out)
      BY <1>1, <2>1
    <2> QED
      BY <1>4, <2>2 DEF RedactPiece, Seeing
  <1>5. CASE seen.at # "key" /\ ~ (seen.at = "head" /\ piece = "tail")
    <2>1. Append(seen.out, Marker) \in Seq(Out) /\ Append(seen.out, piece) \in Seq(Out)
      BY <1>1
    <2> QED
      BY <1>1, <1>5, <2>1 DEF RedactPiece, Seeing
  <1> QED
    BY <1>2, <1>3, <1>4, <1>5

\* Redact goes from left to right.
LEMMA SeenEach ==
  ASSUME NEW whole \in Seq(Piece)
  PROVE  \E seen \in [0..Len(whole) -> Seeing] :
           /\ seen[0] = NoneSeen /\ Seen(whole) = seen[Len(whole)]
           /\ \A n \in 1..Len(whole) : seen[n] = RedactPiece(seen[n - 1], whole[n])
  <1> DEFINE L == Len(whole)
             step == [n \in 1..L |-> [seen \in Seeing |-> RedactPiece(seen, whole[n])]]
             Body(f) == [n \in 0..L |->
                           IF n = 0 THEN NoneSeen ELSE RedactPiece(f[n - 1], whole[n])]
             scan == CHOOSE f : f = Body(f)
  <1>1. NoneSeen \in Seeing
    BY DEF NoneSeen, Seeing
  <1>2. step \in [1..L -> [Seeing -> Seeing]]
    <2>1. ASSUME NEW n \in 1..L, NEW seen \in Seeing PROVE RedactPiece(seen, whole[n]) \in Seeing
      <3>1. whole[n] \in Piece
        OBVIOUS
      <3> QED
        BY <3>1, PiecesSeen
    <2> QED
      BY <2>1
  <1>3. L \in Nat
    OBVIOUS
  <1>4. PICK f \in [0..L -> Seeing] : Recurses(f, L, NoneSeen, step)
    <2> HIDE DEF L, step
    <2> QED
      BY <1>1, <1>2, <1>3, Recursion
  <1>5. /\ f[0] = NoneSeen
        /\ \A n \in 1..L : f[n] = RedactPiece(f[n - 1], whole[n])
    <2>1. ASSUME NEW n \in 1..L PROVE f[n] = RedactPiece(f[n - 1], whole[n])
      <3>1. n \in 0..L /\ n # 0 /\ n - 1 \in 0..L
        BY <1>3
      <3>2. f[n] = step[n][f[n - 1]] /\ f[n - 1] \in Seeing
        BY <1>4, <3>1 DEF Recurses
      <3> QED
        BY <3>1, <3>2
    <2>2. f[0] = NoneSeen
      <3> HIDE DEF step
      <3> QED
        BY <1>3, <1>4 DEF Recurses
    <2> QED
      BY <2>1, <2>2
  <1>6. f = Body(f)
    BY <1>5
  <1>7. scan = Body(scan)
    <2> HIDE DEF Body
    <2> QED
      BY <1>6
  <1>8. Seen(whole) = scan[L]
    BY DEF Seen, NoneSeen
  <1>9. scan[0] = NoneSeen /\ \A n \in 1..L : scan[n] = RedactPiece(scan[n - 1], whole[n])
    <2> HIDE DEF scan
    <2> QED
      BY <1>3, <1>7
  <1>10. \A n \in 0..L : scan[n] = f[n]
    <2> DEFINE S == {n \in 0..L : scan[n] = f[n]}
    <2> HIDE DEF scan
    <2>1. 0 \in S
      BY <1>3, <1>5, <1>9
    <2>2. ASSUME NEW n \in 0..(L - 1), n \in S PROVE n + 1 \in S
      <3>1. n + 1 \in 1..L /\ (n + 1) - 1 = n /\ n + 1 \in 0..L /\ scan[n] = f[n]
        BY <1>3, <2>2
      <3>2. scan[n + 1] = RedactPiece(scan[n], whole[n + 1])
            /\ f[n + 1] = RedactPiece(f[n], whole[n + 1])
        BY <1>5, <1>9, <3>1
      <3> QED
        BY <3>1, <3>2
    <2>3. 0..L \subseteq S
      <3> HIDE DEF S, L
      <3> QED
        BY <1>3, <2>1, <2>2, UpTo
    <2> QED
      BY <2>3
  <1>11. Seen(whole) = f[L]
    BY <1>3, <1>8, <1>10
  <1> HIDE DEF L, scan, step, Body
  <1> QED
    BY <1>5, <1>11 DEF L

LEMMA SeenAppend ==
  ASSUME NEW whole \in Seq(Piece)
  PROVE  /\ Seen(whole) \in Seeing /\ Seen(<<>>) = NoneSeen
         /\ \A piece \in Piece : Seen(Append(whole, piece)) = RedactPiece(Seen(whole), piece)
  <1>1. PICK f \in [0..Len(whole) -> Seeing] :
          /\ f[0] = NoneSeen /\ Seen(whole) = f[Len(whole)]
          /\ \A n \in 1..Len(whole) : f[n] = RedactPiece(f[n - 1], whole[n])
    BY SeenEach
  <1>2. Seen(whole) \in Seeing
    BY <1>1
  <1>3. Seen(<<>>) = NoneSeen
    <2>1. <<>> \in Seq(Piece) /\ Len(<<>>) = 0
      OBVIOUS
    <2> QED
      BY <2>1, SeenEach
  <1>4. ASSUME NEW piece \in Piece
        PROVE  Seen(Append(whole, piece)) = RedactPiece(Seen(whole), piece)
    <2> DEFINE longer == Append(whole, piece)
               L == Len(whole)
    <2>1. /\ longer \in Seq(Piece) /\ Len(longer) = L + 1 /\ L \in Nat
          /\ longer[L + 1] = piece /\ \A n \in 1..L : longer[n] = whole[n]
      OBVIOUS
    <2> HIDE DEF longer
    <2>2. PICK g \in [0..Len(longer) -> Seeing] :
            /\ g[0] = NoneSeen /\ Seen(longer) = g[Len(longer)]
            /\ \A n \in 1..Len(longer) : g[n] = RedactPiece(g[n - 1], longer[n])
      BY <2>1, SeenEach
    <2> DEFINE S == {n \in 0..L : g[n] = f[n]}
    <2>3. 0 \in S
      BY <1>1, <2>1, <2>2
    <2>4. ASSUME NEW n \in 0..(L - 1), n \in S PROVE n + 1 \in S
      <3>1. /\ n + 1 \in 1..L /\ n + 1 \in 1..Len(longer) /\ (n + 1) - 1 = n /\ n + 1 \in 0..L
            /\ g[n] = f[n] /\ longer[n + 1] = whole[n + 1]
        BY <2>1, <2>4
      <3>2. /\ f[n + 1] = RedactPiece(f[n], whole[n + 1])
            /\ g[n + 1] = RedactPiece(g[n], longer[n + 1])
        BY <1>1, <2>2, <3>1
      <3> QED
        BY <3>1, <3>2
    <2>5. 0..L \subseteq S
      <3> HIDE DEF S, L
      <3> QED
        BY <2>1, <2>3, <2>4, UpTo
    <2>6. g[L] = f[L] /\ L + 1 \in 1..Len(longer) /\ (L + 1) - 1 = L
      BY <2>1, <2>5
    <2>7. g[L + 1] = RedactPiece(g[L], piece)
      <3> HIDE DEF L, S
      <3> QED
        BY <2>1, <2>2, <2>6
    <2>8. Seen(longer) = g[L + 1] /\ Seen(whole) = f[L]
      BY <1>1, <2>1, <2>2
    <2> HIDE DEF L, S
    <2> QED
      BY <2>6, <2>7, <2>8 DEF longer
  <1> QED
    BY <1>2, <1>3, <1>4

LEMMA RedactIsSeen ==
  ASSUME NEW whole \in Seq(Piece)
  PROVE  Redact(whole) = Seen(whole).out /\ Redact(whole) \in Seq(Out) /\ Redact(<<>>) = <<>>
  <1>1. Redact(whole) = Seen(whole).out /\ Redact(<<>>) = Seen(<<>>).out
    BY DEF Redact, Seen
  <1> QED
    BY <1>1, SeenAppend DEF Seeing, NoneSeen
-----------------------------------------------------------------------------
(***************************************************************************)
(* A line.                                                                 *)
(***************************************************************************)
LEMMA Least ==
  ASSUME NEW T \in SUBSET Nat, T # {}
  PROVE  Min(T) \in T /\ \A n \in T : Min(T) <= n
  BY LeastNumber DEF Min

LEMMA Cuts ==
  ASSUME NEW line \in Seq(Piece)
  PROVE  /\ \A i \in 0..(Len(line) + 1) : Before(line, i) \in Seq(Piece)
         /\ \A i \in 0..Len(line) : After(line, i) \in Seq(Piece)
         /\ Before(line, 0) = <<>>
         /\ \A piece : Positions(piece, line) \in SUBSET (1..Len(line))
  <1>1. ASSUME NEW i \in 0..Len(line) PROVE After(line, i) \in Seq(Piece)
    BY DEF After
  <1>2. ASSUME NEW i \in 1..(Len(line) + 1) PROVE Before(line, i) \in Seq(Piece)
    BY DEF Before
  <1>3. Before(line, 0) = <<>>
    BY DEF Before
  <1>4. <<>> \in Seq(Piece) /\ \A i \in 0..(Len(line) + 1) : i # 0 => i \in 1..(Len(line) + 1)
    OBVIOUS
  <1>5. \A piece : Positions(piece, line) \in SUBSET (1..Len(line))
    BY DEF Positions
  <1> QED
    BY <1>1, <1>2, <1>3, <1>4, <1>5

\* The first position of a key in a line, and the last ones of its key.
KeyFrom(inKey, line, first) ==
  IF inKey THEN first = 0
  ELSE first \in Positions("begin", line) /\ \A i \in Positions("begin", line) : first <= i
Lasts(line, first) == {i \in Positions("end", line) : i > first}
KeyCut(line, first, redacted) ==
  \/ /\ Lasts(line, first) = {}
     /\ redacted = [inKey |-> TRUE, out |-> Redact(Before(line, first)) \o <<Marker>>]
  \/ \E last \in Lasts(line, first) :
       /\ \A i \in Lasts(line, first) : last <= i
       /\ redacted = [inKey |-> FALSE, out |-> Redact(Before(line, first)) \o <<Marker>>
                                                \o Redact(After(line, last))]

LEMMA LineIs ==
  ASSUME NEW inKey \in BOOLEAN, NEW line \in Seq(Piece)
  PROVE  /\ ~ inKey /\ Positions("begin", line) = {} =>
              RedactLine(inKey, line) = [inKey |-> FALSE, out |-> Redact(line)]
         /\ inKey \/ Positions("begin", line) # {} =>
              \E first \in 0..Len(line) :
                KeyFrom(inKey, line, first) /\ KeyCut(line, first, RedactLine(inKey, line))
  <1>1. /\ Positions("begin", line) \in SUBSET (1..Len(line))
        /\ Positions("end", line) \in SUBSET (1..Len(line)) /\ Len(line) \in Nat
    BY Cuts
  <1>2. CASE ~ inKey /\ Positions("begin", line) = {}
    <2>1. Len(line) + 1 > Len(line)
      BY <1>1
    <2> QED
      BY <1>2, <2>1 DEF RedactLine
  <1>3. CASE inKey \/ Positions("begin", line) # {}
    <2> DEFINE first == IF inKey THEN 0 ELSE Min(Positions("begin", line))
    <2>1. first \in 0..Len(line) /\ KeyFrom(inKey, line, first)
      <3>1. CASE inKey
        BY <1>1, <3>1 DEF KeyFrom
      <3>2. CASE ~ inKey
        <4>1. Positions("begin", line) \in SUBSET Nat
          BY <1>1
        <4>2. Min(Positions("begin", line)) \in Positions("begin", line)
              /\ \A i \in Positions("begin", line) : Min(Positions("begin", line)) <= i
          BY <1>3, <3>2, <4>1, Least
        <4> QED
          BY <1>1, <3>2, <4>2 DEF KeyFrom
      <3> QED
        BY <3>1, <3>2
    <2>2. ~ (first > Len(line)) /\ first <= Len(line)
      BY <1>1, <2>1
    <2>3. first = IF inKey THEN 0 ELSE IF Positions("begin", line) = {} THEN Len(line) + 1
                  ELSE Min(Positions("begin", line))
      BY <1>3
    <2> HIDE DEF first
    <2>4. RedactLine(inKey, line) =
            IF Lasts(line, first) = {}
            THEN [inKey |-> TRUE, out |-> Redact(Before(line, first)) \o <<Marker>>]
            ELSE [inKey |-> FALSE,
                  out |-> Redact(Before(line, first)) \o <<Marker>>
                            \o Redact(After(line, Min(Lasts(line, first))))]
      BY <2>2, <2>3 DEF RedactLine, Lasts
    <2>5. CASE Lasts(line, first) = {}
      <3>1. KeyCut(line, first, RedactLine(inKey, line))
        BY <2>4, <2>5 DEF KeyCut
      <3> QED
        BY <2>1, <3>1, <1>3
    <2>6. CASE Lasts(line, first) # {}
      <3>1. Lasts(line, first) \in SUBSET Nat
        BY <1>1 DEF Lasts
      <3>2. Min(Lasts(line, first)) \in Lasts(line, first)
            /\ \A i \in Lasts(line, first) : Min(Lasts(line, first)) <= i
        BY <2>6, <3>1, Least
      <3>3. KeyCut(line, first, RedactLine(inKey, line))
        BY <2>4, <2>6, <3>2 DEF KeyCut
      <3> QED
        BY <2>1, <3>3, <1>3
    <2> QED
      BY <2>5, <2>6
  <1> QED
    BY <1>2, <1>3

LEMMA LineTyped ==
  ASSUME NEW inKey \in BOOLEAN, NEW line \in Seq(Piece)
  PROVE  RedactLine(inKey, line) \in Line
  <1>1. \A a \in Seq(Out) : a \o <<Marker>> \in Seq(Out)
    BY DEF Out
  <1>2. \A a, b \in Seq(Out) : a \o b \in Seq(Out)
    OBVIOUS
  <1>3. CASE ~ inKey /\ Positions("begin", line) = {}
    <2>1. RedactLine(inKey, line) = [inKey |-> FALSE, out |-> Redact(line)]
      BY <1>3, LineIs
    <2>2. Redact(line) \in Seq(Out)
      BY RedactIsSeen
    <2> QED
      BY <2>1, <2>2 DEF Line
  <1>4. CASE inKey \/ Positions("begin", line) # {}
    <2>1. PICK first \in 0..Len(line) :
            KeyCut(line, first, RedactLine(inKey, line))
      BY <1>4, LineIs
    <2>2. Before(line, first) \in Seq(Piece)
      BY Cuts
    <2>3. Redact(Before(line, first)) \o <<Marker>> \in Seq(Out)
      BY <1>1, <2>2, RedactIsSeen
    <2>4. ASSUME NEW last \in Lasts(line, first)
          PROVE  Redact(Before(line, first)) \o <<Marker>> \o Redact(After(line, last)) \in Seq(Out)
      <3>1. last \in 0..Len(line)
        BY DEF Lasts, Positions
      <3>2. Redact(After(line, last)) \in Seq(Out)
        BY <3>1, Cuts, RedactIsSeen
      <3> QED
        BY <1>2, <2>3, <3>2
    <2> QED
      <3>1. CASE /\ Lasts(line, first) = {}
                 /\ RedactLine(inKey, line) =
                      [inKey |-> TRUE, out |-> Redact(Before(line, first)) \o <<Marker>>]
        BY <2>3, <3>1 DEF Line
      <3>2. ASSUME NEW last \in Lasts(line, first),
                   RedactLine(inKey, line) =
                     [inKey |-> FALSE, out |-> Redact(Before(line, first)) \o <<Marker>>
                                                 \o Redact(After(line, last))]
            PROVE  RedactLine(inKey, line) \in Line
        BY <2>4, <3>2 DEF Line
      <3> QED
        BY <2>1, <3>1, <3>2 DEF KeyCut
  <1> QED
    BY <1>3, <1>4

LEMMA PiecesWritten ==
  ASSUME NEW w \in Writing, NEW piece \in Piece
  PROVE  WritePiece(w, piece) \in Writing
  <1>1. w.inKey \in BOOLEAN /\ w.pending \in Seq(Piece) /\ w.out \in Seq(Out)
    BY DEF Writing
  <1>2. CASE piece # "newline"
    <2>1. Append(w.pending, piece) \in Seq(Piece)
      BY <1>1
    <2> QED
      BY <1>1, <1>2, <2>1 DEF WritePiece, Writing
  <1>3. CASE piece = "newline"
    <2> DEFINE line == RedactLine(w.inKey, w.pending)
    <2>1. line.inKey \in BOOLEAN /\ line.out \in Seq(Out)
      BY <1>1, LineTyped DEF Line
    <2>2. <<>> \in Seq(Piece) /\ "newline" \in Out
      BY DEF Out, Piece
    <2>3. w.out \o line.out \o <<"newline">> \in Seq(Out)
      <3> HIDE DEF line
      <3>1. w.out \o line.out \in Seq(Out)
        BY <1>1, <2>1
      <3> QED
        BY <2>2, <3>1
    <2> QED
      BY <1>3, <2>1, <2>2, <2>3 DEF WritePiece, Writing
  <1> QED
    BY <1>2, <1>3

\* So does the loop of Write.
LEMMA CompletedEach ==
  ASSUME NEW inKey \in BOOLEAN, NEW whole \in Seq(Piece)
  PROVE  \E w \in [0..Len(whole) -> Writing] :
           /\ w[0] = NoneWritten(inKey) /\ Completed(inKey, whole) = w[Len(whole)]
           /\ \A n \in 1..Len(whole) : w[n] = WritePiece(w[n - 1], whole[n])
  <1> DEFINE L == Len(whole)
             step == [n \in 1..L |-> [x \in Writing |-> WritePiece(x, whole[n])]]
             Body(f) == [n \in 0..L |->
                           IF n = 0 THEN NoneWritten(inKey) ELSE WritePiece(f[n - 1], whole[n])]
             scan == CHOOSE f : f = Body(f)
  <1>1. NoneWritten(inKey) \in Writing
    BY DEF NoneWritten, Writing
  <1>2. step \in [1..L -> [Writing -> Writing]]
    <2>1. ASSUME NEW n \in 1..L, NEW x \in Writing PROVE WritePiece(x, whole[n]) \in Writing
      <3>1. whole[n] \in Piece
        OBVIOUS
      <3> QED
        BY <3>1, PiecesWritten
    <2> QED
      BY <2>1
  <1>3. L \in Nat
    OBVIOUS
  <1>4. PICK f \in [0..L -> Writing] : Recurses(f, L, NoneWritten(inKey), step)
    <2> HIDE DEF L, step
    <2> QED
      BY <1>1, <1>2, <1>3, Recursion
  <1>5. /\ f[0] = NoneWritten(inKey)
        /\ \A n \in 1..L : f[n] = WritePiece(f[n - 1], whole[n])
    <2>1. ASSUME NEW n \in 1..L PROVE f[n] = WritePiece(f[n - 1], whole[n])
      <3>1. n \in 0..L /\ n # 0 /\ n - 1 \in 0..L
        BY <1>3
      <3>2. f[n] = step[n][f[n - 1]] /\ f[n - 1] \in Writing
        BY <1>4, <3>1 DEF Recurses
      <3> QED
        BY <3>1, <3>2
    <2>2. f[0] = NoneWritten(inKey)
      <3> HIDE DEF step
      <3> QED
        BY <1>3, <1>4 DEF Recurses
    <2> QED
      BY <2>1, <2>2
  <1>6. f = Body(f)
    BY <1>5
  <1>7. scan = Body(scan)
    <2> HIDE DEF Body
    <2> QED
      BY <1>6
  <1>8. Completed(inKey, whole) = scan[L]
    BY DEF Completed, NoneWritten
  <1>9. scan[0] = NoneWritten(inKey) /\ \A n \in 1..L : scan[n] = WritePiece(scan[n - 1], whole[n])
    <2> HIDE DEF scan
    <2> QED
      BY <1>3, <1>7
  <1>10. \A n \in 0..L : scan[n] = f[n]
    <2> DEFINE S == {n \in 0..L : scan[n] = f[n]}
    <2> HIDE DEF scan
    <2>1. 0 \in S
      BY <1>3, <1>5, <1>9
    <2>2. ASSUME NEW n \in 0..(L - 1), n \in S PROVE n + 1 \in S
      <3>1. n + 1 \in 1..L /\ (n + 1) - 1 = n /\ n + 1 \in 0..L /\ scan[n] = f[n]
        BY <1>3, <2>2
      <3>2. scan[n + 1] = WritePiece(scan[n], whole[n + 1])
            /\ f[n + 1] = WritePiece(f[n], whole[n + 1])
        BY <1>5, <1>9, <3>1
      <3> QED
        BY <3>1, <3>2
    <2>3. 0..L \subseteq S
      <3> HIDE DEF S, L
      <3> QED
        BY <1>3, <2>1, <2>2, UpTo
    <2> QED
      BY <2>3
  <1>11. Completed(inKey, whole) = f[L]
    BY <1>3, <1>8, <1>10
  <1> HIDE DEF L, scan, step, Body
  <1> QED
    BY <1>5, <1>11 DEF L

LEMMA CompletedAppend ==
  ASSUME NEW inKey \in BOOLEAN, NEW whole \in Seq(Piece)
  PROVE  /\ Completed(inKey, whole) \in Writing /\ Completed(inKey, <<>>) = NoneWritten(inKey)
         /\ \A piece \in Piece : Completed(inKey, Append(whole, piece)) = WritePiece(Completed(inKey, whole), piece)
  <1>1. PICK f \in [0..Len(whole) -> Writing] :
          /\ f[0] = NoneWritten(inKey) /\ Completed(inKey, whole) = f[Len(whole)]
          /\ \A n \in 1..Len(whole) : f[n] = WritePiece(f[n - 1], whole[n])
    BY CompletedEach
  <1>2. Completed(inKey, whole) \in Writing
    BY <1>1
  <1>3. Completed(inKey, <<>>) = NoneWritten(inKey)
    <2>1. <<>> \in Seq(Piece) /\ Len(<<>>) = 0
      OBVIOUS
    <2> QED
      BY <2>1, CompletedEach
  <1>4. ASSUME NEW piece \in Piece
        PROVE  Completed(inKey, Append(whole, piece)) = WritePiece(Completed(inKey, whole), piece)
    <2> DEFINE longer == Append(whole, piece)
               L == Len(whole)
    <2>1. /\ longer \in Seq(Piece) /\ Len(longer) = L + 1 /\ L \in Nat
          /\ longer[L + 1] = piece /\ \A n \in 1..L : longer[n] = whole[n]
      OBVIOUS
    <2> HIDE DEF longer
    <2>2. PICK g \in [0..Len(longer) -> Writing] :
            /\ g[0] = NoneWritten(inKey) /\ Completed(inKey, longer) = g[Len(longer)]
            /\ \A n \in 1..Len(longer) : g[n] = WritePiece(g[n - 1], longer[n])
      BY <2>1, CompletedEach
    <2> DEFINE S == {n \in 0..L : g[n] = f[n]}
    <2>3. 0 \in S
      BY <1>1, <2>1, <2>2
    <2>4. ASSUME NEW n \in 0..(L - 1), n \in S PROVE n + 1 \in S
      <3>1. /\ n + 1 \in 1..L /\ n + 1 \in 1..Len(longer) /\ (n + 1) - 1 = n /\ n + 1 \in 0..L
            /\ g[n] = f[n] /\ longer[n + 1] = whole[n + 1]
        BY <2>1, <2>4
      <3>2. /\ f[n + 1] = WritePiece(f[n], whole[n + 1])
            /\ g[n + 1] = WritePiece(g[n], longer[n + 1])
        BY <1>1, <2>2, <3>1
      <3> QED
        BY <3>1, <3>2
    <2>5. 0..L \subseteq S
      <3> HIDE DEF S, L
      <3> QED
        BY <2>1, <2>3, <2>4, UpTo
    <2>6. g[L] = f[L] /\ L + 1 \in 1..Len(longer) /\ (L + 1) - 1 = L
      BY <2>1, <2>5
    <2>7. g[L + 1] = WritePiece(g[L], piece)
      <3> HIDE DEF L, S
      <3> QED
        BY <2>1, <2>2, <2>6
    <2>8. Completed(inKey, longer) = g[L + 1] /\ Completed(inKey, whole) = f[L]
      BY <1>1, <2>1, <2>2
    <2> HIDE DEF L, S
    <2> QED
      BY <2>6, <2>7, <2>8 DEF longer
  <1> QED
    BY <1>2, <1>3, <1>4
-----------------------------------------------------------------------------
(***************************************************************************)
(* A stream is cut into chunks.                                            *)
(***************************************************************************)
LEMMA ByPieces ==
  ASSUME NEW P, NEW T, <<>> \in T,
         \A whole \in Seq(P), piece \in P : whole \in T => Append(whole, piece) \in T
  PROVE  Seq(P) \subseteq T
  <1> SUFFICES ASSUME NEW whole \in Seq(P) PROVE whole \in T
    OBVIOUS
  <1> DEFINE S == {n \in 0..Len(whole) : SubSeq(whole, 1, n) \in T}
  <1>1. 0 \in S
    <2>1. SubSeq(whole, 1, 0) = <<>> /\ 0 \in 0..Len(whole)
      OBVIOUS
    <2> QED
      BY <2>1
  <1>2. ASSUME NEW n \in 0..(Len(whole) - 1), n \in S PROVE n + 1 \in S
    <2>1. /\ n + 1 \in 0..Len(whole) /\ SubSeq(whole, 1, n) \in Seq(P) /\ whole[n + 1] \in P
          /\ SubSeq(whole, 1, n + 1) = Append(SubSeq(whole, 1, n), whole[n + 1])
      OBVIOUS
    <2> QED
      BY <1>2, <2>1
  <1>3. 0..Len(whole) \subseteq S
    <2>1. Len(whole) \in Nat
      OBVIOUS
    <2> HIDE DEF S
    <2> QED
      BY <1>1, <1>2, <2>1, UpTo
  <1>4. Len(whole) \in 0..Len(whole) /\ SubSeq(whole, 1, Len(whole)) = whole
    OBVIOUS
  <1> QED
    BY <1>3, <1>4

Inline == Piece \ {"newline"}

LEMMA NoLineEnd ==
  ASSUME NEW inKey \in BOOLEAN, NEW whole \in Seq(Piece)
  PROVE  Completed(inKey, whole).pending \in Seq(Inline)
  <1> DEFINE T == {t \in Seq(Piece) : Completed(inKey, t).pending \in Seq(Inline)}
  <1>1. <<>> \in T
    <2>1. <<>> \in Seq(Piece) /\ <<>> \in Seq(Inline)
      OBVIOUS
    <2>2. Completed(inKey, <<>>) = NoneWritten(inKey)
      BY <2>1, CompletedAppend
    <2>3. NoneWritten(inKey).pending = <<>>
      BY DEF NoneWritten
    <2> QED
      BY <2>1, <2>2, <2>3
  <1>2. ASSUME NEW t \in Seq(Piece), NEW piece \in Piece, t \in T PROVE Append(t, piece) \in T
    <2> DEFINE w == Completed(inKey, t)
    <2>1. Completed(inKey, Append(t, piece)) = WritePiece(w, piece) /\ w \in Writing
      BY CompletedAppend
    <2>2. w.pending \in Seq(Inline)
      BY <1>2
    <2> HIDE DEF w
    <2>3. WritePiece(w, piece).pending \in Seq(Inline)
      <3>1. CASE piece = "newline"
        <4>1. WritePiece(w, piece).pending = <<>>
          BY <3>1 DEF WritePiece
        <4> QED
          BY <4>1
      <3>2. CASE piece # "newline"
        <4>1. WritePiece(w, piece).pending = Append(w.pending, piece)
          BY <2>1, <3>2 DEF WritePiece, Writing
        <4>2. piece \in Inline
          BY <3>2 DEF Inline
        <4> QED
          BY <2>2, <4>1, <4>2
      <3> QED
        BY <3>1, <3>2
    <2>4. Append(t, piece) \in Seq(Piece)
      OBVIOUS
    <2> QED
      BY <2>1, <2>3, <2>4
  <1>3. Seq(Piece) \subseteq T
    <2> HIDE DEF T
    <2> QED
      BY <1>1, <1>2, ByPieces
  <1> QED
    BY <1>3

LEMMA PendingStays ==
  ASSUME NEW inKey \in BOOLEAN, NEW line \in Seq(Inline)
  PROVE  line \in Seq(Piece)
         /\ Completed(inKey, line) = [inKey |-> inKey, pending |-> line, out |-> <<>>]
  <1>1. Seq(Inline) \subseteq Seq(Piece)
    BY DEF Inline
  <1> DEFINE T == {t \in Seq(Piece) :
                     Completed(inKey, t) = [inKey |-> inKey, pending |-> t, out |-> <<>>]}
  <1>2. <<>> \in T
    <2>1. <<>> \in Seq(Piece)
      OBVIOUS
    <2>2. Completed(inKey, <<>>) = NoneWritten(inKey)
      BY <2>1, CompletedAppend
    <2> QED
      BY <2>1, <2>2 DEF NoneWritten
  <1>3. ASSUME NEW t \in Seq(Inline), NEW piece \in Inline, t \in T PROVE Append(t, piece) \in T
    <2>1. t \in Seq(Piece) /\ piece \in Piece /\ piece # "newline"
      BY <1>1 DEF Inline
    <2>2. Completed(inKey, Append(t, piece)) = WritePiece(Completed(inKey, t), piece)
      BY <2>1, CompletedAppend
    <2>3. Append(t, piece) \in Seq(Piece)
      BY <2>1
    <2> QED
      BY <1>3, <2>1, <2>2, <2>3 DEF WritePiece
  <1>4. Seq(Inline) \subseteq T
    <2> HIDE DEF T
    <2> QED
      BY <1>2, <1>3, ByPieces
  <1> QED
    BY <1>1, <1>4

\* The same to be written, and o was written before it.
Behind(u, v, o) == u.inKey = v.inKey /\ u.pending = v.pending /\ u.out = o \o v.out

LEMMA BehindStep ==
  ASSUME NEW u \in Writing, NEW v \in Writing, NEW o \in Seq(Out), NEW piece \in Piece,
         Behind(u, v, o)
  PROVE  Behind(WritePiece(u, piece), WritePiece(v, piece), o)
  <1>1. CASE piece # "newline"
    BY <1>1 DEF Behind, WritePiece, Writing
  <1>2. CASE piece = "newline"
    <2> DEFINE line == RedactLine(v.inKey, v.pending)
    <2>1. v.inKey \in BOOLEAN /\ v.pending \in Seq(Piece) /\ v.out \in Seq(Out)
      BY DEF Writing
    <2> DEFINE nl == <<"newline">>
    <2>2. line.out \in Seq(Out) /\ nl \in Seq(Out)
      <3>1. "newline" \in Out
        BY DEF Out, Piece
      <3> QED
        BY <2>1, <3>1, LineTyped DEF Line
    <2>3. RedactLine(u.inKey, u.pending) = line
      BY DEF Behind
    <2> HIDE DEF line, nl
    <2>4. (o \o v.out) \o line.out \o nl = o \o (v.out \o line.out \o nl)
      <3> DEFINE b == v.out
                 c == line.out
      <3>1. b \in Seq(Out) /\ c \in Seq(Out) /\ nl \in Seq(Out)
        BY <2>1, <2>2
      <3> HIDE DEF b, c
      <3>2. (o \o b) \o c \o nl = o \o (b \o c \o nl)
        <4>1. o \o b \in Seq(Out) /\ b \o c \in Seq(Out) /\ (o \o b) \o c = o \o (b \o c)
          BY <3>1
        <4>2. (o \o (b \o c)) \o nl = o \o ((b \o c) \o nl)
          BY <3>1, <4>1
        <4> QED
          BY <4>1, <4>2
      <3> QED
        BY <3>2 DEF b, c
    <2>5. /\ WritePiece(u, piece) =
               [inKey |-> line.inKey, pending |-> <<>>, out |-> u.out \o line.out \o nl]
          /\ WritePiece(v, piece) =
               [inKey |-> line.inKey, pending |-> <<>>, out |-> v.out \o line.out \o nl]
      BY <1>2, <2>3 DEF WritePiece, line, nl
    <2>6. u.out \o line.out \o nl = o \o (v.out \o line.out \o nl)
      <3>1. u.out = o \o v.out
        BY DEF Behind
      <3> QED
        BY <2>4, <3>1
    <2> HIDE DEF Behind
    <2>7. /\ WritePiece(u, piece).out = o \o (v.out \o line.out \o nl)
          /\ WritePiece(v, piece).out = v.out \o line.out \o nl
          /\ WritePiece(u, piece).inKey = WritePiece(v, piece).inKey
          /\ WritePiece(u, piece).pending = WritePiece(v, piece).pending
      <3> DEFINE x == u.out \o line.out \o nl
                 y == v.out \o line.out \o nl
      <3> HIDE DEF x, y
      <3>1. WritePiece(u, piece) = [inKey |-> line.inKey, pending |-> <<>>, out |-> x]
            /\ WritePiece(v, piece) = [inKey |-> line.inKey, pending |-> <<>>, out |-> y]
        BY <2>5 DEF x, y
      <3>2. /\ WritePiece(u, piece).out = x /\ WritePiece(v, piece).out = y
            /\ WritePiece(u, piece).inKey = WritePiece(v, piece).inKey
            /\ WritePiece(u, piece).pending = WritePiece(v, piece).pending
        BY <3>1
      <3> QED
        BY <2>6, <3>2 DEF x, y
    <2> QED
      BY <2>7 DEF Behind
  <1> QED
    BY <1>1, <1>2

\* Whatever was pending is read again with the chunk.
LEMMA ChunksJoin ==
  ASSUME NEW inKey \in BOOLEAN, NEW whole \in Seq(Piece), NEW chunk \in Seq(Piece),
         NEW w, w = Completed(inKey, whole)
  PROVE  Behind(Completed(inKey, whole \o chunk), Completed(w.inKey, w.pending \o chunk), w.out)
  <1>1. /\ w.inKey \in BOOLEAN /\ w.pending \in Seq(Piece) /\ w.out \in Seq(Out)
        /\ w.pending \in Seq(Inline)
    BY CompletedAppend, NoLineEnd DEF Writing
  <1> DEFINE Good(c) == Behind(Completed(inKey, whole \o c), Completed(w.inKey, w.pending \o c), w.out)
             T == {c \in Seq(Piece) : Good(c)}
  <1>2. <<>> \in T
    <2>1. <<>> \in Seq(Piece) /\ whole \o <<>> = whole /\ w.pending \o <<>> = w.pending
          /\ w.out \o <<>> = w.out
      BY <1>1
    <2>2. Completed(w.inKey, w.pending) = [inKey |-> w.inKey, pending |-> w.pending, out |-> <<>>]
      BY <1>1, PendingStays
    <2>3. Behind(w, [inKey |-> w.inKey, pending |-> w.pending, out |-> <<>>], w.out)
      BY <2>1 DEF Behind
    <2>4. Completed(inKey, whole \o <<>>) = w
      BY <2>1
    <2>5. Completed(w.inKey, w.pending \o <<>>)
            = [inKey |-> w.inKey, pending |-> w.pending, out |-> <<>>]
      BY <2>1, <2>2
    <2> QED
      BY <2>1, <2>3, <2>4, <2>5
  <1>3. ASSUME NEW c \in Seq(Piece), NEW piece \in Piece, c \in T PROVE Append(c, piece) \in T
    <2> DEFINE u == Completed(inKey, whole \o c)
               v == Completed(w.inKey, w.pending \o c)
    <2>1. /\ whole \o c \in Seq(Piece) /\ w.pending \o c \in Seq(Piece) /\ Append(c, piece) \in Seq(Piece)
          /\ whole \o Append(c, piece) = Append(whole \o c, piece)
          /\ w.pending \o Append(c, piece) = Append(w.pending \o c, piece)
      <3> DEFINE p == w.pending
      <3>1. p \in Seq(Piece)
        BY <1>1
      <3> HIDE DEF p
      <3>2. /\ whole \o c \in Seq(Piece) /\ p \o c \in Seq(Piece) /\ Append(c, piece) \in Seq(Piece)
            /\ whole \o Append(c, piece) = Append(whole \o c, piece)
            /\ p \o Append(c, piece) = Append(p \o c, piece)
        BY <3>1
      <3> QED
        BY <3>2 DEF p
    <2>2. /\ Completed(inKey, whole \o Append(c, piece)) = WritePiece(u, piece) /\ u \in Writing
          /\ Completed(w.inKey, w.pending \o Append(c, piece)) = WritePiece(v, piece) /\ v \in Writing
      <3> DEFINE b == w.pending \o c
                 k == w.inKey
      <3>1. b \in Seq(Piece) /\ k \in BOOLEAN
        BY <1>1, <2>1
      <3> HIDE DEF b, k
      <3>2. Completed(k, Append(b, piece)) = WritePiece(Completed(k, b), piece)
            /\ Completed(k, b) \in Writing
        BY <3>1, CompletedAppend
      <3>3. Completed(inKey, Append(whole \o c, piece)) = WritePiece(u, piece) /\ u \in Writing
        BY <2>1, CompletedAppend
      <3> QED
        BY <2>1, <3>2, <3>3 DEF b, k
    <2>3. Behind(u, v, w.out)
      BY <1>3
    <2> HIDE DEF u, v
    <2>4. Behind(WritePiece(u, piece), WritePiece(v, piece), w.out)
      BY <1>1, <2>2, <2>3, BehindStep
    <2> QED
      BY <2>1, <2>2, <2>4
  <1>4. Seq(Piece) \subseteq T
    <2> HIDE DEF T
    <2> QED
      BY <1>2, <1>3, ByPieces
  <1> QED
    BY <1>4
-----------------------------------------------------------------------------
(***************************************************************************)
(* Redact, of a text and of its lines.                                     *)
(***************************************************************************)
\* The same of the last piece, and o was shown before it.
Ahead(r, s, o) == r.at = s.at /\ r.out = o \o s.out /\ (s.at = "head" => s.out # <<>>)

LEMMA FrontBehind ==
  ASSUME NEW S, NEW o \in Seq(S), NEW s \in Seq(S), s # <<>>
  PROVE  Front(o \o s) = o \o Front(s)
  <1> DEFINE f == Front(s)
             x == s[Len(s)]
  <1>1. f \in Seq(S) /\ x \in S /\ s = Append(f, x)
    BY Fronts
  <1> HIDE DEF f, x
  <1>2. o \o Append(f, x) = Append(o \o f, x) /\ o \o f \in Seq(S)
    BY <1>1
  <1>3. ASSUME NEW g \in Seq(S) PROVE Front(Append(g, x)) = g
    BY <1>1 DEF Front
  <1> QED
    BY <1>1, <1>2, <1>3 DEF f

LEMMA AheadAppend ==
  ASSUME NEW o \in Seq(Out), NEW a \in Seq(Out), NEW x \in Out, NEW at
  PROVE  Ahead([at |-> at, out |-> Append(o \o a, x)], [at |-> at, out |-> Append(a, x)], o)
  <1> DEFINE p == Append(a, x)
             q == Append(o \o a, x)
  <1>1. q = o \o p /\ p # <<>>
    OBVIOUS
  <1> HIDE DEF p, q
  <1>2. Ahead([at |-> at, out |-> q], [at |-> at, out |-> p], o)
    BY <1>1 DEF Ahead
  <1> QED
    BY <1>2 DEF p, q

LEMMA AheadStep ==
  ASSUME NEW r \in Seeing, NEW s \in Seeing, NEW o \in Seq(Out), NEW piece \in Piece,
         Ahead(r, s, o)
  PROVE  Ahead(RedactPiece(r, piece), RedactPiece(s, piece), o)
  <1> DEFINE a == s.out
  <1>1. /\ a \in Seq(Out) /\ r.out = o \o a /\ r.at = s.at /\ (s.at = "head" => a # <<>>)
        /\ piece \in Out /\ Marker \in Out
    BY DEF Ahead, Seeing, Out
  <1>3. CASE s.at = "key"
    BY <1>1, <1>3 DEF RedactPiece, Ahead, Seeing
  <1>4. CASE s.at # "key" /\ piece = "begin"
    <2>1. RedactPiece(r, piece) = [at |-> "key", out |-> Append(o \o a, Marker)]
          /\ RedactPiece(s, piece) = [at |-> "key", out |-> Append(a, Marker)]
      BY <1>1, <1>4 DEF RedactPiece
    <2> HIDE DEF a
    <2> QED
      BY <1>1, <2>1, AheadAppend
  <1>5. CASE s.at = "head" /\ piece = "tail"
    <2> DEFINE f == Front(a)
    <2>1. RedactPiece(r, piece) = [at |-> "match", out |-> Append(Front(o \o a), Marker)]
          /\ RedactPiece(s, piece) = [at |-> "match", out |-> Append(f, Marker)]
      BY <1>1, <1>5 DEF RedactPiece
    <2>2. Front(o \o a) = o \o f /\ f \in Seq(Out)
      BY <1>1, <1>5, FrontBehind, Fronts
    <2> HIDE DEF f
    <2> QED
      BY <1>1, <2>1, <2>2, AheadAppend
  <1>6. CASE s.at = "match" /\ piece = "tail"
    BY <1>1, <1>6 DEF RedactPiece, Ahead
  <1>7. CASE s.at # "key" /\ piece # "begin" /\ ~ (s.at \in {"head", "match"} /\ piece = "tail")
    <2> DEFINE at == IF piece = "head" THEN "head" ELSE "text"
    <2>1. RedactPiece(r, piece) = [at |-> at, out |-> Append(o \o a, piece)]
          /\ RedactPiece(s, piece) = [at |-> at, out |-> Append(a, piece)]
      BY <1>1, <1>7 DEF RedactPiece
    <2> HIDE DEF a
    <2> QED
      BY <1>1, <2>1, AheadAppend
  <1> QED
    BY <1>3, <1>4, <1>5, <1>6, <1>7

\* What follows a text that ends outside of everything is redacted alone.
LEMMA SeenJoins ==
  ASSUME NEW a \in Seq(Piece), NEW b \in Seq(Piece), Seen(a).at = "text"
  PROVE  Ahead(Seen(a \o b), Seen(b), Seen(a).out)
  <1> DEFINE o == Seen(a).out
             T == {c \in Seq(Piece) : Ahead(Seen(a \o c), Seen(c), o)}
  <1>1. o \in Seq(Out)
    BY SeenAppend DEF Seeing
  <1>2. <<>> \in T
    <2>1. a \o <<>> = a /\ <<>> \in Seq(Piece)
      OBVIOUS
    <2>2. Seen(<<>>) = NoneSeen /\ NoneSeen.at = "text" /\ NoneSeen.out = <<>>
      BY <2>1, SeenAppend DEF NoneSeen
    <2>3. o \o <<>> = o
      BY <1>1
    <2> QED
      BY <2>1, <2>2, <2>3 DEF Ahead
  <1>3. ASSUME NEW c \in Seq(Piece), NEW piece \in Piece, c \in T PROVE Append(c, piece) \in T
    <2>1. /\ a \o c \in Seq(Piece) /\ Append(c, piece) \in Seq(Piece)
          /\ a \o Append(c, piece) = Append(a \o c, piece)
      OBVIOUS
    <2>2. /\ Seen(a \o Append(c, piece)) = RedactPiece(Seen(a \o c), piece) /\ Seen(a \o c) \in Seeing
          /\ Seen(Append(c, piece)) = RedactPiece(Seen(c), piece) /\ Seen(c) \in Seeing
      BY <2>1, SeenAppend
    <2>3. Ahead(Seen(a \o c), Seen(c), o)
      BY <1>3
    <2> HIDE DEF o
    <2>4. Ahead(RedactPiece(Seen(a \o c), piece), RedactPiece(Seen(c), piece), o)
      BY <1>1, <2>2, <2>3, AheadStep
    <2> QED
      BY <2>1, <2>2, <2>4
  <1>4. Seq(Piece) \subseteq T
    <2> HIDE DEF T
    <2> QED
      BY <1>2, <1>3, ByPieces
  <1> QED
    BY <1>4

LEMMA PositionsAppend ==
  ASSUME NEW whole \in Seq(Piece), NEW piece \in Piece, NEW x
  PROVE  /\ Positions(x, Append(whole, piece)) =
              Positions(x, whole) \cup (IF piece = x THEN {Len(whole) + 1} ELSE {})
         /\ Positions(x, whole) \in SUBSET (1..Len(whole))
  <1>1. Len(Append(whole, piece)) = Len(whole) + 1 /\ Append(whole, piece)[Len(whole) + 1] = piece
        /\ \A i \in 1..Len(whole) : Append(whole, piece)[i] = whole[i]
        /\ DOMAIN whole = 1..Len(whole) /\ DOMAIN Append(whole, piece) = 1..(Len(whole) + 1)
    OBVIOUS
  <1>2. 1..(Len(whole) + 1) = (1..Len(whole)) \cup {Len(whole) + 1}
    OBVIOUS
  <1> QED
    BY <1>1, <1>2 DEF Positions

\* A private key is open.
KeyOpen(whole) ==
  \E b \in Positions("begin", whole) : \A e \in Positions("end", whole) : e < b

LEMMA KeyIsOpen ==
  ASSUME NEW whole \in Seq(Piece)
  PROVE  Seen(whole).at = "key" <=> KeyOpen(whole)
  <1> DEFINE T == {t \in Seq(Piece) : Seen(t).at = "key" <=> KeyOpen(t)}
  <1>1. <<>> \in T
    <2>1. <<>> \in Seq(Piece) /\ DOMAIN <<>> = {}
      OBVIOUS
    <2>2. ~ KeyOpen(<<>>)
      BY <2>1 DEF KeyOpen, Positions
    <2>3. Seen(<<>>).at = "text"
      BY <2>1, SeenAppend DEF NoneSeen
    <2> QED
      BY <2>1, <2>2, <2>3
  <1>2. ASSUME NEW t \in Seq(Piece), NEW piece \in Piece, t \in T PROVE Append(t, piece) \in T
    <2>1. Seen(Append(t, piece)) = RedactPiece(Seen(t), piece) /\ Seen(t) \in Seeing
          /\ Append(t, piece) \in Seq(Piece)
      BY SeenAppend
    <2>2. RedactPiece(Seen(t), piece).at = "key"
            <=> (Seen(t).at = "key" /\ piece # "end") \/ (Seen(t).at # "key" /\ piece = "begin")
      BY <2>1 DEF RedactPiece, Seeing
    <2>3. Len(t) \in Nat /\ "begin" # "end"
      OBVIOUS
    <2> DEFINE B == Positions("begin", t)
               E == Positions("end", t)
    <2>4. B \in SUBSET (1..Len(t)) /\ E \in SUBSET (1..Len(t))
      BY PositionsAppend
    <2>5. /\ Positions("begin", Append(t, piece)) = B \cup (IF piece = "begin" THEN {Len(t) + 1} ELSE {})
          /\ Positions("end", Append(t, piece)) = E \cup (IF piece = "end" THEN {Len(t) + 1} ELSE {})
      BY PositionsAppend
    <2> HIDE DEF B, E
    <2>6. KeyOpen(Append(t, piece))
            <=> IF piece = "begin" THEN TRUE ELSE IF piece = "end" THEN FALSE
                ELSE \E b \in B : \A e \in E : e < b
      <3>1. CASE piece = "begin"
        <4>1. \A e \in E : e < Len(t) + 1
          BY <2>3, <2>4
        <4> QED
          BY <2>3, <2>5, <3>1, <4>1 DEF KeyOpen
      <3>2. CASE piece = "end"
        <4>1. \A b \in B : ~ (Len(t) + 1 < b)
          BY <2>3, <2>4
        <4> QED
          BY <2>3, <2>5, <3>2, <4>1 DEF KeyOpen
      <3>3. CASE piece # "begin" /\ piece # "end"
        BY <2>5, <3>3 DEF KeyOpen
      <3> QED
        BY <3>1, <3>2, <3>3
    <2>7. Seen(t).at = "key" <=> \E b \in B : \A e \in E : e < b
      BY <1>2 DEF KeyOpen, B, E
    <2>8. Seen(Append(t, piece)).at = "key" <=> KeyOpen(Append(t, piece))
      BY <2>1, <2>2, <2>3, <2>6, <2>7
    <2> QED
      BY <2>1, <2>8
  <1>3. Seq(Piece) \subseteq T
    <2> HIDE DEF T
    <2> QED
      BY <1>1, <1>2, ByPieces
  <1> QED
    BY <1>3

\* Within a key nothing is shown.
LEMMA StaysInKey ==
  ASSUME NEW whole \in Seq(Piece), NEW i \in 0..Len(whole), NEW j \in i..Len(whole),
         Seen(SubSeq(whole, 1, i)).at = "key", \A k \in (i + 1)..j : whole[k] # "end"
  PROVE  Seen(SubSeq(whole, 1, j)) = Seen(SubSeq(whole, 1, i))
  <1> DEFINE m == j - i
             S == {n \in 0..m : Seen(SubSeq(whole, 1, i + n)) = Seen(SubSeq(whole, 1, i))}
  <1>1. m \in Nat /\ i + 0 = i /\ i + m = j /\ i \in Nat /\ j \in Nat /\ Len(whole) \in Nat
    OBVIOUS
  <1>2. 0 \in S
    BY <1>1
  <1>3. ASSUME NEW n \in 0..(m - 1), n \in S PROVE n + 1 \in S
    <2> DEFINE k == i + n
    <2>1. k \in 0..Len(whole) /\ k + 1 \in 1..Len(whole) /\ k + 1 \in (i + 1)..j /\ i + (n + 1) = k + 1
          /\ n + 1 \in 0..m
      BY <1>1
    <2> HIDE DEF k
    <2>2. /\ SubSeq(whole, 1, k) \in Seq(Piece) /\ whole[k + 1] \in Piece
          /\ SubSeq(whole, 1, k + 1) = Append(SubSeq(whole, 1, k), whole[k + 1])
      BY <2>1
    <2>3. Seen(SubSeq(whole, 1, k + 1)) = RedactPiece(Seen(SubSeq(whole, 1, k)), whole[k + 1])
      BY <2>2, SeenAppend
    <2>4. Seen(SubSeq(whole, 1, k)) = Seen(SubSeq(whole, 1, i))
      BY <1>3 DEF k
    <2>5. Seen(SubSeq(whole, 1, k)) \in Seeing
      BY <2>2, SeenAppend
    <2>6. RedactPiece(Seen(SubSeq(whole, 1, k)), whole[k + 1]) = Seen(SubSeq(whole, 1, k))
      <3> DEFINE r == Seen(SubSeq(whole, 1, k))
      <3>1. r.at = "key" /\ whole[k + 1] # "end" /\ r \in Seeing
        BY <2>1, <2>4, <2>5
      <3> HIDE DEF r
      <3>2. RedactPiece(r, whole[k + 1]) = [r EXCEPT !.at = "key"]
        BY <3>1 DEF RedactPiece
      <3>3. [r EXCEPT !.at = "key"] = r
        BY <3>1 DEF Seeing
      <3> QED
        BY <3>2, <3>3 DEF r
    <2> QED
      BY <2>1, <2>3, <2>4, <2>6
  <1>4. 0..m \subseteq S
    <2> HIDE DEF m, S
    <2> QED
      BY <1>1, <1>2, <1>3, UpTo
  <1>5. m \in S
    <2> HIDE DEF m, S
    <2>1. m \in 0..m
      BY <1>1
    <2> QED
      BY <1>4, <2>1
  <1> QED
    BY <1>1, <1>5

\* A line is redacted alone as in a text, as long as no key spans its end.
LEMMA LineAgrees ==
  ASSUME NEW line \in Seq(Piece)
  PROVE  /\ RedactLine(FALSE, line).out = Redact(line)
         /\ RedactLine(FALSE, line).inKey => Seen(line).at = "key"
  <1> DEFINE r == RedactLine(FALSE, line)
  <1>1. CASE Positions("begin", line) = {}
    <2>1. r = [inKey |-> FALSE, out |-> Redact(line)]
      BY <1>1, LineIs
    <2> HIDE DEF r
    <2>2. r.out = Redact(line) /\ r.inKey = FALSE
      BY <2>1
    <2> QED
      BY <2>2, Zenon DEF r
  <1>2. CASE Positions("begin", line) # {}
    <2>1. PICK first \in 0..Len(line) :
            KeyFrom(FALSE, line, first) /\ KeyCut(line, first, r)
      BY <1>2, LineIs
    <2> DEFINE before == Before(line, first)
               upto == SubSeq(line, 1, first)
    <2>2. /\ first \in 1..Len(line) /\ line[first] = "begin"
          /\ \A i \in 1..Len(line) : line[i] = "begin" => first <= i
      BY <2>1 DEF KeyFrom, Positions
    <2>3. /\ before \in Seq(Piece) /\ upto = Append(before, "begin") /\ "begin" \in Piece
          /\ upto \in Seq(Piece) /\ Len(before) = first - 1 /\ Len(upto) = first
          /\ \A i \in 1..(first - 1) : before[i] = line[i]
      <3>1. /\ SubSeq(line, 1, first - 1) \in Seq(Piece) /\ Len(SubSeq(line, 1, first - 1)) = first - 1
            /\ SubSeq(line, 1, first) = Append(SubSeq(line, 1, first - 1), line[first])
            /\ \A i \in 1..(first - 1) : SubSeq(line, 1, first - 1)[i] = line[i]
            /\ SubSeq(line, 1, first) \in Seq(Piece) /\ Len(SubSeq(line, 1, first)) = first
        BY <2>2
      <3>2. "begin" \in Piece
        BY DEF Piece
      <3> QED
        BY <2>2, <3>1, <3>2 DEF Before
    <2> HIDE DEF before, upto
    <2>4. Seen(before).at # "key" /\ Seen(before) \in Seeing
      <3>1. Positions("begin", before) = {}
        <4>1. ASSUME NEW i \in Positions("begin", before) PROVE FALSE
          <5>1. i \in 1..(first - 1) /\ before[i] = "begin"
            BY <2>3 DEF Positions
          <5>2. line[i] = "begin" /\ i \in 1..Len(line) /\ ~ (first <= i)
            BY <2>2, <2>3, <5>1
          <5> QED
            BY <2>2, <5>2
        <4> QED
          BY <4>1
      <3>2. ~ KeyOpen(before)
        BY <3>1 DEF KeyOpen
      <3> QED
        BY <2>3, <3>2, KeyIsOpen, SeenAppend
    <2>5. Seen(upto) = [at |-> "key", out |-> Append(Redact(before), Marker)]
      <3>1. Seen(upto) = RedactPiece(Seen(before), "begin")
        BY <2>3, SeenAppend
      <3>2. RedactPiece(Seen(before), "begin") = [at |-> "key", out |-> Append(Seen(before).out, Marker)]
        BY <2>4 DEF RedactPiece
      <3> QED
        BY <2>3, <3>1, <3>2, RedactIsSeen
    <2>6. Redact(before) \o <<Marker>> = Append(Redact(before), Marker)
          /\ Append(Redact(before), Marker) \in Seq(Out)
      <3>1. Redact(before) \in Seq(Out) /\ Marker \in Out
        BY <2>3, RedactIsSeen DEF Out
      <3> QED
        BY <3>1
    <2>7. CASE Lasts(line, first) = {}
      <3>1. r = [inKey |-> TRUE, out |-> Append(Redact(before), Marker)]
        BY <2>1, <2>6, <2>7 DEF KeyCut, before
      <3>2. \A k \in (first + 1)..Len(line) : line[k] # "end"
        BY <2>2, <2>7 DEF Lasts, Positions
      <3>3. Len(line) \in first..Len(line) /\ SubSeq(line, 1, Len(line)) = line
        OBVIOUS
      <3>4. Seen(line) = Seen(upto)
        <4>1. Seen(SubSeq(line, 1, first)).at = "key"
          BY <2>5 DEF upto
        <4>2. Seen(SubSeq(line, 1, Len(line))) = Seen(SubSeq(line, 1, first))
          BY <3>2, <3>3, <4>1, StaysInKey
        <4> QED
          BY <3>3, <4>2 DEF upto
      <3>5. Seen(line).at = "key" /\ Seen(line).out = Append(Redact(before), Marker)
        BY <2>5, <3>4
      <3> HIDE DEF r
      <3>6. r.out = Seen(line).out
        BY <3>1, <3>5
      <3> QED
        BY <3>5, <3>6, RedactIsSeen DEF r
    <2>8. CASE Lasts(line, first) # {}
      <3>1. PICK last \in Lasts(line, first) :
              /\ \A i \in Lasts(line, first) : last <= i
              /\ r =
                   [inKey |-> FALSE, out |-> Redact(before) \o <<Marker>> \o Redact(After(line, last))]
        BY <2>1, <2>8 DEF KeyCut, before
      <3> DEFINE mid == SubSeq(line, 1, last - 1)
                 key == SubSeq(line, 1, last)
                 rest == After(line, last)
      <3>2. last \in (first + 1)..Len(line) /\ line[last] = "end"
            /\ \A k \in (first + 1)..(last - 1) : line[k] # "end"
        <4>1. last \in 1..Len(line) /\ last > first /\ line[last] = "end"
          BY DEF Lasts, Positions
        <4>2. \A k \in (first + 1)..(last - 1) : k \in 1..Len(line) /\ k > first /\ ~ (last <= k)
          BY <4>1
        <4>3. \A k \in 1..Len(line) : k > first /\ line[k] = "end" => k \in Lasts(line, first)
          BY DEF Lasts, Positions
        <4> QED
          BY <3>1, <4>1, <4>2, <4>3
      <3>3. /\ mid \in Seq(Piece) /\ key = Append(mid, "end") /\ key \in Seq(Piece)
            /\ rest \in Seq(Piece) /\ line = key \o rest /\ "end" \in Piece
        <4>1. last \in 1..Len(line)
          BY <2>2, <3>2
        <4>2. /\ SubSeq(line, 1, last - 1) \in Seq(Piece) /\ SubSeq(line, 1, last) \in Seq(Piece)
              /\ SubSeq(line, 1, last) = Append(SubSeq(line, 1, last - 1), line[last])
              /\ SubSeq(line, last + 1, Len(line)) \in Seq(Piece)
          BY <4>1
        <4>3. line = SubSeq(line, 1, last) \o SubSeq(line, last + 1, Len(line))
          BY <4>1
        <4> QED
          BY <3>2, <4>2, <4>3 DEF After, Piece
      <3>4. Seen(mid) = Seen(upto)
        <4>1. last - 1 \in first..Len(line)
          BY <3>2
        <4>2. Seen(SubSeq(line, 1, first)).at = "key"
          BY <2>5 DEF upto
        <4> QED
          BY <3>2, <4>1, <4>2, StaysInKey DEF upto
      <3> HIDE DEF mid, key, rest
      <3> DEFINE shown == Append(Redact(before), Marker)
      <3> HIDE DEF shown
      <3>5. Seen(key).at = "text" /\ Seen(key).out = shown
        <4>1. Seen(key) = RedactPiece(Seen(mid), "end")
          BY <3>3, SeenAppend
        <4>2. Seen(mid) = [at |-> "key", out |-> shown]
          BY <2>5, <3>4 DEF shown
        <4>3. RedactPiece([at |-> "key", out |-> shown], "end") = [at |-> "text", out |-> shown]
          BY DEF RedactPiece
        <4> QED
          BY <4>1, <4>2, <4>3
      <3>6. Seen(line).out = shown \o Seen(rest).out
        <4>1. Ahead(Seen(key \o rest), Seen(rest), Seen(key).out)
          BY <3>3, <3>5, SeenJoins
        <4>2. Seen(key \o rest).out = Seen(key).out \o Seen(rest).out
          BY <4>1 DEF Ahead
        <4> QED
          BY <3>3, <3>5, <4>2
      <3>7. r =
              [inKey |-> FALSE, out |-> shown \o Redact(rest)]
        BY <2>6, <3>1 DEF rest, shown
      <3>8. Redact(rest) = Seen(rest).out /\ Redact(line) = Seen(line).out
        BY <3>3, RedactIsSeen
      <3> HIDE DEF r
      <3>9. r.out = Redact(line) /\ r.inKey = FALSE
        BY <3>6, <3>7, <3>8
      <3> QED
        BY <3>9, Zenon DEF r
    <2> QED
      BY <2>7, <2>8
  <1> QED
    BY <1>1, <1>2
-----------------------------------------------------------------------------
(***************************************************************************)
(* A key that spans lines is told by the number of line ends.              *)
(***************************************************************************)
LineEnds(s) == Cardinality(Positions("newline", s))

LEMMA EndsFinite ==
  ASSUME NEW s \in Seq(Out)
  PROVE  /\ IsFiniteSet(Positions("newline", s)) /\ LineEnds(s) \in Nat
         /\ Positions("newline", s) \in SUBSET (1..Len(s))
  <1>1. Positions("newline", s) \in SUBSET (1..Len(s))
    BY DEF Positions
  <1>2. IsFiniteSet(1..Len(s))
    <2>1. 1 \in Int /\ Len(s) \in Int
      OBVIOUS
    <2> QED
      BY <2>1, FS_Interval
  <1>3. IsFiniteSet(Positions("newline", s))
    BY <1>1, <1>2, FS_Subset
  <1> QED
    BY <1>1, <1>3, FS_CardinalityType DEF LineEnds

LEMMA EndsAppend ==
  ASSUME NEW s \in Seq(Out), NEW x \in Out
  PROVE  LineEnds(Append(s, x)) = LineEnds(s) + (IF x = "newline" THEN 1 ELSE 0)
  <1>1. Len(Append(s, x)) = Len(s) + 1 /\ Append(s, x)[Len(s) + 1] = x
        /\ \A i \in 1..Len(s) : Append(s, x)[i] = s[i]
        /\ DOMAIN s = 1..Len(s) /\ DOMAIN Append(s, x) = 1..(Len(s) + 1) /\ Len(s) \in Nat
    OBVIOUS
  <1>2. 1..(Len(s) + 1) = (1..Len(s)) \cup {Len(s) + 1} /\ Len(s) + 1 \notin 1..Len(s)
    BY <1>1
  <1>3. Positions("newline", Append(s, x)) =
          Positions("newline", s) \cup (IF x = "newline" THEN {Len(s) + 1} ELSE {})
    BY <1>1, <1>2 DEF Positions
  <1>4. IsFiniteSet(Positions("newline", s)) /\ LineEnds(s) \in Nat
        /\ Len(s) + 1 \notin Positions("newline", s)
    BY <1>2, EndsFinite
  <1>5. CASE x = "newline"
    <2>1. Positions("newline", Append(s, x)) = Positions("newline", s) \cup {Len(s) + 1}
      BY <1>3, <1>5
    <2>2. Cardinality(Positions("newline", s) \cup {Len(s) + 1}) = Cardinality(Positions("newline", s)) + 1
      BY <1>4, FS_AddElement
    <2> QED
      BY <1>5, <2>1, <2>2 DEF LineEnds
  <1>6. CASE x # "newline"
    <2>1. Positions("newline", Append(s, x)) = Positions("newline", s)
      BY <1>3, <1>6
    <2> QED
      BY <1>4, <1>6, <2>1 DEF LineEnds
  <1> QED
    BY <1>5, <1>6

LEMMA EndsJoin ==
  ASSUME NEW a \in Seq(Out), NEW b \in Seq(Out)
  PROVE  LineEnds(a) <= LineEnds(a \o b)
  <1>1. a \o b \in Seq(Out) /\ DOMAIN a \subseteq DOMAIN (a \o b)
        /\ \A i \in DOMAIN a : (a \o b)[i] = a[i]
    OBVIOUS
  <1>2. Positions("newline", a) \subseteq Positions("newline", a \o b)
    BY <1>1 DEF Positions
  <1>3. IsFiniteSet(Positions("newline", a \o b))
    BY <1>1, EndsFinite
  <1> QED
    BY <1>2, <1>3, FS_Subset DEF LineEnds

LEMMA EndsFront ==
  ASSUME NEW s \in Seq(Out), s # <<>>
  PROVE  LineEnds(Front(s)) <= LineEnds(s)
  <1> DEFINE f == Front(s)
             x == s[Len(s)]
  <1>1. f \in Seq(Out) /\ x \in Out /\ s = Append(f, x)
    BY Fronts
  <1> HIDE DEF f, x
  <1>2. LineEnds(s) = LineEnds(f) + (IF x = "newline" THEN 1 ELSE 0) /\ LineEnds(f) \in Nat
    BY <1>1, EndsAppend, EndsFinite
  <1>3. LineEnds(f) <= LineEnds(s)
    BY <1>2
  <1> QED
    BY <1>3 DEF f

\* Redact shows a line end for a line end, the stream shows every one.
LEMMA EndsSeen ==
  ASSUME NEW seen \in Seeing, NEW piece \in Piece, seen.at = "head" => seen.out # <<>>
  PROVE  LineEnds(RedactPiece(seen, piece).out)
           <= LineEnds(seen.out) + (IF piece = "newline" THEN 1 ELSE 0)
  <1> DEFINE s == seen.out
             more == IF piece = "newline" THEN 1 ELSE 0
             r == RedactPiece(seen, piece)
  <1>1. s \in Seq(Out) /\ LineEnds(s) \in Nat /\ piece \in Out /\ Marker \in Out
        /\ Marker # "newline" /\ more \in {0, 1}
    BY EndsFinite DEF Seeing, Out, Marker
  <1>2. \/ r.out = s
        \/ r.out = Append(s, Marker)
        \/ r.out = Append(s, piece)
        \/ seen.at = "head" /\ r.out = Append(Front(s), Marker)
    BY DEF RedactPiece, Seeing
  <1>3. LineEnds(Append(s, Marker)) = LineEnds(s) /\ LineEnds(Append(s, piece)) = LineEnds(s) + more
    <2> HIDE DEF s
    <2> QED
      BY <1>1, EndsAppend
  <1>4. ASSUME seen.at = "head"
        PROVE  LineEnds(Append(Front(s), Marker)) \in Nat
               /\ LineEnds(Append(Front(s), Marker)) <= LineEnds(s)
    <2>1. s # <<>>
      BY <1>4
    <2> HIDE DEF s
    <2>2. Front(s) \in Seq(Out)
      BY <1>1, <2>1, Fronts
    <2>3. LineEnds(Append(Front(s), Marker)) = LineEnds(Front(s)) /\ LineEnds(Front(s)) \in Nat
      BY <1>1, <2>2, EndsAppend, EndsFinite
    <2> QED
      BY <1>1, <2>1, <2>3, EndsFront
  <1> HIDE DEF s, more, r
  <1>5. LineEnds(r.out) <= LineEnds(s) + more
    <2>1. CASE r.out = s
      BY <1>1, <2>1
    <2>2. CASE r.out = Append(s, Marker)
      BY <1>1, <1>3, <2>2
    <2>3. CASE r.out = Append(s, piece)
      BY <1>1, <1>3, <2>3
    <2>4. CASE seen.at = "head" /\ r.out = Append(Front(s), Marker)
      BY <1>1, <1>4, <2>4
    <2> QED
      BY <1>2, <2>1, <2>2, <2>3, <2>4
  <1> QED
    BY <1>5 DEF s, more, r

LEMMA EndsWritten ==
  ASSUME NEW w \in Writing, NEW piece \in Piece
  PROVE  LineEnds(w.out) + (IF piece = "newline" THEN 1 ELSE 0) <= LineEnds(WritePiece(w, piece).out)
  <1>1. w.inKey \in BOOLEAN /\ w.pending \in Seq(Piece) /\ w.out \in Seq(Out)
    BY DEF Writing
  <1>2. LineEnds(w.out) \in Nat
    BY <1>1, EndsFinite
  <1>3. CASE piece # "newline"
    <2>1. WritePiece(w, piece).out = w.out
      BY <1>3 DEF WritePiece, Writing
    <2> QED
      BY <1>2, <1>3, <2>1
  <1>4. CASE piece = "newline"
    <2> DEFINE a == w.out
               b == RedactLine(w.inKey, w.pending).out
               nl == "newline"
    <2>1. a \in Seq(Out) /\ b \in Seq(Out) /\ nl \in Out
      BY <1>1, LineTyped DEF Line, Out, Piece
    <2>2. WritePiece(w, piece).out = a \o b \o <<nl>>
      BY <1>4 DEF WritePiece
    <2> HIDE DEF a, b
    <2>3. a \o b \in Seq(Out) /\ a \o b \o <<nl>> = Append(a \o b, nl)
      BY <2>1
    <2>4. LineEnds(Append(a \o b, nl)) = LineEnds(a \o b) + 1 /\ LineEnds(a) <= LineEnds(a \o b)
          /\ LineEnds(a) \in Nat /\ LineEnds(a \o b) \in Nat
      BY <2>1, <2>3, EndsAppend, EndsJoin, EndsFinite
    <2>5. LineEnds(a) + 1 <= LineEnds(Append(a \o b, nl))
      BY <2>4
    <2>6. WritePiece(w, piece).out = Append(a \o b, nl)
      BY <2>2, <2>3
    <2> QED
      BY <1>4, <2>5, <2>6 DEF a
  <1> QED
    BY <1>3, <1>4

LEMMA SpansAppend ==
  ASSUME NEW whole \in Seq(Piece), NEW piece \in Piece
  PROVE  KeySpansLines(Append(whole, piece))
           <=> KeySpansLines(whole) \/ (piece = "newline" /\ KeyOpen(whole))
  <1> DEFINE B == Positions("begin", whole)
             E == Positions("end", whole)
             N == Positions("newline", whole)
             k == Len(whole) + 1
  <1>1. Len(whole) \in Nat /\ B \in SUBSET (1..Len(whole)) /\ E \in SUBSET (1..Len(whole))
        /\ N \in SUBSET (1..Len(whole))
    <2>1. Len(whole) \in Nat
      OBVIOUS
    <2> QED
      BY <2>1, PositionsAppend
  <1>2. /\ Positions("begin", Append(whole, piece)) = B \cup (IF piece = "begin" THEN {k} ELSE {})
        /\ Positions("end", Append(whole, piece)) = E \cup (IF piece = "end" THEN {k} ELSE {})
        /\ Positions("newline", Append(whole, piece)) = N \cup (IF piece = "newline" THEN {k} ELSE {})
    BY PositionsAppend
  <1>3. KeySpansLines(whole) <=> \E n \in N, b \in B : b < n /\ \A e \in E : e < b \/ e > n
    BY DEF KeySpansLines
  <1>4. KeyOpen(whole) <=> \E b \in B : \A e \in E : e < b
    BY DEF KeyOpen
  <1>5. /\ k \in Nat /\ \A i \in B \cup E \cup N : i \in Nat /\ i < k
        /\ "begin" # "end" /\ "begin" # "newline" /\ "end" # "newline"
    BY <1>1
  <1> HIDE DEF B, E, N, k
  <1>6. CASE piece = "newline"
    <2>1. KeySpansLines(Append(whole, piece))
            <=> \E n \in N \cup {k}, b \in B : b < n /\ \A e \in E : e < b \/ e > n
      BY <1>2, <1>5, <1>6 DEF KeySpansLines
    <2>2. (\E b \in B : b < k /\ \A e \in E : e < b \/ e > k) <=> \E b \in B : \A e \in E : e < b
      BY <1>5
    <2> QED
      BY <1>3, <1>4, <1>6, <2>1, <2>2
  <1>7. CASE piece = "end"
    <2>1. KeySpansLines(Append(whole, piece))
            <=> \E n \in N, b \in B : b < n /\ \A e \in E \cup {k} : e < b \/ e > n
      BY <1>2, <1>5, <1>7 DEF KeySpansLines
    <2>2. \A n \in N, b \in B : (\A e \in E \cup {k} : e < b \/ e > n) <=> \A e \in E : e < b \/ e > n
      BY <1>5
    <2> QED
      BY <1>3, <1>5, <1>7, <2>1, <2>2
  <1>8. CASE piece = "begin"
    <2>1. KeySpansLines(Append(whole, piece))
            <=> \E n \in N, b \in B \cup {k} : b < n /\ \A e \in E : e < b \/ e > n
      BY <1>2, <1>5, <1>8 DEF KeySpansLines
    <2>2. \A n \in N : ~ (k < n)
      BY <1>5
    <2> QED
      BY <1>3, <1>5, <1>8, <2>1, <2>2
  <1>9. CASE piece \notin {"newline", "end", "begin"}
    BY <1>2, <1>3, <1>9 DEF KeySpansLines
  <1> QED
    BY <1>6, <1>7, <1>8, <1>9

\* Until a key spans lines Redact has shown what the stream has, and then the
\* line it holds back; from then on the stream has shown more line ends.
LEMMA StreamFollows ==
  ASSUME NEW whole \in Seq(Piece)
  PROVE  LET u == Completed(FALSE, whole) IN
         /\ ~ KeySpansLines(whole) => u.inKey = FALSE /\ Ahead(Seen(whole), Seen(u.pending), u.out)
         /\ KeySpansLines(whole) => LineEnds(Seen(whole).out) < LineEnds(u.out)
  <1> DEFINE Level(t, u) ==
               /\ ~ KeySpansLines(t) => u.inKey = FALSE /\ Ahead(Seen(t), Seen(u.pending), u.out)
               /\ KeySpansLines(t) => LineEnds(Seen(t).out) < LineEnds(u.out)
             Heads(t) == Seen(t).at = "head" => Seen(t).out # <<>>
             T == {t \in Seq(Piece) : Level(t, Completed(FALSE, t)) /\ Heads(t)}
  <1>1. <<>> \in T
    <2>1. <<>> \in Seq(Piece) /\ FALSE \in BOOLEAN /\ DOMAIN <<>> = {} /\ <<>> \o <<>> = <<>>
      OBVIOUS
    <2>2. Completed(FALSE, <<>>) = NoneWritten(FALSE) /\ Seen(<<>>) = NoneSeen
      BY <2>1, CompletedAppend, SeenAppend
    <2>3. /\ NoneWritten(FALSE).inKey = FALSE /\ NoneWritten(FALSE).pending = <<>>
          /\ NoneWritten(FALSE).out = <<>> /\ NoneSeen.at = "text" /\ NoneSeen.out = <<>>
      BY DEF NoneWritten, NoneSeen
    <2>4. ~ KeySpansLines(<<>>)
      BY <2>1 DEF KeySpansLines, Positions
    <2>5. Ahead(NoneSeen, NoneSeen, <<>>)
      BY <2>1, <2>3 DEF Ahead
    <2> QED
      BY <2>1, <2>2, <2>3, <2>4, <2>5
  <1>2. ASSUME NEW t \in Seq(Piece), NEW piece \in Piece, t \in T PROVE Append(t, piece) \in T
    <2> DEFINE u == Completed(FALSE, t)
               v == WritePiece(u, piece)
               r == Seen(t)
               q == RedactPiece(r, piece)
               longer == Append(t, piece)
    <2>1. /\ longer \in Seq(Piece) /\ Completed(FALSE, longer) = v /\ Seen(longer) = q
          /\ u \in Writing /\ v \in Writing /\ r \in Seeing /\ q \in Seeing
      <3>1. longer \in Seq(Piece) /\ FALSE \in BOOLEAN
        OBVIOUS
      <3> QED
        BY <3>1, CompletedAppend, SeenAppend, PiecesWritten, PiecesSeen
    <2>2. /\ ~ KeySpansLines(t) => u.inKey = FALSE /\ Ahead(r, Seen(u.pending), u.out)
          /\ KeySpansLines(t) => LineEnds(r.out) < LineEnds(u.out)
          /\ r.at = "head" => r.out # <<>>
      BY <1>2
    <2>3. KeySpansLines(longer) <=> KeySpansLines(t) \/ (piece = "newline" /\ r.at = "key")
      BY SpansAppend, KeyIsOpen
    <2>4. r.at \in {"text", "head", "match", "key"} /\ r.out \in Seq(Out)
          /\ u.pending \in Seq(Piece) /\ u.out \in Seq(Out) /\ q.out \in Seq(Out) /\ v.out \in Seq(Out)
      BY <2>1 DEF Seeing, Writing
    <2>5. q.at = "head" => q.out # <<>>
      <3> DEFINE o == r.out
      <3>1. o \in Seq(Out) /\ piece \in Out
        BY <2>4 DEF Out
      <3> HIDE DEF o
      <3>2. CASE q.at = "head"
        <4>1. r.at # "key" /\ piece # "begin" /\ ~ (r.at = "head" /\ piece = "tail")
              /\ ~ (r.at = "match" /\ piece = "tail")
          BY <2>1, <3>2 DEF RedactPiece, Seeing
        <4>2. q.out = Append(o, piece)
          BY <4>1 DEF RedactPiece, o
        <4>3. Append(o, piece) # <<>>
          <5>1. Len(Append(o, piece)) = Len(o) + 1 /\ Len(o) \in Nat
            BY <3>1
          <5>2. Len(Append(o, piece)) # 0
            BY <5>1
          <5> QED
            BY <5>2
        <4> QED
          BY <4>2, <4>3
      <3> QED
        BY <3>2
    <2> HIDE DEF longer, u, r
    <2>6. CASE KeySpansLines(t)
      <3> DEFINE more == IF piece = "newline" THEN 1 ELSE 0
      <3>1. LineEnds(q.out) <= LineEnds(r.out) + more
        BY <2>1, <2>2, EndsSeen
      <3>2. LineEnds(u.out) + more <= LineEnds(v.out)
        BY <2>1, EndsWritten
      <3>3. more \in Nat /\ LineEnds(r.out) \in Nat /\ LineEnds(u.out) \in Nat
            /\ LineEnds(q.out) \in Nat /\ LineEnds(v.out) \in Nat
        BY <2>4, EndsFinite
      <3> HIDE DEF more, q, v
      <3>4. LineEnds(q.out) < LineEnds(v.out)
        BY <2>2, <2>6, <3>1, <3>2, <3>3
      <3> QED
        BY <2>1, <2>3, <2>5, <2>6, <3>4 DEF longer
    <2>7. CASE ~ KeySpansLines(t) /\ piece = "newline"
      <3> DEFINE s == Seen(u.pending)
                 line == RedactLine(FALSE, u.pending)
                 nl == "newline"
      <3>1. s.at = r.at /\ r.out = u.out \o s.out /\ u.inKey = FALSE
        BY <2>2, <2>7 DEF Ahead
      <3>2. line.out = s.out /\ (line.inKey => s.at = "key") /\ line.inKey \in BOOLEAN
        BY <2>4, LineAgrees, RedactIsSeen, LineTyped DEF Line
      <3>3. v = [inKey |-> line.inKey, pending |-> <<>>, out |-> r.out \o <<nl>>]
        BY <2>7, <3>1, <3>2 DEF WritePiece
      <3>4. nl \in Out
        BY DEF Out, Piece
      <3>5. r.out \o <<nl>> = Append(r.out, nl)
        BY <2>4, <3>4
      <3>6. CASE r.at = "key"
        <4>1. q.out = r.out
          BY <2>1, <3>6 DEF RedactPiece, Seeing
        <4> DEFINE o == v.out
        <4>5. o = Append(r.out, nl)
          BY <3>3, <3>5
        <4> HIDE DEF o
        <4>6. LineEnds(Append(r.out, nl)) = LineEnds(r.out) + 1
          BY <2>4, <3>4, EndsAppend
        <4>7. LineEnds(o) = LineEnds(r.out) + 1
          BY <4>5, <4>6
        <4>2. LineEnds(v.out) = LineEnds(r.out) + 1 /\ LineEnds(r.out) \in Nat
          BY <2>4, <4>7, EndsFinite DEF o
        <4>3. LineEnds(q.out) < LineEnds(v.out)
          BY <4>1, <4>2
        <4>4. KeySpansLines(longer)
          BY <2>3, <2>7, <3>6
        <4> QED
          BY <2>1, <2>5, <4>3, <4>4 DEF longer
      <3>7. CASE r.at # "key"
        <4>1. line.inKey = FALSE
          BY <3>1, <3>2, <3>7
        <4>2. q = [at |-> "text", out |-> Append(r.out, nl)]
          BY <2>7, <3>7 DEF RedactPiece
        <4> DEFINE o == Append(r.out, nl)
        <4>3. o \in Seq(Out) /\ o \o <<>> = o
          BY <2>4, <3>4
        <4> HIDE DEF o
        <4>4. v = [inKey |-> FALSE, pending |-> <<>>, out |-> o]
          BY <3>3, <3>5, <4>1 DEF o
        <4>5. Seen(<<>>) = NoneSeen /\ NoneSeen.at = "text" /\ NoneSeen.out = <<>>
          BY SeenAppend DEF NoneSeen
        <4>6. q.at = "text" /\ q.out = o
          BY <4>2 DEF o
        <4>7. v.inKey = FALSE /\ v.pending = <<>> /\ v.out = o
          BY <4>4
        <4> HIDE DEF q, v
        <4>8. Ahead(q, Seen(v.pending), v.out)
          BY <4>3, <4>5, <4>6, <4>7 DEF Ahead
        <4>9. ~ KeySpansLines(longer)
          BY <2>3, <2>7, <3>7
        <4> QED
          BY <2>1, <2>5, <4>7, <4>8, <4>9 DEF longer
      <3> QED
        BY <3>6, <3>7
    <2>8. CASE ~ KeySpansLines(t) /\ piece # "newline"
      <3> DEFINE s == Seen(u.pending)
                 p == RedactPiece(s, piece)
      <3>1. v.inKey = u.inKey /\ v.pending = Append(u.pending, piece) /\ v.out = u.out
        BY <2>1, <2>8 DEF WritePiece, Writing
      <3>2. Seen(Append(u.pending, piece)) = p /\ s \in Seeing
        BY <2>4, SeenAppend
      <3>3. Ahead(r, s, u.out) /\ u.inKey = FALSE
        BY <2>2, <2>8
      <3> HIDE DEF s
      <3>4. Ahead(q, p, u.out)
        BY <2>1, <2>4, <3>2, <3>3, AheadStep
      <3>5. ~ KeySpansLines(longer)
        BY <2>3, <2>8
      <3> HIDE DEF p, q, v
      <3>6. v.inKey = FALSE /\ Ahead(q, Seen(v.pending), v.out)
        BY <3>1, <3>2, <3>3, <3>4
      <3> QED
        BY <2>1, <2>5, <3>5, <3>6 DEF longer
    <2> QED
      BY <2>6, <2>7, <2>8
  <1>3. Seq(Piece) \subseteq T
    <2> HIDE DEF T
    <2> QED
      BY <1>1, <1>2, ByPieces
  <1> QED
    BY <1>3
-----------------------------------------------------------------------------
(***************************************************************************)
(* The fragments of a call.                                                *)
(***************************************************************************)
Arguments == Seq(STRING)

LEMMA PartsJoined ==
  ASSUME NEW index \in Int, NEW arguments \in Arguments, NEW part \in Fragment
  PROVE  Joined(index, arguments, part) \in Arguments
  <1>1. part.arguments \in Seq(STRING) /\ arguments \in Seq(STRING)
    BY DEF Fragment, Arguments
  <1> DEFINE a == part.arguments
  <1> HIDE DEF a
  <1>2. arguments \o a \in Seq(STRING)
    BY <1>1 DEF a
  <1> QED
    BY <1>1, <1>2 DEF Joined, Arguments, a

\* The arguments of a call are joined from left to right.
LEMMA SentEach ==
  ASSUME NEW index \in Int, NEW received \in Seq(Fragment)
  PROVE  \E a \in [0..Len(received) -> Arguments] :
           /\ a[0] = <<>> /\ Sent(index, received) = a[Len(received)]
           /\ \A n \in 1..Len(received) : a[n] = Joined(index, a[n - 1], received[n])
  <1> DEFINE L == Len(received)
             step == [n \in 1..L |-> [x \in Arguments |-> Joined(index, x, received[n])]]
             Body(f) == [n \in 0..L |->
                           IF n = 0 THEN <<>> ELSE Joined(index, f[n - 1], received[n])]
             scan == CHOOSE f : f = Body(f)
  <1>1. <<>> \in Arguments
    BY DEF Arguments
  <1>2. step \in [1..L -> [Arguments -> Arguments]]
    <2>1. ASSUME NEW n \in 1..L, NEW x \in Arguments PROVE Joined(index, x, received[n]) \in Arguments
      <3>1. received[n] \in Fragment
        OBVIOUS
      <3> QED
        BY <3>1, PartsJoined
    <2> QED
      BY <2>1
  <1>3. L \in Nat
    OBVIOUS
  <1>4. PICK f \in [0..L -> Arguments] : Recurses(f, L, <<>>, step)
    <2> HIDE DEF L, step
    <2> QED
      BY <1>1, <1>2, <1>3, Recursion
  <1>5. /\ f[0] = <<>>
        /\ \A n \in 1..L : f[n] = Joined(index, f[n - 1], received[n])
    <2>1. ASSUME NEW n \in 1..L PROVE f[n] = Joined(index, f[n - 1], received[n])
      <3>1. n \in 0..L /\ n # 0 /\ n - 1 \in 0..L
        BY <1>3
      <3>2. f[n] = step[n][f[n - 1]] /\ f[n - 1] \in Arguments
        BY <1>4, <3>1 DEF Recurses
      <3> QED
        BY <3>1, <3>2
    <2>2. f[0] = <<>>
      <3> HIDE DEF step
      <3> QED
        BY <1>3, <1>4 DEF Recurses
    <2> QED
      BY <2>1, <2>2
  <1>6. f = Body(f)
    BY <1>5
  <1>7. scan = Body(scan)
    <2> HIDE DEF Body
    <2> QED
      BY <1>6
  <1>8. Sent(index, received) = scan[L]
    BY DEF Sent
  <1>9. scan[0] = <<>> /\ \A n \in 1..L : scan[n] = Joined(index, scan[n - 1], received[n])
    <2> HIDE DEF scan
    <2> QED
      BY <1>3, <1>7
  <1>10. \A n \in 0..L : scan[n] = f[n]
    <2> DEFINE S == {n \in 0..L : scan[n] = f[n]}
    <2> HIDE DEF scan
    <2>1. 0 \in S
      BY <1>3, <1>5, <1>9
    <2>2. ASSUME NEW n \in 0..(L - 1), n \in S PROVE n + 1 \in S
      <3>1. n + 1 \in 1..L /\ (n + 1) - 1 = n /\ n + 1 \in 0..L /\ scan[n] = f[n]
        BY <1>3, <2>2
      <3>2. scan[n + 1] = Joined(index, scan[n], received[n + 1])
            /\ f[n + 1] = Joined(index, f[n], received[n + 1])
        BY <1>5, <1>9, <3>1
      <3> QED
        BY <3>1, <3>2
    <2>3. 0..L \subseteq S
      <3> HIDE DEF S, L
      <3> QED
        BY <1>3, <2>1, <2>2, UpTo
    <2> QED
      BY <2>3
  <1>11. Sent(index, received) = f[L]
    BY <1>3, <1>8, <1>10
  <1> HIDE DEF L, scan, step, Body
  <1> QED
    BY <1>5, <1>11 DEF L

LEMMA SentAppend ==
  ASSUME NEW index \in Int, NEW received \in Seq(Fragment)
  PROVE  /\ Sent(index, received) \in Arguments /\ Sent(index, <<>>) = <<>>
         /\ \A part \in Fragment : Sent(index, Append(received, part)) = Joined(index, Sent(index, received), part)
  <1>1. PICK f \in [0..Len(received) -> Arguments] :
          /\ f[0] = <<>> /\ Sent(index, received) = f[Len(received)]
          /\ \A n \in 1..Len(received) : f[n] = Joined(index, f[n - 1], received[n])
    BY SentEach
  <1>2. Sent(index, received) \in Arguments
    BY <1>1
  <1>3. Sent(index, <<>>) = <<>>
    <2>1. <<>> \in Seq(Fragment) /\ Len(<<>>) = 0
      OBVIOUS
    <2> QED
      BY <2>1, SentEach
  <1>4. ASSUME NEW part \in Fragment
        PROVE  Sent(index, Append(received, part)) = Joined(index, Sent(index, received), part)
    <2> DEFINE longer == Append(received, part)
               L == Len(received)
    <2>1. /\ longer \in Seq(Fragment) /\ Len(longer) = L + 1 /\ L \in Nat
          /\ longer[L + 1] = part /\ \A n \in 1..L : longer[n] = received[n]
      OBVIOUS
    <2> HIDE DEF longer
    <2>2. PICK g \in [0..Len(longer) -> Arguments] :
            /\ g[0] = <<>> /\ Sent(index, longer) = g[Len(longer)]
            /\ \A n \in 1..Len(longer) : g[n] = Joined(index, g[n - 1], longer[n])
      BY <2>1, SentEach
    <2> DEFINE S == {n \in 0..L : g[n] = f[n]}
    <2>3. 0 \in S
      BY <1>1, <2>1, <2>2
    <2>4. ASSUME NEW n \in 0..(L - 1), n \in S PROVE n + 1 \in S
      <3>1. /\ n + 1 \in 1..L /\ n + 1 \in 1..Len(longer) /\ (n + 1) - 1 = n /\ n + 1 \in 0..L
            /\ g[n] = f[n] /\ longer[n + 1] = received[n + 1]
        BY <2>1, <2>4
      <3>2. /\ f[n + 1] = Joined(index, f[n], received[n + 1])
            /\ g[n + 1] = Joined(index, g[n], longer[n + 1])
        BY <1>1, <2>2, <3>1
      <3> QED
        BY <3>1, <3>2
    <2>5. 0..L \subseteq S
      <3> HIDE DEF S, L
      <3> QED
        BY <2>1, <2>3, <2>4, UpTo
    <2>6. g[L] = f[L] /\ L + 1 \in 1..Len(longer) /\ (L + 1) - 1 = L
      BY <2>1, <2>5
    <2>7. g[L + 1] = Joined(index, g[L], part)
      <3> HIDE DEF L, S
      <3> QED
        BY <2>1, <2>2, <2>6
    <2>8. Sent(index, longer) = g[L + 1] /\ Sent(index, received) = f[L]
      BY <1>1, <2>1, <2>2
    <2> HIDE DEF L, S
    <2> QED
      BY <2>6, <2>7, <2>8 DEF longer
  <1> QED
    BY <1>2, <1>3, <1>4
-----------------------------------------------------------------------------
(***************************************************************************)
(* Delays.                                                                 *)
(***************************************************************************)
Delay == Nat \ {0}

LEMMA ComputedInBounds ==
  ASSUME retry \in Nat
  PROVE  ComputedDelay \in 1..MaxComputedDelay
  <1> DEFINE Doubled(d) == IF d >= MaxComputedDelay THEN MaxComputedDelay ELSE 2 * d
             step == [n \in 1..retry |-> [d \in Delay |-> Doubled(d)]]
             Body(f) == [n \in 0..retry |->
                           IF n = 0 THEN FirstDelay
                           ELSE IF f[n - 1] >= MaxComputedDelay THEN MaxComputedDelay
                           ELSE 2 * f[n - 1]]
             scan == CHOOSE f : f = Body(f)
  <1>1. FirstDelay \in Delay /\ MaxComputedDelay \in Delay
    BY ModelCallAssumption DEF Delay
  <1>2. \A d \in Delay : Doubled(d) \in Delay
    BY <1>1 DEF Delay
  <1>3. PICK f \in [0..retry -> Delay] : Recurses(f, retry, FirstDelay, step)
    <2>1. step \in [1..retry -> [Delay -> Delay]]
      BY <1>2
    <2> HIDE DEF step
    <2> QED
      BY <1>1, <2>1, Recursion
  <1>4. f = Body(f)
    <2>1. ASSUME NEW n \in 1..retry PROVE f[n] = Doubled(f[n - 1])
      <3>1. n \in 0..retry /\ n # 0 /\ n - 1 \in 0..retry
        OBVIOUS
      <3>2. f[n] = step[n][f[n - 1]] /\ f[n - 1] \in Delay
        BY <1>3, <3>1 DEF Recurses
      <3> QED
        BY <3>1, <3>2
    <2>2. f[0] = FirstDelay
      <3> HIDE DEF step
      <3> QED
        BY <1>3 DEF Recurses
    <2> HIDE DEF step
    <2> QED
      BY <2>1, <2>2
  <1>5. scan = Body(scan)
    <2> HIDE DEF Body
    <2> QED
      BY <1>4
  <1>6. ComputedDelay = Min({scan[retry], MaxComputedDelay})
    BY DEF ComputedDelay
  <1>7. scan[retry] \in Delay
    <2> DEFINE S == {n \in 0..retry : scan[n] \in Delay}
    <2> HIDE DEF scan
    <2>1. 0 \in S
      BY <1>1, <1>5
    <2>2. ASSUME NEW n \in 0..(retry - 1), n \in S PROVE n + 1 \in S
      <3>1. n + 1 \in 0..retry /\ n + 1 # 0 /\ (n + 1) - 1 = n /\ scan[n] \in Delay
        BY <2>2
      <3>2. scan[n + 1] = Doubled(scan[n])
        BY <1>5, <3>1
      <3> QED
        BY <1>2, <3>1, <3>2
    <2>3. 0..retry \subseteq S
      <3> HIDE DEF S
      <3> QED
        BY <2>1, <2>2, UpTo
    <2> QED
      BY <2>3
  <1> DEFINE T == {scan[retry], MaxComputedDelay}
  <1> HIDE DEF scan
  <1>8. T \in SUBSET Nat /\ T # {} /\ \A n \in T : n >= 1
    BY <1>1, <1>7 DEF Delay
  <1>9. Min(T) \in T /\ Min(T) <= MaxComputedDelay
    <2>1. MaxComputedDelay \in T
      OBVIOUS
    <2> HIDE DEF T
    <2> QED
      BY <1>8, <2>1, Least
  <1> HIDE DEF T
  <1>10. Min(T) \in Nat /\ Min(T) >= 1
    BY <1>8, <1>9
  <1> QED
    BY <1>6, <1>9, <1>10 DEF T

LEMMA Smaller ==
  ASSUME NEW a \in Nat, NEW b \in Nat
  PROVE  Min({a, b}) = IF a <= b THEN a ELSE b
  <1>1. {a, b} \in SUBSET Nat /\ {a, b} # {}
    OBVIOUS
  <1> DEFINE m == Min({a, b})
  <1>2. m \in {a, b} /\ m <= a /\ m <= b
    BY <1>1, Least
  <1> HIDE DEF m
  <1>3. m = IF a <= b THEN a ELSE b
    BY <1>2
  <1> QED
    BY <1>3 DEF m

\* A duration of the range does not wrap around.
LEMMA NoWrap ==
  ASSUME NEW n \in 0..MaxDuration
  PROVE  Wrapped(n) = n
  <1> DEFINE w == 2 * (MaxDuration + 1)
             k == n + MaxDuration + 1
  <1>1. MaxDuration \in Nat
    BY ModelCallAssumption
  <1>2. w \in Nat /\ w > 0 /\ k \in 0..(w - 1)
    BY <1>1
  <1>3. k % w = k
    <2> HIDE DEF k, w
    <2> QED
      BY <1>2
  <1> QED
    BY <1>1, <1>3 DEF Wrapped

LEMMA WrappedInt ==
  ASSUME NEW n \in Int
  PROVE  Wrapped(n) \in Int
  <1> DEFINE w == 2 * (MaxDuration + 1)
             k == n + MaxDuration + 1
  <1>1. MaxDuration \in Nat
    BY ModelCallAssumption
  <1>2. w \in Nat /\ w > 0 /\ k \in Int
    BY <1>1
  <1>3. k % w \in Int
    <2> HIDE DEF k, w
    <2> QED
      BY <1>2
  <1> QED
    BY <1>1, <1>3 DEF Wrapped

\* The wait for a header is the one the property WaitsAreBounded describes.
WaitOf(header, d) ==
  /\ d \in 0..MaxServerDelay
  /\ LET wanted == header.value * Second IN
     IF header.kind # "none" /\ wanted \in 1..MaxDuration
     THEN d = Min({wanted, MaxServerDelay})
     ELSE wanted <= 0 => 5 * d \in 4 * ComputedDelay - 4 .. 6 * ComputedDelay

Header == [kind : {"none", "seconds", "date"}, value : Int]

LEMMA Jitter ==
  ASSUME NEW c \in Nat, NEW percent \in {80, 100, 120}
  PROVE  LET d == (c * percent) \div 100 IN
         d \in Nat /\ 5 * d <= 6 * c /\ 5 * d >= 4 * c - 4
  <1>1. CASE percent = 80
    BY <1>1
  <1>2. CASE percent = 100
    BY <1>2
  <1>3. CASE percent = 120
    BY <1>3
  <1> QED
    BY <1>1, <1>2, <1>3

LEMMA DelaysAreBounded ==
  ASSUME retry \in Nat, NEW header \in Header, header.kind = "none" => header.value = 0,
         NEW d \in Delays(RetryAfter(header))
  PROVE  WaitOf(header, d)
  <1> DEFINE wanted == header.value * Second
             after == RetryAfter(header)
             c == ComputedDelay
  <1>1. /\ MaxDuration \in Nat /\ Second \in Nat /\ Second > 0 /\ MaxServerDelay \in Nat
        /\ MaxComputedDelay \in Nat /\ 6 * MaxComputedDelay <= 5 * MaxServerDelay
        /\ MaxServerDelay <= MaxDuration
    BY ModelCallAssumption
  <1>2. header.value \in Int /\ header.kind \in {"none", "seconds", "date"} /\ wanted \in Int
    BY <1>1 DEF Header
  <1>3. c \in Nat /\ c <= MaxComputedDelay
    BY <1>1, ComputedInBounds
  <1>4. /\ header.value > 0 <=> wanted > 0
        /\ header.value = 0 => wanted = 0
    BY <1>1, <1>2
  <1>5. after \in Int
    <2>1. Wrapped(wanted) \in Int
      BY <1>2, WrappedInt
    <2>2. CASE header.kind = "seconds" /\ header.value >= 0
      BY <2>1, <2>2 DEF RetryAfter
    <2>3. CASE header.kind = "date" /\ header.value > 0
      <3>1. Min({wanted, MaxDuration}) \in Nat
        <4>1. wanted \in Nat
          BY <1>2, <1>4, <2>3
        <4> HIDE DEF wanted
        <4> QED
          BY <1>1, <4>1, Smaller
      <3> QED
        BY <2>3, <3>1 DEF RetryAfter
    <2>4. CASE ~ (header.kind = "seconds" /\ header.value >= 0)
               /\ ~ (header.kind = "date" /\ header.value > 0)
      BY <2>4 DEF RetryAfter
    <2> QED
      BY <2>2, <2>3, <2>4
  <1>6. header.kind # "none" /\ wanted \in 1..MaxDuration => after = wanted
    BY <1>1, <1>2, <1>4, Smaller, NoWrap DEF RetryAfter
  <1>7. wanted <= 0 => after <= 0
    BY <1>1, <1>2, <1>4, NoWrap DEF RetryAfter
  <1>8. after > 0 => d = Min({after, MaxServerDelay})
    BY DEF Delays
  <1>9. after <= 0 => \E percent \in {80, 100, 120} : d = (c * percent) \div 100
    BY <1>5 DEF Delays
  <1> HIDE DEF wanted, after, c
  <1>10. CASE after > 0
    <2>1. d = Min({after, MaxServerDelay}) /\ after \in Nat
      BY <1>5, <1>8, <1>10
    <2>2. d \in 0..MaxServerDelay
      BY <1>1, <2>1, Smaller
    <2>3. CASE header.kind # "none" /\ wanted \in 1..MaxDuration
      BY <1>6, <2>1, <2>2, <2>3 DEF WaitOf, wanted
    <2>4. CASE ~ (header.kind # "none" /\ wanted \in 1..MaxDuration)
      <3>1. ~ wanted <= 0
        BY <1>5, <1>7, <1>10
      <3> QED
        BY <2>2, <2>4, <3>1 DEF WaitOf, wanted
    <2> QED
      BY <2>3, <2>4
  <1>11. CASE after <= 0
    <2>1. d \in Nat /\ 5 * d <= 6 * c /\ 5 * d >= 4 * c - 4
      BY <1>3, <1>9, <1>11, Jitter
    <2>2. d \in 0..MaxServerDelay
      BY <1>1, <1>3, <2>1
    <2>3. 5 * d \in 4 * c - 4 .. 6 * c
      BY <1>3, <2>1
    <2>4. ~ (header.kind # "none" /\ wanted \in 1..MaxDuration)
      BY <1>1, <1>6, <1>11
    <2> QED
      BY <2>2, <2>3, <2>4 DEF WaitOf, wanted, c
  <1> QED
    BY <1>5, <1>10, <1>11
-----------------------------------------------------------------------------
(***************************************************************************)
(* The invariant.                                                          *)
(***************************************************************************)
Result == FailureClass \cup {"none", "answered", "engine_invariant", "budget_exhausted"}

Typed ==
  /\ pc \in {"connect", "reading", "waiting", "done"}
  /\ retry \in 0..MaxRetries /\ spent \in 0..MaxRetryDelay
  /\ outcome \in Result /\ (pc # "done" => outcome = "none")
  /\ text \in Seq(Piece) /\ parts \in Seq(Fragment)

\* An attempt starts with a new redactor, which then has completed the lines
\* of its text.
StreamIsCompleted ==
  /\ pc \in {"connect", "waiting"} => redactor = NewStreamRedactor /\ streamed = <<>>
  /\ pc = "reading" =>
       LET w == Completed(FALSE, text) IN
       redactor = [inKey |-> w.inKey, pending |-> w.pending] /\ streamed = w.out

\* A builder has the arguments of its fragments, and an ID that none of them
\* contradicts.
BuildersAreWhole ==
  pc = "reading" =>
    /\ DOMAIN builders \subseteq 0..MaxToolCalls - 1
    /\ \A i \in Int : Builder(i).arguments = Sent(i, parts)
    /\ \A p \in DOMAIN parts :
         /\ parts[p].index \in DOMAIN builders
         /\ parts[p].id \in {"", builders[parts[p].index].id}

WaitIsOfHeader == pc = "waiting" => retry < MaxRetries /\ WaitOf(asked, delay)

CallInv ==
  /\ Typed /\ StreamIsCompleted /\ BuildersAreWhole /\ WaitIsOfHeader
  /\ DisagreesOnlyOnKeys /\ CallsAreWhole

Attempting == pc \in {"connect", "reading"}

LEMMA Bounds ==
  /\ {MaxRetries, MaxRetryDelay, MaxServerDelay, MaxToolCalls} \subseteq Nat
  /\ Chunks \subseteq Seq(Piece) /\ Parts \subseteq Fragment /\ ScriptedFailures \subseteq FailureClass
  BY ModelCallAssumption

LEMMA HeadersTyped ==
  ASSUME NEW header \in Headers \cup {NoHeader}
  PROVE  header \in Header /\ (header.kind = "none" => header.value = 0)
  <1>1. CASE header \in Headers
    BY <1>1, ModelCallAssumption DEF Header
  <1>2. CASE header = NoHeader
    BY <1>2 DEF NoHeader, Header
  <1> QED
    BY <1>1, <1>2

LEMMA EndsKeeps ==
  ASSUME CallInv, Attempting, NEW result \in FailureClass \cup {"budget_exhausted"}, Ends(result)
  PROVE  CallInv'
  <1>1. pc' = "done" /\ outcome' = result /\ retry' = retry /\ spent' = spent /\ text' = text
        /\ parts' = parts
    BY DEF Ends, retryVars, attemptVars
  <1>2. result \in Result /\ result \notin {"answered", "engine_invariant"}
    BY DEF Result, FailureClass, Retryable
  <1>3. Typed'
    BY <1>1, <1>2 DEF CallInv, Typed
  <1>4. StreamIsCompleted' /\ BuildersAreWhole' /\ WaitIsOfHeader'
    BY <1>1 DEF StreamIsCompleted, BuildersAreWhole, WaitIsOfHeader
  <1>5. DisagreesOnlyOnKeys' /\ CallsAreWhole'
    BY <1>1, <1>2 DEF DisagreesOnlyOnKeys, CallsAreWhole
  <1> QED
    BY <1>3, <1>4, <1>5 DEF CallInv

LEMMA FailsKeeps ==
  ASSUME CallInv, Attempting, NEW class \in FailureClass, NEW header \in Headers \cup {NoHeader},
         Fails(class, header)
  PROVE  CallInv'
  <1>1. CASE class \notin Retryable \/ retry >= MaxRetries
    BY <1>1, EndsKeeps DEF Fails
  <1>2. CASE ~ (class \notin Retryable \/ retry >= MaxRetries)
    <2>1. PICK d \in Delays(RetryAfter(header)) :
            IF spent > MaxRetryDelay - d THEN Ends("budget_exhausted")
            ELSE /\ pc' = "waiting"
                 /\ spent' = spent + d /\ delay' = d /\ asked' = header
                 /\ redactor' = NewStreamRedactor /\ streamed' = <<>>
                 /\ UNCHANGED <<retry, text, builders, lines, parts, calls, outcome>>
      BY <1>2 DEF Fails
    <2>2. CASE spent > MaxRetryDelay - d
      BY <2>1, <2>2, EndsKeeps
    <2>3. CASE ~ (spent > MaxRetryDelay - d)
      <3>1. /\ pc' = "waiting" /\ spent' = spent + d /\ delay' = d /\ asked' = header
            /\ redactor' = NewStreamRedactor /\ streamed' = <<>>
            /\ UNCHANGED <<retry, text, parts, outcome>>
        BY <2>1, <2>3
      <3>2. retry \in Nat /\ spent \in Nat /\ spent <= MaxRetryDelay /\ retry \in 0..MaxRetries
            /\ outcome = "none" /\ MaxRetryDelay \in Nat /\ MaxServerDelay \in Nat /\ MaxRetries \in Nat
        BY Bounds DEF CallInv, Typed, Attempting
      <3>3. WaitOf(header, d)
        BY <3>2, HeadersTyped, DelaysAreBounded
      <3>4. d \in Nat
        BY <3>2, <3>3 DEF WaitOf
      <3>5. spent' \in 0..MaxRetryDelay
        BY <2>3, <3>1, <3>2, <3>4
      <3>6. Typed'
        BY <3>1, <3>2, <3>5 DEF CallInv, Typed
      <3>7. StreamIsCompleted' /\ BuildersAreWhole'
        BY <3>1 DEF StreamIsCompleted, BuildersAreWhole, NewStreamRedactor
      <3>8. ComputedDelay' = ComputedDelay
        BY <3>1 DEF ComputedDelay
      <3>9. WaitOf(asked, delay)'
        BY <3>1, <3>3, <3>8 DEF WaitOf
      <3>10. WaitIsOfHeader'
        BY <1>2, <3>1, <3>2, <3>9 DEF WaitIsOfHeader
      <3>11. DisagreesOnlyOnKeys' /\ CallsAreWhole'
        BY <3>1, <3>2 DEF DisagreesOnlyOnKeys, CallsAreWhole
      <3> QED
        BY <3>6, <3>7, <3>10, <3>11 DEF CallInv
    <2> QED
      BY <2>2, <2>3
  <1> QED
    BY <1>1, <1>2

LEMMA OthersKeep ==
  ASSUME CallInv,
         \/ NotSent \/ HTTPError \/ UnexpectedMedia \/ ReadGarbage
         \/ StreamBreaks \/ ScriptedFails \/ EmptyStream
  PROVE  CallInv'
  <1> DEFINE failed == \E class \in FailureClass, header \in Headers \cup {NoHeader} : Fails(class, header)
  <1>1. NotSent => Attempting /\ failed
    <2>1. {"permanent", "transient"} \subseteq FailureClass
      BY DEF FailureClass, Retryable
    <2> QED
      BY <2>1 DEF NotSent, Attempting
  <1>2. HTTPError => Attempting /\ failed
    <2>1. ASSUME NEW status \in Statuses PROVE ClassOf(status) \in FailureClass
      BY DEF ClassOf, FailureClass, Retryable
    <2> QED
      BY <2>1 DEF HTTPError, Attempting
  <1>3. UnexpectedMedia => Attempting /\ failed
    <2>1. "protocol" \in FailureClass
      BY DEF FailureClass
    <2> QED
      BY <2>1 DEF UnexpectedMedia, Attempting
  <1>4. ReadGarbage => Attempting /\ failed
    <2>1. {"protocol", "output_limit"} \subseteq FailureClass
      BY DEF FailureClass
    <2> QED
      BY <2>1 DEF ReadGarbage, Reading, Attempting
  <1>5. StreamBreaks => Attempting /\ failed
    <2>1. "protocol" \in FailureClass
      BY DEF FailureClass
    <2> QED
      BY <2>1 DEF StreamBreaks, Attempting
  <1>6. ScriptedFails => Attempting /\ failed
    BY Bounds DEF ScriptedFails, Attempting
  <1>7. EmptyStream => Attempting /\ failed
    <2>1. "protocol" \in FailureClass
      BY DEF FailureClass
    <2> QED
      BY <2>1 DEF EmptyStream, Attempting
  <1>8. Attempting /\ failed
    BY <1>1, <1>2, <1>3, <1>4, <1>5, <1>6, <1>7
  <1> QED
    BY <1>8, FailsKeeps

LEMMA AcceptedKeeps ==
  ASSUME CallInv, Accepted
  PROVE  CallInv'
  <1>1. /\ pc = "connect" /\ pc' = "reading" /\ text' = <<>> /\ builders' = <<>> /\ parts' = <<>>
        /\ UNCHANGED <<retry, spent, redactor, streamed, outcome>>
    BY DEF Accepted, retryVars
  <1>2. redactor = NewStreamRedactor /\ streamed = <<>> /\ outcome = "none"
    BY <1>1 DEF CallInv, StreamIsCompleted, Typed
  <1>3. Typed'
    BY <1>1 DEF CallInv, Typed
  <1>4. StreamIsCompleted'
    <2>1. <<>> \in Seq(Piece) /\ FALSE \in BOOLEAN
      OBVIOUS
    <2>2. Completed(FALSE, <<>>) = NoneWritten(FALSE)
      BY <2>1, CompletedAppend
    <2> DEFINE w == Completed(FALSE, <<>>)
    <2>7. /\ NoneWritten(FALSE).inKey = FALSE /\ NoneWritten(FALSE).pending = <<>>
          /\ NoneWritten(FALSE).out = <<>>
      BY DEF NoneWritten
    <2>3. w.inKey = FALSE /\ w.pending = <<>> /\ w.out = <<>>
      BY <2>2, <2>7, Zenon
    <2>4. text' = <<>> /\ pc' = "reading" /\ redactor' = NewStreamRedactor /\ streamed' = <<>>
      BY <1>1, <1>2
    <2>5. NewStreamRedactor = [inKey |-> w.inKey, pending |-> w.pending]
      BY <2>3, Zenon DEF NewStreamRedactor
    <2>6. redactor' = [inKey |-> w.inKey, pending |-> w.pending] /\ streamed' = w.out
      BY <2>3, <2>4, <2>5
    <2> QED
      BY <2>4, <2>6, Zenon DEF StreamIsCompleted
  <1>5. BuildersAreWhole'
    <2>1. DOMAIN <<>> = {}
      OBVIOUS
    <2>2. ASSUME NEW i \in Int PROVE Builder(i)'.arguments = Sent(i, parts)'
      <3>1. Sent(i, <<>>) = <<>>
        <4>1. <<>> \in Seq(Fragment)
          OBVIOUS
        <4> QED
          BY <4>1, SentAppend
      <3>2. Builder(i)' = [id |-> "", name |-> FALSE, arguments |-> <<>>]
        BY <1>1, <2>1 DEF Builder
      <3>3. Sent(i, parts)' = Sent(i, <<>>)
        BY <1>1
      <3>4. Builder(i)'.arguments = <<>>
        <4> DEFINE none == [id |-> "", name |-> FALSE, arguments |-> <<>>]
        <4>1. none.arguments = <<>>
          OBVIOUS
        <4>2. Builder(i)' = none
          BY <3>2
        <4> HIDE DEF none
        <4> QED
          BY <4>1, <4>2
      <3> QED
        BY <3>1, <3>3, <3>4
    <2> QED
      BY <1>1, <2>1, <2>2 DEF BuildersAreWhole
  <1>6. WaitIsOfHeader' /\ DisagreesOnlyOnKeys' /\ CallsAreWhole'
    BY <1>1, <1>2 DEF WaitIsOfHeader, DisagreesOnlyOnKeys, CallsAreWhole
  <1> QED
    BY <1>3, <1>4, <1>5, <1>6 DEF CallInv

LEMMA NextAttemptKeeps ==
  ASSUME CallInv, NextAttempt
  PROVE  CallInv'
  <1>1. /\ pc = "waiting" /\ pc' = "connect" /\ retry' = retry + 1
        /\ UNCHANGED <<spent, text, parts, redactor, streamed, outcome>>
    BY DEF NextAttempt, attemptVars
  <1>2. retry < MaxRetries /\ retry \in 0..MaxRetries /\ MaxRetries \in Nat /\ outcome = "none"
    BY <1>1, Bounds DEF CallInv, WaitIsOfHeader, Typed
  <1>3. retry' \in 0..MaxRetries
    BY <1>1, <1>2
  <1>4. Typed'
    BY <1>1, <1>2, <1>3 DEF CallInv, Typed
  <1>5. StreamIsCompleted'
    BY <1>1 DEF CallInv, StreamIsCompleted, NewStreamRedactor
  <1>6. BuildersAreWhole' /\ WaitIsOfHeader' /\ DisagreesOnlyOnKeys' /\ CallsAreWhole'
    BY <1>1, <1>2 DEF BuildersAreWhole, WaitIsOfHeader, DisagreesOnlyOnKeys, CallsAreWhole
  <1> QED
    BY <1>4, <1>5, <1>6 DEF CallInv

LEMMA ReadTextKeeps ==
  ASSUME CallInv, ReadText
  PROVE  CallInv'
  <1>1. pc = "reading" /\ Attempting
    BY DEF ReadText, Reading, Attempting
  <1>2. PICK chunk \in Chunks :
          IF Len(text) + Len(chunk) > OutputLimit THEN Fails("output_limit", NoHeader)
          ELSE LET w == Write(redactor, chunk) IN
               /\ text' = text \o chunk
               /\ redactor' = w.redactor /\ streamed' = streamed \o w.out
               /\ lines' = lines + 1
               /\ UNCHANGED <<pc, retryVars, builders, parts, calls, outcome>>
    BY DEF ReadText
  <1>3. CASE Len(text) + Len(chunk) > OutputLimit
    <2>1. "output_limit" \in FailureClass
      BY DEF FailureClass
    <2> QED
      BY <1>1, <1>2, <1>3, <2>1, FailsKeeps
  <1>4. CASE ~ (Len(text) + Len(chunk) > OutputLimit)
    <2> DEFINE w == Write(redactor, chunk)
               u == Completed(FALSE, text)
               v == Completed(u.inKey, u.pending \o chunk)
               t == Completed(FALSE, text \o chunk)
    <2>1. /\ text' = text \o chunk /\ redactor' = w.redactor /\ streamed' = streamed \o w.out
          /\ UNCHANGED <<pc, retry, spent, builders, parts, calls, outcome>>
      BY <1>2, <1>4 DEF retryVars
    <2>2. text \in Seq(Piece) /\ chunk \in Seq(Piece) /\ outcome = "none"
      BY <1>1, Bounds DEF CallInv, Typed
    <2>3. text' \in Seq(Piece)
      BY <2>1, <2>2, Joins
    <2>4. redactor = [inKey |-> u.inKey, pending |-> u.pending] /\ streamed = u.out
      BY <1>1 DEF CallInv, StreamIsCompleted
    <2>5. w = [redactor |-> [inKey |-> v.inKey, pending |-> v.pending], out |-> v.out]
      BY <2>4 DEF Write
    <2>6. Behind(t, v, u.out)
      <3>1. FALSE \in BOOLEAN
        OBVIOUS
      <3> QED
        BY <2>2, <3>1, ChunksJoin
    <2> HIDE DEF w, u, v, t
    <2>7. redactor' = [inKey |-> t.inKey, pending |-> t.pending] /\ streamed' = t.out
      BY <2>1, <2>4, <2>5, <2>6 DEF Behind
    <2>8. StreamIsCompleted'
      BY <1>1, <2>1, <2>7 DEF StreamIsCompleted, t
    <2>9. Typed'
      BY <2>1, <2>3 DEF CallInv, Typed
    <2>10. BuildersAreWhole'
      BY <2>1 DEF CallInv, BuildersAreWhole, Builder
    <2>11. WaitIsOfHeader' /\ DisagreesOnlyOnKeys' /\ CallsAreWhole'
      BY <1>1, <2>1, <2>2 DEF WaitIsOfHeader, DisagreesOnlyOnKeys, CallsAreWhole
    <2> QED
      BY <2>8, <2>9, <2>10, <2>11 DEF CallInv
  <1> QED
    BY <1>3, <1>4

LEMMA OneMore ==
  ASSUME NEW S, NEW s \in Seq(S), NEW x \in S
  PROVE  /\ Append(s, x) \in Seq(S) /\ Append(s, x)[Len(s) + 1] = x
         /\ DOMAIN Append(s, x) = 1..(Len(s) + 1) /\ DOMAIN s = 1..Len(s) /\ Len(s) \in Nat
         /\ \A k \in 1..Len(s) : Append(s, x)[k] = s[k]
  OBVIOUS

LEMMA ReadPartKeeps ==
  ASSUME CallInv, ReadPart
  PROVE  CallInv'
  <1>1. pc = "reading" /\ Attempting
    BY DEF ReadPart, Reading, Attempting
  <1>5. PICK part \in Parts :
         LET b == Builder(part.index) IN
         CASE part.index \notin 0..MaxToolCalls - 1 -> Fails("protocol", NoHeader)
           [] part.index \in 0..MaxToolCalls - 1 /\ part.id # "" /\ b.id \notin {"", part.id} ->
                Fails("protocol", NoHeader)
           [] part.index \in 0..MaxToolCalls - 1 /\ (part.id = "" \/ b.id \in {"", part.id}) ->
                IF Len(b.arguments) + Len(part.arguments) > OutputLimit
                THEN Fails("output_limit", NoHeader)
                ELSE /\ builders' = [i \in DOMAIN builders \cup {part.index} |->
                          IF i # part.index THEN builders[i]
                          ELSE [id |-> IF part.id = "" THEN b.id ELSE part.id,
                                name |-> b.name \/ part.name,
                                arguments |-> b.arguments \o part.arguments]]
                     /\ lines' = lines + 1 /\ parts' = Append(parts, part)
                     /\ UNCHANGED <<pc, retryVars, text, redactor, streamed, calls, outcome>>
    BY DEF ReadPart
  <1> DEFINE x == part.index
             b == Builder(x)
             id == IF part.id = "" THEN b.id ELSE part.id
             name == b.name \/ part.name
             new == [id |-> id, name |-> name, arguments |-> b.arguments \o part.arguments]
             accepted ==
               /\ x \in 0..MaxToolCalls - 1 /\ (part.id = "" \/ b.id \in {"", part.id})
               /\ builders' = [i \in DOMAIN builders \cup {x} |-> IF i # x THEN builders[i] ELSE new]
               /\ parts' = Append(parts, part)
               /\ UNCHANGED <<pc, retryVars, text, redactor, streamed, calls, outcome>>
  <1>2. Fails("protocol", NoHeader) \/ Fails("output_limit", NoHeader) \/ accepted
    BY <1>5
  <1>3. CASE Fails("protocol", NoHeader) \/ Fails("output_limit", NoHeader)
    <2>1. {"protocol", "output_limit"} \subseteq FailureClass
      BY DEF FailureClass
    <2> QED
      BY <1>1, <1>3, <2>1, FailsKeeps
  <1>4. CASE accepted
    <2>1. /\ x \in 0..MaxToolCalls - 1 /\ (part.id = "" \/ b.id \in {"", part.id})
          /\ parts' = Append(parts, part)
          /\ UNCHANGED <<pc, retry, spent, text, redactor, streamed, outcome>>
      BY <1>4 DEF retryVars
    <2>2. builders' = [i \in DOMAIN builders \cup {x} |-> IF i # x THEN builders[i] ELSE new]
      BY <1>4
    <2>3. parts \in Seq(Fragment) /\ part \in Fragment /\ outcome = "none" /\ x \in Int
      BY <1>1, Bounds DEF CallInv, Typed, Fragment
    <2>4. /\ DOMAIN builders \subseteq 0..MaxToolCalls - 1
          /\ \A i \in Int : Builder(i).arguments = Sent(i, parts)
          /\ \A p \in DOMAIN parts :
               /\ parts[p].index \in DOMAIN builders
               /\ parts[p].id \in {"", builders[parts[p].index].id}
      BY <1>1 DEF CallInv, BuildersAreWhole
    <2>5. new.id = id /\ new.arguments = b.arguments \o part.arguments
      <3> HIDE DEF id, name, b
      <3> QED
        OBVIOUS
    <2> HIDE DEF new
    <2>6. DOMAIN builders' = DOMAIN builders \cup {x} /\ builders'[x] = new
          /\ \A i \in DOMAIN builders : i # x => builders'[i] = builders[i]
      BY <2>2
    <2>7. ASSUME NEW i \in Int PROVE Builder(i)'.arguments = Sent(i, parts)'
      <3>1. Sent(i, parts)' = Joined(i, Sent(i, parts), part)
        <4>1. Sent(i, Append(parts, part)) = Joined(i, Sent(i, parts), part)
          BY <2>3, SentAppend
        <4>2. Sent(i, parts)' = Sent(i, Append(parts, part))
          BY <2>1
        <4> QED
          BY <4>1, <4>2
      <3>2. CASE i = x
        <4>1. Builder(i)' = new
          BY <2>6, <3>2 DEF Builder
        <4>2. b.arguments = Sent(i, parts)
          BY <2>3, <2>4, <3>2
        <4> DEFINE sent == Sent(i, parts)
                   more == part.arguments
        <4> HIDE DEF sent
        <4>3. Joined(i, sent, part) = sent \o part.arguments
          BY <3>2 DEF Joined
        <4> HIDE DEF b
        <4>4. new.arguments = sent \o part.arguments
          BY <2>5, <4>2 DEF sent
        <4>5. Joined(i, sent, part) = new.arguments
          BY <4>3, <4>4
        <4> QED
          BY <3>1, <4>1, <4>5 DEF sent
      <3>3. CASE i # x
        <4>1. Builder(i)' = Builder(i)
          BY <2>6, <3>3 DEF Builder
        <4>2. Joined(i, Sent(i, parts), part) = Sent(i, parts)
          BY <3>3 DEF Joined
        <4> QED
          BY <2>4, <3>1, <4>1, <4>2
      <3> QED
        BY <3>2, <3>3
    <2>8. ASSUME NEW p \in DOMAIN parts'
          PROVE  /\ parts'[p].index \in DOMAIN builders'
                 /\ parts'[p].id \in {"", builders'[parts'[p].index].id}
      <3>1. /\ DOMAIN parts' = 1..(Len(parts) + 1) /\ parts'[Len(parts) + 1] = part
            /\ DOMAIN parts = 1..Len(parts) /\ Len(parts) \in Nat
            /\ \A k \in 1..Len(parts) : parts'[k] = parts[k]
        <4> DEFINE longer == Append(parts, part)
        <4>1. /\ longer[Len(parts) + 1] = part
              /\ DOMAIN longer = 1..(Len(parts) + 1) /\ DOMAIN parts = 1..Len(parts)
              /\ Len(parts) \in Nat /\ \A k \in 1..Len(parts) : longer[k] = parts[k]
          BY <2>3, OneMore
        <4>2. parts' = longer
          BY <2>1
        <4> HIDE DEF longer
        <4> QED
          BY <4>1, <4>2
      <3>2. CASE p = Len(parts) + 1
        <4>1. parts'[p] = part
          BY <3>1, <3>2
        <4>2. part.id \in {"", id}
          OBVIOUS
        <4> HIDE DEF id, b
        <4> QED
          BY <2>5, <2>6, <4>1, <4>2
      <3>3. CASE p \in DOMAIN parts
        <4>1. parts'[p] = parts[p] /\ parts[p].index \in DOMAIN builders
              /\ parts[p].id \in {"", builders[parts[p].index].id}
          BY <2>4, <3>1, <3>3
        <4>2. CASE parts[p].index = x
          <5>1. b = builders[x]
            BY <4>1, <4>2 DEF Builder
          <5>2. b.id \in {"", id}
            BY <2>1
          <5>3. parts[p].id \in {"", b.id}
            BY <4>1, <4>2, <5>1
          <5> HIDE DEF b, id
          <5> QED
            BY <2>5, <2>6, <4>1, <4>2, <5>2, <5>3
        <4>3. CASE parts[p].index # x
          BY <2>6, <4>1, <4>3
        <4> QED
          BY <4>2, <4>3
      <3>4. p = Len(parts) + 1 \/ p \in DOMAIN parts
        <4> HIDE DEF id, b, x, name
        <4> QED
          BY <3>1
      <3> QED
        BY <3>2, <3>3, <3>4
    <2>9. BuildersAreWhole'
      <3>1. DOMAIN builders' \subseteq 0..MaxToolCalls - 1
        BY <2>1, <2>4, <2>6
      <3>2. (\A i \in Int : Builder(i).arguments = Sent(i, parts))'
        BY <2>7
      <3> QED
        BY <2>8, <3>1, <3>2 DEF BuildersAreWhole
    <2>10. Typed'
      <3>1. parts' \in Seq(Fragment)
        <4>1. Append(parts, part) \in Seq(Fragment)
          BY <2>3, OneMore
        <4> QED
          BY <2>1, <4>1
      <3> QED
        BY <2>1, <3>1 DEF CallInv, Typed
    <2>11. StreamIsCompleted'
      BY <2>1 DEF CallInv, StreamIsCompleted
    <2>12. WaitIsOfHeader' /\ DisagreesOnlyOnKeys' /\ CallsAreWhole'
      BY <1>1, <2>1, <2>3 DEF WaitIsOfHeader, DisagreesOnlyOnKeys, CallsAreWhole
    <2> QED
      BY <2>9, <2>10, <2>11, <2>12 DEF CallInv
  <1> QED
    BY <1>2, <1>3, <1>4
-----------------------------------------------------------------------------
\* What StreamRedactor shows of a text, the line held back included, is what
\* Detector.Redact makes of it unless a key of it spans lines, and then it is
\* neither that nor nothing (StreamRedactor.Write and Close
\* projector.go:261-305, Detector.Redact projector.go:93).
THEOREM StreamedIsRedacted ==
  ASSUME NEW t \in Seq(Piece)
  PROVE  LET u == Completed(FALSE, t)
             told == u.out \o RedactLine(u.inKey, u.pending).out
         IN  /\ ~ KeySpansLines(t) => told = Redact(t)
             /\ KeySpansLines(t) => told # <<>> /\ told # Redact(t)
  <1> DEFINE u == Completed(FALSE, t)
             line == RedactLine(u.inKey, u.pending)
             told == u.out \o line.out
             s == Seen(u.pending)
  <1>1. /\ ~ KeySpansLines(t) => u.inKey = FALSE /\ Ahead(Seen(t), s, u.out)
        /\ KeySpansLines(t) => LineEnds(Seen(t).out) < LineEnds(u.out)
    BY StreamFollows
  <1>2. u.inKey \in BOOLEAN /\ u.pending \in Seq(Piece) /\ u.out \in Seq(Out)
    <2>1. FALSE \in BOOLEAN
      OBVIOUS
    <2>2. u \in Writing
      BY <2>1, CompletedAppend
    <2> QED
      BY <2>2 DEF Writing
  <1> HIDE DEF u
  <1>3. line.out \in Seq(Out)
    BY <1>2, LineTyped DEF Line
  <1>4. Redact(t) = Seen(t).out /\ Redact(t) \in Seq(Out)
    BY RedactIsSeen
  <1>5. CASE ~ KeySpansLines(t)
    <2>1. line.out = Redact(u.pending) /\ Redact(u.pending) = s.out
      <3>1. line = RedactLine(FALSE, u.pending)
        BY <1>1, <1>5
      <3>2. RedactLine(FALSE, u.pending).out = Redact(u.pending) /\ Redact(u.pending) = s.out
        BY <1>2, LineAgrees, RedactIsSeen
      <3> HIDE DEF line, s
      <3> QED
        BY <3>1, <3>2
    <2> HIDE DEF s, line
    <2>2. Seen(t).out = u.out \o s.out
      BY <1>1, <1>5 DEF Ahead
    <2> QED
      BY <1>4, <1>5, <2>1, <2>2 DEF u, line
  <1>6. CASE KeySpansLines(t)
    <2> DEFINE a == u.out
               o == line.out
               all == a \o o
    <2>1. a \in Seq(Out) /\ o \in Seq(Out)
      BY <1>2, <1>3
    <2>2. LineEnds(Redact(t)) < LineEnds(a) /\ LineEnds(Redact(t)) \in Nat /\ LineEnds(a) \in Nat
      BY <1>1, <1>2, <1>4, <1>6, EndsFinite
    <2> HIDE DEF a, o
    <2>3. all \in Seq(Out) /\ LineEnds(a) <= LineEnds(all)
      BY <2>1, EndsJoin, Joins
    <2>4. LineEnds(all) \in Nat
      BY <2>3, EndsFinite
    <2> HIDE DEF all
    <2>5. all # Redact(t)
      BY <2>2, <2>3, <2>4
    <2>6. all # <<>>
      <3>1. Positions("newline", <<>>) = {}
        BY DEF Positions
      <3>2. LineEnds(<<>>) = 0
        BY <3>1, FS_EmptySet DEF LineEnds
      <3> QED
        BY <2>2, <2>3, <2>4, <3>2
    <2>7. all = told
      BY DEF all, a, o
    <2> QED
      BY <1>6, <2>5, <2>6, <2>7 DEF u, line
  <1> QED
    BY <1>5, <1>6

\* The indexes of a complete response are the first ones.
LEMMA NoGaps ==
  ASSUME DOMAIN builders \subseteq 0..MaxToolCalls - 1, CompleteCalls
  PROVE  Expected = DOMAIN builders
  <1>1. MaxToolCalls \in Nat
    BY Bounds
  <1> DEFINE D == DOMAIN builders
             n == Cardinality(D)
  <1>2. IsFiniteSet(D) /\ n \in Nat
    <2>1. IsFiniteSet(0..MaxToolCalls - 1)
      BY <1>1, FS_Interval
    <2> QED
      BY <2>1, FS_Subset, FS_CardinalityType
  <1> HIDE DEF D
  <1>3. Cardinality(0..n - 1) = n
    <2> HIDE DEF n
    <2>1. 0 \in Int /\ n - 1 \in Int
      BY <1>2
    <2>2. Cardinality(0..n - 1) = IF 0 > n - 1 THEN 0 ELSE n - 1 - 0 + 1
      BY <2>1, FS_Interval
    <2> QED
      BY <1>2, <2>2
  <1>4. Expected = 0..n - 1
    BY DEF Expected, D
  <1>5. Expected \in SUBSET D
    BY DEF CompleteCalls, D
  <1>6. D = Expected
    <2> HIDE DEF n
    <2>1. Cardinality(D) = Cardinality(Expected)
      BY <1>3, <1>4 DEF n
    <2> QED
      BY <1>2, <1>5, <2>1, FS_Subset
  <1> QED
    BY <1>6 DEF D

LEMMA StreamEndsKeeps ==
  ASSUME CallInv, StreamEnds
  PROVE  CallInv'
  <1>1. pc = "reading" /\ Attempting
    BY DEF StreamEnds, Attempting
  <1>2. CASE ~ CompleteCalls
    <2>1. "protocol" \in FailureClass
      BY DEF FailureClass
    <2> QED
      BY <1>1, <1>2, <2>1, FailsKeeps DEF StreamEnds
  <1>3. CASE CompleteCalls
    <2> DEFINE told == streamed \o Trailing(redactor)
               u == Completed(FALSE, text)
               disagrees == told # <<>> /\ told # Redact(text)
               all == u.out \o RedactLine(u.inKey, u.pending).out
    <2>1. /\ pc' = "done" /\ calls' = [i \in Expected \cap DOMAIN builders |-> builders[i]]
          /\ streamed' = told
          /\ outcome' = IF disagrees THEN "engine_invariant" ELSE "answered"
          /\ UNCHANGED <<retry, spent, text, parts>>
      BY <1>3 DEF StreamEnds, retryVars
    <2>2. text \in Seq(Piece)
      BY DEF CallInv, Typed
    <2>3. told = all
      <3>1. redactor = [inKey |-> u.inKey, pending |-> u.pending] /\ streamed = u.out
        BY <1>1 DEF CallInv, StreamIsCompleted
      <3> HIDE DEF u
      <3>2. redactor.inKey = u.inKey /\ redactor.pending = u.pending
        BY <3>1
      <3>3. Trailing(redactor) = RedactLine(u.inKey, u.pending).out
        BY <3>2 DEF Trailing
      <3> QED
        BY <3>1, <3>3
    <2>4. /\ ~ KeySpansLines(text) => all = Redact(text)
          /\ KeySpansLines(text) => all # <<>> /\ all # Redact(text)
      BY <2>2, StreamedIsRedacted
    <2> HIDE DEF told, all
    <2>5. DisagreesOnlyOnKeys'
      <3>1. KeySpansLines(text)' <=> KeySpansLines(text)
        BY <2>1 DEF KeySpansLines, Positions
      <3>2. Redact(text)' = Redact(text)
        BY <2>1
      <3>3. CASE disagrees
        <4>1. outcome' = "engine_invariant" /\ KeySpansLines(text)
          BY <2>1, <2>3, <2>4, <3>3
        <4> QED
          BY <3>1, <4>1 DEF DisagreesOnlyOnKeys
      <3>4. CASE ~ disagrees
        <4>1. outcome' = "answered" /\ ~ KeySpansLines(text) /\ told = Redact(text)
          BY <2>1, <2>3, <2>4, <3>4
        <4> QED
          BY <2>1, <3>1, <3>2, <4>1 DEF DisagreesOnlyOnKeys
      <3> QED
        BY <3>3, <3>4
    <2>6. CallsAreWhole'
      <3>1. /\ DOMAIN builders \subseteq 0..MaxToolCalls - 1
            /\ \A i \in Int : Builder(i).arguments = Sent(i, parts)
            /\ \A p \in DOMAIN parts :
                 /\ parts[p].index \in DOMAIN builders
                 /\ parts[p].id \in {"", builders[parts[p].index].id}
        BY <1>1 DEF CallInv, BuildersAreWhole
      <3>2. Expected = DOMAIN builders
        BY <1>3, <3>1, NoGaps
      <3>3. ASSUME NEW p \in DOMAIN parts
            PROVE  /\ parts[p].index \in DOMAIN calls'
                   /\ calls'[parts[p].index].id # ""
                   /\ parts[p].id \in {"", calls'[parts[p].index].id}
                   /\ calls'[parts[p].index].arguments = Sent(parts[p].index, parts)
        <4> DEFINE i == parts[p].index
        <4>1. i \in DOMAIN builders /\ parts[p].id \in {"", builders[i].id}
          BY <3>1
        <4>2. i \in DOMAIN calls' /\ calls'[i] = builders[i]
          <5> HIDE DEF i
          <5> QED
            BY <2>1, <3>2, <4>1
        <4>3. builders[i].id # ""
          BY <1>3, <3>2, <4>1 DEF CompleteCalls, ValidCall
        <4>4. i \in Int
          <5> HIDE DEF i
          <5>1. MaxToolCalls \in Nat /\ i \in 0..MaxToolCalls - 1
            BY <3>1, <4>1, Bounds
          <5> QED
            BY <5>1
        <4>5. builders[i].arguments = Sent(i, parts)
          BY <3>1, <4>1, <4>4 DEF Builder
        <4> QED
          BY <4>1, <4>2, <4>3, <4>5
      <3>4. parts' = parts
        BY <2>1
      <3> QED
        BY <3>3, <3>4 DEF CallsAreWhole
    <2>7. Typed'
      <3>1. outcome' \in Result
        BY <2>1 DEF Result
      <3> QED
        BY <2>1, <3>1 DEF CallInv, Typed
    <2>8. StreamIsCompleted' /\ BuildersAreWhole' /\ WaitIsOfHeader'
      BY <2>1 DEF StreamIsCompleted, BuildersAreWhole, WaitIsOfHeader
    <2> QED
      BY <2>5, <2>6, <2>7, <2>8 DEF CallInv
  <1> QED
    BY <1>2, <1>3

LEMMA CallInit ==
  ASSUME Init
  PROVE  CallInv
  <1>1. /\ pc = "connect" /\ retry = 0 /\ spent = 0 /\ text = <<>> /\ parts = <<>>
        /\ redactor = NewStreamRedactor /\ streamed = <<>> /\ outcome = "none"
    BY DEF Init
  <1>2. Typed
    <2>1. MaxRetries \in Nat /\ MaxRetryDelay \in Nat
      BY Bounds
    <2>2. <<>> \in Seq(Piece) /\ <<>> \in Seq(Fragment)
      OBVIOUS
    <2> QED
      BY <1>1, <2>1, <2>2 DEF Typed, Result
  <1> QED
    BY <1>1, <1>2 DEF CallInv, StreamIsCompleted, BuildersAreWhole, WaitIsOfHeader,
                      DisagreesOnlyOnKeys, CallsAreWhole

LEMMA CallStep ==
  ASSUME CallInv, [Next]_vars
  PROVE  CallInv'
  <1>1. CASE Next
    BY <1>1, OthersKeep, AcceptedKeeps, ReadTextKeeps, ReadPartKeeps, StreamEndsKeeps,
       NextAttemptKeeps DEF Next
  <1>2. CASE UNCHANGED vars
    <2>1. UNCHANGED <<pc, retry, spent, delay, asked, text, builders, redactor, streamed, parts,
                      calls, outcome>>
      BY <1>2 DEF vars, retryVars, attemptVars
    <2>2. Typed' /\ StreamIsCompleted'
      BY <2>1 DEF CallInv, Typed, StreamIsCompleted
    <2>3. BuildersAreWhole'
      BY <2>1 DEF CallInv, BuildersAreWhole, Builder
    <2>4. WaitIsOfHeader'
      <3>1. ComputedDelay' = ComputedDelay
        BY <2>1 DEF ComputedDelay
      <3> QED
        BY <2>1, <3>1 DEF CallInv, WaitIsOfHeader, WaitOf
    <2>5. DisagreesOnlyOnKeys'
      <3>1. KeySpansLines(text)' <=> KeySpansLines(text)
        BY <2>1 DEF KeySpansLines, Positions
      <3>2. Redact(text)' = Redact(text)
        BY <2>1
      <3> QED
        BY <2>1, <3>1, <3>2 DEF CallInv, DisagreesOnlyOnKeys
    <2>6. CallsAreWhole'
      BY <2>1 DEF CallInv, CallsAreWhole
    <2> QED
      BY <2>2, <2>3, <2>4, <2>5, <2>6 DEF CallInv
  <1> QED
    BY <1>1, <1>2

\* A response is decoded call by call and its stream is told line by line: the
\* invariant of a model call (completeWithRetry session.go:736-781, decodeStream
\* adapter.go:352-396).
THEOREM ModelCallInvariant == Spec => []CallInv
  BY CallInit, CallStep, PTL DEF Spec

\* Cut into chunks anywhere, a text is streamed as its projection (onText and
\* resetStream session.go:589-610, StreamRedactor projector.go:261-287).
THEOREM ModelCallStreamIsOfText == Spec => []StreamIsOfText
  <1>1. CallInv => StreamIsOfText
    <2> SUFFICES ASSUME CallInv, pc = "reading" PROVE streamed \o Trailing(redactor) = Uncut(text)
      BY DEF StreamIsOfText
    <2> DEFINE u == Completed(FALSE, text)
    <2>1. redactor = [inKey |-> u.inKey, pending |-> u.pending] /\ streamed = u.out
      BY DEF CallInv, StreamIsCompleted
    <2>2. <<>> \o text = text
      <3>1. text \in Seq(Piece)
        BY DEF CallInv, Typed
      <3> QED
        BY <3>1, Joins
    <2>3. Write(NewStreamRedactor, text) = [redactor |-> [inKey |-> u.inKey, pending |-> u.pending],
                                            out |-> u.out]
      <3>1. NewStreamRedactor.inKey = FALSE /\ NewStreamRedactor.pending = <<>>
        BY DEF NewStreamRedactor
      <3>2. Completed(NewStreamRedactor.inKey, NewStreamRedactor.pending \o text) = u
        BY <2>2, <3>1, Zenon
      <3> HIDE DEF u
      <3> QED
        BY <3>2 DEF Write
    <2> HIDE DEF u
    <2> DEFINE w == Write(NewStreamRedactor, text)
    <2>4. w.redactor = redactor /\ w.out = streamed
      BY <2>1, <2>3
    <2> QED
      BY <2>4, Zenon DEF Uncut
  <1> QED
    BY <1>1, ModelCallInvariant, PTL

\* A response is given up for what was streamed of it exactly if its text holds
\* a key of several lines (run session.go:630-634, Redact projector.go:93 and
\* 219).
THEOREM ModelCallDisagreesOnlyOnKeys == Spec => []DisagreesOnlyOnKeys
  <1>1. CallInv => DisagreesOnlyOnKeys
    BY DEF CallInv
  <1> QED
    BY <1>1, ModelCallInvariant, PTL

\* Fragments of any number of calls, in any order, end in the calls they were
\* sent for, or the response is refused (decodeStream adapter.go:352-396).
THEOREM ModelCallCallsAreWhole == Spec => []CallsAreWhole
  <1>1. CallInv => CallsAreWhole
    BY DEF CallInv
  <1> QED
    BY <1>1, ModelCallInvariant, PTL

\* No wait is longer than its cap, not even for a header that overflows, and all
\* of them stay within the budget (completeWithRetry session.go:748-766).
THEOREM ModelCallWaitsAreBounded == Spec => []WaitsAreBounded
  <1>1. CallInv => WaitsAreBounded
    BY DEF CallInv, Typed, WaitIsOfHeader, WaitOf, WaitsAreBounded
  <1> QED
    BY <1>1, ModelCallInvariant, PTL
=============================================================================
