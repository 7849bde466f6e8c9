----------------------------- MODULE Redaction -----------------------------
(***************************************************************************)
(* Package dataproj: credentials replaced in a whole text, in a line and   *)
(* in a stream.                                                            *)
(*                                                                         *)
(* A text is a sequence of the pieces the rules tell apart: word, newline, *)
(* head, tail, begin and end, the last two of a private key.  A credential *)
(* is its head followed by its tail, so that a stream can be cut inside    *)
(* one; all rules that match within a line are this one.  A private key    *)
(* runs from its first marker to its last and over line ends.  Pieces      *)
(* other than a tail begin with a blank, so two matches never touch.       *)
(***************************************************************************)
EXTENDS Naturals, Sequences, SequencesExt, FiniteSetsExt

Piece == {"word", "newline", "head", "tail", "begin", "end"}
Marker == "redacted"

\* The pieces before and after position i.
Before(text, i) == SubSeq(text, 1, i - 1)
After(text, i) == SubSeq(text, i + 1, Len(text))
Positions(piece, text) == {i \in DOMAIN text : text[i] = piece}
-----------------------------------------------------------------------------
\* Detector.Redact, from left to right.  at: what the last piece belongs to.  A
\* key without a last marker runs to the end of the text, a match takes every
\* tail that follows.
RedactPiece(seen, piece) ==
  CASE seen.at = "key" -> [seen EXCEPT !.at = IF piece = "end" THEN "text" ELSE "key"]
    [] seen.at # "key" /\ piece = "begin" -> [at |-> "key", out |-> Append(seen.out, Marker)]
    [] seen.at = "head" /\ piece = "tail" ->
         [at |-> "match", out |-> Append(Front(seen.out), Marker)]
    [] seen.at = "match" /\ piece = "tail" -> seen
    [] OTHER -> [at |-> IF piece = "head" THEN "head" ELSE "text", out |-> Append(seen.out, piece)]

Redact(text) ==
  LET seen[n \in 0..Len(text)] ==
        IF n = 0 THEN [at |-> "text", out |-> <<>>] ELSE RedactPiece(seen[n - 1], text[n])
  IN  seen[Len(text)].out
-----------------------------------------------------------------------------
\* Seeded fault: what follows a key in its line is passed on.
RedactLineSuffixRaw(inKey, line) ==
  LET first == IF inKey THEN 0 ELSE IF Positions("begin", line) = {} THEN Len(line) + 1
               ELSE Min(Positions("begin", line))
      lasts == {i \in Positions("end", line) : i > first}
  IN  CASE first > Len(line) -> [inKey |-> FALSE, out |-> Redact(line)]
        [] first <= Len(line) /\ lasts = {} ->
             [inKey |-> TRUE, out |-> Redact(Before(line, first)) \o <<Marker>>]
        [] first <= Len(line) /\ lasts # {} ->
             [inKey |-> FALSE,
              out |-> Redact(Before(line, first)) \o <<Marker>> \o After(line, Min(lasts))]

\* LineRedactor.Redact.  Of the keys of a line only the first is remembered.
RedactLine(inKey, line) ==
  LET first == IF inKey THEN 0 ELSE IF Positions("begin", line) = {} THEN Len(line) + 1
               ELSE Min(Positions("begin", line))
      lasts == {i \in Positions("end", line) : i > first}
  IN  CASE first > Len(line) -> [inKey |-> FALSE, out |-> Redact(line)]
        [] first <= Len(line) /\ lasts = {} ->
             [inKey |-> TRUE, out |-> Redact(Before(line, first)) \o <<Marker>>]
        [] first <= Len(line) /\ lasts # {} ->
             [inKey |-> FALSE,
              out |-> Redact(Before(line, first)) \o <<Marker>> \o Redact(After(line, Min(lasts)))]
-----------------------------------------------------------------------------
(***************************************************************************)
(* StreamRedactor.                                                         *)
(***************************************************************************)
NewStreamRedactor == [inKey |-> FALSE, pending |-> <<>>]

\* One piece of a line, or the newline that completes it.
WritePiece(w, piece) ==
  IF piece # "newline" THEN [w EXCEPT !.pending = Append(@, piece)]
  ELSE LET line == RedactLine(w.inKey, w.pending) IN
       [inKey |-> line.inKey, pending |-> <<>>, out |-> w.out \o line.out \o <<"newline">>]

\* The loop of StreamRedactor.Write, over what is pending and the chunk.
Completed(inKey, text) ==
  LET w[n \in 0..Len(text)] ==
        IF n = 0 THEN [inKey |-> inKey, pending |-> <<>>, out |-> <<>>]
        ELSE WritePiece(w[n - 1], text[n])
  IN  w[Len(text)]

\* Seeded fault: the unfinished line is projected at once.
WriteAtOnce(r, chunk) ==
  LET w == Completed(r.inKey, r.pending \o chunk)
      line == RedactLine(w.inKey, w.pending)
  IN  [redactor |-> [inKey |-> line.inKey, pending |-> <<>>],
       out |-> IF w.pending = <<>> THEN w.out ELSE w.out \o line.out]

\* StreamRedactor.Write: the lines completed by chunk.
Write(r, chunk) ==
  LET w == Completed(r.inKey, r.pending \o chunk)
  IN  [redactor |-> [inKey |-> w.inKey, pending |-> w.pending], out |-> w.out]

\* StreamRedactor.Close: an empty last line of a key is a marker as well.
Trailing(r) == RedactLine(r.inKey, r.pending).out
=============================================================================
