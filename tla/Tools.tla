------------------------------- MODULE Tools -------------------------------
(***************************************************************************)
(* The list and read tools (internal/tools) behind the broker, as a model  *)
(* uses them: page after page, by the continuation hint that ends a page   *)
(* which the bounds cut.  Files come and go between the pages of a list;   *)
(* the file that is read stays as it is.                                   *)
(*                                                                         *)
(* A path is the sequence of its characters by rank: a character before    *)
(* the slash is 1, the slash 2, one behind it 3.  A line of a file is a    *)
(* sequence of the pieces of Redaction, or binary.  Every character, piece,*)
(* line number and line end has size 1.                                    *)
(***************************************************************************)
EXTENDS Redaction

CONSTANTS
  Paths,        \* what may exist below the directory that is listed
  Protected,    \* those for which ProtectedPath holds
  ListLines,    \* entries of a page of list: 2000
  ReadLines,    \* lines of a page of read: 1000
  MaxBytes,     \* maxResultBytes, and maxBytes of the broker: 64 KiB
  HintBytes,    \* the continuation hint, without the path or the number in it
  MarkerBytes,  \* the marker the broker puts in the place of what it cuts
  MaxChanges    \* bound: files created and removed between pages

Slash == 2

ASSUME ToolsAssumption ==
  /\ Paths \subseteq Seq(Nat) \ {<<>>} /\ IsFiniteSet(Paths)
  /\ \A path \in Paths : path[Len(path)] # Slash
  /\ {ListLines, ReadLines, MarkerBytes} \subseteq Nat \ {0} /\ {MaxBytes, HintBytes} \subseteq Nat
  /\ MarkerBytes + 2 <= MaxBytes

VARIABLES
  tree,       \* the paths that exist, each a file or a dir
  steady,     \* history: what every page of the list found in place
  recursive,  \* the argument of list
  listing,    \* the list: what the next page starts after, what was shown
  changes,    \* history: changes of the tree
  file,       \* the lines of the file that is read
  reading     \* the read: where the next page starts, what was shown

listVars == <<tree, steady, recursive, listing, changes>>
readVars == <<file, reading>>
toolVars == <<listVars, readVars>>
-----------------------------------------------------------------------------
(***************************************************************************)
(* What both tools do with their lines, given by their sizes.              *)
(***************************************************************************)
FirstBytes(sizes, n) ==
  LET sum[k \in 0..n] == IF k = 0 THEN 0 ELSE sum[k - 1] + sizes[k] IN sum[n]

\* The lines a tool writes before it reaches one of its bounds.
Written(sizes, lines) ==
  Max({n \in 0..Len(sizes) : n <= lines /\ FirstBytes(sizes, n) <= MaxBytes})

\* Broker.project: the hint and the end of a result that is too long are cut.
HintFits(sizes, n, hint) == FirstBytes(sizes, n) + hint <= MaxBytes

\* The lines that are whole in what is left; the last needs no line end.
Whole(sizes, n, hint) ==
  IF HintFits(sizes, n, hint) THEN n
  ELSE Max({k \in 0..n : k = 0 \/ FirstBytes(sizes, k) - 1 <= MaxBytes - MarkerBytes})
-----------------------------------------------------------------------------
(***************************************************************************)
(* listTool.                                                               *)
(***************************************************************************)
\* The order of strings.
Precedes(p, q) ==
  \/ IsStrictPrefix(p, q)
  \/ \E i \in DOMAIN p \cap DOMAIN q :
       p[i] < q[i] /\ SubSeq(p, 1, i - 1) = SubSeq(q, 1, i - 1)

Parents(path) == {Before(path, i) : i \in Positions(Slash, path)}

EntryOf(files, path) == IF files[path] = "dir" THEN Append(path, Slash) ELSE path

\* What WalkDir comes by: it skips a protected directory, and every directory
\* of a list that is not recursive.
Reached(path) == Parents(path) = {} \/ (recursive /\ Parents(path) \cap Protected = {})

\* Sorted, without SetToSortSeq, which tries every sequence.
Sorted(entries) ==
  [i \in 1..Cardinality(entries) |->
     CHOOSE e \in entries : Cardinality({d \in entries : Precedes(d, e)}) = i - 1]

\* Seeded fault: what the last page ended with is listed again.
EntriesFrom(after) ==
  Sorted({EntryOf(tree, p) : p \in {q \in DOMAIN tree : Reached(q) /\ ~ Precedes(q, after)}})

\* Each is compared with the hint by its name, and sorted with its slash.
Entries(after) ==
  Sorted({EntryOf(tree, p) : p \in {q \in DOMAIN tree : Reached(q) /\ Precedes(after, q)}})

Lists == listing.state = "open"

\* One page.  Whoever does not get the hint goes on after the last whole path.
ListPage ==
  LET entries == Entries(listing.after)
      sizes == [i \in DOMAIN entries |-> Len(entries[i]) + 1]
      n == Written(sizes, ListLines)
      cut == n < Len(entries)
      hint == HintBytes + (IF cut THEN Len(entries[n]) ELSE 0)
      k == IF cut THEN Whole(sizes, n, hint) ELSE n
  IN  /\ Lists
      /\ listing' =
           [state |-> IF cut THEN "open" ELSE "ended",
            after |-> IF k = 0 THEN listing.after ELSE entries[k],
            shown |-> listing.shown \o SubSeq(entries, 1, k),
            hints |-> listing.hints \cup {listing.after}]
      /\ steady' = {p \in steady : p[1] \in DOMAIN tree /\ tree[p[1]] = p[2]}
      /\ UNCHANGED <<tree, recursive, changes, readVars>>

\* Somebody else creates or removes a path.
Grown(path, kind) == [p \in DOMAIN tree \cup {path} |-> IF p = path THEN kind ELSE tree[p]]
Fits(files, path) == \A parent \in Parents(path) : parent \in DOMAIN files /\ files[parent] = "dir"

Changes ==
  /\ Lists /\ changes < MaxChanges
  /\ \/ \E p \in Paths \ DOMAIN tree, kind \in {"file", "dir"} :
          Fits(tree, p) /\ tree' = Grown(p, kind)
     \/ \E p \in DOMAIN tree :
          /\ \A q \in DOMAIN tree : p \notin Parents(q)
          /\ tree' = [q \in DOMAIN tree \ {p} |-> tree[q]]
  /\ changes' = changes + 1
  /\ UNCHANGED <<steady, recursive, listing, readVars>>
-----------------------------------------------------------------------------
(***************************************************************************)
(* readTool.                                                               *)
(***************************************************************************)
ProjectLine(seen, line) ==
  LET redacted == RedactLine(seen.inKey, line)
  IN  [inKey |-> redacted.inKey, lines |-> Append(seen.lines, redacted.out)]

\* Seeded fault: the redactor starts with the first line of the page.
ProjectedFromPage(start, last) ==
  FoldLeft(ProjectLine, [inKey |-> FALSE, lines |-> <<>>], SubSeq(file, start, last)).lines

\* The redactor reads the file from its first line on.
Projected(start, last) ==
  LET seen[n \in 0..Len(file)] ==
        IF n = 0 THEN [inKey |-> FALSE, lines |-> <<>>] ELSE ProjectLine(seen[n - 1], file[n])
  IN  SubSeq(seen[Len(file)].lines, start, last)

Reads == reading.state = "open"

\* The lines scanned: those of the page and the one behind them.
Scanned(last) == SubSeq(file, 1, IF last < Len(file) THEN last + 1 ELSE last)

\* One page, of the lines up to last.  Whoever does not get the hint goes on
\* after the last whole line, and gives up if there was none.
ReadPage(last) ==
  LET lines == Projected(reading.start, last)
      sizes == [i \in DOMAIN lines |-> Len(lines[i]) + 2]
      n == Written(sizes, ReadLines)
      cut == n < Len(lines)
      hint == HintBytes + 1
      k == IF cut THEN Whole(sizes, n, hint) ELSE n
  IN  /\ Reads /\ last \in reading.start..Len(file)
      /\ IF <<"binary">> \in ToSet(Scanned(reading.start + n - 1))
         THEN reading' = [reading EXCEPT !.state = "failed"]
         ELSE reading' =
                [state |-> IF cut /\ k = 0 THEN "stuck"
                           ELSE IF reading.start + k > Len(file) THEN "ended" ELSE "open",
                 start |-> reading.start + k,
                 shown |-> reading.shown \o SubSeq(lines, 1, k)]
      /\ UNCHANGED <<listVars, file>>
-----------------------------------------------------------------------------
ListInit(files) ==
  /\ tree = files /\ steady = {<<p, files[p]>> : p \in DOMAIN files}
  /\ recursive \in (IF files = <<>> THEN {TRUE} ELSE BOOLEAN) /\ changes = 0
  /\ listing = [state |-> "open", after |-> <<>>, shown |-> <<>>, hints |-> {}]

ReadInit(lines) ==
  /\ file = lines
  /\ reading = [state |-> IF lines = <<>> THEN "ended" ELSE "open", start |-> 1, shown |-> <<>>]

ToolsNext == ListPage \/ Changes \/ \E last \in DOMAIN file : ReadPage(last)
-----------------------------------------------------------------------------
\* The pages of a list are one list: paths come in lexical order and none
\* twice, whatever is created and removed in between.  What was there all the
\* time is in it, with one exception: a page that ended between the name of a
\* directory and the same with its slash, where the next page compares the
\* name with the hint and drops the directory (listTool.Execute tools.go:209).
ListIsComplete ==
  LET skipped(p) == \E h \in listing.hints : Precedes(p, h) /\ Precedes(h, Append(p, Slash)) IN
  /\ \A i, j \in DOMAIN listing.shown : i < j => Precedes(listing.shown[i], listing.shown[j])
  /\ listing.state = "ended" =>
       \A p \in steady : Reached(p[1]) =>
         (EntryOf([q \in {p[1]} |-> p[2]], p[1]) \in ToSet(listing.shown)
            <=> ~ (p[2] = "dir" /\ skipped(p[1])))

\* The pages of a read are one read: every line once, in order, as a read of
\* the whole file shows it, and a line of a private key is never more than its
\* marker, whichever page it is on.  A read is stuck or fails only at a line
\* too long for what the broker leaves, or at one that is not text
\* (readTool.Execute tools.go:119-150).
ReadIsWhole ==
  LET ofKey(i) == \E b \in 1..i : file[b] = <<"begin">> /\ \A k \in b..(i - 1) : file[k] # <<"end">>
  IN  /\ \A i \in DOMAIN reading.shown :
           reading.shown[i] = IF ofKey(i) THEN <<Marker>> ELSE file[i]
      /\ reading.state = "ended" => Len(reading.shown) = Len(file)
      /\ reading.state = "stuck" => Len(file[reading.start]) + 1 > MaxBytes - MarkerBytes
      /\ reading.state = "failed" => <<"binary">> \in ToSet(file)
=============================================================================
