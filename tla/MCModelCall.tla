---------------------------- MODULE MCModelCall ----------------------------
(***************************************************************************)
(* A model call whose stream holds lines, credentials and private keys cut *)
(* anywhere, and the fragments of two tool calls in any order.  A tick is  *)
(* a tenth of a second; durations are so narrow that a header overflows.   *)
(***************************************************************************)
EXTENDS ModelCall

MCChunks ==
  {<<"word", "newline">>, <<"newline">>, <<"head">>, <<"tail">>,
   <<"begin">>, <<"end">>, <<"newline", "begin">>}

Part(index, id, name, arguments) ==
  [index |-> index, id |-> id, name |-> name, arguments |-> arguments]

MCParts ==
  {Part(0, "a", TRUE, <<"open">>), Part(0, "", FALSE, <<"close">>),
   Part(1, "b", TRUE, <<"open">>), Part(1, "b", FALSE, <<"close">>),
   Part(1, "a", TRUE, <<"open", "close">>), Part(2, "c", TRUE, <<"open", "close">>)}

MCStatuses ==
  {[code |-> 400, contextLimit |-> TRUE], [code |-> 400, contextLimit |-> FALSE],
   [code |-> 429, contextLimit |-> FALSE], [code |-> 500, contextLimit |-> FALSE],
   [code |-> 503, contextLimit |-> FALSE]}

\* Within a duration, above the cap, and two that wrap around: to a negative
\* and to a small delay.
MCHeaders ==
  {NoHeader} \cup [kind : {"seconds"}, value : {-1, 0, 2, 4, 13, 26}]
    \cup [kind : {"date"}, value : {-3, 2, 26}]
=============================================================================
