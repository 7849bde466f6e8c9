----------------------------- MODULE ModelCall -----------------------------
(***************************************************************************)
(* One model call: the attempts of completeWithRetry, the stream each of   *)
(* them decodes, and what of it is told before the response is complete.   *)
(* Session has the budgets across calls, the cancellation and the writes.  *)
(*                                                                         *)
(* Time is counted in ticks; a duration is one of 2 * (MaxDuration + 1)    *)
(* numbers.                                                                *)
(***************************************************************************)
EXTENDS Redaction, Integers, FiniteSets

CONSTANTS Chunks,         \* the texts a data line may carry
          Parts,          \* the fragments of tool calls it may carry
          Statuses,       \* HTTP errors: [code, contextLimit]
          Headers,        \* Retry-After: [kind, value], in seconds
          ScriptedFailures,  \* failure classes of a scripted provider
          OutputLimit,    \* outputByteLimit, in pieces
          MaxToolCalls,
          MaxDuration,    \* the longest duration
          Second, FirstDelay, MaxComputedDelay, MaxServerDelay, MaxRetryDelay,
          MaxRetries,
          MaxLines        \* bound: data lines of one stream

Retryable == {"rate_limit", "transient", "overloaded"}
Fragment == [index : Int, id : STRING, name : BOOLEAN, arguments : Seq(STRING)]
FailureClass == Retryable \cup {"context_overflow", "permanent", "protocol", "output_limit"}

ASSUME ModelCallAssumption ==
  /\ Chunks \subseteq Seq(Piece)
  /\ Parts \subseteq Fragment
  /\ Headers \subseteq [kind : {"none", "seconds", "date"}, value : Int]
  /\ \A header \in Headers : header.kind = "none" => header.value = 0
  /\ ScriptedFailures \subseteq FailureClass
  /\ {OutputLimit, MaxToolCalls, MaxRetries, MaxRetryDelay, MaxLines} \subseteq Nat
  /\ {MaxDuration, Second, FirstDelay, MaxComputedDelay, MaxServerDelay} \subseteq Nat \ {0}
  /\ 6 * MaxComputedDelay <= 5 * MaxServerDelay /\ MaxServerDelay <= MaxDuration

VARIABLES pc, retry,
          spent,      \* Budgets[run].RetryDelay
          delay, asked,             \* the delay of this retry and the header it came with
          text, builders,           \* decodeStream
          redactor, streamed,       \* run
          calls, outcome,           \* the response, or why there is none
          lines, parts              \* history variables of this attempt

attemptVars == <<text, builders, redactor, streamed, lines, parts>>
retryVars == <<retry, spent, delay, asked>>
vars == <<pc, retryVars, attemptVars, calls, outcome>>
-----------------------------------------------------------------------------
(***************************************************************************)
(* Failures and delays.                                                    *)
(***************************************************************************)
\* classifyHTTP
ClassOf(status) ==
  CASE status.code = 400 /\ status.contextLimit -> "context_overflow"
    [] status.code = 429 -> "rate_limit"
    [] status.code = 503 -> "overloaded"
    [] status.code >= 500 /\ status.code # 503 -> "transient"
    [] OTHER -> "permanent"

Wrapped(n) == ((n + MaxDuration + 1) % (2 * (MaxDuration + 1))) - (MaxDuration + 1)
NoHeader == [kind |-> "none", value |-> 0]

\* parseRetryAfter: the multiplication wraps around, the difference of two
\* times saturates.
RetryAfter(header) ==
  CASE header.kind = "seconds" /\ header.value >= 0 -> Wrapped(header.value * Second)
    [] header.kind = "date" /\ header.value > 0 -> Min({header.value * Second, MaxDuration})
    [] OTHER -> 0

\* retryDelay
ComputedDelay ==
  LET doubled[n \in 0..retry] ==
        IF n = 0 THEN FirstDelay
        ELSE IF doubled[n - 1] >= MaxComputedDelay THEN MaxComputedDelay
        ELSE 2 * doubled[n - 1]
  IN  Min({doubled[retry], MaxComputedDelay})

\* Seeded fault: the delay the server asks for is not capped.
DelaysUncapped(after) ==
  IF after > 0 THEN {after}
  ELSE {(ComputedDelay * percent) \div 100 : percent \in {80, 100, 120}}

\* The server's delay, capped, or else the computed one with jitter; of the
\* jitter, the two ends and the middle.
Delays(after) ==
  IF after > 0 THEN {Min({after, MaxServerDelay})}
  ELSE {(ComputedDelay * percent) \div 100 : percent \in {80, 100, 120}}

Ends(result) ==
  /\ pc' = "done" /\ outcome' = result
  /\ UNCHANGED <<retryVars, attemptVars, calls>>

\* completeWithRetry, on a failure; resetStream comes after the reservation.
Fails(class, header) ==
  IF class \notin Retryable \/ retry >= MaxRetries THEN Ends(class)
  ELSE \E d \in Delays(RetryAfter(header)) :
         IF spent > MaxRetryDelay - d THEN Ends("budget_exhausted")
         ELSE /\ pc' = "waiting"
              /\ spent' = spent + d /\ delay' = d /\ asked' = header
              /\ redactor' = NewStreamRedactor /\ streamed' = <<>>
              /\ UNCHANGED <<retry, text, builders, lines, parts, calls, outcome>>
-----------------------------------------------------------------------------
(***************************************************************************)
(* Adapter.Stream.                                                         *)
(***************************************************************************)
\* Without a credential, or without a connection.
NotSent ==
  /\ pc = "connect"
  /\ \E class \in {"permanent", "transient"} : Fails(class, NoHeader)

HTTPError ==
  /\ pc = "connect"
  /\ \E status \in Statuses, header \in Headers : Fails(ClassOf(status), header)

UnexpectedMedia == pc = "connect" /\ Fails("protocol", NoHeader)

Accepted ==
  /\ pc = "connect"
  /\ pc' = "reading"
  /\ text' = <<>> /\ builders' = <<>> /\ lines' = 0 /\ parts' = <<>>
  /\ UNCHANGED <<retryVars, redactor, streamed, calls, outcome>>
-----------------------------------------------------------------------------
(***************************************************************************)
(* decodeStream: one action for what a data line may hold.                 *)
(***************************************************************************)
Reading == pc = "reading" /\ lines < MaxLines

\* The session's onText is called with every chunk.
ReadText ==
  /\ Reading
  /\ \E chunk \in Chunks :
       IF Len(text) + Len(chunk) > OutputLimit THEN Fails("output_limit", NoHeader)
       ELSE LET w == Write(redactor, chunk) IN
            /\ text' = text \o chunk
            /\ redactor' = w.redactor /\ streamed' = streamed \o w.out
            /\ lines' = lines + 1
            /\ UNCHANGED <<pc, retryVars, builders, parts, calls, outcome>>

Builder(index) ==
  IF index \in DOMAIN builders THEN builders[index]
  ELSE [id |-> "", name |-> FALSE, arguments |-> <<>>]

\* A fragment is accepted if its call has room and keeps its ID.
ReadPart ==
  /\ Reading
  /\ \E part \in Parts :
       LET b == Builder(part.index) IN
       CASE part.index \notin 0..MaxToolCalls - 1 -> Fails("protocol", NoHeader)
         [] part.index \in 0..MaxToolCalls - 1 /\ part.id # "" /\ b.id \notin {"", part.id} ->
              Fails("protocol", NoHeader)
         [] part.index \in 0..MaxToolCalls - 1 /\ (part.id = "" \/ b.id \in {"", part.id}) ->
              IF Len(b.arguments) + Len(part.arguments) > OutputLimit
              THEN Fails("output_limit", NoHeader)
              ELSE /\ builders' = [i \in DOMAIN builders \cup {part.index} |->
                        IF i # part.index THEN builders[i]
                        ELSE [id |-> IF part.id = "" THEN b.id ELSE part.id,
                              name |-> b.name \/ part.name,
                              arguments |-> b.arguments \o part.arguments]]
                   /\ lines' = lines + 1 /\ parts' = Append(parts, part)
                   /\ UNCHANGED <<pc, retryVars, text, redactor, streamed, calls, outcome>>

\* A line that is no event, an event that is not JSON, a line too many.
ReadGarbage ==
  /\ Reading
  /\ \E class \in {"protocol", "output_limit"} : Fails(class, NoHeader)

\* The connection is lost while the body is read.
StreamBreaks == pc = "reading" /\ Fails("protocol", NoHeader)

\* Scripted.play: the provider that stands in for the adapter fails as its
\* script says, at once or after the deltas.
ScriptedFails ==
  /\ pc = "reading"
  /\ \E class \in ScriptedFailures : Fails(class, NoHeader)

\* Arguments are valid when both their ends are there, in order.
ValidCall(b) == b.id # "" /\ b.name /\ b.arguments = <<"open", "close">>

Expected == 0..Cardinality(DOMAIN builders) - 1

\* Seeded fault: an index without a builder is passed over.
CompleteCallsGappy == \A i \in Expected \cap DOMAIN builders : ValidCall(builders[i])

CompleteCalls == \A i \in Expected : i \in DOMAIN builders /\ ValidCall(builders[i])

\* [DONE] or the end of the body, which a body that held an event may reach
\* without [DONE] and without a reason.  Then run: the trailing line, and the
\* comparison of what was streamed with the projected text.
StreamEnds ==
  /\ pc = "reading"
  /\ IF ~ CompleteCalls THEN Fails("protocol", NoHeader)
     ELSE LET told == streamed \o Trailing(redactor) IN
          /\ pc' = "done"
          /\ calls' = [i \in Expected \cap DOMAIN builders |-> builders[i]]
          /\ streamed' = told /\ redactor' = [redactor EXCEPT !.pending = <<>>]
          /\ outcome' = IF told # <<>> /\ told # Redact(text) THEN "engine_invariant"
                        ELSE "answered"
          /\ UNCHANGED <<retryVars, text, builders, lines, parts>>

\* The body ends before the first event.
EmptyStream == pc = "reading" /\ lines = 0 /\ Fails("protocol", NoHeader)
-----------------------------------------------------------------------------
\* sleepContext, and the next round of the loop.
NextAttempt ==
  /\ pc = "waiting"
  /\ pc' = "connect" /\ retry' = retry + 1
  /\ delay' = 0 /\ asked' = NoHeader
  /\ UNCHANGED <<spent, attemptVars, calls, outcome>>

Init ==
  /\ pc = "connect" /\ retry = 0 /\ spent = 0 /\ delay = 0 /\ asked = NoHeader
  /\ text = <<>> /\ builders = <<>> /\ redactor = NewStreamRedactor /\ streamed = <<>>
  /\ lines = 0 /\ parts = <<>>
  /\ calls = <<>> /\ outcome = "none"

Next ==
  \/ NotSent \/ HTTPError \/ UnexpectedMedia \/ Accepted
  \/ ReadText \/ ReadPart \/ ReadGarbage \/ StreamBreaks \/ ScriptedFails
  \/ StreamEnds \/ EmptyStream
  \/ NextAttempt

Spec == Init /\ [][Next]_vars
-----------------------------------------------------------------------------
(***************************************************************************)
(* Properties.                                                             *)
(***************************************************************************)

\* The projection of a text that arrives in one piece.
Uncut(t) == LET w == Write(NewStreamRedactor, t) IN w.out \o Trailing(w.redactor)

\* What was streamed, with the line still held back, is the projection of the
\* text of this attempt alone, however it was cut into chunks and whatever an
\* earlier attempt left behind (onText and resetStream session.go:589-610,
\* StreamRedactor projector.go:261-287).
StreamIsOfText ==
  pc = "reading" => streamed \o Trailing(redactor) = Uncut(text)

\* A key that goes on after the end of its line.
KeySpansLines(t) ==
  \E n \in Positions("newline", t), b \in Positions("begin", t) :
    b < n /\ \A e \in Positions("end", t) : e < b \/ e > n

\* A response is given up because it disagrees with what was streamed exactly
\* when its text holds a key of several lines, for which the stream has a
\* marker per line and the text has one; an answer was streamed as it is
\* recorded (run session.go:630-634, Redact projector.go:93 and 219).
DisagreesOnlyOnKeys ==
  /\ outcome = "engine_invariant" => KeySpansLines(text)
  /\ outcome = "answered" => ~ KeySpansLines(text) /\ streamed = Redact(text)

\* The arguments that came for a call, in the order they came.
Joined(index, arguments, part) ==
  IF part.index = index THEN arguments \o part.arguments ELSE arguments
Sent(index, received) ==
  LET joined[n \in 0..Len(received)] ==
        IF n = 0 THEN <<>> ELSE Joined(index, joined[n - 1], received[n])
  IN  joined[Len(received)]

\* A completed response has every fragment of a call it received, in order,
\* in the call it was sent for (decodeStream adapter.go:352-396).
CallsAreWhole ==
  outcome = "answered" =>
    \A p \in DOMAIN parts :
      /\ parts[p].index \in DOMAIN calls
      /\ LET call == calls[parts[p].index]
         IN  /\ call.id # "" /\ parts[p].id \in {"", call.id}
             /\ call.arguments = Sent(parts[p].index, parts)

\* The waits of a call: a Retry-After that fits a duration replaces the
\* computed delay up to its cap, any other wait is the computed one within a
\* fifth of it, none is longer than the cap even if the header overflows, and
\* together they stay within the budget (completeWithRetry session.go:748-766).
WaitsAreBounded ==
  /\ spent \in 0..MaxRetryDelay /\ retry \in 0..MaxRetries
  /\ pc = "waiting" =>
       /\ delay \in 0..MaxServerDelay
       /\ LET wanted == asked.value * Second IN
          IF asked.kind # "none" /\ wanted \in 1..MaxDuration
          THEN delay = Min({wanted, MaxServerDelay})
          ELSE wanted <= 0 => 5 * delay \in 4 * ComputedDelay - 4 .. 6 * ComputedDelay
=============================================================================
