------------------------------- MODULE Prompt -------------------------------
(***************************************************************************)
(* internal/prompt: the messages a request is built from.  A message keeps *)
(* its role, the calls of an assistant and the call a result answers.      *)
(***************************************************************************)
EXTENDS Transcript

Message(role) == [role |-> role, calls |-> <<>>, answers |-> NoCall]

\* Seeded fault: every call is a message of its own.
AddCallAlone(messages, again, id) ==
  Append(messages, [Message("assistant") EXCEPT !.calls = <<id>>])

\* The inner loop: calls that follow each other are one message.
AddCall(messages, again, id) ==
  IF again
  THEN [messages EXCEPT ![Len(messages)].calls = Append(@, id)]
  ELSE Append(messages, [Message("assistant") EXCEPT !.calls = <<id>>])

\* One record; the others are no message.
AddRecord(built, rec) ==
  [messages |->
     CASE rec.kind = "user_message" -> Append(built.messages, Message("user"))
       [] rec.kind = "assistant_block" -> Append(built.messages, Message("assistant"))
       [] rec.kind = "tool_call" -> AddCall(built.messages, built.last = "tool_call", rec.call)
       [] rec.kind = "tool_result" ->
            Append(built.messages, [Message("tool") EXCEPT !.answers = rec.call])
       [] OTHER -> built.messages,
   last |-> rec.kind]

NoMessages == [messages |-> <<>>, last |-> ""]

RecordsToMessages(entries) ==
  LET built[n \in 0..Len(entries)] ==
        IF n = 0 THEN NoMessages ELSE AddRecord(built[n - 1], entries[n].rec)
  IN  built[Len(entries)].messages

\* What a provider demands: the calls of a message are answered, in their
\* order, by the messages right behind it, and nothing else is an answer.
CallsAnswered(messages) ==
  /\ \A i \in DOMAIN messages : \A k \in DOMAIN messages[i].calls :
       i + k \in DOMAIN messages /\ messages[i + k].answers = messages[i].calls[k]
  /\ \A j \in DOMAIN messages : messages[j].role = "tool" =>
       \E i \in 1..(j - 1) : j - i \in DOMAIN messages[i].calls
=============================================================================
