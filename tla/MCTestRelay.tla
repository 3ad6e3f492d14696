---------------------------- MODULE MCTestRelay ----------------------------
(* TestRelay for TLC. *)
EXTENDS TestRelay

TwoEntities ==
  {[id |-> <<"a", "b">>, namespace |-> <<"c">>, entity_type |-> <<"1">>],
   [id |-> <<"a">>, namespace |-> <<"c">>, entity_type |-> <<"2">>]}

\* What the handlers of the tests do: a ConnectRequest is answered; a message is answered,
\* or not, or sent on; and one has a client stopped.
Outcome(on, do, answers) == [on |-> on, do |-> do, answers |-> answers]

HandlerOutcomes ==
  {Outcome("ConnectRequest", "Nothing", TRUE), Outcome("Message", "Nothing", TRUE),
   Outcome("Message", "Nothing", FALSE), Outcome("Message", "Send", FALSE),
   Outcome("Message", "Terminate", FALSE)}

\* Two requests for one call, one for the others.
FewRequests ==
  LET k == CHOOSE c \in Calls : TRUE IN [c \in Calls |-> IF c = k THEN 2 ELSE 1]
=============================================================================
