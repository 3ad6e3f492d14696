------------------------------ MODULE PipeLoss ------------------------------
(***************************************************************************)
(* How much the request pipe loses with a call: ReceiverStream with a      *)
(* history variable, which counts for each call the requests that were     *)
(* dropped with its body or by its task.                                   *)
(***************************************************************************)
EXTENDS ReceiverStream

VARIABLE gone   \* gone[s]: requests lost with call s, of whatever type

LossInit == PipeInit /\ gone = [s \in Streams |-> 0]

WithBody(s) == IF body[s] /\ ~body'[s] THEN Len(buf[s]) ELSE 0
InHand(s) == IF task[s] = "send" /\ task'[s] # "send" /\ ~body[s] THEN Len(hand[s]) ELSE 0

\* The slot of a call that has come to its end is used for the next.
Reused(s) == ~body[s] /\ body'[s]

CountLoss ==
  gone' = [s \in Streams |-> IF Reused(s) THEN 0 ELSE gone[s] + WithBody(s) + InHand(s)]

LossNext == PipeNext /\ CountLoss

LossSpec == LossInit /\ [][LossNext]_<<pipe, gone>>
-----------------------------------------------------------------------------
\* A call that ends, whatever ends it, takes at most what its body and the hand of its
\* task can hold with it: Capacity + 1 requests.  The others wait in tonic_tx for the next
\* call, also those that come while the task has not noticed the end yet.
LossBounded == \A s \in Streams : gone[s] <= Capacity + 1
=============================================================================
