----------------------------- MODULE LossyFifo -----------------------------
(***************************************************************************)
(* What the path from tonic_tx to the RelayConnect calls promises: the     *)
(* payloads handed to tonic_tx are numbered in the order in which they     *)
(* were handed over; every payload leaves on at most one call, and each    *)
(* call carries its payloads in that order.  A payload may be lost, but is *)
(* then never sent.  Nothing is said of queues, tasks or buffers.          *)
(***************************************************************************)
EXTENDS Integers

CONSTANT Streams     \* the RelayConnect calls

VARIABLES
  enq,        \* payloads handed to tonic_tx so far
  last,       \* last[s]: the last payload that left on call s, 0 if none
  delivered,  \* payloads that left on some call
  lost        \* payloads that never will

Fresh == (1 .. enq) \ (delivered \cup lost)

Init ==
  /\ enq = 0
  /\ last = [s \in Streams |-> 0]
  /\ delivered = {}
  /\ lost = {}

Accept ==
  /\ enq' = enq + 1
  /\ UNCHANGED <<last, delivered, lost>>

Begin(s) ==
  /\ last' = [last EXCEPT ![s] = 0]
  /\ UNCHANGED <<enq, delivered, lost>>

Deliver(s, n) ==
  /\ n > last[s]
  /\ last' = [last EXCEPT ![s] = n]
  /\ delivered' = delivered \cup {n}
  /\ UNCHANGED <<enq, lost>>

Lose(N) ==
  /\ lost' = lost \cup N
  /\ UNCHANGED <<enq, last, delivered>>

Next ==
  \/ Accept
  \/ \E s \in Streams : Begin(s)
  \/ \E s \in Streams, n \in Fresh : Deliver(s, n)
  \/ \E N \in SUBSET Fresh : Lose(N)

Spec == Init /\ [][Next]_<<enq, last, delivered, lost>>
=============================================================================
