--------------------------- MODULE ReceiverStream ---------------------------
(***************************************************************************)
(* relay-client/src/flume_receiver_stream.rs, with the tonic_tx/tonic_rx   *)
(* channel it drains.  Every RelayConnect call gets a task that moves      *)
(* requests from the flume channel, shared by all the calls a client ever  *)
(* makes, into the bounded tokio channel that is the body of that call.    *)
(*                                                                         *)
(* A poll of the task's biased select! is two steps, because other threads *)
(* run in between: first the cancellation token, then the flume channel.   *)
(* tx.send(..).await is outside the select!, so the token does not         *)
(* interrupt it.                                                           *)
(***************************************************************************)
EXTENDS Integers, Sequences, FiniteSets

CONSTANTS
  Streams,    \* slots for RelayConnect calls, reused when nothing is left of a call
  Capacity    \* tokio_mpsc_receiver_buffer

ASSUME CapacityAssumption == Capacity \in Nat \ {0}

VARIABLES
  tonic,      \* the flume channel: a sequence of requests
  enq,        \* number of payloads ever put into it
  task,       \* task[s]: where the spawned task of call s is
  cancelled,  \* cancelled[s]: the cancellation token of call s
  hand,       \* hand[s]: the request inside tx.send(..).await, if any
  buf,        \* buf[s]: the tokio channel
  body,       \* body[s]: tonic still owns the ReceiverStream of call s
  last,       \* last[s]: last payload tonic pulled from the body of s (history)
  delivered,  \* payloads pulled on some call (history)
  lost,       \* payloads dropped with a body or by a failed send (history)
  stray       \* stray[s]: requests taken by task s after its cancellation (history)

pipe == <<tonic, enq, task, cancelled, hand, buf, body, last, delivered, lost, stray>>

\* RelayConnectRequest.  Payloads are told apart by the order in which they
\* entered the channel, n = 1, 2, ...; the others carry n = 0.
Request ==
  [type : {"Payload"}, n : Nat \ {0}] \cup [type : {"ConnectRequest", "Heartbeat"}, n : {0}]

Numbers(q) == {q[i].n : i \in DOMAIN q} \ {0}

PipeTypeOK ==
  /\ tonic \in Seq(Request)
  /\ enq \in Nat
  /\ task \in [Streams -> {"none", "loop", "recv", "send"}]
  /\ cancelled \in [Streams -> BOOLEAN]
  /\ hand \in [Streams -> Seq(Request)]
  /\ buf \in [Streams -> Seq(Request)]
  /\ body \in [Streams -> BOOLEAN]
  /\ last \in [Streams -> Nat]
  /\ delivered \in SUBSET Nat
  /\ lost \in SUBSET Nat
  /\ stray \in [Streams -> Nat]

PipeInit ==
  /\ tonic = <<>>
  /\ enq = 0
  /\ task = [s \in Streams |-> "none"]
  /\ cancelled = [s \in Streams |-> FALSE]
  /\ hand = [s \in Streams |-> <<>>]
  /\ buf = [s \in Streams |-> <<>>]
  /\ body = [s \in Streams |-> FALSE]
  /\ last = [s \in Streams |-> 0]
  /\ delivered = {}
  /\ lost = {}
  /\ stray = [s \in Streams |-> 0]
-----------------------------------------------------------------------------
\* Mutant of Put: a payload gets the number before it is counted.
PutUncounted(type) ==
  /\ enq' = IF type = "Payload" THEN enq + 1 ELSE enq
  /\ tonic' = Append(tonic, [type |-> type, n |-> IF type = "Payload" THEN enq ELSE 0])
  /\ UNCHANGED <<task, cancelled, hand, buf, body, last, delivered, lost, stray>>

\* tonic_tx.send(request): an unbounded channel, never blocks.
Put(type) ==
  /\ enq' = IF type = "Payload" THEN enq + 1 ELSE enq
  /\ tonic' = Append(tonic, [type |-> type, n |-> IF type = "Payload" THEN enq + 1 ELSE 0])
  /\ UNCHANGED <<task, cancelled, hand, buf, body, last, delivered, lost, stray>>

\* new(tonic_rx.clone(), 4, token): a fresh tokio channel and its task.
New(s) ==
  /\ task[s] = "none" /\ ~body[s]
  /\ task' = [task EXCEPT ![s] = "loop"]
  /\ cancelled' = [cancelled EXCEPT ![s] = FALSE]
  /\ body' = [body EXCEPT ![s] = TRUE]
  /\ last' = [last EXCEPT ![s] = 0]
  /\ stray' = [stray EXCEPT ![s] = 0]
  /\ UNCHANGED <<tonic, enq, hand, buf, delivered, lost>>

\* cancellation_token.cancel() in run().
Cancel(s) ==
  /\ cancelled' = [cancelled EXCEPT ![s] = TRUE]
  /\ UNCHANGED <<tonic, enq, task, hand, buf, body, last, delivered, lost, stray>>

\* Mutant of CheckToken: the select! is not biased, the channel goes first.
CheckTokenLast(s) ==
  /\ task[s] = "loop" /\ (cancelled[s] \/ tonic # <<>>)
  /\ task' = [task EXCEPT ![s] = IF tonic = <<>> THEN "none" ELSE "recv"]
  /\ UNCHANGED <<tonic, enq, cancelled, hand, buf, body, last, delivered, lost, stray>>

\* The task's own steps.  The token is looked at first.  (A poll that would find
\* neither branch ready changes nothing and is left out: the task is asleep.)
CheckToken(s) ==
  /\ task[s] = "loop" /\ (cancelled[s] \/ tonic # <<>>)
  /\ task' = [task EXCEPT ![s] = IF cancelled[s] THEN "none" ELSE "recv"]
  /\ UNCHANGED <<tonic, enq, cancelled, hand, buf, body, last, delivered, lost, stray>>

\* Mutant of Recv: the token is looked at after the request has been taken.
RecvThenCheck(s) ==
  /\ task[s] = "recv" /\ tonic # <<>>
  /\ hand' = [hand EXCEPT ![s] = IF cancelled[s] THEN <<>> ELSE <<Head(tonic)>>]
  /\ tonic' = Tail(tonic)
  /\ task' = [task EXCEPT ![s] = IF cancelled[s] THEN "none" ELSE "send"]
  /\ UNCHANGED <<enq, cancelled, buf, body, last, delivered, lost, stray>>

\* flume_rx.recv_async() is ready.
Recv(s) ==
  /\ task[s] = "recv" /\ tonic # <<>>
  /\ hand' = [hand EXCEPT ![s] = <<Head(tonic)>>]
  /\ tonic' = Tail(tonic)
  /\ task' = [task EXCEPT ![s] = "send"]
  /\ stray' = [stray EXCEPT ![s] = IF cancelled[s] THEN @ + 1 ELSE @]
  /\ UNCHANGED <<enq, cancelled, buf, body, last, delivered, lost>>

\* Another task was faster: recv_async() is pending and the task goes to sleep.
Park(s) ==
  /\ task[s] = "recv" /\ tonic = <<>>
  /\ task' = [task EXCEPT ![s] = "loop"]
  /\ UNCHANGED <<tonic, enq, cancelled, hand, buf, body, last, delivered, lost, stray>>

\* Mutant of Push: the channel is not bounded.
PushUnbounded(s) ==
  /\ task[s] = "send" /\ body[s]
  /\ buf' = [buf EXCEPT ![s] = @ \o hand[s]]
  /\ hand' = [hand EXCEPT ![s] = <<>>]
  /\ task' = [task EXCEPT ![s] = "loop"]
  /\ UNCHANGED <<tonic, enq, cancelled, body, last, delivered, lost, stray>>

\* tx.send(msg) finds room.
Push(s) ==
  /\ task[s] = "send" /\ body[s] /\ Len(buf[s]) < Capacity
  /\ buf' = [buf EXCEPT ![s] = @ \o hand[s]]
  /\ hand' = [hand EXCEPT ![s] = <<>>]
  /\ task' = [task EXCEPT ![s] = "loop"]
  /\ UNCHANGED <<tonic, enq, cancelled, body, last, delivered, lost, stray>>

\* Mutant of SendErr: the request is not dropped but put back into the channel.
SendErrRequeue(s) ==
  /\ task[s] = "send" /\ ~body[s]
  /\ tonic' = tonic \o hand[s]
  /\ hand' = [hand EXCEPT ![s] = <<>>]
  /\ task' = [task EXCEPT ![s] = "none"]
  /\ UNCHANGED <<enq, cancelled, buf, body, last, delivered, lost, stray>>

\* Mutant of SendErr: the failure does not end the task.
SendErrGoesOn(s) ==
  /\ task[s] = "send" /\ ~body[s]
  /\ lost' = lost \cup Numbers(hand[s])
  /\ hand' = [hand EXCEPT ![s] = <<>>]
  /\ task' = [task EXCEPT ![s] = "loop"]
  /\ UNCHANGED <<tonic, enq, cancelled, buf, body, last, delivered, stray>>

\* tx.send(msg) fails because the body is gone: the request is dropped.
SendErr(s) ==
  /\ task[s] = "send" /\ ~body[s]
  /\ lost' = lost \cup Numbers(hand[s])
  /\ hand' = [hand EXCEPT ![s] = <<>>]
  /\ task' = [task EXCEPT ![s] = "none"]
  /\ UNCHANGED <<tonic, enq, cancelled, buf, body, last, delivered, stray>>

TaskStep(s) == CheckToken(s) \/ Recv(s) \/ Park(s) \/ Push(s) \/ SendErr(s)

\* Mutant of Pull: the request stays in the body after it has gone out.
PullPeek(s) ==
  /\ body[s] /\ buf[s] # <<>>
  /\ last' = [last EXCEPT ![s] = IF Head(buf[s]).type = "Payload" THEN Head(buf[s]).n ELSE @]
  /\ delivered' = delivered \cup ({Head(buf[s]).n} \ {0})
  /\ UNCHANGED <<tonic, enq, task, cancelled, hand, buf, body, lost, stray>>

\* tonic polls the body: the request goes out on the call.
Pull(s) ==
  /\ body[s] /\ buf[s] # <<>>
  /\ LET r == Head(buf[s]) IN
       /\ last' = [last EXCEPT ![s] = IF r.type = "Payload" THEN r.n ELSE @]
       /\ delivered' = delivered \cup ({r.n} \ {0})
  /\ buf' = [buf EXCEPT ![s] = Tail(@)]
  /\ UNCHANGED <<tonic, enq, task, cancelled, hand, body, lost, stray>>

\* tonic drops the body when the call is over; what it holds is gone.
DropBody(s) ==
  /\ body[s]
  /\ body' = [body EXCEPT ![s] = FALSE]
  /\ lost' = lost \cup Numbers(buf[s])
  /\ buf' = [buf EXCEPT ![s] = <<>>]
  /\ UNCHANGED <<tonic, enq, task, cancelled, hand, last, delivered, stray>>
-----------------------------------------------------------------------------
\* The discipline of run(): a call is only started once every earlier one has
\* been cancelled.
Start(s) ==
  /\ \A t \in Streams : task[t] = "none" \/ cancelled[t]
  /\ New(s)

PipeNext ==
  \/ \E type \in {"ConnectRequest", "Payload", "Heartbeat"} : Put(type)
  \/ \E s \in Streams :
       Start(s) \/ Cancel(s) \/ TaskStep(s) \/ Pull(s) \/ DropBody(s)

PipeSpec == PipeInit /\ [][PipeNext]_pipe
-----------------------------------------------------------------------------
\* The tokio channel never holds more than its capacity, and the task holds a
\* request exactly while it is inside tx.send(..).await.
Bounded ==
  \A s \in Streams :
    /\ Len(buf[s]) <= Capacity
    /\ Len(hand[s]) = IF task[s] = "send" THEN 1 ELSE 0
    /\ ~body[s] => buf[s] = <<>>

\* A cancelled task takes at most one more request out of the shared channel:
\* the one it was about to receive when the token was cancelled.
OneStray == \A s \in Streams : stray[s] <= 1

\* What call s still has to send if it lives on: its body, the request in the
\* task's hand, then the shared channel.
Ahead(s) == buf[s] \o hand[s] \o tonic

\* Every call sends its payloads in the order in which they entered tonic_tx,
\* and never one that it has sent before: what lies ahead is strictly
\* increasing and beyond what has left already.
StreamOrder ==
  \A s \in Streams :
    LET q == Ahead(s) IN
      /\ \A i \in DOMAIN q : q[i].n # 0 => last[s] < q[i].n /\ q[i].n <= enq
      /\ \A i, j \in DOMAIN q : i < j /\ q[i].n # 0 /\ q[j].n # 0 => q[i].n < q[j].n

Held(q, n) == {i \in DOMAIN q : q[i].n = n}

Places(n) ==
  {<<"tonic", i>> : i \in Held(tonic, n)}
    \cup (UNION {{<<"hand", s, i>> : i \in Held(hand[s], n)} : s \in Streams})
    \cup (UNION {{<<"buf", s, i>> : i \in Held(buf[s], n)} : s \in Streams})
    \cup (IF n \in delivered THEN {<<"delivered">>} ELSE {})
    \cup (IF n \in lost THEN {<<"lost">>} ELSE {})

\* A payload handed to tonic_tx is at every moment in exactly one place: no
\* interleaving of a dying task with its successor duplicates or forgets one.
PayloadsConserved == \A n \in 1 .. enq : Cardinality(Places(n)) = 1

\* The tasks, the channels and the bodies together implement a lossy FIFO.
Fifo == INSTANCE LossyFifo
ImplementsLossyFifo == Fifo!Spec
=============================================================================
