------------------------ MODULE ReceiverStreamProofs ------------------------
(* What holds of the forwarding tasks for any number of calls, any capacity   *)
(* and any number of requests.                                                *)
EXTENDS ReceiverStream, TLAPS

\* What a new request looks like.
LEMMA PutRequest ==
  ASSUME enq \in Nat, NEW type \in {"ConnectRequest", "Payload", "Heartbeat"}
  PROVE  [type |-> type, n |-> IF type = "Payload" THEN enq + 1 ELSE 0] \in Request
<1>1. CASE type = "Payload"
  BY <1>1 DEF Request
<1>2. CASE type # "Payload"
  BY <1>2 DEF Request
<1> QED
  BY <1>1, <1>2

\* Every step keeps the channels, the tasks and the histories within their types.
LEMMA TypeStep ==
  ASSUME PipeTypeOK, [PipeNext]_pipe
  PROVE  PipeTypeOK'
<1> USE DEF PipeTypeOK
<1>1. ASSUME NEW type \in {"ConnectRequest", "Payload", "Heartbeat"}, Put(type)
      PROVE  PipeTypeOK'
  <2>1. [type |-> type, n |-> IF type = "Payload" THEN enq + 1 ELSE 0] \in Request
    BY PutRequest
  <2>2. tonic' \in Seq(Request)
    BY <2>1, <1>1 DEF Put
  <2> QED
    BY <2>2, <1>1 DEF Put
<1>2. ASSUME NEW s \in Streams, New(s)
      PROVE  PipeTypeOK'
  BY <1>2 DEF New
<1>3. ASSUME NEW s \in Streams, Cancel(s)
      PROVE  PipeTypeOK'
  BY <1>3 DEF Cancel
<1>4. ASSUME NEW s \in Streams, CheckToken(s)
      PROVE  PipeTypeOK'
  BY <1>4 DEF CheckToken
<1>5. ASSUME NEW s \in Streams, Recv(s)
      PROVE  PipeTypeOK'
  <2>1. Head(tonic) \in Request /\ Tail(tonic) \in Seq(Request)
    BY <1>5 DEF Recv
  <2>2. <<Head(tonic)>> \in Seq(Request)
    BY <2>1
  <2>3. hand' \in [Streams -> Seq(Request)] /\ tonic' \in Seq(Request)
    BY <2>1, <2>2, <1>5 DEF Recv
  <2> QED
    BY <2>3, <1>5 DEF Recv
<1>6. ASSUME NEW s \in Streams, Park(s)
      PROVE  PipeTypeOK'
  BY <1>6 DEF Park
<1>7. ASSUME NEW s \in Streams, Push(s)
      PROVE  PipeTypeOK'
  <2>1. buf[s] \o hand[s] \in Seq(Request) /\ <<>> \in Seq(Request)
    OBVIOUS
  <2> QED
    BY <2>1, <1>7 DEF Push
<1>8. ASSUME NEW q \in Seq(Request)
      PROVE  Numbers(q) \in SUBSET Nat
  BY DEF Numbers, Request
<1>9. ASSUME NEW s \in Streams, SendErr(s)
      PROVE  PipeTypeOK'
  <2>1. Numbers(hand[s]) \in SUBSET Nat
    BY <1>8
  <2>2. <<>> \in Seq(Request)
    OBVIOUS
  <2> QED
    BY <2>1, <2>2, <1>9 DEF SendErr
<1>10. ASSUME NEW s \in Streams, Pull(s)
       PROVE  PipeTypeOK'
  <2>1. Head(buf[s]) \in Request /\ Tail(buf[s]) \in Seq(Request)
    BY <1>10 DEF Pull
  <2>2. Head(buf[s]).n \in Nat
    BY <2>1 DEF Request
  <2> QED
    BY <2>1, <2>2, <1>10 DEF Pull
<1>11. ASSUME NEW s \in Streams, DropBody(s)
       PROVE  PipeTypeOK'
  <2>1. Numbers(buf[s]) \in SUBSET Nat
    BY <1>8
  <2>2. <<>> \in Seq(Request)
    OBVIOUS
  <2> QED
    BY <2>1, <2>2, <1>11 DEF DropBody
<1>12. CASE UNCHANGED pipe
  BY <1>12 DEF pipe
<1> QED
  BY <1>1, <1>2, <1>3, <1>4, <1>5, <1>6, <1>7, <1>9, <1>10, <1>11, <1>12
     DEF PipeNext, Start, TaskStep

\* Type correctness of the pipe, for every set of calls and every capacity.
THEOREM PipeTypeCorrect == PipeSpec => []PipeTypeOK
<1>1. PipeInit => PipeTypeOK
  BY DEF PipeInit, PipeTypeOK
<1>2. PipeTypeOK /\ [PipeNext]_pipe => PipeTypeOK'
  BY TypeStep
<1> QED
  BY <1>1, <1>2, PTL DEF PipeSpec
-----------------------------------------------------------------------------
(* The bound of the tokio channel. *)

\* One step cannot push a request beyond the capacity, nor leave one in the hand
\* of a task that is not sending, nor in a body that is gone.
LEMMA BoundedStep ==
  ASSUME PipeTypeOK, Bounded, [PipeNext]_pipe
  PROVE  Bounded'
<1> USE CapacityAssumption DEF PipeTypeOK, Bounded
<1>1. ASSUME NEW s \in Streams, New(s)
      PROVE  Bounded'
  BY <1>1 DEF New
<1>2. ASSUME NEW s \in Streams, CheckToken(s) \/ Park(s)
      PROVE  Bounded'
  BY <1>2 DEF CheckToken, Park
<1>3. ASSUME NEW s \in Streams, Recv(s)
      PROVE  Bounded'
  <2>1. Len(<<Head(tonic)>>) = 1
    OBVIOUS
  <2> QED
    BY <2>1, <1>3 DEF Recv
<1>4. ASSUME NEW s \in Streams, Push(s)
      PROVE  Bounded'
  <2>1. Len(hand[s]) = 1 /\ Len(buf[s] \o hand[s]) = Len(buf[s]) + Len(hand[s])
    BY <1>4 DEF Push
  <2>2. Len(buf[s] \o hand[s]) <= Capacity
    BY <2>1, <1>4 DEF Push
  <2>3. buf'[s] = buf[s] \o hand[s] /\ hand'[s] = <<>> /\ task'[s] = "loop" /\ body'[s]
    BY <1>4 DEF Push
  <2>4. \A t \in Streams \ {s} :
          buf'[t] = buf[t] /\ hand'[t] = hand[t] /\ task'[t] = task[t] /\ body'[t] = body[t]
    BY <1>4 DEF Push
  <2>5. ASSUME NEW t \in Streams
        PROVE  /\ Len(buf'[t]) <= Capacity
               /\ Len(hand'[t]) = IF task'[t] = "send" THEN 1 ELSE 0
               /\ ~body'[t] => buf'[t] = <<>>
    <3>1. CASE t = s
      BY <2>2, <2>3, <3>1
    <3>2. CASE t # s
      BY <2>4, <3>2
    <3> QED
      BY <3>1, <3>2
  <2> QED
    BY <2>5
<1>5. ASSUME NEW s \in Streams, SendErr(s)
      PROVE  Bounded'
  BY <1>5 DEF SendErr
<1>6. ASSUME NEW s \in Streams, Pull(s)
      PROVE  Bounded'
  <2>1. Len(Tail(buf[s])) <= Capacity
    BY <1>6 DEF Pull
  <2> QED
    BY <2>1, <1>6 DEF Pull
<1>7. ASSUME NEW s \in Streams, DropBody(s)
      PROVE  Bounded'
  <2>1. Len(<<>>) <= Capacity
    OBVIOUS
  <2> QED
    BY <2>1, <1>7 DEF DropBody
<1>8. ASSUME NEW type, Put(type)
      PROVE  Bounded'
  BY <1>8 DEF Put
<1>9. ASSUME NEW s \in Streams, Cancel(s)
      PROVE  Bounded'
  BY <1>9 DEF Cancel
<1>10. CASE UNCHANGED pipe
  BY <1>10 DEF pipe
<1> QED
  BY <1>1, <1>2, <1>3, <1>4, <1>5, <1>6, <1>7, <1>8, <1>9, <1>10
     DEF PipeNext, Start, TaskStep

\* The body of a call never holds more than tokio_mpsc_receiver_buffer requests, and
\* its task one more exactly while it is sending.
THEOREM PipeBounded == PipeSpec => []Bounded
<1>1. PipeInit => Bounded
  BY CapacityAssumption DEF PipeInit, Bounded
<1>2. PipeTypeOK /\ Bounded /\ [PipeNext]_pipe => Bounded'
  BY BoundedStep
<1> QED
  BY <1>1, <1>2, PipeTypeCorrect, PTL DEF PipeSpec
-----------------------------------------------------------------------------
(* What a cancelled task can still take. *)

\* OneStray made inductive: a task that has taken its one request after the
\* cancellation is past the receive, and meets the token before the next.
StrayInv ==
  \A s \in Streams :
    /\ stray[s] <= 1
    /\ stray[s] = 1 => cancelled[s] /\ task[s] # "recv"

\* Only a receive after the cancellation counts, and the task cannot come back to
\* one: the token is the first thing each round of the loop looks at.
LEMMA StrayStep ==
  ASSUME PipeTypeOK, StrayInv, [PipeNext]_pipe
  PROVE  StrayInv'
<1> USE DEF PipeTypeOK, StrayInv
<1>1. ASSUME NEW s \in Streams, New(s)
      PROVE  StrayInv'
  BY <1>1 DEF New
<1>2. ASSUME NEW s \in Streams, CheckToken(s)
      PROVE  StrayInv'
  BY <1>2 DEF CheckToken
<1>3. ASSUME NEW s \in Streams, Recv(s)
      PROVE  StrayInv'
  <2>1. stray[s] = 0
    BY <1>3 DEF Recv
  <2> QED
    BY <2>1, <1>3 DEF Recv
<1>4. ASSUME NEW s \in Streams, Park(s) \/ Push(s) \/ SendErr(s)
      PROVE  StrayInv'
  BY <1>4 DEF Park, Push, SendErr
<1>5. ASSUME NEW s \in Streams, Cancel(s)
      PROVE  StrayInv'
  BY <1>5 DEF Cancel
<1>6. ASSUME NEW s \in Streams, Pull(s) \/ DropBody(s)
      PROVE  StrayInv'
  BY <1>6 DEF Pull, DropBody
<1>7. ASSUME NEW type, Put(type)
      PROVE  StrayInv'
  BY <1>7 DEF Put
<1>8. CASE UNCHANGED pipe
  BY <1>8 DEF pipe
<1> QED
  BY <1>1, <1>2, <1>3, <1>4, <1>5, <1>6, <1>7, <1>8 DEF PipeNext, Start, TaskStep

\* A forwarding task takes at most one request from the shared channel after its
\* token is cancelled, however slow it is and however many calls follow.
THEOREM AtMostOneStray == PipeSpec => []OneStray
<1>1. PipeInit => StrayInv
  BY DEF PipeInit, StrayInv
<1>2. PipeTypeOK /\ StrayInv /\ [PipeNext]_pipe => StrayInv'
  BY StrayStep
<1>3. StrayInv => OneStray
  BY DEF StrayInv, OneStray
<1> QED
  BY <1>1, <1>2, <1>3, PipeTypeCorrect, PTL DEF PipeSpec
=============================================================================
