--------------------------- MODULE PipeLossProofs ---------------------------
(***************************************************************************)
(* Proofs about PipeLoss: what the request pipe loses with one call.       *)
(***************************************************************************)
EXTENDS PipeLoss, ReceiverStreamProofs, TLAPS

\* While a call has its body it has lost nothing; while its task lives, what the body held
\* is lost at most, and the request in the hand of the task may follow.
LossInv ==
  /\ gone \in [Streams -> Nat]
  /\ \A s \in Streams :
       /\ body[s] => gone[s] = 0
       /\ task[s] # "none" => gone[s] <= Capacity
       /\ gone[s] <= Capacity + 1

LEMMA LossIsPipe == LossSpec => PipeSpec
<1>1. LossInit => PipeInit
  BY DEF LossInit
<1>2. [LossNext]_<<pipe, gone>> => [PipeNext]_pipe
  BY DEF LossNext
<1> QED
  BY <1>1, <1>2, PTL DEF LossSpec, PipeSpec

\* A call which loses nothing in this step.
LEMMA LossKept ==
  ASSUME LossInv, CountLoss, NEW s \in Streams, body'[s] = body[s],
         task'[s] # "none" => task[s] # "none",
         task[s] = "send" => body[s] \/ task'[s] = "send"
  PROVE  /\ gone'[s] \in Nat
         /\ body'[s] => gone'[s] = 0
         /\ task'[s] # "none" => gone'[s] <= Capacity
         /\ gone'[s] <= Capacity + 1
<1>1. gone'[s] = gone[s]
  BY DEF CountLoss, LossInv, Reused, WithBody, InHand
<1> QED
  BY <1>1 DEF LossInv

LEMMA LossStep ==
  ASSUME PipeTypeOK, Bounded, LossInv, LossNext
  PROVE  LossInv'
<1> DEFINE Fits(s) == /\ gone'[s] \in Nat
                      /\ body'[s] => gone'[s] = 0
                      /\ task'[s] # "none" => gone'[s] <= Capacity
                      /\ gone'[s] <= Capacity + 1
<1>1. CountLoss /\ PipeNext /\ DOMAIN gone' = Streams /\ gone' = [s \in Streams |-> gone'[s]]
  BY DEF LossNext, CountLoss
<1>2. SUFFICES \A s \in Streams : Fits(s)
  BY <1>1 DEF LossInv
<1>3. ASSUME UNCHANGED <<body, task>>
      PROVE  \A s \in Streams : Fits(s)
  BY <1>1, <1>3, LossKept
<1>4. ASSUME NEW t \in Streams, New(t)
      PROVE  \A s \in Streams : Fits(s)
  <2>1. /\ ~body[t] /\ body'[t]
        /\ \A s \in Streams \ {t} : body'[s] = body[s] /\ task'[s] = task[s]
    BY <1>4 DEF New, PipeTypeOK
  <2>2. Fits(t)
    <3>1. gone'[t] = 0
      BY <1>1, <2>1 DEF CountLoss, Reused
    <3> QED
      BY <3>1, CapacityAssumption
  <2>3. \A s \in Streams \ {t} : Fits(s)
    BY <1>1, <2>1, LossKept
  <2> QED
    BY <2>2, <2>3
<1>5. ASSUME NEW t \in Streams, DropBody(t)
      PROVE  \A s \in Streams : Fits(s)
  <2>1. /\ task' = task /\ body[t] /\ ~body'[t]
        /\ \A s \in Streams \ {t} : body'[s] = body[s]
    BY <1>5 DEF DropBody, PipeTypeOK
  <2>2. Fits(t)
    <3>1. Len(buf[t]) \in Nat /\ Len(buf[t]) <= Capacity
      BY DEF Bounded, PipeTypeOK
    <3>2. gone[t] = 0
      BY <2>1 DEF LossInv
    <3>3. gone'[t] = Len(buf[t])
      <4>1. ~Reused(t) /\ InHand(t) = 0 /\ WithBody(t) = Len(buf[t])
        BY <2>1 DEF Reused, InHand, WithBody
      <4> QED
        BY <1>1, <3>1, <3>2, <4>1 DEF CountLoss
    <3> QED
      BY <2>1, <3>1, <3>3, CapacityAssumption
  <2>3. \A s \in Streams \ {t} : Fits(s)
    BY <1>1, <2>1, LossKept
  <2> QED
    BY <2>2, <2>3
<1>6. ASSUME NEW t \in Streams, SendErr(t)
      PROVE  \A s \in Streams : Fits(s)
  <2>1. /\ body' = body /\ ~body[t] /\ task[t] = "send" /\ task'[t] = "none"
        /\ \A s \in Streams \ {t} : task'[s] = task[s]
    BY <1>6 DEF SendErr, PipeTypeOK
  <2>2. Fits(t)
    <3>1. Len(hand[t]) = 1
      BY <2>1 DEF Bounded
    <3>2. gone[t] \in Nat /\ gone[t] <= Capacity
      BY <2>1 DEF LossInv
    <3>3. gone'[t] = gone[t] + 1
      <4>1. ~Reused(t) /\ InHand(t) = 1 /\ WithBody(t) = 0
        BY <2>1, <3>1 DEF Reused, InHand, WithBody
      <4> QED
        BY <1>1, <3>2, <4>1 DEF CountLoss
    <3> QED
      BY <2>1, <3>2, <3>3, CapacityAssumption
  <2>3. \A s \in Streams \ {t} : Fits(s)
    BY <1>1, <2>1, LossKept
  <2> QED
    BY <2>2, <2>3
<1>7. ASSUME NEW t \in Streams, CheckToken(t) \/ Recv(t) \/ Park(t) \/ Push(t)
      PROVE  \A s \in Streams : Fits(s)
  <2>1. /\ body' = body /\ task[t] # "none" /\ (task[t] = "send" => body[t])
        /\ \A s \in Streams \ {t} : task'[s] = task[s]
    BY <1>7 DEF CheckToken, Recv, Park, Push, PipeTypeOK
  <2> QED
    BY <1>1, <2>1, LossKept
<1>8. ASSUME NEW t \in Streams, Cancel(t) \/ Pull(t)
      PROVE  \A s \in Streams : Fits(s)
  BY <1>3, <1>8 DEF Cancel, Pull
<1>9. ASSUME NEW type \in {"ConnectRequest", "Payload", "Heartbeat"}, Put(type)
      PROVE  \A s \in Streams : Fits(s)
  BY <1>3, <1>9 DEF Put
<1> QED
  BY <1>1, <1>4, <1>5, <1>6, <1>7, <1>8, <1>9 DEF PipeNext, TaskStep, Start

\* For any number of calls and any capacity: no call loses more than its body and its task
\* can hold.
THEOREM PipeLossBounded == LossSpec => []LossBounded
<1>1. LossInit => LossInv
  BY CapacityAssumption DEF LossInit, PipeInit, LossInv
<1>2. ASSUME PipeTypeOK, Bounded, LossInv, [LossNext]_<<pipe, gone>>
      PROVE  LossInv'
  <2>1. CASE UNCHANGED <<pipe, gone>>
    BY <1>2, <2>1 DEF LossInv, pipe
  <2> QED
    BY <1>2, <2>1, LossStep
<1>3. LossInv => LossBounded
  BY DEF LossInv, LossBounded
<1> QED
  BY <1>1, <1>2, <1>3, LossIsPipe, PipeTypeCorrect, PipeBounded, PTL DEF LossSpec
=============================================================================
