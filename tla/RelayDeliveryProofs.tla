------------------------ MODULE RelayDeliveryProofs ------------------------
(***************************************************************************)
(* Proofs about RelayDelivery: its variables keep to their types, nothing  *)
(* registered is forgotten, an AtMostOnce message is sent once, and the    *)
(* detailed specification implements DeliveryPromise; from the promise     *)
(* follows what a client can rely on if it does not use reply().           *)
(***************************************************************************)
EXTENDS RelayDelivery, SequenceTheorems, TLAPS

Waits == {"WaitForAck", "WaitForReply"}

\* The order in which the messages of one call go through the actor's queue.
Rank(m) == IF m.type = "Send" THEN 0 ELSE IF m.type \in Waits THEN 1 ELSE 2

\* A message in the queue is about a call that has been made and that is where the
\* message takes it from.
QueuedFits(m) ==
  m.type # "Stop" =>
    /\ pc[m.call] # "idle"
    /\ m.type = "Send" => attempts[m.call] = 0
    /\ m.type = "Send" /\ alive =>
         \/ pc[m.call] \in {"posted", "waiting", "dropped"}
         \/ pc[m.call] = "ok" /\ Promise!Immediate(msg[m.call])
    /\ m.type \in Waits /\ alive => pc[m.call] \in {"waiting", "dropped"}
    /\ m.type \in {"Send"} \cup Waits => timer[m.call] = "none" /\ ~Registered(m.call)
    /\ m.type \in {"RetryAck", "RetryAsk"} => timer[m.call] = "queued"
    /\ m.type \in {"WaitForAck", "RetryAck"} =>
         msg[m.call].kind # "ask" /\ msg[m.call].qos = "AtLeastOnce"
    /\ m.type \in {"WaitForReply", "RetryAsk"} => msg[m.call].kind = "ask"

QueueFits == \A i \in DOMAIN actor : QueuedFits(actor[i])

QueueInOrder ==
  \A i, j \in DOMAIN actor :
    i < j /\ actor[i].type # "Stop" /\ actor[j].type # "Stop" /\ actor[i].call = actor[j].call =>
      Rank(actor[i]) < Rank(actor[j])

CallFits(c) ==
  /\ pc[c] = "idle" => attempts[c] = 0 /\ left[c] = 0 /\ timer[c] = "none" /\ ~Registered(c)
  /\ pc[c] = "posted" =>
       /\ timer[c] = "none" /\ ~Registered(c)
       /\ \A i \in DOMAIN actor : actor[i].call = c => actor[i].type = "Send"
  /\ pc[c] \in {"posted", "waiting"} \/ timer[c] # "none" => ~Promise!Immediate(msg[c])
  /\ pc[c] # "idle" /\ msg[c].kind # "reply" => msg[c].seq < seq
  /\ msg[c].qos = "AtMostOnce" => attempts[c] <= 1 /\ left[c] = 0

CallsFit == \A c \in Calls : CallFits(c)

\* Calls of send() and ask() have numbers of their own.
OwnNumbers ==
  \A c, d \in Calls :
    /\ pc[c] # "idle" /\ msg[c].kind # "reply"
    /\ pc[d] # "idle" /\ msg[d].kind # "reply"
    /\ msg[c].seq = msg[d].seq
    => c = d

RegisteredFits(c) == alive /\ pc[c] \in {"waiting", "dropped"}

RegistrationsFit ==
  /\ \A n \in Seqs : pendingAcks[n] # NoCall =>
       LET c == pendingAcks[n] IN
         RegisteredFits(c) /\ msg[c].kind # "ask" /\ msg[c].qos = "AtLeastOnce" /\ msg[c].seq = n
  /\ \A k \in Peers \X Seqs : pendingReplies[k] # NoCall =>
       LET c == pendingReplies[k] IN
         RegisteredFits(c) /\ msg[c].kind = "ask" /\ <<msg[c].to, msg[c].seq>> = k

ResponseFits(m) ==
  /\ m.type = "Ack" => \E d \in relayGot : msg[d].seq = m.seq
  /\ m.type = "Payload" /\ m.payload.re = NoCall => m.payload.seq < peerSeq[m.payload.from]
  /\ m.type = "Payload" /\ m.payload.re # NoCall =>
       LET d == m.payload.re IN
         d \in relayGot /\ msg[d].kind = "ask"
           /\ msg[d].to = m.payload.from /\ msg[d].seq = m.payload.seq

NetFits ==
  /\ \A i \in DOMAIN out : pc[out[i]] # "idle" /\ attempts[out[i]] > 0
  /\ \A c \in relayGot : pc[c] # "idle"
  /\ \A c \in atPeer : c \in relayGot /\ msg[c].kind = "ask"
  /\ \A i \in DOMAIN resp : ResponseFits(resp[i])

DeliveryInv ==
  /\ QueueFits /\ QueueInOrder /\ CallsFit /\ OwnNumbers /\ RegistrationsFit /\ NetFits
-----------------------------------------------------------------------------
(* Types *)

LEMMA AmountDecrement == \A a \in Amount : Decrement(a) \in Amount
BY DEF Amount, Decrement, Infinite

\* A new message of the API.
LEMMA TypePost ==
  ASSUME TypeOK, NEW c \in Calls, NEW m \in Message, Post(c, m), seq' \in Seqs
  PROVE  TypeOK'
<1>1. [type |-> "Send", call |-> c] \in Msg
  BY DEF Msg
<1> QED
  BY <1>1 DEF TypeOK, Post, Tell, state, conn, peer

\* The rest of the API.
LEMMA TypeApi ==
  ASSUME TypeOK, NEW c \in Calls, Register(c) \/ Abandon(c) \/ ClientStop
  PROVE  TypeOK'
<1>1. /\ [type |-> "WaitForReply", call |-> c] \in Msg
      /\ [type |-> "WaitForAck", call |-> c] \in Msg
      /\ [type |-> "Stop", call |-> NoCall] \in Msg
  BY DEF Msg
<1>2. CASE Register(c)
  <2>1. /\ pc' \in [Calls -> {"idle", "posted", "waiting", "ok", "err", "dropped"}]
        /\ actor' \in Seq(Msg)
    <3>1. CASE alive
      <4>1. actor' = Append(actor, [type |-> "WaitForReply", call |-> c])
              \/ actor' = Append(actor, [type |-> "WaitForAck", call |-> c])
        BY <1>2, <3>1 DEF Register, Tell
      <4>2. PICK w \in Msg : actor' = Append(actor, w)
        BY <1>1, <4>1
      <4>3. pc' = [pc EXCEPT ![c] = "waiting"]
        BY <1>2, <3>1 DEF Register
      <4> QED
        BY <4>2, <4>3 DEF TypeOK
    <3>2. CASE ~alive
      BY <1>2, <3>2 DEF TypeOK, Register
    <3> QED
      BY <3>1, <3>2
  <2> QED
    BY <1>2, <2>1 DEF TypeOK, Register, state, conn, peer
<1>3. CASE Abandon(c)
  BY <1>3 DEF TypeOK, Abandon, state, conn, peer
<1>4. CASE ClientStop
  BY <1>1, <1>4 DEF TypeOK, ClientStop, Tell, api, state, conn, peer
<1> QED
  BY <1>2, <1>3, <1>4

\* A message taken from the queue.
LEMMA TypeHandleActor ==
  ASSUME TypeOK, HandleActor
  PROVE  TypeOK'
<1> DEFINE m == Head(actor)
<1>1. /\ m \in Msg /\ Handle(m) /\ actor' \in Seq(Msg)
      /\ UNCHANGED <<polled, resp, peer, inbox>>
  BY DEF HandleActor, TypeOK
<1>2. /\ m.type \in {"Send", "WaitForAck", "WaitForReply", "RetryAck", "RetryAsk", "Stop"}
      /\ m.type # "Stop" => m.call \in Calls
  BY <1>1 DEF Msg
<1> HIDE DEF m
<1>3. \A c \in Calls : msg[c].seq \in Seqs /\ <<msg[c].to, msg[c].seq>> \in Peers \X Seqs
  BY DEF TypeOK, Message
<1>4. MaxMessageAttempts \in Amount /\ Decrement(MaxMessageAttempts) \in Amount /\ 0 \in Amount
  BY BoundsAssumption, AmountDecrement DEF Amount
<1>5. \A n \in 0 .. AttemptCap : Bump(n) \in 0 .. AttemptCap
  BY BoundsAssumption DEF Bump
<1>6. ASSUME NEW d PROVE Overwrite(d) \in [Calls -> {"idle", "posted", "waiting", "ok", "err", "dropped"}]
  BY DEF TypeOK, Overwrite
<1> USE DEF conn, peer
<1>7. CASE m.type = "Send"
  <2>1. HandleSend(m.call) /\ m.call \in Calls
    BY <1>1, <1>2, <1>7 DEF Handle
  <2>2. out' \in Seq(Calls) /\ attempts' \in [Calls -> 0 .. AttemptCap]
    BY <1>5, <2>1 DEF HandleSend, Transmit, TypeOK
  <2> QED
    BY <1>1, <2>1, <2>2 DEF HandleSend, TypeOK, api
<1>8. CASE m.type = "WaitForAck"
  <2>1. HandleWaitForAck(m.call) /\ m.call \in Calls
    BY <1>1, <1>2, <1>8 DEF Handle
  <2>2. /\ pendingAcks' \in [Seqs -> Calls \cup {NoCall}]
        /\ timer' \in [Calls -> {"none", "sleeping", "queued"}] /\ left' \in [Calls -> Amount]
    BY <1>3, <1>4, <2>1 DEF HandleWaitForAck, Spawn, TypeOK
  <2> QED
    BY <1>1, <1>6, <2>1, <2>2 DEF HandleWaitForAck, TypeOK
<1>9. CASE m.type = "WaitForReply"
  <2> DEFINE c == m.call
             key == <<msg[c].to, msg[c].seq>>
  <2>1. key \in Peers \X Seqs /\ c \in Calls
    BY <1>2, <1>3, <1>9
  <2>2. HandleWaitForReply(c)
    BY <1>1, <1>9 DEF Handle
  <2>3. /\ pc' = Overwrite(pendingReplies[key])
        /\ pendingReplies' = [pendingReplies EXCEPT ![key] = c]
        /\ \E n \in Amount : Spawn(c, n)
        /\ UNCHANGED <<seq, msg, result, pendingAcks, attempts, out, conn>>
    BY <1>4, <2>2 DEF HandleWaitForReply
  <2> HIDE DEF c, key
  <2> QED
    BY <1>1, <1>6, <2>1, <2>3 DEF Spawn, TypeOK
<1>10. ASSUME NEW c \in Calls, NEW d \in Calls \cup {NoCall}, Retry(c, d)
       PROVE  TypeOK'
  <2>1. /\ timer' \in [Calls -> {"none", "sleeping", "queued"}] /\ left' \in [Calls -> Amount]
        /\ out' \in Seq(Calls) /\ attempts' \in [Calls -> 0 .. AttemptCap]
        /\ UNCHANGED <<api, pendingAcks, pendingReplies, conn>>
    <3>1. CASE d = NoCall \/ IsZero(left[c])
      BY <1>10, <3>1 DEF Retry, TypeOK
    <3>2. CASE ~(d = NoCall \/ IsZero(left[c]))
      <4>1. /\ d \in Calls /\ Transmit(d) /\ Spawn(c, Decrement(MaxMessageAttempts))
            /\ UNCHANGED <<api, pendingAcks, pendingReplies, conn>>
        BY <1>10, <3>2 DEF Retry
      <4>2. out' \in Seq(Calls) /\ attempts' \in [Calls -> 0 .. AttemptCap]
        BY <1>5, <4>1 DEF Transmit, TypeOK
      <4>3. timer' \in [Calls -> {"none", "sleeping", "queued"}] /\ left' \in [Calls -> Amount]
        BY <1>4, <4>1 DEF Spawn, TypeOK
      <4> QED
        BY <4>1, <4>2, <4>3
    <3> QED
      BY <3>1, <3>2
  <2> QED
    BY <1>1, <2>1 DEF TypeOK, api
<1>11. CASE m.type = "RetryAck"
  BY <1>1, <1>2, <1>3, <1>10, <1>11 DEF Handle, HandleRetryAck, TypeOK
<1>12. CASE m.type = "RetryAsk"
  BY <1>1, <1>2, <1>3, <1>10, <1>12 DEF Handle, HandleRetryAsk, TypeOK
<1>13. CASE m.type = "Stop"
  BY <1>1, <1>2, <1>13 DEF Handle, Gone, TypeOK
<1> QED
  BY <1>2, <1>7, <1>8, <1>9, <1>11, <1>12, <1>13

\* The rest of the actor.
LEMMA TypeActor ==
  ASSUME TypeOK, PollActor \/ HandleAck \/ HandlePayload
  PROVE  TypeOK'
<1> USE DEF api, state, conn, peer
<1>1. CASE PollActor
  BY <1>1 DEF PollActor, TypeOK
<1>2. CASE HandleAck
  <2>1. Head(resp) \in Response /\ resp' \in Seq(Response)
    BY <1>2 DEF HandleAck, TypeOK
  <2>2. Head(resp).seq \in Seqs
    BY <1>2, <2>1 DEF HandleAck, Response
  <2>3. /\ pendingAcks' \in [Seqs -> Calls \cup {NoCall}]
        /\ pc' \in [Calls -> {"idle", "posted", "waiting", "ok", "err", "dropped"}]
    BY <1>2, <2>2 DEF HandleAck, TypeOK
  <2> QED
    BY <1>2, <2>1, <2>3 DEF HandleAck, TypeOK
<1>3. CASE HandlePayload
  <2> DEFINE r == Head(resp).payload
             key == <<r.from, r.seq>>
             d == pendingReplies[key]
  <2>1. r \in Payload /\ resp' \in Seq(Response)
    BY <1>3 DEF HandlePayload, TypeOK, Response
  <2>2. r.re \in Calls \cup {NoCall} /\ key \in Peers \X Seqs
    BY <2>1 DEF Payload
  <2>3. /\ pendingReplies' = [pendingReplies EXCEPT ![key] = NoCall]
        /\ pc' = [c \in Calls |-> IF c = d /\ pc[c] = "waiting" THEN "ok" ELSE pc[c]]
        /\ result' = [c \in Calls |-> IF c = d /\ pc[c] = "waiting" THEN r.re ELSE result[c]]
        /\ inbox' = IF d = NoCall THEN inbox \cup {r} ELSE inbox
        /\ polled' = FALSE
        /\ UNCHANGED <<seq, msg, actor, pendingAcks, timer, left, attempts, conn, out, peer>>
    BY <1>3 DEF HandlePayload
  <2> HIDE DEF r, key, d
  <2> QED
    BY <2>1, <2>2, <2>3 DEF TypeOK
<1> QED
  BY <1>1, <1>2, <1>3

\* The connection, the relay, the peers and the timers.
LEMMA TypeWorld ==
  ASSUME TypeOK, World
  PROVE  TypeOK'
<1> USE DEF api, state, conn, peer
<1>1. CASE Connected
  BY <1>1 DEF Connected, TypeOK
<1>2. CASE Disconnect
  <2>1. losses' \in Amount
    BY <1>2, AmountDecrement DEF Disconnect, TypeOK
  <2>2. out' \in Seq(Calls) /\ resp' \in Seq(Response)
    BY <1>2 DEF Disconnect, TypeOK
  <2>3. strays' \in Nat
    <3>1. strays \in Nat /\ strays' = strays + 1
      BY <1>2 DEF Disconnect, TypeOK
    <3> QED
      BY <3>1
  <2>4. up' \in BOOLEAN /\ polled' \in BOOLEAN
    BY <1>2 DEF Disconnect
  <2>5. UNCHANGED <<api, actor, state, alive, peer, inbox>>
    BY <1>2 DEF Disconnect
  <2> QED
    BY <2>1, <2>2, <2>3, <2>4, <2>5 DEF TypeOK
<1>8. CASE Stray
  <2>1. out \in Seq(Calls) /\ strays \in Nat
    BY DEF TypeOK
  <2>2. PICK i \in DOMAIN out : out' = SubSeq(out, 1, i - 1) \o SubSeq(out, i + 1, Len(out))
    BY <1>8 DEF Stray
  <2>3. SubSeq(out, 1, i - 1) \in Seq(Calls) /\ SubSeq(out, i + 1, Len(out)) \in Seq(Calls)
    BY <2>1
  <2>4. strays' \in Nat
    <3>1. strays > 0 /\ strays' = strays - 1
      BY <1>8 DEF Stray
    <3> QED
      BY <2>1, <3>1
  <2>5. UNCHANGED <<api, actor, state, polled, alive, up, losses, resp, peer, inbox>>
    BY <1>8 DEF Stray
  <2>6. out' \in Seq(Calls)
    BY <2>2, <2>3
  <2> QED
    BY <2>4, <2>5, <2>6 DEF TypeOK
<1>3. CASE ConnectionFailed
  BY <1>3 DEF ConnectionFailed, Gone, TypeOK
<1>4. CASE RelayTake
  <2>1. Head(out) \in Calls /\ msg[Head(out)].seq \in Seqs
    BY <1>4 DEF RelayTake, TypeOK, Message
  <2>2. [type |-> "Ack", seq |-> msg[Head(out)].seq] \in Response
    BY <2>1 DEF Response
  <2> QED
    BY <1>4, <2>1, <2>2 DEF RelayTake, TypeOK
<1>5. ASSUME NEW c \in Calls, PeerReply(c)
      PROVE  TypeOK'
  <2>1. [type |-> "Payload", payload |-> [from |-> msg[c].to, seq |-> msg[c].seq, re |-> c]]
          \in Response
    BY DEF Response, Payload, TypeOK, Message
  <2> QED
    BY <1>5, <2>1 DEF PeerReply, TypeOK
<1>6. ASSUME NEW c \in Calls, TimerFire(c)
      PROVE  TypeOK'
  <2>1. [type |-> "RetryAsk", call |-> c] \in Msg /\ [type |-> "RetryAck", call |-> c] \in Msg
    BY DEF Msg
  <2>2. actor' \in Seq(Msg) /\ timer' \in [Calls -> {"none", "sleeping", "queued"}]
    <3>1. CASE alive
      <4>1. actor' = Append(actor, [type |-> "RetryAsk", call |-> c])
              \/ actor' = Append(actor, [type |-> "RetryAck", call |-> c])
        BY <1>6, <3>1 DEF TimerFire, Tell
      <4>2. PICK w \in Msg : actor' = Append(actor, w)
        BY <2>1, <4>1
      <4>3. timer' = [timer EXCEPT ![c] = "queued"]
        BY <1>6, <3>1 DEF TimerFire
      <4> QED
        BY <4>2, <4>3 DEF TypeOK
    <3>2. CASE ~alive
      BY <1>6, <3>2 DEF TypeOK, TimerFire
    <3> QED
      BY <3>1, <3>2
  <2> QED
    BY <1>6, <2>2 DEF TimerFire, TypeOK
<1>7. ASSUME NEW p \in Peers, PeerSend(p)
      PROVE  TypeOK'
  <2>1. peerSeq[p] \in Seqs /\ peerSeq[p] + 1 \in 0 .. MaxPeerSends
    BY <1>7, BoundsAssumption DEF PeerSend, TypeOK, Seqs
  <2>2. [type |-> "Payload", payload |-> [from |-> p, seq |-> peerSeq[p], re |-> NoCall]]
          \in Response
    BY <2>1 DEF Response, Payload
  <2> QED
    BY <1>7, <2>1, <2>2 DEF PeerSend, TypeOK
<1> QED
  BY <1>1, <1>2, <1>3, <1>4, <1>5, <1>6, <1>7, <1>8 DEF World

\* Every step keeps the types.
LEMMA TypeStep == TypeOK /\ [Next]_vars => TypeOK'
<1> SUFFICES ASSUME TypeOK, [Next]_vars
             PROVE  TypeOK'
  OBVIOUS
<1>1. ASSUME NEW c \in Calls, NEW q \in QoS, NEW p \in Peers, ClientSend(c, p, q) \/ ClientAsk(c, p, q)
      PROVE  TypeOK'
  <2>1. seq \in Seqs /\ seq' \in Seqs
    BY <1>1, BoundsAssumption DEF ClientSend, ClientAsk, NextSeq, TypeOK, Seqs
  <2>2. \A k \in {"send", "ask"} : [kind |-> k, qos |-> q, to |-> p, seq |-> seq] \in Message
    BY <2>1 DEF Message
  <2> QED
    BY <1>1, <2>1, <2>2, TypePost DEF ClientSend, ClientAsk
<1>2. ASSUME NEW c \in Calls, NEW q \in QoS, NEW r \in inbox, Reply(c, r, q)
      PROVE  TypeOK'
  <2>1. [kind |-> "reply", qos |-> q, to |-> r.from, seq |-> r.seq] \in Message
    BY DEF Message, TypeOK, Payload
  <2> QED
    BY <1>2, <2>1, TypePost DEF Reply, TypeOK
<1>3. CASE ClientStop
  BY <1>3 DEF TypeOK, ClientStop, Tell, api, state, conn, peer, Msg
<1>4. CASE UNCHANGED vars
  BY <1>4 DEF vars, api, state, conn, peer, TypeOK
<1> QED
  BY <1>1, <1>2, <1>3, <1>4, TypeApi, TypeHandleActor, TypeActor, TypeWorld
     DEF Next, Api, Actor, Idle

LEMMA InitTypes == Init => TypeOK
<1> DEFINE to == CHOOSE p \in Peers : TRUE
           m == [kind |-> "none", qos |-> "AtMostOnce", to |-> to, seq |-> 0]
<1>1. to \in Peers
  BY PeersAssumption
<1>2. 0 \in Seqs /\ 0 \in Amount /\ 0 \in 0 .. AttemptCap /\ 0 \in 0 .. MaxPeerSends
  BY BoundsAssumption DEF Seqs, Amount
<1> HIDE DEF to
<1>3. m \in Message
  BY <1>1, <1>2 DEF Message, QoS
<1>4. Init => msg = [c \in Calls |-> m]
  BY DEF Init, to
<1> HIDE DEF m
<1>5. Init => msg \in [Calls -> Message]
  BY <1>3, <1>4
<1>6. Init => /\ seq \in Seqs
              /\ pc \in [Calls -> {"idle", "posted", "waiting", "ok", "err", "dropped"}]
              /\ result \in [Calls -> Calls \cup {NoCall}]
              /\ pendingAcks \in [Seqs -> Calls \cup {NoCall}]
              /\ pendingReplies \in [Peers \X Seqs -> Calls \cup {NoCall}]
              /\ timer \in [Calls -> {"none", "sleeping", "queued"}]
              /\ left \in [Calls -> Amount]
              /\ attempts \in [Calls -> 0 .. AttemptCap]
              /\ peerSeq \in [Peers -> 0 .. MaxPeerSends]
  BY <1>2 DEF Init
<1>7. Init => actor \in Seq(Msg) /\ out \in Seq(Calls) /\ resp \in Seq(Response)
  BY DEF Init
<1> QED
  BY <1>5, <1>6, <1>7, BoundsAssumption DEF Init, TypeOK

\* The variables keep to their types, for any number of calls, peers, retries and losses.
THEOREM DeliveryTypeCorrect == Spec => []TypeOK
BY InitTypes, TypeStep, PTL DEF Spec
-----------------------------------------------------------------------------
(* What a step leaves alone stays as it was. *)

Undisturbed(c) ==
  /\ pc'[c] = pc[c] /\ msg'[c] = msg[c] /\ attempts'[c] = attempts[c] /\ timer'[c] = timer[c]
  /\ Registered(c)' => Registered(c)

\* What may happen to a call that is registered.
Touched(c) ==
  Registered(c) /\ pc'[c] # "idle" /\ msg'[c] = msg[c] /\ timer'[c] = timer[c]

LEMMA QueuedKept ==
  ASSUME NEW m, QueuedFits(m), m.type # "Stop" => Undisturbed(m.call) \/ Touched(m.call),
         alive' => alive
  PROVE  QueuedFits(m)'
<1>1. CASE m.type = "Stop"
  BY <1>1 DEF QueuedFits
<1>2. CASE m.type # "Stop" /\ Undisturbed(m.call)
  BY <1>2 DEF QueuedFits, Undisturbed, Promise!Immediate, Waits
<1>3. CASE m.type # "Stop" /\ Touched(m.call)
  BY <1>3 DEF QueuedFits, Touched, Waits
<1> QED
  BY <1>1, <1>2, <1>3

LEMMA CallKept ==
  ASSUME TypeOK, TypeOK', NEW c \in Calls, CallFits(c), Undisturbed(c), left'[c] = left[c],
         seq <= seq',
         \A i \in DOMAIN actor' :
           \/ \E j \in DOMAIN actor : actor'[i] = actor[j]
           \/ actor'[i].call # c
  PROVE  CallFits(c)'
<1>1. msg[c].seq \in Int /\ seq \in Int /\ seq' \in Int
  BY DEF TypeOK, Message, Seqs
<1>2. Promise!Immediate(msg[c])' = Promise!Immediate(msg[c])
  BY DEF Promise!Immediate, Undisturbed
<1>3. (pc[c] = "posted" =>
         \A i \in DOMAIN actor : actor[i].call = c => actor[i].type = "Send")'
  BY DEF CallFits, Undisturbed
<1> QED
  BY <1>1, <1>2, <1>3 DEF CallFits, Undisturbed

\* The queue without its first message.
LEMMA QueueTail ==
  ASSUME TypeOK, QueueInOrder, actor # <<>>, actor' = Tail(actor)
  PROVE  /\ Head(actor) \in Msg /\ 1 \in DOMAIN actor /\ Head(actor) = actor[1]
         /\ \A i \in DOMAIN actor' : i + 1 \in DOMAIN actor /\ actor'[i] = actor[i + 1]
         /\ QueueInOrder'
         /\ \A i \in DOMAIN actor' :
              Head(actor).type # "Stop" /\ actor'[i].type # "Stop"
                /\ actor'[i].call = Head(actor).call => Rank(Head(actor)) < Rank(actor'[i])
<1>1. actor \in Seq(Msg)
  BY DEF TypeOK
<1>2. /\ Head(actor) \in Msg /\ 1 \in DOMAIN actor /\ Head(actor) = actor[1]
      /\ \A i \in DOMAIN actor' : /\ i \in Nat \ {0} /\ i + 1 \in DOMAIN actor
                                  /\ actor'[i] = actor[i + 1]
  BY <1>1
<1>3. QueueInOrder'
  <2> SUFFICES ASSUME NEW i \in DOMAIN actor', NEW j \in DOMAIN actor', i < j,
                      actor'[i].type # "Stop", actor'[j].type # "Stop",
                      actor'[i].call = actor'[j].call
               PROVE  Rank(actor'[i]) < Rank(actor'[j])
    BY DEF QueueInOrder, Rank
  <2>1. i + 1 < j + 1
    BY <1>2
  <2> QED
    BY <1>2, <2>1 DEF QueueInOrder
<1>4. \A i \in DOMAIN actor' : 1 < i + 1
  BY <1>2
<1> QED
  BY <1>2, <1>3, <1>4 DEF QueueInOrder

\* The queue with one more message.
LEMMA QueueAppend ==
  ASSUME TypeOK, QueueInOrder, NEW w \in Msg, actor' = Append(actor, w),
         \A i \in DOMAIN actor :
           w.type # "Stop" /\ actor[i].type # "Stop" /\ actor[i].call = w.call =>
             Rank(actor[i]) < Rank(w)
  PROVE  /\ \A i \in DOMAIN actor' :
              (i \in DOMAIN actor /\ actor'[i] = actor[i]) \/ actor'[i] = w
         /\ QueueInOrder'
<1>1. actor \in Seq(Msg)
  BY DEF TypeOK
<1>2. \A i \in DOMAIN actor' : \/ i \in DOMAIN actor /\ actor'[i] = actor[i]
                               \/ i = Len(actor) + 1 /\ actor'[i] = w
  BY <1>1
<1>3. QueueInOrder'
  <2> SUFFICES ASSUME NEW i \in DOMAIN actor', NEW j \in DOMAIN actor', i < j,
                      actor'[i].type # "Stop", actor'[j].type # "Stop",
                      actor'[i].call = actor'[j].call
               PROVE  Rank(actor'[i]) < Rank(actor'[j])
    BY DEF QueueInOrder, Rank
  <2>1. i \in DOMAIN actor /\ actor'[i] = actor[i]
    BY <1>1, <1>2
  <2> QED
    BY <1>2, <2>1 DEF QueueInOrder
<1> QED
  BY <1>2, <1>3

\* Facts about the relay and what is on its way outlive every step that only adds to them.
LEMMA NetKept ==
  ASSUME TypeOK, TypeOK', NetFits,
         \A c \in Calls : pc[c] # "idle" =>
           pc'[c] # "idle" /\ msg'[c] = msg[c] /\ attempts[c] <= attempts'[c],
         relayGot \subseteq relayGot',
         \A p \in Peers : peerSeq[p] <= peerSeq'[p],
         \A i \in DOMAIN out' :
           \/ \E j \in DOMAIN out : out'[i] = out[j]
           \/ \E c \in Calls : out'[i] = c /\ pc'[c] # "idle" /\ attempts'[c] > 0,
         \A c \in relayGot' : c \in relayGot \/ \E j \in DOMAIN out : c = out[j],
         \A c \in atPeer' : c \in atPeer \/ (c \in relayGot' /\ msg'[c].kind = "ask"),
         \A i \in DOMAIN resp' :
           \/ \E j \in DOMAIN resp : resp'[i] = resp[j]
           \/ \E m : resp'[i] = m /\ ResponseFits(m)'
  PROVE  NetFits'
<1>1. \A i \in DOMAIN out : out[i] \in Calls
  BY DEF TypeOK
<1>2. \A i \in DOMAIN resp : resp[i] \in Response
  BY DEF TypeOK
<1>3. relayGot \subseteq Calls /\ atPeer \subseteq Calls
  BY DEF TypeOK
<1>4. \A c \in Calls : attempts[c] \in Int /\ attempts'[c] \in Int
  BY BoundsAssumption DEF TypeOK
<1>5. (\A i \in DOMAIN out : pc[out[i]] # "idle" /\ attempts[out[i]] > 0)'
  <2> SUFFICES ASSUME NEW i \in DOMAIN out'
               PROVE  pc'[out'[i]] # "idle" /\ attempts'[out'[i]] > 0
    OBVIOUS
  <2>1. ASSUME NEW j \in DOMAIN out, out'[i] = out[j]
        PROVE  pc'[out'[i]] # "idle" /\ attempts'[out'[i]] > 0
    <3>1. out[j] \in Calls /\ pc[out[j]] # "idle" /\ attempts[out[j]] > 0
      BY <1>1 DEF NetFits
    <3> QED
      BY <1>4, <2>1, <3>1
  <2> QED
    BY <2>1
<1>6. \A c \in relayGot' : pc'[c] # "idle"
  BY <1>1, <1>3 DEF NetFits
<1>7. \A c \in atPeer' : c \in relayGot' /\ msg'[c].kind = "ask"
  BY <1>3 DEF NetFits
<1>8. ASSUME NEW m \in Response, ResponseFits(m)
      PROVE  ResponseFits(m)'
  <2>1. \A d \in relayGot : d \in relayGot' /\ msg'[d] = msg[d]
    BY <1>3 DEF NetFits
  <2>2. m.type = "Payload" => /\ m.payload.seq \in Int /\ m.payload.from \in Peers
                              /\ peerSeq[m.payload.from] \in Int
                              /\ peerSeq'[m.payload.from] \in Int
    BY <1>8, BoundsAssumption DEF Response, Payload, TypeOK, Seqs
  <2>3. (m.type = "Ack" => \E d \in relayGot : msg[d].seq = m.seq)'
    BY <1>8, <2>1 DEF ResponseFits
  <2>4. (m.type = "Payload" /\ m.payload.re = NoCall => m.payload.seq < peerSeq[m.payload.from])'
    BY <1>8, <2>2 DEF ResponseFits
  <2>5. (m.type = "Payload" /\ m.payload.re # NoCall =>
           LET d == m.payload.re IN
             d \in relayGot /\ msg[d].kind = "ask"
               /\ msg[d].to = m.payload.from /\ msg[d].seq = m.payload.seq)'
    BY <1>8, <2>1 DEF ResponseFits
  <2> QED
    BY <2>3, <2>4, <2>5 DEF ResponseFits
<1>9. (\A i \in DOMAIN resp : ResponseFits(resp[i]))'
  <2> SUFFICES ASSUME NEW i \in DOMAIN resp'
               PROVE  ResponseFits(resp[i])'
    OBVIOUS
  <2>1. \E m : resp'[i] = m /\ ResponseFits(m)'
    BY <1>2, <1>8 DEF NetFits
  <2> QED
    BY <2>1 DEF ResponseFits
<1> QED
  BY <1>5, <1>6, <1>7, <1>9 DEF NetFits
-----------------------------------------------------------------------------
(* Every step keeps DeliveryInv. *)

\* A message about an undisturbed call still fits.
LEMMA QueueKept ==
  ASSUME TypeOK, QueueFits, alive' => alive,
         \A i \in DOMAIN actor' :
           \/ QueuedFits(actor[i])'
           \/ \E j \in DOMAIN actor :
                /\ actor'[i] = actor[j]
                /\ actor[j].type # "Stop" => Undisturbed(actor[j].call) \/ Touched(actor[j].call)
  PROVE  QueueFits'
<1> SUFFICES ASSUME NEW i \in DOMAIN actor'
             PROVE  QueuedFits(actor[i])'
  BY DEF QueueFits
<1>1. ASSUME NEW j \in DOMAIN actor, actor'[i] = actor[j],
             actor[j].type # "Stop" => Undisturbed(actor[j].call) \/ Touched(actor[j].call)
      PROVE  QueuedFits(actor[i])'
  <2>1. QueuedFits(actor[j])
    BY DEF QueueFits
  <2>2. PICK m : m = actor[j]
    OBVIOUS
  <2>3. QueuedFits(m)'
    BY <1>1, <2>1, <2>2, QueuedKept
  <2> QED
    BY <1>1, <2>2, <2>3 DEF QueuedFits
<1> QED
  BY <1>1

LEMMA InvPost ==
  ASSUME TypeOK, TypeOK', DeliveryInv, NEW c \in Calls, NEW m \in Message, Post(c, m),
         m.kind # "reply" => m.seq = seq /\ seq' = seq + 1,
         m.kind = "reply" => seq' = seq
  PROVE  DeliveryInv'
<1> DEFINE w == [type |-> "Send", call |-> c]
           s == IF m.kind = "ask" \/ m.qos = "AtLeastOnce" THEN "posted" ELSE "ok"
<1>1. /\ alive /\ pc[c] = "idle" /\ actor' = Append(actor, w) /\ w \in Msg
      /\ msg' = [msg EXCEPT ![c] = m] /\ pc' = [pc EXCEPT ![c] = s]
      /\ UNCHANGED <<result, state, polled, conn, out, resp, peer, inbox>>
  BY DEF Post, Tell, Msg
<1>2. w.type = "Send" /\ w.call = c /\ w.type # "Stop" /\ Rank(w) = 0
  BY DEF Rank
<1>3. s \in {"posted", "ok"} /\ (s = "posted" <=> ~Promise!Immediate(m))
  BY DEF Promise!Immediate, Message, QoS
<1> HIDE DEF w, s
<1>4. \A i \in DOMAIN actor : actor[i].type # "Stop" => actor[i].call # c
  BY <1>1 DEF DeliveryInv, QueueFits, QueuedFits
<1>5. /\ QueueInOrder'
      /\ \A i \in DOMAIN actor' : (i \in DOMAIN actor /\ actor'[i] = actor[i]) \/ actor'[i] = w
  BY <1>1, <1>2, <1>4, QueueAppend DEF DeliveryInv
<1>6. /\ msg'[c] = m /\ pc'[c] = s
      /\ \A d \in Calls : d # c => msg'[d] = msg[d] /\ pc'[d] = pc[d]
      /\ \A d \in Calls : d # c => Undisturbed(d)
      /\ \A d : Registered(d)' = Registered(d)
      /\ UNCHANGED <<timer, left, attempts, pendingAcks, pendingReplies>>
  BY <1>1 DEF TypeOK, Undisturbed, Registered, state
<1>7. ~Registered(c) /\ attempts[c] = 0 /\ timer[c] = "none" /\ left[c] = 0
  BY <1>1 DEF DeliveryInv, CallsFit, CallFits
<1>8. QueueFits'
  <2>1. ASSUME NEW i \in DOMAIN actor', actor'[i] = w
        PROVE  QueuedFits(actor[i])'
    BY <1>2, <1>3, <1>6, <1>7, <2>1 DEF QueuedFits, Waits, Promise!Immediate
  <2>2. \A i \in DOMAIN actor : actor[i].type # "Stop" => actor[i].call \in Calls
    BY DEF TypeOK, Msg
  <2> QED
    BY <1>1, <1>4, <1>5, <1>6, <2>1, <2>2, QueueKept DEF DeliveryInv, conn
<1>9. CallsFit'
  <2>1. seq \in Int /\ seq' \in Int /\ seq <= seq'
    BY DEF TypeOK, Seqs, Message
  <2>2. ASSUME NEW d \in Calls, d # c
        PROVE  CallFits(d)'
    BY <1>2, <1>5, <1>6, <2>1, <2>2, CallKept DEF DeliveryInv, CallsFit
  <2>3. \A i \in DOMAIN actor' : actor'[i].call = c => actor'[i].type \in {"Send", "Stop"}
    BY <1>2, <1>4, <1>5
  <2>4. c # NoCall /\ \A i \in DOMAIN actor' : actor'[i].type = "Stop" => actor'[i].call = NoCall
    <3>1. \A i \in DOMAIN actor' : actor'[i] \in Msg
      BY DEF TypeOK
    <3> QED
      BY <3>1, NoCallAssumption DEF Msg
  <2>5. CallFits(c)'
    BY <1>3, <1>6, <1>7, <2>1, <2>3, <2>4 DEF CallFits, Promise!Immediate
  <2> QED
    BY <2>2, <2>5 DEF CallsFit
<1>10. OwnNumbers'
  <2>1. \A d \in Calls : /\ msg[d].seq \in Int /\ seq \in Int
                         /\ pc[d] # "idle" /\ msg[d].kind # "reply" => msg[d].seq < seq
    <3>1. \A d \in Calls : pc[d] # "idle" /\ msg[d].kind # "reply" => msg[d].seq < seq
      BY DEF DeliveryInv, CallsFit, CallFits
    <3>2. \A d \in Calls : msg[d].seq \in Int /\ seq \in Int
      BY DEF TypeOK, Message, Seqs
    <3> QED
      BY <3>1, <3>2
  <2>2. ASSUME NEW a \in Calls, NEW b \in Calls, pc'[a] # "idle", msg'[a].kind # "reply",
               pc'[b] # "idle", msg'[b].kind # "reply", msg'[a].seq = msg'[b].seq
        PROVE  a = b
    <3>1. CASE a # c /\ b # c
      BY <1>6, <2>2, <3>1 DEF DeliveryInv, OwnNumbers
    <3>2. CASE a = c /\ b # c
      <4>1. msg'[a].seq = seq /\ msg'[b] = msg[b] /\ pc'[b] = pc[b]
        BY <1>6, <2>2, <3>2
      <4>2. msg[b].seq < seq /\ msg[b].seq = seq
        BY <2>1, <2>2, <4>1
      <4> QED
        BY <2>1, <4>2
    <3>3. CASE b = c /\ a # c
      <4>1. msg'[b].seq = seq /\ msg'[a] = msg[a] /\ pc'[a] = pc[a]
        BY <1>6, <2>2, <3>3
      <4>2. msg[a].seq < seq /\ msg[a].seq = seq
        BY <2>1, <2>2, <4>1
      <4> QED
        BY <2>1, <4>2
    <3> QED
      BY <3>1, <3>2, <3>3
  <2> QED
    BY <2>2 DEF OwnNumbers
<1>11. RegistrationsFit'
  <2>1. /\ \A n \in Seqs : pendingAcks[n] # NoCall => pendingAcks[n] \in Calls \ {c}
        /\ \A k \in Peers \X Seqs : pendingReplies[k] # NoCall => pendingReplies[k] \in Calls \ {c}
    BY <1>7 DEF Registered, TypeOK
  <2> QED
    BY <1>1, <1>6, <2>1 DEF DeliveryInv, RegistrationsFit, RegisteredFits, conn
<1>12. NetFits'
  <2>1. \A d \in Calls : attempts[d] <= attempts'[d]
    BY <1>6 DEF TypeOK
  <2>2. \A p \in Peers : peerSeq[p] <= peerSeq'[p]
    BY <1>1 DEF TypeOK, peer
  <2> QED
    BY <1>1, <1>6, <2>1, <2>2, NetKept DEF DeliveryInv, peer
<1> QED
  BY <1>5, <1>8, <1>9, <1>10, <1>11, <1>12 DEF DeliveryInv

\* A step of the connection, the relay or a peer.
LEMMA InvQuiet ==
  ASSUME TypeOK, DeliveryInv, NetFits',
         UNCHANGED <<seq, pc, msg, actor, pendingAcks, pendingReplies, timer, left, attempts, alive>>
  PROVE  DeliveryInv'
<1>1. QueueFits'
  BY DEF DeliveryInv, QueueFits, QueuedFits, Registered, Promise!Immediate
<1>2. QueueInOrder'
  BY DEF DeliveryInv, QueueInOrder, Rank
<1>3. CallsFit'
  BY DEF DeliveryInv, CallsFit, CallFits, Registered, Promise!Immediate
<1>4. OwnNumbers' /\ RegistrationsFit'
  BY DEF DeliveryInv, OwnNumbers, RegistrationsFit, RegisteredFits
<1> QED
  BY <1>1, <1>2, <1>3, <1>4 DEF DeliveryInv

LEMMA InvClientStop ==
  ASSUME TypeOK, TypeOK', DeliveryInv, ClientStop
  PROVE  DeliveryInv'
<1> DEFINE w == [type |-> "Stop", call |-> NoCall]
<1>1. /\ actor' = Append(actor, w) /\ w \in Msg /\ w.type = "Stop" /\ w.call = NoCall
      /\ UNCHANGED <<api, state, polled, conn, out, resp, peer, inbox>>
  BY DEF ClientStop, Tell, Msg
<1> HIDE DEF w
<1>2. /\ QueueInOrder'
      /\ \A i \in DOMAIN actor' : (i \in DOMAIN actor /\ actor'[i] = actor[i]) \/ actor'[i] = w
  BY <1>1, QueueAppend DEF DeliveryInv
<1>3. \A c : Undisturbed(c)
  BY <1>1 DEF Undisturbed, Registered, api, state
<1>4. \A i \in DOMAIN actor' : actor'[i] = w => QueuedFits(actor[i])'
  BY <1>1 DEF QueuedFits
<1>5. QueueFits'
  BY <1>1, <1>2, <1>3, <1>4, QueueKept DEF DeliveryInv, conn
<1>6. CallsFit'
  <2>1. seq <= seq'
    BY <1>1 DEF TypeOK, Seqs, api
  <2> QED
    BY <1>1, <1>2, <1>3, <2>1, NoCallAssumption, CallKept DEF DeliveryInv, CallsFit, state
<1>7. OwnNumbers' /\ RegistrationsFit'
  BY <1>1 DEF DeliveryInv, OwnNumbers, RegistrationsFit, RegisteredFits, api, state, conn
<1>8. NetFits'
  BY <1>1 DEF DeliveryInv, NetFits, ResponseFits, api, state, peer
<1> QED
  BY <1>2, <1>5, <1>6, <1>7, <1>8 DEF DeliveryInv

LEMMA InvRegister ==
  ASSUME TypeOK, TypeOK', DeliveryInv, NEW c \in Calls, Register(c)
  PROVE  DeliveryInv'
<1> DEFINE w == [type |-> IF msg[c].kind = "ask" THEN "WaitForReply" ELSE "WaitForAck", call |-> c]
<1>1. /\ pc[c] = "posted"
      /\ alive => actor' = Append(actor, w) /\ pc' = [pc EXCEPT ![c] = "waiting"]
      /\ ~alive => actor' = actor /\ pc' = [pc EXCEPT ![c] = "err"]
      /\ UNCHANGED <<seq, msg, result, state, polled, conn, out, resp, peer, inbox>>
  BY DEF Register, Tell
<1>2. /\ w \in Msg /\ w.call = c /\ w.type \in Waits /\ w.type # "Stop" /\ Rank(w) = 1
      /\ w.type = "WaitForReply" => msg[c].kind = "ask"
      /\ w.type = "WaitForAck" => msg[c].kind # "ask"
  BY DEF Msg, Waits, Rank
<1> HIDE DEF w
<1>3. /\ ~Registered(c) /\ timer[c] = "none" /\ ~Promise!Immediate(msg[c])
      /\ \A i \in DOMAIN actor : actor[i].call = c => actor[i].type = "Send"
  BY <1>1 DEF DeliveryInv, CallsFit, CallFits
<1>4. /\ pc'[c] = IF alive THEN "waiting" ELSE "err"
      /\ \A d \in Calls : d # c => Undisturbed(d)
      /\ \A d : Registered(d)' = Registered(d)
      /\ UNCHANGED <<seq, msg, timer, left, attempts, pendingAcks, pendingReplies, alive>>
  BY <1>1 DEF TypeOK, Undisturbed, Registered, state, conn
<1>5. /\ QueueInOrder'
      /\ \A i \in DOMAIN actor' :
           \/ i \in DOMAIN actor /\ actor'[i] = actor[i]
           \/ alive /\ actor'[i] = w
  <2>1. CASE ~alive
    BY <1>1, <2>1 DEF DeliveryInv, QueueInOrder, Rank
  <2>2. CASE alive
    <3>1. \A i \in DOMAIN actor : actor[i].call = w.call => Rank(actor[i]) < Rank(w)
      BY <1>2, <1>3 DEF Rank
    <3> QED
      BY <1>1, <1>2, <2>2, <3>1, QueueAppend DEF DeliveryInv
  <2> QED
    BY <2>1, <2>2
<1>6. QueueFits'
  <2>1. \A i \in DOMAIN actor : actor[i].type # "Stop" => actor[i].call \in Calls
    BY DEF TypeOK, Msg
  <2>2. ASSUME NEW i \in DOMAIN actor', alive, actor'[i] = w
        PROVE  QueuedFits(actor[i])'
    <3>1. msg[c].kind # "ask" => msg[c].qos = "AtLeastOnce"
      BY <1>3 DEF Promise!Immediate, TypeOK, Message, QoS
    <3> QED
      BY <1>2, <1>3, <1>4, <2>2, <3>1 DEF QueuedFits, Waits
  <2>3. ASSUME NEW i \in DOMAIN actor, actor'[i] = actor[i], actor[i].call = c
        PROVE  QueuedFits(actor[i])'
    <3>1. actor[i].type = "Send" /\ QueuedFits(actor[i])
      BY <1>3, <2>3 DEF DeliveryInv, QueueFits
    <3> QED
      BY <1>3, <1>4, <2>3, <3>1 DEF QueuedFits, Waits
  <2> QED
    BY <1>4, <1>5, <2>1, <2>2, <2>3, QueueKept DEF DeliveryInv
<1>7. CallsFit'
  <2>1. seq <= seq'
    BY <1>4 DEF TypeOK, Seqs
  <2>2. ASSUME NEW d \in Calls, d # c
        PROVE  CallFits(d)'
    BY <1>2, <1>4, <1>5, <2>1, <2>2, CallKept DEF DeliveryInv, CallsFit
  <2>3. CallFits(c)'
    BY <1>1, <1>3, <1>4 DEF DeliveryInv, CallsFit, CallFits, Promise!Immediate
  <2> QED
    BY <2>2, <2>3 DEF CallsFit
<1>8. OwnNumbers'
  BY <1>1, <1>4 DEF DeliveryInv, OwnNumbers, Undisturbed
<1>9. RegistrationsFit'
  <2>1. /\ \A n \in Seqs : pendingAcks[n] # NoCall => pendingAcks[n] \in Calls \ {c}
        /\ \A k \in Peers \X Seqs : pendingReplies[k] # NoCall => pendingReplies[k] \in Calls \ {c}
    BY <1>3 DEF Registered, TypeOK
  <2> QED
    BY <1>4, <2>1 DEF DeliveryInv, RegistrationsFit, RegisteredFits, Undisturbed
<1>10. NetFits'
  <2>1. \A d \in Calls : pc[d] # "idle" => pc'[d] # "idle" /\ attempts[d] <= attempts'[d]
    BY <1>4 DEF TypeOK, Undisturbed
  <2>2. \A p \in Peers : peerSeq[p] <= peerSeq'[p]
    BY <1>1 DEF TypeOK, peer
  <2> QED
    BY <1>1, <1>4, <2>1, <2>2, NetKept DEF DeliveryInv, peer
<1> QED
  BY <1>5, <1>6, <1>7, <1>8, <1>9, <1>10 DEF DeliveryInv

LEMMA InvAbandon ==
  ASSUME TypeOK, TypeOK', DeliveryInv, NEW c \in Calls, Abandon(c)
  PROVE  DeliveryInv'
<1>1. /\ pc[c] = "waiting" /\ pc'[c] = "dropped" /\ \A d \in Calls : d # c => pc'[d] = pc[d]
      /\ UNCHANGED <<seq, msg, result, actor, state, polled, conn, out, resp, peer, inbox>>
      /\ \A d : Registered(d)' = Registered(d)
  BY DEF Abandon, TypeOK, Registered, state
<1>2. \A i \in DOMAIN actor : actor[i].type # "Stop" => actor[i].call \in Calls
  BY DEF TypeOK, Msg
<1>3. QueueFits'
  <2>1. ASSUME NEW i \in DOMAIN actor
        PROVE  QueuedFits(actor[i])'
    BY <1>1, <1>2 DEF DeliveryInv, QueueFits, QueuedFits, Promise!Immediate, Waits, state, conn
  <2> QED
    BY <1>1, <2>1 DEF QueueFits
<1>4. QueueInOrder'
  BY <1>1 DEF DeliveryInv, QueueInOrder, Rank
<1>5. CallsFit'
  BY <1>1 DEF DeliveryInv, CallsFit, CallFits, Promise!Immediate, state
<1>6. OwnNumbers'
  BY <1>1 DEF DeliveryInv, OwnNumbers
<1>7. RegistrationsFit'
  <2>1. /\ \A n \in Seqs : pendingAcks[n] # NoCall => pendingAcks[n] \in Calls
        /\ \A k \in Peers \X Seqs : pendingReplies[k] # NoCall => pendingReplies[k] \in Calls
    BY DEF TypeOK
  <2>2. \A d \in Calls : pc[d] \in {"waiting", "dropped"} => pc'[d] \in {"waiting", "dropped"}
    BY <1>1
  <2> QED
    BY <1>1, <2>1, <2>2 DEF DeliveryInv, RegistrationsFit, RegisteredFits, state, conn
<1>8. NetFits'
  <2>1. \A d \in Calls : pc[d] # "idle" => pc'[d] # "idle" /\ attempts[d] <= attempts'[d]
    BY <1>1 DEF TypeOK, state
  <2>2. \A p \in Peers : peerSeq[p] <= peerSeq'[p]
    BY <1>1 DEF TypeOK, peer
  <2> QED
    BY <1>1, <2>1, <2>2, NetKept DEF DeliveryInv, peer
<1> QED
  BY <1>3, <1>4, <1>5, <1>6, <1>7, <1>8 DEF DeliveryInv

\* What is known of the head of the queue, and of the messages behind it.
LEMMA Dequeue ==
  ASSUME TypeOK, DeliveryInv, actor # <<>>, actor' = Tail(actor)
  PROVE  /\ Head(actor) \in Msg /\ QueuedFits(Head(actor)) /\ QueueInOrder'
         /\ \A i \in DOMAIN actor' : \E j \in DOMAIN actor :
              /\ actor'[i] = actor[j] /\ QueuedFits(actor[j])
              /\ actor[j].type # "Stop" => actor[j].call \in Calls
              /\ Head(actor).type # "Stop" /\ actor[j].type # "Stop"
                    /\ actor[j].call = Head(actor).call => Rank(Head(actor)) < Rank(actor[j])
<1>1. /\ Head(actor) \in Msg /\ 1 \in DOMAIN actor /\ Head(actor) = actor[1]
      /\ \A i \in DOMAIN actor' : i + 1 \in DOMAIN actor /\ actor'[i] = actor[i + 1]
      /\ QueueInOrder'
      /\ \A i \in DOMAIN actor' :
           Head(actor).type # "Stop" /\ actor'[i].type # "Stop"
             /\ actor'[i].call = Head(actor).call => Rank(Head(actor)) < Rank(actor'[i])
  BY QueueTail DEF DeliveryInv
<1>2. \A j \in DOMAIN actor : QueuedFits(actor[j]) /\ actor[j] \in Msg
  BY DEF DeliveryInv, QueueFits, TypeOK
<1>3. \A j \in DOMAIN actor : actor[j].type # "Stop" => actor[j].call \in Calls
  BY <1>2 DEF Msg
<1> QED
  BY <1>1, <1>2, <1>3

\* The registered are calls, waiting or given up.
LEMMA RegisteredCalls ==
  ASSUME TypeOK, DeliveryInv
  PROVE  /\ \A n \in Seqs : pendingAcks[n] # NoCall =>
              /\ pendingAcks[n] \in Calls /\ Registered(pendingAcks[n])
              /\ msg[pendingAcks[n]].kind # "ask" /\ msg[pendingAcks[n]].seq = n
              /\ alive /\ pc[pendingAcks[n]] \in {"waiting", "dropped"}
         /\ \A k \in Peers \X Seqs : pendingReplies[k] # NoCall =>
              /\ pendingReplies[k] \in Calls /\ Registered(pendingReplies[k])
              /\ msg[pendingReplies[k]].kind = "ask"
              /\ <<msg[pendingReplies[k]].to, msg[pendingReplies[k]].seq>> = k
              /\ alive /\ pc[pendingReplies[k]] \in {"waiting", "dropped"}
BY DEF TypeOK, DeliveryInv, RegistrationsFit, RegisteredFits, Registered

LEMMA InvHandleSend ==
  ASSUME TypeOK, TypeOK', DeliveryInv, NEW c \in Calls, HandleSend(c), alive,
         actor # <<>>, Head(actor).type = "Send", Head(actor).call = c, actor' = Tail(actor),
         UNCHANGED <<resp, peer>>
  PROVE  DeliveryInv'
<1>1. /\ pc[c] # "idle" /\ attempts[c] = 0
      /\ out' = Append(out, c) /\ attempts' = [attempts EXCEPT ![c] = Bump(@)]
      /\ UNCHANGED <<seq, pc, msg, result, pendingAcks, pendingReplies, timer, left, conn>>
  BY Dequeue DEF QueuedFits, HandleSend, Transmit, api
<1>2. Bump(0) = 1
  BY BoundsAssumption DEF Bump
<1>3. /\ attempts'[c] = 1
      /\ \A d \in Calls : d # c => Undisturbed(d)
      /\ \A d : Registered(d)' = Registered(d)
  BY <1>1, <1>2 DEF TypeOK, Undisturbed, Registered
<1>4. QueueFits'
  <2>1. ASSUME NEW i \in DOMAIN actor', NEW j \in DOMAIN actor, actor'[i] = actor[j],
               QueuedFits(actor[j]), actor[j].type # "Send"
        PROVE  QueuedFits(actor[i])'
    BY <1>1, <1>3, <2>1 DEF QueuedFits, Waits, conn
  <2>2. \A m : m.type = "Send" => Rank(m) = 0
    BY DEF Rank
  <2>3. \A i \in DOMAIN actor' : \E j \in DOMAIN actor :
          /\ actor'[i] = actor[j] /\ QueuedFits(actor[j])
          /\ actor[j].type # "Send" \/ (actor[j].call \in Calls /\ actor[j].call # c)
    BY <2>2, Dequeue
  <2> QED
    BY <1>1, <1>3, <2>1, <2>3, QueueKept DEF DeliveryInv, conn
<1>5. CallsFit'
  <2>1. seq <= seq'
    BY <1>1 DEF TypeOK, Seqs
  <2>2. \A i \in DOMAIN actor' : \E j \in DOMAIN actor : actor'[i] = actor[j]
    BY Dequeue
  <2>3. ASSUME NEW d \in Calls, d # c
        PROVE  CallFits(d)'
    BY <1>1, <1>3, <2>1, <2>2, <2>3, CallKept DEF DeliveryInv, CallsFit
  <2>4. CallFits(c)'
    BY <1>1, <1>3, <2>2 DEF DeliveryInv, CallsFit, CallFits, Promise!Immediate
  <2> QED
    BY <2>3, <2>4 DEF CallsFit
<1>6. OwnNumbers' /\ RegistrationsFit'
  BY <1>1 DEF DeliveryInv, OwnNumbers, RegistrationsFit, RegisteredFits, conn
<1>7. NetFits'
  <2>1. \A d \in Calls : attempts[d] <= attempts'[d]
    BY <1>1, <1>3 DEF TypeOK, Undisturbed
  <2>2. \A p \in Peers : peerSeq[p] <= peerSeq'[p]
    BY DEF TypeOK, peer
  <2>3. \A i \in DOMAIN out' : (\E j \in DOMAIN out : out'[i] = out[j]) \/ out'[i] = c
    <3>1. out \in Seq(Calls)
      BY DEF TypeOK
    <3>2. \A i \in DOMAIN out' : \/ i \in DOMAIN out /\ out'[i] = out[i]
                                 \/ i = Len(out) + 1 /\ out'[i] = c
      BY <1>1, <3>1
    <3> QED
      BY <3>2
  <2> QED
    BY <1>1, <1>3, <2>1, <2>2, <2>3, NetKept DEF DeliveryInv, peer
<1> QED
  BY <1>4, <1>5, <1>6, <1>7, Dequeue DEF DeliveryInv

\* The registration of a call, and of no other, replaces another one of its key.
LEMMA InvRegistered ==
  ASSUME TypeOK, TypeOK', DeliveryInv, NEW c \in Calls, NEW d \in Calls \cup {NoCall}, alive,
         actor # <<>>, Head(actor).call = c, Head(actor).type \in Waits, actor' = Tail(actor),
         UNCHANGED <<seq, msg, attempts, out, conn, resp, peer>>,
         pc' = Overwrite(d), d # NoCall => Registered(d),
         \A e : Registered(e)' => Registered(e) \/ e = c,
         timer' = [timer EXCEPT ![c] = "sleeping"],
         \A e \in Calls : e # c => left'[e] = left[e],
         msg[c].qos = "AtMostOnce" => left'[c] = 0,
         RegistrationsFit'
  PROVE  DeliveryInv'
<1>1. /\ QueuedFits(Head(actor)) /\ Head(actor).type # "Stop" /\ Rank(Head(actor)) = 1
  BY Dequeue DEF Waits, Rank
<1>2. /\ pc[c] \in {"waiting", "dropped"} /\ ~Registered(c) /\ ~Promise!Immediate(msg[c])
  BY <1>1 DEF QueuedFits, Waits, Promise!Immediate
<1>3. c # d /\ pc'[c] = pc[c] /\ timer'[c] = "sleeping"
  BY <1>2, NoCallAssumption DEF Overwrite, TypeOK
<1>4. d # NoCall => /\ d \in Calls /\ pc[d] \in {"waiting", "dropped"}
                    /\ pc'[d] \in {"err", "dropped"} /\ Touched(d)
                    /\ left'[d] = left[d]
  <2>1. ASSUME d # NoCall PROVE d \in Calls /\ pc[d] \in {"waiting", "dropped"}
    BY <2>1, RegisteredCalls DEF Registered
  <2> QED
    BY <1>3, <2>1 DEF Overwrite, TypeOK, Touched
<1>5. \A e \in Calls : e # c /\ e # d => Undisturbed(e)
  BY DEF Overwrite, TypeOK, Undisturbed
<1>6. QueueFits'
  <2>1. \A m : m.type \in {"Send"} \cup Waits => Rank(m) <= 1
    BY DEF Rank
  <2>2. ASSUME NEW i \in DOMAIN actor'
        PROVE  \E j \in DOMAIN actor :
                 /\ actor'[i] = actor[j]
                 /\ actor[j].type # "Stop" => actor[j].call \in Calls \ {c}
    <3>1. PICK j \in DOMAIN actor :
            /\ actor'[i] = actor[j] /\ QueuedFits(actor[j])
            /\ actor[j].type # "Stop" => actor[j].call \in Calls
            /\ actor[j].type # "Stop" /\ actor[j].call = c => 1 < Rank(actor[j])
      BY <1>1, Dequeue
    <3>2. ASSUME actor[j].type # "Stop", actor[j].call = c
          PROVE  FALSE
      <4>1. actor[j].type \notin {"Send"} \cup Waits
        BY <3>1, <3>2 DEF Rank
      <4>2. actor[j] \in Msg
        BY DEF TypeOK
      <4>3. actor[j].type \in {"RetryAck", "RetryAsk"}
        BY <3>2, <4>1, <4>2 DEF Msg, Waits
      <4>4. timer[c] = "queued" /\ timer[c] = "none"
        BY <1>1, <3>1, <3>2, <4>3 DEF QueuedFits
      <4> QED
        BY <4>4
    <3> QED
      BY <3>1, <3>2
  <2>3. \A e \in Calls \ {c} : Undisturbed(e) \/ Touched(e)
    <3> SUFFICES ASSUME NEW e \in Calls \ {c}
                 PROVE  Undisturbed(e) \/ Touched(e)
      OBVIOUS
    <3>1. CASE e = d
      BY <1>4, <3>1, NoCallAssumption
    <3>2. CASE e # d
      BY <1>5, <3>2
    <3> QED
      BY <3>1, <3>2
  <2> QED
    BY <2>2, <2>3, QueueKept DEF DeliveryInv, conn
<1>7. CallsFit'
  <2>1. seq <= seq'
    BY DEF TypeOK, Seqs
  <2>2. \A i \in DOMAIN actor' : \E j \in DOMAIN actor : actor'[i] = actor[j]
    BY Dequeue
  <2>3. ASSUME NEW e \in Calls, e # c, e # d
        PROVE  CallFits(e)'
    BY <1>5, <2>1, <2>2, <2>3, CallKept DEF DeliveryInv, CallsFit
  <2>4. ASSUME d # NoCall
        PROVE  CallFits(d)'
    BY <1>4, <2>4 DEF DeliveryInv, CallsFit, CallFits, Promise!Immediate, Touched
  <2>5. CallFits(c)'
    BY <1>2, <1>3 DEF DeliveryInv, CallsFit, CallFits, Promise!Immediate
  <2> QED
    BY <2>3, <2>4, <2>5, NoCallAssumption DEF CallsFit
<1>8. \A e \in Calls : (pc'[e] # "idle") <=> (pc[e] # "idle")
  <2> SUFFICES ASSUME NEW e \in Calls
               PROVE  (pc'[e] # "idle") <=> (pc[e] # "idle")
    OBVIOUS
  <2>1. CASE e = c
    BY <1>3, <2>1
  <2>2. CASE e = d
    <3>1. pc[e] \in {"waiting", "dropped"} /\ pc'[e] \in {"err", "dropped"}
      BY <1>4, <2>2, NoCallAssumption
    <3> QED
      BY <3>1
  <2>3. CASE e # c /\ e # d
    BY <1>5, <2>3 DEF Undisturbed
  <2> QED
    BY <2>1, <2>2, <2>3
<1>9. OwnNumbers'
  BY <1>8 DEF DeliveryInv, OwnNumbers
<1>10. NetFits'
  <2>1. \A e \in Calls : attempts[e] <= attempts'[e]
    BY DEF TypeOK
  <2>2. \A p \in Peers : peerSeq[p] <= peerSeq'[p]
    BY DEF TypeOK, peer
  <2> QED
    BY <1>8, <2>1, <2>2, NetKept DEF DeliveryInv, peer
<1> QED
  BY <1>6, <1>7, <1>9, <1>10, Dequeue DEF DeliveryInv

LEMMA InvWaitForAck ==
  ASSUME TypeOK, TypeOK', DeliveryInv, NEW c \in Calls, HandleWaitForAck(c), alive,
         actor # <<>>, Head(actor).call = c, Head(actor).type = "WaitForAck", actor' = Tail(actor),
         UNCHANGED <<resp, peer>>
  PROVE  DeliveryInv'
<1> DEFINE n == msg[c].seq
           d == pendingAcks[n]
<1>1. n \in Seqs /\ d \in Calls \cup {NoCall}
  BY DEF TypeOK, Message
<1>2. /\ pc' = Overwrite(d) /\ pendingAcks' = [pendingAcks EXCEPT ![n] = c]
      /\ timer' = [timer EXCEPT ![c] = "sleeping"]
      /\ \A e \in Calls : e # c => left'[e] = left[e]
      /\ UNCHANGED <<seq, msg, pendingReplies, attempts, out, conn, alive>>
  BY DEF HandleWaitForAck, Spawn, conn, TypeOK
<1>3. /\ msg[c].kind # "ask" /\ msg[c].qos = "AtLeastOnce"
      /\ pc[c] \in {"waiting", "dropped"} /\ ~Registered(c)
  BY Dequeue DEF QueuedFits, Waits
<1>4. d # NoCall => Registered(d) /\ msg[d].kind # "ask" /\ msg[d].seq = n
  BY <1>1, RegisteredCalls
<1>5. \A k \in Seqs : pendingAcks'[k] = IF k = n THEN c ELSE pendingAcks[k]
  BY <1>1, <1>2 DEF TypeOK
<1>6. \A e : Registered(e)' => Registered(e) \/ e = c
  BY <1>2, <1>5 DEF Registered
<1>7. /\ c # d /\ pc'[c] = pc[c]
      /\ \A e \in Calls : e # d => pc'[e] = pc[e]
  BY <1>2, <1>3, <1>4, NoCallAssumption DEF Overwrite, TypeOK
<1> HIDE DEF n, d
<1>8. RegistrationsFit'
  <2>1. ASSUME NEW k \in Seqs, pendingAcks'[k] # NoCall
        PROVE  /\ alive' /\ pc'[pendingAcks'[k]] \in {"waiting", "dropped"}
               /\ msg'[pendingAcks'[k]].kind # "ask" /\ msg'[pendingAcks'[k]].qos = "AtLeastOnce"
               /\ msg'[pendingAcks'[k]].seq = k
    <3>1. CASE k = n
      BY <1>2, <1>3, <1>5, <1>7, <3>1 DEF n
    <3>2. CASE k # n
      <4>1. pendingAcks'[k] = pendingAcks[k]
        BY <1>5, <3>2
      <4> DEFINE e == pendingAcks[k]
      <4>2. /\ e \in Calls /\ alive /\ pc[e] \in {"waiting", "dropped"}
            /\ msg[e].kind # "ask" /\ msg[e].seq = k
        BY <2>1, <4>1, RegisteredCalls
      <4>3. msg[e].qos = "AtLeastOnce"
        BY <2>1, <4>1 DEF DeliveryInv, RegistrationsFit
      <4>4. e # d
        BY <1>4, <3>2, <4>2, NoCallAssumption
      <4> QED
        BY <1>2, <1>7, <4>1, <4>2, <4>3, <4>4
    <3> QED
      BY <3>1, <3>2
  <2>2. ASSUME NEW k \in Peers \X Seqs, pendingReplies[k] # NoCall
        PROVE  /\ alive' /\ pc'[pendingReplies[k]] \in {"waiting", "dropped"}
               /\ msg'[pendingReplies[k]].kind = "ask"
               /\ <<msg'[pendingReplies[k]].to, msg'[pendingReplies[k]].seq>> = k
    <3> DEFINE e == pendingReplies[k]
    <3>1. /\ e \in Calls /\ alive /\ pc[e] \in {"waiting", "dropped"}
          /\ msg[e].kind = "ask" /\ <<msg[e].to, msg[e].seq>> = k
      BY <2>2, RegisteredCalls
    <3>2. e # d
      BY <1>4, <3>1, NoCallAssumption
    <3> QED
      BY <1>2, <1>7, <3>1, <3>2
  <2> QED
    BY <1>2, <2>1, <2>2 DEF RegistrationsFit, RegisteredFits
<1>9. d # NoCall => Registered(d)
  BY <1>4
<1> QED
  BY <1>1, <1>2, <1>3, <1>6, <1>8, <1>9, InvRegistered DEF Waits

LEMMA InvWaitForReply ==
  ASSUME TypeOK, TypeOK', DeliveryInv, NEW c \in Calls, HandleWaitForReply(c), alive,
         actor # <<>>, Head(actor).call = c, Head(actor).type = "WaitForReply",
         actor' = Tail(actor), UNCHANGED <<resp, peer>>
  PROVE  DeliveryInv'
<1> DEFINE n == <<msg[c].to, msg[c].seq>>
           d == pendingReplies[n]
<1>1. n \in Peers \X Seqs /\ d \in Calls \cup {NoCall}
  BY DEF TypeOK, Message
<1>2. /\ pc' = Overwrite(d) /\ pendingReplies' = [pendingReplies EXCEPT ![n] = c]
      /\ timer' = [timer EXCEPT ![c] = "sleeping"]
      /\ \A e \in Calls : e # c => left'[e] = left[e]
      /\ msg[c].qos = "AtMostOnce" => left'[c] = 0
      /\ UNCHANGED <<seq, msg, pendingAcks, attempts, out, conn, alive>>
  BY DEF HandleWaitForReply, Spawn, conn, TypeOK
<1>3. msg[c].kind = "ask" /\ pc[c] \in {"waiting", "dropped"} /\ ~Registered(c)
  BY Dequeue DEF QueuedFits, Waits
<1>4. d # NoCall => /\ Registered(d) /\ msg[d].kind = "ask"
                    /\ <<msg[d].to, msg[d].seq>> = n
  BY <1>1, RegisteredCalls
<1> HIDE DEF n
<1>5. \A k \in Peers \X Seqs : pendingReplies'[k] = IF k = n THEN c ELSE pendingReplies[k]
  BY <1>1, <1>2 DEF TypeOK
<1>6. \A e : Registered(e)' => Registered(e) \/ e = c
  BY <1>2, <1>5 DEF Registered
<1>7. /\ c # d /\ pc'[c] = pc[c]
      /\ \A e \in Calls : e # d => pc'[e] = pc[e]
  BY <1>2, <1>3, <1>4, NoCallAssumption DEF Overwrite, TypeOK
<1> HIDE DEF d
<1>8. RegistrationsFit'
  <2>1. ASSUME NEW k \in Peers \X Seqs, pendingReplies'[k] # NoCall
        PROVE  /\ alive' /\ pc'[pendingReplies'[k]] \in {"waiting", "dropped"}
               /\ msg'[pendingReplies'[k]].kind = "ask"
               /\ <<msg'[pendingReplies'[k]].to, msg'[pendingReplies'[k]].seq>> = k
    <3>1. CASE k = n
      BY <1>2, <1>3, <1>5, <1>7, <3>1 DEF n
    <3>2. CASE k # n
      <4>1. pendingReplies'[k] = pendingReplies[k]
        BY <1>5, <3>2
      <4> DEFINE e == pendingReplies[k]
      <4>2. /\ e \in Calls /\ alive /\ pc[e] \in {"waiting", "dropped"}
            /\ msg[e].kind = "ask" /\ <<msg[e].to, msg[e].seq>> = k
        BY <2>1, <4>1, RegisteredCalls
      <4>3. e # d
        BY <1>4, <3>2, <4>2, NoCallAssumption
      <4> QED
        BY <1>2, <1>7, <4>1, <4>2, <4>3
    <3> QED
      BY <3>1, <3>2
  <2>2. ASSUME NEW k \in Seqs, pendingAcks[k] # NoCall
        PROVE  /\ alive' /\ pc'[pendingAcks[k]] \in {"waiting", "dropped"}
               /\ msg'[pendingAcks[k]].kind # "ask" /\ msg'[pendingAcks[k]].qos = "AtLeastOnce"
               /\ msg'[pendingAcks[k]].seq = k
    <3> DEFINE e == pendingAcks[k]
    <3>1. /\ e \in Calls /\ alive /\ pc[e] \in {"waiting", "dropped"}
          /\ msg[e].kind # "ask" /\ msg[e].seq = k
      BY <2>2, RegisteredCalls
    <3>2. msg[e].qos = "AtLeastOnce"
      BY <2>2 DEF DeliveryInv, RegistrationsFit
    <3>3. e # d
      BY <1>4, <3>1, NoCallAssumption
    <3> QED
      BY <1>2, <1>7, <3>1, <3>2, <3>3
  <2> QED
    BY <1>2, <2>1, <2>2 DEF RegistrationsFit, RegisteredFits
<1>9. d # NoCall => Registered(d)
  BY <1>4
<1> QED
  BY <1>1, <1>2, <1>3, <1>6, <1>8, <1>9, InvRegistered DEF Waits

\* A retry: the chain of one call goes on, or ends, and the registered call is sent again.
LEMMA InvRetry ==
  ASSUME TypeOK, TypeOK', DeliveryInv, NEW c \in Calls, NEW d \in Calls \cup {NoCall},
         Retry(c, d), alive, actor # <<>>, Head(actor).call = c,
         Head(actor).type \in {"RetryAck", "RetryAsk"}, actor' = Tail(actor),
         UNCHANGED <<resp, peer>>,
         d # NoCall => Registered(d),
         d # NoCall /\ ~IsZero(left[c]) => msg[d].qos # "AtMostOnce"
  PROVE  DeliveryInv'
<1>1. /\ UNCHANGED <<seq, pc, msg, pendingAcks, pendingReplies, alive>>
      /\ \A e \in Calls : e # c => timer'[e] = timer[e] /\ left'[e] = left[e]
      /\ \A e \in Calls : e # d => attempts'[e] = attempts[e]
      /\ \A e : Registered(e)' = Registered(e)
  <2>1. UNCHANGED <<seq, pc, msg, pendingAcks, pendingReplies, alive>>
    BY DEF Retry, api, conn
  <2>2. CASE d = NoCall \/ IsZero(left[c])
    BY <2>1, <2>2 DEF Retry, TypeOK, Registered
  <2>3. CASE ~(d = NoCall \/ IsZero(left[c]))
    BY <2>1, <2>3 DEF Retry, Transmit, Spawn, TypeOK, Registered
  <2> QED
    BY <2>2, <2>3
<1>2. /\ timer[c] = "queued" /\ pc[c] \notin {"idle", "posted"} /\ ~Promise!Immediate(msg[c])
      /\ Head(actor).type # "Stop" /\ Rank(Head(actor)) = 2
  <2>1. QueuedFits(Head(actor)) /\ Head(actor).type # "Stop" /\ Rank(Head(actor)) = 2
    BY Dequeue DEF Waits, Rank
  <2>2. timer[c] = "queued"
    BY <2>1 DEF QueuedFits
  <2>3. CallFits(c)
    BY DEF DeliveryInv, CallsFit
  <2> QED
    BY <2>1, <2>2, <2>3 DEF CallFits
<1>3. d # NoCall => /\ d \in Calls /\ pc[d] \in {"waiting", "dropped"}
  BY RegisteredCalls DEF Registered
<1>4. \A e \in Calls : attempts[e] <= attempts'[e]
  <2>1. \A e \in Calls : attempts[e] \in Nat /\ AttemptCap \in Nat
    BY BoundsAssumption DEF TypeOK
  <2>2. d \in Calls /\ attempts'[d] # attempts[d] => attempts'[d] = Bump(attempts[d])
    BY DEF Retry, Transmit, TypeOK
  <2>3. \A n \in Nat : n <= Bump(n)
    BY BoundsAssumption DEF Bump
  <2> QED
    BY <1>1, <2>1, <2>2, <2>3
<1>5. ASSUME d # NoCall, ~IsZero(left[c])
      PROVE  out' = Append(out, d) /\ attempts'[d] > 0
  <2>1. d \in Calls /\ attempts[d] \in Nat /\ AttemptCap \in Nat \ {0}
    BY <1>3, <1>5, BoundsAssumption DEF TypeOK
  <2>2. out' = Append(out, d) /\ attempts'[d] = Bump(attempts[d])
    BY <1>5, <2>1 DEF Retry, Transmit, TypeOK
  <2> QED
    BY <2>1, <2>2 DEF Bump
<1>6. d = NoCall \/ IsZero(left[c]) => UNCHANGED <<out, attempts, left>>
  BY DEF Retry
<1>7. \A e \in Calls \ {c} : Undisturbed(e) \/ Touched(e)
  <2> SUFFICES ASSUME NEW e \in Calls \ {c}
               PROVE  Undisturbed(e) \/ Touched(e)
    OBVIOUS
  <2>1. CASE e = d
    <3>1. d # NoCall /\ d \in Calls /\ pc[d] \in {"waiting", "dropped"} /\ Registered(d)
      BY <1>3, <2>1, NoCallAssumption
    <3> QED
      BY <1>1, <2>1, <3>1 DEF Touched
  <2>2. CASE e # d
    BY <1>1, <2>2 DEF Undisturbed
  <2> QED
    BY <2>1, <2>2
<1>8. QueueFits'
  <2>1. \A m : Rank(m) <= 2
    BY DEF Rank
  <2>2. ASSUME NEW i \in DOMAIN actor'
        PROVE  \E j \in DOMAIN actor :
                 /\ actor'[i] = actor[j]
                 /\ actor[j].type # "Stop" => actor[j].call \in Calls \ {c}
    <3>1. PICK j \in DOMAIN actor :
            /\ actor'[i] = actor[j]
            /\ actor[j].type # "Stop" => actor[j].call \in Calls
            /\ actor[j].type # "Stop" /\ actor[j].call = c => 2 < Rank(actor[j])
      BY <1>2, Dequeue
    <3>2. Rank(actor[j]) \in Int
      BY DEF Rank
    <3> QED
      BY <2>1, <3>1, <3>2
  <2> QED
    BY <1>1, <1>7, <2>2, QueueKept DEF DeliveryInv
<1>9. CallsFit'
  <2>1. seq <= seq'
    BY <1>1 DEF TypeOK, Seqs
  <2>2. \A i \in DOMAIN actor' : \E j \in DOMAIN actor : actor'[i] = actor[j]
    BY Dequeue
  <2>3. \A e \in Calls : CallFits(e)
    BY DEF DeliveryInv, CallsFit
  <2>4. ASSUME NEW e \in Calls, e # c, e # d
        PROVE  CallFits(e)'
    <3>1. Undisturbed(e)
      BY <1>1, <2>4 DEF Undisturbed
    <3> QED
      BY <1>1, <2>1, <2>2, <2>3, <2>4, <3>1, CallKept
  <2>5. ASSUME NEW e \in Calls, e = c \/ e = d
        PROVE  msg[e].qos = "AtMostOnce" => attempts'[e] <= 1 /\ left'[e] = 0
    <3> HAVE msg[e].qos = "AtMostOnce"
    <3>1. attempts[e] <= 1 /\ left[e] = 0
      BY <2>3 DEF CallFits
    <3>2. d = NoCall \/ IsZero(left[c])
      BY <2>5, <3>1 DEF IsZero
    <3> QED
      BY <1>6, <3>1, <3>2
  <2>6. ASSUME NEW e \in Calls, e = c \/ e = d
        PROVE  CallFits(e)'
    <3>1. pc'[e] = pc[e] /\ pc[e] \notin {"idle", "posted"} /\ msg'[e] = msg[e] /\ seq' = seq
      BY <1>1, <1>2, <1>3, <2>6, NoCallAssumption
    <3>2. pc[e] = "waiting" \/ timer'[e] # "none" => ~Promise!Immediate(msg[e])
      BY <1>1, <1>2, <2>3, <2>6 DEF CallFits
    <3> QED
      BY <2>3, <2>5, <2>6, <3>1, <3>2 DEF CallFits, Promise!Immediate
  <2> QED
    BY <2>4, <2>6 DEF CallsFit
<1>10. OwnNumbers' /\ RegistrationsFit'
  BY <1>1 DEF DeliveryInv, OwnNumbers, RegistrationsFit, RegisteredFits
<1>11. NetFits'
  <2>1. \A p \in Peers : peerSeq[p] <= peerSeq'[p]
    BY DEF TypeOK, peer
  <2>2. ASSUME NEW i \in DOMAIN out'
        PROVE  \/ \E j \in DOMAIN out : out'[i] = out[j]
               \/ \E e \in Calls : out'[i] = e /\ pc'[e] # "idle" /\ attempts'[e] > 0
    <3>1. CASE d = NoCall \/ IsZero(left[c])
      BY <1>6, <3>1
    <3>2. CASE d # NoCall /\ ~IsZero(left[c])
      <4>1. out \in Seq(Calls) /\ out' = Append(out, d) /\ attempts'[d] > 0
        BY <1>5, <3>2 DEF TypeOK
      <4>2. \/ i \in DOMAIN out /\ out'[i] = out[i]
            \/ i = Len(out) + 1 /\ out'[i] = d
        BY <4>1
      <4> QED
        BY <1>1, <1>3, <3>2, <4>1, <4>2
    <3> QED
      BY <3>1, <3>2
  <2> QED
    BY <1>1, <1>4, <2>1, <2>2, NetKept DEF DeliveryInv, peer
<1> QED
  BY <1>8, <1>9, <1>10, <1>11, Dequeue DEF DeliveryInv

\* The registration that a retry finds under the key of its call: only the call itself
\* has it under an AtMostOnce ask, whose chain has no retries.
LEMMA RetryFinds ==
  ASSUME TypeOK, DeliveryInv, NEW c \in Calls, actor # <<>>, actor' = Tail(actor),
         Head(actor).call = c,
         \/ Head(actor).type = "RetryAck" /\ HandleRetryAck(c)
         \/ Head(actor).type = "RetryAsk" /\ HandleRetryAsk(c)
  PROVE  \E d \in Calls \cup {NoCall} :
           /\ Retry(c, d)
           /\ d # NoCall => Registered(d)
           /\ d = NoCall => ~Registered(c)
           /\ d # NoCall => CountsFor(d, c)
           /\ d # NoCall /\ ~IsZero(left[c]) => msg[d].qos # "AtMostOnce"
<1>1. QueuedFits(Head(actor)) /\ msg[c].seq \in Seqs /\ <<msg[c].to, msg[c].seq>> \in Peers \X Seqs
  BY Dequeue DEF TypeOK, Message
<1>2. pc[c] # "idle" /\ \A d \in Calls : pc[d] # "idle" /\ msg[d].seq = msg[c].seq => CountsFor(d, c)
  BY <1>1 DEF QueuedFits, DeliveryInv, OwnNumbers, CountsFor
<1>3. CASE Head(actor).type = "RetryAck" /\ HandleRetryAck(c)
  <2> DEFINE d == pendingAcks[msg[c].seq]
  <2>1. d \in Calls \cup {NoCall} /\ Retry(c, d)
    BY <1>1, <1>3 DEF TypeOK, HandleRetryAck
  <2>2. d # NoCall => Registered(d)
    BY <1>1 DEF Registered
  <2>3. d # NoCall => msg[d].qos # "AtMostOnce"
    BY <1>1 DEF DeliveryInv, RegistrationsFit
  <2>4. d = NoCall => ~Registered(c)
    <3>1. msg[c].kind # "ask"
      BY <1>1, <1>3 DEF QueuedFits
    <3> QED
      BY <3>1, RegisteredCalls, NoCallAssumption DEF Registered
  <2>5. d # NoCall => d \in Calls /\ pc[d] # "idle" /\ msg[d].seq = msg[c].seq
    BY <1>1, RegisteredCalls
  <2> HIDE DEF d
  <2> QED
    BY <1>2, <2>1, <2>2, <2>3, <2>4, <2>5
<1>4. CASE Head(actor).type = "RetryAsk" /\ HandleRetryAsk(c)
  <2> DEFINE k == <<msg[c].to, msg[c].seq>>
             d == pendingReplies[k]
  <2>1. d \in Calls \cup {NoCall} /\ Retry(c, d)
    BY <1>1, <1>4 DEF TypeOK, HandleRetryAsk
  <2>2. d # NoCall => Registered(d)
    BY <1>1 DEF Registered
  <2>3. d # NoCall => d \in Calls /\ msg[d].kind = "ask" /\ msg[d].seq = msg[c].seq /\ pc[d] # "idle"
    BY <1>1, RegisteredCalls
  <2>4. msg[c].kind = "ask" /\ pc[c] # "idle"
    BY <1>1, <1>4 DEF QueuedFits
  <2>5. d # NoCall => d = c
    BY <2>3, <2>4 DEF DeliveryInv, OwnNumbers
  <2>6. msg[c].qos = "AtMostOnce" => IsZero(left[c])
    BY DEF DeliveryInv, CallsFit, CallFits, IsZero
  <2>7. d = NoCall => ~Registered(c)
    BY <2>4, RegisteredCalls, NoCallAssumption DEF Registered
  <2> HIDE DEF d
  <2> QED
    BY <1>2, <2>1, <2>2, <2>3, <2>5, <2>6, <2>7
<1> QED
  BY <1>3, <1>4

\* The end of the actor: nothing is registered any more.
LEMMA InvGone ==
  ASSUME TypeOK, TypeOK', DeliveryInv, Gone, QueueInOrder', UNCHANGED <<resp, peer>>,
         \A i \in DOMAIN actor' : \E j \in DOMAIN actor : actor'[i] = actor[j]
  PROVE  DeliveryInv'
<1>1. /\ ~alive'
      /\ \A e : ~Registered(e)' \/ e = NoCall
      /\ \A e \in Calls : pc'[e] = pc[e] \/ (pc[e] = "waiting" /\ pc'[e] = "err")
      /\ UNCHANGED <<seq, msg, timer, left, attempts, out>>
  BY DEF Gone, Registered, TypeOK
<1>2. \A e \in Calls : ~Registered(e)'
  BY <1>1, NoCallAssumption
<1>3. \A e \in Calls : (pc'[e] # "idle" <=> pc[e] # "idle") /\ (pc'[e] = "posted" <=> pc[e] = "posted")
  BY <1>1
<1>4. QueueFits'
  <2> SUFFICES ASSUME NEW i \in DOMAIN actor'
               PROVE  QueuedFits(actor[i])'
    BY DEF QueueFits
  <2>1. PICK j \in DOMAIN actor : actor'[i] = actor[j]
    OBVIOUS
  <2>2. QueuedFits(actor[j]) /\ actor[j] \in Msg
    BY DEF DeliveryInv, QueueFits, TypeOK
  <2>3. actor[j].type # "Stop" => actor[j].call \in Calls
    BY <2>2 DEF Msg
  <2> QED
    BY <1>1, <1>2, <1>3, <2>1, <2>2, <2>3 DEF QueuedFits, Waits
<1>5. CallsFit'
  <2> SUFFICES ASSUME NEW e \in Calls
               PROVE  CallFits(e)'
    BY DEF CallsFit
  <2>1. CallFits(e)
    BY DEF DeliveryInv, CallsFit
  <2>2. pc'[e] = "waiting" => pc[e] = "waiting"
    BY <1>1
  <2> QED
    BY <1>1, <1>2, <1>3, <2>1, <2>2 DEF CallFits, Promise!Immediate
<1>6. OwnNumbers'
  BY <1>1, <1>3 DEF DeliveryInv, OwnNumbers
<1>7. RegistrationsFit'
  <2>1. /\ \A n \in Seqs : pendingAcks'[n] = NoCall
        /\ \A k \in Peers \X Seqs : pendingReplies'[k] = NoCall
    BY DEF Gone
  <2> QED
    BY <2>1 DEF RegistrationsFit
<1>8. NetFits'
  <2>1. \A e \in Calls : attempts[e] <= attempts'[e]
    BY <1>1 DEF TypeOK
  <2>2. \A p \in Peers : peerSeq[p] <= peerSeq'[p]
    BY DEF TypeOK, peer
  <2> QED
    BY <1>1, <1>3, <2>1, <2>2, NetKept DEF DeliveryInv, peer
<1> QED
  BY <1>4, <1>5, <1>6, <1>7, <1>8 DEF DeliveryInv

\* An ack or a reply settles the registration of its key.
LEMMA InvSettled ==
  ASSUME TypeOK, TypeOK', DeliveryInv, NEW d \in Calls \cup {NoCall},
         d # NoCall => Registered(d),
         pc' = [c \in Calls |-> IF c = d /\ pc[c] = "waiting" THEN "ok" ELSE pc[c]],
         \A e : Registered(e)' => Registered(e) \/ e = NoCall,
         RegistrationsFit', resp # <<>>, resp' = Tail(resp),
         UNCHANGED <<seq, msg, actor, timer, left, attempts, alive, out, peer>>
  PROVE  DeliveryInv'
<1>1. d # NoCall => d \in Calls /\ pc[d] \in {"waiting", "dropped"}
  BY RegisteredCalls DEF Registered
<1>2. \A e \in Calls : \/ pc'[e] = pc[e]
                       \/ e = d /\ d # NoCall /\ pc[e] = "waiting" /\ pc'[e] = "ok"
  BY NoCallAssumption
<1>3. ASSUME NEW e \in Calls
      PROVE  Undisturbed(e) \/ Touched(e)
  BY <1>2, NoCallAssumption DEF Undisturbed, Touched
<1>4. QueueFits'
  <2>1. \A i \in DOMAIN actor : actor[i].type # "Stop" => actor[i].call \in Calls
    BY DEF TypeOK, Msg
  <2> QED
    BY <1>3, <2>1, QueueKept DEF DeliveryInv
<1>5. QueueInOrder'
  BY DEF DeliveryInv, QueueInOrder, Rank
<1>6. CallsFit'
  <2> SUFFICES ASSUME NEW e \in Calls
               PROVE  CallFits(e)'
    BY DEF CallsFit
  <2>1. CallFits(e)
    BY DEF DeliveryInv, CallsFit
  <2>2. seq <= seq'
    BY DEF TypeOK, Seqs
  <2>3. CASE Undisturbed(e)
    BY <2>1, <2>2, <2>3, CallKept
  <2>4. CASE ~Undisturbed(e)
    <3>1. pc[e] = "waiting" /\ pc'[e] = "ok"
      BY <1>2, <2>4, NoCallAssumption DEF Undisturbed
    <3> QED
      BY <2>1, <3>1 DEF CallFits, Promise!Immediate
  <2> QED
    BY <2>3, <2>4
<1>7. \A e \in Calls : pc'[e] # "idle" <=> pc[e] # "idle"
  BY <1>2
<1>8. OwnNumbers'
  BY <1>7 DEF DeliveryInv, OwnNumbers
<1>9. NetFits'
  <2>1. \A e \in Calls : attempts[e] <= attempts'[e]
    BY DEF TypeOK
  <2>2. \A p \in Peers : peerSeq[p] <= peerSeq'[p]
    BY DEF TypeOK, peer
  <2>3. \A i \in DOMAIN resp' : \E j \in DOMAIN resp : resp'[i] = resp[j]
    <3>1. resp \in Seq(Response)
      BY DEF TypeOK
    <3>2. \A i \in DOMAIN resp' : i + 1 \in DOMAIN resp /\ resp'[i] = resp[i + 1]
      BY <3>1
    <3> QED
      BY <3>2
  <2> QED
    BY <1>7, <2>1, <2>2, <2>3, NetKept DEF DeliveryInv, peer
<1> QED
  BY <1>4, <1>5, <1>6, <1>8, <1>9 DEF DeliveryInv

LEMMA InvHandleAck ==
  ASSUME TypeOK, TypeOK', DeliveryInv, HandleAck
  PROVE  DeliveryInv'
<1> DEFINE n == Head(resp).seq
           d == pendingAcks[n]
<1>1. n \in Seqs /\ d \in Calls \cup {NoCall}
  <2>1. Head(resp) \in Response /\ Head(resp).type = "Ack"
    BY DEF HandleAck, TypeOK
  <2>2. n \in Seqs
    BY <2>1 DEF Response
  <2> QED
    BY <2>2 DEF TypeOK
<1>2. /\ pc' = [c \in Calls |-> IF c = d /\ pc[c] = "waiting" THEN "ok" ELSE pc[c]]
      /\ pendingAcks' = [pendingAcks EXCEPT ![n] = NoCall]
      /\ resp # <<>> /\ resp' = Tail(resp)
      /\ UNCHANGED <<seq, msg, actor, pendingReplies, timer, left, attempts, alive, out, peer>>
  BY DEF HandleAck, conn
<1>3. d # NoCall => Registered(d) /\ msg[d].kind # "ask" /\ msg[d].seq = n
  BY <1>1, RegisteredCalls
<1> HIDE DEF n
<1>4. \A k \in Seqs : pendingAcks'[k] = IF k = n THEN NoCall ELSE pendingAcks[k]
  BY <1>1, <1>2 DEF TypeOK
<1>5. \A e : Registered(e)' => Registered(e) \/ e = NoCall
  BY <1>2, <1>4 DEF Registered
<1>6. \A e \in Calls : e # d => pc'[e] = pc[e]
  BY <1>2
<1> HIDE DEF d
<1>7. RegistrationsFit'
  <2>1. ASSUME NEW k \in Seqs, pendingAcks'[k] # NoCall
        PROVE  /\ alive' /\ pc'[pendingAcks'[k]] \in {"waiting", "dropped"}
               /\ msg'[pendingAcks'[k]].kind # "ask" /\ msg'[pendingAcks'[k]].qos = "AtLeastOnce"
               /\ msg'[pendingAcks'[k]].seq = k
    <3>1. pendingAcks'[k] = pendingAcks[k] /\ k # n
      BY <1>4, <2>1
    <3> DEFINE e == pendingAcks[k]
    <3>2. /\ e \in Calls /\ alive /\ pc[e] \in {"waiting", "dropped"}
          /\ msg[e].kind # "ask" /\ msg[e].seq = k
      BY <2>1, <3>1, RegisteredCalls
    <3>3. msg[e].qos = "AtLeastOnce"
      BY <2>1, <3>1 DEF DeliveryInv, RegistrationsFit
    <3>4. e # d
      BY <1>3, <3>1, <3>2, NoCallAssumption
    <3> QED
      BY <1>2, <1>6, <3>1, <3>2, <3>3, <3>4
  <2>2. ASSUME NEW k \in Peers \X Seqs, pendingReplies[k] # NoCall
        PROVE  /\ alive' /\ pc'[pendingReplies[k]] \in {"waiting", "dropped"}
               /\ msg'[pendingReplies[k]].kind = "ask"
               /\ <<msg'[pendingReplies[k]].to, msg'[pendingReplies[k]].seq>> = k
    <3> DEFINE e == pendingReplies[k]
    <3>1. /\ e \in Calls /\ alive /\ pc[e] \in {"waiting", "dropped"}
          /\ msg[e].kind = "ask" /\ <<msg[e].to, msg[e].seq>> = k
      BY <2>2, RegisteredCalls
    <3>2. e # d
      BY <1>3, <3>1, NoCallAssumption
    <3> QED
      BY <1>2, <1>6, <3>1, <3>2
  <2> QED
    BY <1>2, <2>1, <2>2 DEF RegistrationsFit, RegisteredFits
<1> QED
  BY <1>1, <1>2, <1>3, <1>5, <1>7, InvSettled

LEMMA InvHandlePayload ==
  ASSUME TypeOK, TypeOK', DeliveryInv, HandlePayload
  PROVE  DeliveryInv'
<1> DEFINE r == Head(resp).payload
           n == <<r.from, r.seq>>
           d == pendingReplies[n]
<1>1. n \in Peers \X Seqs /\ d \in Calls \cup {NoCall}
  <2>1. r \in Payload
    BY DEF HandlePayload, TypeOK, Response
  <2>2. n \in Peers \X Seqs
    BY <2>1 DEF Payload
  <2> QED
    BY <2>2 DEF TypeOK
<1>2. /\ pc' = [c \in Calls |-> IF c = d /\ pc[c] = "waiting" THEN "ok" ELSE pc[c]]
      /\ pendingReplies' = [pendingReplies EXCEPT ![n] = NoCall]
      /\ resp # <<>> /\ resp' = Tail(resp)
      /\ UNCHANGED <<seq, msg, actor, pendingAcks, timer, left, attempts, alive, out, peer>>
  BY DEF HandlePayload, conn
<1>3. d # NoCall => Registered(d) /\ msg[d].kind = "ask" /\ <<msg[d].to, msg[d].seq>> = n
  BY <1>1, RegisteredCalls
<1> HIDE DEF n
<1>4. \A k \in Peers \X Seqs : pendingReplies'[k] = IF k = n THEN NoCall ELSE pendingReplies[k]
  BY <1>1, <1>2 DEF TypeOK
<1>5. \A e : Registered(e)' => Registered(e) \/ e = NoCall
  BY <1>2, <1>4 DEF Registered
<1>6. \A e \in Calls : e # d => pc'[e] = pc[e]
  BY <1>2
<1> HIDE DEF d
<1>7. RegistrationsFit'
  <2>1. ASSUME NEW k \in Peers \X Seqs, pendingReplies'[k] # NoCall
        PROVE  /\ alive' /\ pc'[pendingReplies'[k]] \in {"waiting", "dropped"}
               /\ msg'[pendingReplies'[k]].kind = "ask"
               /\ <<msg'[pendingReplies'[k]].to, msg'[pendingReplies'[k]].seq>> = k
    <3>1. pendingReplies'[k] = pendingReplies[k] /\ k # n
      BY <1>4, <2>1
    <3> DEFINE e == pendingReplies[k]
    <3>2. /\ e \in Calls /\ alive /\ pc[e] \in {"waiting", "dropped"}
          /\ msg[e].kind = "ask" /\ <<msg[e].to, msg[e].seq>> = k
      BY <2>1, <3>1, RegisteredCalls
    <3>3. e # d
      BY <1>3, <3>1, <3>2, NoCallAssumption
    <3> QED
      BY <1>2, <1>6, <3>1, <3>2, <3>3
  <2>2. ASSUME NEW k \in Seqs, pendingAcks[k] # NoCall
        PROVE  /\ alive' /\ pc'[pendingAcks[k]] \in {"waiting", "dropped"}
               /\ msg'[pendingAcks[k]].kind # "ask" /\ msg'[pendingAcks[k]].qos = "AtLeastOnce"
               /\ msg'[pendingAcks[k]].seq = k
    <3> DEFINE e == pendingAcks[k]
    <3>1. /\ e \in Calls /\ alive /\ pc[e] \in {"waiting", "dropped"}
          /\ msg[e].kind # "ask" /\ msg[e].seq = k
      BY <2>2, RegisteredCalls
    <3>2. msg[e].qos = "AtLeastOnce"
      BY <2>2 DEF DeliveryInv, RegistrationsFit
    <3>3. e # d
      BY <1>3, <3>1, NoCallAssumption
    <3> QED
      BY <1>2, <1>6, <3>1, <3>2, <3>3
  <2> QED
    BY <1>2, <2>1, <2>2 DEF RegistrationsFit, RegisteredFits
<1> QED
  BY <1>1, <1>2, <1>3, <1>5, <1>7, InvSettled

LEMMA InvTimerFire ==
  ASSUME TypeOK, TypeOK', DeliveryInv, NEW c \in Calls, TimerFire(c)
  PROVE  DeliveryInv'
<1> DEFINE w == [type |-> IF msg[c].kind = "ask" THEN "RetryAsk" ELSE "RetryAck", call |-> c]
<1>1. /\ timer[c] = "sleeping"
      /\ alive => actor' = Append(actor, w) /\ timer' = [timer EXCEPT ![c] = "queued"]
      /\ ~alive => actor' = actor /\ timer' = [timer EXCEPT ![c] = "none"]
      /\ UNCHANGED <<seq, pc, msg, pendingAcks, pendingReplies, left, attempts, alive,
                     out, resp, peer>>
  BY DEF TimerFire, Tell, api, conn
<1>2. /\ w \in Msg /\ w.call = c /\ w.type \in {"RetryAck", "RetryAsk"} /\ Rank(w) = 2
      /\ w.type = "RetryAsk" => msg[c].kind = "ask"
      /\ w.type = "RetryAck" => msg[c].kind # "ask"
  BY DEF Msg, Waits, Rank
<1> HIDE DEF w
<1>3. \A i \in DOMAIN actor : actor[i].type # "Stop" => actor[i].call \in Calls \ {c}
  <2>1. ASSUME NEW i \in DOMAIN actor, actor[i].type # "Stop"
        PROVE  actor[i].call \in Calls \ {c}
    <3>1. actor[i] \in Msg /\ QueuedFits(actor[i])
      BY DEF TypeOK, DeliveryInv, QueueFits
    <3>2. timer[actor[i].call] \in {"none", "queued"} /\ actor[i].call \in Calls
      BY <2>1, <3>1 DEF QueuedFits, Msg, Waits
    <3> QED
      BY <1>1, <3>2
  <2> QED
    BY <2>1
<1>4. /\ pc[c] \notin {"idle", "posted"} /\ ~Promise!Immediate(msg[c])
      /\ CallFits(c)
  BY <1>1 DEF DeliveryInv, CallsFit, CallFits
<1>5. /\ timer'[c] = IF alive THEN "queued" ELSE "none"
      /\ \A d : Registered(d)' = Registered(d)
      /\ \A d \in Calls \ {c} : Undisturbed(d)
  BY <1>1 DEF TypeOK, Undisturbed, Registered
<1>6. /\ QueueInOrder'
      /\ \A i \in DOMAIN actor' :
           \/ i \in DOMAIN actor /\ actor'[i] = actor[i]
           \/ alive /\ actor'[i] = w
  <2>1. CASE ~alive
    BY <1>1, <2>1 DEF DeliveryInv, QueueInOrder, Rank
  <2>2. CASE alive
    <3>1. \A i \in DOMAIN actor : actor[i].type # "Stop" => actor[i].call # w.call
      BY <1>2, <1>3
    <3> QED
      BY <1>1, <1>2, <2>2, <3>1, QueueAppend DEF DeliveryInv
  <2> QED
    BY <2>1, <2>2
<1>7. QueueFits'
  <2>1. ASSUME NEW i \in DOMAIN actor', alive, actor'[i] = w
        PROVE  QueuedFits(actor[i])'
    <3>1. msg[c].kind # "ask" => msg[c].qos = "AtLeastOnce"
      BY <1>4 DEF Promise!Immediate, TypeOK, Message, QoS
    <3> QED
      BY <1>1, <1>2, <1>4, <1>5, <2>1, <3>1 DEF QueuedFits, Waits
  <2> QED
    BY <1>1, <1>3, <1>5, <1>6, <2>1, QueueKept DEF DeliveryInv
<1>8. CallsFit'
  <2>1. seq <= seq'
    BY <1>1 DEF TypeOK, Seqs
  <2>2. ASSUME NEW d \in Calls, d # c
        PROVE  CallFits(d)'
    BY <1>1, <1>2, <1>5, <1>6, <2>1, <2>2, CallKept DEF DeliveryInv, CallsFit
  <2>3. CallFits(c)'
    BY <1>1, <1>4, <1>5 DEF CallFits, Promise!Immediate
  <2> QED
    BY <2>2, <2>3 DEF CallsFit
<1>9. OwnNumbers' /\ RegistrationsFit'
  BY <1>1 DEF DeliveryInv, OwnNumbers, RegistrationsFit, RegisteredFits
<1>10. NetFits'
  <2>1. \A d \in Calls : attempts[d] <= attempts'[d]
    BY <1>1 DEF TypeOK
  <2>2. \A p \in Peers : peerSeq[p] <= peerSeq'[p]
    BY <1>1 DEF TypeOK, peer
  <2> QED
    BY <1>1, <2>1, <2>2, NetKept DEF DeliveryInv, peer
<1> QED
  BY <1>6, <1>7, <1>8, <1>9, <1>10 DEF DeliveryInv

LEMMA InvHandleActor ==
  ASSUME TypeOK, TypeOK', DeliveryInv, HandleActor
  PROVE  DeliveryInv'
<1> DEFINE m == Head(actor)
<1>1. /\ alive /\ actor # <<>> /\ actor' = Tail(actor) /\ Handle(m)
      /\ UNCHANGED <<resp, peer>>
  BY DEF HandleActor
<1>2. m.type # "Stop" => m.call \in Calls
  <2>1. m \in Msg
    BY <1>1, Dequeue
  <2> QED
    BY <2>1 DEF Msg
<1>3. CASE m.type = "Send" /\ HandleSend(m.call)
  BY <1>1, <1>2, <1>3, InvHandleSend
<1>4. CASE m.type = "WaitForAck" /\ HandleWaitForAck(m.call)
  BY <1>1, <1>2, <1>4, InvWaitForAck
<1>5. CASE m.type = "WaitForReply" /\ HandleWaitForReply(m.call)
  BY <1>1, <1>2, <1>5, InvWaitForReply
<1>6. CASE \/ m.type = "RetryAck" /\ HandleRetryAck(m.call)
           \/ m.type = "RetryAsk" /\ HandleRetryAsk(m.call)
  <2>1. PICK d \in Calls \cup {NoCall} :
          /\ Retry(m.call, d)
          /\ d # NoCall => Registered(d)
          /\ d # NoCall /\ ~IsZero(left[m.call]) => msg[d].qos # "AtMostOnce"
    BY <1>1, <1>2, <1>6, RetryFinds
  <2> QED
    BY <1>1, <1>2, <1>6, <2>1, InvRetry
<1>7. CASE m.type = "Stop" /\ Gone
  <2>1. QueueInOrder' /\ \A i \in DOMAIN actor' : \E j \in DOMAIN actor : actor'[i] = actor[j]
    BY <1>1, Dequeue
  <2> QED
    BY <1>1, <1>7, <2>1, InvGone
<1> QED
  BY <1>1, <1>3, <1>4, <1>5, <1>6, <1>7 DEF Handle

\* A sequence from which an element is taken out has no others in it than before.
LEMMA WithoutOne ==
  ASSUME NEW S, NEW s \in Seq(S), NEW k \in DOMAIN s
  PROVE  LET t == SubSeq(s, 1, k - 1) \o SubSeq(s, k + 1, Len(s)) IN
         /\ t \in Seq(S) /\ Len(t) = Len(s) - 1
         /\ \A i \in DOMAIN t : \E j \in DOMAIN s : t[i] = s[j]
<1> DEFINE before == SubSeq(s, 1, k - 1)
           after == SubSeq(s, k + 1, Len(s))
<1>1. k \in 1 .. Len(s) /\ Len(s) \in Nat /\ DOMAIN s = 1 .. Len(s) /\ \A i \in 1 .. Len(s) : s[i] \in S
  OBVIOUS
<1>2. \A i \in 1 .. (k - 1) : s[i] \in S
  BY <1>1
<1>3. \A i \in (k + 1) .. Len(s) : s[i] \in S
  BY <1>1
<1>4. k - 1 \in Nat /\ k - 1 \in Int /\ k + 1 \in Int /\ Len(s) \in Int /\ 1 \in Int
  BY <1>1
<1>5. /\ before \in Seq(S) /\ Len(before) = k - 1
      /\ \A i \in 1 .. (k - 1) : before[i] = s[i]
  <2>1. before \in Seq(S)
    BY <1>2, <1>4, SubSeqProperties
  <2>2. Len(before) = IF 1 <= k - 1 THEN (k - 1) - 1 + 1 ELSE 0
    BY <1>2, <1>4, SubSeqProperties
  <2>3. \A i \in 1 .. (k - 1) - 1 + 1 : before[i] = s[1 + i - 1]
    BY <1>2, <1>4, SubSeqProperties
  <2> QED
    BY <1>1, <2>1, <2>2, <2>3
<1>6. /\ after \in Seq(S) /\ Len(after) = Len(s) - k
      /\ \A i \in 1 .. (Len(s) - k) : after[i] = s[k + i]
  <2>1. after \in Seq(S)
    BY <1>3, <1>4, SubSeqProperties
  <2>2. Len(after) = IF k + 1 <= Len(s) THEN Len(s) - (k + 1) + 1 ELSE 0
    BY <1>3, <1>4, SubSeqProperties
  <2>3. \A i \in 1 .. Len(s) - (k + 1) + 1 : after[i] = s[(k + 1) + i - 1]
    BY <1>3, <1>4, SubSeqProperties
  <2> HIDE DEF after
  <2>4. ASSUME NEW i \in 1 .. (Len(s) - k)
        PROVE  after[i] = s[k + i]
    <3>1. (k + 1) + i - 1 = k + i /\ i \in 1 .. Len(s) - (k + 1) + 1
      BY <1>1
    <3> QED
      BY <2>3, <3>1
  <2>5. Len(after) = Len(s) - k
    BY <1>1, <2>2
  <2> QED
    BY <2>1, <2>4, <2>5
<1> DEFINE t == before \o after
<1> HIDE DEF before, after
<1>7. t \in Seq(S) /\ Len(t) = Len(before) + Len(after)
  BY <1>5, <1>6, ConcatProperties
<1>8. \A i \in 1 .. Len(before) + Len(after) :
        t[i] = IF i <= Len(before) THEN before[i] ELSE after[i - Len(before)]
  BY <1>5, <1>6, ConcatProperties
<1> HIDE DEF t
<1>9. DOMAIN t = 1 .. Len(t)
  BY <1>7
<1>10. ASSUME NEW i \in DOMAIN t
       PROVE  \E j \in DOMAIN s : t[i] = s[j]
  <2>1. i \in 1 .. (Len(s) - 1)
    BY <1>1, <1>5, <1>6, <1>7, <1>9
  <2>2. CASE i <= k - 1
    <3>a. i \in 1 .. Len(before) + Len(after) /\ i <= Len(before) /\ i \in 1 .. (k - 1)
      BY <1>1, <1>5, <1>6, <2>1, <2>2
    <3>1. t[i] = before[i] /\ i \in 1 .. (k - 1)
      BY <1>8, <3>a
    <3>2. t[i] = s[i] /\ i \in DOMAIN s
      BY <1>1, <1>5, <3>1
    <3> QED
      BY <3>2
  <2>3. CASE ~(i <= k - 1)
    <3>a. i \in 1 .. Len(before) + Len(after) /\ ~(i <= Len(before)) /\ Len(before) = k - 1
      BY <1>1, <1>5, <1>6, <2>1, <2>3
    <3>1. t[i] = after[i - (k - 1)] /\ i - (k - 1) \in 1 .. (Len(s) - k)
      <4>1. t[i] = after[i - Len(before)]
        BY <1>8, <3>a
      <4>2. i - (k - 1) \in 1 .. (Len(s) - k)
        BY <1>1, <2>1, <2>3
      <4> QED
        BY <3>a, <4>1, <4>2
    <3>2. t[i] = s[k + (i - (k - 1))] /\ k + (i - (k - 1)) \in DOMAIN s
      BY <1>1, <1>6, <2>1, <3>1
    <3> QED
      BY <3>2
  <2> QED
    BY <2>2, <2>3
<1>11. Len(t) = Len(s) - 1
  BY <1>1, <1>5, <1>6, <1>7
<1> QED
  BY <1>7, <1>10, <1>11 DEF before, after, t

LEMMA InvWorld ==
  ASSUME TypeOK, TypeOK', DeliveryInv, PollActor \/ World
  PROVE  DeliveryInv'
<1> DEFINE Quiet == UNCHANGED <<seq, pc, msg, actor, pendingAcks, pendingReplies, timer, left,
                                attempts, alive>>
<1>1. ASSUME Quiet
      PROVE  /\ \A d \in Calls : attempts[d] <= attempts'[d]
             /\ \A d \in Calls : pc[d] # "idle" =>
                  pc'[d] # "idle" /\ msg'[d] = msg[d] /\ attempts[d] <= attempts'[d]
  <2>1. \A d \in Calls : attempts[d] <= attempts'[d]
    BY <1>1 DEF TypeOK
  <2> QED
    BY <1>1, <2>1
<1>2. ASSUME UNCHANGED peerSeq
      PROVE  \A p \in Peers : peerSeq[p] <= peerSeq'[p]
  BY <1>2 DEF TypeOK
<1>3. CASE PollActor \/ Connected
  <2>1. Quiet /\ UNCHANGED <<out, resp, relayGot, atPeer, peerSeq>>
    BY <1>3 DEF PollActor, Connected, api, state, conn, peer
  <2>2. NetFits'
    BY <1>1, <1>2, <2>1, NetKept DEF DeliveryInv
  <2> QED
    BY <2>1, <2>2, InvQuiet
<1>4. CASE Disconnect
  <2>1. Quiet /\ UNCHANGED <<relayGot, atPeer, peerSeq>> /\ resp' = <<>>
    BY <1>4 DEF Disconnect, api, state, peer
  <2>2. \A i \in DOMAIN out' : \E j \in DOMAIN out : out'[i] = out[j]
    <3>1. PICK k \in 0 .. Len(out) : out' = SubSeq(out, k + 1, Len(out))
      BY <1>4 DEF Disconnect
    <3>2. out \in Seq(Calls) /\ Len(out) \in Nat
      BY DEF TypeOK
    <3>3. out' = [i \in 1 .. (Len(out) - k) |-> out[i + k]]
      BY <3>1, <3>2
    <3>4. \A i \in DOMAIN out' : i + k \in DOMAIN out /\ out'[i] = out[i + k]
      BY <3>2, <3>3
    <3> QED
      BY <3>4
  <2>3. NetFits'
    BY <1>1, <1>2, <2>1, <2>2, NetKept DEF DeliveryInv
  <2> QED
    BY <2>1, <2>3, InvQuiet
<1>5. CASE ConnectionFailed
  <2>1. Gone /\ UNCHANGED <<actor, resp, peer>>
    BY <1>5 DEF ConnectionFailed
  <2>2. QueueInOrder'
    BY <2>1 DEF DeliveryInv, QueueInOrder, Rank
  <2> QED
    BY <2>1, <2>2, InvGone
<1>6. CASE RelayTake
  <2> DEFINE c == Head(out)
             m == [type |-> "Ack", seq |-> msg[c].seq]
  <2>1. /\ Quiet /\ UNCHANGED peerSeq /\ out # <<>> /\ out' = Tail(out)
        /\ relayGot' = relayGot \cup {c} /\ resp' = Append(resp, m)
        /\ atPeer' = IF msg[c].kind = "ask" THEN atPeer \cup {c} ELSE atPeer
    BY <1>6 DEF RelayTake, api, state, conn
  <2>2. out \in Seq(Calls) /\ resp \in Seq(Response)
    BY DEF TypeOK
  <2>3. /\ c = out[1] /\ 1 \in DOMAIN out /\ c \in Calls
        /\ \A i \in DOMAIN out' : i + 1 \in DOMAIN out /\ out'[i] = out[i + 1]
    BY <2>1, <2>2
  <2>4. m \in Response
    <3>1. msg[c].seq \in Seqs
      BY <2>3 DEF TypeOK, Message
    <3> QED
      BY <3>1 DEF Response
  <2>5. PICK v \in Response : v = m
    BY <2>4
  <2>6. ResponseFits(v)'
    <3>1. c \in relayGot' /\ v.type = "Ack" /\ msg'[c].seq = v.seq
      BY <2>1, <2>5
    <3> QED
      BY <3>1 DEF ResponseFits
  <2>7. \A i \in DOMAIN resp' : \/ \E j \in DOMAIN resp : resp'[i] = resp[j]
                                \/ resp'[i] = v
    <3>1. \A i \in DOMAIN resp' : \/ i \in DOMAIN resp /\ resp'[i] = resp[i]
                                  \/ i = Len(resp) + 1 /\ resp'[i] = v
      BY <2>1, <2>2, <2>5
    <3> QED
      BY <3>1
  <2>8. \A i \in DOMAIN resp' : \/ \E j \in DOMAIN resp : resp'[i] = resp[j]
                                \/ \E u : resp'[i] = u /\ ResponseFits(u)'
    BY <2>6, <2>7
  <2>9. /\ \A d \in relayGot' : d \in relayGot \/ \E j \in DOMAIN out : d = out[j]
        /\ \A d \in atPeer' : d \in atPeer \/ (d \in relayGot' /\ msg'[d].kind = "ask")
    BY <2>1, <2>3
  <2>10. \A i \in DOMAIN out' : \E j \in DOMAIN out : out'[i] = out[j]
    BY <2>3
  <2> HIDE DEF c
  <2>11. NetFits'
    BY <1>1, <1>2, <2>1, <2>8, <2>9, <2>10, NetKept DEF DeliveryInv
  <2> QED
    BY <2>1, <2>11, InvQuiet
<1>7. ASSUME NEW m \in Response, ResponseFits(m)', resp' = Append(resp, m), Quiet,
             UNCHANGED <<out, relayGot>>, atPeer' \subseteq atPeer,
             \A p \in Peers : peerSeq[p] <= peerSeq'[p]
      PROVE  DeliveryInv'
  <2>1. \A i \in DOMAIN resp' : \/ \E j \in DOMAIN resp : resp'[i] = resp[j]
                                \/ \E v : resp'[i] = v /\ ResponseFits(v)'
    <3>1. \A i \in DOMAIN resp' : \/ i \in DOMAIN resp /\ resp'[i] = resp[i]
                                  \/ i = Len(resp) + 1 /\ resp'[i] = m
      BY <1>7 DEF TypeOK
    <3> QED
      BY <1>7, <3>1
  <2>2. NetFits'
    BY <1>1, <1>7, <2>1, NetKept DEF DeliveryInv
  <2> QED
    BY <1>7, <2>2, InvQuiet
<1>8. ASSUME NEW c \in Calls, PeerReply(c)
      PROVE  DeliveryInv'
  <2> DEFINE m == [type |-> "Payload",
                   payload |-> [from |-> msg[c].to, seq |-> msg[c].seq, re |-> c]]
  <2>1. /\ Quiet /\ resp' = Append(resp, m) /\ UNCHANGED <<out, relayGot, peerSeq>>
        /\ c \in atPeer /\ atPeer' \subseteq atPeer
    BY <1>8 DEF PeerReply, api, state, conn
  <2>2. m \in Response
    BY DEF Response, Payload, TypeOK, Message
  <2>3. c \in relayGot /\ msg[c].kind = "ask"
    BY <2>1 DEF DeliveryInv, NetFits
  <2>4. /\ m.type = "Payload" /\ m.payload.re = c /\ c # NoCall
        /\ m.payload.from = msg[c].to /\ m.payload.seq = msg[c].seq
    BY NoCallAssumption
  <2> HIDE DEF m
  <2>5. PICK v \in Response : v = m
    BY <2>2
  <2>6. ResponseFits(v)'
    BY <2>1, <2>3, <2>4, <2>5 DEF ResponseFits
  <2> QED
    BY <1>2, <1>7, <2>1, <2>5, <2>6
<1>9. ASSUME NEW c \in Calls, TimerFire(c)
      PROVE  DeliveryInv'
  BY <1>9, InvTimerFire
<1>10. ASSUME NEW p \in Peers, PeerSend(p)
       PROVE  DeliveryInv'
  <2> DEFINE m == [type |-> "Payload",
                   payload |-> [from |-> p, seq |-> peerSeq[p], re |-> NoCall]]
  <2>1. /\ Quiet /\ resp' = Append(resp, m) /\ UNCHANGED <<out, relayGot, atPeer>>
        /\ peerSeq' = [peerSeq EXCEPT ![p] = @ + 1] /\ peerSeq[p] < MaxPeerSends
    BY <1>10 DEF PeerSend, api, state, conn
  <2>2. \A q \in Peers : peerSeq[q] \in Nat
    BY BoundsAssumption DEF TypeOK
  <2>3. peerSeq[p] < peerSeq'[p] /\ \A q \in Peers : peerSeq[q] <= peerSeq'[q]
    BY <2>1, <2>2 DEF TypeOK
  <2>4. m \in Response
    <3>1. peerSeq[p] \in Seqs
      BY <2>1, <2>2, BoundsAssumption DEF Seqs
    <3> QED
      BY <3>1 DEF Response, Payload
  <2>5. /\ m.type = "Payload" /\ m.payload.re = NoCall
        /\ m.payload.from = p /\ m.payload.seq = peerSeq[p]
    OBVIOUS
  <2> HIDE DEF m
  <2>6. PICK v \in Response : v = m
    BY <2>4
  <2>7. ResponseFits(v)'
    BY <2>3, <2>5, <2>6 DEF ResponseFits
  <2> QED
    BY <1>7, <2>1, <2>3, <2>6, <2>7
<1>11. CASE Stray
  <2>1. Quiet /\ UNCHANGED <<resp, relayGot, atPeer, peerSeq>>
    BY <1>11 DEF Stray, api, state, peer
  <2>2. \A i \in DOMAIN out' : \E j \in DOMAIN out : out'[i] = out[j]
    <3>1. out \in Seq(Calls)
      BY DEF TypeOK
    <3>2. PICK k \in DOMAIN out : out' = SubSeq(out, 1, k - 1) \o SubSeq(out, k + 1, Len(out))
      BY <1>11 DEF Stray
    <3> QED
      BY <3>1, <3>2, WithoutOne
  <2>3. NetFits'
    BY <1>1, <1>2, <2>1, <2>2, NetKept DEF DeliveryInv
  <2> QED
    BY <2>1, <2>3, InvQuiet
<1> QED
  BY <1>3, <1>4, <1>5, <1>6, <1>8, <1>9, <1>10, <1>11 DEF World

\* Every step keeps the invariant.
LEMMA InvStep == TypeOK /\ TypeOK' /\ DeliveryInv /\ [Next]_vars => DeliveryInv'
<1> SUFFICES ASSUME TypeOK, TypeOK', DeliveryInv, [Next]_vars
             PROVE  DeliveryInv'
  OBVIOUS
<1>1. ASSUME NEW c \in Calls, NEW q \in QoS, NEW p \in Peers, ClientSend(c, p, q) \/ ClientAsk(c, p, q)
      PROVE  DeliveryInv'
  <2>1. \A k \in {"send", "ask"} : [kind |-> k, qos |-> q, to |-> p, seq |-> seq] \in Message
    BY DEF Message, TypeOK
  <2>2. CASE ClientSend(c, p, q)
    BY <2>1, <2>2, InvPost DEF ClientSend, NextSeq
  <2>3. CASE ClientAsk(c, p, q)
    BY <2>1, <2>3, InvPost DEF ClientAsk, NextSeq
  <2> QED
    BY <1>1, <2>2, <2>3
<1>2. ASSUME NEW c \in Calls, NEW q \in QoS, NEW r \in inbox, Reply(c, r, q)
      PROVE  DeliveryInv'
  <2>1. [kind |-> "reply", qos |-> q, to |-> r.from, seq |-> r.seq] \in Message
    BY DEF Message, TypeOK, Payload
  <2> QED
    BY <1>2, <2>1, InvPost DEF Reply
<1>3. CASE UNCHANGED vars
  <2>1. UNCHANGED <<seq, pc, msg, actor, pendingAcks, pendingReplies, timer, left, attempts, alive,
                    out, resp, relayGot, atPeer, peerSeq>>
    BY <1>3 DEF vars, api, state, conn, peer
  <2>2. NetFits'
    BY <2>1 DEF DeliveryInv, NetFits, ResponseFits
  <2> QED
    BY <2>1, <2>2, InvQuiet
<1> QED
  BY <1>1, <1>2, <1>3, InvRegister, InvAbandon, InvClientStop, InvHandleActor, InvWorld,
     InvHandleAck, InvHandlePayload DEF Next, Api, Actor, Idle

\* What TypeOK needs to be inductive together with.
LEMMA DeliveryInvariant == Spec => [](TypeOK /\ DeliveryInv)
<1>1. Init => DeliveryInv
  <2> SUFFICES ASSUME Init
               PROVE  DeliveryInv
    OBVIOUS
  <2>1. /\ actor = <<>> /\ out = <<>> /\ resp = <<>> /\ relayGot = {} /\ atPeer = {}
        /\ \A n \in Seqs : pendingAcks[n] = NoCall
        /\ \A k \in Peers \X Seqs : pendingReplies[k] = NoCall
        /\ \A c \in Calls : /\ pc[c] = "idle" /\ attempts[c] = 0 /\ left[c] = 0
                            /\ timer[c] = "none"
    BY DEF Init
  <2>2. \A c \in Calls : ~Registered(c)
    BY <2>1, NoCallAssumption DEF Registered
  <2>3. QueueFits /\ QueueInOrder /\ NetFits
    BY <2>1 DEF QueueFits, QueueInOrder, NetFits
  <2>4. CallsFit /\ OwnNumbers
    BY <2>1, <2>2 DEF CallsFit, CallFits, OwnNumbers
  <2>5. RegistrationsFit
    BY <2>1 DEF RegistrationsFit
  <2> QED
    BY <2>3, <2>4, <2>5 DEF DeliveryInv
<1> QED
  BY <1>1, InvStep, DeliveryTypeCorrect, PTL DEF Spec
-----------------------------------------------------------------------------
(* SingleAttempt and NothingForgotten *)

\* A message with AtMostOnce is sent at most once, whatever chains of retries run
\* and whatever registrations collide, for any bounds.
THEOREM SingleAttempts == Spec => []SingleAttempt
<1>1. DeliveryInv => SingleAttempt
  BY DEF DeliveryInv, CallsFit, CallFits, SingleAttempt
<1> QED
  BY <1>1, DeliveryInvariant, PTL

\* What is registered after a step was so before, and its chain goes on, or has just
\* been registered with a chain of its own, or has no retries left.
LEMMA ChainKept ==
  ASSUME TypeOK, TypeOK', NothingForgotten,
         \A e \in Calls : Registered(e)' =>
           Chained(e)' \/ (Registered(e) /\ timer'[e] = timer[e] /\ left'[e] = left[e])
  PROVE  NothingForgotten'
<1>1. \A e \in Calls : Registered(e) => Chained(e)
  BY DEF NothingForgotten, Registered
<1>2. \A e \in Calls : Registered(e)' => Chained(e)'
  BY <1>1 DEF Chained, IsZero
<1>3. ASSUME NEW n \in Seqs PROVE Chained(pendingAcks[n])'
  <2>1. pendingAcks'[n] \in Calls \cup {NoCall}
    BY DEF TypeOK
  <2>2. pendingAcks'[n] \in Calls => Registered(pendingAcks[n])'
    BY DEF Registered
  <2>3. PICK e : e = pendingAcks'[n]
    OBVIOUS
  <2>4. e \in Calls => Registered(e)'
    BY <2>3 DEF Registered
  <2>5. e = NoCall \/ Chained(e)'
    BY <1>2, <2>1, <2>3, <2>4
  <2> QED
    BY <2>3, <2>5 DEF Chained
<1>4. ASSUME NEW k \in Peers \X Seqs PROVE Chained(pendingReplies[k])'
  <2>1. pendingReplies'[k] \in Calls \cup {NoCall}
    BY DEF TypeOK
  <2>2. PICK e : e = pendingReplies'[k]
    OBVIOUS
  <2>3. e \in Calls => Registered(e)'
    BY <2>2 DEF Registered
  <2>4. e = NoCall \/ Chained(e)'
    BY <1>2, <2>1, <2>2, <2>3
  <2> QED
    BY <2>2, <2>4 DEF Chained
<1> QED
  BY <1>3, <1>4 DEF NothingForgotten

LEMMA ChainStep ==
  TypeOK /\ TypeOK' /\ DeliveryInv /\ NothingForgotten /\ [Next]_vars => NothingForgotten'
<1> SUFFICES ASSUME TypeOK, TypeOK', DeliveryInv, NothingForgotten, [Next]_vars
             PROVE  NothingForgotten'
  OBVIOUS
<1>1. CASE UNCHANGED <<pendingAcks, pendingReplies, timer, left>>
  BY <1>1, ChainKept DEF Registered
<1>2. CASE Gone
  <2>1. \A e \in Calls : ~Registered(e)'
    BY <1>2, NoCallAssumption DEF Gone, Registered
  <2> QED
    BY <2>1, ChainKept
<1>3. CASE HandleAck \/ HandlePayload
  <2>1. UNCHANGED <<timer, left>>
    BY <1>3 DEF HandleAck, HandlePayload
  <2>2. \A e \in Calls : Registered(e)' => Registered(e)
    <3>1. CASE HandleAck
      <4>1. \A n \in Seqs : pendingAcks'[n] \in {pendingAcks[n], NoCall}
        BY <3>1 DEF HandleAck, TypeOK
      <4>2. UNCHANGED pendingReplies
        BY <3>1 DEF HandleAck
      <4> QED
        BY <4>1, <4>2, NoCallAssumption DEF Registered
    <3>2. CASE HandlePayload
      <4>1. PICK key : pendingReplies' = [pendingReplies EXCEPT ![key] = NoCall]
        BY <3>2 DEF HandlePayload
      <4>2. \A k \in Peers \X Seqs : pendingReplies'[k] \in {pendingReplies[k], NoCall}
        BY <4>1 DEF TypeOK
      <4>3. UNCHANGED pendingAcks
        BY <3>2 DEF HandlePayload
      <4> QED
        BY <4>2, <4>3, NoCallAssumption DEF Registered
    <3> QED
      BY <1>3, <3>1, <3>2
  <2> QED
    BY <2>1, <2>2, ChainKept
<1>4. ASSUME NEW c \in Calls, HandleWaitForAck(c) \/ HandleWaitForReply(c)
      PROVE  NothingForgotten'
  <2>1. /\ timer' = [timer EXCEPT ![c] = "sleeping"]
        /\ \A e \in Calls : e # c => timer'[e] = timer[e] /\ left'[e] = left[e]
    BY <1>4 DEF HandleWaitForAck, HandleWaitForReply, Spawn, TypeOK
  <2>2. ASSUME NEW e \in Calls, e # c, Registered(e)'
        PROVE  Registered(e)
    <3>1. CASE HandleWaitForAck(c)
      <4>1. /\ \A n \in Seqs : pendingAcks'[n] \in {pendingAcks[n], c}
            /\ UNCHANGED pendingReplies
        BY <3>1 DEF HandleWaitForAck, TypeOK
      <4> QED
        BY <2>2, <4>1 DEF Registered
    <3>2. CASE HandleWaitForReply(c)
      <4>1. PICK key : pendingReplies' = [pendingReplies EXCEPT ![key] = c]
        BY <3>2 DEF HandleWaitForReply
      <4>2. /\ \A k \in Peers \X Seqs : pendingReplies'[k] \in {pendingReplies[k], c}
            /\ UNCHANGED pendingAcks
        BY <3>2, <4>1 DEF HandleWaitForReply, TypeOK
      <4> QED
        BY <2>2, <4>2 DEF Registered
    <3> QED
      BY <1>4, <3>1, <3>2
  <2>3. Chained(c)'
    BY <2>1 DEF Chained, TypeOK
  <2> QED
    BY <2>1, <2>2, <2>3, ChainKept
<1>5. ASSUME NEW c \in Calls, actor # <<>>, actor' = Tail(actor), Head(actor).call = c,
             \/ Head(actor).type = "RetryAck" /\ HandleRetryAck(c)
             \/ Head(actor).type = "RetryAsk" /\ HandleRetryAsk(c)
      PROVE  NothingForgotten'
  <2>1. PICK d \in Calls \cup {NoCall} : Retry(c, d) /\ (d = NoCall => ~Registered(c))
    BY <1>5, RetryFinds
  <2>2. UNCHANGED <<pendingAcks, pendingReplies>>
    BY <2>1 DEF Retry
  <2>3. \A e \in Calls : e # c => timer'[e] = timer[e] /\ left'[e] = left[e]
    BY <2>1 DEF Retry, Spawn, TypeOK
  <2>4. Registered(c) => Chained(c)'
    <3>1. CASE d = NoCall
      BY <2>1, <3>1
    <3>2. CASE IsZero(left[c])
      BY <2>1, <3>2 DEF Retry, Chained
    <3>3. CASE d # NoCall /\ ~IsZero(left[c])
      BY <2>1, <3>3 DEF Retry, Spawn, Chained, TypeOK
    <3> QED
      BY <3>1, <3>2, <3>3
  <2>5. \A e \in Calls : Registered(e)' <=> Registered(e)
    BY <2>2 DEF Registered
  <2> QED
    BY <2>3, <2>4, <2>5, ChainKept
<1>6. ASSUME NEW c \in Calls, TimerFire(c)
      PROVE  NothingForgotten'
  <2>1. UNCHANGED <<pendingAcks, pendingReplies, left, alive>>
    BY <1>6 DEF TimerFire, conn
  <2>2. \A e \in Calls : e # c => timer'[e] = timer[e]
    BY <1>6 DEF TimerFire, TypeOK
  <2>3. alive => timer'[c] = "queued"
    BY <1>6 DEF TimerFire, TypeOK
  <2>4. Registered(c) => alive
    BY RegisteredCalls, NoCallAssumption DEF Registered
  <2>5. \A e \in Calls : Registered(e)' <=> Registered(e)
    BY <2>1 DEF Registered
  <2>6. Registered(c) => Chained(c)'
    BY <2>3, <2>4 DEF Chained
  <2> QED
    BY <2>1, <2>2, <2>5, <2>6, ChainKept
<1>7. CASE HandleActor
  <2> DEFINE m == Head(actor)
  <2>1. /\ actor # <<>> /\ actor' = Tail(actor) /\ Handle(m)
        /\ m.type # "Stop" => m.call \in Calls
    <3>1. actor # <<>> /\ actor' = Tail(actor) /\ Handle(m) /\ m \in Msg
      BY <1>7 DEF HandleActor, TypeOK
    <3> QED
      BY <3>1 DEF Msg
  <2> HIDE DEF m
  <2>2. CASE m.type = "Send" /\ HandleSend(m.call)
    BY <1>1, <2>2 DEF HandleSend
  <2>3. CASE \/ m.type = "WaitForAck" /\ HandleWaitForAck(m.call)
             \/ m.type = "WaitForReply" /\ HandleWaitForReply(m.call)
    BY <1>4, <2>1, <2>3
  <2>4. CASE \/ m.type = "RetryAck" /\ HandleRetryAck(m.call)
             \/ m.type = "RetryAsk" /\ HandleRetryAsk(m.call)
    BY <1>5, <2>1, <2>4 DEF m
  <2>5. CASE m.type = "Stop" /\ Gone
    BY <1>2, <2>5
  <2> QED
    BY <2>1, <2>2, <2>3, <2>4, <2>5 DEF Handle
<1>8. CASE Api \/ Idle \/ UNCHANGED vars
  BY <1>1, <1>8 DEF Api, ClientSend, ClientAsk, Reply, Post, Register, Abandon, ClientStop, Idle,
                    vars, state
<1>9. CASE PollActor
  BY <1>1, <1>9 DEF PollActor, state
<1>10. CASE World
  BY <1>1, <1>2, <1>6, <1>10 DEF World, Connected, Disconnect, Stray, ConnectionFailed, RelayTake,
                                 PeerReply, PeerSend, state
<1> QED
  BY <1>3, <1>7, <1>8, <1>9, <1>10 DEF Next, Actor

\* As long as a call is registered its chain of retries goes on, unless it has used them
\* up: for any calls, numbers and losses.
THEOREM NeverForgotten == Spec => []NothingForgotten
<1>1. Init => NothingForgotten
  BY DEF Init, NothingForgotten, Chained
<1> QED
  BY <1>1, ChainStep, DeliveryInvariant, PTL DEF Spec
-----------------------------------------------------------------------------
(* RelayDelivery implements DeliveryPromise. *)

LEMMA PromiseUnseen ==
  ASSUME \A c \in Calls : Status(c)' = Status(c),
         UNCHANGED <<msg, result, attempts, relayGot, peerSeq, alive>>
  PROVE  Promise!Next
<1>1. Promise!Unseen
  BY DEF Promise!Unseen, Promise!vars
<1> QED
  BY <1>1 DEF Promise!Next

LEMMA PromiseFinish ==
  ASSUME NEW c \in Calls, NEW o, Status(c) = "pending", Status(c)' = o,
         \A d \in Calls \ {c} : Status(d)' = Status(d),
         UNCHANGED <<msg, attempts, relayGot, peerSeq, alive>>
  PROVE  Promise!Finish(c, o)
<1>1. [d \in Calls |-> Status(d)'] = [[d \in Calls |-> Status(d)] EXCEPT ![c] = o]
  OBVIOUS
<1> QED
  BY <1>1 DEF Promise!Finish

LEMMA PromisePost ==
  ASSUME TypeOK, DeliveryInv, NEW c \in Calls, NEW m \in Message, Post(c, m),
         m.kind # "reply" => m.seq = seq
  PROVE  Promise!Next
<1> DEFINE s == IF m.kind = "ask" \/ m.qos = "AtLeastOnce" THEN "posted" ELSE "ok"
<1>1. /\ alive /\ pc[c] = "idle" /\ msg' = [msg EXCEPT ![c] = m] /\ pc' = [pc EXCEPT ![c] = s]
      /\ UNCHANGED <<result, attempts, relayGot, peerSeq, alive>>
  BY DEF Post, state, conn, peer
<1>2. s = IF Promise!Immediate(m) THEN "ok" ELSE "posted"
  BY DEF Promise!Immediate, Message, QoS
<1> HIDE DEF s
<1>3. Promise!Numbered(m)
  <2>1. ASSUME m.kind # "reply", NEW d \in Calls, pc[d] # "idle", msg[d].kind # "reply"
        PROVE  msg[d].seq # m.seq
    <3>1. msg[d].seq < seq
      BY <2>1 DEF DeliveryInv, CallsFit, CallFits
    <3>2. msg[d].seq \in Int /\ seq \in Int
      BY DEF TypeOK, Message, Seqs
    <3> QED
      BY <2>1, <3>1, <3>2
  <2>2. \A d \in Calls : Status(d) # "idle" <=> pc[d] # "idle"
    BY DEF Status
  <2> QED
    BY <2>1, <2>2 DEF Promise!Numbered
<1>4. /\ Status(c) = "idle"
      /\ Status(c)' = IF Promise!Immediate(m) THEN "ok" ELSE "pending"
      /\ \A d \in Calls \ {c} : Status(d)' = Status(d)
  BY <1>1, <1>2 DEF Status, TypeOK
<1>5. [d \in Calls |-> Status(d)'] =
        [[d \in Calls |-> Status(d)] EXCEPT ![c] = IF Promise!Immediate(m) THEN "ok" ELSE "pending"]
  BY <1>4
<1>6. Promise!Make(c)
  BY <1>1, <1>3, <1>4, <1>5 DEF Promise!Make
<1> QED
  BY <1>6 DEF Promise!Next

LEMMA PromiseGone ==
  ASSUME TypeOK, alive, Gone, UNCHANGED peer
  PROVE  Promise!Next
<1> DEFINE F == {c \in Calls : pc[c] = "waiting" /\ pc'[c] = "err"}
<1>1. /\ alive' = FALSE
      /\ \A c \in Calls : pc'[c] = pc[c] \/ (pc[c] = "waiting" /\ pc'[c] = "err")
      /\ UNCHANGED <<msg, result, attempts, relayGot, peerSeq>>
  BY DEF Gone, peer, TypeOK
<1>2. \A c \in Calls : Status(c)' = IF c \in F THEN "err" ELSE Status(c)
  BY <1>1 DEF Status
<1>3. F \in SUBSET {c \in Calls : Status(c) = "pending"}
  BY DEF Status
<1> HIDE DEF F
<1>4. [c \in Calls |-> Status(c)'] =
        [c \in Calls |-> IF c \in F THEN "err" ELSE [d \in Calls |-> Status(d)][c]]
  BY <1>2
<1>5. F \in SUBSET {c \in Calls : [d \in Calls |-> Status(d)][c] = "pending"}
  BY <1>3
<1>6. Promise!End
  BY <1>1, <1>4, <1>5 DEF Promise!End
<1> QED
  BY <1>6 DEF Promise!Next

\* A message goes into the tonic channel: unless the count of attempts is saturated the
\* promise sees it.
LEMMA PromiseTransmit ==
  ASSUME TypeOK, NEW c \in Calls, Transmit(c), alive,
         \/ pc[c] \in {"posted", "waiting", "dropped"}
         \/ pc[c] = "ok" /\ Promise!Immediate(msg[c]),
         msg[c].qos = "AtMostOnce" => attempts[c] = 0,
         UNCHANGED <<pc, msg, result, relayGot, peerSeq, alive>>
  PROVE  Promise!Next
<1>1. \A d \in Calls : Status(d)' = Status(d)
  BY DEF Status
<1>2. CASE attempts[c] < AttemptCap
  <2>1. attempts' = [attempts EXCEPT ![c] = @ + 1]
    BY <1>2 DEF Transmit, Bump
  <2>2. Status(c) \in {"pending", "dropped"} \/ (Status(c) = "ok" /\ Promise!Immediate(msg[c]))
    BY DEF Status
  <2>3. Promise!Transmit(c)
    BY <1>1, <2>1, <2>2 DEF Promise!Transmit
  <2> QED
    BY <2>3 DEF Promise!Next
<1>3. CASE ~(attempts[c] < AttemptCap)
  <2>1. attempts' = attempts
    BY <1>3 DEF Transmit, Bump, TypeOK
  <2> QED
    BY <1>1, <2>1, PromiseUnseen
<1> QED
  BY <1>2, <1>3

\* A registration displaces the one of its key, or none.
LEMMA PromiseDisplace ==
  ASSUME TypeOK, DeliveryInv, NEW c \in Calls, NEW d \in Calls \cup {NoCall},
         pc' = Overwrite(d), pc[c] # "idle", c # d,
         d # NoCall => msg[d].seq = msg[c].seq /\ (msg[d].kind = "ask" <=> msg[c].kind = "ask"),
         UNCHANGED <<msg, result, attempts, relayGot, peerSeq, alive>>
  PROVE  Promise!Next
<1>1. CASE d # NoCall /\ pc[d] = "waiting"
  <2>1. /\ d \in Calls /\ Status(d) = "pending" /\ Status(d)' = "err"
        /\ \A e \in Calls \ {d} : Status(e)' = Status(e)
    BY <1>1 DEF Overwrite, Status
  <2>2. Promise!Finish(d, "err")
    BY <2>1, PromiseFinish
  <2>3. c \in Calls \ {d} /\ Status(c) # "idle"
    BY DEF Status
  <2>4. Promise!Fail(d)
    BY <1>1, <2>2, <2>3 DEF Promise!Fail
  <2> QED
    BY <2>1, <2>4 DEF Promise!Next
<1>2. CASE ~(d # NoCall /\ pc[d] = "waiting")
  <2>1. \A e \in Calls : Status(e)' = Status(e)
    BY <1>2, NoCallAssumption DEF Overwrite, Status
  <2> QED
    BY <2>1, PromiseUnseen
<1> QED
  BY <1>1, <1>2

LEMMA PromiseHandleActor ==
  ASSUME TypeOK, DeliveryInv, HandleActor
  PROVE  Promise!Next
<1> DEFINE m == Head(actor)
           c == m.call
<1>1. /\ alive /\ actor # <<>> /\ actor' = Tail(actor) /\ Handle(m)
      /\ UNCHANGED <<relayGot, peerSeq, peer>>
  BY DEF HandleActor, peer
<1>2. m \in Msg /\ QueuedFits(m)
  BY <1>1, Dequeue
<1>3. m.type # "Stop" => c \in Calls /\ msg[c].seq \in Seqs /\ <<msg[c].to, msg[c].seq>> \in Peers \X Seqs
  <2>1. m.type # "Stop" => c \in Calls
    BY <1>2 DEF Msg
  <2> QED
    BY <2>1 DEF TypeOK, Message
<1>4. CASE m.type = "Send" /\ HandleSend(c)
  <2>1. /\ attempts[c] = 0
        /\ pc[c] \in {"posted", "waiting", "dropped"} \/ (pc[c] = "ok" /\ Promise!Immediate(msg[c]))
    BY <1>1, <1>2, <1>4 DEF QueuedFits
  <2>2. Transmit(c) /\ UNCHANGED <<pc, msg, result, alive>>
    BY <1>4 DEF HandleSend, api, conn
  <2> QED
    BY <1>1, <1>3, <1>4, <2>1, <2>2, PromiseTransmit
<1>5. CASE m.type = "WaitForAck" /\ HandleWaitForAck(c)
  <2> DEFINE d == pendingAcks[msg[c].seq]
  <2>1. d \in Calls \cup {NoCall} /\ c \in Calls
    BY <1>3, <1>5 DEF TypeOK
  <2>2. pc' = Overwrite(d) /\ UNCHANGED <<msg, result, attempts, alive>>
    BY <1>5 DEF HandleWaitForAck, conn
  <2>3. pc[c] # "idle" /\ msg[c].kind # "ask" /\ ~Registered(c)
    BY <1>2, <1>5 DEF QueuedFits, Waits
  <2>4. d # NoCall => Registered(d) /\ msg[d].kind # "ask" /\ msg[d].seq = msg[c].seq
    BY <1>3, <1>5, RegisteredCalls
  <2>5. c # d
    BY <2>1, <2>3, <2>4, NoCallAssumption
  <2> HIDE DEF d, c
  <2> QED
    BY <1>1, <2>1, <2>2, <2>3, <2>4, <2>5, PromiseDisplace
<1>6. CASE m.type = "WaitForReply" /\ HandleWaitForReply(c)
  <2> DEFINE d == pendingReplies[<<msg[c].to, msg[c].seq>>]
  <2>1. d \in Calls \cup {NoCall} /\ c \in Calls
    BY <1>3, <1>6 DEF TypeOK
  <2>2. pc' = Overwrite(d) /\ UNCHANGED <<msg, result, attempts, alive>>
    BY <1>6 DEF HandleWaitForReply, conn
  <2>3. pc[c] # "idle" /\ msg[c].kind = "ask" /\ ~Registered(c)
    BY <1>2, <1>6 DEF QueuedFits, Waits
  <2>4. d # NoCall => Registered(d) /\ msg[d].kind = "ask" /\ msg[d].seq = msg[c].seq
    BY <1>3, <1>6, RegisteredCalls
  <2>5. c # d
    BY <2>1, <2>3, <2>4, NoCallAssumption
  <2> HIDE DEF d, c
  <2> QED
    BY <1>1, <2>1, <2>2, <2>3, <2>4, <2>5, PromiseDisplace
<1>7. CASE \/ m.type = "RetryAck" /\ HandleRetryAck(c)
           \/ m.type = "RetryAsk" /\ HandleRetryAsk(c)
  <2>1. PICK d \in Calls \cup {NoCall} :
          /\ Retry(c, d)
          /\ d # NoCall => Registered(d)
          /\ d # NoCall /\ ~IsZero(left[c]) => msg[d].qos # "AtMostOnce"
    BY <1>1, <1>3, <1>7, RetryFinds
  <2>2. UNCHANGED <<pc, msg, result, alive>>
    BY <2>1 DEF Retry, api, conn
  <2>3. CASE d = NoCall \/ IsZero(left[c])
    <3>1. UNCHANGED attempts
      BY <2>1, <2>3 DEF Retry
    <3>2. \A e \in Calls : Status(e)' = Status(e)
      BY <2>2 DEF Status
    <3> QED
      BY <1>1, <2>2, <3>1, <3>2, PromiseUnseen
  <2>4. CASE ~(d = NoCall \/ IsZero(left[c]))
    <3>1. d \in Calls /\ Transmit(d) /\ pc[d] \in {"waiting", "dropped"}
      BY <2>1, <2>4, RegisteredCalls DEF Retry, Registered
    <3> QED
      BY <1>1, <2>1, <2>2, <2>4, <3>1, PromiseTransmit
  <2> QED
    BY <2>3, <2>4
<1>8. CASE m.type = "Stop" /\ Gone
  BY <1>1, <1>8, PromiseGone
<1> QED
  BY <1>1, <1>4, <1>5, <1>6, <1>7, <1>8 DEF Handle

LEMMA PromiseHandleAck ==
  ASSUME TypeOK, DeliveryInv, HandleAck
  PROVE  Promise!Next
<1> DEFINE n == Head(resp).seq
<1>1. /\ resp # <<>> /\ Head(resp).type = "Ack"
      /\ pc' = [c \in Calls |-> IF c = pendingAcks[n] /\ pc[c] = "waiting" THEN "ok" ELSE pc[c]]
      /\ UNCHANGED <<msg, result, attempts, relayGot, peerSeq, alive>>
  BY DEF HandleAck, conn, peer
<1>2. /\ 1 \in DOMAIN resp /\ Head(resp) = resp[1] /\ Head(resp) \in Response
  BY <1>1 DEF TypeOK
<1>3. n \in Seqs /\ \E e \in relayGot : msg[e].seq = n
  <2>1. n \in Seqs
    BY <1>1, <1>2 DEF Response
  <2>2. ResponseFits(Head(resp))
    BY <1>2 DEF DeliveryInv, NetFits
  <2> QED
    BY <1>1, <2>1, <2>2 DEF ResponseFits
<1>4. PICK d : d = pendingAcks[n]
  OBVIOUS
<1>5. d # NoCall => d \in Calls /\ msg[d].kind # "ask" /\ msg[d].seq = n
  BY <1>3, <1>4, RegisteredCalls
<1> HIDE DEF n
<1>6. CASE d # NoCall /\ pc[d] = "waiting"
  <2>1. /\ d \in Calls /\ Status(d) = "pending" /\ Status(d)' = "ok"
        /\ \A e \in Calls \ {d} : Status(e)' = Status(e)
    BY <1>1, <1>4, <1>5, <1>6 DEF Status
  <2>2. Promise!Finish(d, "ok")
    BY <1>1, <2>1, PromiseFinish
  <2>3. Promise!Confirm(d)
    BY <1>1, <1>3, <1>5, <1>6, <2>2 DEF Promise!Confirm
  <2> QED
    BY <2>1, <2>3 DEF Promise!Next
<1>7. CASE ~(d # NoCall /\ pc[d] = "waiting")
  <2>1. \A e \in Calls : Status(e)' = Status(e)
    BY <1>1, <1>4, <1>7, NoCallAssumption DEF Status
  <2> QED
    BY <1>1, <2>1, PromiseUnseen
<1> QED
  BY <1>6, <1>7

LEMMA PromiseHandlePayload ==
  ASSUME TypeOK, DeliveryInv, HandlePayload
  PROVE  Promise!Next
<1> DEFINE r == Head(resp).payload
           n == <<r.from, r.seq>>
<1>1. /\ resp # <<>> /\ Head(resp).type = "Payload"
      /\ pc' = [c \in Calls |-> IF c = pendingReplies[n] /\ pc[c] = "waiting" THEN "ok" ELSE pc[c]]
      /\ result' = [c \in Calls |-> IF c = pendingReplies[n] /\ pc[c] = "waiting" THEN r.re ELSE result[c]]
      /\ UNCHANGED <<msg, attempts, relayGot, peerSeq, alive>>
  BY DEF HandlePayload, conn, peer
<1>2. 1 \in DOMAIN resp /\ Head(resp) = resp[1] /\ Head(resp) \in Response
  BY <1>1 DEF TypeOK
<1>3. /\ n \in Peers \X Seqs /\ r.re \in Calls \cup {NoCall}
      /\ r.re = NoCall => r.seq < peerSeq[r.from]
      /\ r.re # NoCall => /\ r.re \in relayGot /\ msg[r.re].kind = "ask"
                          /\ msg[r.re].to = r.from /\ msg[r.re].seq = r.seq
  <2>1. r \in Payload
    BY <1>1, <1>2 DEF Response
  <2>2. n \in Peers \X Seqs /\ r.re \in Calls \cup {NoCall}
    BY <2>1 DEF Payload
  <2>3. ResponseFits(Head(resp))
    BY <1>2 DEF DeliveryInv, NetFits
  <2> QED
    BY <1>1, <2>2, <2>3 DEF ResponseFits
<1>4. PICK d : d = pendingReplies[n]
  OBVIOUS
<1>5. d # NoCall => d \in Calls /\ msg[d].kind = "ask" /\ msg[d].to = r.from /\ msg[d].seq = r.seq
  BY <1>3, <1>4, RegisteredCalls
<1> HIDE DEF r, n
<1>6. CASE d # NoCall /\ pc[d] = "waiting"
  <2>1. /\ d \in Calls /\ Status(d) = "pending" /\ Status(d)' = "ok"
        /\ \A e \in Calls \ {d} : Status(e)' = Status(e)
    BY <1>1, <1>4, <1>5, <1>6 DEF Status
  <2>2. Promise!Finish(d, "ok")
    BY <1>1, <2>1, PromiseFinish
  <2>3. result' = [result EXCEPT ![d] = r.re]
    BY <1>1, <1>4, <1>6 DEF TypeOK
  <2>4. IF r.re = NoCall THEN msg[d].seq < peerSeq[msg[d].to]
                         ELSE r.re \in relayGot /\ Promise!SameAsk(d, r.re)
    BY <1>3, <1>5, <1>6 DEF Promise!SameAsk
  <2>5. Promise!Return(d)
    BY <1>3, <1>5, <1>6, <2>2, <2>3, <2>4 DEF Promise!Return
  <2> QED
    BY <2>1, <2>5 DEF Promise!Next
<1>7. CASE ~(d # NoCall /\ pc[d] = "waiting")
  <2>1. \A e \in Calls : Status(e)' = Status(e)
    BY <1>1, <1>4, <1>7, NoCallAssumption DEF Status
  <2>2. result' = result
    BY <1>1, <1>4, <1>7, NoCallAssumption DEF TypeOK
  <2> QED
    BY <1>1, <2>1, <2>2, PromiseUnseen
<1> QED
  BY <1>6, <1>7

LEMMA PromiseStep ==
  TypeOK /\ DeliveryInv /\ [Next]_vars => [Promise!Next]_(Promise!vars)
<1> SUFFICES ASSUME TypeOK, DeliveryInv, [Next]_vars
             PROVE  Promise!Next
  OBVIOUS
<1> DEFINE Same == UNCHANGED <<msg, result, attempts, relayGot, peerSeq, alive>>
<1>1. ASSUME UNCHANGED pc, Same
      PROVE  Promise!Next
  <2>1. \A c \in Calls : Status(c)' = Status(c)
    BY <1>1 DEF Status
  <2> QED
    BY <1>1, <2>1, PromiseUnseen
<1>2. ASSUME NEW c \in Calls, NEW q \in QoS, NEW p \in Peers, ClientSend(c, p, q) \/ ClientAsk(c, p, q)
      PROVE  Promise!Next
  <2>1. \A k \in {"send", "ask"} : [kind |-> k, qos |-> q, to |-> p, seq |-> seq] \in Message
    BY DEF Message, TypeOK
  <2>2. CASE ClientSend(c, p, q)
    BY <2>1, <2>2, PromisePost DEF ClientSend
  <2>3. CASE ClientAsk(c, p, q)
    BY <2>1, <2>3, PromisePost DEF ClientAsk
  <2> QED
    BY <1>2, <2>2, <2>3
<1>3. ASSUME NEW c \in Calls, NEW q \in QoS, NEW r \in inbox, Reply(c, r, q)
      PROVE  Promise!Next
  <2>1. [kind |-> "reply", qos |-> q, to |-> r.from, seq |-> r.seq] \in Message
    BY DEF Message, TypeOK, Payload
  <2> QED
    BY <1>3, <2>1, PromisePost DEF Reply
<1>4. ASSUME NEW c \in Calls, Register(c)
      PROVE  Promise!Next
  <2>1. Same /\ pc[c] = "posted"
    BY <1>4 DEF Register, state, conn, peer
  <2>2. pc' = [pc EXCEPT ![c] = IF alive THEN "waiting" ELSE "err"]
    BY <1>4 DEF Register
  <2>3. CASE alive
    <3>1. \A d \in Calls : Status(d)' = Status(d)
      BY <2>1, <2>2, <2>3 DEF Status, TypeOK
    <3> QED
      BY <2>1, <3>1, PromiseUnseen
  <2>4. CASE ~alive
    <3>1. /\ Status(c) = "pending" /\ Status(c)' = "err"
          /\ \A d \in Calls \ {c} : Status(d)' = Status(d)
      BY <2>1, <2>2, <2>4 DEF Status, TypeOK
    <3>2. Promise!Finish(c, "err")
      BY <2>1, <3>1, PromiseFinish
    <3>3. Promise!Fail(c)
      BY <2>1, <2>4, <3>2 DEF Promise!Fail
    <3> QED
      BY <3>3 DEF Promise!Next
  <2> QED
    BY <2>3, <2>4
<1>5. ASSUME NEW c \in Calls, Abandon(c)
      PROVE  Promise!Next
  <2>1. Same /\ pc[c] = "waiting" /\ pc' = [pc EXCEPT ![c] = "dropped"]
    BY <1>5 DEF Abandon, state, conn, peer
  <2>2. /\ Status(c) = "pending" /\ Status(c)' = "dropped"
        /\ \A d \in Calls \ {c} : Status(d)' = Status(d)
    BY <2>1 DEF Status, TypeOK
  <2>3. Promise!Finish(c, "dropped")
    BY <2>1, <2>2, PromiseFinish
  <2>4. Promise!Abandon(c)
    BY <2>1, <2>3 DEF Promise!Abandon
  <2> QED
    BY <2>4 DEF Promise!Next
<1>6. CASE ClientStop \/ PollActor \/ Idle \/ UNCHANGED vars
  BY <1>1, <1>6 DEF ClientStop, PollActor, Idle, vars, api, state, conn, peer
<1>7. CASE Connected \/ Disconnect \/ Stray
  BY <1>1, <1>7 DEF Connected, Disconnect, Stray, api, state, peer
<1>8. CASE ConnectionFailed
  BY <1>8, PromiseGone DEF ConnectionFailed
<1>9. CASE RelayTake
  <2> DEFINE c == Head(out)
  <2>1. /\ c = out[1] /\ 1 \in DOMAIN out /\ c \in Calls
        /\ UNCHANGED <<pc, msg, result, attempts, peerSeq, alive>>
        /\ relayGot' = relayGot \cup {c}
    BY <1>9 DEF RelayTake, TypeOK, api, state, conn
  <2>2. attempts[c] > 0
    BY <2>1 DEF DeliveryInv, NetFits
  <2> HIDE DEF c
  <2>3. \A d \in Calls : Status(d)' = Status(d)
    BY <2>1 DEF Status
  <2>4. CASE c \in relayGot
    <3>1. relayGot' = relayGot
      BY <2>1, <2>4
    <3> QED
      BY <2>1, <2>3, <3>1, PromiseUnseen
  <2>5. CASE c \notin relayGot
    <3>1. Promise!Take(c)
      BY <2>1, <2>2, <2>3, <2>5 DEF Promise!Take
    <3> QED
      BY <2>1, <3>1 DEF Promise!Next
  <2> QED
    BY <2>4, <2>5
<1>10. ASSUME NEW c \in Calls, PeerReply(c) \/ TimerFire(c)
       PROVE  Promise!Next
  BY <1>1, <1>10 DEF PeerReply, TimerFire, api, state, conn, peer
<1>11. ASSUME NEW p \in Peers, PeerSend(p)
       PROVE  Promise!Next
  <2>1. /\ UNCHANGED <<pc, msg, result, attempts, relayGot, alive>>
        /\ peerSeq' = [peerSeq EXCEPT ![p] = @ + 1]
    BY <1>11 DEF PeerSend, api, state, conn
  <2>2. \A d \in Calls : Status(d)' = Status(d)
    BY <2>1 DEF Status
  <2>3. Promise!PeerSend(p)
    BY <2>1, <2>2 DEF Promise!PeerSend
  <2> QED
    BY <2>3 DEF Promise!Next
<1> QED
  BY <1>2, <1>3, <1>4, <1>5, <1>6, <1>7, <1>8, <1>9, <1>10, <1>11, PromiseHandleActor,
     PromiseHandleAck, PromiseHandlePayload DEF Next, Api, Actor, World

\* RelayDelivery implements DeliveryPromise, for any calls, kinds, peers, numbers, losses and
\* retries: every step is a step of a promise or one that the callers do not see.
THEOREM PromiseKept == Spec => KeepsPromise
<1>1. Init => Promise!Init
  <2> SUFFICES ASSUME Init, TypeOK
               PROVE  Promise!Init
    BY InitTypes
  <2>1. \A c \in Calls : Status(c) = "idle"
    BY DEF Init, Status
  <2>2. [c \in Calls |-> Status(c)] = [c \in Calls |-> "idle"]
    BY <2>1
  <2> QED
    BY <2>2 DEF Init, Promise!Init, TypeOK
<1> QED
  BY <1>1, PromiseStep, DeliveryInvariant, PTL DEF Spec, KeepsPromise, Promise!Spec
-----------------------------------------------------------------------------
(* Whose answer a call gets and on whose account it fails.  The argument is about *)
(* DeliveryPromise and carried over.                                              *)

\* AnswerExplained and FailureExplained in terms of DeliveryPromise.
AnswerByPromise(c) ==
  Status(c) = "ok" =>
    IF msg[c].kind = "ask"
      THEN result[c] = c \/ (result[c] = NoCall /\ msg[c].seq < peerSeq[msg[c].to])
      ELSE msg[c].qos = "AtLeastOnce" => \E d \in relayGot : CountsFor(d, c)

FailureByPromise(c) ==
  Status(c) = "err" =>
    \/ ~alive
    \/ /\ msg[c].kind # "ask"
       /\ \E d \in Calls \ {c} : Status(d) # "idle" /\ msg[d].kind # "ask" /\ CountsFor(d, c)

ByPromise(c) == AnswerByPromise(c) /\ FailureByPromise(c)

LEMMA ByPromiseIs == CollisionsExplained <=> \A c \in Calls : ByPromise(c)
<1>1. \A c \in Calls : /\ Status(c) = "ok" <=> pc[c] = "ok"
                       /\ Status(c) = "err" <=> pc[c] = "err"
                       /\ Status(c) # "idle" <=> pc[c] # "idle"
  BY DEF Status
<1> QED
  BY <1>1 DEF CollisionsExplained, AnswerExplained, FailureExplained, ByPromise,
              AnswerByPromise, FailureByPromise

\* Two calls of one number are the same, or one is a reply.
LEMMA SameNumber ==
  ASSUME DeliveryInv,
         NEW c \in Calls, NEW d \in Calls, Status(c) # "idle", Status(d) # "idle",
         msg[c].seq = msg[d].seq
  PROVE  CountsFor(d, c)
BY DEF DeliveryInv, OwnNumbers, Status, CountsFor

\* What explains the end of a call goes on doing so.
LEMMA ExplainedKept ==
  ASSUME DeliveryInv, NEW c \in Calls, ByPromise(c),
         Status(c)' = Status(c), msg'[c] = msg[c], result'[c] = result[c],
         \A d \in Calls : Status(d) # "idle" => Status(d)' # "idle" /\ msg'[d] = msg[d],
         relayGot \subseteq Calls, relayGot \subseteq relayGot', alive' => alive,
         msg[c].seq < peerSeq[msg[c].to] => msg[c].seq < peerSeq'[msg[c].to]
  PROVE  ByPromise(c)'
<1>1. \A d \in relayGot : Status(d) # "idle"
  BY DEF DeliveryInv, NetFits, Status
<1>2. \A d \in Calls : Status(d) # "idle" /\ CountsFor(d, c) => CountsFor(d, c)'
  BY DEF CountsFor
<1>3. AnswerByPromise(c)'
  <2>1. CASE msg[c].kind = "ask"
    BY <2>1 DEF AnswerByPromise, ByPromise
  <2>2. CASE msg[c].kind # "ask"
    <3>1. (\E d \in relayGot : CountsFor(d, c)) => (\E d \in relayGot' : CountsFor(d, c)')
      BY <1>1, <1>2
    <3> QED
      BY <2>2, <3>1 DEF AnswerByPromise, ByPromise
  <2> QED
    BY <2>1, <2>2
<1>4. FailureByPromise(c)'
  <2>1. \A d \in Calls : Status(d) # "idle" /\ msg[d].kind # "ask" /\ CountsFor(d, c)
                         => Status(d)' # "idle" /\ msg'[d].kind # "ask" /\ CountsFor(d, c)'
    BY <1>2
  <2> QED
    BY <2>1 DEF FailureByPromise, ByPromise
<1> QED
  BY <1>3, <1>4 DEF ByPromise

\* Every step of the promise keeps the explanations.
LEMMA PromiseExplained ==
  ASSUME TypeOK, DeliveryInv, Promise!Next, \A c \in Calls : ByPromise(c)
  PROVE  \A c \in Calls : ByPromise(c)'
<1> DEFINE st == [c \in Calls |-> Status(c)]
<1>1. relayGot \subseteq Calls /\ \A d \in relayGot : Status(d) # "idle"
  BY DEF DeliveryInv, NetFits, Status, TypeOK
<1>2. \A p \in Peers : peerSeq[p] \in Nat
  BY BoundsAssumption DEF TypeOK
<1>3. \A c \in Calls : msg[c].to \in Peers /\ msg[c].seq \in Nat
  BY BoundsAssumption DEF TypeOK, Message, Seqs
<1>4. ASSUME \A c \in Calls : Status(c)' = Status(c), UNCHANGED <<msg, result>>,
             relayGot \subseteq relayGot', alive' => alive,
             \A p \in Peers : peerSeq[p] <= peerSeq'[p] /\ peerSeq'[p] \in Nat
      PROVE  \A c \in Calls : ByPromise(c)'
  <2>1. ASSUME NEW c \in Calls
        PROVE  msg[c].seq < peerSeq[msg[c].to] => msg[c].seq < peerSeq'[msg[c].to]
    BY <1>2, <1>3, <1>4
  <2> QED
    BY <1>1, <1>4, <2>1, ExplainedKept
<1>5. CASE \/ Promise!Unseen
           \/ \E c \in Calls : Promise!Transmit(c) \/ Promise!Take(c)
  <2>1. /\ st' = st /\ UNCHANGED <<msg, result, peerSeq, alive>>
        /\ relayGot \subseteq relayGot'
    BY <1>5 DEF Promise!Unseen, Promise!vars, Promise!Transmit, Promise!Take
  <2>2. \A c \in Calls : Status(c)' = Status(c)
    BY <2>1
  <2> QED
    BY <1>2, <1>4, <2>1, <2>2
<1>6. ASSUME NEW p \in Peers, Promise!PeerSend(p)
      PROVE  \A c \in Calls : ByPromise(c)'
  <2>1. st' = st /\ UNCHANGED <<msg, result, relayGot, alive>>
    BY <1>6 DEF Promise!PeerSend
  <2>2. \A c \in Calls : Status(c)' = Status(c)
    BY <2>1
  <2>3. peerSeq' = [peerSeq EXCEPT ![p] = @ + 1] /\ DOMAIN peerSeq = Peers
    BY <1>6 DEF Promise!PeerSend, TypeOK
  <2>4. \A q \in Peers : peerSeq[q] <= peerSeq'[q] /\ peerSeq'[q] \in Nat
    BY <1>2, <2>3
  <2> QED
    BY <1>4, <2>1, <2>2, <2>4
<1>7. ASSUME NEW c \in Calls, Promise!Make(c)
      PROVE  \A d \in Calls : ByPromise(d)'
  <2>1. PICK m \in Message : /\ msg' = [msg EXCEPT ![c] = m] /\ Status(c) = "idle"
                             /\ st' = [st EXCEPT ![c] = IF Promise!Immediate(m) THEN "ok" ELSE "pending"]
                             /\ UNCHANGED <<result, relayGot, alive, peerSeq>>
    BY <1>7 DEF Promise!Make
  <2>2. /\ Status(c)' = IF Promise!Immediate(m) THEN "ok" ELSE "pending"
        /\ \A d \in Calls \ {c} : Status(d)' = Status(d)
    BY <2>1
  <2>3. msg'[c] = m /\ \A d \in Calls \ {c} : msg'[d] = msg[d]
    BY <2>1 DEF TypeOK
  <2>4. ByPromise(c)'
    BY <2>2, <2>3 DEF ByPromise, AnswerByPromise, FailureByPromise, Promise!Immediate
  <2>5. ASSUME NEW d \in Calls \ {c}
        PROVE  ByPromise(d)'
    BY <1>1, <2>1, <2>2, <2>3, ExplainedKept
  <2> QED
    BY <2>4, <2>5
<1>8. ASSUME NEW c \in Calls, NEW o, Promise!Finish(c, o)
      PROVE  /\ Status(c) = "pending" /\ Status(c)' = o
             /\ \A d \in Calls \ {c} : Status(d)' = Status(d)
             /\ UNCHANGED <<msg, relayGot, peerSeq, alive>>
  <2>1. /\ Status(c) = "pending" /\ st' = [st EXCEPT ![c] = o]
        /\ UNCHANGED <<msg, relayGot, peerSeq, alive>>
    BY <1>8 DEF Promise!Finish
  <2> QED
    BY <2>1
<1>9. ASSUME NEW c \in Calls, NEW o \in {"ok", "err", "dropped"}, Promise!Finish(c, o),
             \A d \in Calls \ {c} : result'[d] = result[d],
             ByPromise(c)'
      PROVE  \A d \in Calls : ByPromise(d)'
  <2>1. /\ Status(c) = "pending" /\ Status(c)' = o
        /\ \A d \in Calls \ {c} : Status(d)' = Status(d)
        /\ UNCHANGED <<msg, relayGot, peerSeq, alive>>
    BY <1>8, <1>9
  <2>2. \A d \in Calls : Status(d) # "idle" => Status(d)' # "idle"
    BY <2>1
  <2>3. ASSUME NEW d \in Calls \ {c}
        PROVE  ByPromise(d)'
    BY <1>1, <1>9, <2>1, <2>2, ExplainedKept
  <2> QED
    BY <1>9, <2>3
<1>10. ASSUME NEW c \in Calls, Promise!Confirm(c)
       PROVE  \A d \in Calls : ByPromise(d)'
  <2>1. Promise!Finish(c, "ok") /\ UNCHANGED result
    BY <1>10 DEF Promise!Confirm
  <2>2. /\ Status(c) = "pending" /\ Status(c)' = "ok" /\ msg[c].kind # "ask"
        /\ UNCHANGED <<msg, relayGot>>
    BY <1>8, <1>10, <2>1 DEF Promise!Confirm
  <2>3. PICK d \in relayGot : msg[d].seq = msg[c].seq
    BY <1>10 DEF Promise!Confirm
  <2>4. CountsFor(d, c)
    BY <1>1, <2>2, <2>3, SameNumber
  <2>5. ByPromise(c)'
    BY <2>2, <2>4 DEF ByPromise, AnswerByPromise, FailureByPromise, CountsFor
  <2> QED
    BY <1>9, <2>1, <2>5
<1>11. ASSUME NEW c \in Calls, Promise!Return(c)
       PROVE  \A d \in Calls : ByPromise(d)'
  <2>1. Promise!Finish(c, "ok") /\ msg[c].kind = "ask"
    BY <1>11 DEF Promise!Return
  <2>2. Status(c) = "pending" /\ Status(c)' = "ok" /\ UNCHANGED <<msg, peerSeq>>
    BY <1>8, <2>1
  <2>3. PICK r \in Calls \cup {NoCall} :
          /\ IF r = NoCall THEN msg[c].seq < peerSeq[msg[c].to]
                           ELSE r \in relayGot /\ Promise!SameAsk(c, r)
          /\ result' = [result EXCEPT ![c] = r]
    BY <1>11 DEF Promise!Return
  <2>4. result'[c] = r /\ \A d \in Calls \ {c} : result'[d] = result[d]
    BY <2>3 DEF TypeOK
  <2>5. ASSUME r # NoCall
        PROVE  r = c
    <3>1. r \in relayGot /\ msg[r].seq = msg[c].seq /\ msg[r].kind = "ask"
      BY <2>3, <2>5 DEF Promise!SameAsk
    <3>2. CountsFor(r, c)
      BY <1>1, <2>2, <3>1, SameNumber
    <3> QED
      BY <2>1, <3>1, <3>2 DEF CountsFor
  <2>6. ByPromise(c)'
    BY <2>1, <2>2, <2>3, <2>4, <2>5 DEF ByPromise, AnswerByPromise, FailureByPromise
  <2> QED
    BY <1>9, <2>1, <2>4, <2>6
<1>12. ASSUME NEW c \in Calls, Promise!Fail(c)
       PROVE  \A d \in Calls : ByPromise(d)'
  <2>1. Promise!Finish(c, "err") /\ UNCHANGED result
    BY <1>12 DEF Promise!Fail
  <2>2. /\ Status(c) = "pending" /\ Status(c)' = "err" /\ UNCHANGED <<msg, alive>>
        /\ \A d \in Calls \ {c} : Status(d)' = Status(d)
    BY <1>8, <2>1
  <2>3. ASSUME NEW d \in Calls \ {c}, Status(d) # "idle", msg[d].seq = msg[c].seq,
               msg[c].kind = "ask" <=> msg[d].kind = "ask"
        PROVE  /\ CountsFor(d, c)' /\ msg'[c].kind # "ask" /\ msg'[d].kind # "ask"
               /\ Status(d)' # "idle"
    <3>1. CountsFor(d, c)
      BY <2>2, <2>3, SameNumber
    <3>2. msg[c].kind # "ask" /\ msg[d].kind # "ask"
      BY <2>3, <3>1 DEF CountsFor
    <3> QED
      BY <2>2, <2>3, <3>1, <3>2 DEF CountsFor
  <2>4. FailureByPromise(c)'
    <3>1. CASE ~alive
      BY <2>2, <3>1 DEF FailureByPromise
    <3>2. CASE alive
      <4>1. PICK d \in Calls \ {c} : /\ Status(d) # "idle" /\ msg[d].seq = msg[c].seq
                                     /\ msg[c].kind = "ask" <=> msg[d].kind = "ask"
        BY <1>12, <3>2 DEF Promise!Fail
      <4>2. /\ CountsFor(d, c)' /\ msg'[c].kind # "ask" /\ msg'[d].kind # "ask"
            /\ Status(d)' # "idle"
        BY <2>3, <4>1
      <4> QED
        BY <4>2 DEF FailureByPromise
    <3> QED
      BY <3>1, <3>2
  <2>5. ByPromise(c)'
    BY <2>2, <2>4 DEF ByPromise, AnswerByPromise
  <2> QED
    BY <1>9, <2>1, <2>5
<1>13. ASSUME NEW c \in Calls, Promise!Abandon(c)
       PROVE  \A d \in Calls : ByPromise(d)'
  <2>1. Promise!Finish(c, "dropped") /\ UNCHANGED result
    BY <1>13 DEF Promise!Abandon
  <2>2. Status(c)' = "dropped"
    BY <1>8, <2>1
  <2>3. ByPromise(c)'
    BY <2>2 DEF ByPromise, AnswerByPromise, FailureByPromise
  <2> QED
    BY <1>9, <2>1, <2>3
<1>14. CASE Promise!End
  <2>1. PICK F \in SUBSET {c \in Calls : st[c] = "pending"} :
          st' = [c \in Calls |-> IF c \in F THEN "err" ELSE st[c]]
    BY <1>14 DEF Promise!End
  <2>2. ~alive' /\ UNCHANGED <<msg, result, relayGot, peerSeq>>
    BY <1>14 DEF Promise!End
  <2>3. \A c \in Calls : Status(c)' = "ok" => Status(c) = "ok"
    BY <2>1
  <2> QED
    BY <2>2, <2>3 DEF ByPromise, AnswerByPromise, FailureByPromise, CountsFor
<1> QED
  BY <1>5, <1>6, <1>7, <1>10, <1>11, <1>12, <1>13, <1>14 DEF Promise!Next

\* For all clients, peers and losses: a call ends for its own message, or for a reply's or
\* a peer's own message of the same number.
THEOREM OnlyRepliesCollide == Spec => []CollisionsExplained
<1>1. Init => CollisionsExplained
  BY DEF Init, CollisionsExplained, AnswerExplained, FailureExplained
<1>2. ASSUME TypeOK, TypeOK', DeliveryInv, CollisionsExplained, [Next]_vars
      PROVE  CollisionsExplained'
  <2>1. Promise!Next
    BY <1>2, PromiseStep DEF Promise!Next, Promise!Unseen
  <2>2. \A c \in Calls : ByPromise(c)
    BY <1>2, ByPromiseIs
  <2>3. \A c \in Calls : ByPromise(c)'
    BY <1>2, <2>1, <2>2, PromiseExplained
  <2>4. \A c \in Calls : /\ Status(c)' = "ok" <=> pc'[c] = "ok"
                         /\ Status(c)' = "err" <=> pc'[c] = "err"
                         /\ Status(c)' # "idle" <=> pc'[c] # "idle"
    BY DEF Status
  <2> QED
    BY <2>3, <2>4 DEF CollisionsExplained, AnswerExplained, FailureExplained, ByPromise,
                      AnswerByPromise, FailureByPromise
<1> QED
  BY <1>1, <1>2, DeliveryInvariant, PTL DEF Spec
-----------------------------------------------------------------------------
(* A client that does not use reply(), whose numbers are the peer's. *)

KindsUsed == \A c \in Calls : pc[c] # "idle" => msg[c].kind \in Kinds

LEMMA KindsStep == TypeOK /\ KindsUsed /\ [Next]_vars => KindsUsed'
<1> SUFFICES ASSUME TypeOK, KindsUsed, [Next]_vars
             PROVE  KindsUsed'
  OBVIOUS
<1>1. ASSUME UNCHANGED msg, \A c \in Calls : pc[c] = "idle" => pc'[c] = "idle"
      PROVE  KindsUsed'
  BY <1>1 DEF KindsUsed
<1>2. ASSUME NEW c \in Calls, NEW m, Post(c, m)
      PROVE  KindsUsed'
  <2>1. /\ m.kind \in Kinds /\ msg'[c] = m
        /\ \A d \in Calls \ {c} : msg'[d] = msg[d] /\ pc'[d] = pc[d]
    BY <1>2 DEF Post, TypeOK
  <2> QED
    BY <2>1 DEF KindsUsed
<1>3. CASE Gone
  BY <1>1, <1>3 DEF Gone
<1>4. CASE HandleActor
  <2>1. UNCHANGED msg
    BY <1>4 DEF HandleActor, Handle, HandleSend, HandleWaitForAck, HandleWaitForReply,
                HandleRetryAck, HandleRetryAsk, Retry, Gone, api
  <2>2. \A c \in Calls : pc[c] = "idle" => pc'[c] = "idle"
    BY <1>4 DEF HandleActor, Handle, HandleSend, HandleWaitForAck, HandleWaitForReply, Overwrite,
                HandleRetryAck, HandleRetryAsk, Retry, Gone, api
  <2> QED
    BY <1>1, <2>1, <2>2
<1>5. CASE HandleAck \/ HandlePayload
  BY <1>1, <1>5 DEF HandleAck, HandlePayload
<1>6. ASSUME NEW c \in Calls, Register(c) \/ Abandon(c)
      PROVE  KindsUsed'
  BY <1>1, <1>6 DEF Register, Abandon, TypeOK
<1>7. CASE ClientStop \/ PollActor \/ Idle \/ UNCHANGED vars
  BY <1>1, <1>7 DEF ClientStop, PollActor, Idle, vars, api
<1>8. CASE World
  BY <1>1, <1>3, <1>8 DEF World, Connected, Disconnect, Stray, ConnectionFailed, RelayTake, PeerReply,
                          TimerFire, PeerSend, api
<1>9. CASE Api
  BY <1>2, <1>6, <1>7, <1>9 DEF Api, ClientSend, ClientAsk, Reply
<1> QED
  BY <1>4, <1>5, <1>7, <1>8, <1>9 DEF Next, Actor

LEMMA KindsInvariant == Spec => []KindsUsed
<1>1. Init => KindsUsed
  BY DEF Init, KindsUsed
<1> QED
  BY <1>1, KindsStep, DeliveryTypeCorrect, PTL DEF Spec

\* Without replies two calls of one number are the same.
LEMMA NoReplies ==
  ASSUME Kinds \subseteq {"send", "ask"}, KindsUsed,
         NEW c \in Calls, NEW d \in Calls, pc[c] # "idle", pc[d] # "idle", CountsFor(d, c)
  PROVE  d = c
BY DEF KindsUsed, CountsFor

\* Without reply(), a call fails only because the actor has ended.
THEOREM OnlyTheEndFails ==
  ASSUME Kinds \subseteq {"send", "ask"}
  PROVE  Spec => []FailsOnlyWhenGone
<1>1. ASSUME KindsUsed, CollisionsExplained
      PROVE  FailsOnlyWhenGone
  <2> SUFFICES ASSUME NEW c \in Calls, pc[c] = "err"
               PROVE  ~alive
    BY DEF FailsOnlyWhenGone
  <2>1. FailureExplained(c)
    BY <1>1 DEF CollisionsExplained
  <2> QED
    BY <1>1, <2>1, NoReplies DEF FailureExplained
<1> QED
  BY <1>1, KindsInvariant, OnlyRepliesCollide, PTL

\* Without reply() and without messages of the peers' own, a call that returns Ok does so for
\* its own message and, if it is an ask, with its own reply.
THEOREM OnlyOwnAnswers ==
  ASSUME Kinds \subseteq {"send", "ask"}, MaxPeerSends = 0
  PROVE  Spec => []OwnAnswer
<1>1. ASSUME TypeOK, DeliveryInv, KindsUsed, CollisionsExplained
      PROVE  OwnAnswer
  <2> SUFFICES ASSUME NEW c \in Calls, pc[c] = "ok"
               PROVE  IF msg[c].kind = "ask" THEN result[c] = c
                                             ELSE msg[c].qos = "AtLeastOnce" => c \in relayGot
    BY DEF OwnAnswer
  <2>1. AnswerExplained(c)
    BY <1>1 DEF CollisionsExplained
  <2>2. ~(msg[c].seq < peerSeq[msg[c].to])
    BY <1>1 DEF TypeOK, Message, Seqs
  <2>3. \A d \in relayGot : d \in Calls /\ pc[d] # "idle"
    BY <1>1 DEF DeliveryInv, NetFits, TypeOK
  <2> QED
    BY <1>1, <2>1, <2>2, <2>3, NoReplies DEF AnswerExplained
<1> QED
  BY <1>1, KindsInvariant, OnlyRepliesCollide, DeliveryInvariant, PTL
-----------------------------------------------------------------------------
(* Retries *)

\* What the two steps that give a call to the connection have in common.
LEMMA TransmitStep ==
  ASSUME TypeOK, DeliveryInv, HandleActor, out' # out
  PROVE  \E c, d \in Calls :
           /\ out' = Append(out, d) /\ attempts' = [attempts EXCEPT ![d] = Bump(@)]
           /\ Head(actor).call = c
           /\ \/ Head(actor).type = "Send" /\ d = c /\ UNCHANGED <<timer, left>>
              \/ /\ Head(actor).type \in {"RetryAck", "RetryAsk"} /\ CountsFor(d, c)
                 /\ Registered(d) /\ timer[c] = "queued" /\ ~IsZero(left[c])
                 /\ Spawn(c, Decrement(MaxMessageAttempts))
<1>1. actor # <<>> /\ actor' = Tail(actor) /\ Handle(Head(actor))
  BY DEF HandleActor
<1>2. QueuedFits(Head(actor)) /\ (Head(actor).type # "Stop" => Head(actor).call \in Calls)
  <2>1. Head(actor) \in Msg /\ QueuedFits(Head(actor))
    BY <1>1, Dequeue
  <2> QED
    BY <2>1 DEF Msg
<1> DEFINE c == Head(actor).call
<1>3. CASE Head(actor).type = "Send" /\ HandleSend(c)
  BY <1>2, <1>3 DEF HandleSend, Transmit
<1>4. CASE \/ Head(actor).type = "RetryAck" /\ HandleRetryAck(c)
           \/ Head(actor).type = "RetryAsk" /\ HandleRetryAsk(c)
  <2>1. PICK d \in Calls \cup {NoCall} :
          /\ Retry(c, d) /\ (d # NoCall => Registered(d)) /\ (d # NoCall => CountsFor(d, c))
    BY <1>1, <1>2, <1>4, RetryFinds
  <2>2. d # NoCall /\ ~IsZero(left[c]) /\ Transmit(d) /\ Spawn(c, Decrement(MaxMessageAttempts))
    BY <2>1 DEF Retry
  <2>3. timer[c] = "queued" /\ c \in Calls
    BY <1>2, <1>4 DEF QueuedFits
  <2> QED
    BY <1>4, <2>1, <2>2, <2>3 DEF Transmit
<1>5. CASE \/ Head(actor).type = "WaitForAck" /\ HandleWaitForAck(c)
           \/ Head(actor).type = "WaitForReply" /\ HandleWaitForReply(c)
           \/ Head(actor).type = "Stop" /\ Gone
  BY <1>5 DEF HandleWaitForAck, HandleWaitForReply, Gone
<1> QED
  BY <1>1, <1>3, <1>4, <1>5 DEF Handle

\* No other step makes the channel to the relay longer.
LEMMA OutGrows ==
  ASSUME TypeOK, [Next]_vars, ~HandleActor
  PROVE  out' = out \/ (out' \in Seq(Calls) /\ Len(out') <= Len(out))
<1>1. out \in Seq(Calls) /\ Len(out) \in Nat
  BY DEF TypeOK
<1>2. CASE Api \/ PollActor \/ HandleAck \/ HandlePayload \/ Idle \/ UNCHANGED vars
  BY <1>2 DEF Api, ClientSend, ClientAsk, Reply, Post, Register, Abandon, ClientStop, PollActor,
              HandleAck, HandlePayload, Idle, vars
<1>3. CASE Disconnect
  <2>1. PICK k \in 0 .. Len(out) : out' = SubSeq(out, k + 1, Len(out))
    BY <1>3 DEF Disconnect
  <2> QED
    BY <1>1, <2>1
<1>4. CASE Stray
  <2>1. PICK k \in DOMAIN out : out' = SubSeq(out, 1, k - 1) \o SubSeq(out, k + 1, Len(out))
    BY <1>4 DEF Stray
  <2>2. out' \in Seq(Calls) /\ Len(out') = Len(out) - 1
    BY <1>1, <2>1, WithoutOne
  <2> QED
    BY <1>1, <2>2
<1>5. CASE RelayTake
  <2>1. out # <<>> /\ out' = Tail(out)
    BY <1>5 DEF RelayTake
  <2> QED
    BY <1>1, <2>1
<1>6. CASE World /\ ~Disconnect /\ ~Stray /\ ~RelayTake
  BY <1>6 DEF World, Connected, ConnectionFailed, Gone, PeerReply, TimerFire, PeerSend
<1> QED
  BY <1>2, <1>3, <1>4, <1>5, <1>6 DEF Next, Actor

\* A silent call keeps its place, its timer and its absence from the queue.
LEMMA SilentStays ==
  ASSUME TypeOK, DeliveryInv, [Next]_vars, NEW c \in Calls, Silent(c)
  PROVE  Silent(c)'
<1>1. ASSUME pc'[c] \notin {"idle", "posted"}, timer'[c] = timer[c],
             \A i \in DOMAIN actor' : (\E j \in DOMAIN actor : actor'[i] = actor[j])
                                         \/ actor'[i].call # c
      PROVE  Silent(c)'
  BY <1>1 DEF Silent
<1>2. ASSUME NEW w \in Msg, actor' = Append(actor, w), w.call # c
      PROVE  \A i \in DOMAIN actor' : (\E j \in DOMAIN actor : actor'[i] = actor[j])
                                         \/ actor'[i].call # c
  <2>1. actor \in Seq(Msg)
    BY DEF TypeOK
  <2>2. \A i \in DOMAIN actor' : (i \in DOMAIN actor /\ actor'[i] = actor[i]) \/ actor'[i] = w
    BY <1>2, <2>1
  <2> QED
    BY <1>2, <2>2
<1>3. ASSUME NEW d \in Calls, NEW m, Post(d, m)
      PROVE  Silent(c)'
  <2>1. /\ d # c /\ pc'[c] = pc[c] /\ timer' = timer
        /\ actor' = Append(actor, [type |-> "Send", call |-> d])
    BY <1>3 DEF Post, Silent, Tell, TypeOK, state
  <2>2. [type |-> "Send", call |-> d] \in Msg
    BY DEF Msg
  <2> QED
    BY <1>1, <1>2, <2>1, <2>2 DEF Silent
<1>4. ASSUME NEW d \in Calls, Register(d)
      PROVE  Silent(c)'
  <2>1. d # c /\ pc'[c] = pc[c] /\ timer' = timer
    BY <1>4 DEF Register, Silent, TypeOK, state
  <2>2. CASE actor' = actor
    BY <1>1, <2>1, <2>2 DEF Silent
  <2>3. CASE actor' # actor
    <3>1. PICK t \in {"WaitForReply", "WaitForAck"} :
            actor' = Append(actor, [type |-> t, call |-> d])
      BY <1>4, <2>3 DEF Register, Tell
    <3>2. [type |-> t, call |-> d] \in Msg
      BY DEF Msg
    <3> QED
      BY <1>1, <1>2, <2>1, <3>1, <3>2 DEF Silent
  <2> QED
    BY <2>2, <2>3
<1>5. ASSUME NEW d \in Calls, TimerFire(d)
      PROVE  Silent(c)'
  <2>1. d # c /\ pc' = pc /\ timer'[c] = timer[c]
    BY <1>5 DEF TimerFire, Silent, TypeOK, api
  <2>2. CASE actor' = actor
    BY <1>1, <2>1, <2>2 DEF Silent
  <2>3. CASE actor' # actor
    <3>1. PICK t \in {"RetryAsk", "RetryAck"} :
            actor' = Append(actor, [type |-> t, call |-> d])
      BY <1>5, <2>3 DEF TimerFire, Tell
    <3>2. [type |-> t, call |-> d] \in Msg
      BY DEF Msg
    <3> QED
      BY <1>1, <1>2, <2>1, <3>1, <3>2 DEF Silent
  <2> QED
    BY <2>2, <2>3
<1>6. CASE ClientStop
  <2>1. pc' = pc /\ timer' = timer /\ actor' = Append(actor, [type |-> "Stop", call |-> NoCall])
    BY <1>6 DEF ClientStop, Tell, api, state
  <2>2. [type |-> "Stop", call |-> NoCall] \in Msg /\ NoCall # c
    BY NoCallAssumption DEF Msg
  <2> QED
    BY <1>1, <1>2, <2>1, <2>2 DEF Silent
<1>7. ASSUME Gone
      PROVE  pc'[c] \notin {"idle", "posted"} /\ timer' = timer
  BY <1>7 DEF Gone, Silent
<1>8. CASE HandleActor
  <2>1. actor # <<>> /\ actor' = Tail(actor) /\ Handle(Head(actor))
    BY <1>8 DEF HandleActor
  <2>2. \A i \in DOMAIN actor' : \E j \in DOMAIN actor : actor'[i] = actor[j]
    BY <2>1, Dequeue
  <2>3. Head(actor).call # c /\ Head(actor) \in Msg
    BY <2>1, QueueTail DEF Silent, DeliveryInv
  <2> DEFINE d == Head(actor).call
  <2>4. CASE Head(actor).type = "Stop" /\ Gone
    BY <1>1, <1>7, <2>2, <2>4
  <2>5. CASE Head(actor).type = "Send" /\ HandleSend(d)
    <3>1. pc' = pc /\ timer' = timer
      BY <2>5 DEF HandleSend, api
    <3> QED
      BY <1>1, <2>2, <3>1 DEF Silent
  <2>6. CASE HandleWaitForAck(d) \/ HandleWaitForReply(d)
    <3>1. timer' = [timer EXCEPT ![d] = "sleeping"] /\ \E e : pc' = Overwrite(e)
      BY <2>6 DEF HandleWaitForAck, HandleWaitForReply, Spawn
    <3>2. timer'[c] = timer[c] /\ pc'[c] \in {pc[c], "err"}
      BY <2>3, <3>1 DEF Overwrite, TypeOK
    <3> QED
      BY <1>1, <2>2, <3>2 DEF Silent
  <2>7. CASE HandleRetryAck(d) \/ HandleRetryAsk(d)
    <3>1. pc' = pc /\ timer'[c] = timer[c]
      BY <2>3, <2>7 DEF HandleRetryAck, HandleRetryAsk, Retry, Spawn, TypeOK, api
    <3> QED
      BY <1>1, <2>2, <3>1 DEF Silent
  <2> QED
    BY <2>1, <2>4, <2>5, <2>6, <2>7 DEF Handle
<1>9. ASSUME UNCHANGED <<timer, actor>>, pc'[c] \notin {"idle", "posted"}
      PROVE  Silent(c)'
  BY <1>9 DEF Silent
<1>10. CASE HandleAck \/ HandlePayload
  <2>1. UNCHANGED <<timer, actor>> /\ pc'[c] \in {pc[c], "ok"}
    BY <1>10 DEF HandleAck, HandlePayload, state
  <2> QED
    BY <1>9, <2>1 DEF Silent
<1>11. ASSUME NEW d \in Calls, Abandon(d)
       PROVE  Silent(c)'
  <2>1. UNCHANGED <<timer, actor>> /\ pc'[c] \in {pc[c], "dropped"}
    BY <1>11 DEF Abandon, state, TypeOK
  <2> QED
    BY <1>9, <2>1 DEF Silent
<1>12. CASE PollActor \/ Idle \/ UNCHANGED vars
  BY <1>9, <1>12 DEF PollActor, Idle, vars, api, state, Silent
<1>13. CASE World
  <2>1. CASE \E d \in Calls : TimerFire(d)
    BY <1>5, <2>1
  <2>2. CASE ConnectionFailed
    BY <1>7, <1>9, <2>2 DEF ConnectionFailed
  <2>3. CASE \/ Connected \/ Disconnect \/ Stray \/ RelayTake
             \/ \E d \in Calls : PeerReply(d)
             \/ \E p \in Peers : PeerSend(p)
    BY <1>9, <2>3 DEF Connected, Disconnect, Stray, RelayTake, PeerReply, PeerSend, api, state,
                      Silent
  <2> QED
    BY <1>13, <2>1, <2>2, <2>3 DEF World
<1>14. CASE Api
  BY <1>3, <1>4, <1>6, <1>11, <1>14 DEF Api, ClientSend, ClientAsk, Reply
<1> QED
  BY <1>8, <1>10, <1>12, <1>13, <1>14 DEF Next, Actor

\* When the retries of a call are used up, or its chain has ended for another reason, its
\* message is not sent again, whatever happens to the connection.
THEOREM SilenceIsForGood == Spec => SilenceIsFinal
<1>1. ASSUME TypeOK, DeliveryInv, [Next]_vars, NEW c \in Calls, Silent(c), out' = Append(out, c)
      PROVE  \E d \in Calls \ {c} : timer[d] = "queued" /\ CountsFor(d, c)
  <2>1. out \in Seq(Calls) /\ Len(out') = Len(out) + 1 /\ Len(out) \in Nat
    BY <1>1 DEF TypeOK
  <2>2. HandleActor /\ out' # out
    BY <1>1, <2>1, OutGrows
  <2>3. PICK e, d \in Calls :
           /\ out' = Append(out, d) /\ Head(actor).call = e
           /\ \/ d = e
              \/ timer[e] = "queued" /\ CountsFor(d, e)
    BY <1>1, <2>2, TransmitStep
  <2>4. d = c
    <3>1. Append(out, d)[Len(out) + 1] = d /\ Append(out, c)[Len(out) + 1] = c
      BY <2>1
    <3> QED
      BY <1>1, <2>3, <3>1
  <2>5. e # c
    <3>1. actor # <<>> /\ actor' = Tail(actor)
      BY <2>2 DEF HandleActor
    <3> QED
      BY <1>1, <2>3, <3>1, QueueTail DEF Silent, DeliveryInv
  <2> QED
    BY <2>3, <2>4, <2>5 DEF CountsFor
<1>2. ASSUME TypeOK, DeliveryInv, [Next]_vars
      PROVE  [\A c \in Calls : Silent(c) =>
                /\ Silent(c)'
                /\ out' = Append(out, c) =>
                     \E d \in Calls \ {c} : timer[d] = "queued" /\ CountsFor(d, c)]_vars
  BY <1>1, <1>2, SilentStays
<1> QED
  BY <1>2, DeliveryInvariant, PTL DEF Spec, SilenceIsFinal

\* What c may still be sent is within the limit: by the chain that runs, or by the one
\* that its registration will start.
BudgetFits(c) ==
  /\ left[c] \in 0 .. MaxMessageAttempts /\ attempts[c] <= 1 + MaxMessageAttempts
  /\ timer[c] # "none" => attempts[c] + left[c] <= 1 + MaxMessageAttempts
  /\ pc[c] = "posted" => attempts[c] <= 1
  /\ \A i \in DOMAIN actor : actor[i].call = c /\ actor[i].type \in Waits => attempts[c] <= 1

\* Nothing happens to what c may still be sent.
LEMMA BudgetKept ==
  ASSUME NEW c \in Calls, BudgetFits(c), left'[c] = left[c], attempts'[c] = attempts[c],
         timer'[c] = timer[c] \/ timer[c] # "none", pc'[c] = "posted" => pc[c] = "posted",
         \A i \in DOMAIN actor' : actor'[i].call = c /\ actor'[i].type \in Waits =>
           pc[c] = "posted" \/ \E j \in DOMAIN actor : actor'[i] = actor[j]
  PROVE  BudgetFits(c)'
BY DEF BudgetFits

LEMMA BudgetStep ==
  ASSUME TypeOK, TypeOK', DeliveryInv, KindsUsed, Kinds \subseteq {"send", "ask"},
         MaxMessageAttempts \in {0, 1}, [Next]_vars, \A c \in Calls : BudgetFits(c)
  PROVE  \A c \in Calls : BudgetFits(c)'
<1>1. \A c \in Calls : /\ attempts[c] \in Nat /\ attempts'[c] \in Nat
                       /\ left[c] \in Nat \cup {Infinite} /\ left'[c] \in Nat \cup {Infinite}
  BY DEF TypeOK, Amount
<1>2. ASSUME UNCHANGED <<left, attempts>>,
             \A c \in Calls : timer'[c] = timer[c] \/ timer[c] # "none",
             \A c \in Calls : pc'[c] = "posted" => pc[c] = "posted",
             \A i \in DOMAIN actor' : actor'[i].type \in Waits =>
               pc[actor'[i].call] = "posted" \/ \E j \in DOMAIN actor : actor'[i] = actor[j]
      PROVE  \A c \in Calls : BudgetFits(c)'
  BY <1>2, BudgetKept
<1>3. ASSUME NEW w \in Msg, actor' = Append(actor, w)
      PROVE  \A i \in DOMAIN actor' : (\E j \in DOMAIN actor : actor'[i] = actor[j])
                                         \/ actor'[i] = w
  <2>1. actor \in Seq(Msg)
    BY DEF TypeOK
  <2>2. \A i \in DOMAIN actor' : (i \in DOMAIN actor /\ actor'[i] = actor[i]) \/ actor'[i] = w
    BY <1>3, <2>1
  <2> QED
    BY <2>2
<1>4. ASSUME NEW c \in Calls, NEW m, Post(c, m)
      PROVE  \A d \in Calls : BudgetFits(d)'
  <2>1. /\ UNCHANGED <<timer, left, attempts>> /\ pc[c] = "idle"
        /\ \A d \in Calls \ {c} : pc'[d] = pc[d]
        /\ actor' = Append(actor, [type |-> "Send", call |-> c])
    BY <1>4 DEF Post, Tell, TypeOK, state
  <2>2. [type |-> "Send", call |-> c] \in Msg
    BY DEF Msg
  <2>3. \A i \in DOMAIN actor' : actor'[i].type \in Waits =>
          \E j \in DOMAIN actor : actor'[i] = actor[j]
    BY <1>3, <2>1, <2>2 DEF Waits
  <2>4. ASSUME NEW d \in Calls \ {c}
        PROVE  BudgetFits(d)'
    BY <2>1, <2>3, BudgetKept
  <2>5. BudgetFits(c)'
    <3>1. attempts[c] = 0 /\ attempts'[c] = 0 /\ left'[c] = left[c] /\ timer'[c] = timer[c]
      BY <2>1 DEF DeliveryInv, CallsFit, CallFits
    <3> QED
      BY <3>1 DEF BudgetFits
  <2> QED
    BY <2>4, <2>5
<1>5. ASSUME NEW c \in Calls, Register(c)
      PROVE  \A d \in Calls : BudgetFits(d)'
  <2>1. /\ UNCHANGED <<timer, left, attempts>> /\ pc[c] = "posted"
        /\ \A d \in Calls : pc'[d] = "posted" => pc[d] = "posted"
    BY <1>5 DEF Register, TypeOK, state
  <2>2. CASE actor' = actor
    BY <1>2, <2>1, <2>2
  <2>3. CASE actor' # actor
    <3>1. PICK t \in Waits : actor' = Append(actor, [type |-> t, call |-> c])
      BY <1>5, <2>3 DEF Register, Tell, Waits
    <3>2. [type |-> t, call |-> c] \in Msg
      BY DEF Msg, Waits
    <3> QED
      BY <1>2, <1>3, <2>1, <3>1, <3>2
  <2> QED
    BY <2>2, <2>3
<1>6. ASSUME NEW c \in Calls, TimerFire(c)
      PROVE  \A d \in Calls : BudgetFits(d)'
  <2>1. /\ UNCHANGED <<pc, left, attempts>>
        /\ \A d \in Calls : timer'[d] = timer[d] \/ timer[d] # "none"
    BY <1>6 DEF TimerFire, TypeOK, api
  <2>2. CASE actor' = actor
    BY <1>2, <2>1, <2>2
  <2>3. CASE actor' # actor
    <3>1. PICK t \in {"RetryAck", "RetryAsk"} : actor' = Append(actor, [type |-> t, call |-> c])
      BY <1>6, <2>3 DEF TimerFire, Tell
    <3>2. [type |-> t, call |-> c] \in Msg
      BY DEF Msg
    <3> QED
      BY <1>2, <1>3, <2>1, <3>1, <3>2 DEF Waits
  <2> QED
    BY <2>2, <2>3
<1>7. CASE ClientStop
  <2>1. /\ UNCHANGED <<pc, timer, left, attempts>>
        /\ actor' = Append(actor, [type |-> "Stop", call |-> NoCall])
    BY <1>7 DEF ClientStop, Tell, api, state
  <2>2. [type |-> "Stop", call |-> NoCall] \in Msg
    BY DEF Msg
  <2> QED
    BY <1>2, <1>3, <2>1, <2>2 DEF Waits
<1>8. ASSUME Gone
      PROVE  UNCHANGED <<timer, left, attempts>> /\ \A d \in Calls : pc'[d] = "posted" => pc[d] = "posted"
  BY <1>8 DEF Gone
<1>9. CASE HandleActor
  <2>1. actor # <<>> /\ actor' = Tail(actor) /\ Handle(Head(actor))
    BY <1>9 DEF HandleActor
  <2>2. \A i \in DOMAIN actor' : \E j \in DOMAIN actor : actor'[i] = actor[j]
    BY <2>1, Dequeue
  <2>3. QueuedFits(Head(actor)) /\ (Head(actor).type # "Stop" => Head(actor).call \in Calls)
    <3>1. Head(actor) \in Msg /\ QueuedFits(Head(actor))
      BY <2>1, Dequeue
    <3> QED
      BY <3>1 DEF Msg
  <2>4. Head(actor) = actor[1] /\ 1 \in DOMAIN actor
    BY <2>1, QueueTail DEF DeliveryInv
  <2>5. PICK c : c = Head(actor).call
    OBVIOUS
  <2>6. CASE Head(actor).type = "Stop" /\ Gone
    BY <1>2, <1>8, <2>2, <2>6
  <2>7. CASE \/ Head(actor).type = "WaitForAck" /\ HandleWaitForAck(c)
             \/ Head(actor).type = "WaitForReply" /\ HandleWaitForReply(c)
    <3>1. /\ c \in Calls /\ timer' = [timer EXCEPT ![c] = "sleeping"] /\ attempts' = attempts
          /\ \E n \in {0, MaxMessageAttempts} : left' = [left EXCEPT ![c] = n]
          /\ \E d : pc' = Overwrite(d)
      BY <2>3, <2>5, <2>7 DEF HandleWaitForAck, HandleWaitForReply, Spawn
    <3>2. \A d \in Calls : pc'[d] = "posted" => pc[d] = "posted"
      BY <3>1 DEF Overwrite
    <3>3. ASSUME NEW d \in Calls \ {c}
          PROVE  BudgetFits(d)'
      <4>1. timer'[d] = timer[d] /\ left'[d] = left[d]
        BY <3>1 DEF TypeOK
      <4> QED
        BY <2>2, <3>1, <3>2, <4>1, BudgetKept
    <3>4. BudgetFits(c)'
      <4>1. attempts[c] <= 1
        BY <2>4, <2>5, <2>7, <3>1 DEF BudgetFits, Waits
      <4>2. left'[c] \in {0, MaxMessageAttempts} /\ timer'[c] = "sleeping" /\ attempts'[c] = attempts[c]
        BY <3>1 DEF TypeOK
      <4> QED
        BY <1>1, <3>1, <4>1, <4>2 DEF BudgetFits
    <3> QED
      BY <3>3, <3>4
  <2>8. CASE out' = out /\ (Head(actor).type = "Send" /\ HandleSend(c))
    BY <2>8 DEF HandleSend, Transmit, TypeOK
  <2>9. CASE /\ out' = out
             /\ \/ Head(actor).type = "RetryAck" /\ HandleRetryAck(c)
                \/ Head(actor).type = "RetryAsk" /\ HandleRetryAsk(c)
    <3>1. PICK d \in Calls \cup {NoCall} : Retry(c, d)
      BY <2>1, <2>3, <2>5, <2>9, RetryFinds
    <3>2. Append(out, d) # out
      BY DEF TypeOK
    <3>3. timer' = [timer EXCEPT ![c] = "none"] /\ UNCHANGED <<pc, left, attempts>>
      BY <2>9, <3>1, <3>2 DEF Retry, Transmit, api
    <3>4. timer[c] = "queued"
      BY <2>3, <2>5, <2>9 DEF QueuedFits
    <3>5. \A e \in Calls : timer'[e] = timer[e] \/ timer[e] # "none"
      BY <3>3, <3>4 DEF TypeOK
    <3> QED
      BY <1>2, <2>2, <3>3, <3>5
  <2>10. CASE out' # out
    <3>1. PICK e, d \in Calls :
           /\ attempts' = [attempts EXCEPT ![d] = Bump(@)]
           /\ Head(actor).call = e
           /\ \/ Head(actor).type = "Send" /\ d = e /\ UNCHANGED <<timer, left>>
              \/ /\ Head(actor).type \in {"RetryAck", "RetryAsk"} /\ CountsFor(d, e)
                 /\ Registered(d) /\ timer[e] = "queued" /\ ~IsZero(left[e])
                 /\ Spawn(e, Decrement(MaxMessageAttempts))
      BY <1>9, <2>10, TransmitStep
    <3>2. d = e
      <4>1. pc[e] # "idle" /\ (Registered(d) => pc[d] # "idle")
        BY <2>3, <3>1 DEF QueuedFits, DeliveryInv, CallsFit, CallFits
      <4> QED
        BY <3>1, <4>1, NoReplies
    <3>3. attempts'[d] <= attempts[d] + 1 /\ \A f \in Calls \ {d} : attempts'[f] = attempts[f]
      BY <1>1, <3>1 DEF TypeOK, Bump
    <3>4. pc' = pc
      <4>1. Head(actor).type \in {"Send", "RetryAck", "RetryAsk"}
        BY <3>1
      <4> QED
        BY <2>1, <4>1 DEF Handle, HandleSend, HandleRetryAck, HandleRetryAsk, Retry, api
    <3>5. \A f \in Calls \ {d} : timer'[f] = timer[f] /\ left'[f] = left[f]
      BY <3>1, <3>2 DEF Spawn, TypeOK
    <3>6. ASSUME NEW f \in Calls \ {d}
          PROVE  BudgetFits(f)'
      BY <2>2, <3>3, <3>4, <3>5, BudgetKept
    <3>7. CASE Head(actor).type = "Send"
      <4>1. attempts[d] = 0 /\ timer[d] = "none" /\ UNCHANGED <<timer, left>>
        BY <2>3, <3>1, <3>2, <3>7 DEF QueuedFits
      <4>2. attempts'[d] <= 1
        BY <3>3, <4>1
      <4> QED
        BY <1>1, <3>4, <3>6, <4>1, <4>2 DEF BudgetFits
    <3>8. CASE Head(actor).type # "Send"
      <4>1. /\ timer[d] = "queued" /\ ~IsZero(left[d]) /\ Registered(d)
            /\ left' = [left EXCEPT ![d] = Decrement(MaxMessageAttempts)]
        BY <3>1, <3>2, <3>8 DEF Spawn
      <4>2. /\ MaxMessageAttempts = 1 /\ left[d] = 1
            /\ attempts[d] + left[d] <= 1 + MaxMessageAttempts
        BY <4>1 DEF IsZero, BudgetFits
      <4>3. left'[d] = 0
        BY <4>1, <4>2 DEF TypeOK, Decrement
      <4>4. attempts'[d] <= 2
        BY <1>1, <3>3, <4>2
      <4>5. pc[d] # "posted"
        BY <4>1 DEF DeliveryInv, CallsFit, CallFits
      <4>6. \A i \in DOMAIN actor : actor[i].call = d => actor[i].type \notin Waits
        BY <4>1 DEF DeliveryInv, QueueFits, QueuedFits, Waits
      <4>7. BudgetFits(d)'
        BY <1>1, <2>2, <3>4, <4>2, <4>3, <4>4, <4>5, <4>6 DEF BudgetFits
      <4> QED
        BY <3>6, <4>7
    <3> QED
      BY <3>6, <3>7, <3>8
  <2> QED
    BY <2>1, <2>5, <2>6, <2>7, <2>8, <2>9, <2>10 DEF Handle
<1>10. CASE HandleAck \/ HandlePayload
  <2>1. UNCHANGED <<timer, left, attempts, actor>> /\ \A d \in Calls : pc'[d] = "posted" => pc[d] = "posted"
    BY <1>10 DEF HandleAck, HandlePayload, state
  <2> QED
    BY <1>2, <2>1
<1>11. ASSUME NEW c \in Calls, Abandon(c)
       PROVE  \A d \in Calls : BudgetFits(d)'
  <2>1. UNCHANGED <<timer, left, attempts, actor>> /\ \A d \in Calls : pc'[d] = "posted" => pc[d] = "posted"
    BY <1>11 DEF Abandon, state, TypeOK
  <2> QED
    BY <1>2, <2>1
<1>12. CASE PollActor \/ Idle \/ UNCHANGED vars
  BY <1>2, <1>12 DEF PollActor, Idle, vars, api, state
<1>13. CASE World
  <2>1. CASE \E d \in Calls : TimerFire(d)
    BY <1>6, <2>1
  <2>2. CASE ConnectionFailed
    BY <1>2, <1>8, <2>2 DEF ConnectionFailed
  <2>3. CASE \/ Connected \/ Disconnect \/ Stray \/ RelayTake
             \/ \E d \in Calls : PeerReply(d)
             \/ \E p \in Peers : PeerSend(p)
    BY <1>2, <2>3 DEF Connected, Disconnect, Stray, RelayTake, PeerReply, PeerSend, api, state
  <2> QED
    BY <1>13, <2>1, <2>2, <2>3 DEF World
<1>14. CASE Api
  BY <1>4, <1>5, <1>7, <1>11, <1>14 DEF Api, ClientSend, ClientAsk, Reply
<1> QED
  BY <1>9, <1>10, <1>12, <1>13, <1>14 DEF Next, Actor

\* Up to a maximum of 1 the retries stay within the documented bound.
THEOREM RetriesBounded ==
  ASSUME Kinds \subseteq {"send", "ask"}, MaxMessageAttempts \in {0, 1}
  PROVE  Spec => []RetryBound
<1> DEFINE Budgets == \A c \in Calls : BudgetFits(c)
<1>1. Init => Budgets
  BY DEF Init, BudgetFits
<1>2. ASSUME TypeOK, TypeOK', DeliveryInv, KindsUsed, Budgets, [Next]_vars
      PROVE  Budgets'
  BY <1>2, BudgetStep
<1>3. Budgets => RetryBound
  BY DEF RetryBound, BudgetFits
<1> QED
  BY <1>1, <1>2, <1>3, KindsInvariant, DeliveryInvariant, PTL DEF Spec
=============================================================================
