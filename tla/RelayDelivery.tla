--------------------------- MODULE RelayDelivery ---------------------------
(***************************************************************************)
(* How a Client pairs messages with acks and replies: send(), ask() and    *)
(* reply() of relay-client/src/lib.rs and the arms of handle_msg() in      *)
(* relay-client/src/actor.rs that keep pending_acks and pending_replies    *)
(* and retry.  A call of the API is a member of Calls, and so is the       *)
(* message it sends, retries included.                                     *)
(*                                                                         *)
(* The connection (module RelayConnection) shows here as a channel to the  *)
(* relay and a response stream; losing the connection loses the responses  *)
(* and the oldest requests, and later one more, and meanwhile the actor     *)
(* handles nothing.                                                        *)
(***************************************************************************)
EXTENDS Integers, Sequences, FiniteSets, Amount

CONSTANTS
  Calls,               \* the calls of send(), ask() and reply() made in a run
  NoCall,
  Peers,               \* client ids of the other clients
  MaxMessageAttempts,  \* ClientOpts::max_message_attempts
  Kinds,               \* which of "send", "ask", "reply" the client uses
  MayEnd,              \* how the client may end: "stop", or "fail" to connect
  MaxSeq,              \* bound: the largest sequence number
  MaxPeerSends,        \* bound: messages that each peer sends of its own accord
  LossBudget,          \* how often the connection is lost (an Amount)
  StreamCap,           \* bound: no retry is due while this much is under way
  AttemptCap           \* bound: where the number of attempts saturates

ASSUME NoCallAssumption == NoCall \notin Calls
ASSUME PeersAssumption == Peers # {}
ASSUME BoundsAssumption ==
  /\ MaxMessageAttempts \in Amount /\ LossBudget \in Amount
  /\ Kinds \subseteq {"send", "ask", "reply"} /\ MayEnd \subseteq {"stop", "fail"}
  /\ MaxSeq \in Nat /\ MaxPeerSends \in 0 .. MaxSeq
  /\ StreamCap \in Nat /\ AttemptCap \in Nat \ {0}

VARIABLES
  seq,             \* Client::seq
  pc,              \* pc[c]: how far call c is
  msg,             \* msg[c]: its SendMessage, and the seq it is sent under
  result,          \* result[c]: the call that the payload returned by ask() replies to
  actor,           \* the relay_actor channel
  pendingAcks,     \* state.pending_acks: seq to call
  pendingReplies,  \* state.pending_replies: (client id, seq) to call
  timer,           \* timer[c]: the retry chain that the registration of c started
  left,            \* left[c]: retries_left of that chain
  attempts,        \* attempts[c]: how often c went into the tonic channel (history)
  polled,          \* this poll of select! has found the actor's queue empty
  alive,           \* the actor task runs
  up,              \* it has a connection
  out,             \* requests on their way to the relay
  resp,            \* responses on their way to the client
  relayGot,        \* calls whose message the relay has (history)
  atPeer,          \* asks that the peer has not yet replied to
  peerSeq,         \* peerSeq[p]: Client::seq of p
  inbox,           \* payloads handed to client_rx, for recv()
  losses,          \* what is left of the loss budget
  strays           \* forwarding tasks of lost connections that may yet take a request

api == <<seq, pc, msg, result>>
state == <<pendingAcks, pendingReplies, timer, left, attempts>>
conn == <<alive, up, losses, strays>>
peer == <<relayGot, atPeer, peerSeq>>
vars == <<api, actor, state, polled, conn, out, resp, peer, inbox>>

QoS == {"AtMostOnce", "AtLeastOnce"}
Seqs == 0 .. MaxSeq
Message == [kind : {"none", "send", "ask", "reply"}, qos : QoS, to : Peers, seq : Seqs]
Payload == [from : Peers, seq : Seqs, re : Calls \cup {NoCall}]
Response == [type : {"Ack"}, seq : Seqs] \cup [type : {"Payload"}, payload : Payload]
Msg ==
  [type : {"Send", "WaitForAck", "WaitForReply", "RetryAck", "RetryAsk"}, call : Calls]
    \cup [type : {"Stop"}, call : {NoCall}]

\* The variables keep to their types.
TypeOK ==
  /\ seq \in Seqs
  /\ pc \in [Calls -> {"idle", "posted", "waiting", "ok", "err", "dropped"}]
  /\ msg \in [Calls -> Message]
  /\ result \in [Calls -> Calls \cup {NoCall}]
  /\ actor \in Seq(Msg)
  /\ pendingAcks \in [Seqs -> Calls \cup {NoCall}]
  /\ pendingReplies \in [Peers \X Seqs -> Calls \cup {NoCall}]
  /\ timer \in [Calls -> {"none", "sleeping", "queued"}]
  /\ left \in [Calls -> Amount]
  /\ attempts \in [Calls -> 0 .. AttemptCap]
  /\ polled \in BOOLEAN /\ alive \in BOOLEAN /\ up \in BOOLEAN
  /\ out \in Seq(Calls)
  /\ resp \in Seq(Response)
  /\ relayGot \in SUBSET Calls
  /\ atPeer \in SUBSET Calls
  /\ peerSeq \in [Peers -> 0 .. MaxPeerSends]
  /\ inbox \in SUBSET Payload
  /\ losses \in Amount /\ strays \in Nat

Init ==
  /\ seq = 0
  /\ pc = [c \in Calls |-> "idle"]
  /\ msg = [c \in Calls |-> [kind |-> "none", qos |-> "AtMostOnce",
                             to |-> CHOOSE p \in Peers : TRUE, seq |-> 0]]
  /\ result = [c \in Calls |-> NoCall]
  /\ actor = <<>>
  /\ pendingAcks = [n \in Seqs |-> NoCall]
  /\ pendingReplies = [k \in Peers \X Seqs |-> NoCall]
  /\ timer = [c \in Calls |-> "none"]
  /\ left = [c \in Calls |-> 0]
  /\ attempts = [c \in Calls |-> 0]
  /\ polled = FALSE
  /\ alive = TRUE
  /\ up = FALSE
  /\ out = <<>>
  /\ resp = <<>>
  /\ relayGot = {}
  /\ atPeer = {}
  /\ peerSeq = [p \in Peers |-> 0]
  /\ inbox = {}
  /\ losses = LossBudget /\ strays = 0
-----------------------------------------------------------------------------
(* The API.  Between fetch_add and actor_tx.send nothing is shared, so the two *)
(* are one step; the registration with the actor is a step of its own.  When   *)
(* the actor is gone actor_tx.send fails and so does the call.                 *)
Tell(type, c) == actor' = Append(actor, [type |-> type, call |-> c])

Post(c, m) ==
  /\ alive /\ pc[c] = "idle" /\ m.kind \in Kinds
  /\ msg' = [msg EXCEPT ![c] = m]
  /\ Tell("Send", c)
  /\ pc' = [pc EXCEPT ![c] = IF m.kind = "ask" \/ m.qos = "AtLeastOnce" THEN "posted" ELSE "ok"]
  /\ UNCHANGED <<result, state, polled, conn, out, resp, peer, inbox>>

\* Mutants of NextSeq: the registration takes a number too; load instead of fetch_add.
NextSeqTwice == seq + 2
NextSeqLoad == seq

\* self.seq.fetch_add(1).
NextSeq == seq + 1

ClientSend(c, p, q) ==
  /\ seq < MaxSeq
  /\ Post(c, [kind |-> "send", qos |-> q, to |-> p, seq |-> seq])
  /\ seq' = NextSeq

ClientAsk(c, p, q) ==
  /\ seq < MaxSeq
  /\ Post(c, [kind |-> "ask", qos |-> q, to |-> p, seq |-> seq])
  /\ seq' = NextSeq

\* RecvMessage::reply on a payload that recv() has returned: the seq is the peer's.
Reply(c, r, q) ==
  /\ Post(c, [kind |-> "reply", qos |-> q, to |-> r.from, seq |-> r.seq])
  /\ UNCHANGED seq

\* Mutant of Register: the call does not wait.
RegisterAndGo(c) ==
  /\ pc[c] = "posted" /\ alive
  /\ Tell(IF msg[c].kind = "ask" THEN "WaitForReply" ELSE "WaitForAck", c)
  /\ pc' = [pc EXCEPT ![c] = "ok"]
  /\ UNCHANGED <<seq, msg, result, state, polled, conn, out, resp, peer, inbox>>

\* The second actor_tx.send; then the call waits.
Register(c) ==
  /\ pc[c] = "posted"
  /\ IF alive
       THEN /\ Tell(IF msg[c].kind = "ask" THEN "WaitForReply" ELSE "WaitForAck", c)
            /\ pc' = [pc EXCEPT ![c] = "waiting"]
       ELSE /\ pc' = [pc EXCEPT ![c] = "err"]
            /\ UNCHANGED actor
  /\ UNCHANGED <<seq, msg, result, state, polled, conn, out, resp, peer, inbox>>

\* The caller drops the future, for instance in a timeout of its own.
Abandon(c) ==
  /\ pc[c] = "waiting"
  /\ pc' = [pc EXCEPT ![c] = "dropped"]
  /\ UNCHANGED <<seq, msg, result, actor, state, polled, conn, out, resp, peer, inbox>>

\* Client::stop.
ClientStop ==
  /\ "stop" \in MayEnd /\ alive
  /\ \A i \in DOMAIN actor : actor[i].type # "Stop"
  /\ Tell("Stop", NoCall)
  /\ UNCHANGED <<api, state, polled, conn, out, resp, peer, inbox>>
-----------------------------------------------------------------------------
(* handle_msg() *)
Bump(n) == IF n < AttemptCap THEN n + 1 ELSE n

\* props.tonic_tx.send(payload).
Transmit(c) ==
  /\ out' = Append(out, c)
  /\ attempts' = [attempts EXCEPT ![c] = Bump(@)]

\* A registration that is overwritten drops its Sender: the call that waits on it fails.
Overwrite(d) == [c \in Calls |-> IF c = d /\ pc[c] = "waiting" THEN "err" ELSE pc[c]]

HandleSend(c) ==
  /\ Transmit(c)
  /\ UNCHANGED <<api, pendingAcks, pendingReplies, timer, left, conn>>

\* task::spawn: sleep, then RetryAck or RetryAsk.
Spawn(c, n) ==
  /\ timer' = [timer EXCEPT ![c] = "sleeping"]
  /\ left' = [left EXCEPT ![c] = n]

HandleWaitForAck(c) ==
  /\ pc' = Overwrite(pendingAcks[msg[c].seq])
  /\ pendingAcks' = [pendingAcks EXCEPT ![msg[c].seq] = c]
  /\ Spawn(c, MaxMessageAttempts)
  /\ UNCHANGED <<seq, msg, result, pendingReplies, attempts, out, conn>>

\* Mutant of HandleWaitForReply: the quality of service is not looked at.
HandleWaitForReplyRetry(c) ==
  LET key == <<msg[c].to, msg[c].seq>> IN
  /\ pc' = Overwrite(pendingReplies[key])
  /\ pendingReplies' = [pendingReplies EXCEPT ![key] = c]
  /\ Spawn(c, MaxMessageAttempts)
  /\ UNCHANGED <<seq, msg, result, pendingAcks, attempts, out, conn>>

HandleWaitForReply(c) ==
  LET key == <<msg[c].to, msg[c].seq>> IN
  /\ pc' = Overwrite(pendingReplies[key])
  /\ pendingReplies' = [pendingReplies EXCEPT ![key] = c]
  /\ Spawn(c, IF msg[c].qos = "AtMostOnce" THEN 0 ELSE MaxMessageAttempts)
  /\ UNCHANGED <<seq, msg, result, pendingAcks, attempts, out, conn>>

\* Mutant of Retry: only one retry is scheduled.
RetryOnce(c, d) ==
  /\ IF d = NoCall \/ IsZero(left[c]) THEN UNCHANGED <<attempts, out>> ELSE Transmit(d)
  /\ timer' = [timer EXCEPT ![c] = "none"]
  /\ UNCHANGED <<api, left, pendingAcks, pendingReplies, conn>>

\* The retry chain of c finds the registration d of its key.  The number of
\* retries left is taken from the options again each time.
Retry(c, d) ==
  /\ IF d = NoCall \/ IsZero(left[c])
       THEN /\ timer' = [timer EXCEPT ![c] = "none"]
            /\ UNCHANGED <<left, attempts, out>>
       ELSE /\ Transmit(d)
            /\ Spawn(c, Decrement(MaxMessageAttempts))
  /\ UNCHANGED <<api, pendingAcks, pendingReplies, conn>>

HandleRetryAck(c) == Retry(c, pendingAcks[msg[c].seq])

HandleRetryAsk(c) == Retry(c, pendingReplies[<<msg[c].to, msg[c].seq>>])

Registered(c) ==
  \/ \E n \in Seqs : pendingAcks[n] = c
  \/ \E k \in Peers \X Seqs : pendingReplies[k] = c

\* Mutant of Gone: main_loop() ends, run() goes on with a new State.
GoneOnce ==
  /\ alive' = alive
  /\ up' = FALSE
  /\ pendingAcks' = [n \in Seqs |-> NoCall]
  /\ pendingReplies' = [k \in Peers \X Seqs |-> NoCall]
  /\ pc' = [c \in Calls |-> IF pc[c] = "waiting" /\ Registered(c) THEN "err" ELSE pc[c]]
  /\ UNCHANGED <<seq, msg, result, timer, left, attempts, out, losses, strays>>

\* The actor ends and its State is dropped: the calls that wait in it fail.  What
\* becomes of a registration still in the queue is up to the channel: the call
\* fails, or waits on.
Gone ==
  /\ alive' = FALSE
  /\ up' = FALSE
  /\ pendingAcks' = [n \in Seqs |-> NoCall]
  /\ pendingReplies' = [k \in Peers \X Seqs |-> NoCall]
  /\ \E Q \in SUBSET {actor[i].call : i \in DOMAIN actor} :
       pc' = [c \in Calls |-> IF pc[c] = "waiting" /\ (Registered(c) \/ c \in Q) THEN "err" ELSE pc[c]]
  /\ UNCHANGED <<seq, msg, result, timer, left, attempts, out, losses, strays>>

Handle(m) ==
  \/ m.type = "Send" /\ HandleSend(m.call)
  \/ m.type = "WaitForAck" /\ HandleWaitForAck(m.call)
  \/ m.type = "WaitForReply" /\ HandleWaitForReply(m.call)
  \/ m.type = "RetryAck" /\ HandleRetryAck(m.call)
  \/ m.type = "RetryAsk" /\ HandleRetryAsk(m.call)
  \/ m.type = "Stop" /\ Gone

\* The first branch of main_loop()'s biased select!.
HandleActor ==
  /\ alive /\ up /\ ~polled /\ actor # <<>>
  /\ Handle(Head(actor))
  /\ actor' = Tail(actor)
  /\ UNCHANGED <<polled, resp, peer, inbox>>

PollActor ==
  /\ alive /\ up /\ ~polled /\ actor = <<>> /\ resp # <<>>
  /\ polled' = TRUE
  /\ UNCHANGED <<api, actor, state, conn, out, resp, peer, inbox>>

\* Mutant of HandleAck: the registration stays.
HandleAckKeep ==
  /\ polled /\ resp # <<>> /\ Head(resp).type = "Ack"
  /\ LET n == Head(resp).seq IN
       pc' = [c \in Calls |-> IF c = pendingAcks[n] /\ pc[c] = "waiting" THEN "ok" ELSE pc[c]]
  /\ resp' = Tail(resp)
  /\ polled' = FALSE
  /\ UNCHANGED <<seq, msg, result, actor, state, conn, out, peer, inbox>>

\* The second branch, handle_ack(): the registration goes, and its call is done.
HandleAck ==
  /\ polled /\ resp # <<>> /\ Head(resp).type = "Ack"
  /\ LET n == Head(resp).seq IN
       /\ pc' = [c \in Calls |-> IF c = pendingAcks[n] /\ pc[c] = "waiting" THEN "ok" ELSE pc[c]]
       /\ pendingAcks' = [pendingAcks EXCEPT ![n] = NoCall]
  /\ resp' = Tail(resp)
  /\ polled' = FALSE
  /\ UNCHANGED <<seq, msg, result, actor, pendingReplies, timer, left, attempts, conn, out, peer, inbox>>

\* handle_payload(): a reply goes to the ask registered under its sender and seq,
\* even if that was abandoned; everything else goes to client_rx.
HandlePayload ==
  /\ polled /\ resp # <<>> /\ Head(resp).type = "Payload"
  /\ LET r == Head(resp).payload
         key == <<r.from, r.seq>>
         d == pendingReplies[key]
     IN  /\ pendingReplies' = [pendingReplies EXCEPT ![key] = NoCall]
         /\ pc' = [c \in Calls |-> IF c = d /\ pc[c] = "waiting" THEN "ok" ELSE pc[c]]
         /\ result' = [c \in Calls |-> IF c = d /\ pc[c] = "waiting" THEN r.re ELSE result[c]]
         /\ inbox' = IF d = NoCall THEN inbox \cup {r} ELSE inbox
  /\ resp' = Tail(resp)
  /\ polled' = FALSE
  /\ UNCHANGED <<seq, msg, actor, pendingAcks, timer, left, attempts, conn, out, peer>>

\* A spawned retry task wakes up.  (Retries are slow: one is only due once the
\* streams have room below the bound.)  Its message is dropped when the actor is gone.
TimerFire(c) ==
  /\ timer[c] = "sleeping" /\ Len(out) + Len(resp) < StreamCap
  /\ IF alive
       THEN /\ Tell(IF msg[c].kind = "ask" THEN "RetryAsk" ELSE "RetryAck", c)
            /\ timer' = [timer EXCEPT ![c] = "queued"]
       ELSE /\ timer' = [timer EXCEPT ![c] = "none"]
            /\ UNCHANGED actor
  /\ UNCHANGED <<api, pendingAcks, pendingReplies, left, attempts, polled, conn, out, resp, peer, inbox>>
-----------------------------------------------------------------------------
(* The connection, the relay and the peers. *)

\* Mutant of Connected: what is registered is sent again over the new connection.
ConnectedResend ==
  /\ alive /\ ~up
  /\ up' = TRUE
  /\ \/ ~(\E c \in Calls : Registered(c)) /\ UNCHANGED <<attempts, out>>
     \/ \E c \in Calls : Registered(c) /\ Transmit(c)
  /\ UNCHANGED <<api, actor, pendingAcks, pendingReplies, timer, left, polled, alive, losses,
                 strays, resp, peer, inbox>>

Connected ==
  /\ alive /\ ~up
  /\ up' = TRUE
  /\ UNCHANGED <<api, actor, state, polled, alive, losses, strays, out, resp, peer, inbox>>

\* The connection breaks: unread responses are lost, and with the body of the call
\* the requests that had been forwarded into it.
Disconnect ==
  /\ up /\ ~IsZero(losses)
  /\ up' = FALSE
  /\ losses' = Decrement(losses) /\ strays' = strays + 1
  /\ \E k \in 0 .. Len(out) : out' = SubSeq(out, k + 1, Len(out))
  /\ resp' = <<>>
  /\ polled' = FALSE
  /\ UNCHANGED <<api, actor, state, alive, peer, inbox>>

\* The forwarding task of a lost connection had passed its token when that was cancelled:
\* it takes a request which the task of the present one has not, and drops it.
Stray ==
  /\ up /\ strays > 0
  /\ strays' = strays - 1
  /\ \E i \in DOMAIN out : out' = SubSeq(out, 1, i - 1) \o SubSeq(out, i + 1, Len(out))
  /\ UNCHANGED <<api, actor, state, polled, alive, up, losses, resp, peer, inbox>>

\* run() gives up: max_connection_attempts is reached.
ConnectionFailed ==
  /\ "fail" \in MayEnd /\ alive /\ ~up
  /\ Gone
  /\ UNCHANGED <<actor, polled, resp, peer, inbox>>

\* The relay takes a request, acknowledges its seq and passes it on.
RelayTake ==
  /\ up /\ out # <<>>
  /\ LET c == Head(out) IN
       /\ relayGot' = relayGot \cup {c}
       /\ atPeer' = IF msg[c].kind = "ask" THEN atPeer \cup {c} ELSE atPeer
       /\ resp' = Append(resp, [type |-> "Ack", seq |-> msg[c].seq])
  /\ out' = Tail(out)
  /\ UNCHANGED <<api, actor, state, polled, conn, peerSeq, inbox>>

\* reply() of a peer, called on an ask: under the seq that came with it.
PeerReply(c) ==
  /\ up /\ c \in atPeer
  /\ resp' = Append(resp, [type |-> "Payload",
                           payload |-> [from |-> msg[c].to, seq |-> msg[c].seq, re |-> c]])
  /\ atPeer' = atPeer \ {c}
  /\ UNCHANGED <<api, actor, state, polled, conn, out, relayGot, peerSeq, inbox>>

\* The peer sends a message of its own, under a seq of its own.
PeerSend(p) ==
  /\ up /\ peerSeq[p] < MaxPeerSends
  /\ resp' = Append(resp, [type |-> "Payload",
                           payload |-> [from |-> p, seq |-> peerSeq[p], re |-> NoCall]])
  /\ peerSeq' = [peerSeq EXCEPT ![p] = @ + 1]
  /\ UNCHANGED <<api, actor, state, polled, conn, out, relayGot, atPeer, inbox>>
-----------------------------------------------------------------------------
Api ==
  \/ \E c \in Calls, q \in QoS :
       \/ \E p \in Peers : ClientSend(c, p, q) \/ ClientAsk(c, p, q)
       \/ \E r \in inbox : Reply(c, r, q)
  \/ \E c \in Calls : Register(c) \/ Abandon(c)
  \/ ClientStop

Actor == HandleActor \/ PollActor \/ HandleAck \/ HandlePayload

World ==
  \/ Connected \/ Disconnect \/ Stray \/ ConnectionFailed \/ RelayTake
  \/ \E c \in Calls : PeerReply(c) \/ TimerFire(c)
  \/ \E p \in Peers : PeerSend(p)

\* Every call is made and nothing is under way.
Idle ==
  /\ \A c \in Calls : pc[c] \notin {"idle", "posted"} \/ ~alive
  /\ UNCHANGED vars

Next == Api \/ Actor \/ World \/ Idle

Spec == Init /\ [][Next]_vars

\* The runtime schedules the actor, the callers and the timers; a connection is
\* made again when it is lost; the relay and the peers do their part.
Fairness ==
  /\ WF_vars(Actor)
  /\ WF_vars(Connected)
  /\ WF_vars(RelayTake)
  /\ \A c \in Calls : WF_vars(Register(c)) /\ WF_vars(TimerFire(c)) /\ WF_vars(PeerReply(c))

FairSpec == Spec /\ Fairness
-----------------------------------------------------------------------------
(* Properties *)

Chained(c) == c = NoCall \/ timer[c] # "none" \/ IsZero(left[c])

\* Whatever is registered is being retried, until its chain has used up its
\* retries: no ack, reply, reconnection or collision of seqs ends the chain of a
\* registration that is still there, so nobody waits on a message the actor has
\* forgotten.
NothingForgotten ==
  /\ \A n \in Seqs : Chained(pendingAcks[n])
  /\ \A k \in Peers \X Seqs : Chained(pendingReplies[k])

\* QoS: "AtMostOnce: Single send attempt without guarantees", for send(), ask()
\* and reply() alike: no retry chain, of this call or of another one under the
\* same seq, ever sends such a message again.
SingleAttempt ==
  \A c \in Calls : msg[c].qos = "AtMostOnce" => attempts[c] <= 1

Status(c) == IF pc[c] \in {"posted", "waiting"} THEN "pending" ELSE pc[c]

Promise == INSTANCE DeliveryPromise
             WITH status <- [c \in Calls |-> Status(c)], sent <- attempts, taken <- relayGot

\* send(), ask() and reply() with all that is behind them keep the promises made to their
\* callers: no Ok without a confirmation or a reply under the number of the call, no failure
\* of a call unless the actor is gone or another call waits for the same, no number taken
\* twice, and nothing sent again once it is confirmed.
KeepsPromise == Promise!Spec

\* send(): "with confirmation that the orb-relay server received it by using
\* QoS::AtLeastOnce"; ask(): "this method waits for an actual response from the target
\* client": a call returns Ok for its own message, not for one that shares its seq.
OwnAnswer ==
  \A c \in Calls : pc[c] = "ok" =>
    IF msg[c].kind = "ask" THEN result[c] = c
                           ELSE msg[c].qos = "AtLeastOnce" => c \in relayGot

\* ask(): "Sends a message and waits for a reply from the destination client": the
\* reply is not handed to recv() while the ask is still going to wait for it.
ReplyReachesAsk ==
  \A r \in inbox : r.re # NoCall => pc[r.re] \notin {"posted", "waiting"}

\* A call fails only because the actor has ended: registrations never displace
\* each other.
FailsOnlyWhenGone == \A c \in Calls : pc[c] = "err" => ~alive

\* Another call d counts for c when it has c's number: one of the two is then a reply,
\* whose number is the peer's.
CountsFor(d, c) ==
  msg[d].seq = msg[c].seq /\ (d = c \/ "reply" \in {msg[c].kind, msg[d].kind})

AnswerExplained(c) ==
  pc[c] = "ok" =>
    IF msg[c].kind = "ask"
      THEN result[c] = c \/ (result[c] = NoCall /\ msg[c].seq < peerSeq[msg[c].to])
      ELSE msg[c].qos = "AtLeastOnce" => \E d \in relayGot : CountsFor(d, c)

FailureExplained(c) ==
  pc[c] = "err" =>
    \/ ~alive
    \/ /\ msg[c].kind # "ask"
       /\ \E d \in Calls \ {c} : pc[d] # "idle" /\ msg[d].kind # "ask" /\ CountsFor(d, c)

\* Where send(), ask() and reply() of one client get into each other's way: an ask only
\* ever returns its own reply or a message which the peer sent of its own accord under that
\* number, and fails only with the actor; a send is confirmed or displaced for nothing but
\* itself and replies.
CollisionsExplained == \A c \in Calls : AnswerExplained(c) /\ FailureExplained(c)

\* Nothing that the client still has to do, or that sleeps, would send c again.
Silent(c) ==
  /\ pc[c] \notin {"idle", "posted"} /\ timer[c] = "none"
  /\ \A i \in DOMAIN actor : actor[i].call # c

\* handle_msg(), the arms RetryAck and RetryAsk: when the chain of retries of a call has come
\* to its end, nothing starts one again, and neither a reconnection nor an ack nor anything
\* else sends its message again, but the chain of a call which it collides with.  (Its call
\* may wait for ever; the code has no end for it, and no property here demands one.)
SilenceIsFinal ==
  [][\A c \in Calls : Silent(c) =>
       /\ Silent(c)'
       /\ out' = Append(out, c) =>
            \E d \in Calls \ {c} : timer[d] = "queued" /\ CountsFor(d, c)]_vars

\* QoS: "retries (configurable via max_message_attempts)": a message is sent once
\* and then retried at most max_message_attempts times.
RetryBound ==
  MaxMessageAttempts # Infinite => \A c \in Calls : attempts[c] <= 1 + MaxMessageAttempts

\* With unlimited attempts every AtLeastOnce call comes to an end while the actor
\* lives, though messages, acks and replies get lost or come too early.
AtLeastOnceCompletes ==
  \A c \in Calls :
    (pc[c] = "posted" /\ msg[c].qos = "AtLeastOnce") ~> (pc[c] \in {"ok", "err", "dropped"} \/ ~alive)
=============================================================================
