-------------------------- MODULE RelayConnection --------------------------
(***************************************************************************)
(* relay-client/src/actor.rs: run(), main_loop(), connect() and the arms   *)
(* of handle_msg() that concern the connection (Send, Stop, Reconnect,     *)
(* Heartbeat, RelayResponse), driven by the methods of Client in           *)
(* relay-client/src/lib.rs.  The body of every RelayConnect call is the    *)
(* pipe of module ReceiverStream.                                          *)
(*                                                                         *)
(* Seq numbers, acks and replies are in module RelayDelivery.              *)
(***************************************************************************)
EXTENDS ReceiverStream, Amount

CONSTANTS
  NoStream,       \* no RelayConnect call is under way
  MaxAttempts,    \* ClientOpts::max_connection_attempts
  FaultBudget,    \* how often the network or the server fails (an Amount)
  EarlyEnd,       \* the server may end a call that it has not answered
  MaxSends,       \* bound: calls of send()
  MaxReconnects,  \* bound: calls of reconnect()
  MaxResponses,   \* bound: payloads from the relay
  BeatCap,        \* bound: no heartbeat ticks while this many requests wait
  AttemptCap      \* bound: where the counts of attempts saturate

ASSUME NoStreamAssumption == NoStream \notin Streams
ASSUME AttemptsAssumption ==
  /\ MaxAttempts \in Amount /\ FaultBudget \in Amount /\ EarlyEnd \in BOOLEAN
  /\ AttemptCap \in Nat \ {0} /\ MaxAttempts <= AttemptCap
  /\ {MaxSends, MaxReconnects, MaxResponses, BeatCap} \subseteq Nat

VARIABLES
  opts,          \* endpoint scheme and authentication method
  phase,         \* where the actor task is
  connAttempts,  \* conn_attempts
  failures,      \* main_loop() runs that ended in an error (history)
  cur,           \* the call whose response stream the actor holds
  accepted,      \* connect() has seen a successful ConnectResponse on cur
  actor,         \* the relay_actor channel
  hbStarted,     \* state.heartbeat_started
  hbTimers,      \* heartbeat tasks that are sleeping
  resp,          \* responses on cur, sent and not yet read
  ended,         \* how the server ended cur: "no", "eof" or "error"
  unanswered,    \* ConnectRequests the server has read on cur and not answered
  faults,        \* what is left of the fault budget
  nextResp,      \* payloads sent by the relay
  lastResp,      \* the last one handled by the actor (history)
  held,          \* some Client handle is alive
  sent,          \* calls of send()
  covered,       \* those made before or during the last accepted connection (history)
  reconnects,    \* calls of reconnect()
  stopAt         \* value of sent at the first stop(), -1 before it (history)

life == <<phase, connAttempts, failures, cur, accepted>>
beat == <<hbStarted, hbTimers>>
relay == <<resp, ended, unanswered, faults, nextResp>>
user == <<held, sent, reconnects, stopAt>>
vars == <<pipe, opts, life, actor, beat, relay, lastResp, user, covered>>

Phases ==
  {"validate", "dial", "request", "handshake", "connected", "polled", "backoff",
   "stopped", "failed", "panicked"}

Response == [type : {"Payload"}, n : Nat \ {0}] \cup [type : {"Accepted", "Rejected"}, n : {0}]

\* actor::Msg, as far as it is handled here.
Msg ==
  [type : {"RelayResponse"}, n : Nat \ {0}]
    \cup [type : {"Send", "Stop", "Heartbeat", "Reconnect"}, n : {0}]

\* The variables keep to their types and the bounded counts to their bounds.
TypeOK ==
  /\ PipeTypeOK
  /\ opts \in [https : BOOLEAN, zkp : BOOLEAN]
  /\ phase \in Phases
  /\ connAttempts \in 1 .. AttemptCap
  /\ failures \in 0 .. AttemptCap
  /\ cur \in Streams \cup {NoStream}
  /\ accepted \in BOOLEAN
  /\ actor \in Seq(Msg)
  /\ hbStarted \in BOOLEAN
  /\ hbTimers \in Nat
  /\ resp \in Seq(Response)
  /\ ended \in {"no", "eof", "error"}
  /\ unanswered \in Nat
  /\ faults \in Amount
  /\ nextResp \in 0 .. MaxResponses
  /\ lastResp \in 0 .. MaxResponses
  /\ held \in BOOLEAN
  /\ sent \in 0 .. MaxSends
  /\ covered \in 0 .. MaxSends
  /\ reconnects \in 0 .. MaxReconnects
  /\ stopAt \in Nat \cup {-1}

\* Client::connect(): the channels, and the actor task about to start.
Init ==
  /\ PipeInit
  /\ opts \in [https : BOOLEAN, zkp : BOOLEAN]
  /\ phase = "validate"
  /\ connAttempts = 1
  /\ failures = 0
  /\ cur = NoStream
  /\ accepted = FALSE
  /\ actor = <<>>
  /\ hbStarted = FALSE
  /\ hbTimers = 0
  /\ resp = <<>>
  /\ ended = "no"
  /\ unanswered = 0
  /\ faults = FaultBudget
  /\ nextResp = 0
  /\ lastResp = 0
  /\ held = TRUE
  /\ sent = 0
  /\ covered = 0
  /\ reconnects = 0
  /\ stopAt = -1

Terminal == phase \in {"stopped", "failed", "panicked"}
Running == ~Terminal

\* The connection is up: messages handed to the client are sent as they come.
Online == phase \in {"connected", "polled"} /\ accepted

\* Something goes wrong outside the client.
Fault ==
  /\ ~IsZero(faults)
  /\ faults' = Decrement(faults)

NoFault == UNCHANGED faults
-----------------------------------------------------------------------------
\* What most steps of the actor leave alone.
OnlyConnection == UNCHANGED <<opts, actor, beat, lastResp, user, covered>>
OnlyPhase == UNCHANGED <<pipe, connAttempts, failures, cur, accepted, relay>> /\ OnlyConnection

(* Leaving main_loop(): the token of the call is cancelled and its response *)
(* stream dropped, with everything in it.                                   *)
CancelCur == IF cur = NoStream THEN UNCHANGED pipe ELSE Cancel(cur)

Leave ==
  /\ cur' = NoStream
  /\ accepted' = FALSE
  /\ resp' = <<>>
  /\ ended' = "no"
  /\ unanswered' = 0
  /\ UNCHANGED nextResp

\* Mutant of GiveUp: < for <=.
GiveUpLate == MaxAttempts # Infinite /\ MaxAttempts < connAttempts

\* The guard of the third arm of run()'s match: no attempt is left.
GiveUp == AtMost(MaxAttempts, connAttempts)

Bump(n) == IF n < AttemptCap THEN n + 1 ELSE n

\* Mutant of Fail: the attempts are counted down.
FailCountsDown ==
  /\ CancelCur
  /\ Leave
  /\ failures' = Bump(failures)
  /\ phase' = IF GiveUp THEN "failed" ELSE "backoff"
  /\ connAttempts' = connAttempts - 1

\* main_loop() returned an error other than StopRequest and ReconnectRequest.
Fail ==
  /\ CancelCur
  /\ Leave
  /\ failures' = Bump(failures)
  /\ phase' = IF GiveUp THEN "failed" ELSE "backoff"
  /\ connAttempts' = IF GiveUp THEN connAttempts ELSE Bump(connAttempts)

\* time::sleep(connection_backoff) is over: run() enters main_loop() again.
Backoff ==
  /\ phase = "backoff"
  /\ phase' = "dial"
  /\ OnlyPhase

\* run() starts: an endpoint that is not https ends the task at once.
ValidateEndpoint ==
  /\ phase = "validate"
  /\ phase' = IF opts.https THEN "dial" ELSE "failed"
  /\ OnlyPhase
-----------------------------------------------------------------------------
(* connect() *)

\* endpoint.connect() fails, or does not finish within connection_timeout.
DialError ==
  /\ phase = "dial"
  /\ Fault
  /\ Fail
  /\ OnlyConnection

\* The channel is there: the ConnectRequest goes into the tonic channel, behind
\* whatever earlier calls have left in it.  Auth::Zkp is todo!().
DialOk ==
  /\ phase = "dial"
  /\ IF opts.zkp
       THEN phase' = "panicked" /\ UNCHANGED pipe
       ELSE phase' = "request" /\ Put("ConnectRequest")
  /\ UNCHANGED <<connAttempts, failures, cur, accepted, relay>>
  /\ OnlyConnection

\* Mutant of OpenStream: connect() does not wait for the ConnectResponse.
OpenStreamAtOnce(s) ==
  /\ phase = "request"
  /\ New(s)
  /\ cur' = s
  /\ phase' = "connected"
  /\ UNCHANGED <<opts, connAttempts, failures, accepted, actor, beat, relay, lastResp,
                 user, covered>>

\* relay_client.relay_connect(flume_receiver_stream::new(..)).
OpenStream(s) ==
  /\ phase = "request"
  /\ New(s)
  /\ cur' = s
  /\ phase' = "handshake"
  /\ UNCHANGED <<opts, connAttempts, failures, accepted, actor, beat, relay, lastResp,
                 user, covered>>

\* Mutant of EnterLoop: every connection starts a heartbeat.
EnterLoopBeat ==
  /\ phase' = "connected"
  /\ hbStarted' = TRUE
  /\ hbTimers' = hbTimers + 1
  /\ UNCHANGED <<connAttempts, failures, cur>>

\* main_loop() enters its loop; the first time round it starts the heartbeat.
EnterLoop ==
  /\ phase' = "connected"
  /\ hbStarted' = TRUE
  /\ hbTimers' = IF hbStarted THEN hbTimers ELSE hbTimers + 1
  /\ UNCHANGED <<connAttempts, failures, cur>>

\* connect() reads a successful ConnectResponse.
HandshakeAccepted ==
  /\ phase = "handshake" /\ resp # <<>> /\ Head(resp).type = "Accepted"
  /\ EnterLoop
  /\ accepted' = TRUE
  /\ resp' = Tail(resp)
  /\ covered' = sent
  /\ UNCHANGED <<pipe, opts, actor, ended, unanswered, faults, nextResp, lastResp, user>>

\* connect() reads an unsuccessful one.
HandshakeRejected ==
  /\ phase = "handshake" /\ resp # <<>> /\ Head(resp).type = "Rejected"
  /\ Fail
  /\ NoFault
  /\ OnlyConnection

\* Any other response that comes first is left for the loop, in the actor's queue.
HandshakeEarly ==
  /\ phase = "handshake" /\ resp # <<>> /\ Head(resp).type = "Payload"
  /\ actor' = Append(actor, [type |-> "RelayResponse", n |-> Head(resp).n])
  /\ resp' = Tail(resp)
  /\ UNCHANGED <<pipe, opts, life, beat, ended, unanswered, faults, nextResp, lastResp,
                 user, covered>>

\* The while let is over because the stream is: connect() returns Ok.
HandshakeEof ==
  /\ phase = "handshake" /\ resp = <<>> /\ ended = "eof"
  /\ EnterLoop
  /\ UNCHANGED <<pipe, opts, accepted, actor, relay, lastResp, user, covered>>

\* relay_connect() or the stream returns a Status.
HandshakeStatus ==
  /\ phase = "handshake" /\ resp = <<>> /\ ended = "error"
  /\ Fail
  /\ NoFault
  /\ OnlyConnection

\* A ConnectRequest can still reach the server on cur, or an answer the client.
AnswerDue ==
  \/ unanswered > 0 \/ resp # <<>> \/ ended # "no"
  \/ \E i \in DOMAIN Ahead(cur) : Ahead(cur)[i].type = "ConnectRequest"

\* Nothing will happen any more before the timeout.  (A poll of the forwarding
\* task is short against connection_timeout.)
Stuck == ~AnswerDue /\ task[cur] # "recv"

\* Mutant of HandshakeTimeout: connect() is not under the timeout.
HandshakeWaits ==
  /\ phase = "handshake"
  /\ Fault
  /\ Fail
  /\ OnlyConnection

\* connection_timeout, because nothing comes or because it comes too late.
HandshakeTimeout ==
  /\ phase = "handshake"
  /\ IF Stuck THEN NoFault ELSE Fault
  /\ Fail
  /\ OnlyConnection
-----------------------------------------------------------------------------
(* main_loop()'s biased select!, and handle_msg() *)

\* handle_payload(): a payload nobody waits for as a reply goes to client_rx.
Receive(n) ==
  /\ held
  /\ lastResp' = n
  /\ phase' = "connected"
  /\ UNCHANGED <<pipe, connAttempts, failures, cur, accepted>>

\* client_rx is gone with the last Client: handle_payload() returns an error.
ReceiveErr ==
  /\ ~held
  /\ Fail
  /\ NoFault
  /\ UNCHANGED lastResp

\* Mutant of HandleSend: a message is dropped when the stream has ended meanwhile.
HandleSendDrop ==
  /\ Head(actor).type = "Send"
  /\ IF ended = "no" THEN Put("Payload") ELSE UNCHANGED pipe
  /\ UNCHANGED <<life, beat, relay, lastResp>>

HandleSend ==
  /\ Head(actor).type = "Send"
  /\ Put("Payload")
  /\ UNCHANGED <<life, beat, relay, lastResp>>

HandleHeartbeat ==
  /\ Head(actor).type = "Heartbeat"
  /\ Put("Heartbeat")
  /\ hbTimers' = hbTimers + 1
  /\ UNCHANGED <<life, hbStarted, relay, lastResp>>

HandleResponse ==
  /\ Head(actor).type = "RelayResponse"
  /\ \/ Receive(Head(actor).n) /\ UNCHANGED relay
     \/ ReceiveErr
  /\ UNCHANGED beat

\* Mutant of HandleStop: run() connects again.
HandleStopRestart ==
  /\ Head(actor).type = "Stop"
  /\ CancelCur
  /\ Leave
  /\ phase' = "dial"
  /\ UNCHANGED <<connAttempts, failures, beat, faults, lastResp>>

HandleStop ==
  /\ Head(actor).type = "Stop"
  /\ CancelCur
  /\ Leave
  /\ phase' = "stopped"
  /\ UNCHANGED <<connAttempts, failures, beat, faults, lastResp>>

\* Mutant of HandleReconnect: the token is not cancelled.
HandleReconnectLeak ==
  /\ Head(actor).type = "Reconnect"
  /\ UNCHANGED pipe
  /\ Leave
  /\ phase' = "dial"
  /\ UNCHANGED <<connAttempts, failures, beat, faults, lastResp>>

\* A reconnect on request neither counts as an attempt nor waits.
HandleReconnect ==
  /\ Head(actor).type = "Reconnect"
  /\ CancelCur
  /\ Leave
  /\ phase' = "dial"
  /\ UNCHANGED <<connAttempts, failures, beat, faults, lastResp>>

\* The first branch of select!: the actor's queue.
HandleActor ==
  /\ phase = "connected" /\ actor # <<>>
  /\ actor' = Tail(actor)
  /\ HandleSend \/ HandleHeartbeat \/ HandleResponse \/ HandleStop \/ HandleReconnect
  /\ UNCHANGED <<opts, user, covered>>

\* Mutant of PollActor: the select! is not biased.
PollUnbiased ==
  /\ phase = "connected" /\ (resp # <<>> \/ ended # "no")
  /\ phase' = "polled"
  /\ OnlyPhase

\* It is empty: the same poll goes on to the response stream.  (Where nothing has
\* come on that either, the poll changes nothing and is left out.)
PollActor ==
  /\ phase = "connected" /\ actor = <<>> /\ (resp # <<>> \/ ended # "no")
  /\ phase' = "polled"
  /\ OnlyPhase

\* The second branch: a payload.
StreamPayload ==
  /\ phase = "polled" /\ resp # <<>> /\ Head(resp).type = "Payload"
  /\ \/ /\ Receive(Head(resp).n)
        /\ resp' = Tail(resp)
        /\ UNCHANGED <<ended, unanswered, faults, nextResp>>
     \/ ReceiveErr
  /\ UNCHANGED <<opts, actor, beat, user, covered>>

\* A ConnectResponse to a ConnectRequest of an earlier call is only logged.
StreamOther ==
  /\ phase = "polled" /\ resp # <<>> /\ Head(resp).type # "Payload"
  /\ phase' = "connected"
  /\ resp' = Tail(resp)
  /\ UNCHANGED <<pipe, opts, connAttempts, failures, cur, accepted, actor, beat, ended,
                 unanswered, faults, nextResp, lastResp, user, covered>>

\* The stream has ended, with a Status or without.
StreamEnd ==
  /\ phase = "polled" /\ resp = <<>> /\ ended # "no"
  /\ Fail
  /\ NoFault
  /\ OnlyConnection

\* A heartbeat task wakes up.  Its message is dropped when the actor is gone.
HeartbeatTick ==
  /\ hbTimers > 0 /\ Len(tonic) < BeatCap
  /\ hbTimers' = hbTimers - 1
  /\ actor' = IF Running THEN Append(actor, [type |-> "Heartbeat", n |-> 0]) ELSE actor
  /\ UNCHANGED <<pipe, opts, life, hbStarted, relay, lastResp, user, covered>>
-----------------------------------------------------------------------------
(* Client.  Once the actor is gone its methods return an error. *)
Tell(type) == actor' = Append(actor, [type |-> type, n |-> 0])

ClientSend ==
  /\ held /\ Running /\ sent < MaxSends
  /\ Tell("Send")
  /\ sent' = sent + 1
  /\ covered' = IF Online THEN sent + 1 ELSE covered
  /\ UNCHANGED <<pipe, opts, life, beat, relay, lastResp, held, reconnects, stopAt>>

\* Mutant of ClientStop: nothing is queued while the client is offline.
ClientStopOnline ==
  /\ held /\ Running /\ stopAt = -1
  /\ IF Online THEN Tell("Stop") ELSE UNCHANGED actor
  /\ stopAt' = sent
  /\ UNCHANGED <<pipe, opts, life, beat, relay, lastResp, held, sent, reconnects, covered>>

ClientStop ==
  /\ held /\ Running /\ stopAt = -1
  /\ Tell("Stop")
  /\ stopAt' = sent
  /\ UNCHANGED <<pipe, opts, life, beat, relay, lastResp, held, sent, reconnects, covered>>

\* Mutant of ClientReconnect: the request goes before what waits in the queue.
ClientReconnectFirst ==
  /\ held /\ Running /\ reconnects < MaxReconnects
  /\ actor' = <<[type |-> "Reconnect", n |-> 0]>> \o actor
  /\ reconnects' = reconnects + 1
  /\ UNCHANGED <<pipe, opts, life, beat, relay, lastResp, held, sent, stopAt, covered>>

ClientReconnect ==
  /\ held /\ Running /\ reconnects < MaxReconnects
  /\ Tell("Reconnect")
  /\ reconnects' = reconnects + 1
  /\ UNCHANGED <<pipe, opts, life, beat, relay, lastResp, held, sent, stopAt, covered>>

\* The last Client is dropped.  The actor has an actor_tx of its own and lives on.
DropClients ==
  /\ held
  /\ held' = FALSE
  /\ UNCHANGED <<pipe, opts, life, actor, beat, relay, lastResp, sent, reconnects, stopAt, covered>>
-----------------------------------------------------------------------------
(* tonic and the relay, as connect() and main_loop() meet them. *)
NetPull(s) ==
  /\ Pull(s)
  /\ unanswered' = IF s = cur /\ Head(buf[s]).type = "ConnectRequest"
                     THEN unanswered + 1 ELSE unanswered
  /\ UNCHANGED <<opts, life, actor, beat, resp, ended, faults, nextResp, lastResp, user, covered>>

\* A call is over when the client has left it or the server has ended it.
NetDrop(s) ==
  /\ s # cur \/ ended # "no"
  /\ DropBody(s)
  /\ UNCHANGED <<opts, life, actor, beat, relay, lastResp, user, covered>>

Forward(s) ==
  /\ TaskStep(s)
  /\ UNCHANGED <<opts, life, actor, beat, relay, lastResp, user, covered>>

\* The relay answers a ConnectRequest.
RelayAnswer ==
  /\ cur # NoStream /\ ended = "no" /\ unanswered > 0
  /\ unanswered' = unanswered - 1
  /\ \/ NoFault /\ resp' = Append(resp, [type |-> "Accepted", n |-> 0])
     \/ Fault /\ resp' = Append(resp, [type |-> "Rejected", n |-> 0])
  /\ UNCHANGED <<pipe, opts, life, actor, beat, ended, nextResp, lastResp, user, covered>>

\* It passes on a payload, which may overtake the answer.
RelayPayload ==
  /\ cur # NoStream /\ ended = "no" /\ nextResp < MaxResponses
  /\ nextResp' = nextResp + 1
  /\ resp' = Append(resp, [type |-> "Payload", n |-> nextResp + 1])
  /\ UNCHANGED <<pipe, opts, life, actor, beat, ended, unanswered, faults, lastResp, user, covered>>

Answered == accepted \/ \E i \in DOMAIN resp : resp[i].type # "Payload"

\* It ends the call, or the transport breaks.
RelayEnd ==
  /\ cur # NoStream /\ ended = "no"
  /\ Fault
  /\ \/ ended' = "error"
     \/ ended' = "eof" /\ (EarlyEnd \/ Answered)
  /\ UNCHANGED <<pipe, opts, life, actor, beat, resp, unanswered, nextResp, lastResp, user, covered>>
-----------------------------------------------------------------------------
Connect ==
  \/ ValidateEndpoint \/ DialError \/ DialOk \/ \E s \in Streams : OpenStream(s)
  \/ HandshakeAccepted \/ HandshakeRejected \/ HandshakeEarly \/ HandshakeEof
  \/ HandshakeStatus \/ HandshakeTimeout \/ Backoff

MainLoop == HandleActor \/ PollActor \/ StreamPayload \/ StreamOther \/ StreamEnd

Client == ClientSend \/ ClientStop \/ ClientReconnect \/ DropClients

Net ==
  \/ \E s \in Streams : NetPull(s) \/ NetDrop(s) \/ Forward(s)
  \/ RelayAnswer \/ RelayPayload \/ RelayEnd

\* The actor has ended, or is connected and has nothing to do.
Idle ==
  /\ \/ Terminal
     \/ phase = "connected" /\ actor = <<>> /\ resp = <<>> /\ ended = "no" /\ tonic = <<>>
  /\ UNCHANGED vars

Next == Connect \/ MainLoop \/ HeartbeatTick \/ Client \/ Net \/ Idle

Spec == Init /\ [][Next]_vars

\* The actor, the forwarding tasks and tonic are scheduled by the runtime; a relay
\* that is up reads what it is sent and answers.  Nothing obliges a Client to act,
\* a fault to happen, or the heartbeat to tick.
ActorStep ==
  \/ ValidateEndpoint \/ DialOk \/ \E s \in Streams : OpenStream(s)
  \/ HandshakeAccepted \/ HandshakeRejected \/ HandshakeEarly \/ HandshakeEof
  \/ HandshakeStatus \/ (HandshakeTimeout /\ NoFault) \/ Backoff \/ MainLoop

Fairness ==
  /\ WF_vars(ActorStep)
  /\ WF_vars(RelayAnswer /\ NoFault)
  /\ \A s \in Streams : WF_vars(NetPull(s)) /\ WF_vars(NetDrop(s)) /\ WF_vars(Forward(s))

FairSpec == Spec /\ Fairness
-----------------------------------------------------------------------------
(* Properties *)

Heartbeats == {i \in DOMAIN actor : actor[i].type = "Heartbeat"}

\* However often the client reconnects, there is exactly one heartbeat, asleep or
\* in the actor's queue, once the first connection is made: heartbeat_started
\* keeps main_loop() from starting a second chain, and no failure breaks the first.
OneHeartbeatChain ==
  Running => hbTimers + Cardinality(Heartbeats) = IF hbStarted THEN 1 ELSE 0

\* The client handles payloads in the order in which the relay sent them, and each
\* at most once, also those that overtake the ConnectResponse and take the detour
\* through the actor's queue.
ResponsesInOrder ==
  LET q == actor \o resp  \* what the client has read and not handled, and not read
      Carries(m) == m.type \in {"RelayResponse", "Payload"}
  IN  /\ \A i \in DOMAIN q : Carries(q[i]) => lastResp < q[i].n
      /\ \A i, j \in DOMAIN q : i < j /\ Carries(q[i]) /\ Carries(q[j]) => q[i].n < q[j].n

\* run() gives up at the max_connection_attempts-th error (at the first one for 0)
\* and at no other time; a reconnect on request does not count.
GiveUpExactly ==
  LET limit == IF MaxAttempts = 0 THEN 1 ELSE MaxAttempts IN
    MaxAttempts # Infinite /\ opts.https =>
      /\ failures <= limit
      /\ phase = "failed" <=> failures = limit

\* No message handed over after stop() leaves the client: the actor takes the two
\* from one queue, and nothing revives a stopped client.
StopFinal == stopAt # -1 => enq <= stopAt

\* connect() and run() use the forwarding tasks the way ReceiverStream assumes: a
\* call is opened only once the tokens of all earlier ones are cancelled, whatever
\* way main_loop() was left.
PipeDiscipline == PipeSpec

\* lib.rs: "Messages sent while offline are buffered and eventually sent when
\* connection is established."  A message sent while offline is not lost before
\* the relay has accepted a connection.
OfflineSendsSurvive == lost \cap (covered + 1 .. sent) = {}

\* stop() takes effect, at the latest once the network has stopped failing.
StopHonoured == (stopAt # -1) ~> Terminal

\* "The connection will automatically reconnect if lost, until the maximum number
\* of connection attempts is reached."
Reconnects == []<>(Online \/ Terminal)

\* Every message handed to the client is put on some call, or lost with one; no
\* change of connection leaves it behind in a queue.
SendsResolved ==
  \A n \in 1 .. MaxSends : (sent >= n) ~> (Terminal \/ n \in delivered \cup lost)

\* What a client knows of phase.
Status ==
  CASE phase = "validate" -> "starting"
    [] phase \in {"dial", "request", "handshake", "backoff"} -> "offline"
    [] phase \in {"connected", "polled"} -> "online"
    [] OTHER -> phase

Left ==
  IF MaxAttempts = Infinite THEN Infinite
  ELSE (IF MaxAttempts = 0 THEN 1 ELSE MaxAttempts) - failures

\* The actor comes to those that lie before the first Stop.
DueReconnects ==
  {i \in DOMAIN actor :
     Running /\ actor[i].type = "Reconnect" /\ \A j \in 1 .. i : actor[j].type # "Stop"}

\* Client and actor keep the promises of ConnectionPromise: whatever way the connection
\* fails or is left, messages enter tonic_tx only while main_loop() runs and each once, a
\* stop() comes after all that was asked for before it and before all that was asked for
\* later, each reconnect() has effect once, and each failure but no reconnect() costs an
\* attempt.  What has entered tonic_tx may still be dropped there, by stop() too, and
\* main_loop() also runs after connect() has returned Ok for a call that only ended.
Promise == INSTANCE ConnectionPromise
             WITH status <- Status, left <- Left, asked <- sent, taken <- enq,
                  stopAfter <- stopAt, due <- Cardinality(DueReconnects), got <- lastResp
KeepsConnectionPromise == Promise!Spec
=============================================================================
