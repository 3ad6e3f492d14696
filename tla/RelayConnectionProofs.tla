----------------------- MODULE RelayConnectionProofs -----------------------
(***************************************************************************)
(* Proofs about RelayConnection: its variables keep to their types, it     *)
(* uses the pipe the way ReceiverStream assumes (so that the theorems      *)
(* about the pipe hold of the whole client), it gives up exactly when it   *)
(* should, it keeps the order of responses, of stop() and of heartbeats,   *)
(* and it keeps what is sent offline until the relay has accepted it.      *)
(***************************************************************************)
EXTENDS RelayConnection, LossyFifoProofs

\* A call is open exactly while main_loop() is at it, and the tokens of all other calls are
\* cancelled unless nothing is left of them.
TokenInv ==
  /\ cur \in Streams \cup {NoStream}
  /\ phase \in {"handshake", "connected", "polled"} <=> cur # NoStream
  /\ \A s \in Streams : task[s] = "none" \/ cancelled[s] \/ s = cur

PipeKept == PipeTypeOK /\ TokenInv

\* A step that leaves the pipe and the call as they are.
LEMMA TokenUnchanged ==
  ASSUME PipeKept, UNCHANGED <<pipe, cur>>,
         phase' \in {"handshake", "connected", "polled"} <=> cur # NoStream
  PROVE  [PipeNext]_pipe /\ TokenInv'
BY DEF PipeKept, TokenInv, pipe

\* A request is put into the tonic channel.
LEMMA TokenPut ==
  ASSUME PipeKept, NEW type \in {"ConnectRequest", "Payload", "Heartbeat"}, Put(type),
         cur' = cur, phase' \in {"handshake", "connected", "polled"} <=> cur # NoStream
  PROVE  [PipeNext]_pipe /\ TokenInv'
BY DEF PipeKept, TokenInv, Put, PipeNext

\* main_loop() is left.
LEMMA TokenLeave ==
  ASSUME PipeKept, CancelCur, cur' = NoStream,
         phase' \notin {"handshake", "connected", "polled"}
  PROVE  [PipeNext]_pipe /\ TokenInv'
<1>1. CASE cur = NoStream
  BY <1>1 DEF PipeKept, TokenInv, CancelCur, pipe
<1>2. CASE cur # NoStream
  <2>1. cur \in Streams /\ Cancel(cur)
    BY <1>2 DEF PipeKept, TokenInv, CancelCur
  <2>2. PipeNext
    BY <2>1 DEF PipeNext
  <2>3. \A s \in Streams : task'[s] = task[s] /\ (cancelled'[s] <=> cancelled[s] \/ s = cur)
    BY <2>1 DEF Cancel, PipeKept, PipeTypeOK
  <2> QED
    BY <2>2, <2>3, NoStreamAssumption DEF PipeKept, TokenInv
<1> QED
  BY <1>1, <1>2

\* connect() opens a call.
LEMMA TokenOpen ==
  ASSUME PipeKept, NEW s \in Streams, OpenStream(s)
  PROVE  [PipeNext]_pipe /\ TokenInv'
<1>1. /\ phase = "request" /\ New(s) /\ cur' = s /\ phase' = "handshake"
  BY DEF OpenStream
<1>2. \A t \in Streams : task[t] = "none" \/ cancelled[t]
  BY <1>1, NoStreamAssumption DEF PipeKept, TokenInv
<1>3. PipeNext
  BY <1>1, <1>2 DEF Start, PipeNext
<1>4. \A t \in Streams \ {s} : task'[t] = task[t] /\ cancelled'[t] = cancelled[t]
  BY <1>1 DEF New, PipeKept, PipeTypeOK
<1> QED
  BY <1>1, <1>2, <1>3, <1>4, NoStreamAssumption DEF TokenInv

\* A forwarding task or tonic takes a step.
LEMMA TokenNet ==
  ASSUME PipeKept, NEW s \in Streams, TaskStep(s) \/ Pull(s) \/ DropBody(s), UNCHANGED <<phase, cur>>
  PROVE  [PipeNext]_pipe /\ TokenInv'
<1>1. PipeNext
  BY DEF PipeNext
<1>2. \A t \in Streams : cancelled'[t] = cancelled[t] /\ (task[t] = "none" => task'[t] = "none")
  BY DEF TaskStep, CheckToken, Recv, Park, Push, SendErr, Pull, DropBody, PipeKept, PipeTypeOK
<1> QED
  BY <1>1, <1>2 DEF PipeKept, TokenInv

LEMMA TokenStep ==
  PipeKept /\ [Next]_vars => [PipeNext]_pipe /\ TokenInv'
<1> SUFFICES ASSUME PipeKept, [Next]_vars
             PROVE  [PipeNext]_pipe /\ TokenInv'
  OBVIOUS
<1> DEFINE Goal == [PipeNext]_pipe /\ TokenInv'
<1>1. phase \in {"handshake", "connected", "polled"} <=> cur # NoStream
  BY DEF PipeKept, TokenInv
<1>2. ASSUME Fail
      PROVE  Goal
  BY <1>2, TokenLeave DEF Fail, Leave
<1>3. CASE ValidateEndpoint \/ Backoff \/ PollActor
  BY <1>1, <1>3, TokenUnchanged DEF ValidateEndpoint, Backoff, PollActor, OnlyPhase
<1>4. CASE \/ DialError \/ HandshakeRejected \/ HandshakeStatus \/ HandshakeTimeout \/ StreamEnd
  BY <1>2, <1>4 DEF DialError, HandshakeRejected, HandshakeStatus, HandshakeTimeout, StreamEnd
<1>5. CASE DialOk
  BY <1>1, <1>5, TokenUnchanged, TokenPut DEF DialOk
<1>6. CASE HandshakeAccepted \/ HandshakeEof
  BY <1>1, <1>6, TokenUnchanged DEF HandshakeAccepted, HandshakeEof, EnterLoop
<1>7. CASE HandshakeEarly \/ StreamOther
  BY <1>1, <1>7, TokenUnchanged DEF HandshakeEarly, StreamOther, life
<1>8. CASE HandleActor
  <2>1. phase = "connected"
    BY <1>8 DEF HandleActor
  <2>2. CASE HandleSend
    BY <1>1, <2>2, TokenPut DEF HandleSend, life
  <2>3. CASE HandleHeartbeat
    BY <1>1, <2>3, TokenPut DEF HandleHeartbeat, life
  <2>4. CASE HandleResponse
    BY <1>1, <1>2, <2>1, <2>4, TokenUnchanged DEF HandleResponse, Receive, ReceiveErr
  <2>5. CASE HandleStop \/ HandleReconnect
    BY <2>5, TokenLeave DEF HandleStop, HandleReconnect, Leave
  <2> QED
    BY <1>8, <2>2, <2>3, <2>4, <2>5 DEF HandleActor
<1>9. CASE StreamPayload
  BY <1>1, <1>2, <1>9, TokenUnchanged DEF StreamPayload, Receive, ReceiveErr
<1>10. CASE HeartbeatTick \/ Client
  BY <1>1, <1>10, TokenUnchanged DEF HeartbeatTick, Client, ClientSend, ClientStop,
                                     ClientReconnect, DropClients, life
<1>11. CASE Net
  BY <1>1, <1>11, TokenNet, TokenUnchanged DEF Net, NetPull, NetDrop, Forward, RelayAnswer,
                                               RelayPayload, RelayEnd, life
<1>12. CASE Idle \/ UNCHANGED vars
  BY <1>1, <1>12, TokenUnchanged DEF Idle, vars, life
<1> QED
  BY <1>3, <1>4, <1>5, <1>6, <1>7, <1>8, <1>9, <1>10, <1>11, <1>12, TokenOpen
     DEF Next, Connect, MainLoop

LEMMA PipeKeptAlways == Spec => []PipeKept
<1>1. Init => PipeKept
  BY DEF Init, PipeInit, PipeKept, PipeTypeOK, TokenInv
<1>2. PipeKept /\ [Next]_vars => PipeKept'
  BY TokenStep, TypeStep DEF PipeKept
<1> QED
  BY <1>1, <1>2, PTL DEF Spec

\* connect() and run() use the forwarding tasks the way ReceiverStream assumes, so every
\* theorem about PipeSpec is one about the connection.
THEOREM ConnectionUsesPipe == Spec => PipeDiscipline
<1>1. Init => PipeInit
  BY DEF Init
<1> QED
  BY <1>1, PipeKeptAlways, TokenStep, PTL DEF Spec, PipeDiscipline, PipeSpec

\* Across all reconnections no payload overtakes an earlier one on a call, or goes out on a
\* call twice.
THEOREM ConnectionStreamOrder == Spec => []StreamOrder
BY ConnectionUsesPipe, PipeStreamOrder, PTL DEF PipeDiscipline

\* So does the conservation of payloads: what the actor puts into tonic_tx is in exactly one
\* place, through all reconnects.
THEOREM ConnectionConserves == Spec => []PayloadsConserved
BY ConnectionUsesPipe, PipeConserves, PTL DEF PipeDiscipline
-----------------------------------------------------------------------------
(* Giving up *)

Limit == IF MaxAttempts = 0 THEN 1 ELSE MaxAttempts

\* Until run() gives up it is at the attempt after its failures.
GiveUpInv ==
  MaxAttempts # Infinite /\ opts.https =>
    /\ failures \in Nat /\ failures <= Limit
    /\ phase = "failed" => failures = Limit
    /\ phase # "failed" => failures < Limit /\ connAttempts = failures + 1

LEMMA GiveUpFail ==
  ASSUME GiveUpInv, Fail, phase # "failed", opts' = opts
  PROVE  GiveUpInv'
<1> SUFFICES ASSUME MaxAttempts # Infinite, opts.https
             PROVE  GiveUpInv'
  BY DEF GiveUpInv
<1>1. MaxAttempts \in Nat /\ AttemptCap \in Nat \ {0} /\ MaxAttempts <= AttemptCap
  BY AttemptsAssumption DEF Amount
<1>2. /\ failures \in Nat /\ failures < Limit /\ connAttempts = failures + 1
  BY DEF GiveUpInv
<1>3. Limit \in Nat /\ Limit <= AttemptCap /\ (GiveUp <=> MaxAttempts <= connAttempts)
  BY <1>1 DEF Limit, GiveUp, AtMost
<1>4. failures' = failures + 1
  BY <1>1, <1>2, <1>3 DEF Fail, Bump
<1>5. CASE GiveUp
  <2>1. phase' = "failed" /\ failures' = Limit
    BY <1>1, <1>2, <1>3, <1>4, <1>5 DEF Fail, Limit
  <2> QED
    BY <1>3, <2>1 DEF GiveUpInv
<1>6. CASE ~GiveUp
  <2>1. phase' = "backoff" /\ connAttempts' = Bump(connAttempts)
    BY <1>6 DEF Fail
  <2>2. failures' < Limit /\ connAttempts' = failures' + 1
    BY <1>1, <1>2, <1>3, <1>4, <1>6, <2>1 DEF Bump, Limit
  <2>3. failures' \in Nat /\ failures' <= Limit
    BY <1>2, <1>3, <1>4, <2>2
  <2> QED
    BY <2>1, <2>2, <2>3 DEF GiveUpInv
<1> QED
  BY <1>5, <1>6

LEMMA GiveUpStep == GiveUpInv /\ [Next]_vars => GiveUpInv'
<1> SUFFICES ASSUME GiveUpInv, [Next]_vars
             PROVE  GiveUpInv'
  OBVIOUS
<1>1. ASSUME UNCHANGED <<opts, failures, connAttempts>>, opts.https => (phase' = "failed" <=> phase = "failed")
      PROVE  GiveUpInv'
  BY <1>1 DEF GiveUpInv
<1>2. CASE ValidateEndpoint \/ Backoff \/ PollActor
  BY <1>1, <1>2 DEF ValidateEndpoint, Backoff, PollActor, OnlyPhase, OnlyConnection
<1>3. CASE \/ DialError \/ HandshakeRejected \/ HandshakeStatus \/ HandshakeTimeout \/ StreamEnd
  BY <1>3, GiveUpFail DEF DialError, HandshakeRejected, HandshakeStatus, HandshakeTimeout, StreamEnd,
                          OnlyConnection
<1>4. CASE DialOk \/ \E s \in Streams : OpenStream(s)
  BY <1>1, <1>4 DEF DialOk, OpenStream, OnlyConnection
<1>5. CASE HandshakeAccepted \/ HandshakeEof
  BY <1>1, <1>5 DEF HandshakeAccepted, HandshakeEof, EnterLoop
<1>6. CASE HandshakeEarly \/ StreamOther
  BY <1>1, <1>6 DEF HandshakeEarly, StreamOther, life
<1>7. CASE HandleActor
  <2>1. phase = "connected" /\ opts' = opts
    BY <1>7 DEF HandleActor
  <2>2. CASE HandleSend \/ HandleHeartbeat
    BY <1>1, <2>1, <2>2 DEF HandleSend, HandleHeartbeat, life
  <2>3. CASE HandleResponse
    BY <1>1, <2>1, <2>3, GiveUpFail DEF HandleResponse, Receive, ReceiveErr
  <2>4. CASE HandleStop \/ HandleReconnect
    BY <1>1, <2>1, <2>4 DEF HandleStop, HandleReconnect
  <2> QED
    BY <1>7, <2>2, <2>3, <2>4 DEF HandleActor
<1>8. CASE StreamPayload
  BY <1>1, <1>8, GiveUpFail DEF StreamPayload, Receive, ReceiveErr
<1>9. CASE HeartbeatTick \/ Client
  BY <1>1, <1>9 DEF HeartbeatTick, Client, ClientSend, ClientStop, ClientReconnect, DropClients, life
<1>10. CASE Net
  BY <1>1, <1>10 DEF Net, NetPull, NetDrop, Forward, RelayAnswer, RelayPayload, RelayEnd, life
<1>11. CASE Idle \/ UNCHANGED vars
  BY <1>1, <1>11 DEF Idle, vars, life
<1> QED
  BY <1>2, <1>3, <1>4, <1>5, <1>6, <1>7, <1>8, <1>9, <1>10, <1>11 DEF Next, Connect, MainLoop

LEMMA GiveUpAlways == Spec => []GiveUpInv
<1>1. Init => GiveUpInv
  BY AttemptsAssumption DEF Init, GiveUpInv, Limit, Amount
<1> QED
  BY <1>1, GiveUpStep, PTL DEF Spec

\* run() gives up at the max_connection_attempts-th error and at no other time, for any number
\* of attempts, faults and reconnects.
THEOREM GivesUpExactly == Spec => []GiveUpExactly
<1>1. GiveUpInv => GiveUpExactly
  <2> SUFFICES ASSUME GiveUpInv, MaxAttempts # Infinite, opts.https
               PROVE  failures <= Limit /\ (phase = "failed" <=> failures = Limit)
    BY DEF GiveUpExactly, Limit
  <2>1. Limit \in Nat
    BY AttemptsAssumption DEF Limit, Amount
  <2> QED
    BY <2>1 DEF GiveUpInv
<1> QED
  BY <1>1, GiveUpAlways, PTL
-----------------------------------------------------------------------------
(* Types, and the order of responses *)

\* Responses are numbered as the relay sent them: those in the actor's queue come before
\* those on the stream, and the actor looks at the stream only when it has handled its own.
Ordered ==
  /\ lastResp <= nextResp
  /\ \A i \in DOMAIN actor : actor[i].type = "RelayResponse" =>
       lastResp < actor[i].n /\ actor[i].n <= nextResp
  /\ \A i \in DOMAIN resp : resp[i].type = "Payload" =>
       lastResp < resp[i].n /\ resp[i].n <= nextResp
  /\ \A i, j \in DOMAIN actor :
       i < j /\ actor[i].type = "RelayResponse" /\ actor[j].type = "RelayResponse" =>
         actor[i].n < actor[j].n
  /\ \A i, j \in DOMAIN resp :
       i < j /\ resp[i].type = "Payload" /\ resp[j].type = "Payload" => resp[i].n < resp[j].n
  /\ \A i \in DOMAIN actor, j \in DOMAIN resp :
       actor[i].type = "RelayResponse" /\ resp[j].type = "Payload" => actor[i].n < resp[j].n
  /\ phase = "polled" => \A i \in DOMAIN actor : actor[i].type # "RelayResponse"

\* Messages leave the queue and the stream at the front, and others come that carry nothing.
LEMMA OrderedShift ==
  ASSUME Ordered, actor \in Seq(Msg), resp \in Seq(Response), nextResp' = nextResp,
         NEW k \in Nat, NEW l \in Nat,
         \A i \in DOMAIN actor' : i \in Nat /\
           (actor'[i].type = "RelayResponse" => i + k \in DOMAIN actor /\ actor'[i] = actor[i + k]),
         \A i \in DOMAIN resp' : i \in Nat /\
           (resp'[i].type = "Payload" => i + l \in DOMAIN resp /\ resp'[i] = resp[i + l]),
         \/ lastResp' = lastResp
         \/ /\ lastResp' <= nextResp
            /\ \A i \in DOMAIN actor' : actor'[i].type = "RelayResponse" => lastResp' < actor'[i].n
            /\ \A i \in DOMAIN resp' : resp'[i].type = "Payload" => lastResp' < resp'[i].n,
         phase' = "polled" => phase = "polled" \/ actor = <<>>
  PROVE  Ordered'
<1>0. (lastResp <= nextResp)'
  BY DEF Ordered
<1>1. (\A i \in DOMAIN actor : actor[i].type = "RelayResponse" =>
         lastResp < actor[i].n /\ actor[i].n <= nextResp)'
  BY DEF Ordered
<1>2. (\A i \in DOMAIN resp : resp[i].type = "Payload" =>
         lastResp < resp[i].n /\ resp[i].n <= nextResp)'
  BY DEF Ordered
<1>3. (\A i, j \in DOMAIN actor :
         i < j /\ actor[i].type = "RelayResponse" /\ actor[j].type = "RelayResponse" =>
           actor[i].n < actor[j].n)'
  <2> SUFFICES ASSUME NEW i \in DOMAIN actor', NEW j \in DOMAIN actor', i < j,
                      actor'[i].type = "RelayResponse", actor'[j].type = "RelayResponse"
               PROVE  actor'[i].n < actor'[j].n
    OBVIOUS
  <2>1. i + k < j + k
    OBVIOUS
  <2> QED
    BY <2>1 DEF Ordered
<1>4. (\A i, j \in DOMAIN resp :
         i < j /\ resp[i].type = "Payload" /\ resp[j].type = "Payload" => resp[i].n < resp[j].n)'
  <2> SUFFICES ASSUME NEW i \in DOMAIN resp', NEW j \in DOMAIN resp', i < j,
                      resp'[i].type = "Payload", resp'[j].type = "Payload"
               PROVE  resp'[i].n < resp'[j].n
    OBVIOUS
  <2>1. i + l < j + l
    OBVIOUS
  <2> QED
    BY <2>1 DEF Ordered
<1>5. (\A i \in DOMAIN actor, j \in DOMAIN resp :
         actor[i].type = "RelayResponse" /\ resp[j].type = "Payload" => actor[i].n < resp[j].n)'
  BY DEF Ordered
<1>6. (phase = "polled" => \A i \in DOMAIN actor : actor[i].type # "RelayResponse")'
  BY DEF Ordered
<1> QED
  BY <1>0, <1>1, <1>2, <1>3, <1>4, <1>5, <1>6 DEF Ordered

\* The forms in which a queue changes.
LEMMA QueueForms ==
  ASSUME NEW S, NEW q \in Seq(S)
  PROVE  /\ \A i \in DOMAIN q : i \in Nat /\ i + 0 \in DOMAIN q /\ q[i] = q[i + 0]
         /\ q # <<>> => /\ Head(q) \in S /\ Head(q) = q[1] /\ 1 \in DOMAIN q
                        /\ Tail(q) \in Seq(S)
                        /\ \A i \in DOMAIN Tail(q) : i \in Nat \ {0} /\ i + 1 \in DOMAIN q
                                                       /\ Tail(q)[i] = q[i + 1]
         /\ \A w \in S : /\ Append(q, w) \in Seq(S)
                         /\ \A i \in DOMAIN Append(q, w) : i \in Nat /\
                              (Append(q, w)[i] # w => i + 0 \in DOMAIN q /\ Append(q, w)[i] = q[i + 0])
                         /\ \A i \in DOMAIN Append(q, w) :
                              \/ i \in DOMAIN q /\ Append(q, w)[i] = q[i]
                              \/ i = Len(q) + 1 /\ Append(q, w)[i] = w
OBVIOUS

LEMMA ConnTypeFail ==
  ASSUME TypeOK, PipeTypeOK', Fail, faults' \in Amount, OnlyConnection
  PROVE  TypeOK'
<1>1. \A n \in 0 .. AttemptCap : Bump(n) \in 0 .. AttemptCap
  BY AttemptsAssumption DEF Bump
<1>2. \A n \in 1 .. AttemptCap : Bump(n) \in 1 .. AttemptCap
  BY AttemptsAssumption DEF Bump
<1>3. /\ failures' \in 0 .. AttemptCap /\ connAttempts' \in 1 .. AttemptCap /\ phase' \in Phases
      /\ resp' = <<>> /\ ended' = "no" /\ unanswered' = 0 /\ cur' = NoStream /\ accepted' = FALSE
      /\ nextResp' = nextResp
  BY <1>1, <1>2 DEF Fail, Leave, TypeOK, Phases
<1>4. <<>> \in Seq(Response)
  OBVIOUS
<1>5. UNCHANGED <<opts, actor, hbStarted, hbTimers, lastResp, held, sent, reconnects, stopAt, covered>>
  BY DEF OnlyConnection, beat, user
<1>6. /\ opts \in [https : BOOLEAN, zkp : BOOLEAN] /\ actor \in Seq(Msg) /\ hbStarted \in BOOLEAN
      /\ hbTimers \in Nat /\ nextResp \in 0 .. MaxResponses /\ lastResp \in 0 .. MaxResponses
      /\ held \in BOOLEAN /\ sent \in 0 .. MaxSends /\ covered \in 0 .. MaxSends
      /\ reconnects \in 0 .. MaxReconnects /\ stopAt \in Nat \cup {-1}
  BY DEF TypeOK
<1> QED
  BY <1>3, <1>4, <1>5, <1>6 DEF TypeOK

LEMMA ConnTypeStep ==
  TypeOK /\ PipeTypeOK' /\ Ordered /\ [Next]_vars => TypeOK'
<1> SUFFICES ASSUME TypeOK, PipeTypeOK', Ordered, [Next]_vars
             PROVE  TypeOK'
  OBVIOUS
<1> USE DEF beat, user, relay, life
<1>1. faults \in Amount /\ Decrement(faults) \in Amount
  BY DEF TypeOK, Amount, Decrement, Infinite
<1>2. CASE ValidateEndpoint \/ Backoff \/ PollActor
  BY <1>2 DEF ValidateEndpoint, Backoff, PollActor, OnlyPhase, OnlyConnection, TypeOK, Phases
<1>3. CASE \/ DialError \/ HandshakeRejected \/ HandshakeStatus \/ HandshakeTimeout \/ StreamEnd
  <2>1. Fail /\ OnlyConnection /\ faults' \in Amount
    BY <1>1, <1>3 DEF DialError, HandshakeRejected, HandshakeStatus, HandshakeTimeout, StreamEnd,
                      Fault, NoFault
  <2> QED
    BY <2>1, ConnTypeFail
<1>4. CASE DialOk \/ \E s \in Streams : OpenStream(s)
  BY <1>4 DEF DialOk, OpenStream, OnlyConnection, TypeOK, Phases
<1>5. CASE HandshakeAccepted \/ HandshakeEof
  <2>1. resp' \in Seq(Response)
    <3>1. CASE HandshakeAccepted
      BY <3>1, QueueForms DEF HandshakeAccepted, TypeOK
    <3>2. CASE HandshakeEof
      BY <3>2 DEF HandshakeEof, TypeOK
    <3> QED
      BY <1>5, <3>1, <3>2
  <2>2. hbTimers' \in Nat /\ phase' = "connected" /\ hbStarted' = TRUE
    BY <1>5 DEF HandshakeAccepted, HandshakeEof, EnterLoop, TypeOK
  <2>3. covered' \in 0 .. MaxSends /\ accepted' \in BOOLEAN
    BY <1>5 DEF HandshakeAccepted, HandshakeEof, TypeOK
  <2>4. UNCHANGED <<opts, connAttempts, failures, cur, actor, ended, unanswered, faults, nextResp,
                    lastResp, held, sent, reconnects, stopAt>>
    BY <1>5 DEF HandshakeAccepted, HandshakeEof, EnterLoop
  <2> QED
    BY <2>1, <2>2, <2>3, <2>4 DEF TypeOK, Phases
<1>6. CASE HandshakeEarly
  <2> DEFINE m == [type |-> "RelayResponse", n |-> Head(resp).n]
  <2>1. Head(resp) \in Response /\ Head(resp).type = "Payload" /\ resp' \in Seq(Response)
    BY <1>6, QueueForms DEF HandshakeEarly, TypeOK
  <2>2. m \in Msg
    BY <2>1 DEF Response, Msg
  <2>3. actor' = Append(actor, m)
    BY <1>6 DEF HandshakeEarly
  <2> HIDE DEF m
  <2>4. actor' \in Seq(Msg)
    BY <2>2, <2>3 DEF TypeOK
  <2> QED
    BY <1>6, <2>1, <2>4 DEF HandshakeEarly, TypeOK
<1>7. CASE HandleActor
  <2> DEFINE m == Head(actor)
  <2>1. /\ actor' \in Seq(Msg) /\ UNCHANGED <<opts, user, covered>> /\ phase = "connected"
        /\ m \in Msg /\ m = actor[1] /\ 1 \in DOMAIN actor
    BY <1>7, QueueForms DEF HandleActor, TypeOK
  <2>2. CASE HandleSend \/ HandleHeartbeat
    BY <2>1, <2>2 DEF HandleSend, HandleHeartbeat, TypeOK
  <2>3. CASE HandleResponse
    <3>1. m.type = "RelayResponse" /\ beat' = beat
      BY <2>3 DEF HandleResponse
    <3>2. m.n \in 0 .. MaxResponses
      <4>1. m.n \in Nat /\ nextResp \in 0 .. MaxResponses /\ MaxResponses \in Nat
        BY <2>1, <3>1, AttemptsAssumption DEF Msg, TypeOK
      <4>2. m.n <= nextResp
        BY <2>1, <3>1 DEF Ordered
      <4> QED
        BY <4>1, <4>2
    <3>3. CASE Receive(m.n) /\ UNCHANGED relay
      BY <2>1, <3>1, <3>2, <3>3 DEF Receive, TypeOK, Phases
    <3>4. CASE ReceiveErr
      <4>1. \A n \in 0 .. AttemptCap : Bump(n) \in 0 .. AttemptCap
        BY AttemptsAssumption DEF Bump
      <4>2. \A n \in 1 .. AttemptCap : Bump(n) \in 1 .. AttemptCap
        BY AttemptsAssumption DEF Bump
      <4>3. /\ failures' \in 0 .. AttemptCap /\ connAttempts' \in 1 .. AttemptCap /\ phase' \in Phases
            /\ resp' = <<>> /\ ended' = "no" /\ unanswered' = 0 /\ cur' = NoStream
            /\ accepted' = FALSE /\ UNCHANGED <<nextResp, faults, lastResp>>
        BY <3>4, <4>1, <4>2 DEF ReceiveErr, Fail, NoFault, Leave, TypeOK, Phases
      <4>4. <<>> \in Seq(Response)
        OBVIOUS
      <4>5. UNCHANGED <<opts, hbStarted, hbTimers, lastResp, held, sent, reconnects, stopAt, covered>>
        BY <2>1, <3>1, <4>3
      <4> QED
        BY <2>1, <4>3, <4>4, <4>5 DEF TypeOK
    <3> QED
      BY <2>3, <3>3, <3>4 DEF HandleResponse
  <2>4. CASE HandleStop \/ HandleReconnect
    <3>1. /\ resp' = <<>> /\ ended' = "no" /\ unanswered' = 0 /\ cur' = NoStream /\ accepted' = FALSE
          /\ UNCHANGED <<nextResp, connAttempts, failures, hbStarted, hbTimers, faults, lastResp>>
          /\ phase' \in Phases
      BY <2>4 DEF HandleStop, HandleReconnect, Leave, Phases
    <3>2. <<>> \in Seq(Response)
      OBVIOUS
    <3> QED
      BY <2>1, <3>1, <3>2 DEF TypeOK
  <2> QED
    BY <1>7, <2>2, <2>3, <2>4 DEF HandleActor
<1>8. CASE StreamPayload
  <2>1. /\ Head(resp) \in Response /\ Head(resp) = resp[1] /\ 1 \in DOMAIN resp
        /\ Head(resp).type = "Payload" /\ Tail(resp) \in Seq(Response)
    BY <1>8, QueueForms DEF StreamPayload, TypeOK
  <2>2. Head(resp).n \in 0 .. MaxResponses
    <3>1. Head(resp).n \in Nat /\ nextResp \in 0 .. MaxResponses /\ MaxResponses \in Nat
      BY <2>1, AttemptsAssumption DEF Response, TypeOK
    <3>2. Head(resp).n <= nextResp
      BY <2>1 DEF Ordered
    <3> QED
      BY <3>1, <3>2
  <2>3. CASE Receive(Head(resp).n) /\ resp' = Tail(resp)
             /\ UNCHANGED <<ended, unanswered, faults, nextResp>>
    BY <1>8, <2>1, <2>2, <2>3 DEF StreamPayload, Receive, TypeOK, Phases
  <2>4. CASE ReceiveErr
    <3>1. Fail /\ faults' \in Amount /\ OnlyConnection
      BY <1>1, <1>8, <2>4 DEF StreamPayload, ReceiveErr, NoFault, OnlyConnection
    <3> QED
      BY <3>1, ConnTypeFail
  <2> QED
    BY <1>8, <2>3, <2>4 DEF StreamPayload
<1>9. CASE StreamOther
  BY <1>9, QueueForms DEF StreamOther, TypeOK, Phases
<1>10. ASSUME NEW w \in Msg, actor' = Append(actor, w)
       PROVE  actor' \in Seq(Msg)
  BY <1>10 DEF TypeOK
<1>11. \A t \in {"Send", "Stop", "Heartbeat", "Reconnect"} : [type |-> t, n |-> 0] \in Msg
  BY DEF Msg
<1>12. CASE HeartbeatTick
  BY <1>10, <1>11, <1>12 DEF HeartbeatTick, TypeOK
<1>13. CASE Client
  <2>1. /\ {MaxSends, MaxReconnects} \subseteq Nat
        /\ sent \in 0 .. MaxSends /\ reconnects \in 0 .. MaxReconnects
    BY AttemptsAssumption DEF TypeOK
  <2>2. CASE ClientSend
    <3>1. actor' \in Seq(Msg)
      BY <1>10, <1>11, <2>2 DEF ClientSend, Tell
    <3>2. sent' \in 0 .. MaxSends /\ covered' \in 0 .. MaxSends
      BY <2>1, <2>2 DEF ClientSend, TypeOK
    <3> QED
      BY <2>2, <3>1, <3>2 DEF ClientSend, TypeOK
  <2>3. CASE ClientStop
    <3>1. actor' \in Seq(Msg)
      BY <1>10, <1>11, <2>3 DEF ClientStop, Tell
    <3> QED
      BY <2>1, <2>3, <3>1 DEF ClientStop, TypeOK
  <2>4. CASE ClientReconnect
    <3>1. actor' \in Seq(Msg)
      BY <1>10, <1>11, <2>4 DEF ClientReconnect, Tell
    <3> QED
      BY <2>1, <2>4, <3>1 DEF ClientReconnect, TypeOK
  <2>5. CASE DropClients
    BY <2>5 DEF DropClients, TypeOK
  <2> QED
    BY <1>13, <2>2, <2>3, <2>4, <2>5 DEF Client
<1>14. CASE \E s \in Streams : NetPull(s) \/ NetDrop(s) \/ Forward(s)
  <2>1. UNCHANGED <<opts, life, actor, beat, resp, ended, faults, nextResp, lastResp, user, covered>>
    BY <1>14 DEF NetPull, NetDrop, Forward
  <2>2. unanswered' \in Nat
    BY <1>14 DEF NetPull, NetDrop, Forward, TypeOK
  <2> QED
    BY <2>1, <2>2 DEF TypeOK
<1>15. CASE RelayAnswer
  <2>1. \A t \in {"Accepted", "Rejected"} : [type |-> t, n |-> 0] \in Response
    BY DEF Response
  <2>2. PICK w \in Response : resp' = Append(resp, w)
    BY <1>15, <2>1 DEF RelayAnswer
  <2>3. resp' \in Seq(Response)
    BY <2>2 DEF TypeOK
  <2>4. unanswered' \in Nat /\ faults' \in Amount
    BY <1>1, <1>15 DEF RelayAnswer, TypeOK, Fault, NoFault
  <2> QED
    BY <1>15, <2>3, <2>4 DEF RelayAnswer, TypeOK
<1>16. CASE RelayPayload
  <2>1. nextResp \in Nat /\ MaxResponses \in Nat /\ nextResp' = nextResp + 1 /\ nextResp < MaxResponses
    BY <1>16, AttemptsAssumption DEF RelayPayload, TypeOK
  <2>2. [type |-> "Payload", n |-> nextResp + 1] \in Response
    BY <2>1 DEF Response
  <2>3. PICK w \in Response : resp' = Append(resp, w)
    BY <1>16, <2>2 DEF RelayPayload
  <2>4. resp' \in Seq(Response) /\ nextResp' \in 0 .. MaxResponses
    BY <2>1, <2>3 DEF TypeOK
  <2> QED
    BY <1>16, <2>4 DEF RelayPayload, TypeOK
<1>17. CASE RelayEnd
  BY <1>1, <1>17 DEF RelayEnd, Fault, TypeOK
<1>18. CASE Idle \/ UNCHANGED vars
  BY <1>18 DEF Idle, vars, TypeOK
<1> QED
  BY <1>2, <1>3, <1>4, <1>5, <1>6, <1>7, <1>8, <1>9, <1>12, <1>13, <1>14, <1>15, <1>16, <1>17,
     <1>18 DEF Next, Connect, MainLoop, Net

LEMMA OrderedStep ==
  TypeOK /\ Ordered /\ [Next]_vars => Ordered'
<1> SUFFICES ASSUME TypeOK, Ordered, [Next]_vars
             PROVE  Ordered'
  OBVIOUS
<1>1. actor \in Seq(Msg) /\ resp \in Seq(Response)
  BY DEF TypeOK
<1>2. ASSUME UNCHANGED <<actor, resp, lastResp, nextResp>>,
             phase' = "polled" => phase = "polled" \/ actor = <<>>
      PROVE  Ordered'
  <2>1. phase' = "polled" => \A i \in DOMAIN actor : actor[i].type # "RelayResponse"
    BY <1>1, <1>2 DEF Ordered
  <2> QED
    BY <1>2, <2>1 DEF Ordered
<1>3. ASSUME UNCHANGED <<actor, lastResp, nextResp>>, resp' = <<>>, phase' # "polled"
      PROVE  Ordered'
  <2>1. \A i \in DOMAIN actor' : i \in Nat /\ i + 0 \in DOMAIN actor /\ actor'[i] = actor[i + 0]
    BY <1>1, <1>3, QueueForms
  <2>2. DOMAIN resp' = {}
    BY <1>3
  <2>3. 0 \in Nat
    OBVIOUS
  <2> QED
    BY <1>1, <1>3, <2>1, <2>2, <2>3, OrderedShift
<1>4. ASSUME UNCHANGED <<actor, lastResp, nextResp>>, resp # <<>>, resp' = Tail(resp),
             phase' # "polled"
      PROVE  Ordered'
  <2>1. \A i \in DOMAIN actor' : i \in Nat /\ i + 0 \in DOMAIN actor /\ actor'[i] = actor[i + 0]
    BY <1>1, <1>4, QueueForms
  <2>2. \A i \in DOMAIN resp' : i \in Nat /\ i + 1 \in DOMAIN resp /\ resp'[i] = resp[i + 1]
    BY <1>1, <1>4, QueueForms
  <2>3. 0 \in Nat /\ 1 \in Nat
    OBVIOUS
  <2> QED
    BY <1>1, <1>4, <2>1, <2>2, <2>3, OrderedShift
<1>5. ASSUME UNCHANGED <<resp, lastResp, nextResp, phase>>, NEW w \in Msg, w.type # "RelayResponse",
             actor' = Append(actor, w)
      PROVE  Ordered'
  <2>1. \A i \in DOMAIN actor' : i \in Nat /\
          (actor'[i].type = "RelayResponse" => i + 0 \in DOMAIN actor /\ actor'[i] = actor[i + 0])
    BY <1>1, <1>5, QueueForms
  <2>2. \A i \in DOMAIN resp' : i \in Nat /\ i + 0 \in DOMAIN resp /\ resp'[i] = resp[i + 0]
    BY <1>1, <1>5, QueueForms
  <2> QED
    BY <1>1, <1>5, <2>1, <2>2, OrderedShift
<1>6. ASSUME Fail
      PROVE  resp' = <<>> /\ nextResp' = nextResp /\ phase' \in {"failed", "backoff"}
  BY <1>6 DEF Fail, Leave
<1>7. CASE ValidateEndpoint \/ Backoff \/ PollActor
  BY <1>2, <1>7 DEF ValidateEndpoint, Backoff, PollActor, OnlyPhase, OnlyConnection, relay
<1>8. CASE \/ DialError \/ HandshakeRejected \/ HandshakeStatus \/ HandshakeTimeout \/ StreamEnd
  BY <1>3, <1>6, <1>8 DEF DialError, HandshakeRejected, HandshakeStatus, HandshakeTimeout, StreamEnd,
                          OnlyConnection
<1>9. CASE DialOk \/ \E s \in Streams : OpenStream(s)
  BY <1>2, <1>9 DEF DialOk, OpenStream, OnlyConnection, relay
<1>10. CASE HandshakeAccepted \/ HandshakeEof \/ StreamOther
  BY <1>2, <1>4, <1>10 DEF HandshakeAccepted, HandshakeEof, StreamOther, EnterLoop, relay
<1>11. CASE HandshakeEarly
  <2> DEFINE w == [type |-> "RelayResponse", n |-> Head(resp).n]
  <2>1. /\ actor' = Append(actor, w) /\ resp' = Tail(resp) /\ resp # <<>>
        /\ Head(resp).type = "Payload" /\ phase' = "handshake" /\ UNCHANGED <<lastResp, nextResp>>
    BY <1>11 DEF HandshakeEarly, life
  <2>2. /\ Head(resp) = resp[1] /\ 1 \in DOMAIN resp /\ Head(resp) \in Response
        /\ \A i \in DOMAIN resp' : /\ i \in Nat \ {0} /\ i + 1 \in DOMAIN resp
                                   /\ resp'[i] = resp[i + 1] /\ 1 < i + 1
    BY <1>1, <2>1, QueueForms
  <2>3. w \in Msg
    BY <2>1, <2>2 DEF Msg, Response
  <2>4. w.type = "RelayResponse" /\ w.n = resp[1].n
    BY <2>2
  <2> HIDE DEF w
  <2>5. \A i \in DOMAIN actor' : \/ i \in DOMAIN actor /\ actor'[i] = actor[i]
                                 \/ i = Len(actor) + 1 /\ actor'[i] = w
    BY <1>1, <2>1, <2>3, QueueForms
  <2>6. (\A i \in DOMAIN actor : actor[i].type = "RelayResponse" =>
           lastResp < actor[i].n /\ actor[i].n <= nextResp)'
    BY <2>1, <2>2, <2>4, <2>5 DEF Ordered
  <2>7. (\A i \in DOMAIN resp : resp[i].type = "Payload" =>
           lastResp < resp[i].n /\ resp[i].n <= nextResp)'
    BY <2>1, <2>2 DEF Ordered
  <2>8. (\A i, j \in DOMAIN actor :
           i < j /\ actor[i].type = "RelayResponse" /\ actor[j].type = "RelayResponse" =>
             actor[i].n < actor[j].n)'
    <3> SUFFICES ASSUME NEW i \in DOMAIN actor', NEW j \in DOMAIN actor', i < j,
                        actor'[i].type = "RelayResponse", actor'[j].type = "RelayResponse"
                 PROVE  actor'[i].n < actor'[j].n
      OBVIOUS
    <3>1. i \in DOMAIN actor /\ actor'[i] = actor[i]
      BY <1>1, <2>5
    <3> QED
      BY <2>1, <2>2, <2>4, <2>5, <3>1 DEF Ordered
  <2>9. (\A i, j \in DOMAIN resp :
           i < j /\ resp[i].type = "Payload" /\ resp[j].type = "Payload" => resp[i].n < resp[j].n)'
    <3> SUFFICES ASSUME NEW i \in DOMAIN resp', NEW j \in DOMAIN resp', i < j,
                        resp'[i].type = "Payload", resp'[j].type = "Payload"
                 PROVE  resp'[i].n < resp'[j].n
      OBVIOUS
    <3>1. i + 1 < j + 1
      BY <2>2
    <3> QED
      BY <2>2, <3>1 DEF Ordered
  <2>10. (\A i \in DOMAIN actor, j \in DOMAIN resp :
            actor[i].type = "RelayResponse" /\ resp[j].type = "Payload" => actor[i].n < resp[j].n)'
    BY <2>1, <2>2, <2>4, <2>5 DEF Ordered
  <2> QED
    BY <2>1, <2>6, <2>7, <2>8, <2>9, <2>10 DEF Ordered
<1>12. CASE HandleActor
  <2>1. /\ actor # <<>> /\ actor' = Tail(actor) /\ 1 \in DOMAIN actor /\ Head(actor) = actor[1]
        /\ \A i \in DOMAIN actor' : /\ i \in Nat /\ i + 1 \in DOMAIN actor
                                    /\ actor'[i] = actor[i + 1] /\ 1 < i + 1
        /\ phase = "connected"
    BY <1>1, <1>12, QueueForms DEF HandleActor
  <2>2. ASSUME nextResp' = nextResp, resp' = resp \/ resp' = <<>>, phase' # "polled",
               lastResp' = lastResp \/
                 (lastResp' = Head(actor).n /\ Head(actor).type = "RelayResponse")
        PROVE  Ordered'
    <3>1. \A i \in DOMAIN resp' : i \in Nat /\ i + 0 \in DOMAIN resp /\ resp'[i] = resp[i + 0]
      BY <1>1, <2>2, QueueForms
    <3>2. \/ lastResp' = lastResp
          \/ /\ lastResp' <= nextResp
             /\ \A i \in DOMAIN actor' : actor'[i].type = "RelayResponse" => lastResp' < actor'[i].n
             /\ \A i \in DOMAIN resp' : resp'[i].type = "Payload" => lastResp' < resp'[i].n
      BY <2>1, <2>2 DEF Ordered
    <3> QED
      BY <1>1, <2>1, <2>2, <3>1, <3>2, OrderedShift
  <2>3. CASE HandleSend \/ HandleHeartbeat
    BY <2>1, <2>2, <2>3 DEF HandleSend, HandleHeartbeat, life, relay
  <2>4. CASE HandleResponse
    <3>1. Head(actor).type = "RelayResponse"
      BY <2>4 DEF HandleResponse
    <3>2. CASE Receive(Head(actor).n) /\ UNCHANGED relay
      BY <2>2, <3>1, <3>2 DEF Receive, relay
    <3>3. CASE ReceiveErr
      BY <1>6, <2>2, <3>3 DEF ReceiveErr
    <3> QED
      BY <2>4, <3>2, <3>3 DEF HandleResponse
  <2>5. CASE HandleStop \/ HandleReconnect
    BY <2>2, <2>5 DEF HandleStop, HandleReconnect, Leave
  <2> QED
    BY <1>12, <2>3, <2>4, <2>5 DEF HandleActor
<1>13. CASE StreamPayload
  <2>1. CASE ReceiveErr
    BY <1>3, <1>6, <1>13, <2>1 DEF StreamPayload, ReceiveErr
  <2>2. CASE ~ReceiveErr
    <3>1. /\ phase = "polled" /\ resp # <<>> /\ Head(resp).type = "Payload"
          /\ lastResp' = Head(resp).n /\ phase' = "connected" /\ resp' = Tail(resp)
          /\ UNCHANGED <<actor, nextResp>>
      BY <1>13, <2>2 DEF StreamPayload, Receive
    <3>2. /\ 1 \in DOMAIN resp /\ Head(resp) = resp[1]
          /\ \A i \in DOMAIN resp' : /\ i \in Nat /\ i + 1 \in DOMAIN resp
                                     /\ resp'[i] = resp[i + 1] /\ 1 < i + 1
      BY <1>1, <3>1, QueueForms
    <3>3. \A i \in DOMAIN actor' : /\ i \in Nat /\ i + 0 \in DOMAIN actor
                                   /\ actor'[i] = actor[i + 0]
                                   /\ actor'[i].type # "RelayResponse"
      BY <1>1, <3>1, QueueForms DEF Ordered
    <3>4. /\ lastResp' <= nextResp
          /\ \A i \in DOMAIN resp' : resp'[i].type = "Payload" => lastResp' < resp'[i].n
      BY <3>1, <3>2 DEF Ordered
    <3> QED
      BY <1>1, <3>1, <3>2, <3>3, <3>4, OrderedShift
  <2> QED
    BY <2>1, <2>2
<1>14. \A t \in {"Send", "Stop", "Heartbeat", "Reconnect"} :
         \E w \in Msg : w = [type |-> t, n |-> 0] /\ w.type # "RelayResponse"
  <2> TAKE t \in {"Send", "Stop", "Heartbeat", "Reconnect"}
  <2>1. [type |-> t, n |-> 0] \in Msg
    BY DEF Msg
  <2> QED
    BY <2>1
<1>15. CASE HeartbeatTick
  <2>1. UNCHANGED <<phase, resp, lastResp, nextResp>>
    BY <1>15 DEF HeartbeatTick, life, relay
  <2>2. actor' = actor \/ \E w \in Msg : w.type # "RelayResponse" /\ actor' = Append(actor, w)
    BY <1>14, <1>15 DEF HeartbeatTick
  <2> QED
    BY <1>2, <1>5, <2>1, <2>2
<1>16. CASE Client
  <2>1. UNCHANGED <<phase, resp, lastResp, nextResp>>
    BY <1>16 DEF Client, ClientSend, ClientStop, ClientReconnect, DropClients, life, relay
  <2>2. actor' = actor \/ \E w \in Msg : w.type # "RelayResponse" /\ actor' = Append(actor, w)
    BY <1>14, <1>16 DEF Client, ClientSend, ClientStop, ClientReconnect, DropClients, Tell
  <2> QED
    BY <1>2, <1>5, <2>1, <2>2
<1>17. CASE (\E s \in Streams : NetPull(s) \/ NetDrop(s) \/ Forward(s)) \/ RelayEnd
  BY <1>2, <1>17 DEF NetPull, NetDrop, Forward, RelayEnd, life, relay
<1>18. CASE RelayAnswer
  <2>1. \A t \in {"Accepted", "Rejected"} :
          \E w \in Response : w = [type |-> t, n |-> 0] /\ w.type # "Payload"
    <3> TAKE t \in {"Accepted", "Rejected"}
    <3>1. [type |-> t, n |-> 0] \in Response
      BY DEF Response
    <3> QED
      BY <3>1
  <2>2. PICK w \in Response : w.type # "Payload" /\ resp' = Append(resp, w)
    BY <1>18, <2>1 DEF RelayAnswer
  <2>3. \A i \in DOMAIN resp' : i \in Nat /\
          (resp'[i].type = "Payload" => i + 0 \in DOMAIN resp /\ resp'[i] = resp[i + 0])
    BY <1>1, <2>2, QueueForms
  <2>4. /\ \A i \in DOMAIN actor' : i \in Nat /\ i + 0 \in DOMAIN actor /\ actor'[i] = actor[i + 0]
        /\ UNCHANGED <<lastResp, nextResp, phase>>
    BY <1>1, <1>18, QueueForms DEF RelayAnswer, life
  <2> QED
    BY <1>1, <2>3, <2>4, OrderedShift
<1>19. CASE RelayPayload
  <2>1. nextResp \in Nat /\ lastResp \in Nat /\ nextResp' = nextResp + 1
    BY <1>19, AttemptsAssumption DEF RelayPayload, TypeOK
  <2>2. PICK w \in Response : /\ w.type = "Payload" /\ w.n = nextResp + 1
                              /\ resp' = Append(resp, w)
    <3>1. [type |-> "Payload", n |-> nextResp + 1] \in Response
      BY <2>1 DEF Response
    <3> QED
      BY <1>19, <3>1 DEF RelayPayload
  <2>3. UNCHANGED <<actor, lastResp, phase>>
    BY <1>19 DEF RelayPayload, life
  <2>4. \A i \in DOMAIN resp' : \/ i \in DOMAIN resp /\ resp'[i] = resp[i]
                                \/ i = Len(resp) + 1 /\ resp'[i] = w
    BY <1>1, <2>2, QueueForms
  <2>5. (\A i \in DOMAIN actor : actor[i].n \in Int) /\ (\A j \in DOMAIN resp : resp[j].n \in Int)
    <3>1. \A m \in Msg : m.n \in Int
      BY DEF Msg
    <3>2. \A r \in Response : r.n \in Int
      BY DEF Response
    <3> QED
      BY <1>1, <3>1, <3>2
  <2>6. lastResp < nextResp + 1 /\ nextResp < nextResp + 1
    BY <2>1 DEF Ordered
  <2>7. (\A i \in DOMAIN actor : actor[i].type = "RelayResponse" =>
           lastResp < actor[i].n /\ actor[i].n <= nextResp)'
    BY <2>1, <2>3, <2>5, <2>6 DEF Ordered
  <2>8. (\A i \in DOMAIN resp : resp[i].type = "Payload" =>
           lastResp < resp[i].n /\ resp[i].n <= nextResp)'
    BY <2>1, <2>2, <2>3, <2>4, <2>5, <2>6 DEF Ordered
  <2>9. (\A i, j \in DOMAIN resp :
           i < j /\ resp[i].type = "Payload" /\ resp[j].type = "Payload" => resp[i].n < resp[j].n)'
    <3> SUFFICES ASSUME NEW i \in DOMAIN resp', NEW j \in DOMAIN resp', i < j,
                        resp'[i].type = "Payload", resp'[j].type = "Payload"
                 PROVE  resp'[i].n < resp'[j].n
      OBVIOUS
    <3>1. i \in DOMAIN resp /\ resp'[i] = resp[i]
      BY <1>1, <2>4
    <3> QED
      BY <2>1, <2>2, <2>4, <2>5, <3>1 DEF Ordered
  <2>10. (\A i \in DOMAIN actor, j \in DOMAIN resp :
            actor[i].type = "RelayResponse" /\ resp[j].type = "Payload" => actor[i].n < resp[j].n)'
    BY <2>1, <2>2, <2>3, <2>4, <2>5 DEF Ordered
  <2> QED
    BY <2>1, <2>3, <2>6, <2>7, <2>8, <2>9, <2>10 DEF Ordered
<1>20. CASE Idle \/ UNCHANGED vars
  BY <1>2, <1>20 DEF Idle, vars, life, relay
<1> QED
  BY <1>7, <1>8, <1>9, <1>10, <1>11, <1>12, <1>13, <1>15, <1>16, <1>17, <1>18, <1>19, <1>20
     DEF Next, Connect, MainLoop, Net

ConnInv == PipeKept /\ TypeOK /\ Ordered

LEMMA ConnInvAlways == Spec => []ConnInv
<1>1. Init => TypeOK
  <2> SUFFICES ASSUME Init
               PROVE  TypeOK
    OBVIOUS
  <2>1. PipeTypeOK
    BY DEF Init, PipeInit, PipeTypeOK
  <2>2. /\ {MaxSends, MaxReconnects, MaxResponses} \subseteq Nat /\ AttemptCap \in Nat \ {0}
        /\ FaultBudget \in Amount
    BY AttemptsAssumption
  <2>3. actor \in Seq(Msg) /\ resp \in Seq(Response)
    BY DEF Init
  <2>4. /\ opts \in [https : BOOLEAN, zkp : BOOLEAN] /\ phase \in Phases
        /\ cur \in Streams \cup {NoStream} /\ accepted \in BOOLEAN /\ hbStarted \in BOOLEAN
        /\ ended \in {"no", "eof", "error"} /\ held \in BOOLEAN /\ stopAt \in Nat \cup {-1}
    BY DEF Init, Phases
  <2>5. /\ connAttempts \in 1 .. AttemptCap /\ failures \in 0 .. AttemptCap /\ hbTimers \in Nat
        /\ unanswered \in Nat /\ faults \in Amount /\ nextResp \in 0 .. MaxResponses
        /\ lastResp \in 0 .. MaxResponses /\ sent \in 0 .. MaxSends /\ covered \in 0 .. MaxSends
        /\ reconnects \in 0 .. MaxReconnects
    BY <2>2 DEF Init
  <2> QED
    BY <2>1, <2>3, <2>4, <2>5 DEF TypeOK
<1>2. Init => Ordered
  BY DEF Init, Ordered
<1>3. TypeOK /\ Ordered /\ PipeKept' /\ [Next]_vars => (TypeOK /\ Ordered)'
  BY ConnTypeStep, OrderedStep DEF PipeKept
<1> QED
  BY <1>1, <1>2, <1>3, PipeKeptAlways, PTL DEF Spec, ConnInv

\* The variables keep to their types, whatever faults, reconnects and payloads there are.
THEOREM ConnectionTypeCorrect == Spec => []TypeOK
BY ConnInvAlways, PTL DEF ConnInv

\* The client handles payloads in the order in which the relay sent them, and each at most
\* once, for any number of payloads, connections and faults.
THEOREM ResponsesOrdered == Spec => []ResponsesInOrder
<1>1. TypeOK /\ Ordered => ResponsesInOrder
  <2> SUFFICES ASSUME TypeOK, Ordered
               PROVE  ResponsesInOrder
    OBVIOUS
  <2> DEFINE q == actor \o resp
             Carries(m) == m.type \in {"RelayResponse", "Payload"}
  <2>1. actor \in Seq(Msg) /\ resp \in Seq(Response)
    BY DEF TypeOK
  <2>2. \A i \in DOMAIN q : \/ i \in DOMAIN actor /\ q[i] = actor[i]
                            \/ /\ i - Len(actor) \in DOMAIN resp /\ q[i] = resp[i - Len(actor)]
                               /\ i > Len(actor)
    BY <2>1
  <2>3. /\ \A i \in DOMAIN actor : Carries(actor[i]) => actor[i].type = "RelayResponse"
        /\ \A i \in DOMAIN resp : Carries(resp[i]) => resp[i].type = "Payload"
    <3>1. \A m \in Msg : Carries(m) => m.type = "RelayResponse"
      BY DEF Msg
    <3>2. \A r \in Response : Carries(r) => r.type = "Payload"
      BY DEF Response
    <3> QED
      BY <2>1, <3>1, <3>2
  <2>4. \A i \in DOMAIN q : Carries(q[i]) => lastResp < q[i].n
    BY <2>2, <2>3 DEF Ordered
  <2>5. ASSUME NEW i \in DOMAIN q, NEW j \in DOMAIN q, i < j, Carries(q[i]), Carries(q[j])
        PROVE  q[i].n < q[j].n
    <3>5. i \in Nat /\ j \in Nat
      BY <2>1, <2>5
    <3> HIDE DEF q
    <3>1. CASE i \in DOMAIN actor /\ q[i] = actor[i] /\ j \in DOMAIN actor /\ q[j] = actor[j]
      BY <2>3, <2>5, <3>1 DEF Ordered
    <3>2. CASE /\ i \in DOMAIN actor /\ q[i] = actor[i]
               /\ j - Len(actor) \in DOMAIN resp /\ q[j] = resp[j - Len(actor)]
      BY <2>3, <2>5, <3>2 DEF Ordered
    <3>3. CASE /\ i - Len(actor) \in DOMAIN resp /\ q[i] = resp[i - Len(actor)]
               /\ j - Len(actor) \in DOMAIN resp /\ q[j] = resp[j - Len(actor)]
      <4> DEFINE k == i - Len(actor)
                 l == j - Len(actor)
      <4>1. k < l /\ k \in DOMAIN resp /\ l \in DOMAIN resp /\ q[i] = resp[k] /\ q[j] = resp[l]
        <5>1. i \in Int /\ j \in Int /\ Len(actor) \in Int
          BY <2>1, <3>5
        <5> QED
          BY <2>5, <3>3, <5>1
      <4>2. resp[k].type = "Payload" /\ resp[l].type = "Payload"
        BY <2>3, <2>5, <4>1
      <4> HIDE DEF k, l
      <4> QED
        BY <4>1, <4>2 DEF Ordered
    <3>4. ~(i > Len(actor) /\ j \in DOMAIN actor)
      BY <2>1, <2>5
    <3> QED
      BY <2>2, <3>1, <3>2, <3>3, <3>4
  <2> QED
    BY <2>4, <2>5 DEF ResponsesInOrder
<1> QED
  BY <1>1, ConnInvAlways, PTL DEF ConnInv
-----------------------------------------------------------------------------
(* Messages in the actor's queue *)

Count(q, t, p) == Cardinality({i \in 1 .. p : q[i].type = t})

LEMMA CountNat ==
  ASSUME NEW q, NEW t, NEW p \in Nat
  PROVE  /\ IsFiniteSet({i \in 1 .. p : q[i].type = t})
         /\ Count(q, t, p) \in Nat
         /\ p = 0 => Count(q, t, p) = 0
<1>1. IsFiniteSet(1 .. p)
  BY FS_Interval
<1>2. IsFiniteSet({i \in 1 .. p : q[i].type = t})
  BY <1>1, FS_Subset
<1>3. p = 0 => {i \in 1 .. p : q[i].type = t} = {}
  OBVIOUS
<1> QED
  BY <1>2, <1>3, FS_CardinalityType, FS_EmptySet DEF Count

LEMMA CountTail ==
  ASSUME NEW S, NEW q \in Seq(S), q # <<>>, NEW t, NEW p \in Nat, p < Len(q)
  PROVE  Count(q, t, p + 1) = Count(Tail(q), t, p) + (IF Head(q).type = t THEN 1 ELSE 0)
<1> DEFINE A == {i \in 1 .. p : Tail(q)[i].type = t}
           B == {i \in 2 .. p + 1 : q[i].type = t}
           C == {i \in 1 .. p + 1 : q[i].type = t}
           f == [i \in A |-> i + 1]
<1>1. IsFiniteSet(A)
  BY CountNat
<1>2. \A i \in 1 .. p : Tail(q)[i] = q[i + 1]
  OBVIOUS
<1>3. f \in Bijection(A, B)
  <2>1. \A i \in A : i + 1 \in B
    BY <1>2
  <2>2. \A j \in B : j - 1 \in A /\ f[j - 1] = j
    BY <1>2
  <2>3. \A i, j \in A : f[i] = f[j] => i = j
    OBVIOUS
  <2>4. f \in [A -> B]
    BY <2>1
  <2> HIDE DEF f, A, B
  <2>5. \A j \in B : \E i \in A : f[i] = j
    BY <2>2
  <2> QED
    BY <2>3, <2>4, <2>5 DEF Bijection, Injection, Surjection, IsInjective
<1>4. IsFiniteSet(B) /\ Cardinality(B) = Cardinality(A)
  BY <1>1, <1>3, FS_Bijection DEF ExistsBijection
<1>5. C = IF Head(q).type = t THEN B \cup {1} ELSE B
  BY DEF B, C
<1>6. 1 \notin B
  OBVIOUS
<1> HIDE DEF B
<1>7. Cardinality(B \cup {1}) = Cardinality(B) + 1
  BY <1>4, <1>6, FS_AddElement
<1>8. Cardinality(A) \in Nat
  BY <1>1, FS_CardinalityType
<1>9. Count(q, t, p + 1) = Cardinality(C) /\ Count(Tail(q), t, p) = Cardinality(A)
  BY DEF Count
<1> HIDE DEF A, C
<1>10. CASE Head(q).type = t
  BY <1>4, <1>5, <1>7, <1>8, <1>9, <1>10
<1>11. CASE Head(q).type # t
  <2>1. C = B
    BY <1>5, <1>11
  <2> QED
    BY <1>4, <1>8, <1>9, <1>11, <2>1
<1> QED
  BY <1>10, <1>11

LEMMA CountAppend ==
  ASSUME NEW S, NEW q \in Seq(S), NEW w \in S, NEW t
  PROVE  /\ \A p \in 0 .. Len(q) : Count(Append(q, w), t, p) = Count(q, t, p)
         /\ Count(Append(q, w), t, Len(q) + 1)
              = Count(q, t, Len(q)) + (IF w.type = t THEN 1 ELSE 0)
<1>1. \A i \in 1 .. Len(q) : Append(q, w)[i] = q[i]
  OBVIOUS
<1>2. Append(q, w)[Len(q) + 1] = w /\ Len(q) \in Nat
  OBVIOUS
<1> DEFINE r == Append(q, w)
<1> HIDE DEF r
<1>3. \A p \in 0 .. Len(q) : {i \in 1 .. p : r[i].type = t} = {i \in 1 .. p : q[i].type = t}
  BY <1>1, <1>2 DEF r
<1> DEFINE A == {i \in 1 .. Len(q) : q[i].type = t}
           C == {i \in 1 .. Len(q) + 1 : r[i].type = t}
<1>4. C = IF w.type = t THEN A \cup {Len(q) + 1} ELSE A
  BY <1>1, <1>2 DEF r
<1>5. Len(q) + 1 \notin A
  BY <1>2
<1>6. IsFiniteSet(A)
  BY <1>2, CountNat
<1> HIDE DEF A
<1>7. Cardinality(A \cup {Len(q) + 1}) = Cardinality(A) + 1 /\ Cardinality(A) \in Nat
  BY <1>5, <1>6, FS_AddElement, FS_CardinalityType
<1>8. Cardinality(C) = Cardinality(A) + (IF w.type = t THEN 1 ELSE 0)
  <2> HIDE DEF C
  <2>1. CASE w.type = t
    BY <1>4, <1>7, <2>1
  <2>2. CASE w.type # t
    <3>1. C = A
      BY <1>4, <2>2
    <3> QED
      BY <1>7, <2>2, <3>1
  <2> QED
    BY <2>1, <2>2
<1> QED
  BY <1>3, <1>8 DEF Count, A, r
\* What a step of a running client does to the queue, to the heartbeat and to what is sent.
KeepsQueue == UNCHANGED <<actor, enq, hbTimers, hbStarted, sent, stopAt>>

EntersLoop ==
  /\ UNCHANGED <<actor, enq, sent, stopAt>>
  /\ hbStarted' = TRUE
  /\ hbTimers' = IF hbStarted THEN hbTimers ELSE hbTimers + 1

TakesMessage ==
  /\ actor # <<>> /\ actor' = Tail(actor)
  /\ enq' = IF Head(actor).type = "Send" THEN enq + 1 ELSE enq
  /\ hbTimers' = IF Head(actor).type = "Heartbeat" THEN hbTimers + 1 ELSE hbTimers
  /\ Head(actor).type = "Stop" => Terminal'
  /\ UNCHANGED <<hbStarted, sent, stopAt>>

QueuesMessage(w) ==
  /\ actor' = Append(actor, w)
  /\ sent' = IF w.type = "Send" THEN sent + 1 ELSE sent
  /\ stopAt' = IF w.type = "Stop" THEN sent ELSE stopAt
  /\ w.type = "Stop" => stopAt = -1
  /\ hbTimers' = IF w.type = "Heartbeat" THEN hbTimers - 1 ELSE hbTimers
  /\ UNCHANGED <<enq, hbStarted>>

LEMMA QueueStep ==
  ASSUME TypeOK, [Next]_vars, Running
  PROVE  KeepsQueue \/ EntersLoop \/ TakesMessage \/ \E w \in Msg : QueuesMessage(w)
<1> USE DEF life, beat, user, pipe
<1>1. actor \in Seq(Msg) /\ resp \in Seq(Response)
  BY DEF TypeOK
<1>2. CancelCur => enq' = enq
  BY DEF CancelCur, Cancel
<1>3. Fail /\ OnlyConnection => KeepsQueue
  BY <1>2 DEF Fail, OnlyConnection, KeepsQueue
<1>4. CASE ValidateEndpoint \/ Backoff \/ PollActor
  BY <1>4 DEF ValidateEndpoint, Backoff, PollActor, OnlyPhase, OnlyConnection, KeepsQueue
<1>5. CASE \/ DialError \/ HandshakeRejected \/ HandshakeStatus \/ HandshakeTimeout \/ StreamEnd
  BY <1>3, <1>5 DEF DialError, HandshakeRejected, HandshakeStatus, HandshakeTimeout, StreamEnd
<1>6. CASE DialOk
  BY <1>6 DEF DialOk, Put, OnlyConnection, KeepsQueue
<1>7. CASE \E s \in Streams : OpenStream(s)
  BY <1>7 DEF OpenStream, New, KeepsQueue
<1>8. CASE HandshakeAccepted \/ HandshakeEof
  BY <1>8 DEF HandshakeAccepted, HandshakeEof, EnterLoop, EntersLoop
<1>9. CASE HandshakeEarly
  <2>1. /\ actor' = Append(actor, [type |-> "RelayResponse", n |-> Head(resp).n])
        /\ resp # <<>> /\ Head(resp).type = "Payload"
        /\ UNCHANGED <<enq, hbTimers, hbStarted, sent, stopAt>>
    BY <1>9 DEF HandshakeEarly
  <2>2. Head(resp) \in Response
    BY <1>1, <2>1, QueueForms
  <2>3. [type |-> "RelayResponse", n |-> Head(resp).n] \in Msg
    BY <2>1, <2>2 DEF Response, Msg
  <2>4. PICK w \in Msg : w.type = "RelayResponse" /\ actor' = Append(actor, w)
    BY <2>1, <2>3
  <2> QED
    BY <2>1, <2>4 DEF QueuesMessage
<1>10. CASE HandleActor
  <2>1. actor # <<>> /\ actor' = Tail(actor) /\ UNCHANGED <<sent, stopAt>>
    BY <1>10 DEF HandleActor
  <2>2. CASE HandleSend \/ HandleHeartbeat
    BY <2>1, <2>2 DEF HandleSend, HandleHeartbeat, Put, TakesMessage
  <2>3. CASE HandleResponse
    <3>1. Head(actor).type = "RelayResponse" /\ UNCHANGED <<hbTimers, hbStarted>> /\ enq' = enq
      BY <1>2, <2>3 DEF HandleResponse, Receive, ReceiveErr, Fail
    <3> QED
      BY <2>1, <3>1 DEF TakesMessage
  <2>4. CASE HandleStop \/ HandleReconnect
    BY <1>2, <2>1, <2>4 DEF HandleStop, HandleReconnect, TakesMessage, Terminal
  <2> QED
    BY <1>10, <2>2, <2>3, <2>4 DEF HandleActor
<1>11. CASE StreamPayload
  BY <1>2, <1>11 DEF StreamPayload, Receive, ReceiveErr, Fail, KeepsQueue
<1>12. CASE StreamOther
  BY <1>12 DEF StreamOther, KeepsQueue
<1>13. ASSUME NEW t \in {"Send", "Stop", "Heartbeat", "Reconnect"}
       PROVE  [type |-> t, n |-> 0] \in Msg
  BY DEF Msg
<1>14. CASE HeartbeatTick
  <2>1. PICK w \in Msg : w.type = "Heartbeat" /\ actor' = Append(actor, w)
    BY <1>13, <1>14 DEF HeartbeatTick
  <2> QED
    BY <1>14, <2>1 DEF HeartbeatTick, QueuesMessage
<1>15. CASE ClientSend
  <2>1. PICK w \in Msg : w.type = "Send" /\ actor' = Append(actor, w)
    BY <1>13, <1>15 DEF ClientSend, Tell
  <2> QED
    BY <1>15, <2>1 DEF ClientSend, QueuesMessage
<1>16. CASE ClientStop
  <2>1. PICK w \in Msg : w.type = "Stop" /\ actor' = Append(actor, w)
    BY <1>13, <1>16 DEF ClientStop, Tell
  <2> QED
    BY <1>16, <2>1 DEF ClientStop, QueuesMessage
<1>17. CASE ClientReconnect
  <2>1. PICK w \in Msg : w.type = "Reconnect" /\ actor' = Append(actor, w)
    BY <1>13, <1>17 DEF ClientReconnect, Tell
  <2> QED
    BY <1>17, <2>1 DEF ClientReconnect, QueuesMessage
<1>18. CASE DropClients
  BY <1>18 DEF DropClients, KeepsQueue
<1>19. CASE \E s \in Streams : NetPull(s) \/ NetDrop(s) \/ Forward(s)
  BY <1>19 DEF NetPull, NetDrop, Forward, Pull, DropBody, TaskStep, CheckToken, Recv, Park, Push,
               SendErr, KeepsQueue
<1>20. CASE RelayAnswer \/ RelayPayload \/ RelayEnd
  BY <1>20 DEF RelayAnswer, RelayPayload, RelayEnd, KeepsQueue
<1>21. CASE Idle \/ UNCHANGED vars
  BY <1>21 DEF Idle, vars, KeepsQueue
<1> QED
  BY <1>4, <1>5, <1>6, <1>7, <1>8, <1>9, <1>10, <1>11, <1>12, <1>14, <1>15, <1>16, <1>17, <1>18,
     <1>19, <1>20, <1>21 DEF Next, Connect, MainLoop, Client, Net

\* A client that has ended stays so and puts nothing on a call.
LEMMA TerminalStep ==
  ASSUME [Next]_vars, Terminal
  PROVE  Terminal' /\ UNCHANGED <<enq, sent, stopAt>>
<1> USE DEF life, user, pipe, Terminal, Running
<1>1. CASE Connect \/ MainLoop
  BY <1>1 DEF Connect, MainLoop, ValidateEndpoint, DialError, DialOk, OpenStream, HandshakeAccepted,
              HandshakeRejected, HandshakeEarly, HandshakeEof, HandshakeStatus, HandshakeTimeout,
              Backoff, HandleActor, PollActor, StreamPayload, StreamOther, StreamEnd
<1>2. CASE HeartbeatTick \/ Client
  BY <1>2 DEF HeartbeatTick, Client, ClientSend, ClientStop, ClientReconnect, DropClients
<1>3. CASE \E s \in Streams : NetPull(s) \/ NetDrop(s) \/ Forward(s)
  BY <1>3 DEF NetPull, NetDrop, Forward, Pull, DropBody, TaskStep, CheckToken, Recv, Park, Push,
              SendErr
<1>4. CASE RelayAnswer \/ RelayPayload \/ RelayEnd
  BY <1>4 DEF RelayAnswer, RelayPayload, RelayEnd
<1>5. CASE Idle \/ UNCHANGED vars
  BY <1>5 DEF Idle, vars
<1> QED
  BY <1>1, <1>2, <1>3, <1>4, <1>5 DEF Next, Net
LEMMA BeatStep ==
  ASSUME TypeOK, OneHeartbeatChain, [Next]_vars
  PROVE  OneHeartbeatChain'
<1> DEFINE beats == Count(actor, "Heartbeat", Len(actor))
<1>1. /\ \A q \in Seq(Msg) : Len(q) \in Nat /\ DOMAIN q = 1 .. Len(q)
      /\ actor \in Seq(Msg) /\ hbTimers \in Nat
  BY DEF TypeOK
<1>2. actor' \in Seq(Msg) => Cardinality(Heartbeats') = beats'
  BY <1>1 DEF Heartbeats, Count
<1>3. Running => hbTimers + beats = IF hbStarted THEN 1 ELSE 0
  BY <1>1 DEF OneHeartbeatChain, Heartbeats, Count
<1>4. beats \in Nat
  BY <1>1, CountNat
<1> SUFFICES ASSUME Running'
             PROVE  hbTimers' + Cardinality(Heartbeats') = IF hbStarted' THEN 1 ELSE 0
  BY DEF OneHeartbeatChain
<1>5. Running
  BY TerminalStep DEF Running
<1>6. CASE KeepsQueue
  BY <1>6, <1>5 DEF KeepsQueue, OneHeartbeatChain, Heartbeats
<1>7. CASE EntersLoop
  <2>1. Heartbeats' = Heartbeats /\ hbStarted' = TRUE
    BY <1>7 DEF EntersLoop, Heartbeats
  <2>2. hbTimers' + Cardinality(Heartbeats) = 1
    <3>1. hbTimers + Cardinality(Heartbeats) = IF hbStarted THEN 1 ELSE 0
      BY <1>5 DEF OneHeartbeatChain
    <3>2. Cardinality(Heartbeats) = beats
      BY <1>1 DEF Heartbeats, Count
    <3> HIDE DEF beats
    <3> QED
      BY <1>1, <1>4, <1>7, <3>1, <3>2 DEF EntersLoop
  <2> QED
    BY <2>1, <2>2
<1>8. CASE TakesMessage
  <2>1. actor' = Tail(actor) /\ actor' \in Seq(Msg) /\ Len(actor') = Len(actor) - 1
        /\ Len(actor') \in Nat /\ Len(actor') < Len(actor)
    BY <1>1, <1>8 DEF TakesMessage
  <2>2. beats = beats' + (IF Head(actor).type = "Heartbeat" THEN 1 ELSE 0)
    <3>1. \A p \in Nat : p < Len(actor) =>
            Count(actor, "Heartbeat", p + 1)
              = Count(Tail(actor), "Heartbeat", p) + (IF Head(actor).type = "Heartbeat" THEN 1 ELSE 0)
      BY <1>1, <1>8, CountTail DEF TakesMessage
    <3>2. Len(actor') + 1 = Len(actor)
      BY <1>1, <2>1
    <3> QED
      BY <2>1, <3>1, <3>2
  <2>3. beats' \in Nat
    BY <2>1, CountNat
  <2>4. hbTimers' = hbTimers + (IF Head(actor).type = "Heartbeat" THEN 1 ELSE 0)
        /\ hbStarted' = hbStarted
    BY <1>1, <1>8 DEF TakesMessage
  <2>5. Cardinality(Heartbeats') = beats'
    BY <1>2, <2>1
  <2>6. PICK b : b = beats
    OBVIOUS
  <2>7. PICK c : c = beats'
    OBVIOUS
  <2> HIDE DEF beats
  <2>8. hbTimers + b = IF hbStarted THEN 1 ELSE 0
    BY <1>3, <1>5, <2>6
  <2>9. /\ b \in Nat /\ c \in Nat /\ hbTimers \in Nat
        /\ \/ b = c + 1 /\ hbTimers' = hbTimers + 1
           \/ b = c /\ hbTimers' = hbTimers
    <3>1. b \in Nat /\ c \in Nat /\ hbTimers \in Nat
      BY <1>1, <1>4, <2>3, <2>6, <2>7
    <3>2. CASE Head(actor).type = "Heartbeat"
      <4>1. b = c + 1
        BY <2>2, <2>6, <2>7, <3>2
      <4>2. hbTimers' = hbTimers + 1
        BY <2>4, <3>2
      <4> QED
        BY <3>1, <4>1, <4>2
    <3>3. CASE Head(actor).type # "Heartbeat"
      <4>1. b = c + 0
        BY <2>2, <2>6, <2>7, <3>3
      <4>2. hbTimers' = hbTimers + 0
        BY <2>4, <3>3
      <4> QED
        BY <3>1, <4>1, <4>2
    <3> QED
      BY <3>2, <3>3
  <2>10. hbTimers' + c = hbTimers + b
    BY <2>9
  <2> QED
    BY <2>4, <2>5, <2>7, <2>8, <2>10
<1>9. CASE \E w \in Msg : QueuesMessage(w)
  <2>1. PICK w \in Msg : QueuesMessage(w)
    BY <1>9
  <2>2. actor' = Append(actor, w) /\ actor' \in Seq(Msg) /\ Len(actor') = Len(actor) + 1
    BY <1>1, <2>1 DEF QueuesMessage
  <2>3. beats' = beats + (IF w.type = "Heartbeat" THEN 1 ELSE 0)
    BY <1>1, <2>2, CountAppend
  <2>4. hbTimers' = hbTimers - (IF w.type = "Heartbeat" THEN 1 ELSE 0) /\ hbStarted' = hbStarted
    BY <1>1, <2>1 DEF QueuesMessage
  <2>5. Cardinality(Heartbeats') = beats'
    BY <1>2, <2>2
  <2>6. PICK b : b = beats
    OBVIOUS
  <2>7. PICK c : c = beats'
    OBVIOUS
  <2> HIDE DEF beats
  <2>8. hbTimers + b = IF hbStarted THEN 1 ELSE 0
    BY <1>3, <1>5, <2>6
  <2>9. /\ b \in Nat /\ hbTimers \in Nat
        /\ \/ c = b + 1 /\ hbTimers' = hbTimers - 1
           \/ c = b /\ hbTimers' = hbTimers
    <3>1. b \in Nat /\ hbTimers \in Nat
      BY <1>1, <1>4, <2>6
    <3> QED
      BY <2>3, <2>4, <2>6, <2>7, <3>1
  <2>10. hbTimers' + c = hbTimers + b
    BY <2>9
  <2> QED
    BY <2>4, <2>5, <2>7, <2>8, <2>10
<1> QED
  BY <1>5, <1>6, <1>7, <1>8, <1>9, QueueStep

\* Once the first connection is made there is exactly one heartbeat, however many connections,
\* faults and reconnects follow.
THEOREM OneHeartbeat == Spec => []OneHeartbeatChain
<1>1. Init => OneHeartbeatChain
  <2> SUFFICES ASSUME Init
               PROVE  OneHeartbeatChain
    OBVIOUS
  <2>1. Heartbeats = {}
    BY DEF Init, Heartbeats
  <2> QED
    BY <2>1, FS_EmptySet DEF Init, OneHeartbeatChain
<1> QED
  BY <1>1, BeatStep, ConnectionTypeCorrect, PTL DEF Spec

\* Every send() is in the actor's queue or has entered tonic_tx.
SendInv == Running => enq + Count(actor, "Send", Len(actor)) = sent

LEMMA SendStep ==
  ASSUME TypeOK, SendInv, [Next]_vars
  PROVE  SendInv'
<1>1. /\ \A q \in Seq(Msg) : Len(q) \in Nat /\ DOMAIN q = 1 .. Len(q)
      /\ actor \in Seq(Msg) /\ enq \in Nat /\ sent \in Nat
  <2>1. sent \in Nat
    BY AttemptsAssumption DEF TypeOK
  <2>2. enq \in Nat /\ actor \in Seq(Msg)
    BY DEF TypeOK, PipeTypeOK
  <2> QED
    BY <2>1, <2>2
<1>2. \A p \in Nat : Count(actor, "Send", p) \in Nat /\ Count(actor', "Send", p) \in Nat
  BY CountNat
<1>3. CASE Terminal
  BY <1>3, TerminalStep DEF SendInv, Running
<1>4. CASE Running /\ (KeepsQueue \/ EntersLoop)
  BY <1>4 DEF KeepsQueue, EntersLoop, SendInv
<1>5. CASE Running /\ TakesMessage
  <2>1. /\ actor # <<>> /\ actor' = Tail(actor) /\ sent' = sent
        /\ enq' = enq + (IF Head(actor).type = "Send" THEN 1 ELSE 0)
    BY <1>1, <1>5 DEF TakesMessage
  <2>2. /\ Len(actor') \in Nat /\ Len(actor') < Len(actor) /\ Len(actor') + 1 = Len(actor)
    BY <1>1, <2>1
  <2>3. Count(actor, "Send", Len(actor))
          = Count(actor', "Send", Len(actor')) + (IF Head(actor).type = "Send" THEN 1 ELSE 0)
    <3>1. \A p \in Nat : p < Len(actor) =>
            Count(actor, "Send", p + 1)
              = Count(Tail(actor), "Send", p) + (IF Head(actor).type = "Send" THEN 1 ELSE 0)
      BY <1>1, <2>1, CountTail
    <3> QED
      BY <2>1, <2>2, <3>1
  <2>4. PICK k : k = IF Head(actor).type = "Send" THEN 1 ELSE 0
    OBVIOUS
  <2>5. k \in {0, 1} /\ enq' = enq + k
        /\ Count(actor, "Send", Len(actor)) = Count(actor', "Send", Len(actor')) + k
    BY <2>1, <2>3, <2>4
  <2>6. enq + Count(actor, "Send", Len(actor)) = sent
    BY <1>5 DEF SendInv
  <2>7. enq' + Count(actor', "Send", Len(actor')) = sent'
    <3>1. PICK c \in Nat : c = Count(actor, "Send", Len(actor))
      BY <1>1, <1>2
    <3>2. PICK d \in Nat : d = Count(actor', "Send", Len(actor'))
      BY <1>2, <2>2
    <3>3. c = d + k /\ enq + c = sent
      BY <2>5, <2>6, <3>1, <3>2
    <3>4. (enq + k) + d = sent
      BY <1>1, <2>5, <3>3
    <3> QED
      BY <2>1, <2>5, <3>2, <3>4
  <2> QED
    BY <2>7 DEF SendInv
<1>6. CASE Running /\ \E w \in Msg : QueuesMessage(w)
  <2>1. PICK w \in Msg : QueuesMessage(w)
    BY <1>6
  <2>2. PICK k : k = IF w.type = "Send" THEN 1 ELSE 0
    OBVIOUS
  <2>3. k \in {0, 1} /\ actor' = Append(actor, w) /\ enq' = enq /\ sent' = sent + k
    BY <1>1, <2>1, <2>2 DEF QueuesMessage
  <2>4. Len(actor') = Len(actor) + 1
    BY <1>1, <2>3
  <2>5. Count(actor', "Send", Len(actor')) = Count(actor, "Send", Len(actor)) + k
    <3>1. Count(Append(actor, w), "Send", Len(actor) + 1)
            = Count(actor, "Send", Len(actor)) + (IF w.type = "Send" THEN 1 ELSE 0)
      BY <1>1, CountAppend
    <3> QED
      BY <2>2, <2>3, <2>4, <3>1
  <2>6. enq + Count(actor, "Send", Len(actor)) = sent
    BY <1>6 DEF SendInv
  <2>7. enq' + Count(actor', "Send", Len(actor')) = sent'
    <3>1. PICK c \in Nat : c = Count(actor, "Send", Len(actor))
      BY <1>1, <1>2
    <3>2. enq + (c + k) = sent + k
      BY <1>1, <2>3, <2>6, <3>1
    <3> QED
      BY <2>3, <2>5, <3>1, <3>2
  <2> QED
    BY <2>7 DEF SendInv
<1> QED
  BY <1>3, <1>4, <1>5, <1>6, QueueStep DEF Running

LEMMA SendAlways == Spec => []SendInv
<1>1. Init => SendInv
  <2> SUFFICES ASSUME Init
               PROVE  SendInv
    OBVIOUS
  <2>1. actor = <<>> /\ Len(actor) = 0
    BY DEF Init
  <2>2. enq = 0 /\ sent = 0
    BY DEF Init, PipeInit
  <2>3. Count(actor, "Send", 0) = 0
    BY CountNat
  <2> QED
    BY <2>1, <2>2, <2>3 DEF SendInv
<1>2. TypeOK /\ SendInv /\ [Next]_vars => SendInv'
  BY SendStep
<1> QED
  BY <1>1, <1>2, ConnectionTypeCorrect, PTL DEF Spec

\* Until stop() there is no Stop in the queue; after it, the messages before the first Stop are
\* the ones that still leave the client.
StopInv ==
  /\ stopAt # -1 => enq <= stopAt
  /\ Running /\ stopAt = -1 =>
       \A i \in DOMAIN actor : actor[i].type # "Stop"
  /\ Running /\ stopAt # -1 =>
       \E p \in DOMAIN actor : actor[p].type = "Stop" /\ enq + Count(actor, "Send", p) = stopAt

LEMMA StopStep ==
  ASSUME TypeOK, SendInv, StopInv, [Next]_vars
  PROVE  StopInv'
<1>1. /\ \A q \in Seq(Msg) : Len(q) \in Nat /\ DOMAIN q = 1 .. Len(q)
      /\ actor \in Seq(Msg) /\ enq \in Nat /\ sent \in Nat /\ stopAt \in Int
  <2>1. sent \in Nat
    BY AttemptsAssumption DEF TypeOK
  <2>2. stopAt \in Int
    BY DEF TypeOK
  <2>3. enq \in Nat /\ actor \in Seq(Msg)
    BY DEF TypeOK, PipeTypeOK
  <2> QED
    BY <2>1, <2>2, <2>3
<1>2. \A p \in Nat : Count(actor, "Send", p) \in Nat /\ Count(actor', "Send", p) \in Nat
  BY CountNat
<1>3. CASE Terminal
  BY <1>3, TerminalStep DEF StopInv, Running
<1>4. CASE Running /\ (KeepsQueue \/ EntersLoop)
  BY <1>4 DEF KeepsQueue, EntersLoop, StopInv
<1>5. CASE Running /\ TakesMessage
  <2> DEFINE k == IF Head(actor).type = "Send" THEN 1 ELSE 0
  <2>1. /\ actor # <<>> /\ actor' = Tail(actor) /\ enq' = enq + k /\ UNCHANGED <<sent, stopAt>>
        /\ Head(actor).type = "Stop" => ~Running'
    BY <1>1, <1>5 DEF TakesMessage, Running
  <2>2. /\ Len(actor') = Len(actor) - 1 /\ Head(actor) = actor[1]
        /\ \A i \in 1 .. Len(actor') : actor'[i] = actor[i + 1]
        /\ actor' \in Seq(Msg) /\ Len(actor') \in Nat /\ DOMAIN actor' = 1 .. Len(actor')
    BY <1>1, <2>1
  <2>3. \A p \in Nat : p < Len(actor) => Count(actor, "Send", p + 1) = Count(actor', "Send", p) + k
    BY <1>1, <2>1, CountTail
  <2>4. k \in {0, 1}
    OBVIOUS
  <2>5. CASE stopAt = -1
    <3>1. \A i \in DOMAIN actor : actor[i].type # "Stop"
      BY <1>5, <2>5 DEF StopInv
    <3>2. \A i \in DOMAIN actor' : actor'[i].type # "Stop"
      BY <1>1, <2>2, <3>1
    <3> QED
      BY <2>1, <2>5, <3>2 DEF StopInv
  <2>6. CASE stopAt # -1
    <3>1. PICK p \in DOMAIN actor :
            actor[p].type = "Stop" /\ enq + Count(actor, "Send", p) = stopAt
      BY <1>5, <2>6 DEF StopInv
    <3>2. CASE p = 1
      <4>1. ~Running' /\ enq' = enq
        BY <1>1, <2>1, <2>2, <3>1, <3>2
      <4> QED
        BY <2>1, <4>1 DEF StopInv
    <3>3. CASE p # 1
      <4> DEFINE m == p - 1
      <4>1. m \in Nat /\ m < Len(actor) /\ m \in 1 .. Len(actor') /\ m + 1 = p
        BY <1>1, <2>2, <3>3
      <4> HIDE DEF m, k
      <4>2. actor'[m].type = "Stop"
        BY <2>2, <3>1, <4>1
      <4>3. enq' + Count(actor', "Send", m) = stopAt'
        BY <1>1, <1>2, <2>1, <2>3, <2>4, <3>1, <4>1
      <4>4. enq' <= stopAt'
        BY <1>1, <1>2, <2>1, <2>4, <4>1, <4>3
      <4> QED
        BY <2>1, <2>2, <2>6, <4>1, <4>2, <4>3, <4>4 DEF StopInv
    <3> QED
      BY <3>2, <3>3
  <2> QED
    BY <2>5, <2>6
<1>6. CASE Running /\ \E w \in Msg : QueuesMessage(w)
  <2>1. PICK w \in Msg : QueuesMessage(w)
    BY <1>6
  <2>2. /\ actor' = Append(actor, w) /\ enq' = enq
        /\ sent' = sent + (IF w.type = "Send" THEN 1 ELSE 0)
        /\ stopAt' = IF w.type = "Stop" THEN sent ELSE stopAt
        /\ w.type = "Stop" => stopAt = -1
    BY <1>1, <2>1 DEF QueuesMessage
  <2>3. /\ Len(actor') = Len(actor) + 1 /\ actor' \in Seq(Msg) /\ DOMAIN actor' = 1 .. Len(actor')
        /\ \A i \in 1 .. Len(actor) : actor'[i] = actor[i]
        /\ actor'[Len(actor) + 1] = w
    BY <1>1, <2>2
  <2>4. /\ \A p \in 0 .. Len(actor) : Count(actor', "Send", p) = Count(actor, "Send", p)
        /\ Count(actor', "Send", Len(actor'))
             = Count(actor, "Send", Len(actor)) + (IF w.type = "Send" THEN 1 ELSE 0)
    <3>1. /\ \A p \in 0 .. Len(actor) : Count(Append(actor, w), "Send", p) = Count(actor, "Send", p)
          /\ Count(Append(actor, w), "Send", Len(actor) + 1)
               = Count(actor, "Send", Len(actor)) + (IF w.type = "Send" THEN 1 ELSE 0)
      BY <1>1, CountAppend
    <3> QED
      BY <2>2, <2>3, <3>1
  <2>5. CASE stopAt # -1
    <3>1. PICK p \in DOMAIN actor :
            actor[p].type = "Stop" /\ enq + Count(actor, "Send", p) = stopAt
      BY <1>6, <2>5 DEF StopInv
    <3>2. p \in DOMAIN actor' /\ actor'[p] = actor[p] /\ p \in 0 .. Len(actor) /\ stopAt' = stopAt
      BY <1>1, <2>2, <2>3, <2>5
    <3>3. enq' + Count(actor', "Send", p) = stopAt'
      BY <2>2, <2>4, <3>1, <3>2
    <3> QED
      BY <2>2, <2>5, <3>1, <3>2, <3>3 DEF StopInv
  <2>6. CASE stopAt = -1 /\ w.type = "Stop"
    <3>1. enq + Count(actor, "Send", Len(actor)) = sent
      BY <1>6 DEF SendInv
    <3>2. Count(actor', "Send", Len(actor')) = Count(actor, "Send", Len(actor))
      BY <1>1, <1>2, <2>4, <2>6
    <3>3. /\ enq' + Count(actor', "Send", Len(actor')) = stopAt' /\ stopAt' = sent
          /\ Len(actor') \in DOMAIN actor' /\ actor'[Len(actor')].type = "Stop"
      BY <1>1, <2>2, <2>3, <2>6, <3>1, <3>2
    <3>4. enq' <= stopAt' /\ stopAt' # -1
      BY <1>1, <1>2, <2>2, <3>1, <3>3
    <3> QED
      BY <3>3, <3>4 DEF StopInv
  <2>7. CASE stopAt = -1 /\ w.type # "Stop"
    <3>1. \A i \in DOMAIN actor : actor[i].type # "Stop"
      BY <1>6, <2>7 DEF StopInv
    <3>2. \A i \in DOMAIN actor' : actor'[i].type # "Stop"
      BY <1>1, <2>3, <2>7, <3>1
    <3> QED
      BY <2>2, <2>7, <3>2 DEF StopInv
  <2> QED
    BY <2>5, <2>6, <2>7
<1> QED
  BY <1>3, <1>4, <1>5, <1>6, QueueStep DEF Running

LEMMA StopAlways == Spec => []StopInv
<1>1. Init => StopInv
  <2> SUFFICES ASSUME Init
               PROVE  StopInv
    OBVIOUS
  <2>1. DOMAIN actor = {} /\ stopAt = -1
    BY DEF Init
  <2> QED
    BY <2>1 DEF StopInv
<1>2. TypeOK /\ SendInv /\ StopInv /\ [Next]_vars => StopInv'
  BY StopStep
<1> QED
  BY <1>1, <1>2, ConnectionTypeCorrect, SendAlways, PTL DEF Spec

\* No message handed over after stop() leaves the client, for any number of messages, of
\* connections and of faults.
THEOREM StopIsFinal == Spec => []StopFinal
<1>1. StopInv => StopFinal
  BY DEF StopInv, StopFinal
<1> QED
  BY <1>1, StopAlways, PTL

\* While the client is connected the relay has accepted, and everything sent is covered; what has
\* entered tonic_tx always is.
CoveredInv ==
  /\ enq <= covered /\ covered <= sent
  /\ phase \in {"connected", "polled"} => accepted /\ covered = sent
  /\ accepted => phase \in {"connected", "polled"}
  /\ ended = "eof" => accepted \/ \E i \in DOMAIN resp : resp[i].type # "Payload"

LEMMA CoveredInvStep ==
  ASSUME ~EarlyEnd, TypeOK, SendInv, CoveredInv, [Next]_vars
  PROVE  CoveredInv'
<1> USE DEF life, beat, user, pipe, relay
<1>1. sent \in Int /\ covered \in Int /\ enq \in Nat /\ resp \in Seq(Response) /\ actor \in Seq(Msg)
  BY AttemptsAssumption DEF TypeOK, PipeTypeOK
<1>2. CancelCur => enq' = enq
  BY DEF CancelCur, Cancel
<1>3. ASSUME enq' = enq, sent' = sent, covered' = covered, ended' = "no", accepted' = FALSE,
             phase' \notin {"connected", "polled"}
      PROVE  CoveredInv'
  BY <1>3 DEF CoveredInv
<1>4. ASSUME Fail, sent' = sent, covered' = covered
      PROVE  CoveredInv'
  BY <1>2, <1>3, <1>4 DEF Fail, Leave
<1>5. ASSUME UNCHANGED <<sent, covered, accepted, ended, resp>>, enq' = enq,
             \/ phase' = phase
             \/ phase \notin {"connected", "polled"} /\ phase' \notin {"connected", "polled"}
             \/ phase \in {"connected", "polled"} /\ phase' \in {"connected", "polled"}
      PROVE  CoveredInv'
  BY <1>5 DEF CoveredInv
<1>6. CASE ValidateEndpoint \/ Backoff \/ PollActor
  BY <1>5, <1>6 DEF ValidateEndpoint, Backoff, PollActor, OnlyPhase, OnlyConnection
<1>7. CASE \/ DialError \/ HandshakeRejected \/ HandshakeStatus \/ HandshakeTimeout \/ StreamEnd
  BY <1>4, <1>7 DEF DialError, HandshakeRejected, HandshakeStatus, HandshakeTimeout, StreamEnd,
                    OnlyConnection
<1>8. CASE DialOk
  BY <1>5, <1>8 DEF DialOk, Put, OnlyConnection
<1>9. CASE \E s \in Streams : OpenStream(s)
  BY <1>5, <1>9 DEF OpenStream, New
<1>10. CASE HandshakeAccepted
  BY <1>1, <1>10 DEF HandshakeAccepted, EnterLoop, CoveredInv
<1>11. ASSUME resp # <<>>, resp' = Tail(resp), Head(resp).type = "Payload",
              \E i \in DOMAIN resp : resp[i].type # "Payload"
       PROVE  \E i \in DOMAIN resp' : resp'[i].type # "Payload"
  <2>1. PICK i \in DOMAIN resp : resp[i].type # "Payload"
    BY <1>11
  <2>2. i \in 1 .. Len(resp) /\ i # 1 /\ Len(resp') = Len(resp) - 1
        /\ DOMAIN resp' = 1 .. Len(resp') /\ Len(resp) \in Nat
    BY <1>1, <1>11, <2>1
  <2>3. PICK j : j = i - 1
    OBVIOUS
  <2>4. j \in DOMAIN resp' /\ resp'[j] = resp[i]
    BY <1>1, <1>11, <2>2, <2>3
  <2> QED
    BY <2>1, <2>4
<1>12. CASE HandshakeEarly
  <2>1. /\ resp # <<>> /\ resp' = Tail(resp) /\ Head(resp).type = "Payload"
        /\ UNCHANGED <<enq, sent, covered, phase, accepted, ended>>
    BY <1>12 DEF HandshakeEarly
  <2> QED
    BY <1>11, <2>1 DEF CoveredInv
<1>13. CASE HandshakeEof
  <2>1. phase = "handshake" /\ DOMAIN resp = {} /\ ended = "eof"
    BY <1>13 DEF HandshakeEof
  <2> QED
    BY <2>1 DEF CoveredInv
<1>14. CASE HandleActor
  <2>1. /\ phase = "connected" /\ actor # <<>> /\ sent' = sent /\ covered' = covered
    BY <1>14 DEF HandleActor
  <2>2. CASE HandleSend
    <3>1. enq' = enq + 1 /\ UNCHANGED <<phase, accepted, ended, resp>>
      BY <2>2 DEF HandleSend, Put
    <3>2. enq + 1 <= sent
      <4>1. PICK p \in Nat : p + 1 = Len(actor)
        <5>1. Len(actor) \in Nat \ {0} /\ Len(actor) - 1 \in Nat
          BY <1>1, <2>1
        <5> QED
          BY <5>1
      <4>2. Count(actor, "Send", p + 1) = Count(Tail(actor), "Send", p) + 1
        <5>1. p < Len(actor)
          BY <4>1
        <5> QED
          BY <1>1, <2>1, <2>2, <5>1, CountTail DEF HandleSend
      <4>3. Count(Tail(actor), "Send", p) \in Nat
        BY CountNat
      <4>4. enq + Count(actor, "Send", p + 1) = sent
        BY <2>1, <4>1 DEF SendInv, Running, Terminal
      <4> QED
        BY <1>1, <4>2, <4>3, <4>4
    <3> QED
      BY <1>1, <2>1, <3>1, <3>2 DEF CoveredInv
  <2>3. CASE HandleHeartbeat
    BY <1>5, <2>1, <2>3 DEF HandleHeartbeat, Put
  <2>4. CASE HandleResponse
    BY <1>4, <1>5, <2>1, <2>4 DEF HandleResponse, Receive, ReceiveErr
  <2>5. CASE HandleStop \/ HandleReconnect
    BY <1>2, <1>3, <2>1, <2>5 DEF HandleStop, HandleReconnect, Leave
  <2> QED
    BY <1>14, <2>2, <2>3, <2>4, <2>5 DEF HandleActor
<1>15. CASE StreamPayload
  <2>1. CASE ReceiveErr
    BY <1>4, <1>15, <2>1 DEF StreamPayload, ReceiveErr
  <2>2. CASE ~ReceiveErr
    <3>1. /\ phase = "polled" /\ phase' = "connected"
          /\ UNCHANGED <<enq, sent, covered, accepted, ended>>
      BY <1>15, <2>2 DEF StreamPayload, Receive
    <3>2. accepted /\ covered = sent /\ enq <= covered
      BY <3>1 DEF CoveredInv
    <3> QED
      BY <1>1, <3>1, <3>2 DEF CoveredInv
  <2> QED
    BY <2>1, <2>2
<1>16. CASE StreamOther
  BY <1>16 DEF StreamOther, CoveredInv
<1>17. CASE ClientSend
  <2>1. /\ UNCHANGED <<enq, phase, accepted, ended, resp>> /\ sent' = sent + 1
        /\ covered' = IF Online THEN sent + 1 ELSE covered
    BY <1>17 DEF ClientSend
  <2>2. CASE Online
    BY <1>1, <2>1, <2>2 DEF CoveredInv, Online
  <2>3. CASE ~Online
    BY <1>1, <2>1, <2>3 DEF CoveredInv, Online
  <2> QED
    BY <2>2, <2>3
<1>18. CASE HeartbeatTick \/ ClientStop \/ ClientReconnect \/ DropClients
  BY <1>5, <1>18 DEF HeartbeatTick, ClientStop, ClientReconnect, DropClients
<1>19. CASE \E s \in Streams : NetPull(s) \/ NetDrop(s) \/ Forward(s)
  BY <1>5, <1>19 DEF NetPull, NetDrop, Forward, Pull, DropBody, TaskStep, CheckToken, Recv, Park,
                     Push, SendErr
<1>20. ASSUME NEW r \in Response, resp' = Append(resp, r),
              \E i \in DOMAIN resp : resp[i].type # "Payload"
       PROVE  \E i \in DOMAIN resp' : resp'[i].type # "Payload"
  <2>1. PICK i \in DOMAIN resp : resp[i].type # "Payload"
    BY <1>20
  <2>2. i \in DOMAIN resp' /\ resp'[i] = resp[i]
    BY <1>1, <1>20, <2>1
  <2> QED
    BY <2>1, <2>2
<1>21. CASE RelayAnswer \/ RelayPayload
  BY <1>21 DEF RelayAnswer, RelayPayload, CoveredInv
<1>22. CASE RelayEnd
  BY <1>22 DEF RelayEnd, Answered, CoveredInv
<1>23. CASE Idle \/ UNCHANGED vars
  BY <1>5, <1>23 DEF Idle, vars
<1> QED
  BY <1>6, <1>7, <1>8, <1>9, <1>10, <1>12, <1>13, <1>14, <1>15, <1>16, <1>17, <1>18, <1>19, <1>21,
     <1>22, <1>23 DEF Next, Connect, MainLoop, Client, Net

\* A message sent while offline is not lost before the relay has accepted a connection, if it
\* ends no call that it has not answered.
THEOREM OfflineSurvives == ASSUME ~EarlyEnd PROVE Spec => []OfflineSendsSurvive
<1>1. Init => CoveredInv
  BY DEF Init, PipeInit, CoveredInv
<1>2. TypeOK /\ SendInv /\ CoveredInv /\ [Next]_vars => CoveredInv'
  BY CoveredInvStep
<1>3. TypeOK /\ FifoInv /\ CoveredInv => OfflineSendsSurvive
  <2> SUFFICES ASSUME TypeOK, FifoInv, CoveredInv, NEW n \in lost, n \in covered + 1 .. sent
               PROVE  FALSE
    BY DEF OfflineSendsSurvive
  <2>1. n <= enq
    BY DEF FifoInv, ChannelInv, Gone
  <2>2. enq <= covered /\ enq \in Int /\ covered \in Int /\ sent \in Int
    BY AttemptsAssumption DEF CoveredInv, TypeOK, PipeTypeOK
  <2> QED
    BY <2>1, <2>2
<1>4. Spec => []FifoInv
  BY ConnectionUsesPipe, PipeFifoInv, PTL DEF PipeDiscipline
<1> QED
  BY <1>1, <1>2, <1>3, <1>4, ConnectionTypeCorrect, SendAlways, PTL DEF Spec
=============================================================================
