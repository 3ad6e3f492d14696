---------------------- MODULE ConnectionPromiseProofs ----------------------
(***************************************************************************)
(* RelayConnection implements ConnectionPromise: every step of the client, *)
(* its actor, the forwarding tasks and the relay is a step of the promise  *)
(* or one that the holders of the client do not see.                       *)
(***************************************************************************)
EXTENDS RelayConnectionProofs

Due == Cardinality(DueReconnects)

(* What a step does to the reconnects that are due. *)

LEMMA DueFinite ==
  ASSUME actor \in Seq(Msg)
  PROVE  IsFiniteSet(DueReconnects) /\ Due \in Nat
<1>1. IsFiniteSet(1 .. Len(actor))
  BY FS_Interval
<1>2. DueReconnects \subseteq 1 .. Len(actor)
  BY DEF DueReconnects
<1> QED
  BY <1>1, <1>2, FS_Subset, FS_CardinalityType DEF Due

LEMMA DueSame ==
  ASSUME actor' = actor, Running' <=> Running
  PROVE  Due' = Due
BY DEF Due, DueReconnects

LEMMA DueOver ==
  ASSUME ~Running
  PROVE  Due = 0
<1>1. DueReconnects = {}
  BY DEF DueReconnects
<1> QED
  BY <1>1, FS_EmptySet DEF Due

LEMMA DueOverNext ==
  ASSUME ~Running'
  PROVE  Due' = 0
<1>1. DueReconnects' = {}
  BY DEF DueReconnects
<1> QED
  BY <1>1, FS_EmptySet DEF Due

LEMMA DueQueued ==
  ASSUME actor \in Seq(Msg), NEW w \in Msg, actor' = Append(actor, w), Running, Running'
  PROVE  /\ w.type # "Reconnect" => Due' = Due
         /\ (\E i \in DOMAIN actor : actor[i].type = "Stop") => Due' = Due
         /\ w.type = "Reconnect" /\ (\A i \in DOMAIN actor : actor[i].type # "Stop") =>
              Due' = Due + 1
<1>1. /\ Len(actor) \in Nat /\ DOMAIN actor = 1 .. Len(actor)
      /\ DOMAIN actor' = 1 .. Len(actor) + 1
      /\ \A i \in 1 .. Len(actor) : actor'[i] = actor[i]
      /\ actor'[Len(actor) + 1] = w
  OBVIOUS
<1>2. \A i \in 1 .. Len(actor) : i \in DueReconnects' <=> i \in DueReconnects
  BY <1>1 DEF DueReconnects
<1>3. DueReconnects \subseteq 1 .. Len(actor) /\ DueReconnects' \subseteq 1 .. Len(actor) + 1
  BY <1>1 DEF DueReconnects
<1>4. Len(actor) + 1 \in DueReconnects' <=>
        w.type = "Reconnect" /\ \A i \in DOMAIN actor : actor[i].type # "Stop"
  BY <1>1 DEF DueReconnects
<1>5. Len(actor) + 1 \notin DueReconnects
  BY <1>1, <1>3
<1>6. Cardinality(DueReconnects \cup {Len(actor) + 1}) = Due + 1
  BY <1>5, DueFinite, FS_AddElement DEF Due
<1>7. DueReconnects' = IF Len(actor) + 1 \in DueReconnects'
                         THEN DueReconnects \cup {Len(actor) + 1} ELSE DueReconnects
  <2>1. \A i \in 1 .. Len(actor) + 1 : i \in 1 .. Len(actor) \/ i = Len(actor) + 1
    BY <1>1
  <2>2. \A i \in DueReconnects' : i \in DueReconnects \/ i = Len(actor) + 1
    BY <1>2, <1>3, <2>1
  <2>3. \A i \in DueReconnects : i \in DueReconnects'
    BY <1>2, <1>3
  <2>4. CASE Len(actor) + 1 \in DueReconnects'
    <3>1. \A i : i \in DueReconnects' <=> i \in DueReconnects \cup {Len(actor) + 1}
      BY <2>2, <2>3, <2>4
    <3> QED
      BY <2>4, <3>1
  <2>5. CASE Len(actor) + 1 \notin DueReconnects'
    <3>1. \A i : i \in DueReconnects' <=> i \in DueReconnects
      BY <2>2, <2>3, <2>5
    <3> QED
      BY <2>5, <3>1
  <2> QED
    BY <2>4, <2>5
<1>8. CASE Len(actor) + 1 \in DueReconnects'
  BY <1>4, <1>6, <1>7, <1>8 DEF Due
<1>9. CASE Len(actor) + 1 \notin DueReconnects'
  BY <1>4, <1>7, <1>9 DEF Due
<1> QED
  BY <1>8, <1>9

LEMMA DueTaken ==
  ASSUME actor \in Seq(Msg), actor # <<>>, actor' = Tail(actor), Head(actor).type # "Stop",
         Running, Running'
  PROVE  Due' \in Nat /\ Due = Due' + (IF Head(actor).type = "Reconnect" THEN 1 ELSE 0)
<1> DEFINE A == DueReconnects'
           B == {i \in DueReconnects : i # 1}
           f == [i \in A |-> i + 1]
<1>1. /\ Len(actor) \in Nat \ {0} /\ DOMAIN actor = 1 .. Len(actor)
      /\ DOMAIN actor' = 1 .. Len(actor) - 1 /\ actor' \in Seq(Msg)
      /\ \A i \in 1 .. Len(actor) - 1 : actor'[i] = actor[i + 1]
      /\ Head(actor) = actor[1]
  OBVIOUS
<1>2. ASSUME NEW i \in 1 .. Len(actor) - 1
      PROVE  i \in A <=> i + 1 \in B
  <2>1. i + 1 \in 2 .. Len(actor)
    BY <1>1
  <2>2. (\A j \in 1 .. i : actor'[j].type # "Stop")
          <=> (\A j \in 1 .. i + 1 : actor[j].type # "Stop")
    <3>1. ASSUME \A j \in 1 .. i : actor'[j].type # "Stop", NEW j \in 1 .. i + 1
          PROVE  actor[j].type # "Stop"
      <4>1. CASE j = 1
        BY <1>1, <4>1
      <4>2. CASE j # 1
        <5>1. j - 1 \in 1 .. i /\ actor'[j - 1] = actor[(j - 1) + 1] /\ (j - 1) + 1 = j
          BY <1>1, <4>2
        <5> QED
          BY <3>1, <5>1
      <4> QED
        BY <4>1, <4>2
    <3>2. ASSUME \A j \in 1 .. i + 1 : actor[j].type # "Stop", NEW j \in 1 .. i
          PROVE  actor'[j].type # "Stop"
      BY <1>1, <3>2
    <3> QED
      BY <3>1, <3>2
  <2> QED
    BY <1>1, <2>1, <2>2 DEF DueReconnects
<1>3. A \subseteq 1 .. Len(actor) - 1 /\ B \subseteq 2 .. Len(actor)
  BY <1>1 DEF DueReconnects
<1>4. f \in Bijection(A, B)
  <2> HIDE DEF A, B
  <2>1. \A i \in A : i + 1 \in B
    BY <1>2, <1>3
  <2>2. \A j \in B : j - 1 \in A /\ f[j - 1] = j
    <3> SUFFICES ASSUME NEW j \in B
                 PROVE  j - 1 \in A /\ f[j - 1] = j
      OBVIOUS
    <3>1. j - 1 \in 1 .. Len(actor) - 1 /\ (j - 1) + 1 = j
      BY <1>1, <1>3
    <3>2. j - 1 \in A
      BY <1>2, <3>1
    <3> QED
      BY <3>1, <3>2
  <2>3. \A i, j \in A : f[i] = f[j] => i = j
    BY <1>1, <1>3
  <2>4. f \in [A -> B]
    BY <2>1
  <2> HIDE DEF f
  <2>5. \A j \in B : \E i \in A : f[i] = j
    BY <2>2
  <2> QED
    BY <2>3, <2>4, <2>5 DEF Bijection, Injection, Surjection, IsInjective
<1>5. IsFiniteSet(A)
  <2>1. IsFiniteSet(1 .. Len(actor) - 1)
    BY <1>1, FS_Interval
  <2> QED
    BY <1>3, <2>1, FS_Subset
<1>6. IsFiniteSet(B) /\ Cardinality(B) = Cardinality(A) /\ Cardinality(A) \in Nat
  BY <1>4, <1>5, FS_Bijection, FS_CardinalityType DEF ExistsBijection
<1>7. 1 \in DueReconnects <=> Head(actor).type = "Reconnect"
  BY <1>1 DEF DueReconnects
<1>8. 1 \notin B /\ DueReconnects = IF 1 \in DueReconnects THEN B \cup {1} ELSE B
  OBVIOUS
<1> HIDE DEF B
<1>9. Cardinality(B \cup {1}) = Cardinality(B) + 1
  BY <1>6, <1>8, FS_AddElement
<1>10. Due' = Cardinality(A)
  BY DEF Due
<1> HIDE DEF A
<1>11. CASE Head(actor).type = "Reconnect"
  BY <1>6, <1>7, <1>8, <1>9, <1>10, <1>11 DEF Due
<1>12. CASE Head(actor).type # "Reconnect"
  BY <1>6, <1>7, <1>8, <1>10, <1>12 DEF Due
<1> QED
  BY <1>11, <1>12
-----------------------------------------------------------------------------
(* What else holds of the queue and of the options. *)

\* stop() is called once.
OneStop ==
  Running => \A i, j \in DOMAIN actor : actor[i].type = "Stop" /\ actor[j].type = "Stop" => i = j

LEMMA OneStopStep ==
  ASSUME TypeOK, StopInv, OneStop, [Next]_vars
  PROVE  OneStop'
<1>1. CASE Terminal
  BY <1>1, TerminalStep DEF OneStop, Running
<1>2. actor \in Seq(Msg)
  BY DEF TypeOK
<1>3. CASE Running /\ (KeepsQueue \/ EntersLoop)
  BY <1>3 DEF KeepsQueue, EntersLoop, OneStop
<1>4. CASE Running /\ TakesMessage
  <2>1. /\ Len(actor) \in Nat \ {0} /\ DOMAIN actor = 1 .. Len(actor)
        /\ DOMAIN actor' = 1 .. Len(actor) - 1
        /\ \A i \in 1 .. Len(actor) - 1 : actor'[i] = actor[i + 1]
    BY <1>2, <1>4 DEF TakesMessage
  <2>2. ASSUME NEW i \in DOMAIN actor', NEW j \in DOMAIN actor',
               actor'[i].type = "Stop", actor'[j].type = "Stop"
        PROVE  i = j
    <3>1. i + 1 \in DOMAIN actor /\ j + 1 \in DOMAIN actor
      BY <2>1
    <3>2. i + 1 = j + 1
      BY <1>4, <2>1, <2>2, <3>1 DEF OneStop
    <3> QED
      BY <2>1, <3>2
  <2> QED
    BY <2>2 DEF OneStop
<1>5. CASE Running /\ \E w \in Msg : QueuesMessage(w)
  <2>1. PICK w \in Msg : QueuesMessage(w)
    BY <1>5
  <2>2. /\ Len(actor) \in Nat /\ DOMAIN actor = 1 .. Len(actor)
        /\ DOMAIN actor' = 1 .. Len(actor) + 1 /\ actor'[Len(actor) + 1] = w
        /\ \A i \in 1 .. Len(actor) : actor'[i] = actor[i]
    BY <1>2, <2>1 DEF QueuesMessage
  <2>3. w.type = "Stop" => \A i \in DOMAIN actor : actor[i].type # "Stop"
    BY <1>5, <2>1 DEF QueuesMessage, StopInv
  <2>4. \A i \in DOMAIN actor' : i \in DOMAIN actor \/ i = Len(actor) + 1
    BY <2>2
  <2> QED
    BY <1>5, <2>2, <2>3, <2>4 DEF OneStop
<1> QED
  BY <1>1, <1>3, <1>4, <1>5, QueueStep DEF Running

LEMMA OneStopAlways == Spec => []OneStop
<1>1. Init => OneStop
  <2>1. actor = <<>> => DOMAIN actor = {}
    OBVIOUS
  <2> QED
    BY <2>1 DEF Init, OneStop
<1> QED
  BY <1>1, OneStopStep, ConnectionTypeCorrect, StopAlways, PTL DEF Spec

\* Endpoints that are not https never get as far as a failure that counts.
Validated == phase \notin {"validate", "failed"} => opts.https

LEMMA ValidatedStep ==
  ASSUME Validated, [Next]_vars
  PROVE  Validated'
<1> USE DEF life, Validated
<1>1. ASSUME phase \notin {"validate", "failed"}, opts' = opts
      PROVE  Validated'
  BY <1>1
<1>2. ASSUME UNCHANGED <<opts, phase>>
      PROVE  Validated'
  BY <1>2
<1>3. CASE ValidateEndpoint
  BY <1>3 DEF ValidateEndpoint, OnlyPhase, OnlyConnection
<1>4. CASE Connect /\ ~ValidateEndpoint
  BY <1>1, <1>4 DEF Connect, DialError, DialOk, OpenStream, HandshakeAccepted, HandshakeRejected,
                    HandshakeEarly, HandshakeEof, HandshakeStatus, HandshakeTimeout, Backoff,
                    OnlyPhase, OnlyConnection
<1>5. CASE MainLoop
  BY <1>1, <1>5 DEF MainLoop, HandleActor, PollActor, StreamPayload, StreamOther, StreamEnd,
                    OnlyPhase, OnlyConnection
<1>6. CASE HeartbeatTick \/ Client
  BY <1>2, <1>6 DEF HeartbeatTick, Client, ClientSend, ClientStop, ClientReconnect, DropClients
<1>7. CASE Net
  BY <1>2, <1>7 DEF Net, NetPull, NetDrop, Forward, RelayAnswer, RelayPayload, RelayEnd
<1>8. CASE Idle \/ UNCHANGED vars
  BY <1>2, <1>8 DEF Idle, vars
<1> QED
  BY <1>3, <1>4, <1>5, <1>6, <1>7, <1>8 DEF Next

LEMMA ValidatedAlways == Spec => []Validated
<1>1. Init => Validated
  BY DEF Init, Validated
<1> QED
  BY <1>1, ValidatedStep, PTL DEF Spec
-----------------------------------------------------------------------------
(* The refinement, one action after the other *)

\* What holds whenever the client takes a step.
Known ==
  /\ TypeOK /\ Ordered
  /\ SendInv /\ StopInv /\ OneStop /\ GiveUpInv /\ Validated

Offline == phase \in {"dial", "request", "handshake", "backoff"}
InLoop == phase \in {"connected", "polled"}

LEMMA StatusForms ==
  /\ phase = "validate" => Status = "starting"
  /\ Offline => Status = "offline"
  /\ InLoop => Status = "online"
  /\ Terminal => Status = phase
BY DEF Status, Offline, InLoop, Terminal

LEMMA StatusFormsNext ==
  /\ Offline' => Status' = "offline"
  /\ InLoop' => Status' = "online"
  /\ Terminal' => Status' = phase'
BY DEF Status, Offline, InLoop, Terminal

\* The client is at it or not, and nothing else changes.
LEMMA PromiseUnseen ==
  ASSUME UNCHANGED <<failures, held, sent, enq, stopAt, lastResp>>, Due' = Due,
         phase' = phase \/ (Offline /\ Offline') \/ (InLoop /\ InLoop')
  PROVE  UNCHANGED Promise!vars
<1>1. Status' = Status
  BY StatusForms, StatusFormsNext DEF Status
<1>2. Left' = Left
  BY DEF Left
<1> QED
  BY <1>1, <1>2 DEF Promise!vars, Due

\* A failure.
LEMMA PromiseFail ==
  ASSUME Known, Fail, phase \in {"dial", "handshake", "connected", "polled"},
         UNCHANGED <<opts, held, sent, enq, stopAt, lastResp>>, Running' => Due' = Due
  PROVE  [Promise!Next]_Promise!vars
<1>1. opts.https
  BY DEF Known, Validated
<1>2. /\ phase' = (IF GiveUp THEN "failed" ELSE "backoff")
      /\ failures' = Bump(failures)
  BY DEF Fail
<1>3. Status \in {"offline", "online"}
  BY StatusForms DEF Offline, InLoop
<1>4. /\ GiveUp => Left = 1 /\ Left' = 0
      /\ ~GiveUp => Left # 1 /\ Left' = Decrement(Left)
  <2>1. CASE MaxAttempts = Infinite
    <3>1. ~GiveUp /\ Left = Infinite /\ Left' = Infinite
      BY <2>1 DEF GiveUp, AtMost, Left
    <3> QED
      BY <3>1 DEF Decrement, Infinite
  <2>2. CASE MaxAttempts # Infinite
    <3>1. MaxAttempts \in Nat /\ AttemptCap \in Nat /\ MaxAttempts <= AttemptCap /\ 1 <= AttemptCap
      BY <2>2, AttemptsAssumption DEF Amount
    <3>2. failures \in Nat /\ failures < Limit /\ connAttempts = failures + 1
      BY <1>1, <2>2 DEF Known, GiveUpInv
    <3>3. Limit \in Nat /\ Limit <= AttemptCap
      BY <3>1 DEF Limit
    <3>4. failures' = failures + 1
      BY <1>2, <3>1, <3>2, <3>3 DEF Bump
    <3>5. Left = Limit - failures /\ Left' = Limit - failures'
      BY <2>2 DEF Left, Limit
    <3>6. GiveUp <=> MaxAttempts <= failures + 1
      BY <2>2, <3>2 DEF GiveUp, AtMost
    <3>7. GiveUp <=> Limit = failures + 1
      BY <3>1, <3>2, <3>3, <3>6 DEF Limit
    <3>8. Left > 0
      BY <3>2, <3>3, <3>5
    <3> QED
      BY <3>2, <3>3, <3>4, <3>5, <3>7, <3>8 DEF Decrement
  <2> QED
    BY <2>1, <2>2
<1>5. CASE GiveUp
  <2>1. Terminal' /\ ~Running' /\ Status' = "failed"
    BY <1>2, <1>5, StatusFormsNext DEF Terminal, Running
  <2>2. Due' = 0
    BY <2>1, DueOverNext
  <2>3. Promise!GiveUp
    BY <1>3, <1>4, <1>5, <2>1, <2>2 DEF Promise!GiveUp, Promise!Become, Due
  <2> QED
    BY <2>3 DEF Promise!Next
<1>6. CASE ~GiveUp
  <2>1. Running' /\ Status' = "offline"
    BY <1>2, <1>6, StatusFormsNext DEF Terminal, Running, Offline
  <2>2. Promise!Lose
    BY <1>3, <1>4, <1>6, <2>1
    DEF Promise!Lose, Promise!Become, Promise!Decrement, Decrement, Due
  <2> QED
    BY <2>2 DEF Promise!Next
<1> QED
  BY <1>5, <1>6

\* The messages of the queue, as a loop of the actor takes them.
LEMMA PromiseHandle ==
  ASSUME Known, Known', HandleActor
  PROVE  [Promise!Next]_Promise!vars
<1> USE DEF life, user
<1>1. /\ actor \in Seq(Msg) /\ enq \in Nat /\ sent \in Int /\ stopAt \in Int /\ lastResp \in Int
      /\ lastResp' \in Nat
  BY AttemptsAssumption DEF Known, TypeOK, PipeTypeOK
<1>2. /\ phase = "connected" /\ actor # <<>> /\ actor' = Tail(actor)
      /\ UNCHANGED <<opts, held, sent, stopAt>>
  BY DEF HandleActor
<1>3. Running /\ InLoop /\ Status = "online"
  BY <1>2, StatusForms DEF Running, Terminal, InLoop
<1>4. Head(actor) = actor[1] /\ 1 \in DOMAIN actor /\ DOMAIN actor \subseteq Nat
      /\ Len(actor) \in Nat
  BY <1>1, <1>2
<1>5. CancelCur => enq' = enq
  BY DEF CancelCur, Cancel, pipe
<1>6. CASE HandleSend
  <2>1. /\ Head(actor).type = "Send" /\ enq' = enq + 1
        /\ UNCHANGED <<phase, failures, lastResp>>
    BY <1>6 DEF HandleSend, Put
  <2>2. Running' /\ Status' = Status /\ Left' = Left
    BY <1>3, <2>1 DEF Running, Terminal, Status, Left
  <2>3. Due' = Due
    BY <1>1, <1>2, <1>3, <2>1, <2>2, DueTaken
  <2>4. enq < sent
    <3>1. enq' + Count(actor', "Send", Len(actor')) = sent'
      BY <2>2 DEF Known, SendInv
    <3>2. actor' \in Seq(Msg) /\ Len(actor') \in Nat
      BY <1>1, <1>2
    <3>3. Count(actor', "Send", Len(actor')) \in Nat
      <4>1. PICK q, p : q = actor' /\ p = Len(actor') /\ p \in Nat
        BY <3>2
      <4>2. Count(q, "Send", p) \in Nat
        BY <4>1, CountNat
      <4> QED
        BY <4>1, <4>2
    <3> QED
      BY <1>1, <1>2, <2>1, <3>1, <3>3
  <2>5. stopAt # -1 => enq < stopAt
    BY <1>1, <1>2, <2>1 DEF Known, StopInv
  <2>6. Promise!Take
    BY <1>2, <1>3, <2>1, <2>2, <2>3, <2>4, <2>5 DEF Promise!Take, Due
  <2> QED
    BY <2>6 DEF Promise!Next
<1>7. CASE HandleHeartbeat
  <2>1. /\ Head(actor).type = "Heartbeat"
        /\ UNCHANGED <<phase, failures, lastResp, enq>>
    BY <1>7 DEF HandleHeartbeat, Put
  <2>2. Due' = Due
    BY <1>1, <1>2, <1>3, <2>1, DueTaken DEF Running, Terminal
  <2> QED
    BY <1>2, <2>1, <2>2, PromiseUnseen
<1>8. CASE HandleResponse
  <2>1. Head(actor).type = "RelayResponse"
    BY <1>8 DEF HandleResponse
  <2>2. Running' => Due' = Due
    BY <1>1, <1>2, <1>3, <2>1, DueTaken
  <2>3. CASE Receive(Head(actor).n)
    <3>1. /\ held /\ lastResp' = Head(actor).n /\ phase' = "connected"
          /\ UNCHANGED <<enq, failures>>
      BY <2>3 DEF Receive, pipe
    <3>2. lastResp < Head(actor).n
      BY <1>4, <2>1 DEF Known, Ordered
    <3>3. Running' /\ Status' = Status /\ Left' = Left
      BY <1>2, <1>3, <3>1 DEF Running, Terminal, Status, Left
    <3>4. Promise!Give
      BY <1>1, <1>2, <1>3, <2>2, <3>1, <3>2, <3>3 DEF Promise!Give, Due
    <3> QED
      BY <3>4 DEF Promise!Next
  <2>4. CASE ReceiveErr
    BY <1>2, <1>5, <2>2, <2>4, PromiseFail DEF ReceiveErr, Fail
  <2> QED
    BY <1>8, <2>3, <2>4 DEF HandleResponse
<1>9. CASE HandleStop
  <2>1. /\ Head(actor).type = "Stop" /\ phase' = "stopped"
        /\ UNCHANGED <<failures, lastResp>>
    BY <1>9 DEF HandleStop
  <2>2. enq' = enq
    BY <1>5, <1>9 DEF HandleStop
  <2>3. ~Running' /\ Status' = "stopped" /\ Left' = Left
    BY <2>1, StatusFormsNext DEF Running, Terminal, Left
  <2>4. Due' = 0
    BY <2>3, DueOverNext
  <2>5. Due = 0
    <3>1. DueReconnects = {}
      BY <1>4, <2>1 DEF DueReconnects
    <3> QED
      BY <3>1, FS_EmptySet DEF Due
  <2>6. enq = stopAt
    <3>1. stopAt # -1
      BY <1>3, <1>4, <2>1 DEF Known, StopInv
    <3>2. PICK p \in DOMAIN actor :
            actor[p].type = "Stop" /\ enq + Count(actor, "Send", p) = stopAt
      BY <1>3, <3>1 DEF Known, StopInv
    <3>3. p = 1
      BY <1>3, <1>4, <2>1, <3>2 DEF Known, OneStop
    <3>4. {i \in 1 .. 1 : actor[i].type = "Send"} = {}
      BY <1>4, <2>1
    <3>5. Count(actor, "Send", 1) = 0
      BY <3>4, FS_EmptySet DEF Count
    <3> QED
      BY <1>1, <3>2, <3>3, <3>5
  <2>7. Promise!Stop
    BY <1>2, <1>3, <2>1, <2>2, <2>3, <2>4, <2>5, <2>6 DEF Promise!Stop, Promise!Become, Due
  <2> QED
    BY <2>7 DEF Promise!Next
<1>10. CASE HandleReconnect
  <2>1. /\ Head(actor).type = "Reconnect" /\ phase' = "dial"
        /\ UNCHANGED <<failures, lastResp>>
    BY <1>10 DEF HandleReconnect
  <2>2. enq' = enq
    BY <1>5, <1>10 DEF HandleReconnect
  <2>3. Running' /\ Status' = "offline" /\ Left' = Left
    BY <2>1, StatusFormsNext DEF Running, Terminal, Left, Offline
  <2>4. Due' \in Nat /\ Due = Due' + 1
    BY <1>1, <1>2, <1>3, <2>1, <2>3, DueTaken
  <2>5. Due > 0 /\ Due' = Due - 1
    <3>1. PICK d \in Nat : d = Due'
      BY <2>4
    <3>2. Due = d + 1
      BY <2>4, <3>1
    <3>3. Due > 0 /\ d = Due - 1
      BY <3>2
    <3> QED
      BY <3>1, <3>3
  <2>6. Promise!Reconnect
    BY <1>2, <1>3, <2>1, <2>2, <2>3, <2>5 DEF Promise!Reconnect, Promise!Become, Due
  <2> QED
    BY <2>6 DEF Promise!Next
<1> QED
  BY <1>6, <1>7, <1>8, <1>9, <1>10 DEF HandleActor

\* run() and connect().
LEMMA PromiseConnect ==
  ASSUME Known, Connect
  PROVE  [Promise!Next]_Promise!vars
<1> USE DEF life, user
<1>1. actor \in Seq(Msg) /\ resp \in Seq(Response)
  BY DEF Known, TypeOK
<1>2. ASSUME UNCHANGED <<failures, held, sent, enq, stopAt, lastResp, actor>>, Offline, Offline'
      PROVE  UNCHANGED Promise!vars
  <2>1. Running /\ Running'
    BY <1>2 DEF Offline, Running, Terminal
  <2> QED
    BY <1>2, <2>1, DueSame, PromiseUnseen
<1>3. CASE ValidateEndpoint
  <2>1. /\ phase = "validate" /\ phase' = (IF opts.https THEN "dial" ELSE "failed")
        /\ UNCHANGED <<failures, held, sent, enq, stopAt, lastResp, actor>>
    BY <1>3 DEF ValidateEndpoint, OnlyPhase, OnlyConnection, pipe
  <2>2. Status = "starting" /\ Running /\ Left' = Left
    BY <2>1, StatusForms DEF Running, Terminal, Left
  <2>3. CASE opts.https
    <3>1. Status' = "offline" /\ Running'
      BY <2>1, <2>3, StatusFormsNext DEF Offline, Running, Terminal
    <3>2. Due' = Due
      BY <2>1, <2>2, <3>1, DueSame
    <3>3. Promise!Start
      BY <2>1, <2>2, <3>1, <3>2 DEF Promise!Start, Promise!Become, Due
    <3> QED
      BY <3>3 DEF Promise!Next
  <2>4. CASE ~opts.https
    <3>1. Status' = "failed" /\ ~Running'
      BY <2>1, <2>4, StatusFormsNext DEF Running, Terminal
    <3>2. Due' = 0
      BY <3>1, DueOverNext
    <3>3. Promise!Refuse
      BY <2>1, <2>2, <3>1, <3>2 DEF Promise!Refuse, Promise!Become, Due
    <3> QED
      BY <3>3 DEF Promise!Next
  <2> QED
    BY <2>3, <2>4
<1>4. CASE DialError \/ HandshakeRejected \/ HandshakeStatus \/ HandshakeTimeout
  <2>1. /\ Fail /\ phase \in {"dial", "handshake"}
        /\ UNCHANGED <<opts, held, sent, stopAt, lastResp, actor>>
    BY <1>4 DEF DialError, HandshakeRejected, HandshakeStatus, HandshakeTimeout, OnlyConnection
  <2>2. enq' = enq
    BY <2>1 DEF Fail, CancelCur, Cancel, pipe
  <2>3. Running' => Due' = Due
    BY <2>1, DueSame DEF Running, Terminal
  <2> QED
    BY <2>1, <2>2, <2>3, PromiseFail
<1>5. CASE DialOk
  <2>1. /\ phase = "dial" /\ phase' \in {"panicked", "request"}
        /\ UNCHANGED <<failures, held, sent, stopAt, lastResp, actor>>
    BY <1>5 DEF DialOk, OnlyConnection
  <2>2. enq' = enq
    BY <1>5 DEF DialOk, Put, pipe
  <2>3. CASE phase' = "request"
    BY <1>2, <2>1, <2>2, <2>3 DEF Offline
  <2>4. CASE phase' = "panicked"
    <3>1. Status = "offline" /\ Status' = "panicked" /\ ~Running' /\ Left' = Left
      BY <2>1, <2>4, StatusForms, StatusFormsNext DEF Offline, Running, Terminal, Left
    <3>2. Due' = 0
      BY <3>1, DueOverNext
    <3>3. Promise!Panic
      BY <2>1, <2>2, <3>1, <3>2 DEF Promise!Panic, Promise!Become, Due
    <3> QED
      BY <3>3 DEF Promise!Next
  <2> QED
    BY <2>1, <2>3, <2>4
<1>6. CASE (\E s \in Streams : OpenStream(s)) \/ Backoff
  BY <1>2, <1>6 DEF OpenStream, New, Backoff, OnlyPhase, OnlyConnection, pipe, Offline
<1>7. CASE HandshakeAccepted \/ HandshakeEof
  <2>1. /\ phase = "handshake" /\ phase' = "connected"
        /\ UNCHANGED <<failures, held, sent, stopAt, lastResp, actor, enq>>
    BY <1>7 DEF HandshakeAccepted, HandshakeEof, EnterLoop, pipe
  <2>2. Status = "offline" /\ Status' = "online" /\ Running /\ Running' /\ Left' = Left
    BY <2>1, StatusForms, StatusFormsNext DEF Offline, InLoop, Running, Terminal, Left
  <2>3. Due' = Due
    BY <2>1, <2>2, DueSame
  <2>4. Promise!Connect
    BY <2>1, <2>2, <2>3 DEF Promise!Connect, Promise!Become, Due
  <2> QED
    BY <2>4 DEF Promise!Next
<1>8. CASE HandshakeEarly
  <2>1. /\ phase = "handshake" /\ resp # <<>> /\ Head(resp).type = "Payload"
        /\ actor' = Append(actor, [type |-> "RelayResponse", n |-> Head(resp).n])
        /\ UNCHANGED <<phase, failures, held, sent, stopAt, lastResp, enq>>
    BY <1>8 DEF HandshakeEarly, pipe
  <2>2. Head(resp) \in Response
    BY <1>1, <2>1, QueueForms
  <2>3. [type |-> "RelayResponse", n |-> Head(resp).n] \in Msg
    BY <2>1, <2>2 DEF Response, Msg
  <2>4. PICK w \in Msg : w.type = "RelayResponse" /\ actor' = Append(actor, w)
    BY <2>1, <2>3
  <2>5. Due' = Due
    BY <1>1, <2>1, <2>4, DueQueued DEF Running, Terminal
  <2> QED
    BY <2>1, <2>5, PromiseUnseen
<1> QED
  BY <1>2, <1>3, <1>4, <1>5, <1>6, <1>7, <1>8 DEF Connect

\* The second branch of the select!, and the poll that leads to it.
LEMMA PromiseStream ==
  ASSUME Known, Known', PollActor \/ StreamPayload \/ StreamOther \/ StreamEnd
  PROVE  [Promise!Next]_Promise!vars
<1> USE DEF life, user
<1>1. InLoop /\ Running /\ UNCHANGED <<opts, held, sent, stopAt, actor>>
  BY DEF PollActor, StreamPayload, StreamOther, StreamEnd, OnlyPhase, OnlyConnection, InLoop,
         Running, Terminal
<1>2. Running' => Due' = Due
  BY <1>1, DueSame
<1>3. Fail => enq' = enq
  BY DEF Fail, CancelCur, Cancel, pipe
<1>4. CASE PollActor \/ StreamOther
  <2>1. InLoop' /\ UNCHANGED <<failures, enq, lastResp>>
    BY <1>4 DEF PollActor, StreamOther, OnlyPhase, OnlyConnection, InLoop, pipe
  <2>2. Due' = Due
    BY <1>2, <2>1 DEF InLoop, Running, Terminal
  <2> QED
    BY <1>1, <2>1, <2>2, PromiseUnseen
<1>5. CASE StreamEnd
  <2>1. Fail /\ phase = "polled" /\ UNCHANGED lastResp
    BY <1>5 DEF StreamEnd, OnlyConnection
  <2> QED
    BY <1>1, <1>2, <1>3, <2>1, PromiseFail
<1>6. CASE StreamPayload
  <2>1. phase = "polled" /\ resp # <<>> /\ Head(resp).type = "Payload"
    BY <1>6 DEF StreamPayload
  <2>2. CASE ReceiveErr
    BY <1>1, <1>2, <1>3, <2>1, <2>2, PromiseFail DEF ReceiveErr
  <2>3. CASE Receive(Head(resp).n)
    <3>1. /\ held /\ lastResp' = Head(resp).n /\ phase' = "connected"
          /\ UNCHANGED <<enq, failures>>
      BY <2>3 DEF Receive, pipe
    <3>2. lastResp < Head(resp).n
      <4>1. resp \in Seq(Response)
        BY DEF Known, TypeOK
      <4>2. 1 \in DOMAIN resp /\ Head(resp) = resp[1]
        BY <2>1, <4>1
      <4> QED
        BY <2>1, <4>2 DEF Known, Ordered
    <3>3. lastResp' \in Nat
      BY AttemptsAssumption DEF Known, TypeOK
    <3>4. /\ Status = "online" /\ Status' = "online" /\ Left' = Left /\ Running'
      BY <1>1, <3>1, StatusForms, StatusFormsNext DEF InLoop, Running, Terminal, Left
    <3>5. Promise!Give
      BY <1>1, <1>2, <3>1, <3>2, <3>3, <3>4 DEF Promise!Give, Due
    <3> QED
      BY <3>5 DEF Promise!Next
  <2> QED
    BY <1>6, <2>2, <2>3 DEF StreamPayload
<1> QED
  BY <1>4, <1>5, <1>6

\* The methods of Client, and the heartbeat, which uses the same queue.
LEMMA PromiseClient ==
  ASSUME Known, Client \/ HeartbeatTick
  PROVE  [Promise!Next]_Promise!vars
<1> USE DEF life, user
<1>1. /\ actor \in Seq(Msg) /\ UNCHANGED <<phase, failures, enq, lastResp>>
      /\ (Running' <=> Running)
  BY DEF Known, TypeOK, Client, ClientSend, ClientStop, ClientReconnect, DropClients,
         HeartbeatTick, pipe, Running, Terminal
<1>2. Status' = Status /\ Left' = Left
  BY <1>1 DEF Status, Left
<1>3. Running => Status \notin {"stopped", "failed", "panicked"}
  BY DEF Status, Running, Terminal
<1>4. ASSUME NEW t \in {"Send", "Stop", "Heartbeat", "Reconnect"}
      PROVE  [type |-> t, n |-> 0] \in Msg
  BY DEF Msg
<1>5. CASE ClientSend
  <2>1. held /\ Running /\ sent' = sent + 1 /\ UNCHANGED <<held, stopAt>>
    BY <1>5 DEF ClientSend
  <2>2. PICK w \in Msg : w.type = "Send" /\ actor' = Append(actor, w)
    BY <1>4, <1>5 DEF ClientSend, Tell
  <2>3. Due' = Due
    BY <1>1, <2>1, <2>2, DueQueued
  <2>4. Promise!HandOver
    BY <1>1, <1>2, <1>3, <2>1, <2>3 DEF Promise!HandOver, Promise!Over, Due
  <2> QED
    BY <2>4 DEF Promise!Next
<1>6. CASE ClientStop
  <2>1. held /\ Running /\ stopAt = -1 /\ stopAt' = sent /\ UNCHANGED <<held, sent>>
    BY <1>6 DEF ClientStop
  <2>2. PICK w \in Msg : w.type = "Stop" /\ actor' = Append(actor, w)
    BY <1>4, <1>6 DEF ClientStop, Tell
  <2>3. Due' = Due
    BY <1>1, <2>1, <2>2, DueQueued
  <2>4. Promise!AskStop
    BY <1>1, <1>2, <1>3, <2>1, <2>3 DEF Promise!AskStop, Promise!Over, Due
  <2> QED
    BY <2>4 DEF Promise!Next
<1>7. CASE ClientReconnect
  <2>1. held /\ Running /\ UNCHANGED <<held, sent, stopAt>>
    BY <1>7 DEF ClientReconnect
  <2>2. PICK w \in Msg : w.type = "Reconnect" /\ actor' = Append(actor, w)
    BY <1>4, <1>7 DEF ClientReconnect, Tell
  <2>3. stopAt = -1 => Due' = Due + 1
    BY <1>1, <2>1, <2>2, DueQueued DEF Known, StopInv
  <2>4. stopAt # -1 => Due' = Due
    BY <1>1, <2>1, <2>2, DueQueued DEF Known, StopInv
  <2>5. Promise!AskReconnect
    BY <1>1, <1>2, <1>3, <2>1, <2>3, <2>4 DEF Promise!AskReconnect, Promise!Over, Due
  <2> QED
    BY <2>5 DEF Promise!Next
<1>8. CASE DropClients
  <2>1. held /\ ~held' /\ UNCHANGED <<sent, stopAt, actor>>
    BY <1>8 DEF DropClients
  <2>2. Due' = Due
    BY <1>1, <2>1, DueSame
  <2>3. Promise!DropHandles
    BY <1>1, <1>2, <1>8, <2>1, <2>2 DEF Promise!DropHandles, DropClients, Due
  <2> QED
    BY <2>3 DEF Promise!Next
<1>9. CASE HeartbeatTick
  <2>1. UNCHANGED <<held, sent, stopAt>>
    BY <1>9 DEF HeartbeatTick
  <2>2. CASE Running
    <3>1. PICK w \in Msg : w.type = "Heartbeat" /\ actor' = Append(actor, w)
      BY <1>4, <1>9, <2>2 DEF HeartbeatTick
    <3>2. Due' = Due
      BY <1>1, <2>2, <3>1, DueQueued
    <3> QED
      BY <1>1, <2>1, <3>2, PromiseUnseen
  <2>3. CASE ~Running
    <3>1. Due' = Due
      BY <1>1, <1>9, <2>3, DueSame DEF HeartbeatTick
    <3> QED
      BY <1>1, <2>1, <3>1, PromiseUnseen
  <2> QED
    BY <2>2, <2>3
<1> QED
  BY <1>5, <1>6, <1>7, <1>8, <1>9 DEF Client

\* RelayConnection implements ConnectionPromise, for any number of calls, messages, responses,
\* attempts and faults, and whatever the capacity of the pipe.
THEOREM ConnectionPromiseKept == Spec => KeepsConnectionPromise
<1>1. Init => Promise!Init
  <2> SUFFICES ASSUME Init
               PROVE  Promise!Init
    OBVIOUS
  <2>1. phase = "validate" /\ actor = <<>> /\ DOMAIN actor = {} /\ failures = 0
    BY DEF Init
  <2>2. Status = "starting"
    BY <2>1, StatusForms
  <2>3. Cardinality(DueReconnects) = 0
    <3>1. DueReconnects = {}
      BY <2>1 DEF DueReconnects
    <3> QED
      BY <3>1, FS_EmptySet
  <2>4. Left = IF MaxAttempts = 0 THEN 1 ELSE MaxAttempts
    BY <2>1, AttemptsAssumption DEF Left, Infinite, Amount
  <2> QED
    BY <2>2, <2>3, <2>4 DEF Init, PipeInit, Promise!Init
<1>2. ASSUME Known, Known', [Next]_vars
      PROVE  [Promise!Next]_Promise!vars
  <2>1. CASE Connect
    BY <1>2, <2>1, PromiseConnect
  <2>2. CASE MainLoop
    BY <1>2, <2>2, PromiseHandle, PromiseStream DEF MainLoop
  <2>3. CASE Client \/ HeartbeatTick
    BY <1>2, <2>3, PromiseClient
  <2>4. CASE Net \/ Idle \/ UNCHANGED vars
    <3>1. UNCHANGED <<phase, failures, held, sent, stopAt, lastResp, actor>>
      BY <2>4 DEF Net, NetPull, NetDrop, Forward, RelayAnswer, RelayPayload, RelayEnd, Idle, vars,
                  life, user
    <3>2. enq' = enq
      BY <2>4 DEF Net, NetPull, NetDrop, Forward, Pull, DropBody, TaskStep, CheckToken, Recv, Park,
                  Push, SendErr, RelayAnswer, RelayPayload, RelayEnd, Idle, vars, pipe
    <3>3. Due' = Due
      BY <3>1, DueSame DEF Running, Terminal
    <3> QED
      BY <3>1, <3>2, <3>3, PromiseUnseen
  <2> QED
    BY <1>2, <2>1, <2>2, <2>3, <2>4 DEF Next
<1>3. Spec => []Known
  BY ConnInvAlways, SendAlways, StopAlways, OneStopAlways, GiveUpAlways, ValidatedAlways, PTL
  DEF ConnInv, Known
<1> QED
  BY <1>1, <1>2, <1>3, PTL DEF Spec, KeepsConnectionPromise, Promise!Spec
=============================================================================
