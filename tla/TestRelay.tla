----------------------------- MODULE TestRelay -----------------------------
(***************************************************************************)
(* The relay that the integration tests run against: TestServer,           *)
(* ConnectedClients and relay_connect() of test-utils/src/lib.rs.          *)
(*                                                                         *)
(* A call of relay_connect() loops over an unbiased select! of two futures. *)
(* handled_replies, made anew in each round, reads a request, registers the *)
(* call if it is a ConnectRequest, waits for the lock of the test's state   *)
(* and runs the handler; rx.recv_async() takes a command that a handler has *)
(* sent.  A command that comes first drops handled_replies with the request *)
(* it has read.                                                             *)
(***************************************************************************)
EXTENDS Integers, Sequences, FiniteSets, Functions

CONSTANTS
  Calls,        \* the calls of relay_connect()
  Entities,     \* [id, namespace, entity_type], each part a sequence
  Nobody,
  Outcomes,     \* what the test's handler may do with a request: [on, do, answers]
  MaxRequests   \* bound: the requests of each call

RequestTypes == {"ConnectRequest", "Message"}

ASSUME TestRelayAssumption == Nobody \notin Calls /\ MaxRequests \in [Calls -> Nat]
ASSUME OutcomesAssumption ==
  /\ Outcomes \subseteq [on : RequestTypes, do : {"Nothing", "Send", "Terminate"}, answers : BOOLEAN]
  /\ \A t \in RequestTypes : \E o \in Outcomes : o.on = t

VARIABLES
  open,      \* the TestServer is there
  guard,     \* the test holds the lock of the state
  live,      \* live[c]: "none", "open" or "ended"
  entity,    \* entity[c]: who the client says it is
  sent,      \* sent[c]: number of requests sent
  stream,    \* stream[c]: requests on their way
  reading,   \* reading[c]: what handled_replies has read, if anything
  phase,     \* phase[c]: where handled_replies waits: "stream", "clients" or "state"
  rx,        \* rx[c]: the commands for c
  clients,   \* ConnectedClients: key to call
  inserted,  \* the calls in the order of their registration (history)
  tasks,     \* spawned send() and stop() calls
  served,    \* served[c]: commands taken (history)
  handled,   \* handled[c]: requests that the handler was run for (history)
  out        \* out[c]: what the client is sent

client == <<entity, sent, stream>>
handled_replies == <<reading, phase>>
registry == <<clients, inserted>>
history == <<served, handled>>
vars == <<open, guard, live, client, handled_replies, rx, registry, tasks, history, out>>

None == [type |-> "none"]

\* entity_key: the parts one after the other, with nothing between them.
entity_key(e) == e.id \o e.namespace \o e.entity_type

Keys == {entity_key(e) : e \in Entities}

Init ==
  /\ open = TRUE /\ guard = FALSE
  /\ live = [c \in Calls |-> "none"]
  /\ entity \in [Calls -> Entities]
  /\ sent = [c \in Calls |-> 0]
  /\ stream = [c \in Calls |-> <<>>]
  /\ reading = [c \in Calls |-> None]
  /\ phase = [c \in Calls |-> "stream"]
  /\ rx = [c \in Calls |-> <<>>]
  /\ clients = [k \in Keys |-> Nobody]
  /\ inserted = <<>>
  /\ tasks = {}
  /\ served = [c \in Calls |-> 0]
  /\ handled = [c \in Calls |-> 0]
  /\ out = [c \in Calls |-> <<>>]
-----------------------------------------------------------------------------
(* The clients and the test. *)

\* A call arrives.
Connect(c) ==
  /\ open /\ live[c] = "none"
  /\ live' = [live EXCEPT ![c] = "open"]
  /\ UNCHANGED <<open, guard, client, handled_replies, rx, registry, tasks, history, out>>

\* What a client sends: ConnectRequests, and messages (payloads and heartbeats, which the
\* server does not tell apart), in any order.  The channel that connect() puts its
\* ConnectRequest into is shared by all calls of a client, so requests that an earlier call
\* has left there, ConnectRequests among them, may come before it.
Requests(c) == [type : RequestTypes, n : {sent[c] + 1}]

Request(c, r) ==
  /\ live[c] = "open" /\ sent[c] < MaxRequests[c]
  /\ sent' = [sent EXCEPT ![c] = @ + 1]
  /\ stream' = [stream EXCEPT ![c] = Append(@, r)]
  /\ UNCHANGED <<open, guard, live, entity, handled_replies, rx, registry, tasks, history, out>>

\* Mutant of NextRound: handled_replies lives on.
NextRoundKeep(c) == UNCHANGED handled_replies

\* The round of the loop is over: handled_replies is dropped with what it has read.
NextRound(c) ==
  /\ reading' = [reading EXCEPT ![c] = None]
  /\ phase' = [phase EXCEPT ![c] = "stream"]

\* The call is over: its stream, handled_replies and rx are dropped.
End(c) ==
  /\ live' = [live EXCEPT ![c] = "ended"]
  /\ stream' = [stream EXCEPT ![c] = <<>>]
  /\ rx' = [rx EXCEPT ![c] = <<>>]
  /\ NextRound(c)

\* The client goes away: message() fails and unwrap() panics, or the call is dropped.
Leave(c) ==
  /\ live[c] = "open"
  /\ End(c)
  /\ UNCHANGED <<open, guard, entity, sent, registry, tasks, history, out>>

\* TestServer::state, and the drop of the MutexGuard.
Guard ==
  /\ open /\ ~guard
  /\ guard' = TRUE
  /\ UNCHANGED <<open, live, client, handled_replies, rx, registry, tasks, history, out>>

Release ==
  /\ guard
  /\ guard' = FALSE
  /\ UNCHANGED <<open, live, client, handled_replies, rx, registry, tasks, history, out>>

\* Drop for TestServer: the server takes no new calls.
Drop ==
  /\ open /\ ~guard
  /\ open' = FALSE
  /\ UNCHANGED <<guard, live, client, handled_replies, rx, registry, tasks, history, out>>
-----------------------------------------------------------------------------
(* relay_connect() *)

Put(c, m) == out' = [out EXCEPT ![c] = Append(@, m)]

\* Mutant of MessageReady: handled_replies is made once, before the loop.
MessageReadyOnce(c) ==
  live[c] = "open" /\ phase[c] = "stream" /\ stream[c] # <<>> /\ served[c] = 0

\* stream.message() has something.
MessageReady(c) == live[c] = "open" /\ phase[c] = "stream" /\ stream[c] # <<>>

Read(c) ==
  /\ MessageReady(c)
  /\ reading' = [reading EXCEPT ![c] = Head(stream[c])]
  /\ stream' = [stream EXCEPT ![c] = Tail(@)]
  /\ phase' = [phase EXCEPT ![c] =
                 IF Head(stream[c]).type = "ConnectRequest" THEN "clients" ELSE "state"]
  /\ UNCHANGED <<open, guard, live, entity, sent, rx, registry, tasks, history, out>>

\* Mutants of Insert: a key keeps its first call; a ConnectRequest is only registered.
InsertFirst(c) ==
  /\ phase[c] = "clients"
  /\ clients' = [clients EXCEPT ![entity_key(entity[c])] = IF @ = Nobody THEN c ELSE @]
  /\ inserted' = Append(inserted, c)
  /\ phase' = [phase EXCEPT ![c] = "state"]
  /\ UNCHANGED <<open, guard, live, client, reading, rx, tasks, history, out>>

InsertOnly(c) ==
  /\ phase[c] = "clients"
  /\ clients' = [clients EXCEPT ![entity_key(entity[c])] = c]
  /\ inserted' = Append(inserted, c)
  /\ NextRound(c)
  /\ UNCHANGED <<open, guard, live, client, rx, tasks, history, out>>

\* ConnectedClients::insert; nothing ever removes an entry.
Insert(c) ==
  /\ phase[c] = "clients"
  /\ clients' = [clients EXCEPT ![entity_key(entity[c])] = c]
  /\ inserted' = Append(inserted, c)
  /\ phase' = [phase EXCEPT ![c] = "state"]
  /\ UNCHANGED <<open, guard, live, client, reading, rx, tasks, history, out>>

\* The handler is run.  It may have a payload sent to dst or that client stopped, by a task
\* of its own, and return an answer, which is yielded, or None, which is not.
Handle(c, o, dst) ==
  /\ phase[c] = "state" /\ ~guard /\ o.on = reading[c].type
  /\ handled' = [handled EXCEPT ![c] = @ + 1]
  /\ tasks' = IF o.do = "Nothing"
                THEN tasks
                ELSE tasks \cup {[do |-> o.do, from |-> c, n |-> reading[c].n,
                                  dst |-> dst, since |-> Len(inserted)]}
  /\ IF o.answers THEN Put(c, [type |-> "Answer", n |-> reading[c].n]) ELSE UNCHANGED out
  /\ NextRound(c)
  /\ UNCHANGED <<open, guard, live, client, rx, registry, served>>

\* Mutant of CommandReady: commands are only taken between two requests.
CommandReadyBetween(c) == live[c] = "open" /\ rx[c] # <<>> /\ phase[c] = "stream"

\* rx.recv_async() has something.
CommandReady(c) == live[c] = "open" /\ rx[c] # <<>>

\* The branch of rx: a payload is sent on, Terminate ends the call; either way
\* handled_replies is dropped, wherever it is.
Serve(c) ==
  /\ CommandReady(c)
  /\ served' = [served EXCEPT ![c] = @ + 1]
  /\ IF Head(rx[c]).do = "Send"
       THEN /\ Put(c, [type |-> "Payload", payload |-> Head(rx[c])])
            /\ rx' = [rx EXCEPT ![c] = Tail(@)]
            /\ NextRound(c)
            /\ UNCHANGED <<live, stream>>
       ELSE End(c) /\ UNCHANGED out
  /\ UNCHANGED <<open, guard, entity, sent, registry, tasks, handled>>

\* Mutant of Run: a key keeps the calls that registered under it before.
RunAll(t) ==
  /\ LET Is(c) == \E j \in DOMAIN inserted :
                    inserted[j] = c /\ entity_key(entity[c]) = entity_key(t.dst) IN
       rx' = [c \in Calls |-> IF Is(c) /\ live[c] = "open" THEN Append(rx[c], t) ELSE rx[c]]
  /\ tasks' = tasks \ {t}
  /\ UNCHANGED <<open, guard, live, client, handled_replies, registry, history, out>>

\* A task of ConnectedClients::send or ::stop; the channel of an ended call is closed.
Run(t) ==
  /\ LET d == clients[entity_key(t.dst)] IN
       rx' = IF d # Nobody /\ live[d] = "open" THEN [rx EXCEPT ![d] = Append(@, t)] ELSE rx
  /\ tasks' = tasks \ {t}
  /\ UNCHANGED <<open, guard, live, client, handled_replies, registry, history, out>>
-----------------------------------------------------------------------------
Next ==
  \/ Guard \/ Release \/ Drop
  \/ \E c \in Calls :
       \/ Connect(c) \/ Leave(c) \/ Read(c) \/ Insert(c) \/ Serve(c)
       \/ \E r \in Requests(c) : Request(c, r)
       \/ \E o \in Outcomes, dst \in Entities : Handle(c, o, dst)
  \/ \E t \in tasks : Run(t)

Spec == Init /\ [][Next]_vars

\* tokio polls what is ready; its mutex is first come, first served; select! is unbiased.
\* The test need not ever release its guard.
CallFairness ==
  \A c \in Calls :
    WF_vars(Read(c)) /\ WF_vars(Insert(c)) /\ WF_vars(Serve(c))
      /\ SF_vars(\E o \in Outcomes, dst \in Entities : Handle(c, o, dst))

FairSpec == Spec /\ CallFairness
-----------------------------------------------------------------------------
(* Properties *)

Answers(c) == {i \in DOMAIN out[c] : out[c][i].type = "Answer"}
Payloads(c) == {i \in DOMAIN out[c] : out[c][i].type = "Payload"}

\* The variables keep to their types, and a call that is not live has nothing under way.
TypeOK ==
  /\ clients \in [Keys -> Calls \cup {Nobody}]
  /\ phase \in [Calls -> {"stream", "clients", "state"}]
  /\ \A c \in Calls : reading[c] = None <=> phase[c] = "stream"
  /\ \A c \in Calls : live[c] # "open" => phase[c] = "stream" /\ rx[c] = <<>>

\* relay_connect(): requests of a call are answered in the order in which they were sent,
\* and none of them twice, whatever select! drops and whichever the handler does not answer.
AnswersInOrder ==
  \A c \in Calls : \A i, j \in Answers(c) : i < j => out[c][i].n < out[c][j].n

\* The requests of c that handled_replies has read and is done with.
Past(c) == sent[c] - Len(stream[c]) - (IF reading[c] = None THEN 0 ELSE 1)

\* The select! of relay_connect(): a request is lost only to a payload for the client: those
\* read that the handler was not run for are no more than the payloads sent to the client,
\* and it was run for no request twice.
LossesPaid ==
  \A c \in Calls : live[c] = "open" =>
    /\ handled[c] <= Past(c)
    /\ Past(c) - handled[c] <= Cardinality(Payloads(c))

\* ConnectedClients: a payload goes to a call with the key of its dst that was the last to
\* register under it when the handler sent the payload, or registered after that; never to
\* a call that had been replaced, though its channel is open and its tasks may be late.
NeverToReplaced ==
  \A c \in Calls : \A i \in Payloads(c) :
    LET p == out[c][i].payload
        key == entity_key(p.dst)
    IN  \E j \in DOMAIN inserted :
          /\ inserted[j] = c /\ entity_key(entity[c]) = key
          /\ \A k \in j + 1 .. p.since : entity_key(entity[inserted[k]]) # key

\* ConnectedClients::send: a payload that a handler sends on reaches one client, and once,
\* whoever registers under its key and whatever select! drops meanwhile.
DeliveredOnce ==
  \A c, d \in Calls : \A i \in Payloads(c), j \in Payloads(d) :
    LET p == out[c][i].payload
        q == out[d][j].payload
    IN  p.from = q.from /\ p.n = q.n => c = d /\ i = j

\* Cmd::Send and Cmd::Terminate: a command for a live call is served, even while a request
\* of that call waits for a lock that the test never releases.  (A command comes from a
\* request, and only a call that has made another one is registered.)
CommandsServed ==
  \A c \in Calls, n \in 1 .. FoldFunction(+, 0, MaxRequests) - 1 :
    (live[c] = "open" /\ served[c] + Len(rx[c]) >= n) ~> (served[c] >= n \/ live[c] # "open")

\* A request is handled, or lost, or its call ends, if the test does not keep the lock.
RequestsSettle ==
  \A c \in Calls : \A n \in 1 .. MaxRequests[c] :
    (live[c] = "open" /\ sent[c] >= n) ~>
      \/ live[c] # "open" \/ []guard
      \/ Past(c) >= n
=============================================================================
