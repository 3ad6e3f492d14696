# A verification project for orb-relay-messages

The repository holds the message schemas of the orb-relay service (`proto/`), the
hashes and checks of the authenticated data that is exchanged in pairing (`rust/`),
a client for the service (`relay-client/`) and a test server (`test-utils/`). The
client carries most of the program's logic: an actor that keeps a gRPC stream to the
relay alive, and a small delivery protocol on top of it. These modules model, check
and prove things about all four.

## 1. The system

| part | state | operations | talks to |
|---|---|---|---|
| `relay-client/src/amount.rs` | none | comparison, `is_zero`, `decrement` | actor |
| `flume_receiver_stream.rs` (request pipe) | the tonic channel shared by all RelayConnect calls; per call a task, its cancellation token, a bounded tokio channel | start, cancel, receive, send | actor (channel, token), tonic (body) |
| `actor.rs` (connection) | attempts, current call and response stream, actor queue, `heartbeat_started` | connect, handshake, main loop, stop, reconnect, heartbeat, back-off | `Client` through the actor queue, relay |
| `actor.rs` + `lib.rs` (delivery) | `seq`, `pending_acks`, `pending_replies`, retry tasks | `send`, `ask`, `reply`, `recv`, ack, payload, retry | actor queue, relay, peers |
| `tls.rs` | none | builds the certificate store | connect |
| `rust/src/lib.rs` (pairing data) | none | `hash` and three `verify` of authenticated data | apps and orbs, which are other programs |
| `test-utils/src/lib.rs` (test server) | `ConnectedClients`, per call `stream`, `rx` and `handled_replies`, the state behind a lock | `relay_connect`, `insert`, `send`, `stop`, `state` | clients under test, the test |

What is hard here:

- **Concurrency.** Every call has a forwarding task of its own, and all of them
  drain one channel; API calls, timers, the actor and the tasks run on different
  threads. A `select!` polls its branches one after the other, so things happen
  between the two polls.
- **Failure.** A call can fail while dialling, during the handshake, by a timeout
  or later; what lies in the body of the call is lost, what lies in the channel is
  not, and a dying task may still take one request, even the next ConnectRequest.
- **Ordering.** Responses that overtake the ConnectResponse go through the actor's
  queue; a registration can come after the ack or the reply it is meant for.
- **Identity.** Acks are matched by seq, replies by client id and seq, and seqs are
  counted by each client on its own.
- **Staleness.** A pairing message may come late, twice or in another session; the
  test server's registry keeps the entries of calls that are over.
- **Cancellation.** The test server's `select!` drops a handler half-way.
- **Progress.** The actor's queue is only read while connected; a retry chain is
  the only thing that keeps a lost message going.

`PROJECT.json` lists these as hazards, each at its line and with the properties
that would catch it.

## 2. Modules

| module | models | state and actions |
|---|---|---|
| `Amount` | `amount.rs` | operators; `Infinite` is the one value outside `Nat` |
| `LossyFifo` | (abstract) | payloads accepted, put on a call in order at most once, or lost |
| `ReceiverStream` | `flume_receiver_stream.rs` and the tonic channel | `Put`, `New`, `Cancel`; the task's `CheckToken`, `Recv`, `Park`, `Push`, `SendErr`; tonic's `Pull`, `DropBody` |
| `PipeLoss` | `ReceiverStream` with a count of what each call loses | `gone[s]`, a history variable |
| `ConnectionPromise` | (abstract) | what `connect`, `send`, `stop`, `reconnect` and dropping the handles promise: a client that is starting, offline, online or over |
| `RelayConnection` | `run`, `main_loop`, `connect`, the lifecycle arms of `handle_msg`, `Client::connect/send/stop/reconnect` | EXTENDS `ReceiverStream`; `phase` is the program counter of the actor task; one action per branch |
| `DeliveryPromise` | (abstract) | what `send`, `ask` and `reply` promise a caller: when a call may return, with what, how often its message is sent |
| `RelayDelivery` | `send`, `ask`, `reply`, and the arms of `handle_msg` for acks, payloads, registrations and retries | a call of the API is a model value and stands for its message, retries included |
| `PairingData` | the hashes and `verify` functions of `rust/src/lib.rs` | operators; a string is its sequence of bytes |
| `Pairing` | a pairing as the comments of the schemas lay it out, each check one of `PairingData` | sessions of apps and orbs, every message ever sent in `net` |
| `TestRelay` | `ConnectedClients` and `relay_connect` | `phase[c]` is where `handled_replies` of call `c` waits |
| `...Proofs` | theorems about the module they are named after; `LossyFifoProofs` is about `ReceiverStream` and `LossyFifo` | |
| `MC...` | instances for TLC | |

`RelayConnection` composes the actor with the pipe: each of its steps that touches
the pipe is one action of `ReceiverStream`, and `PipeDiscipline` checks that the
actor uses the pipe the way `ReceiverStream` assumes. `ReceiverStream` in turn
implements `LossyFifo`, and `RelayConnection` implements `ConnectionPromise`, which knows of no
queue, call, handshake, token or heartbeat. There "online" means that `main_loop()` runs, which it
also does after `connect()` has returned Ok for a call that ended unanswered, and a message is
"taken" when it enters `tonic_tx`, where a failure or `stop()` may still drop it. `RelayDelivery` uses no more of the connection than that
abstraction gives: requests leave in order, or are lost; oldest first when the
connection breaks, and after that one more for each lost connection, whose task may be
past its token (`Stray`). `RelayDelivery` in turn implements `DeliveryPromise`, which knows of
no actor, channel, connection or retry.

Correspondence worth knowing when reading the modules next to the code:

- A poll of a biased `select!` is two steps: the first branch, then the second
  (`CheckToken` then `Recv` or `Park` in the task, `PollActor` then a stream step in
  the actor). Polls that find nothing are left out, the process is then asleep.
- `tx.send(..).await` in the task is outside the `select!`; a task in `"send"` is
  not cancelled, it ends when the body is dropped (`SendErr`).
- `Fail` is the error path of `run()` for every error but Stop and Reconnect:
  cancel, drop the response stream, count, give up or back off.
- `covered`, `failures`, `lastResp`, `last`, `delivered`, `lost`, `stray`,
  `gone`, `attempts`, `strays`, `relayGot` are history variables; no guard reads them. (`last` is
  also the refinement mapping's.)
- `HandshakeEof` is the `while let` of `connect()` ending because the stream did.
- Payload and token contents, TLS, metadata headers and logging are left out.
  Responses with no `msg` are skipped by the code and left out.
- A retry chain belongs to the registration that started it, but it looks up the
  map under its key, so it may resend another call's message.
- The pairing programs are not in the repository, the checks are. `Pairing` uses them
  in the order which the comments of `common/v1/orb.proto` and
  `self_serve/app/v1/app.proto` give; its network may lose, delay and repeat any
  message, over sessions too, as `net` only grows. `answers` and `data` in
  its messages are history: no guard reads them. BLAKE3 and the SE050 signature are
  ideal; the bytes they are given are exactly those of the code.
- An app's announcement without data (a heartbeat) and orbs that send no
  `OrbAuthenticatedData` are in the model because `verify` has a case for each.
- The handler of the test server is the test's. `Outcomes` says what it may do with a
  request of each type: answer it or return `None`, which yields nothing (as `e2e_reply.rs`,
  `send.rs` and `ask.rs` do), and hand a payload on with `ConnectedClients::send`, stop a
  client, or neither. `Handle` takes any of them each time.
- The clients of the test server are `relay-client`. Their channel outlives a call, so a
  call may carry left-over payloads and stale ConnectRequests before its own: `Requests` is
  any type in any order.
- In `TestRelay`, `NextRound` is the drop of `handled_replies`, with the request it has
  read. `served`, `handled`, `inserted` and the `since` of a task are history variables.
- The definition of a `verify` in `PairingData` is the condition under which it returns
  `Ok`. Which error it returns otherwise is in the comments, and nothing depends on it.
- When the actor ends, a registration still in its queue is dropped or kept by the
  channel; both outcomes are allowed and no property depends on either.

External to the repository, and modelled from how the code uses them: tonic
(`Pull`, `DropBody`, `NetPull`, `NetDrop`), the relay (`RelayAnswer`,
`RelayPayload`, `RelayEnd`, `RelayTake`), what peers send of their own accord (`PeerSend`),
and the programs of app and orb: every action of `Pairing`, the checks in them apart.
(`PeerReply` is `reply()` of a peer that uses this client, to asks only.)

Definitions whose comment begins with "Mutant of" are deliberately wrong variants
of the definition that follows them. Nothing uses them; `PROJECT.json` pairs each
with a property that fails when it takes that definition's place.

## 3. What is checked

### Runs that pass

- **pipe** (`ReceiverStream`, 2 call slots, capacity 2, 3 payloads, 2 requests
  waiting): `Bounded`, `OneStray`, `StreamOrder`, `PayloadsConserved`,
  `LossBounded` (no call takes more requests with it than its body and its task can hold) and
  `ImplementsLossyFifo`. Slots are reused, so a run has any number of calls but at
  most two overlap: a dying one and its successor, which is where the hazards are.
  A heartbeat differs from a ConnectRequest in nothing the pipe looks at, so only
  one of the two is put in.
- **conn_safety** (1 send, 1 stop, 2 payloads from the relay, 1 fault, at most 2
  attempts, capacity 1): `OneHeartbeatChain`, `ResponsesInOrder`, `GiveUpExactly`,
  `OfflineSendsSurvive` and the refinement `KeepsConnectionPromise`, which implies
  `StopFinal`. One fault is enough for two failures: a dying
  task can steal the next ConnectRequest, which then times out. The server of this
  run answers a call before it ends it (`EarlyEnd = FALSE`); see `conn_early_end`.
- **conn_live** (1 send, 1 stop, 1 reconnect, 1 fault, unlimited attempts, any
  server): `PipeDiscipline`, `KeepsConnectionPromise`, `StopHonoured`, `Reconnects`,
  `SendsResolved`. The refinement is in both runs: this one has the reconnects,
  `conn_safety` the attempts that are used up and the payloads.
- **delivery_all** (2 calls out of send, ask and reply, a message from the peer,
  abandonment, `stop()` at any moment): `NothingForgotten`, `SingleAttempt`,
  `CollisionsExplained` (a call that ends for another message than its own has met a reply or
  a message of the peer's own) and the refinement `KeepsPromise`: what survives when seqs
  of two origins collide, and that no call fails on account of a Stop that the actor has not
  taken.
- **delivery_live** (2 calls out of send and ask, nobody else's seqs in use, unlimited
  attempts, a lost connection, an actor that may fail): `OwnAnswer`, `KeepsPromise`
  (which implies `FailsOnlyWhenGone` where no two calls have one seq), `SilenceIsFinal` (what
  is no longer retried is not sent again; with unlimited attempts these are AtMostOnce asks,
  and the theorem is for every maximum), `AtLeastOnceCompletes`. The two runs
  split the faults: `delivery_all` has the collisions of seqs and `stop()`, `delivery_live` the lost
  connections and giving up. Their combinations (every `LossBudget`, `MayEnd`,
  `MaxPeerSends`) are what the theorems of section 4 are for.
- **pairing** (1 app, a new and an old orb, seven app data, protocols 3 and 4, up to four
  sessions): `PairedDataIsHashed`, `PrefixesInStrings`, `PairedInThisSession`,
  `RequestedSessionsAgree`, `IpcpForThisSession`. Two of the data differ in where one field
  ends and the next begins, two more from these only in version and key. Two in the
  legacy format have one input to the hash, as bytes have moved between fields; the other two
  hold in one string the bytes that are hashed for data of format 1 or 2. The orb accepts
  each for its counterpart, and the reverse: the received version selects the format.
  `PairedDataIsHashed` says that only legacy data are ever confused, and only with data
  whose strings have other lengths; `PrefixesInStrings` says what it takes for
  data of different formats: the legacy strings contain the length prefixes.
- **test_relay** (2 calls, one of 2 requests and one of 1, two entities, five outcomes of the
  handler): `AnswersInOrder`, `LossesPaid` (of the requests read, the handler was not run for
  at most as many as payloads were sent to the client; an answer is no measure, as it may be
  `None`), `NeverToReplaced`, `DeliveredOnce`, `CommandsServed`, `RequestsSettle`.

### Runs that show a disagreement between code and documentation

- **conn_early_end**: `connect()` returns Ok when the stream ends before the
  ConnectResponse; messages sent while offline are then lost before any connection
  was accepted (`OfflineSendsSurvive`).
- **conn_unreachable**: `stop()` has no effect while the relay cannot be reached
  (`StopHonoured`, faults without end). The counterexample dials and backs off
  forever, as it does with the default options.
- **retry_bound**: for a maximum of 2 or more the retries never end
  (`RetryBound`).
- **own_answer**: an AtLeastOnce reply and a send with the same seq share one entry of
  `pending_acks`, and the reply is confirmed by the ack of the send (`OwnAnswer`). With
  `Kinds = {"ask"}` the same instance shows the weakness of `ask()`: a message that the
  peer sends of its own accord under the same seq is returned as the reply.
- **early_reply**: a reply that overtakes the registration goes to `recv()` while
  the ask waits for it (`ReplyReachesAsk`). An AtLeastOnce ask is saved by its
  retry (`delivery_live`); an AtMostOnce ask is not.

### Bounds

All bounds are constants. `MaxSends`, `MaxReconnects`, `MaxResponses`,
`MaxPeerSends`, `Calls`, `FaultBudget` and `LossBudget` limit what the environment
does; `BeatCap` and `StreamCap` keep timers from firing while that much is under
way, which is how slow timers behave; `AttemptCap` is where counters saturate and
lies above every value the properties tell apart. Two overlapping calls, one fault
and one reconnect suffice for every hazard listed: each needs one dying call and
its successor. Two calls of the API suffice for collisions of keys, and two calls of
the test server for one that replaces the other. `MaxSeq` is above every seq that the
calls and the peer can take. In `Pairing` four sessions are two of the app and two of
an orb, so that each has an earlier one to confuse with the present; `MaxRequests` of 2
is a ConnectRequest and a message, in either order, enough for one to be lost before the
other, and one request of another call is enough to replace the first or to send it a command. What the
invariants say for larger instances is what the theorems are for.

`CHECK_DEADLOCK FALSE` is set for `pairing` and `test_relay`: both may really stop, when
the sessions are used up or every call has ended.

### Fairness

`conn_live` and `delivery_live` assume weak fairness of the actor, of each
forwarding task, of tonic reading and dropping bodies, of a relay that answers, of
callers between their two sends, of timers and of peers that reply. These are the
tokio runtime's scheduling and a server that is up. Nothing is assumed of API calls,
faults or heartbeats, and faults are finitely many, except in `conn_unreachable`,
which is about unlimited faults. The timeout of a handshake is fair only when no
answer can come any more.

`test_relay` assumes weak fairness of reading, registering and serving, and strong
fairness of the handler: the test may take the lock again and again, but tokio's mutex
is first come, first served. A test that keeps the lock forever is allowed, and is the
case in which `CommandsServed` matters. `delivery_all`, `conn_safety` and `pairing` use
no fairness.

## 4. What is proved

Theorems hold for every value of the constants that satisfies the named assumptions of
the modules (`CapacityAssumption` and its like; those of a theorem of its own are in its
statement). Every invariant that a passing run checks is proved, and so are all three
refinements and the other action properties.

`ReceiverStreamProofs`:

- `PipeTypeCorrect`: `PipeTypeOK` is inductive as it stands.
- `PipeBounded`: `Bounded` is inductive given the types. The part about `hand` and
  dropped bodies is what lets `Push` and `New` keep the bound.
- `AtMostOneStray`: `OneStray` is not inductive. `StrayInv` adds that a task which
  has taken its stray request is cancelled and past the receive, so it meets the
  token before it can receive again.

`LossyFifoProofs`, on top of those three:

- `PipeFifoInv`: `FifoInv` is inductive given the types and `Bounded`. It says that
  the channel is in order and holds nothing already sent or lost (`ChannelInv`),
  that what a call holds is in order, beyond the last payload it sent and before
  those in the channel (`CallInv`), and that no payload is with two calls
  (`Apart`). `Apart` is not in `StreamOrder`; without it one call could lose a
  payload that another sends. `FifoCallStep` reduces a step of one call to that
  call and the channel; `FifoLeave` treats the three ways a payload leaves a call.
- `PipeStreamOrder`: `StreamOrder` follows from `FifoInv`, with the lemmas on what
  concatenation, `Head` and `Tail` do to `Numbers` and `Sorted`.
- `PipeImplementsFifo`: `ImplementsLossyFifo`. `Put` is `Accept` or a stutter, `New`
  is `Begin`, `Pull` is `Deliver` or a stutter (other requests than payloads),
  `SendErr` and `DropBody` are `Lose`, every other step is a stutter.

- `PipeConserves`: `PayloadsConserved`. Its inductive form (`Covered` and `HeldOnce`)
  says that each number is in one place and at one position of it; `Apart` gives the
  former for two calls, `Sorted` the latter.

`PipeLossProofs`:

- `PipeLossBounded`: `LossBounded`. `LossInv` says when a call can lose what: nothing while
  it has its body, no more than the body held while its task lives, and the request in the
  hand of the task when that fails to send it, which ends the task.

`RelayConnectionProofs`, on top of those of the pipe:

- `ConnectionUsesPipe`: each step of the connection is a step of the pipe. `TokenInv`
  says that the tokens of all calls but the current one are cancelled, which is what
  `Start` needs. Every theorem about `PipeSpec` is then one about the connection:
  `ConnectionStreamOrder` and `ConnectionConserves`.
- `GivesUpExactly`: `failures` and the attempt counter move together.
- `ConnectionTypeCorrect`, `ResponsesOrdered`: by one invariant (`ConnInv`) on the
  actor's queue and the response stream: responses in the queue are older than those in
  the stream, and a stream step finds none in the queue because the `select!` is biased.
- `OneHeartbeat`: the lemmas say what `Append` and `Tail` do to the number of messages of
  a type in the queue (`Count`); every step then keeps the sum.
- `StopIsFinal`: `StopInv` counts the sends in the queue before the first Stop; with
  those that have left they are the ones made before `stop()`, and Stop ends the actor.
- `OfflineSurvives`: under `~EarlyEnd` the queue is only read once the relay has accepted
  (`CoveredInv`), so what was sent offline has not even entered `tonic_tx` before.
  `conn_early_end` shows that the assumption is needed.

`ConnectionPromiseProofs`, on top of those of `RelayConnection`:

- `ConnectionPromiseKept`: the refinement. `due` is the number of reconnects before the first
  Stop in the queue; `DueQueued` and `DueTaken` say what a message more or less does to it, by
  a bijection. `Stop` needs `OneStop`, that stop() is in the queue once: then `StopInv` gives
  that all messages handed over before it have left. `Lose` and `GiveUp` need `GiveUpInv` and
  `Validated` (only a client with a valid endpoint fails an attempt).

`RelayDeliveryProofs`:

- `DeliveryTypeCorrect`, and on top of it `DeliveryInv`, which relates the queue, the
  maps, the timers and the program counters: the messages of one call are in order
  (`Rank`), a registration is under the key of its message and its call still waits or was
  abandoned, calls of `send()` and `ask()` have numbers of their own, and what is on the
  network is about messages that were sent.
- `SingleAttempts` follows from `DeliveryInv`; `NeverForgotten` is inductive given it.
- `PromiseKept`: the refinement. Every action maps to one of `DeliveryPromise` or a
  stutter; `RetryAck` of another call under the same key maps to `Transmit` of that call.
- `OnlyRepliesCollide`: `CollisionsExplained`, from the promise: whatever is registered, a
  call that ends for another message has a seq that a reply or a peer's own message has.
- `OnlyTheEndFails`, `OnlyOwnAnswers` are corollaries for clients that do not use `reply()`
  (and peers that send nothing of their own accord). `own_answer` shows that these
  assumptions are needed.
- `SilenceIsForGood`: `SilenceIsFinal`, which is about steps.
- `RetriesBounded`: `RetryBound` for a maximum of 0 or 1 and clients without `reply()`.
  `retry_bound` shows that it fails from 2 on. The invariant gives each call a budget: as
  long as a chain of retries runs, what was sent and what the chain has left stay within it,
  and a registration that is still in the queue has been sent at most once.

`PairingProofs`:

- `InputBindsData`: the bytes fed to the hasher determine the data, for the formats 1 and
  2 together. The lemmas take the encoding apart, one length-prefixed field at a time;
  lengths have to be below 2^32, which the code asserts. `VerifyAcceptsExactly` follows.
- `LegacyBindsShape`: in the legacy format the input determines the data
  among those whose fields have the same lengths. `LegacyNeedsShape`: not among all, as the
  comment at `rust/src/lib.rs:288` says.
- `MixedFormats`: legacy data have an input in common with data of another format only if
  their strings contain its length prefixes (`FieldsLen`, `StringsLen` and `PrefixedInput`
  count bytes). `LegacyPassesForOthers`: such legacy data do exist for any data of another
  format; strings are any bytes here, so it says nothing of which are UTF-8.
- `PairedDataBound`, `MixedPairsHavePrefixes`: the two properties of the data, for all formats,
  from these and from `DataInv`, which keeps digests and data together (`PairedInputs`).
- `PairingTypeCorrect`, `AnswersBound`, `RequestsBound`, `IpcpBound`: by an invariant that
  says what is in `net`: announcements with the same nonce are the same, an answer fits
  the announcement it was made for, a request has the nonce of one session of its app.

`TestRelayProofs`:

- `RelayTypeCorrect`.
- `AnswersOrdered`, `LossesArePaid`: `CallInv` numbers the requests of a call that are on
  their way or being read, and says that the handler was run for none twice and that those
  past for which it was not run are no more than the payloads sent (`Owed`). `OutAnswer` and
  `OutPayload` are the two steps that change what a client has been sent.
- `NeverReplaced`: `RegistryInv` says that the entry of a key is the last call registered
  under it, and that every command on its way or delivered is due (`Due`), which further
  registrations do not change.
- `SentOnOnce`: `DeliveredOnce`. `OnceInv` says that every payload to be sent is in one place, a
  task, the channel of a call or what a client has been sent, and at one position of it. That
  the task of the next request is a new one follows from the numbers: all that are there
  belong to requests which their call has dealt with (`Dealt`).

Model-checked only: the liveness properties (`StopHonoured`, `Reconnects`,
`SendsResolved`, `AtLeastOnceCompletes`, `CommandsServed`, `RequestsSettle`), as fairness
is out of the prover's reach, and the properties that are violated. `Amount`'s operators
are used unfolded and need no theorem.

## 5. Not modelled

- `tls.rs`, `build.rs`: no state, no decision. The schemas other than `relay.proto` and
  the pairing messages: data definitions.
- The formatting of messages in `rust/src/lib.rs` (`Display`, `Debug`): no property is
  about it.
- Certificates and addresses of the test server, and `IntoRes`: constants and wrappers.
- Several connections of one client id at the relay, namespaces and entity types
  (the client ignores both when it matches replies).
- A restart of the client program. Nothing is persisted; what its predecessor's late
  replies can do is what the peer's own messages do in `own_answer`.
- Overflow of the 64-bit `seq` and attempt counters: out of reach in practice.

## 6. Plan

Done: the modules, runs and theorems above. What could be added:

1. Two clients composed through `TestRelay`, in place of the relay that
   `RelayDelivery` has now.
2. `RelayDelivery` over `RelayConnection` itself instead of over what `LossyFifo` gives.
   The product is beyond TLC even for one call and one fault, and the theorems about
   the pipe hold of both already.
