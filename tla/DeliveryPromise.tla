-------------------------- MODULE DeliveryPromise --------------------------
(***************************************************************************)
(* What send(), ask() and reply() of relay-client/src/lib.rs promise their *)
(* caller, said without the actor, its channels, the connection or the     *)
(* retries: when a call may return, with what, and how often its message   *)
(* may be sent.  A confirmation and a reply go by the sequence number, as   *)
(* the protocol does; RelayDelivery is shown to keep these promises.       *)
(***************************************************************************)
EXTENDS Naturals

CONSTANTS
  Calls,    \* the calls of the API
  NoCall,
  Peers,    \* the other clients
  Message   \* what can be sent: [kind, qos, to, seq]

VARIABLES
  status,   \* status[c]: "idle", "pending", "ok", "err" or "dropped"
  msg,      \* msg[c]: its message
  result,   \* result[c]: the call whose reply an ask returned; NoCall for another payload
  sent,     \* sent[c]: how often its message was sent
  taken,    \* the calls whose message the relay has
  peerSeq,  \* peerSeq[p]: how many messages p has sent of its own accord
  alive     \* the client runs

vars == <<status, msg, result, sent, taken, peerSeq, alive>>

Init ==
  /\ status = [c \in Calls |-> "idle"]
  /\ msg \in [Calls -> Message]
  /\ result = [c \in Calls |-> NoCall]
  /\ sent = [c \in Calls |-> 0]
  /\ taken = {}
  /\ peerSeq = [p \in Peers |-> 0]
  /\ alive = TRUE

\* Nothing to wait for: send() and reply() with AtMostOnce return at once.
Immediate(m) == m.kind # "ask" /\ m.qos = "AtMostOnce"

\* A number is taken once; only a reply has the number of what it replies to.
Numbered(m) ==
  m.kind # "reply" =>
    \A d \in Calls : status[d] # "idle" /\ msg[d].kind # "reply" => msg[d].seq # m.seq

Make(c) ==
  /\ alive /\ status[c] = "idle"
  /\ \E m \in Message :
       /\ msg' = [msg EXCEPT ![c] = m]
       /\ Numbered(m)
       /\ status' = [status EXCEPT ![c] = IF Immediate(m) THEN "ok" ELSE "pending"]
  /\ UNCHANGED <<result, sent, taken, peerSeq, alive>>

\* A message is sent once, or again while it is not confirmed; it may still be sent
\* when its caller has stopped waiting for it.
Transmit(c) ==
  /\ alive
  /\ \/ status[c] \in {"pending", "dropped"}
     \/ status[c] = "ok" /\ Immediate(msg[c])
  /\ msg[c].qos = "AtMostOnce" => sent[c] = 0
  /\ sent' = [sent EXCEPT ![c] = @ + 1]
  /\ UNCHANGED <<status, msg, result, taken, peerSeq, alive>>

Take(c) ==
  /\ sent[c] > 0 /\ c \notin taken
  /\ taken' = taken \cup {c}
  /\ UNCHANGED <<status, msg, result, sent, peerSeq, alive>>

Finish(c, outcome) ==
  /\ status[c] = "pending"
  /\ status' = [status EXCEPT ![c] = outcome]
  /\ UNCHANGED <<msg, sent, taken, peerSeq, alive>>

\* send() and reply(): the relay has a message of this number.
Confirm(c) ==
  /\ Finish(c, "ok") /\ UNCHANGED result
  /\ msg[c].kind # "ask" /\ \E d \in taken : msg[d].seq = msg[c].seq

SameAsk(c, d) ==
  msg[d].kind = "ask" /\ msg[d].to = msg[c].to /\ msg[d].seq = msg[c].seq

\* ask(): a payload of its destination, under this number.
Return(c) ==
  /\ Finish(c, "ok") /\ msg[c].kind = "ask"
  /\ \E r \in Calls \cup {NoCall} :
       /\ IF r = NoCall THEN msg[c].seq < peerSeq[msg[c].to] ELSE r \in taken /\ SameAsk(c, r)
       /\ result' = [result EXCEPT ![c] = r]

\* A call fails when the client is gone, or when another call waits for the same.
Fail(c) ==
  /\ Finish(c, "err") /\ UNCHANGED result
  /\ \/ ~alive
     \/ \E d \in Calls \ {c} :
          /\ status[d] # "idle" /\ msg[d].seq = msg[c].seq
          /\ msg[c].kind = "ask" <=> msg[d].kind = "ask"

Abandon(c) == Finish(c, "dropped") /\ UNCHANGED result

\* The client ends: some calls learn of it now.
End ==
  /\ alive /\ alive' = FALSE
  /\ \E F \in SUBSET {c \in Calls : status[c] = "pending"} :
       status' = [c \in Calls |-> IF c \in F THEN "err" ELSE status[c]]
  /\ UNCHANGED <<msg, result, sent, taken, peerSeq>>

PeerSend(p) ==
  /\ peerSeq' = [peerSeq EXCEPT ![p] = @ + 1]
  /\ UNCHANGED <<status, msg, result, sent, taken, alive>>

\* What the client, the relay and the peers do on the way.
Unseen == UNCHANGED vars

Next ==
  \/ Unseen
  \/ \E c \in Calls :
       \/ Make(c) \/ Transmit(c) \/ Take(c) \/ Confirm(c) \/ Return(c) \/ Fail(c) \/ Abandon(c)
  \/ End
  \/ \E p \in Peers : PeerSend(p)

Spec == Init /\ [][Next]_vars
=============================================================================
