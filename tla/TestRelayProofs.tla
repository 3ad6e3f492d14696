--------------------------- MODULE TestRelayProofs ---------------------------
(***************************************************************************)
(* Proofs about TestRelay, for any number of calls, entities and requests: *)
(* a client is answered in the order of its requests, and none is lost but *)
(* to a payload sent to it; a payload never goes to a call that had been   *)
(* replaced, nor to two calls or twice to one.                             *)
(***************************************************************************)
EXTENDS TestRelay, FiniteSetTheorems, TLAPS

Req == [type : RequestTypes, n : Nat]

Cmd == [do : {"Send", "Terminate"}, from : Calls, n : Nat, dst : Entities, since : Nat]

Out == [type : {"Answer"}, n : Nat] \cup [type : {"Payload"}, payload : Cmd]

\* The types, in full.
Types ==
  /\ live \in [Calls -> {"none", "open", "ended"}]
  /\ entity \in [Calls -> Entities]
  /\ sent \in [Calls -> Nat]
  /\ stream \in [Calls -> Seq(Req)]
  /\ reading \in [Calls -> Req \cup {None}]
  /\ phase \in [Calls -> {"stream", "clients", "state"}]
  /\ rx \in [Calls -> Seq(Cmd)]
  /\ clients \in [Keys -> Calls \cup {Nobody}]
  /\ inserted \in Seq(Calls)
  /\ tasks \in SUBSET Cmd
  /\ served \in [Calls -> Nat]
  /\ handled \in [Calls -> Nat]
  /\ out \in [Calls -> Seq(Out)]

TypeInv == Types /\ TypeOK

LEMMA ReqTypes ==
  /\ \A r \in Req : r.n \in Nat /\ r # None
  /\ None \notin Req
BY DEF Req, RequestTypes, None

LEMMA OutcomeTypes ==
  \A o \in Outcomes : o.do \in {"Nothing", "Send", "Terminate"} /\ o.answers \in BOOLEAN
BY OutcomesAssumption

LEMMA KeyOf == \A e \in Entities : entity_key(e) \in Keys
BY DEF Keys

\* What NextRound and End do to the handler's side of the calls.
LEMMA RoundTypes ==
  ASSUME TypeInv, NEW c \in Calls, NextRound(c)
  PROVE  /\ reading' \in [Calls -> Req \cup {None}] /\ phase' \in [Calls -> {"stream", "clients", "state"}]
         /\ reading'[c] = None /\ phase'[c] = "stream"
         /\ \A d \in Calls : d # c => reading'[d] = reading[d] /\ phase'[d] = phase[d]
BY DEF TypeInv, Types, NextRound

LEMMA EndTypes ==
  ASSUME TypeInv, NEW c \in Calls, End(c)
  PROVE  /\ NextRound(c)
         /\ live' \in [Calls -> {"none", "open", "ended"}] /\ stream' \in [Calls -> Seq(Req)]
         /\ rx' \in [Calls -> Seq(Cmd)]
         /\ live'[c] = "ended" /\ stream'[c] = <<>> /\ rx'[c] = <<>>
         /\ \A d \in Calls : d # c => live'[d] = live[d] /\ stream'[d] = stream[d] /\ rx'[d] = rx[d]
<1>1. <<>> \in Seq(Req) /\ <<>> \in Seq(Cmd)
  OBVIOUS
<1> QED
  BY <1>1 DEF TypeInv, Types, End

LEMMA RoundTypeOK ==
  ASSUME TypeInv, NEW c \in Calls, NextRound(c), UNCHANGED clients,
         \A d \in Calls : live'[d] # "open" => rx'[d] = <<>> /\ (live[d] # "open" \/ d = c)
  PROVE  TypeOK'
<1>1. /\ reading' \in [Calls -> Req \cup {None}] /\ phase' \in [Calls -> {"stream", "clients", "state"}]
      /\ reading'[c] = None /\ phase'[c] = "stream"
      /\ \A d \in Calls : d # c => reading'[d] = reading[d] /\ phase'[d] = phase[d]
  BY RoundTypes
<1>2. \A d \in Calls : reading'[d] = None <=> phase'[d] = "stream"
  BY <1>1 DEF TypeInv, TypeOK
<1>3. \A d \in Calls : live'[d] # "open" => phase'[d] = "stream"
  BY <1>1 DEF TypeInv, TypeOK
<1> QED
  BY <1>1, <1>2, <1>3 DEF TypeInv, TypeOK

LEMMA RelayTypeStep ==
  ASSUME TypeInv, [Next]_vars
  PROVE  TypeInv'
<1> USE DEF client, handled_replies, registry, history
<1>1. CASE Guard \/ Release \/ Drop \/ UNCHANGED vars
  BY <1>1 DEF Guard, Release, Drop, vars, TypeInv, Types, TypeOK
<1>2. ASSUME NEW c \in Calls, Connect(c)
      PROVE  TypeInv'
  BY <1>2 DEF Connect, TypeInv, Types, TypeOK
<1>3. ASSUME NEW c \in Calls, NEW r \in Requests(c), Request(c, r)
      PROVE  TypeInv'
  <2>1. r \in Req /\ sent[c] \in Nat
    BY <1>3 DEF Requests, Req, TypeInv, Types
  <2>2. Append(stream[c], r) \in Seq(Req)
    BY <2>1 DEF TypeInv, Types
  <2> QED
    BY <1>3, <2>1, <2>2 DEF Request, TypeInv, Types, TypeOK
<1>4. ASSUME NEW c \in Calls, Leave(c)
      PROVE  TypeInv'
  <2>1. End(c) /\ NextRound(c)
    BY <1>4, EndTypes DEF Leave
  <2> QED
    <3>1. \A d \in Calls : live'[d] # "open" => rx'[d] = <<>> /\ (live[d] # "open" \/ d = c)
      BY <2>1, EndTypes DEF TypeInv, TypeOK
    <3>2. TypeOK'
      BY <1>4, <2>1, <3>1, RoundTypeOK DEF Leave
    <3>3. Types'
      BY <1>4, <2>1, EndTypes, RoundTypes DEF Leave, TypeInv, Types
    <3> QED
      BY <3>2, <3>3 DEF TypeInv
<1>5. ASSUME NEW c \in Calls, Read(c)
      PROVE  TypeInv'
  <2>1. stream[c] \in Seq(Req) /\ stream[c] # <<>> /\ live[c] = "open"
    BY <1>5 DEF Read, MessageReady, TypeInv, Types
  <2>2. Head(stream[c]) \in Req /\ Tail(stream[c]) \in Seq(Req)
    BY <2>1
  <2>3. Head(stream[c]) # None
    BY <2>2, ReqTypes
  <2> QED
    BY <1>5, <2>1, <2>2, <2>3 DEF Read, TypeInv, Types, TypeOK
<1>6. ASSUME NEW c \in Calls, Insert(c)
      PROVE  TypeInv'
  <2>1. entity_key(entity[c]) \in Keys /\ Append(inserted, c) \in Seq(Calls)
    BY KeyOf DEF TypeInv, Types
  <2>2. /\ clients' \in [Keys -> Calls \cup {Nobody}] /\ inserted' \in Seq(Calls)
        /\ phase' \in [Calls -> {"stream", "clients", "state"}]
        /\ phase[c] = "clients" /\ phase'[c] = "state"
        /\ \A d \in Calls : d # c => phase'[d] = phase[d]
    BY <1>6, <2>1 DEF Insert, TypeInv, Types
  <2> QED
    BY <1>6, <2>2 DEF Insert, TypeInv, Types, TypeOK
<1>7. ASSUME NEW c \in Calls, NEW o \in Outcomes, NEW dst \in Entities, Handle(c, o, dst)
      PROVE  TypeInv'
  <2>1. NextRound(c) /\ phase[c] = "state"
    BY <1>7 DEF Handle
  <2>2. reading[c] \in Req
    BY <2>1 DEF TypeInv, Types, TypeOK
  <2>3. reading[c].n \in Nat /\ Len(inserted) \in Nat
    BY <2>2, ReqTypes DEF TypeInv, Types
  <2>4. tasks' \in SUBSET Cmd
    BY <1>7, <2>3, OutcomeTypes DEF Handle, Cmd, TypeInv, Types
  <2>5. out' \in [Calls -> Seq(Out)]
    <3>1. CASE o.answers
      <4>1. PICK m \in Out : m = [type |-> "Answer", n |-> reading[c].n]
        BY <2>3 DEF Out
      <4>2. out' = [out EXCEPT ![c] = Append(@, m)]
        BY <1>7, <3>1, <4>1 DEF Handle, Put
      <4>3. Append(out[c], m) \in Seq(Out)
        BY DEF TypeInv, Types
      <4> QED
        BY <4>2, <4>3 DEF TypeInv, Types
    <3>2. CASE ~o.answers
      BY <1>7, <3>2 DEF Handle, TypeInv, Types
    <3> QED
      BY <3>1, <3>2
  <2> QED
    <3>1. UNCHANGED <<live, clients, inserted, entity, sent, stream, rx, served>>
          /\ handled' \in [Calls -> Nat]
      BY <1>7 DEF Handle, TypeInv, Types
    <3>2. \A d \in Calls : live'[d] # "open" => rx'[d] = <<>> /\ (live[d] # "open" \/ d = c)
      BY <3>1 DEF TypeInv, TypeOK
    <3>3. TypeOK'
      BY <2>1, <3>1, <3>2, RoundTypeOK
    <3>4. Types'
      BY <2>1, <2>4, <2>5, <3>1, RoundTypes DEF TypeInv, Types
    <3> QED
      BY <3>3, <3>4 DEF TypeInv
<1>8. ASSUME NEW c \in Calls, Serve(c)
      PROVE  TypeInv'
  <2>1. rx[c] \in Seq(Cmd) /\ rx[c] # <<>> /\ live[c] = "open" /\ served[c] \in Nat
    BY <1>8 DEF Serve, CommandReady, TypeInv, Types
  <2>2. Head(rx[c]) \in Cmd /\ Tail(rx[c]) \in Seq(Cmd)
    BY <2>1
  <2>3. served' \in [Calls -> Nat]
        /\ UNCHANGED <<open, guard, entity, sent, clients, inserted, tasks, handled>>
    BY <1>8, <2>1 DEF Serve, TypeInv, Types
  <2>4. CASE Head(rx[c]).do = "Send"
    <3>1. NextRound(c) /\ rx' = [rx EXCEPT ![c] = Tail(@)] /\ UNCHANGED <<live, stream>>
          /\ Put(c, [type |-> "Payload", payload |-> Head(rx[c])])
      BY <1>8, <2>4 DEF Serve
    <3>2. PICK m \in Out : m = [type |-> "Payload", payload |-> Head(rx[c])]
      BY <2>2 DEF Out
    <3>3. out' = [out EXCEPT ![c] = Append(@, m)]
      BY <3>1, <3>2 DEF Put
    <3>4. Append(out[c], m) \in Seq(Out)
      BY DEF TypeInv, Types
    <3>5. out' \in [Calls -> Seq(Out)]
      BY <3>3, <3>4 DEF TypeInv, Types
    <3> QED
      <4>1. \A d \in Calls : live'[d] # "open" => rx'[d] = <<>> /\ (live[d] # "open" \/ d = c)
        BY <2>1, <3>1 DEF TypeInv, Types, TypeOK
      <4>2. TypeOK'
        BY <2>3, <3>1, <4>1, RoundTypeOK
      <4>3. Types'
        BY <2>2, <2>3, <3>1, <3>5, RoundTypes DEF TypeInv, Types
      <4> QED
        BY <4>2, <4>3 DEF TypeInv
  <2>5. CASE Head(rx[c]).do # "Send"
    <3>1. End(c) /\ NextRound(c) /\ out' = out
      BY <1>8, <2>5, EndTypes DEF Serve
    <3> QED
      <4>1. \A d \in Calls : live'[d] # "open" => rx'[d] = <<>> /\ (live[d] # "open" \/ d = c)
        BY <3>1, EndTypes DEF TypeInv, TypeOK
      <4>2. TypeOK'
        BY <2>3, <3>1, <4>1, RoundTypeOK
      <4>3. Types'
        BY <2>3, <3>1, EndTypes, RoundTypes DEF TypeInv, Types
      <4> QED
        BY <4>2, <4>3 DEF TypeInv
  <2> QED
    BY <2>4, <2>5
<1>9. ASSUME NEW t \in tasks, Run(t)
      PROVE  TypeInv'
  <2>1. t \in Cmd /\ entity_key(t.dst) \in Keys
    BY KeyOf DEF TypeInv, Types, Cmd
  <2> DEFINE d == clients[entity_key(t.dst)]
  <2>2. d \in Calls \cup {Nobody}
    BY <2>1 DEF TypeInv, Types
  <2>3. rx' = (IF d # Nobody /\ live[d] = "open" THEN [rx EXCEPT ![d] = Append(@, t)] ELSE rx)
        /\ tasks' = tasks \ {t}
        /\ UNCHANGED <<open, guard, live, client, handled_replies, registry, history, out>>
    BY <1>9 DEF Run
  <2> HIDE DEF d
  <2>4. CASE d # Nobody /\ live[d] = "open"
    <3>1. d \in Calls /\ Append(rx[d], t) \in Seq(Cmd)
      BY <2>1, <2>2, <2>4 DEF TypeInv, Types
    <3>2. rx' \in [Calls -> Seq(Cmd)] /\ \A e \in Calls : live[e] # "open" => rx'[e] = rx[e]
      BY <2>3, <2>4, <3>1 DEF TypeInv, Types
    <3> QED
      BY <2>3, <3>2 DEF TypeInv, Types, TypeOK
  <2>5. CASE ~(d # Nobody /\ live[d] = "open")
    BY <2>3, <2>5 DEF TypeInv, Types, TypeOK
  <2> QED
    BY <2>4, <2>5
<1> QED
  BY <1>1, <1>2, <1>3, <1>4, <1>5, <1>6, <1>7, <1>8, <1>9 DEF Next

LEMMA TypeInvAlways == Spec => []TypeInv
<1>1. Init => TypeInv
  BY TestRelayAssumption DEF Init, TypeInv, Types, TypeOK
<1> QED
  BY <1>1, RelayTypeStep, PTL DEF Spec

\* The variables keep to their types, and a call that is not live has nothing under way.
THEOREM RelayTypeCorrect == Spec => []TypeOK
BY TypeInvAlways, PTL DEF TypeInv
-----------------------------------------------------------------------------
(* What a client has been sent. *)

Kind(q, t) == {i \in DOMAIN q : q[i].type = t}

InOrder(q) == \A i, j \in Kind(q, "Answer") : i < j => q[i].n < q[j].n

\* With h requests past and k runs of the handler, none was run twice and those that were not
\* run are no more than the payloads.
Owed(q, h, k) == k <= h /\ h - k <= Cardinality(Kind(q, "Payload"))

AnsweredTo(q, h) == \A i \in Kind(q, "Answer") : q[i].n <= h

LEMMA KindTypes ==
  ASSUME NEW q \in Seq(Out), NEW t
  PROVE  /\ Len(q) \in Nat /\ DOMAIN q = 1 .. Len(q)
         /\ Kind(q, t) \subseteq 1 .. Len(q) /\ IsFiniteSet(Kind(q, t))
         /\ Cardinality(Kind(q, t)) \in Nat
         /\ \A i \in Kind(q, "Answer") : q[i].n \in Nat
<1>1. Len(q) \in Nat /\ DOMAIN q = 1 .. Len(q)
  OBVIOUS
<1>2. Kind(q, t) \subseteq 1 .. Len(q) /\ IsFiniteSet(1 .. Len(q))
  BY <1>1, FS_Interval DEF Kind
<1>3. \A m \in Out : m.type = "Answer" => m.n \in Nat
  BY DEF Out
<1> QED
  BY <1>1, <1>2, <1>3, FS_Subset, FS_CardinalityType DEF Kind

LEMMA OutAppend ==
  ASSUME NEW q \in Seq(Out), NEW m \in Out, NEW t
  PROVE  /\ m.type = t =>
              /\ Kind(Append(q, m), t) = Kind(q, t) \cup {Len(q) + 1}
              /\ Cardinality(Kind(Append(q, m), t)) = Cardinality(Kind(q, t)) + 1
         /\ m.type # t => Kind(Append(q, m), t) = Kind(q, t)
<1> DEFINE r == Append(q, m)
<1>1. /\ r[Len(q) + 1] = m /\ Len(q) \in Nat
      /\ DOMAIN q = 1 .. Len(q) /\ DOMAIN r = 1 .. Len(q) + 1
      /\ \A i \in 1 .. Len(q) : r[i] = q[i]
  OBVIOUS
<1> HIDE DEF r
<1>2. m.type = t => Kind(r, t) = Kind(q, t) \cup {Len(q) + 1}
  BY <1>1 DEF Kind
<1>3. m.type # t => Kind(r, t) = Kind(q, t)
  BY <1>1 DEF Kind
<1>4. IsFiniteSet(Kind(q, t)) /\ Len(q) + 1 \notin Kind(q, t)
  BY <1>1, KindTypes
<1>5. Cardinality(Kind(q, t) \cup {Len(q) + 1}) = Cardinality(Kind(q, t)) + 1
  BY <1>4, FS_AddElement
<1> QED
  BY <1>2, <1>3, <1>5 DEF r

\* The handler is run for the next request, and it is answered.
LEMMA OutAnswer ==
  ASSUME NEW q \in Seq(Out), NEW m \in Out, m.type = "Answer", NEW r, r = Append(q, m),
         NEW k \in Nat, InOrder(q), AnsweredTo(q, m.n - 1), Owed(q, m.n - 1, k)
  PROVE  InOrder(r) /\ AnsweredTo(r, m.n) /\ Owed(r, m.n, k + 1)
<1>0. "Payload" # "Answer"
  OBVIOUS
<1>1. /\ r \in Seq(Out) /\ r[Len(q) + 1] = m /\ \A i \in 1 .. Len(q) : r[i] = q[i]
      /\ Kind(r, "Answer") = Kind(q, "Answer") \cup {Len(q) + 1}
      /\ Kind(r, "Payload") = Kind(q, "Payload")
  <2>1. /\ r \in Seq(Out) /\ r[Len(q) + 1] = m /\ \A i \in 1 .. Len(q) : r[i] = q[i]
    OBVIOUS
  <2>2. Kind(r, "Answer") = Kind(q, "Answer") \cup {Len(q) + 1}
    BY OutAppend
  <2>3. Kind(r, "Payload") = Kind(q, "Payload")
    BY <1>0, OutAppend
  <2> QED
    BY <2>1, <2>2, <2>3
<1>2. /\ Len(q) \in Nat /\ m.n \in Nat /\ Cardinality(Kind(q, "Payload")) \in Nat
      /\ \A i \in Kind(q, "Answer") : i \in 1 .. Len(q) /\ q[i].n \in Nat
  BY KindTypes DEF Out
<1>3. InOrder(r)
  BY <1>1, <1>2 DEF InOrder, AnsweredTo
<1>4. AnsweredTo(r, m.n)
  BY <1>1, <1>2 DEF AnsweredTo
<1>5. Owed(r, m.n, k + 1)
  BY <1>1, <1>2 DEF Owed
<1> QED
  BY <1>3, <1>4, <1>5

\* A payload pays for the request that is dropped with it.
LEMMA OutPayload ==
  ASSUME NEW q \in Seq(Out), NEW m \in Out, m.type = "Payload", NEW r, r = Append(q, m),
         NEW h \in Int, NEW g \in Int, h <= g, g <= h + 1, NEW k \in Nat,
         InOrder(q), AnsweredTo(q, h), Owed(q, h, k)
  PROVE  InOrder(r) /\ AnsweredTo(r, g) /\ Owed(r, g, k)
<1>0. "Payload" # "Answer"
  OBVIOUS
<1>1. /\ r \in Seq(Out) /\ \A i \in 1 .. Len(q) : r[i] = q[i]
      /\ Kind(r, "Answer") = Kind(q, "Answer")
      /\ Cardinality(Kind(r, "Payload")) = Cardinality(Kind(q, "Payload")) + 1
  <2>1. /\ r \in Seq(Out) /\ \A i \in 1 .. Len(q) : r[i] = q[i]
    OBVIOUS
  <2>2. Kind(r, "Answer") = Kind(q, "Answer")
    BY <1>0, OutAppend
  <2>3. Cardinality(Kind(r, "Payload")) = Cardinality(Kind(q, "Payload")) + 1
    BY OutAppend
  <2> QED
    BY <2>1, <2>2, <2>3
<1>2. /\ Cardinality(Kind(q, "Payload")) \in Nat
      /\ \A i \in Kind(q, "Answer") : i \in 1 .. Len(q) /\ q[i].n \in Nat
  BY KindTypes
<1>3. InOrder(r) /\ AnsweredTo(r, g)
  BY <1>1, <1>2 DEF InOrder, AnsweredTo
<1>4. Owed(r, g, k)
  BY <1>1, <1>2 DEF Owed
<1> QED
  BY <1>3, <1>4
-----------------------------------------------------------------------------
(* A call: n requests sent, s of them on their way and r read. *)

Numbered(n, s, r) ==
  /\ \A i \in 1 .. Len(s) : s[i].n = n - Len(s) + i
  /\ r # None => r.n = n - Len(s)

\* The requests dealt with: handled, or dropped.
PastOf(n, s, r) == n - Len(s) - (IF r = None THEN 0 ELSE 1)

CallInv(c) ==
  /\ Numbered(sent[c], stream[c], reading[c])
  /\ InOrder(out[c])
  /\ live[c] # "ended" =>
       LET h == PastOf(sent[c], stream[c], reading[c]) IN
         AnsweredTo(out[c], h) /\ Owed(out[c], h, handled[c])

LEMMA CallFrame ==
  ASSUME NEW c \in Calls, CallInv(c),
         sent'[c] = sent[c], stream'[c] = stream[c], reading'[c] = reading[c], out'[c] = out[c],
         handled'[c] = handled[c], live'[c] # "ended" => live[c] # "ended"
  PROVE  CallInv(c)'
BY DEF CallInv

LEMMA CallEnds ==
  ASSUME TypeInv, NEW c \in Calls, CallInv(c), NEW d \in Calls, End(d), UNCHANGED <<out, sent, handled>>
  PROVE  CallInv(c)'
<1>1. CASE d = c
  <2>1. stream'[c] = <<>> /\ reading'[c] = None /\ live'[c] = "ended"
    BY <1>1, EndTypes, RoundTypes
  <2>2. Numbered(sent'[c], stream'[c], reading'[c])
    BY <2>1 DEF Numbered
  <2> QED
    BY <2>1, <2>2 DEF CallInv
<1>2. CASE d # c
  <2>1. stream'[c] = stream[c] /\ reading'[c] = reading[c] /\ live'[c] = live[c]
    BY <1>2, EndTypes, RoundTypes
  <2> QED
    BY <2>1, CallFrame
<1> QED
  BY <1>1, <1>2

LEMMA CallStep ==
  ASSUME TypeInv, [Next]_vars, NEW c \in Calls, CallInv(c)
  PROVE  CallInv(c)'
<1> USE DEF client, handled_replies, registry, history
<1>0. PICK n, s, r, q, k :
        n = sent[c] /\ s = stream[c] /\ r = reading[c] /\ q = out[c] /\ k = handled[c]
  OBVIOUS
<1>t. n \in Nat /\ s \in Seq(Req) /\ r \in Req \cup {None} /\ q \in Seq(Out) /\ Len(s) \in Nat
      /\ k \in Nat
  BY <1>0 DEF TypeInv, Types
<1>i. /\ Numbered(n, s, r) /\ InOrder(q)
      /\ live[c] # "ended" => AnsweredTo(q, PastOf(n, s, r)) /\ Owed(q, PastOf(n, s, r), k)
  BY <1>0 DEF CallInv
<1>1. CASE Guard \/ Release \/ Drop \/ UNCHANGED vars
  BY <1>1, CallFrame DEF Guard, Release, Drop, vars
<1>2. ASSUME NEW d \in Calls, Connect(d)
      PROVE  CallInv(c)'
  <2>1. live'[c] = "ended" \/ live[c] # "ended"
    BY <1>2 DEF Connect, TypeInv, Types
  <2> QED
    BY <1>2, <2>1, CallFrame DEF Connect
<1>3. ASSUME NEW d \in Calls, NEW m \in Requests(d), Request(d, m)
      PROVE  CallInv(c)'
  <2>1. CASE d = c
    <3>1. m \in Req /\ m.n = n + 1
      BY <1>0, <1>t, <1>3, <2>1 DEF Requests, Req
    <3>2. /\ sent'[c] = n + 1 /\ stream'[c] = Append(s, m)
          /\ reading'[c] = r /\ out'[c] = q /\ handled'[c] = k /\ live'[c] = live[c]
      BY <1>0, <1>3, <2>1 DEF Request, TypeInv, Types
    <3>3. /\ Len(Append(s, m)) = Len(s) + 1
          /\ \A i \in 1 .. Len(s) + 1 : Append(s, m)[i] = IF i = Len(s) + 1 THEN m ELSE s[i]
      BY <1>t, <3>1
    <3>4. PICK z : z = Append(s, m)
      OBVIOUS
    <3>5. Numbered(n + 1, z, r)
      <4>1. \A i \in 1 .. Len(s) : z[i].n = n - Len(s) + i
        BY <1>t, <1>i, <3>3, <3>4 DEF Numbered
      <4>2. z[Len(s) + 1].n = n + 1 /\ Len(z) = Len(s) + 1
        BY <1>t, <3>1, <3>3, <3>4
      <4>0. PICK j \in Nat : j = n + 1
        BY <1>t
      <4>3. r # None => r.n = j - Len(z)
        <5>1. j - Len(z) = n - Len(s)
          BY <1>t, <4>0, <4>2
        <5> QED
          BY <1>i, <5>1 DEF Numbered
      <4>4. \A i \in 1 .. Len(z) : z[i].n = j - Len(z) + i
        <5>1. 1 .. Len(z) = 1 .. Len(s) + 1 /\ j - Len(z) = n - Len(s)
          BY <1>t, <4>0, <4>2
        <5>2. z[Len(s) + 1].n = n - Len(s) + (Len(s) + 1)
          BY <1>t, <4>2
        <5>3. \A i \in 1 .. Len(s) + 1 : i \in 1 .. Len(s) \/ i = Len(s) + 1
          BY <1>t
        <5>4. \A i \in 1 .. Len(s) + 1 : z[i].n = n - Len(s) + i
          BY <4>1, <5>2, <5>3
        <5> QED
          BY <5>1, <5>4
      <4>5. Numbered(j, z, r)
        BY <4>3, <4>4 DEF Numbered
      <4> QED
        BY <4>0, <4>5
    <3>6. PastOf(n + 1, z, r) = PastOf(n, s, r)
      BY <1>t, <3>3, <3>4 DEF PastOf
    <3> QED
      BY <1>i, <3>2, <3>4, <3>5, <3>6 DEF CallInv
  <2>2. CASE d # c
    BY <1>3, <2>2, CallFrame DEF Request, TypeInv, Types
  <2> QED
    BY <2>1, <2>2
<1>4. ASSUME NEW d \in Calls, Leave(d)
      PROVE  CallInv(c)'
  BY <1>4, CallEnds DEF Leave
<1>5. ASSUME NEW d \in Calls, Read(d)
      PROVE  CallInv(c)'
  <2>1. CASE d = c
    <3>1. s # <<>> /\ phase[c] = "stream" /\ r = None
      BY <1>0, <1>5, <2>1 DEF Read, MessageReady, TypeInv, TypeOK
    <3>2. /\ sent'[c] = n /\ stream'[c] = Tail(s) /\ reading'[c] = Head(s)
          /\ out'[c] = q /\ handled'[c] = k /\ live'[c] = live[c]
      BY <1>0, <1>5, <2>1 DEF Read, TypeInv, Types
    <3>3. /\ Len(Tail(s)) = Len(s) - 1 /\ Head(s) = s[1] /\ Len(s) \in Nat \ {0}
          /\ \A i \in 1 .. Len(s) - 1 : Tail(s)[i] = s[i + 1]
      BY <1>t, <3>1
    <3>4. PICK z, y : z = Tail(s) /\ y = Head(s)
      OBVIOUS
    <3>5. y \in Req /\ y # None
      BY <1>t, <3>1, <3>4, ReqTypes
    <3>6. Numbered(n, z, y)
      BY <1>t, <1>i, <3>3, <3>4 DEF Numbered
    <3>7. PastOf(n, z, y) = PastOf(n, s, r)
      BY <1>t, <3>1, <3>3, <3>4, <3>5 DEF PastOf
    <3> QED
      BY <1>i, <3>2, <3>4, <3>6, <3>7 DEF CallInv
  <2>2. CASE d # c
    BY <1>5, <2>2, CallFrame DEF Read, TypeInv, Types
  <2> QED
    BY <2>1, <2>2
<1>6. ASSUME NEW d \in Calls, Insert(d)
      PROVE  CallInv(c)'
  BY <1>6, CallFrame DEF Insert
<1>7. ASSUME NEW d \in Calls, NEW o \in Outcomes, NEW dst \in Entities, Handle(d, o, dst)
      PROVE  CallInv(c)'
  <2>0. UNCHANGED <<sent, stream, live>> /\ NextRound(d)
        /\ handled' = [handled EXCEPT ![d] = @ + 1]
        /\ IF o.answers
             THEN out' = [out EXCEPT ![d] = Append(@, [type |-> "Answer", n |-> reading[d].n])]
             ELSE out' = out
    BY <1>7 DEF Handle, Put
  <2>1. CASE d = c
    <3>1. r # None /\ live[c] = "open" /\ r \in Req
      BY <1>0, <1>7, <1>t, <2>1 DEF Handle, TypeInv, TypeOK
    <3>2. r.n \in Nat
      BY <3>1, ReqTypes
    <3>3. PICK m \in Out : m = [type |-> "Answer", n |-> r.n]
      BY <3>2 DEF Out
    <3>4. sent'[c] = n /\ stream'[c] = s /\ reading'[c] = None /\ live'[c] = live[c]
          /\ handled'[c] = k + 1
      BY <1>0, <2>0, <2>1, RoundTypes DEF TypeInv, Types
    <3>5. r.n = n - Len(s)
      BY <1>i, <3>1 DEF Numbered
    <3>6. PastOf(n, s, r) = r.n - 1 /\ PastOf(n, s, None) = r.n
      BY <1>t, <3>1, <3>5 DEF PastOf
    <3>7. AnsweredTo(q, r.n - 1) /\ Owed(q, r.n - 1, k)
      BY <1>i, <3>1, <3>6
    <3>8. Numbered(n, s, None)
      BY <1>i DEF Numbered
    <3>9. PICK z : z = out'[c]
      OBVIOUS
    <3>10. InOrder(z) /\ AnsweredTo(z, r.n) /\ Owed(z, r.n, k + 1)
      <4>1. CASE o.answers
        <5>1. z = Append(q, m)
          BY <1>0, <2>0, <2>1, <3>3, <3>9, <4>1 DEF TypeInv, Types
        <5>2. m.type = "Answer" /\ m.n = r.n
          BY <3>3
        <5>3. InOrder(z) /\ AnsweredTo(z, m.n) /\ Owed(z, m.n, k + 1)
          BY <1>t, <1>i, <3>7, <5>1, <5>2, OutAnswer
        <5> QED
          BY <5>2, <5>3
      <4>2. CASE ~o.answers
        <5>1. z = q
          BY <1>0, <2>0, <3>9, <4>2
        <5>2. AnsweredTo(q, r.n)
          BY <1>t, <3>2, <3>7, KindTypes DEF AnsweredTo
        <5>3. Owed(q, r.n, k + 1)
          BY <1>t, <3>2, <3>7, KindTypes DEF Owed
        <5> QED
          BY <1>i, <5>1, <5>2, <5>3
      <4> QED
        BY <4>1, <4>2
    <3>11. PICK j : j = handled'[c] /\ j = k + 1
      BY <3>4
    <3>12. Numbered(sent'[c], stream'[c], reading'[c])
      BY <3>4, <3>8
    <3>13. PastOf(sent'[c], stream'[c], reading'[c]) = r.n
      BY <3>4, <3>6
    <3>14. InOrder(out'[c]) /\ AnsweredTo(out'[c], r.n)
      BY <3>9, <3>10
    <3>15. Owed(out'[c], r.n, handled'[c])
      <4>1. Owed(z, r.n, j)
        BY <3>10, <3>11
      <4> QED
        BY <3>9, <3>11, <4>1
    <3> QED
      BY <3>12, <3>13, <3>14, <3>15 DEF CallInv
  <2>2. CASE d # c
    <3>1. reading'[c] = reading[c]
      BY <2>0, <2>2, RoundTypes
    <3>2. handled'[c] = handled[c]
      BY <2>0, <2>2 DEF TypeInv, Types
    <3>3. out'[c] = out[c]
      <4>1. CASE o.answers
        <5>1. out' = [out EXCEPT ![d] = Append(@, [type |-> "Answer", n |-> reading[d].n])]
          BY <2>0, <4>1
        <5> QED
          BY <2>2, <5>1 DEF TypeInv, Types
      <4>2. CASE ~o.answers
        BY <2>0, <4>2
      <4> QED
        BY <4>1, <4>2
    <3> QED
      BY <2>0, <3>1, <3>2, <3>3, CallFrame
  <2> QED
    BY <2>1, <2>2
<1>8. ASSUME NEW d \in Calls, Serve(d)
      PROVE  CallInv(c)'
  <2>1. CASE Head(rx[d]).do # "Send"
    BY <1>8, <2>1, CallEnds DEF Serve
  <2>2. CASE Head(rx[d]).do = "Send"
    <3>0. UNCHANGED <<sent, stream, live, handled>> /\ NextRound(d)
          /\ out' = [out EXCEPT ![d] = Append(@, [type |-> "Payload", payload |-> Head(rx[d])])]
      BY <1>8, <2>2 DEF Serve, Put
    <3>1. CASE d = c
      <4>1. live[c] = "open" /\ rx[c] \in Seq(Cmd) /\ rx[c] # <<>>
        BY <1>8, <3>1 DEF Serve, CommandReady, TypeInv, Types
      <4>2. Head(rx[c]) \in Cmd
        BY <4>1
      <4>3. PICK m \in Out : m = [type |-> "Payload", payload |-> Head(rx[c])]
        BY <4>2 DEF Out
      <4>4. sent'[c] = n /\ stream'[c] = s /\ reading'[c] = None /\ live'[c] = live[c]
            /\ handled'[c] = k
        BY <1>0, <3>0, <3>1, RoundTypes
      <4>5. out'[c] = Append(q, m)
        BY <1>0, <3>0, <3>1, <4>3 DEF TypeInv, Types
      <4>6. PICK h \in Int, g \in Int : h = PastOf(n, s, r) /\ g = PastOf(n, s, None)
        <5>2. PastOf(n, s, None) = n - Len(s)
          BY <1>t DEF PastOf
        <5>3. PastOf(n, s, r) = n - Len(s) \/ PastOf(n, s, r) = n - Len(s) - 1
          BY <1>t DEF PastOf
        <5>4. PastOf(n, s, r) \in Int /\ PastOf(n, s, None) \in Int
          BY <1>t, <5>2, <5>3
        <5> QED
          BY <5>4
      <4>7. h <= g /\ g <= h + 1
        BY <1>t, <4>6 DEF PastOf
      <4>8. PICK z : z = Append(q, m)
        OBVIOUS
      <4>9. m.type = "Payload"
        BY <4>3
      <4>10. InOrder(z) /\ AnsweredTo(z, g) /\ Owed(z, g, k)
        <5>1. AnsweredTo(q, h) /\ Owed(q, h, k)
          BY <1>i, <4>1, <4>6
        <5> QED
          BY <1>t, <1>i, <4>7, <4>8, <4>9, <5>1, OutPayload
      <4>11. Numbered(n, s, None)
        BY <1>i DEF Numbered
      <4> QED
        BY <4>4, <4>5, <4>6, <4>8, <4>10, <4>11 DEF CallInv
    <3>2. CASE d # c
      <4>1. reading'[c] = reading[c] /\ out'[c] = out[c] /\ handled'[c] = handled[c]
        BY <3>0, <3>2, RoundTypes DEF TypeInv, Types
      <4> QED
        BY <3>0, <4>1, CallFrame
    <3> QED
      BY <3>1, <3>2
  <2> QED
    BY <2>1, <2>2
<1>9. ASSUME NEW t \in tasks, Run(t)
      PROVE  CallInv(c)'
  BY <1>9, CallFrame DEF Run
<1> QED
  BY <1>1, <1>2, <1>3, <1>4, <1>5, <1>6, <1>7, <1>8, <1>9 DEF Next

LEMMA CallInvAlways == Spec => [](\A c \in Calls : CallInv(c))
<1>1. ASSUME Init
      PROVE  \A c \in Calls : CallInv(c)
  <2>1. Kind(<<>>, "Answer") = {} /\ Kind(<<>>, "Payload") = {}
    BY DEF Kind
  <2>2. InOrder(<<>>) /\ AnsweredTo(<<>>, 0)
    BY <2>1 DEF InOrder, AnsweredTo
  <2>4. Owed(<<>>, 0, 0)
    <3>1. PICK m \in Nat : m = Cardinality(Kind(<<>>, "Payload")) /\ m = 0
      BY <2>1, FS_EmptySet
    <3>2. 0 <= 0 /\ 0 - 0 <= m
      BY <3>1
    <3> QED
      BY <3>1, <3>2 DEF Owed
  <2>3. Numbered(0, <<>>, None) /\ PastOf(0, <<>>, None) = 0
    <3>1. PICK z : z = <<>> /\ Len(z) = 0
      OBVIOUS
    <3>2. Numbered(0, z, None)
      BY <3>1 DEF Numbered
    <3>3. PastOf(0, z, None) = 0
      <4>1. PICK k \in Int : k = Len(z) /\ k = 0
        BY <3>1
      <4>2. 0 - k - 0 = 0
        BY <4>1
      <4>3. PastOf(0, z, None) = 0 - k - 0
        BY <4>1 DEF PastOf
      <4> QED
        BY <4>2, <4>3
    <3> QED
      BY <3>1, <3>2, <3>3
  <2> QED
    BY <1>1, <2>2, <2>3, <2>4 DEF Init, CallInv
<1>2. ASSUME TypeInv, [Next]_vars, \A c \in Calls : CallInv(c)
      PROVE  (\A c \in Calls : CallInv(c))'
  BY <1>2, CallStep
<1> QED
  BY <1>1, <1>2, TypeInvAlways, PTL DEF Spec

\* relay_connect(): requests of a call are answered in the order in which they were sent,
\* and none of them twice.
THEOREM AnswersOrdered == Spec => []AnswersInOrder
<1>1. (\A c \in Calls : CallInv(c)) => AnswersInOrder
  BY DEF CallInv, InOrder, AnswersInOrder, Answers, Kind
<1> QED
  BY <1>1, CallInvAlways, PTL

\* The select! of relay_connect(): only a payload for the client can drop a request, and the
\* handler is run for every request but those, once, whatever it returns.
THEOREM LossesArePaid == Spec => []LossesPaid
<1>1. ASSUME \A c \in Calls : CallInv(c)
      PROVE  LossesPaid
  <2>1. \A c \in Calls : /\ Payloads(c) = Kind(out[c], "Payload")
                         /\ Past(c) = PastOf(sent[c], stream[c], reading[c])
    BY DEF Payloads, Kind, Past, PastOf
  <2> QED
    BY <1>1, <2>1 DEF CallInv, Owed, LossesPaid
<1> QED
  BY <1>1, CallInvAlways, PTL
-----------------------------------------------------------------------------
(* The registry. *)

\* c was the last to register under key when n calls had registered, or registered later.
LastUnder(c, key, n) ==
  \E j \in DOMAIN inserted :
    /\ inserted[j] = c /\ entity_key(entity[c]) = key
    /\ \A k \in j + 1 .. n : entity_key(entity[inserted[k]]) # key

Due(c, t) == t.since <= Len(inserted) /\ LastUnder(c, entity_key(t.dst), t.since)

RegistryInv ==
  /\ \A t \in tasks : t.since <= Len(inserted)
  /\ \A key \in Keys : clients[key] # Nobody => LastUnder(clients[key], key, Len(inserted))
  /\ \A c \in Calls : \A i \in 1 .. Len(rx[c]) : Due(c, rx[c][i])
  /\ \A c \in Calls : \A i \in Payloads(c) : Due(c, out[c][i].payload)

LEMMA InsertedGrows ==
  ASSUME TypeInv, [Next]_vars
  PROVE  /\ entity' = entity
         /\ Len(inserted) \in Nat /\ Len(inserted') \in Nat /\ Len(inserted) <= Len(inserted')
         /\ DOMAIN inserted = 1 .. Len(inserted) /\ DOMAIN inserted' = 1 .. Len(inserted')
         /\ \A k \in 1 .. Len(inserted) : inserted'[k] = inserted[k]
<1> USE DEF client, handled_replies, registry, history
<1>1. entity' = entity /\ (inserted' = inserted \/ \E c \in Calls : inserted' = Append(inserted, c))
  BY DEF Next, vars, Guard, Release, Drop, Connect, Leave, Read, Insert, Serve, Request, Handle, Run
<1>2. inserted \in Seq(Calls)
  BY DEF TypeInv, Types
<1>3. CASE inserted' = inserted
  BY <1>1, <1>2, <1>3
<1>4. ASSUME NEW c \in Calls, inserted' = Append(inserted, c)
      PROVE  /\ Len(inserted) \in Nat /\ Len(inserted') = Len(inserted) + 1
             /\ DOMAIN inserted = 1 .. Len(inserted) /\ DOMAIN inserted' = 1 .. Len(inserted')
             /\ \A k \in 1 .. Len(inserted) : inserted'[k] = inserted[k]
  BY <1>2, <1>4
<1> QED
  BY <1>1, <1>3, <1>4

LEMMA LastUnderKept ==
  ASSUME TypeInv, [Next]_vars, NEW c, NEW key, NEW n \in Nat, n <= Len(inserted),
         LastUnder(c, key, n)
  PROVE  LastUnder(c, key, n)'
<1>1. PICK j \in 1 .. Len(inserted) :
        /\ inserted[j] = c /\ entity_key(entity[c]) = key
        /\ \A k \in j + 1 .. n : entity_key(entity[inserted[k]]) # key
  BY InsertedGrows DEF LastUnder
<1>2. \A k \in j + 1 .. n : k \in 1 .. Len(inserted) /\ inserted'[k] = inserted[k]
  BY InsertedGrows
<1>3. j \in DOMAIN inserted' /\ inserted'[j] = c /\ entity' = entity
  BY <1>1, InsertedGrows
<1> QED
  BY <1>1, <1>2, <1>3 DEF LastUnder

LEMMA DueKept ==
  ASSUME TypeInv, [Next]_vars, NEW c, NEW t \in Cmd, Due(c, t)
  PROVE  Due(c, t)'
<1>1. t.since \in Nat /\ t.since <= Len(inserted) /\ LastUnder(c, entity_key(t.dst), t.since)
  BY DEF Due, Cmd
<1>2. LastUnder(c, entity_key(t.dst), t.since)'
  BY <1>1, LastUnderKept
<1> QED
  BY <1>1, <1>2, InsertedGrows DEF Due

\* A command for a call that is the last under its key is due.
LEMMA DueFromTask ==
  ASSUME TypeInv, RegistryInv, NEW t \in tasks, NEW c \in Calls, clients[entity_key(t.dst)] = c
  PROVE  t \in Cmd /\ Due(c, t)
<1>1. t \in Cmd /\ entity_key(t.dst) \in Keys /\ t.since \in Nat /\ t.since <= Len(inserted)
  BY KeyOf DEF TypeInv, Types, RegistryInv, Cmd
<1>2. LastUnder(c, entity_key(t.dst), Len(inserted))
  BY <1>1, TestRelayAssumption DEF RegistryInv
<1>3. Len(inserted) \in Nat /\ DOMAIN inserted = 1 .. Len(inserted)
  BY DEF TypeInv, Types
<1>4. LastUnder(c, entity_key(t.dst), t.since)
  BY <1>1, <1>2, <1>3 DEF LastUnder
<1> QED
  BY <1>1, <1>4 DEF Due

\* What a step can add to tasks, rx and out.
LEMMA TasksStep ==
  ASSUME TypeInv, [Next]_vars, NEW t \in tasks'
  PROVE  t \in tasks \/ t.since = Len(inserted)
<1> USE DEF client, handled_replies, registry, history
<1>1. ASSUME NEW c \in Calls, NEW o \in Outcomes, NEW dst \in Entities, Handle(c, o, dst)
      PROVE  t \in tasks \/ t.since = Len(inserted)
  BY <1>1 DEF Handle
<1>2. ASSUME NEW u \in tasks, Run(u)
      PROVE  t \in tasks
  BY <1>2 DEF Run
<1> QED
  BY <1>1, <1>2 DEF Next, vars, Guard, Release, Drop, Connect, Leave, Read, Insert, Serve, Request

LEMMA RxStep ==
  ASSUME TypeInv, [Next]_vars, NEW c \in Calls, NEW i \in 1 .. Len(rx'[c])
  PROVE  \/ \E k \in 1 .. Len(rx[c]) : rx'[c][i] = rx[c][k]
         \/ \E t \in tasks : rx'[c][i] = t /\ clients[entity_key(t.dst)] = c
<1> USE DEF client, handled_replies, registry, history
<1>0. rx[c] \in Seq(Cmd)
  BY DEF TypeInv, Types
<1>1. ASSUME NEW d \in Calls, End(d)
      PROVE  \E k \in 1 .. Len(rx[c]) : rx'[c][i] = rx[c][k]
  <2>1. CASE d = c
    <3>1. PICK z : z = rx'[c] /\ z = <<>> /\ Len(z) = 0
      BY <1>1, <2>1, EndTypes
    <3> QED
      BY <3>1
  <2>2. CASE d # c
    BY <1>1, <2>2, EndTypes
  <2> QED
    BY <2>1, <2>2
<1>2. ASSUME NEW d \in Calls, Leave(d)
      PROVE  \E k \in 1 .. Len(rx[c]) : rx'[c][i] = rx[c][k]
  BY <1>1, <1>2 DEF Leave
<1>3. ASSUME NEW d \in Calls, Serve(d)
      PROVE  \E k \in 1 .. Len(rx[c]) : rx'[c][i] = rx[c][k]
  <2>1. CASE Head(rx[d]).do # "Send"
    BY <1>1, <1>3, <2>1 DEF Serve
  <2>2. CASE Head(rx[d]).do = "Send"
    <3>1. rx' = [rx EXCEPT ![d] = Tail(@)] /\ rx[d] # <<>>
      BY <1>3, <2>2 DEF Serve, CommandReady
    <3>2. CASE d = c
      <4>1. rx'[c] = Tail(rx[c]) /\ rx[c] # <<>>
        BY <3>1, <3>2 DEF TypeInv, Types
      <4>2. /\ Len(Tail(rx[c])) = Len(rx[c]) - 1 /\ Len(rx[c]) \in Nat
            /\ \A k \in 1 .. Len(rx[c]) - 1 : Tail(rx[c])[k] = rx[c][k + 1]
        BY <1>0, <4>1
      <4>3. i + 1 \in 1 .. Len(rx[c]) /\ rx'[c][i] = rx[c][i + 1]
        BY <4>1, <4>2
      <4> QED
        BY <4>3
    <3>3. CASE d # c
      BY <3>1, <3>3 DEF TypeInv, Types
    <3> QED
      BY <3>2, <3>3
  <2> QED
    BY <2>1, <2>2
<1>4. ASSUME NEW t \in tasks, Run(t)
      PROVE  \/ \E k \in 1 .. Len(rx[c]) : rx'[c][i] = rx[c][k]
             \/ \E u \in tasks : rx'[c][i] = u /\ clients[entity_key(u.dst)] = c
  <2>1. t \in Cmd
    BY DEF TypeInv, Types
  <2>2. CASE rx'[c] = rx[c]
    BY <2>2
  <2>3. CASE rx'[c] # rx[c]
    <3>1. clients[entity_key(t.dst)] = c /\ rx'[c] = Append(rx[c], t)
      BY <1>4, <2>3 DEF Run, TypeInv, Types
    <3>2. /\ Len(Append(rx[c], t)) = Len(rx[c]) + 1 /\ Len(rx[c]) \in Nat
          /\ Append(rx[c], t)[Len(rx[c]) + 1] = t
          /\ \A k \in 1 .. Len(rx[c]) : Append(rx[c], t)[k] = rx[c][k]
      BY <1>0, <2>1
    <3> QED
      BY <3>1, <3>2
  <2> QED
    BY <2>2, <2>3
<1>5. CASE UNCHANGED rx
  BY <1>5
<1> QED
  BY <1>2, <1>3, <1>4, <1>5
  DEF Next, vars, Guard, Release, Drop, Connect, Read, Insert, Request, Handle

LEMMA OutStep ==
  ASSUME TypeInv, [Next]_vars, NEW c \in Calls, NEW i \in Payloads(c)'
  PROVE  \/ i \in Payloads(c) /\ out'[c][i] = out[c][i]
         \/ 1 \in 1 .. Len(rx[c]) /\ out'[c][i].payload = rx[c][1]
<1> USE DEF client, handled_replies, registry, history
<1>0. out[c] \in Seq(Out) /\ i \in DOMAIN out'[c] /\ out'[c][i].type = "Payload"
  BY DEF TypeInv, Types, Payloads
<1>1. ASSUME NEW m \in Out, out'[c] = Append(out[c], m)
      PROVE  \/ i \in Payloads(c) /\ out'[c][i] = out[c][i]
             \/ out'[c][i] = m
  BY <1>0, <1>1 DEF Payloads
<1>2. ASSUME NEW d \in Calls, NEW o \in Outcomes, NEW dst \in Entities, Handle(d, o, dst)
      PROVE  i \in Payloads(c) /\ out'[c][i] = out[c][i]
  <2>1. CASE d = c /\ o.answers
    <3>1. reading[c] \in Req
      BY <1>2, <2>1 DEF Handle, TypeInv, Types, TypeOK
    <3>2. PICK m \in Out : m = [type |-> "Answer", n |-> reading[c].n]
      BY <3>1, ReqTypes DEF Out
    <3>3. out'[c] = Append(out[c], m)
      BY <1>2, <2>1, <3>2 DEF Handle, Put, TypeInv, Types
    <3>4. m.type # "Payload"
      BY <3>2
    <3> QED
      BY <1>0, <1>1, <3>3, <3>4
  <2>2. CASE ~(d = c /\ o.answers)
    <3>1. out'[c] = out[c]
      BY <1>2, <2>2 DEF Handle, Put, TypeInv, Types
    <3> QED
      BY <1>0, <3>1 DEF Payloads
  <2> QED
    BY <2>1, <2>2
<1>3. ASSUME NEW d \in Calls, Serve(d)
      PROVE  \/ i \in Payloads(c) /\ out'[c][i] = out[c][i]
             \/ 1 \in 1 .. Len(rx[c]) /\ out'[c][i].payload = rx[c][1]
  <2>1. CASE d = c /\ Head(rx[d]).do = "Send"
    <3>1. rx[c] \in Seq(Cmd) /\ rx[c] # <<>>
      BY <1>3, <2>1 DEF Serve, CommandReady, TypeInv, Types
    <3>2. Head(rx[c]) = rx[c][1] /\ 1 \in 1 .. Len(rx[c]) /\ Head(rx[c]) \in Cmd
      BY <3>1
    <3>3. PICK m \in Out : m = [type |-> "Payload", payload |-> Head(rx[c])]
      BY <3>2 DEF Out
    <3>4. out'[c] = Append(out[c], m)
      BY <1>3, <2>1, <3>3 DEF Serve, Put, TypeInv, Types
    <3>5. m.payload = Head(rx[c])
      BY <3>3
    <3> QED
      BY <1>1, <3>2, <3>4, <3>5
  <2>2. CASE ~(d = c /\ Head(rx[d]).do = "Send")
    <3>1. out'[c] = out[c]
      BY <1>3, <2>2 DEF Serve, Put, TypeInv, Types
    <3> QED
      BY <1>0, <3>1 DEF Payloads
  <2> QED
    BY <2>1, <2>2
<1>4. CASE UNCHANGED out
  BY <1>0, <1>4 DEF Payloads
<1> QED
  BY <1>2, <1>3, <1>4
  DEF Next, vars, Guard, Release, Drop, Connect, Leave, Read, Insert, Request, Run
LEMMA ClientsStep ==
  ASSUME TypeInv, [Next]_vars, NEW key \in Keys,
         clients[key] # Nobody => LastUnder(clients[key], key, Len(inserted)),
         clients'[key] # Nobody
  PROVE  LastUnder(clients[key], key, Len(inserted))'
<1> USE DEF client, handled_replies, registry, history
<1>1. ASSUME NEW c \in Calls, Insert(c)
      PROVE  LastUnder(clients[key], key, Len(inserted))'
  <2> DEFINE n == Len(inserted)
  <2>1. /\ inserted' = Append(inserted, c) /\ entity' = entity /\ inserted \in Seq(Calls)
        /\ clients' = [clients EXCEPT ![entity_key(entity[c])] = c]
        /\ clients \in [Keys -> Calls \cup {Nobody}]
    BY <1>1 DEF Insert, TypeInv, Types
  <2>2. /\ n \in Nat /\ Len(inserted') = n + 1 /\ inserted'[n + 1] = c
        /\ DOMAIN inserted = 1 .. n /\ DOMAIN inserted' = 1 .. n + 1
        /\ \A k \in 1 .. n : inserted'[k] = inserted[k]
    BY <2>1
  <2> HIDE DEF n
  <2>3. CASE entity_key(entity[c]) = key
    <3>1. clients'[key] = c
      BY <2>1, <2>3
    <3>2. (n + 1) + 1 .. n + 1 = {} /\ n + 1 \in 1 .. n + 1
      BY <2>2
    <3> QED
      BY <2>1, <2>2, <2>3, <3>1, <3>2 DEF LastUnder
  <2>4. CASE entity_key(entity[c]) # key
    <3>1. clients'[key] = clients[key]
      BY <2>1, <2>4
    <3>2. PICK j \in 1 .. n :
            /\ inserted[j] = clients[key] /\ entity_key(entity[clients[key]]) = key
            /\ \A k \in j + 1 .. n : entity_key(entity[inserted[k]]) # key
      BY <2>2, <3>1 DEF LastUnder, n
    <3>3. \A k \in j + 1 .. n + 1 : entity_key(entity[inserted'[k]]) # key
      <4>1. ASSUME NEW k \in j + 1 .. n + 1, k # n + 1
            PROVE  k \in j + 1 .. n /\ k \in 1 .. n
        BY <2>2, <4>1
      <4> QED
        BY <2>2, <2>4, <3>2, <4>1
    <3>4. j \in DOMAIN inserted' /\ inserted'[j] = clients'[key]
      BY <2>2, <3>1, <3>2
    <3> QED
      BY <2>1, <2>2, <3>1, <3>2, <3>3, <3>4 DEF LastUnder
  <2> QED
    BY <2>3, <2>4
<1>2. CASE UNCHANGED <<clients, inserted, entity>>
  BY <1>2 DEF LastUnder
<1> QED
  BY <1>1, <1>2
  DEF Next, vars, Guard, Release, Drop, Connect, Leave, Read, Serve, Request, Handle, Run

LEMMA RegistryStep ==
  ASSUME TypeInv, TypeInv', [Next]_vars, RegistryInv
  PROVE  RegistryInv'
<1>1. ASSUME NEW t \in tasks'
      PROVE  t.since <= Len(inserted')
  <2>1. t.since <= Len(inserted)
    BY <1>1, TasksStep, InsertedGrows DEF RegistryInv
  <2>2. t.since \in Nat
    BY DEF TypeInv, Types, Cmd
  <2> QED
    BY <2>1, <2>2, InsertedGrows
<1>2. ASSUME NEW key \in Keys, clients'[key] # Nobody
      PROVE  LastUnder(clients[key], key, Len(inserted))'
  BY <1>2, ClientsStep DEF RegistryInv
<1>3. ASSUME NEW c \in Calls, NEW i \in 1 .. Len(rx'[c])
      PROVE  Due(c, rx[c][i])'
  <2>1. PICK t \in Cmd : t = rx'[c][i]
    BY DEF TypeInv, Types
  <2>2. Due(c, t)
    <3>1. CASE \E k \in 1 .. Len(rx[c]) : rx'[c][i] = rx[c][k]
      BY <2>1, <3>1 DEF RegistryInv
    <3>2. CASE \E u \in tasks : rx'[c][i] = u /\ clients[entity_key(u.dst)] = c
      BY <2>1, <3>2, DueFromTask
    <3> QED
      BY <3>1, <3>2, RxStep
  <2>3. Due(c, t)'
    BY <2>2, DueKept
  <2> QED
    BY <2>1, <2>3 DEF Due, LastUnder
<1>4. ASSUME NEW c \in Calls, NEW i \in Payloads(c)'
      PROVE  Due(c, out[c][i].payload)'
  <2>1. PICK t \in Cmd : t = out'[c][i].payload
    <3>1. out'[c] \in Seq(Out) /\ i \in DOMAIN out'[c] /\ out'[c][i].type = "Payload"
      BY DEF TypeInv, Types, Payloads
    <3>2. out'[c][i] \in Out
      BY <3>1
    <3>3. \A m \in Out : m.type = "Payload" => m.payload \in Cmd
      BY DEF Out
    <3> QED
      BY <3>1, <3>2, <3>3
  <2>2. Due(c, t)
    BY <2>1, OutStep DEF RegistryInv
  <2>3. Due(c, t)'
    BY <2>2, DueKept
  <2> QED
    BY <2>1, <2>3 DEF Due, LastUnder
<1>5. /\ \A t \in tasks' : t.since <= Len(inserted')
      /\ \A key \in Keys : clients'[key] # Nobody => LastUnder(clients[key], key, Len(inserted))'
      /\ \A c \in Calls : \A i \in 1 .. Len(rx'[c]) : Due(c, rx[c][i])'
      /\ \A c \in Calls : \A i \in Payloads(c)' : Due(c, out[c][i].payload)'
  BY <1>1, <1>2, <1>3, <1>4
<1> QED
  BY <1>5 DEF RegistryInv

\* ConnectedClients: a payload never goes to a call that another had replaced under its key
\* before the handler sent it, though the channel of that call is open and send() is late.
THEOREM NeverReplaced == Spec => []NeverToReplaced
<1>1. Init => RegistryInv
  <2>1. ASSUME Init
        PROVE  RegistryInv
    <3>1. PICK z : z = <<>> /\ 1 .. Len(z) = {} /\ DOMAIN z = {}
      OBVIOUS
    <3>2. \A c \in Calls : rx[c] = z /\ out[c] = z
      BY <2>1, <3>1 DEF Init
    <3>3. \A key \in Keys : clients[key] = Nobody
      BY <2>1 DEF Init
    <3>4. tasks = {}
      BY <2>1 DEF Init
    <3>5. \A c \in Calls : 1 .. Len(rx[c]) = {} /\ Payloads(c) = {}
      BY <3>1, <3>2 DEF Payloads
    <3> QED
      BY <3>3, <3>4, <3>5 DEF RegistryInv
  <2> QED
    BY <2>1
<1>2. TypeInv /\ TypeInv' /\ RegistryInv /\ [Next]_vars => RegistryInv'
  BY RegistryStep
<1>3. RegistryInv => NeverToReplaced
  BY DEF RegistryInv, Due, LastUnder, NeverToReplaced
<1> QED
  BY <1>1, <1>2, <1>3, TypeInvAlways, PTL DEF Spec
-----------------------------------------------------------------------------
(* Every command is in one place: with a task, in a channel, or sent. *)

Same(t, u) == t.from = u.from /\ t.n = u.n

Sent(q) == Kind(q, "Payload")

Once(T, R, O) ==
  /\ \A t, u \in T : Same(t, u) => t = u
  /\ \A t \in T, c \in Calls : \A i \in 1 .. Len(R[c]) : ~Same(t, R[c][i])
  /\ \A t \in T, c \in Calls : \A i \in Sent(O[c]) : ~Same(t, O[c][i].payload)
  /\ \A c, d \in Calls : \A i \in 1 .. Len(R[c]), j \in 1 .. Len(R[d]) :
       Same(R[c][i], R[d][j]) => c = d /\ i = j
  /\ \A c, d \in Calls : \A i \in 1 .. Len(R[c]), j \in Sent(O[d]) :
       ~Same(R[c][i], O[d][j].payload)
  /\ \A c, d \in Calls : \A i \in Sent(O[c]), j \in Sent(O[d]) :
       Same(O[c][i].payload, O[d][j].payload) => c = d /\ i = j

\* The request that a command comes from has been dealt with.
Dealt(t) == t.n <= PastOf(sent[t.from], stream[t.from], reading[t.from])

AllDealt(T, R, O) ==
  /\ \A t \in T : Dealt(t)
  /\ \A c \in Calls : \A i \in 1 .. Len(R[c]) : Dealt(R[c][i])
  /\ \A c \in Calls : \A i \in Sent(O[c]) : Dealt(O[c][i].payload)

OnceInv == Once(tasks, rx, out) /\ AllDealt(tasks, rx, out)

\* Commands go away: tasks end, and the channel of a call is dropped with what it holds.
LEMMA OnceFewer ==
  ASSUME NEW T, NEW R, NEW O, Once(T, R, O), NEW T2 \in SUBSET T, NEW R2,
         \A c \in Calls : R2[c] = R[c] \/ R2[c] = <<>>
  PROVE  Once(T2, R2, O)
<1>1. ASSUME NEW c \in Calls, NEW i \in 1 .. Len(R2[c])
      PROVE  R2[c] = R[c] /\ i \in 1 .. Len(R[c])
  <2>1. PICK z : z = <<>> /\ 1 .. Len(z) = {}
    OBVIOUS
  <2>2. R2[c] # z
    BY <1>1, <2>1
  <2> QED
    BY <1>1, <2>1, <2>2
<1>2. /\ \A t, u \in T2 : Same(t, u) => t = u
      /\ \A t \in T2, c \in Calls : \A i \in Sent(O[c]) : ~Same(t, O[c][i].payload)
      /\ \A c, d \in Calls : \A i \in Sent(O[c]), j \in Sent(O[d]) :
           Same(O[c][i].payload, O[d][j].payload) => c = d /\ i = j
  BY DEF Once
<1>3. \A t \in T2, c \in Calls : \A i \in 1 .. Len(R2[c]) : ~Same(t, R2[c][i])
  BY <1>1 DEF Once
<1>4. \A c, d \in Calls : \A i \in 1 .. Len(R2[c]), j \in 1 .. Len(R2[d]) :
        Same(R2[c][i], R2[d][j]) => c = d /\ i = j
  BY <1>1 DEF Once
<1>5. \A c, d \in Calls : \A i \in 1 .. Len(R2[c]), j \in Sent(O[d]) :
        ~Same(R2[c][i], O[d][j].payload)
  BY <1>1 DEF Once
<1> QED
  BY <1>2, <1>3, <1>4, <1>5 DEF Once

\* A handler starts a task for a request that no command comes from yet.
LEMMA OnceTask ==
  ASSUME NEW T, NEW R, NEW O, Once(T, R, O), NEW t, NEW O2,
         \A u \in T : ~Same(t, u) /\ ~Same(u, t),
         \A c \in Calls : \A i \in 1 .. Len(R[c]) : ~Same(t, R[c][i]),
         \A c \in Calls : \A i \in Sent(O[c]) : ~Same(t, O[c][i].payload),
         \A c \in Calls : /\ Sent(O2[c]) = Sent(O[c])
                          /\ \A i \in Sent(O[c]) : O2[c][i] = O[c][i]
  PROVE  Once(T \cup {t}, R, O2)
<1>1. \A u, v \in T \cup {t} : Same(u, v) => u = v
  BY DEF Once
<1>2. \A u \in T \cup {t}, c \in Calls : \A i \in 1 .. Len(R[c]) : ~Same(u, R[c][i])
  BY DEF Once
<1>3. \A u \in T \cup {t}, c \in Calls : \A i \in Sent(O2[c]) : ~Same(u, O2[c][i].payload)
  <2>1. ASSUME NEW u \in T \cup {t}, NEW c \in Calls, NEW i \in Sent(O2[c])
        PROVE  ~Same(u, O2[c][i].payload)
    <3>1. i \in Sent(O[c]) /\ O2[c][i] = O[c][i]
      BY <2>1
    <3>2. CASE u = t
      BY <3>1, <3>2
    <3>3. CASE u \in T
      BY <3>1, <3>3 DEF Once
    <3> QED
      BY <2>1, <3>2, <3>3
  <2> QED
    BY <2>1
<1>4. \A c, d \in Calls : \A i \in 1 .. Len(R[c]), j \in 1 .. Len(R[d]) :
        Same(R[c][i], R[d][j]) => c = d /\ i = j
  BY DEF Once
<1>5. ASSUME NEW c \in Calls, NEW d \in Calls, NEW i \in 1 .. Len(R[c]), NEW j \in Sent(O2[d])
      PROVE  ~Same(R[c][i], O2[d][j].payload)
  <2>1. j \in Sent(O[d]) /\ O2[d][j] = O[d][j]
    BY <1>5
  <2> QED
    BY <1>5, <2>1 DEF Once
<1>6. ASSUME NEW c \in Calls, NEW d \in Calls, NEW i \in Sent(O2[c]), NEW j \in Sent(O2[d]),
             Same(O2[c][i].payload, O2[d][j].payload)
      PROVE  c = d /\ i = j
  <2>1. /\ i \in Sent(O[c]) /\ O2[c][i] = O[c][i]
        /\ j \in Sent(O[d]) /\ O2[d][j] = O[d][j]
    BY <1>6
  <2> QED
    BY <1>6, <2>1 DEF Once
<1> QED
  BY <1>1, <1>2, <1>3, <1>4, <1>5, <1>6 DEF Once

\* An answer is no command.
LEMMA OnceSent ==
  ASSUME NEW T, NEW R, NEW O, Once(T, R, O), NEW O2,
         \A c \in Calls : /\ Sent(O2[c]) = Sent(O[c])
                          /\ \A i \in Sent(O[c]) : O2[c][i] = O[c][i]
  PROVE  Once(T, R, O2)
<1>1. /\ \A t, u \in T : Same(t, u) => t = u
      /\ \A t \in T, c \in Calls : \A i \in 1 .. Len(R[c]) : ~Same(t, R[c][i])
      /\ \A c, d \in Calls : \A i \in 1 .. Len(R[c]), j \in 1 .. Len(R[d]) :
           Same(R[c][i], R[d][j]) => c = d /\ i = j
  BY DEF Once
<1>2. ASSUME NEW c \in Calls, NEW i \in Sent(O2[c])
      PROVE  i \in Sent(O[c]) /\ O2[c][i].payload = O[c][i].payload
  BY <1>2
<1>3. \A t \in T, c \in Calls : \A i \in Sent(O2[c]) : ~Same(t, O2[c][i].payload)
  BY <1>2 DEF Once
<1>4. \A c, d \in Calls : \A i \in 1 .. Len(R[c]), j \in Sent(O2[d]) :
        ~Same(R[c][i], O2[d][j].payload)
  BY <1>2 DEF Once
<1>5. \A c, d \in Calls : \A i \in Sent(O2[c]), j \in Sent(O2[d]) :
        Same(O2[c][i].payload, O2[d][j].payload) => c = d /\ i = j
  BY <1>2 DEF Once
<1> QED
  BY <1>1, <1>3, <1>4, <1>5 DEF Once

\* A task puts its command into a channel.
LEMMA OncePut ==
  ASSUME NEW T, NEW R \in [Calls -> Seq(Cmd)], NEW O, Once(T, R, O), NEW t \in T, t \in Cmd,
         NEW d \in Calls
  PROVE  Once(T \ {t}, [R EXCEPT ![d] = Append(@, t)], O)
<1> DEFINE R2 == [R EXCEPT ![d] = Append(@, t)]
<1>1. ASSUME NEW c \in Calls, NEW i \in 1 .. Len(R2[c])
      PROVE  \/ i \in 1 .. Len(R[c]) /\ R2[c][i] = R[c][i]
             \/ c = d /\ i = Len(R[d]) + 1 /\ R2[c][i] = t
  <2>1. CASE c = d
    <3>1. R[d] \in Seq(Cmd) /\ R2[c] = Append(R[d], t)
      BY <2>1
    <3>2. /\ Len(Append(R[d], t)) = Len(R[d]) + 1 /\ Len(R[d]) \in Nat
          /\ Append(R[d], t)[Len(R[d]) + 1] = t
          /\ \A k \in 1 .. Len(R[d]) : Append(R[d], t)[k] = R[d][k]
      BY <3>1
    <3> HIDE DEF R2
    <3> QED
      BY <1>1, <2>1, <3>1, <3>2
  <2>2. CASE c # d
    BY <1>1, <2>2
  <2> QED
    BY <2>1, <2>2
<1> HIDE DEF R2
<1>2. /\ \A u, v \in T \ {t} : Same(u, v) => u = v
      /\ \A u \in T \ {t}, c \in Calls : \A i \in Sent(O[c]) : ~Same(u, O[c][i].payload)
      /\ \A c, e \in Calls : \A i \in Sent(O[c]), j \in Sent(O[e]) :
           Same(O[c][i].payload, O[e][j].payload) => c = e /\ i = j
  BY DEF Once
<1>3. \A u \in T \ {t}, c \in Calls : \A i \in 1 .. Len(R2[c]) : ~Same(u, R2[c][i])
  BY <1>1 DEF Once
<1>4. ASSUME NEW c \in Calls, NEW e \in Calls, NEW i \in 1 .. Len(R2[c]), NEW j \in 1 .. Len(R2[e]),
             Same(R2[c][i], R2[e][j])
      PROVE  c = e /\ i = j
  <2>1. Same(R2[e][j], R2[c][i])
    BY <1>4 DEF Same
  <2>2. CASE i \in 1 .. Len(R[c]) /\ R2[c][i] = R[c][i]
    <3>1. ~Same(t, R2[c][i])
      BY <2>2 DEF Once
    <3>2. j \in 1 .. Len(R[e]) /\ R2[e][j] = R[e][j]
      BY <1>1, <2>1, <3>1
    <3> QED
      BY <1>4, <2>2, <3>2 DEF Once
  <2>3. CASE c = d /\ i = Len(R[d]) + 1 /\ R2[c][i] = t
    <3>1. ~(j \in 1 .. Len(R[e]) /\ R2[e][j] = R[e][j])
      BY <1>4, <2>3 DEF Once
    <3> QED
      BY <1>1, <2>3, <3>1
  <2> QED
    BY <1>1, <2>2, <2>3
<1>5. ASSUME NEW c \in Calls, NEW e \in Calls, NEW i \in 1 .. Len(R2[c]), NEW j \in Sent(O[e])
      PROVE  ~Same(R2[c][i], O[e][j].payload)
  <2>1. CASE i \in 1 .. Len(R[c]) /\ R2[c][i] = R[c][i]
    BY <1>5, <2>1 DEF Once
  <2>2. CASE R2[c][i] = t
    BY <1>5, <2>2 DEF Once
  <2> QED
    BY <1>1, <2>1, <2>2
<1>6. Once(T \ {t}, R2, O)
  BY <1>2, <1>3, <1>4, <1>5 DEF Once
<1> QED
  BY <1>6 DEF R2

\* A call sends on the first command of its channel.
LEMMA OnceSend ==
  ASSUME NEW T, NEW R \in [Calls -> Seq(Cmd)], NEW O \in [Calls -> Seq(Out)], Once(T, R, O),
         NEW d \in Calls, R[d] # <<>>, NEW m \in Out, m.type = "Payload", m.payload = Head(R[d])
  PROVE  Once(T, [R EXCEPT ![d] = Tail(@)], [O EXCEPT ![d] = Append(@, m)])
<1> DEFINE R2 == [R EXCEPT ![d] = Tail(@)]
           O2 == [O EXCEPT ![d] = Append(@, m)]
           t == Head(R[d])
           k(c) == IF c = d THEN 1 ELSE 0
<1>0. R[d] \in Seq(Cmd) /\ 1 \in 1 .. Len(R[d]) /\ t = R[d][1] /\ Len(R[d]) \in Nat
      /\ Len(Tail(R[d])) = Len(R[d]) - 1
      /\ \A i \in 1 .. Len(R[d]) - 1 : Tail(R[d])[i] = R[d][i + 1]
  OBVIOUS
<1>1. ASSUME NEW c \in Calls, NEW i \in 1 .. Len(R2[c])
      PROVE  /\ i \in Int /\ i + k(c) \in 1 .. Len(R[c]) /\ R2[c][i] = R[c][i + k(c)]
             /\ c = d => i + k(c) # 1
  <2>1. CASE c = d
    <3>1. R2[c] = Tail(R[d]) /\ k(c) = 1
      BY <2>1
    <3> HIDE DEF R2, k
    <3> QED
      BY <1>0, <1>1, <2>1, <3>1
  <2>2. CASE c # d
    <3>1. R2[c] = R[c] /\ k(c) = 0
      BY <2>2
    <3> HIDE DEF R2, k
    <3> QED
      BY <1>1, <2>2, <3>1
  <2> QED
    BY <2>1, <2>2
<1>2. ASSUME NEW c \in Calls, NEW i \in Sent(O2[c])
      PROVE  \/ i \in Sent(O[c]) /\ O2[c][i] = O[c][i]
             \/ c = d /\ i = Len(O[d]) + 1 /\ O2[c][i].payload = t
  <2>1. CASE c = d
    <3>0. PICK q \in Seq(Out) : q = O[d]
      OBVIOUS
    <3>1. q = O[d] /\ O[d] \in Seq(Out) /\ O2[c] = Append(O[d], m) /\ O2[c] = Append(q, m)
      BY <2>1, <3>0
    <3>2. Sent(O2[c]) = Sent(O[d]) \cup {Len(O[d]) + 1} /\ Sent(O[d]) \subseteq 1 .. Len(O[d])
      <4> HIDE DEF O2
      <4>1. Kind(Append(q, m), "Payload") = Kind(q, "Payload") \cup {Len(q) + 1}
        BY OutAppend
      <4>2. Kind(q, "Payload") \subseteq 1 .. Len(q)
        BY KindTypes
      <4> QED
        BY <3>1, <4>1, <4>2 DEF Sent
    <3>3. /\ Append(O[d], m)[Len(O[d]) + 1] = m
          /\ \A j \in 1 .. Len(O[d]) : Append(O[d], m)[j] = O[d][j]
      BY <3>1
    <3> HIDE DEF O2
    <3> QED
      BY <1>2, <2>1, <3>1, <3>2, <3>3
  <2>2. CASE c # d
    BY <1>2, <2>2
  <2> QED
    BY <2>1, <2>2
<1>3. \A c \in Calls : k(c) \in Int
  OBVIOUS
<1>4. /\ \A u \in T : ~Same(u, t)
      /\ \A c \in Calls : \A i \in Sent(O[c]) : ~Same(t, O[c][i].payload) /\ ~Same(O[c][i].payload, t)
  <2>1. \A u \in T : ~Same(u, t)
    BY <1>0 DEF Once
  <2>2. \A c \in Calls : \A i \in Sent(O[c]) : ~Same(R[d][1], O[c][i].payload)
    BY <1>0 DEF Once
  <2> QED
    BY <1>0, <2>1, <2>2 DEF Same
<1>5. \A c \in Calls : \A i \in 1 .. Len(R2[c]) : ~Same(R2[c][i], t)
  <2> HIDE DEF R2, k, O2
  <2>1. ASSUME NEW c \in Calls, NEW i \in 1 .. Len(R2[c]), Same(R2[c][i], R[d][1])
        PROVE  FALSE
    <3>1. i + k(c) \in 1 .. Len(R[c]) /\ R2[c][i] = R[c][i + k(c)] /\ (c = d => i + k(c) # 1)
      BY <1>1
    <3>2. c = d /\ i + k(c) = 1
      BY <1>0, <2>1, <3>1 DEF Once
    <3> QED
      BY <3>1, <3>2
  <2> QED
    BY <1>0, <2>1
<1> HIDE DEF R2, O2, t, k
<1>6. \A u, v \in T : Same(u, v) => u = v
  BY DEF Once
<1>7. ASSUME NEW u \in T, NEW c \in Calls, NEW i \in 1 .. Len(R2[c])
      PROVE  ~Same(u, R2[c][i])
  <2>1. i + k(c) \in 1 .. Len(R[c]) /\ R2[c][i] = R[c][i + k(c)]
    BY <1>1
  <2>2. \A j \in 1 .. Len(R[c]) : ~Same(u, R[c][j])
    BY DEF Once
  <2> QED
    BY <2>1, <2>2
<1>8. \A u \in T, c \in Calls : \A i \in Sent(O2[c]) : ~Same(u, O2[c][i].payload)
  BY <1>2, <1>4 DEF Once
<1>9. ASSUME NEW c \in Calls, NEW e \in Calls, NEW i \in 1 .. Len(R2[c]), NEW j \in 1 .. Len(R2[e]),
             Same(R2[c][i], R2[e][j])
      PROVE  c = e /\ i = j
  <2>1. /\ i + k(c) \in 1 .. Len(R[c]) /\ R2[c][i] = R[c][i + k(c)] /\ i \in Int
        /\ j + k(e) \in 1 .. Len(R[e]) /\ R2[e][j] = R[e][j + k(e)] /\ j \in Int
    BY <1>1
  <2>2. c = e /\ i + k(c) = j + k(e)
    BY <1>9, <2>1 DEF Once
  <2> QED
    BY <1>3, <2>1, <2>2
<1>10. ASSUME NEW c \in Calls, NEW e \in Calls, NEW i \in 1 .. Len(R2[c]), NEW j \in Sent(O2[e])
       PROVE  ~Same(R2[c][i], O2[e][j].payload)
  <2>1. i + k(c) \in 1 .. Len(R[c]) /\ R2[c][i] = R[c][i + k(c)]
    BY <1>1
  <2>2. CASE j \in Sent(O[e]) /\ O2[e][j] = O[e][j]
    <3>1. \A l \in 1 .. Len(R[c]) : ~Same(R[c][l], O[e][j].payload)
      BY <2>2 DEF Once
    <3> QED
      BY <2>1, <2>2, <3>1
  <2>3. CASE O2[e][j].payload = t
    BY <1>5, <2>3
  <2> QED
    BY <1>2, <2>2, <2>3
<1>11. ASSUME NEW c \in Calls, NEW e \in Calls, NEW i \in Sent(O2[c]), NEW j \in Sent(O2[e]),
              Same(O2[c][i].payload, O2[e][j].payload)
       PROVE  c = e /\ i = j
  <2>1. CASE i \in Sent(O[c]) /\ O2[c][i] = O[c][i]
    <3>1. O2[e][j].payload # t
      BY <1>4, <1>11, <2>1
    <3>2. j \in Sent(O[e]) /\ O2[e][j] = O[e][j]
      BY <1>2, <3>1
    <3> QED
      BY <1>11, <2>1, <3>2 DEF Once
  <2>2. CASE c = d /\ i = Len(O[d]) + 1 /\ O2[c][i].payload = t
    <3>1. ~(j \in Sent(O[e]) /\ O2[e][j] = O[e][j])
      BY <1>4, <1>11, <2>2
    <3> QED
      BY <1>2, <2>2, <3>1
  <2> QED
    BY <1>2, <2>1, <2>2
<1>12. Once(T, R2, O2)
  BY <1>6, <1>7, <1>8, <1>9, <1>10, <1>11 DEF Once
<1> QED
  BY <1>12 DEF R2, O2

\* Requests dealt with stay dealt with.
LEMMA PastGrows ==
  ASSUME TypeInv, [Next]_vars, NEW c \in Calls
  PROVE  /\ PastOf(sent[c], stream[c], reading[c]) \in Int
         /\ PastOf(sent[c], stream[c], reading[c])' \in Int
         /\ PastOf(sent[c], stream[c], reading[c]) <= PastOf(sent[c], stream[c], reading[c])'
<1> USE DEF client, handled_replies, registry, history
<1>0. PICK n, s, r : n = sent[c] /\ s = stream[c] /\ r = reading[c]
  OBVIOUS
<1>t. n \in Nat /\ s \in Seq(Req) /\ Len(s) \in Nat
  BY <1>0 DEF TypeInv, Types
<1>p. \A y : PastOf(n, s, y) \in {n - Len(s), n - Len(s) - 1} /\ PastOf(n, s, r) <= PastOf(n, s, None)
  BY <1>t DEF PastOf
<1>s. SUFFICES /\ PastOf(n, s, r) \in Int /\ PastOf(sent'[c], stream'[c], reading'[c]) \in Int
               /\ PastOf(n, s, r) <= PastOf(sent'[c], stream'[c], reading'[c])
  BY <1>0
<1>i. PastOf(n, s, r) \in Int /\ PastOf(n, s, None) \in Int
  BY <1>t, <1>p
<1>1. CASE sent'[c] = n /\ stream'[c] = s /\ (reading'[c] = r \/ reading'[c] = None)
  BY <1>1, <1>p, <1>i
<1>2. ASSUME NEW d \in Calls, End(d), sent' = sent
      PROVE  \/ sent'[c] = n /\ stream'[c] = s /\ reading'[c] = r
             \/ sent'[c] = n /\ stream'[c] = <<>> /\ reading'[c] = None
  <2>1. CASE d = c
    BY <1>0, <1>2, <2>1, EndTypes, RoundTypes
  <2>2. CASE d # c
    BY <1>0, <1>2, <2>2, EndTypes, RoundTypes
  <2> QED
    BY <2>1, <2>2
<1>3. CASE sent'[c] = n /\ stream'[c] = <<>> /\ reading'[c] = None
  <2>1. PICK z : z = <<>> /\ Len(z) = 0
    OBVIOUS
  <2>2. PastOf(n, z, None) = n
    BY <1>t, <2>1 DEF PastOf
  <2>3. PastOf(n, s, r) <= n
    BY <1>t, <1>p
  <2> QED
    BY <1>3, <1>i, <1>t, <2>1, <2>2, <2>3
<1>4. ASSUME NEW d \in Calls, NEW m \in Requests(d), Request(d, m)
      PROVE  /\ PastOf(sent'[c], stream'[c], reading'[c]) \in Int
             /\ PastOf(n, s, r) <= PastOf(sent'[c], stream'[c], reading'[c])
  <2>1. CASE d = c
    <3>1. sent'[c] = n + 1 /\ stream'[c] = Append(s, m) /\ reading'[c] = r
      BY <1>0, <1>4, <2>1 DEF Request, TypeInv, Types
    <3>0. m \in Req
      BY DEF Requests, Req, TypeInv, Types
    <3>2. Len(Append(s, m)) = Len(s) + 1
      BY <1>t, <3>0
    <3>4. PICK z : z = Append(s, m)
      OBVIOUS
    <3>3. PastOf(n + 1, z, r) = PastOf(n, s, r)
      BY <1>t, <3>2, <3>4 DEF PastOf
    <3> QED
      BY <1>i, <3>1, <3>3, <3>4
  <2>2. CASE d # c
    BY <1>1, <1>4, <1>0, <1>i, <2>2 DEF Request, TypeInv, Types
  <2> QED
    BY <2>1, <2>2
<1>5. ASSUME NEW d \in Calls, Read(d)
      PROVE  /\ PastOf(sent'[c], stream'[c], reading'[c]) \in Int
             /\ PastOf(n, s, r) <= PastOf(sent'[c], stream'[c], reading'[c])
  <2>1. CASE d = c
    <3>1. s # <<>> /\ r = None /\ sent'[c] = n /\ stream'[c] = Tail(s) /\ reading'[c] = Head(s)
      BY <1>0, <1>5, <2>1 DEF Read, MessageReady, TypeInv, TypeOK, Types
    <3>2. PICK z, y : z = Tail(s) /\ y = Head(s) /\ Len(z) = Len(s) - 1
      BY <1>t, <3>1
    <3>3. y \in Req /\ y # None
      BY <1>t, <3>1, <3>2, ReqTypes
    <3>4. PastOf(n, z, y) = PastOf(n, s, r)
      BY <1>t, <3>1, <3>2, <3>3 DEF PastOf
    <3> QED
      BY <1>i, <3>1, <3>2, <3>4
  <2>2. CASE d # c
    BY <1>1, <1>5, <1>0, <1>i, <2>2 DEF Read, TypeInv, Types
  <2> QED
    BY <2>1, <2>2
<1>6. ASSUME NEW d \in Calls, NextRound(d), UNCHANGED <<sent, stream>>
      PROVE  sent'[c] = n /\ stream'[c] = s /\ (reading'[c] = r \/ reading'[c] = None)
  <2>1. CASE d = c
    BY <1>0, <1>6, <2>1, RoundTypes
  <2>2. CASE d # c
    BY <1>0, <1>6, <2>2, RoundTypes
  <2> QED
    BY <2>1, <2>2
<1>7. CASE UNCHANGED <<sent, stream, reading>>
  BY <1>0, <1>1, <1>7, <1>i
<1>8. ASSUME NEW d \in Calls, Leave(d) \/ Serve(d)
      PROVE  \/ sent'[c] = n /\ stream'[c] = s /\ (reading'[c] = r \/ reading'[c] = None)
             \/ sent'[c] = n /\ stream'[c] = <<>> /\ reading'[c] = None
  BY <1>2, <1>6, <1>8 DEF Leave, Serve
<1>9. ASSUME NEW d \in Calls, NEW o \in Outcomes, NEW dst \in Entities, Handle(d, o, dst)
      PROVE  sent'[c] = n /\ stream'[c] = s /\ (reading'[c] = r \/ reading'[c] = None)
  BY <1>6, <1>9 DEF Handle
<1> QED
  BY <1>1, <1>3, <1>4, <1>5, <1>7, <1>8, <1>9, <1>i
  DEF Next, vars, Guard, Release, Drop, Connect, Insert, Run

LEMMA DealtKept ==
  ASSUME TypeInv, [Next]_vars, NEW t \in Cmd, Dealt(t)
  PROVE  Dealt(t)'
<1>1. t.from \in Calls /\ t.n \in Nat
  BY DEF Cmd
<1> QED
  BY <1>1, PastGrows DEF Dealt

LEMMA CmdTypes ==
  ASSUME TypeInv
  PROVE  /\ \A c \in Calls : \A i \in 1 .. Len(rx[c]) : rx[c][i] \in Cmd
         /\ \A c \in Calls : \A i \in Sent(out[c]) : out[c][i].payload \in Cmd
<1>1. \A c \in Calls : \A i \in 1 .. Len(rx[c]) : rx[c][i] \in Cmd
  BY DEF TypeInv, Types
<1>2. \A m \in Out : m.type = "Payload" => m.payload \in Cmd
  BY DEF Out
<1>3. ASSUME NEW c \in Calls, NEW i \in Sent(out[c])
      PROVE  out[c][i] \in Out /\ out[c][i].type = "Payload"
  BY <1>3 DEF TypeInv, Types, Sent, Kind
<1> QED
  BY <1>1, <1>2, <1>3

\* What a step puts anywhere was somewhere before, but for the command of Handle.
LEMMA DealtStep ==
  ASSUME TypeInv, TypeInv', [Next]_vars, AllDealt(tasks, rx, out),
         \A t \in tasks' : t \in tasks \/ Dealt(t)'
  PROVE  AllDealt(tasks, rx, out)'
<1>0. /\ tasks \subseteq Cmd
      /\ \A c \in Calls : \A i \in 1 .. Len(rx[c]) : rx[c][i] \in Cmd
      /\ \A c \in Calls : \A i \in Sent(out[c]) : out[c][i].payload \in Cmd
      /\ \A c \in Calls : Payloads(c) = Sent(out[c]) /\ Payloads(c)' = Sent(out'[c])
  BY CmdTypes DEF TypeInv, Types, Payloads, Sent, Kind
<1>1. ASSUME NEW t \in tasks'
      PROVE  Dealt(t)'
  BY <1>0, DealtKept DEF AllDealt
<1>2. ASSUME NEW c \in Calls, NEW i \in 1 .. Len(rx'[c])
      PROVE  Dealt(rx[c][i])'
  <2>1. PICK t \in Cmd : t = rx'[c][i] /\ Dealt(t)
    <3>1. CASE \E k \in 1 .. Len(rx[c]) : rx'[c][i] = rx[c][k]
      BY <1>0, <3>1 DEF AllDealt
    <3>2. CASE \E u \in tasks : rx'[c][i] = u
      BY <1>0, <3>2 DEF AllDealt
    <3> QED
      BY <3>1, <3>2, RxStep
  <2>2. Dealt(t)'
    BY DealtKept, <2>1
  <2> QED
    BY <2>1, <2>2 DEF Dealt
<1>3. ASSUME NEW c \in Calls, NEW i \in Sent(out'[c])
      PROVE  Dealt(out[c][i].payload)'
  <2>1. PICK t \in Cmd : t = out'[c][i].payload /\ Dealt(t)
    <3>1. i \in Payloads(c)'
      BY <1>0, <1>3
    <3>2. CASE i \in Payloads(c) /\ out'[c][i] = out[c][i]
      BY <1>0, <3>2 DEF AllDealt
    <3>3. CASE 1 \in 1 .. Len(rx[c]) /\ out'[c][i].payload = rx[c][1]
      BY <1>0, <3>3 DEF AllDealt
    <3> QED
      BY <3>1, <3>2, <3>3, OutStep
  <2>2. Dealt(t)'
    BY DealtKept, <2>1
  <2> QED
    BY <2>1, <2>2 DEF Dealt
<1>4. /\ \A t \in tasks' : Dealt(t)'
      /\ \A c \in Calls : \A i \in 1 .. Len(rx'[c]) : Dealt(rx[c][i])'
      /\ \A c \in Calls : \A i \in Sent(out'[c]) : Dealt(out[c][i].payload)'
  BY <1>1, <1>2, <1>3
<1> QED
  BY <1>4 DEF AllDealt, Dealt

LEMMA OnceStep ==
  ASSUME TypeInv, TypeInv', [Next]_vars, \A c \in Calls : CallInv(c), OnceInv
  PROVE  OnceInv'
<1> USE DEF client, handled_replies, registry, history
<1>0. /\ Once(tasks, rx, out) /\ AllDealt(tasks, rx, out)
      /\ rx \in [Calls -> Seq(Cmd)] /\ out \in [Calls -> Seq(Out)] /\ tasks \subseteq Cmd
  BY DEF OnceInv, TypeInv, Types
<1>1. ASSUME tasks' \subseteq tasks
      PROVE  AllDealt(tasks, rx, out)'
  BY <1>0, <1>1, DealtStep
<1>2. ASSUME UNCHANGED <<tasks, out>>,
             \A c \in Calls : rx'[c] = rx[c] \/ rx'[c] = <<>>
      PROVE  OnceInv'
  <2>1. PICK T, R, O, R2 : T = tasks /\ R = rx /\ O = out /\ R2 = rx'
    OBVIOUS
  <2>2. Once(T, R2, O)
    <3>1. Once(T, R, O) /\ \A c \in Calls : R2[c] = R[c] \/ R2[c] = <<>>
      BY <1>0, <1>2, <2>1
    <3> QED
      BY <3>1, OnceFewer
  <2>3. Once(tasks', rx', out')
    BY <1>2, <2>1, <2>2
  <2> QED
    BY <1>1, <1>2, <2>3 DEF OnceInv, Once
<1>3. ASSUME NEW d \in Calls, End(d), UNCHANGED <<tasks, out>>
      PROVE  OnceInv'
  <2>1. \A c \in Calls : rx'[c] = rx[c] \/ rx'[c] = <<>>
    BY <1>3, EndTypes
  <2> QED
    BY <1>2, <1>3, <2>1
<1>4. ASSUME NEW d \in Calls, NEW o \in Outcomes, NEW dst \in Entities, Handle(d, o, dst)
      PROVE  OnceInv'
  <2>1. PICK r \in Req : r = reading[d]
    BY <1>4 DEF Handle, TypeInv, Types, TypeOK
  <2>2. r # None /\ r.n \in Nat /\ Len(inserted) \in Nat
    BY ReqTypes DEF TypeInv, Types
  <2>3. PICK n \in Nat, s \in Seq(Req) : n = sent[d] /\ s = stream[d] /\ Len(s) \in Nat
    BY DEF TypeInv, Types
  <2>4. NextRound(d) /\ UNCHANGED <<rx, sent, stream>>
    BY <1>4 DEF Handle
  <2>5. r.n = n - Len(s) /\ PastOf(n, s, r) = r.n - 1 /\ PastOf(n, s, None) = r.n
    <3>1. Numbered(n, s, r)
      BY <2>1, <2>3 DEF CallInv
    <3>2. r.n = n - Len(s)
      BY <2>2, <3>1 DEF Numbered
    <3> QED
      BY <2>2, <2>3, <3>2 DEF PastOf
  <2>6. PICK O2 : O2 = out'
    OBVIOUS
  <2>7. \A c \in Calls : Sent(O2[c]) = Sent(out[c]) /\ \A i \in Sent(out[c]) : O2[c][i] = out[c][i]
    <3>1. PICK m \in Out : m = [type |-> "Answer", n |-> r.n]
      BY <2>2 DEF Out
    <3>2. m.type # "Payload"
          /\ O2 = IF o.answers THEN [out EXCEPT ![d] = Append(@, m)] ELSE out
      BY <1>4, <2>1, <2>6, <3>1 DEF Handle, Put
    <3>3. ASSUME NEW c \in Calls
          PROVE  Sent(O2[c]) = Sent(out[c]) /\ \A i \in Sent(out[c]) : O2[c][i] = out[c][i]
      <4>1. PICK q \in Seq(Out) : q = out[c]
        BY <1>0
      <4>2. CASE c = d /\ o.answers
        <5>1. O2[c] = Append(q, m)
          BY <1>0, <3>2, <4>1, <4>2
        <5>2. Kind(Append(q, m), "Payload") = Kind(q, "Payload") /\ Kind(q, "Payload") \subseteq 1 .. Len(q)
          BY <3>2, OutAppend, KindTypes
        <5>3. \A i \in 1 .. Len(q) : Append(q, m)[i] = q[i]
          OBVIOUS
        <5> QED
          BY <4>1, <5>1, <5>2, <5>3 DEF Sent
      <4>3. CASE ~(c = d /\ o.answers)
        BY <1>0, <3>2, <4>3
      <4> QED
        BY <4>2, <4>3
    <3> QED
      BY <3>3
  <2>8. CASE o.do # "Nothing"
    <3>1. PICK t \in Cmd : t = [do |-> o.do, from |-> d, n |-> r.n, dst |-> dst, since |-> Len(inserted)]
      BY <2>2, <2>8, OutcomeTypes DEF Cmd
    <3>2. tasks' = tasks \cup {t}
      BY <1>4, <2>1, <2>8, <3>1 DEF Handle
    <3>3. t.from = d /\ t.n = r.n
      BY <3>1
    <3>4. \A u \in Cmd : Dealt(u) => ~Same(t, u) /\ ~Same(u, t)
      <4>1. ASSUME NEW u \in Cmd, Dealt(u), u.from = d
            PROVE  u.n < r.n
        <5>1. u.n \in Nat /\ u.n <= PastOf(n, s, r)
          BY <2>1, <2>3, <4>1 DEF Dealt, Cmd
        <5> QED
          BY <2>2, <2>5, <5>1
      <4> QED
        BY <2>2, <3>3, <4>1 DEF Same
    <3>5. PICK T, R, O : T = tasks /\ R = rx /\ O = out
      OBVIOUS
    <3>6. /\ \A u \in T : ~Same(t, u) /\ ~Same(u, t)
          /\ \A c \in Calls : \A i \in 1 .. Len(R[c]) : ~Same(t, R[c][i])
          /\ \A c \in Calls : \A i \in Sent(O[c]) : ~Same(t, O[c][i].payload)
      BY <1>0, <3>4, <3>5, CmdTypes DEF AllDealt
    <3>7. Once(T \cup {t}, R, O2)
      <4>1. /\ \A c \in Calls : Sent(O2[c]) = Sent(O[c]) /\ \A i \in Sent(O[c]) : O2[c][i] = O[c][i]
            /\ Once(T, R, O)
        BY <1>0, <2>7, <3>5
      <4> QED
        BY <3>6, <4>1, OnceTask, ZenonT(60)
    <3>8. Once(tasks, rx, out)'
      <4>1. Once(tasks', rx', out')
        BY <2>4, <2>6, <3>2, <3>5, <3>7
      <4> QED
        BY <4>1 DEF Once
    <3>9. Dealt(t)'
      <4>1. PastOf(sent'[d], stream'[d], reading'[d]) = r.n
        BY <2>3, <2>4, <2>5, RoundTypes
      <4> QED
        BY <2>2, <3>3, <4>1 DEF Dealt
    <3>10. AllDealt(tasks, rx, out)'
      <4>1. \A u \in tasks' : u \in tasks \/ Dealt(u)'
        BY <3>2, <3>9 DEF Dealt
      <4> QED
        BY <1>0, <4>1, DealtStep
    <3> QED
      BY <3>8, <3>10 DEF OnceInv
  <2>9. CASE o.do = "Nothing"
    <3>1. tasks' = tasks
      BY <1>4, <2>1, <2>9 DEF Handle
    <3>2. PICK T, R, O : T = tasks /\ R = rx /\ O = out
      OBVIOUS
    <3>3. Once(T, R, O2)
      <4>1. /\ \A c \in Calls : Sent(O2[c]) = Sent(O[c]) /\ \A i \in Sent(O[c]) : O2[c][i] = O[c][i]
            /\ Once(T, R, O)
        BY <1>0, <2>7, <3>2
      <4> QED
        BY <4>1, OnceSent
    <3>4. Once(tasks', rx', out')
      BY <2>4, <2>6, <3>1, <3>2, <3>3
    <3> QED
      BY <1>1, <3>1, <3>4 DEF OnceInv, Once
  <2> QED
    BY <2>8, <2>9
<1>5. ASSUME NEW d \in Calls, Serve(d)
      PROVE  OnceInv'
  <2>1. CASE Head(rx[d]).do # "Send"
    BY <1>3, <1>5, <2>1 DEF Serve
  <2>2. CASE Head(rx[d]).do = "Send"
    <3>1. rx[d] # <<>> /\ tasks' = tasks /\ rx' = [rx EXCEPT ![d] = Tail(@)]
          /\ out' = [out EXCEPT ![d] = Append(@, [type |-> "Payload", payload |-> Head(rx[d])])]
      BY <1>5, <2>2 DEF Serve, CommandReady, Put
    <3>2. Head(rx[d]) \in Cmd
      BY <1>0, <3>1
    <3>3. PICK m \in Out : m = [type |-> "Payload", payload |-> Head(rx[d])]
      BY <3>2 DEF Out
    <3>4. m.type = "Payload" /\ m.payload = Head(rx[d]) /\ out' = [out EXCEPT ![d] = Append(@, m)]
      BY <3>1, <3>3
    <3>5. PICK T, R, O : T = tasks /\ R = rx /\ O = out
      OBVIOUS
    <3>6. Once(T, [R EXCEPT ![d] = Tail(@)], [O EXCEPT ![d] = Append(@, m)])
      <4>1. /\ R \in [Calls -> Seq(Cmd)] /\ O \in [Calls -> Seq(Out)]
            /\ R[d] # <<>> /\ m.payload = Head(R[d]) /\ Once(T, R, O)
        BY <1>0, <3>1, <3>4, <3>5
      <4> QED
        BY <3>4, <4>1, OnceSend
    <3>7. Once(tasks', rx', out')
      BY <3>1, <3>4, <3>5, <3>6
    <3> QED
      BY <1>1, <3>1, <3>7 DEF OnceInv, Once
  <2> QED
    BY <2>1, <2>2
<1>6. ASSUME NEW t \in tasks, Run(t)
      PROVE  OnceInv'
  <2>1. t \in Cmd /\ entity_key(t.dst) \in Keys
    BY <1>0, KeyOf DEF Cmd
  <2>2. PICK d \in Calls \cup {Nobody} : d = clients[entity_key(t.dst)]
    BY <2>1 DEF TypeInv, Types
  <2>3. rx' = (IF d # Nobody /\ live[d] = "open" THEN [rx EXCEPT ![d] = Append(@, t)] ELSE rx)
        /\ tasks' = tasks \ {t} /\ out' = out
    BY <1>6, <2>2 DEF Run
  <2>4. PICK T, R, O : T = tasks /\ R = rx /\ O = out
    OBVIOUS
  <2>5. CASE d # Nobody /\ live[d] = "open"
    <3>1. Once(T \ {t}, [R EXCEPT ![d] = Append(@, t)], O)
      <4>1. R \in [Calls -> Seq(Cmd)] /\ d \in Calls /\ Once(T, R, O) /\ t \in T
        BY <1>0, <2>2, <2>4, <2>5
      <4> QED
        BY <2>1, <4>1, OncePut
    <3>2. Once(tasks', rx', out')
      BY <2>3, <2>4, <2>5, <3>1
    <3> QED
      BY <1>1, <2>3, <3>2 DEF OnceInv, Once
  <2>6. CASE ~(d # Nobody /\ live[d] = "open")
    <3>1. Once(T \ {t}, R, O)
      <4>1. Once(T, R, O) /\ T \ {t} \in SUBSET T
        BY <1>0, <2>4
      <4> QED
        BY <4>1, OnceFewer
    <3>2. Once(tasks', rx', out')
      BY <2>3, <2>4, <2>6, <3>1
    <3> QED
      BY <1>1, <2>3, <3>2 DEF OnceInv, Once
  <2> QED
    BY <2>5, <2>6
<1>7. ASSUME NEW d \in Calls, Leave(d)
      PROVE  OnceInv'
  BY <1>3, <1>7 DEF Leave
<1>8. CASE UNCHANGED <<tasks, rx, out>>
  BY <1>2, <1>8
<1> QED
  BY <1>4, <1>5, <1>6, <1>7, <1>8
  DEF Next, vars, Guard, Release, Drop, Connect, Read, Insert, Request

\* ConnectedClients::send: a payload that a handler sends on reaches one client, and once,
\* whoever registers under its key and whatever select! drops meanwhile.
THEOREM SentOnOnce == Spec => []DeliveredOnce
<1>1. ASSUME Init
      PROVE  OnceInv
  <2>1. PICK z : z = <<>> /\ 1 .. Len(z) = {} /\ DOMAIN z = {}
    OBVIOUS
  <2>2. tasks = {} /\ \A c \in Calls : rx[c] = z /\ out[c] = z
    BY <1>1, <2>1 DEF Init
  <2>3. \A c \in Calls : 1 .. Len(rx[c]) = {} /\ Sent(out[c]) = {}
    BY <2>1, <2>2 DEF Sent, Kind
  <2> QED
    BY <2>2, <2>3 DEF OnceInv, Once, AllDealt
<1>2. ASSUME TypeInv, TypeInv', [Next]_vars, \A c \in Calls : CallInv(c), OnceInv
      PROVE  OnceInv'
  BY <1>2, OnceStep
<1>3. OnceInv => DeliveredOnce
  BY DEF OnceInv, Once, Same, Sent, Kind, Payloads, DeliveredOnce
<1> QED
  BY <1>1, <1>2, <1>3, TypeInvAlways, CallInvAlways, PTL DEF Spec
=============================================================================
