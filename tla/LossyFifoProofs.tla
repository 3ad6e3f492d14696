-------------------------- MODULE LossyFifoProofs --------------------------
(* The forwarding tasks, the channel and the bodies implement LossyFifo, for   *)
(* any number of overlapping calls, any capacity and any number of requests.   *)
EXTENDS ReceiverStreamProofs, FiniteSetTheorems

\* The payloads of q, the other requests left aside, have increasing numbers.
Sorted(q) ==
  \A i, j \in DOMAIN q : i < j /\ q[i].n # 0 /\ q[j].n # 0 => q[i].n < q[j].n

\* An empty channel holds no payload.
LEMMA NumbersEmpty == Numbers(<<>>) = {}
BY DEF Numbers

\* Joining two sequences of requests joins their payloads.
LEMMA NumbersConcat ==
  ASSUME NEW p \in Seq(Request), NEW q \in Seq(Request)
  PROVE  Numbers(p \o q) = Numbers(p) \cup Numbers(q)
<1>1. ASSUME NEW n \in Numbers(p \o q)
      PROVE  n \in Numbers(p) \cup Numbers(q)
  <2>1. PICK i \in 1 .. Len(p) + Len(q) : n = (p \o q)[i].n /\ n # 0
    BY DEF Numbers
  <2>2. CASE i <= Len(p)
    <3>1. i \in DOMAIN p /\ (p \o q)[i] = p[i]
      BY <2>2
    <3> QED
      BY <2>1, <3>1 DEF Numbers
  <2>3. CASE i > Len(p)
    <3>1. i - Len(p) \in DOMAIN q /\ (p \o q)[i] = q[i - Len(p)]
      BY <2>3
    <3> QED
      BY <2>1, <3>1 DEF Numbers
  <2> QED
    BY <2>2, <2>3
<1>2. ASSUME NEW n \in Numbers(p)
      PROVE  n \in Numbers(p \o q)
  <2>1. PICK i \in DOMAIN p : n = p[i].n /\ n # 0
    BY DEF Numbers
  <2>2. i \in DOMAIN (p \o q) /\ (p \o q)[i] = p[i]
    OBVIOUS
  <2> QED
    BY <2>1, <2>2 DEF Numbers
<1>3. ASSUME NEW n \in Numbers(q)
      PROVE  n \in Numbers(p \o q)
  <2>1. PICK i \in DOMAIN q : n = q[i].n /\ n # 0
    BY DEF Numbers
  <2>2. i + Len(p) \in DOMAIN (p \o q) /\ (p \o q)[i + Len(p)] = q[i]
    OBVIOUS
  <2> QED
    BY <2>1, <2>2 DEF Numbers
<1> QED
  BY <1>1, <1>2, <1>3

\* A single request is one payload or none.
LEMMA NumbersOne ==
  ASSUME NEW r \in Request
  PROVE  Numbers(<<r>>) = {r.n} \ {0}
<1>1. DOMAIN <<r>> = {1} /\ <<r>>[1] = r
  OBVIOUS
<1> QED
  BY <1>1 DEF Numbers

\* tonic_tx.send adds the payload it is given, if it is one.
LEMMA NumbersAppend ==
  ASSUME NEW q \in Seq(Request), NEW r \in Request
  PROVE  Numbers(Append(q, r)) = Numbers(q) \cup ({r.n} \ {0})
<1>1. Append(q, r) = q \o <<r>> /\ <<r>> \in Seq(Request)
  OBVIOUS
<1> QED
  BY <1>1, NumbersConcat, NumbersOne

\* Taking the first request takes its payload, if it is one, and no other.
LEMMA NumbersTail ==
  ASSUME NEW q \in Seq(Request), q # <<>>
  PROVE  Numbers(q) = ({Head(q).n} \ {0}) \cup Numbers(Tail(q))
<1>1. /\ q = <<Head(q)>> \o Tail(q)
      /\ Head(q) \in Request /\ <<Head(q)>> \in Seq(Request) /\ Tail(q) \in Seq(Request)
  OBVIOUS
<1>2. Numbers(<<Head(q)>> \o Tail(q)) = Numbers(<<Head(q)>>) \cup Numbers(Tail(q))
  BY <1>1, NumbersConcat
<1> QED
  BY <1>1, <1>2, NumbersOne

\* Only payloads have a number, and it is positive.
LEMMA NumbersPositive ==
  ASSUME NEW q \in Seq(Request)
  PROVE  Numbers(q) \subseteq Nat \ {0}
BY DEF Numbers, Request

\* An empty channel is in order.
LEMMA SortedEmpty == Sorted(<<>>)
BY DEF Sorted

\* Two ordered sequences are ordered when joined if the first lies below the second.
LEMMA SortedConcat ==
  ASSUME NEW p \in Seq(Request), NEW q \in Seq(Request), Sorted(p), Sorted(q),
         \A m \in Numbers(p), n \in Numbers(q) : m < n
  PROVE  Sorted(p \o q)
<1> SUFFICES ASSUME NEW i \in DOMAIN (p \o q), NEW j \in DOMAIN (p \o q), i < j,
                    (p \o q)[i].n # 0, (p \o q)[j].n # 0
             PROVE  (p \o q)[i].n < (p \o q)[j].n
  BY DEF Sorted
<1>1. i \in 1 .. Len(p) + Len(q) /\ j \in 1 .. Len(p) + Len(q)
  OBVIOUS
<1>2. CASE j <= Len(p)
  <2>1. i \in DOMAIN p /\ j \in DOMAIN p /\ (p \o q)[i] = p[i] /\ (p \o q)[j] = p[j]
    BY <1>1, <1>2
  <2> QED
    BY <2>1 DEF Sorted
<1>3. CASE i > Len(p)
  <2>1. /\ i - Len(p) \in DOMAIN q /\ j - Len(p) \in DOMAIN q
        /\ (p \o q)[i] = q[i - Len(p)] /\ (p \o q)[j] = q[j - Len(p)]
        /\ i - Len(p) < j - Len(p)
    BY <1>1, <1>3
  <2> QED
    BY <2>1 DEF Sorted
<1>4. CASE i <= Len(p) /\ j > Len(p)
  <2>1. /\ i \in DOMAIN p /\ j - Len(p) \in DOMAIN q
        /\ (p \o q)[i] = p[i] /\ (p \o q)[j] = q[j - Len(p)]
    BY <1>1, <1>4
  <2>2. (p \o q)[i].n \in Numbers(p) /\ (p \o q)[j].n \in Numbers(q)
    BY <2>1 DEF Numbers
  <2> QED
    BY <2>2
<1> QED
  BY <1>1, <1>2, <1>3, <1>4

\* The first payload of an ordered sequence lies below all others.
LEMMA SortedTail ==
  ASSUME NEW q \in Seq(Request), q # <<>>, Sorted(q)
  PROVE  /\ Sorted(Tail(q))
         /\ \A n \in Numbers(Tail(q)) : Head(q).n # 0 => Head(q).n < n
<1>1. \A i \in DOMAIN Tail(q) : i + 1 \in DOMAIN q /\ Tail(q)[i] = q[i + 1] /\ i \in Nat \ {0}
  OBVIOUS
<1>2. Sorted(Tail(q))
  BY <1>1 DEF Sorted
<1>3. ASSUME NEW n \in Numbers(Tail(q)), Head(q).n # 0
      PROVE  Head(q).n < n
  <2>1. PICK i \in DOMAIN Tail(q) : n = Tail(q)[i].n /\ n # 0
    BY DEF Numbers
  <2>2. 1 \in DOMAIN q /\ Head(q) = q[1] /\ i + 1 \in DOMAIN q /\ n = q[i + 1].n /\ 1 < i + 1
    BY <1>1, <2>1
  <2> QED
    BY <2>1, <2>2, <1>3 DEF Sorted
<1> QED
  BY <1>2, <1>3
-----------------------------------------------------------------------------
(* The inductive invariant. *)

\* Payloads that have left the channel for call s and not the client.
Own(s) == Numbers(buf[s]) \cup Numbers(hand[s])

Gone == delivered \cup lost

\* The channel holds its payloads in order, and none that has left.
ChannelInv ==
  /\ Sorted(tonic)
  /\ \A n \in Numbers(tonic) \cup Gone : n <= enq
  /\ Numbers(tonic) \cap Gone = {}

\* So does each call, all of them behind the last one it sent and before those in
\* the channel.
CallInv(s) ==
  /\ Sorted(buf[s])
  /\ \A m \in Numbers(buf[s]), n \in Numbers(hand[s]) : m < n
  /\ \A m \in Own(s), n \in Numbers(tonic) : m < n
  /\ \A n \in Own(s) \cup Numbers(tonic) : last[s] < n
  /\ \A n \in Own(s) \cup {last[s]} : n <= enq
  /\ Own(s) \cap Gone = {}

\* No payload is with two calls.
Apart == \A s, t \in Streams : s # t => Own(s) \cap Own(t) = {}

FifoInv ==
  /\ ChannelInv
  /\ \A s \in Streams : CallInv(s)
  /\ Apart

\* Initially there is nothing to order.
LEMMA FifoInit == PipeInit => FifoInv
<1> SUFFICES ASSUME PipeInit PROVE FifoInv
  OBVIOUS
<1>1. Numbers(tonic) = {} /\ \A s \in Streams : Own(s) = {} /\ Numbers(buf[s]) = {}
  BY NumbersEmpty DEF PipeInit, Own
<1> QED
  BY <1>1, SortedEmpty DEF PipeInit, FifoInv, ChannelInv, CallInv, Apart, Gone

\* Numbers that are compared are numbers.
LEMMA FifoTypes ==
  ASSUME PipeTypeOK
  PROVE  /\ enq \in Nat
         /\ Numbers(tonic) \subseteq Nat \ {0}
         /\ \A s \in Streams :
              /\ last[s] \in Nat
              /\ Numbers(buf[s]) \subseteq Nat \ {0}
              /\ Numbers(hand[s]) \subseteq Nat \ {0}
              /\ Own(s) \subseteq Nat \ {0}
BY NumbersPositive DEF PipeTypeOK, Own

\* A step of call s, whose payloads come from the channel and go to Gone, keeps the
\* invariant if it does so for the channel and for s itself.
LEMMA FifoCallStep ==
  ASSUME PipeTypeOK, FifoInv, NEW s \in Streams,
         \A t \in Streams \ {s} : buf'[t] = buf[t] /\ hand'[t] = hand[t] /\ last'[t] = last[t],
         enq' = enq,
         Numbers(tonic)' \subseteq Numbers(tonic),
         Own(s)' \subseteq Own(s) \cup Numbers(tonic),
         Gone' \subseteq Gone \cup Own(s),
         ChannelInv', CallInv(s)'
  PROVE  FifoInv'
<1>1. ASSUME NEW t \in Streams, t # s
      PROVE  /\ Own(t)' = Own(t) /\ Numbers(buf[t])' = Numbers(buf[t])
             /\ Numbers(hand[t])' = Numbers(hand[t]) /\ Sorted(buf[t])' = Sorted(buf[t])
             /\ last'[t] = last[t]
  BY <1>1 DEF Own, Numbers, Sorted
<1>2. ASSUME NEW t \in Streams, t # s
      PROVE  Own(t) \cap Own(s) = {} /\ Own(t) \cap Numbers(tonic) = {} /\ CallInv(t)
  <2>1. CallInv(t) /\ Own(t) \cap Own(s) = {}
    BY <1>2 DEF FifoInv, Apart
  <2>2. Own(t) \cap Numbers(tonic) = {}
    BY <2>1, FifoTypes DEF CallInv
  <2> QED
    BY <2>1, <2>2
<1>3. ASSUME NEW t \in Streams, t # s
      PROVE  CallInv(t)'
  BY <1>1, <1>2, <1>3 DEF CallInv
<1>4. Apart'
  <2>1. ASSUME NEW t \in Streams, t # s
        PROVE  Own(t)' \cap Own(s)' = {}
    BY <1>1, <1>2, <2>1
  <2>2. ASSUME NEW t \in Streams, NEW u \in Streams, t # u, t # s, u # s
        PROVE  Own(t)' \cap Own(u)' = {}
    BY <1>1, <2>2 DEF FifoInv, Apart
  <2> QED
    BY <2>1, <2>2 DEF Apart
<1> QED
  BY <1>3, <1>4 DEF FifoInv

\* A payload enters the channel behind all others.
LEMMA FifoPut ==
  ASSUME PipeTypeOK, FifoInv, NEW type \in {"ConnectRequest", "Payload", "Heartbeat"}, Put(type)
  PROVE  FifoInv'
<1> DEFINE r == [type |-> type, n |-> IF type = "Payload" THEN enq + 1 ELSE 0]
<1>1. r \in Request /\ tonic \in Seq(Request) /\ enq \in Nat
  BY PutRequest DEF PipeTypeOK
<1>2. tonic' = Append(tonic, r)
  BY DEF Put
<1>3. (r.n = 0 /\ enq' = enq) \/ (r.n = enq + 1 /\ enq' = enq + 1)
  BY DEF Put
<1>4. Numbers(tonic)' = Numbers(tonic) \cup ({r.n} \ {0})
  BY <1>1, <1>2, NumbersAppend DEF Numbers
<1>5. /\ \A s \in Streams : buf'[s] = buf[s] /\ hand'[s] = hand[s] /\ last'[s] = last[s]
      /\ Gone' = Gone
  BY DEF Put, Gone
<1>6. \A s \in Streams :
        /\ Own(s)' = Own(s) /\ Numbers(buf[s])' = Numbers(buf[s])
        /\ Numbers(hand[s])' = Numbers(hand[s]) /\ Sorted(buf[s])' = Sorted(buf[s])
  BY <1>5 DEF Own, Numbers, Sorted
<1> HIDE DEF r
<1>7. Sorted(tonic)'
  <2>1. <<r>> \in Seq(Request) /\ Append(tonic, r) = tonic \o <<r>> /\ Len(<<r>>) = 1
    BY <1>1
  <2>2. \A m \in Numbers(tonic), n \in Numbers(<<r>>) : m < n
    BY <1>1, <1>3, NumbersOne, FifoTypes DEF FifoInv, ChannelInv
  <2>3. Sorted(<<r>>) /\ Sorted(tonic)
    BY DEF FifoInv, ChannelInv, Sorted
  <2>4. Sorted(tonic \o <<r>>)
    BY <1>1, <2>1, <2>2, <2>3, SortedConcat
  <2> QED
    BY <1>2, <2>1, <2>4
<1>8. ChannelInv'
  <2>1. \A n \in Gone : n <= enq /\ n \in Nat
    BY DEF FifoInv, ChannelInv, Gone, PipeTypeOK
  <2>2. \A n \in Numbers(tonic) : n <= enq /\ n \in Nat
    BY FifoTypes DEF FifoInv, ChannelInv
  <2> QED
    BY <1>1, <1>3, <1>4, <1>5, <1>7, <2>1, <2>2 DEF FifoInv, ChannelInv
<1>9. ASSUME NEW s \in Streams
      PROVE  CallInv(s)'
  <2>1. CallInv(s)
    BY DEF FifoInv
  <2>2. last[s] \in Nat /\ Own(s) \subseteq Nat \ {0}
    BY FifoTypes
  <2>3. enq' \in Nat /\ enq <= enq'
    BY <1>1, <1>3
  <2>4. \A n \in Own(s) \cup {last[s]} : n <= enq /\ n <= enq'
    BY <1>1, <2>1, <2>2, <2>3 DEF CallInv
  <2>5. \A n \in Numbers(tonic)' : n \in Numbers(tonic) \/ n = enq + 1
    BY <1>3, <1>4
  <2>6. ASSUME NEW m \in Own(s) \cup {last[s]}, NEW n \in Numbers(tonic)'
        PROVE  m < n
    <3>1. CASE n \in Numbers(tonic)
      BY <2>1, <3>1 DEF CallInv
    <3>2. CASE n = enq + 1
      <4>1. m \in Nat /\ m <= enq
        BY <2>2, <2>4
      <4> QED
        BY <1>1, <3>2, <4>1
    <3> QED
      BY <2>5, <3>1, <3>2
  <2>7. /\ Sorted(buf[s]) /\ \A n \in Own(s) : last[s] < n
        /\ \A m \in Numbers(buf[s]), n \in Numbers(hand[s]) : m < n
        /\ Own(s) \cap Gone = {}
    BY <2>1 DEF CallInv
  <2> QED
    BY <1>5, <1>6, <2>4, <2>6, <2>7 DEF CallInv
<1>10. Apart'
  BY <1>6 DEF FifoInv, Apart
<1> QED
  BY <1>8, <1>9, <1>10 DEF FifoInv

\* A call starts with nothing of an earlier one.
LEMMA FifoNew ==
  ASSUME PipeTypeOK, Bounded, FifoInv, NEW s \in Streams, New(s)
  PROVE  FifoInv'
<1>1. buf[s] = <<>> /\ hand[s] = <<>>
  BY DEF New, Bounded, PipeTypeOK
<1>2. /\ \A t \in Streams : buf'[t] = buf[t] /\ hand'[t] = hand[t]
      /\ \A t \in Streams \ {s} : last'[t] = last[t]
      /\ last'[s] = 0 /\ enq' = enq /\ tonic' = tonic /\ Gone' = Gone
  BY DEF New, Gone, PipeTypeOK
<1>3. /\ Numbers(tonic)' = Numbers(tonic) /\ Sorted(tonic)' = Sorted(tonic)
      /\ Own(s)' = {} /\ Numbers(buf[s])' = {} /\ Sorted(buf[s])'
  BY <1>1, <1>2, NumbersEmpty, SortedEmpty DEF Own, Numbers, Sorted
<1>4. ChannelInv'
  BY <1>2, <1>3 DEF FifoInv, ChannelInv
<1>5. CallInv(s)'
  <2>1. \A n \in Numbers(tonic) : 0 < n
    BY FifoTypes
  <2>2. 0 <= enq
    BY FifoTypes
  <2> QED
    BY <1>2, <1>3, <2>1, <2>2 DEF CallInv
<1> QED
  BY <1>2, <1>3, <1>4, <1>5, FifoCallStep

\* The first request of the channel comes after all that the call holds and before
\* the rest of the channel.
LEMMA FifoRecv ==
  ASSUME PipeTypeOK, Bounded, FifoInv, NEW s \in Streams, Recv(s)
  PROVE  FifoInv'
<1> DEFINE h == Head(tonic)
<1>1. tonic \in Seq(Request) /\ tonic # <<>> /\ h \in Request
  BY DEF Recv, PipeTypeOK
<1>2. hand[s] = <<>>
  BY DEF Recv, Bounded, PipeTypeOK
<1>3. /\ \A t \in Streams : buf'[t] = buf[t] /\ last'[t] = last[t]
      /\ \A t \in Streams \ {s} : hand'[t] = hand[t]
      /\ hand'[s] = <<h>> /\ enq' = enq /\ tonic' = Tail(tonic) /\ Gone' = Gone
  BY DEF Recv, Gone, PipeTypeOK
<1> HIDE DEF h
<1>4. /\ Numbers(tonic) = ({h.n} \ {0}) \cup Numbers(Tail(tonic))
      /\ Numbers(tonic)' = Numbers(Tail(tonic))
  BY <1>1, <1>3, NumbersTail DEF h, Numbers
<1>5. /\ Sorted(tonic)'
      /\ \A n \in Numbers(Tail(tonic)) : h.n # 0 => h.n < n
  <2>1. Sorted(tonic)
    BY DEF FifoInv, ChannelInv
  <2> QED
    BY <1>1, <1>3, <2>1, SortedTail DEF h
<1>6. /\ Numbers(buf[s])' = Numbers(buf[s]) /\ Sorted(buf[s])' = Sorted(buf[s])
      /\ Numbers(hand[s])' = {h.n} \ {0} /\ Own(s) = Numbers(buf[s])
      /\ Own(s)' = Numbers(buf[s]) \cup ({h.n} \ {0})
  <2>1. Numbers(<<h>>) = {h.n} \ {0} /\ Numbers(hand[s]) = {}
    BY <1>1, <1>2, NumbersOne, NumbersEmpty
  <2>2. Numbers(buf'[s]) = Numbers(buf[s]) /\ Numbers(hand'[s]) = Numbers(<<h>>)
    BY <1>3
  <2>3. Sorted(buf'[s]) = Sorted(buf[s])
    BY <1>3
  <2> QED
    BY <2>1, <2>2, <2>3 DEF Own
<1>7. ChannelInv /\ CallInv(s)
  BY DEF FifoInv
<1>8. ChannelInv'
  BY <1>3, <1>4, <1>5, <1>7 DEF ChannelInv
<1>9. CallInv(s)'
  <2>1. \A m \in Own(s)', n \in Numbers(tonic)' : m < n
    BY <1>4, <1>5, <1>6, <1>7 DEF CallInv
  <2>2. \A m \in Numbers(buf[s])', n \in Numbers(hand[s])' : m < n
    BY <1>4, <1>6, <1>7 DEF CallInv
  <2>3. \A n \in Own(s)' \cup Numbers(tonic)' : last[s]' < n
    BY <1>3, <1>4, <1>6, <1>7 DEF CallInv
  <2>4. \A n \in Own(s)' \cup {last[s]'} : n <= enq'
    BY <1>3, <1>4, <1>6, <1>7 DEF CallInv, ChannelInv
  <2>5. Own(s)' \cap Gone' = {}
    BY <1>3, <1>4, <1>6, <1>7 DEF CallInv, ChannelInv
  <2> QED
    BY <1>6, <1>7, <2>1, <2>2, <2>3, <2>4, <2>5 DEF CallInv
<1> QED
  BY <1>3, <1>4, <1>6, <1>8, <1>9, FifoCallStep

\* The request in the task's hand goes behind those in the body.
LEMMA FifoPush ==
  ASSUME PipeTypeOK, Bounded, FifoInv, NEW s \in Streams, Push(s)
  PROVE  FifoInv'
<1>1. buf[s] \in Seq(Request) /\ hand[s] \in Seq(Request) /\ Len(hand[s]) = 1
  BY DEF Push, Bounded, PipeTypeOK
<1>2. /\ \A t \in Streams \ {s} : buf'[t] = buf[t] /\ hand'[t] = hand[t]
      /\ buf'[s] = buf[s] \o hand[s] /\ hand'[s] = <<>>
      /\ last' = last /\ enq' = enq /\ tonic' = tonic /\ Gone' = Gone
  BY DEF Push, Gone, PipeTypeOK
<1>3. ChannelInv /\ CallInv(s)
  BY DEF FifoInv
<1>4. Sorted(buf'[s])
  <2>1. Sorted(hand[s])
    BY <1>1 DEF Sorted
  <2> QED
    BY <1>1, <1>2, <1>3, <2>1, SortedConcat DEF CallInv
<1>5. Numbers(buf'[s]) = Numbers(buf[s]) \cup Numbers(hand[s]) /\ Numbers(hand'[s]) = {}
  BY <1>1, <1>2, NumbersConcat, NumbersEmpty
<1>6. Own(s)' = Own(s)
  BY <1>5 DEF Own
<1>7. Numbers(tonic)' = Numbers(tonic) /\ Sorted(tonic)' = Sorted(tonic)
  BY <1>2
<1>8. ChannelInv'
  BY <1>2, <1>3, <1>7 DEF ChannelInv
<1>9. CallInv(s)'
  BY <1>2, <1>3, <1>4, <1>5, <1>6, <1>7 DEF CallInv
<1> QED
  BY <1>2, <1>6, <1>7, <1>8, <1>9, FifoCallStep

\* What a call has lost or sent was not in the channel, and is no longer with it.
LEMMA FifoLeave ==
  ASSUME PipeTypeOK, FifoInv, NEW s \in Streams,
         \A t \in Streams \ {s} : buf'[t] = buf[t] /\ hand'[t] = hand[t] /\ last'[t] = last[t],
         tonic' = tonic, enq' = enq,
         Sorted(buf[s])',
         Numbers(buf[s])' \subseteq Numbers(buf[s]),
         Numbers(hand[s])' \subseteq Numbers(hand[s]),
         Gone' \subseteq Gone \cup (Own(s) \ Own(s)'),
         last'[s] = last[s] \/ last'[s] \in Own(s),
         \A n \in Own(s)' : last'[s] < n
  PROVE  FifoInv'
<1>1. ChannelInv /\ CallInv(s)
  BY DEF FifoInv
<1>2. Numbers(tonic)' = Numbers(tonic) /\ Sorted(tonic)' = Sorted(tonic)
  OBVIOUS
<1>3. Own(s)' \subseteq Own(s)
  BY DEF Own
<1>4. Own(s) \cap Numbers(tonic) = {}
  BY <1>1, FifoTypes DEF CallInv
<1>5. ChannelInv'
  BY <1>1, <1>2, <1>4 DEF ChannelInv, CallInv
<1>6. CallInv(s)'
  <2>1. \A n \in Own(s)' \cup Numbers(tonic)' : last'[s] < n
    BY <1>1, <1>2 DEF CallInv
  <2>2. \A n \in Own(s)' \cup {last'[s]} : n <= enq'
    BY <1>1, <1>3 DEF CallInv
  <2>3. Own(s)' \cap Gone' = {}
    BY <1>1, <1>3 DEF CallInv
  <2> QED
    BY <1>1, <1>2, <1>3, <2>1, <2>2, <2>3 DEF CallInv
<1> QED
  BY <1>2, <1>3, <1>5, <1>6, FifoCallStep

\* A failed send loses the request in the task's hand.
LEMMA FifoSendErr ==
  ASSUME PipeTypeOK, FifoInv, NEW s \in Streams, SendErr(s)
  PROVE  FifoInv'
<1>1. /\ buf' = buf /\ last' = last /\ tonic' = tonic /\ enq' = enq
      /\ \A t \in Streams \ {s} : hand'[t] = hand[t]
      /\ hand'[s] = <<>> /\ Gone' = Gone \cup Numbers(hand[s])
  BY DEF SendErr, Gone, PipeTypeOK
<1>2. CallInv(s)
  BY DEF FifoInv
<1>3. Numbers(buf'[s]) = Numbers(buf[s]) /\ Numbers(hand'[s]) = {} /\ Sorted(buf'[s])
  BY <1>1, <1>2, NumbersEmpty DEF CallInv
<1>4. Own(s)' = Numbers(buf[s])
  BY <1>3 DEF Own
<1>5. Numbers(hand[s]) \cap Numbers(buf[s]) = {}
  BY <1>2, FifoTypes DEF CallInv
<1>6. Gone' \subseteq Gone \cup (Own(s) \ Own(s)')
  BY <1>1, <1>4, <1>5 DEF Own
<1>7. \A n \in Own(s)' : last'[s] < n
  BY <1>1, <1>2, <1>4 DEF CallInv, Own
<1> QED
  BY <1>1, <1>3, <1>6, <1>7, FifoLeave

\* The body loses what it holds when it is dropped.
LEMMA FifoDropBody ==
  ASSUME PipeTypeOK, FifoInv, NEW s \in Streams, DropBody(s)
  PROVE  FifoInv'
<1>1. /\ hand' = hand /\ last' = last /\ tonic' = tonic /\ enq' = enq
      /\ \A t \in Streams \ {s} : buf'[t] = buf[t]
      /\ buf'[s] = <<>> /\ Gone' = Gone \cup Numbers(buf[s])
  BY DEF DropBody, Gone, PipeTypeOK
<1>2. CallInv(s)
  BY DEF FifoInv
<1>3. Numbers(hand'[s]) = Numbers(hand[s]) /\ Numbers(buf'[s]) = {} /\ Sorted(buf'[s])
  BY <1>1, NumbersEmpty, SortedEmpty
<1>4. Own(s)' = Numbers(hand[s])
  BY <1>3 DEF Own
<1>5. Numbers(hand[s]) \cap Numbers(buf[s]) = {}
  BY <1>2, FifoTypes DEF CallInv
<1>6. Gone' \subseteq Gone \cup (Own(s) \ Own(s)')
  BY <1>1, <1>4, <1>5 DEF Own
<1>7. \A n \in Own(s)' : last'[s] < n
  BY <1>1, <1>2, <1>4 DEF CallInv, Own
<1> QED
  BY <1>1, <1>3, <1>6, <1>7, FifoLeave

\* What the head of a body is to the rest of the call.
LEMMA BodyHead ==
  ASSUME PipeTypeOK, FifoInv, NEW s \in Streams, buf[s] # <<>>, NEW h, h = Head(buf[s])
  PROVE  /\ h \in Request
         /\ Numbers(buf[s]) = ({h.n} \ {0}) \cup Numbers(Tail(buf[s]))
         /\ Sorted(Tail(buf[s]))
         /\ h.n # 0 => /\ h.n \in Own(s)
                       /\ \A n \in Numbers(Tail(buf[s])) \cup Numbers(hand[s]) : h.n < n
<1>1. buf[s] \in Seq(Request) /\ h \in Request
  BY DEF PipeTypeOK
<1>2. CallInv(s)
  BY DEF FifoInv
<1>3. Numbers(buf[s]) = ({h.n} \ {0}) \cup Numbers(Tail(buf[s]))
  BY <1>1, NumbersTail
<1>4. Sorted(buf[s])
  BY <1>2 DEF CallInv
<1>5. Sorted(Tail(buf[s])) /\ \A n \in Numbers(Tail(buf[s])) : h.n # 0 => h.n < n
  BY <1>1, <1>4, SortedTail
<1>6. ASSUME h.n # 0, NEW n \in Numbers(hand[s])
      PROVE  h.n < n
  BY <1>2, <1>3, <1>6 DEF CallInv
<1>7. h.n # 0 => h.n \in Own(s)
  BY <1>3 DEF Own
<1> QED
  BY <1>1, <1>3, <1>5, <1>6, <1>7

\* A payload that leaves the body is the smallest of the call.
LEMMA FifoPull ==
  ASSUME PipeTypeOK, FifoInv, NEW s \in Streams, Pull(s)
  PROVE  FifoInv'
<1> DEFINE h == Head(buf[s])
<1>1. buf[s] # <<>>
  BY DEF Pull
<1>2. /\ hand' = hand /\ tonic' = tonic /\ enq' = enq
      /\ \A t \in Streams \ {s} : buf'[t] = buf[t] /\ last'[t] = last[t]
      /\ buf'[s] = Tail(buf[s]) /\ Gone' = Gone \cup ({h.n} \ {0})
      /\ last'[s] = IF h.type = "Payload" THEN h.n ELSE last[s]
  BY DEF Pull, Gone, PipeTypeOK
<1>3. CallInv(s)
  BY DEF FifoInv
<1> HIDE DEF h
<1>4. /\ h \in Request
      /\ Numbers(buf[s]) = ({h.n} \ {0}) \cup Numbers(Tail(buf[s]))
      /\ Sorted(Tail(buf[s]))
      /\ h.n # 0 => /\ h.n \in Own(s)
                    /\ \A n \in Numbers(Tail(buf[s])) \cup Numbers(hand[s]) : h.n < n
  BY <1>1, BodyHead DEF h
<1>5. h.type = "Payload" <=> h.n # 0
  BY <1>4 DEF Request
<1>6. /\ Numbers(hand'[s]) = Numbers(hand[s]) /\ Sorted(buf'[s])
      /\ Numbers(buf'[s]) = Numbers(Tail(buf[s]))
      /\ Numbers(buf'[s]) \subseteq Numbers(buf[s])
  BY <1>2, <1>4
<1>7. Own(s)' = Numbers(Tail(buf[s])) \cup Numbers(hand[s])
  BY <1>6 DEF Own
<1>8. \A n \in Own(s)' : n \in Own(s) /\ n \in Nat
  BY <1>6, <1>7, FifoTypes DEF Own
<1>9. Gone' \subseteq Gone \cup (Own(s) \ Own(s)')
  <2>1. h.n # 0 => h.n \notin Own(s)'
    BY <1>4, <1>7, <1>8
  <2> QED
    BY <1>2, <1>4, <2>1
<1>10. \A n \in Own(s)' : last'[s] < n
  BY <1>2, <1>3, <1>4, <1>5, <1>7, <1>8 DEF CallInv
<1>11. last'[s] = last[s] \/ last'[s] \in Own(s)
  BY <1>2, <1>4, <1>5
<1> QED
  BY <1>2, <1>6, <1>9, <1>10, <1>11, FifoLeave

\* Every step keeps the order.
LEMMA FifoStep ==
  ASSUME PipeTypeOK, Bounded, FifoInv, [PipeNext]_pipe
  PROVE  FifoInv'
<1>1. ASSUME tonic' = tonic, enq' = enq, buf' = buf, hand' = hand, last' = last,
             delivered' = delivered, lost' = lost
      PROVE  FifoInv'
  BY <1>1 DEF FifoInv, ChannelInv, CallInv, Apart, Own, Gone
<1>2. ASSUME NEW s \in Streams, Cancel(s) \/ CheckToken(s) \/ Park(s)
      PROVE  FifoInv'
  BY <1>1, <1>2 DEF Cancel, CheckToken, Park
<1>3. CASE UNCHANGED pipe
  BY <1>1, <1>3 DEF pipe
<1> QED
  BY <1>2, <1>3, FifoPut, FifoNew, FifoRecv, FifoPush, FifoSendErr, FifoPull, FifoDropBody
     DEF PipeNext, Start, TaskStep

\* The channel, the bodies and the tasks keep the order in every behaviour.
THEOREM PipeFifoInv == PipeSpec => []FifoInv
<1>1. PipeInit => FifoInv
  BY FifoInit
<1>2. PipeTypeOK /\ Bounded /\ FifoInv /\ [PipeNext]_pipe => FifoInv'
  BY FifoStep
<1> QED
  BY <1>1, <1>2, PipeTypeCorrect, PipeBounded, PTL DEF PipeSpec
-----------------------------------------------------------------------------
(* What follows from it. *)

\* What lies ahead of a call is in order: the body before the hand, the hand
\* before the channel.
LEMMA FifoOrder ==
  ASSUME PipeTypeOK, Bounded, FifoInv
  PROVE  StreamOrder
<1> SUFFICES ASSUME NEW s \in Streams
             PROVE  /\ \A n \in Numbers(Ahead(s)) : last[s] < n /\ n <= enq
                    /\ Sorted(Ahead(s))
  BY DEF StreamOrder, Sorted, Numbers
<1>1. /\ buf[s] \in Seq(Request) /\ hand[s] \in Seq(Request) /\ tonic \in Seq(Request)
      /\ buf[s] \o hand[s] \in Seq(Request)
  BY DEF PipeTypeOK
<1>2. CallInv(s) /\ ChannelInv
  BY DEF FifoInv
<1>3. Numbers(buf[s] \o hand[s]) = Own(s)
  BY <1>1, NumbersConcat DEF Own
<1>4. Numbers(Ahead(s)) = Own(s) \cup Numbers(tonic)
  BY <1>1, <1>3, NumbersConcat DEF Ahead
<1>5. Sorted(buf[s] \o hand[s])
  <2>1. Len(hand[s]) = 0 \/ Len(hand[s]) = 1
    BY DEF Bounded
  <2>2. Sorted(hand[s])
    BY <1>1, <2>1 DEF Sorted
  <2> QED
    BY <1>1, <1>2, <2>2, SortedConcat DEF CallInv
<1>6. Sorted(Ahead(s))
  <2>1. Sorted(tonic) /\ \A m \in Own(s), n \in Numbers(tonic) : m < n
    BY <1>2 DEF ChannelInv, CallInv
  <2> QED
    BY <1>1, <1>3, <1>5, <2>1, SortedConcat DEF Ahead
<1> QED
  BY <1>2, <1>4, <1>6 DEF CallInv, ChannelInv

\* Every call sends its payloads in the order in which they entered tonic_tx and
\* none twice, whatever its predecessors took from the channel before they died.
THEOREM PipeStreamOrder == PipeSpec => []StreamOrder
<1>1. PipeTypeOK /\ Bounded /\ FifoInv => StreamOrder
  BY FifoOrder
<1> QED
  BY <1>1, PipeTypeCorrect, PipeBounded, PipeFifoInv, PTL

\* A payload still with a call has neither been sent nor lost.
LEMMA OwnFresh ==
  ASSUME PipeTypeOK, FifoInv, NEW s \in Streams
  PROVE  Own(s) \subseteq Fifo!Fresh
<1>1. CallInv(s)
  BY DEF FifoInv
<1>2. ASSUME NEW n \in Own(s)
      PROVE  n \in 1 .. enq /\ n \notin Gone
  BY <1>1, FifoTypes DEF CallInv
<1> QED
  BY <1>2 DEF Fifo!Fresh, Gone

\* Every step of the pipe is a step of the lossy queue or leaves it as it is.
LEMMA FifoSimulation ==
  ASSUME PipeTypeOK, Bounded, FifoInv, [PipeNext]_pipe
  PROVE  [Fifo!Next]_<<enq, last, delivered, lost>>
<1>1. ASSUME NEW type \in {"ConnectRequest", "Payload", "Heartbeat"}, Put(type)
      PROVE  Fifo!Accept \/ UNCHANGED <<enq, last, delivered, lost>>
  BY <1>1 DEF Put, Fifo!Accept
<1>2. ASSUME NEW s \in Streams, New(s)
      PROVE  Fifo!Begin(s)
  BY <1>2 DEF New, Fifo!Begin
<1>3. ASSUME NEW s \in Streams,
             Cancel(s) \/ CheckToken(s) \/ Recv(s) \/ Park(s) \/ Push(s)
      PROVE  UNCHANGED <<enq, last, delivered, lost>>
  BY <1>3 DEF Cancel, CheckToken, Recv, Park, Push
<1>4. ASSUME NEW s \in Streams, SendErr(s)
      PROVE  \E N \in SUBSET Fifo!Fresh : Fifo!Lose(N)
  <2>1. Numbers(hand[s]) \in SUBSET Fifo!Fresh
    BY OwnFresh DEF Own
  <2>2. Fifo!Lose(Numbers(hand[s]))
    BY <1>4 DEF SendErr, Fifo!Lose
  <2> QED
    BY <2>1, <2>2
<1>5. ASSUME NEW s \in Streams, DropBody(s)
      PROVE  \E N \in SUBSET Fifo!Fresh : Fifo!Lose(N)
  <2>1. Numbers(buf[s]) \in SUBSET Fifo!Fresh
    BY OwnFresh DEF Own
  <2>2. Fifo!Lose(Numbers(buf[s]))
    BY <1>5 DEF DropBody, Fifo!Lose
  <2> QED
    BY <2>1, <2>2
<1>6. ASSUME NEW s \in Streams, Pull(s)
      PROVE  \/ \E n \in Fifo!Fresh : Fifo!Deliver(s, n)
             \/ UNCHANGED <<enq, last, delivered, lost>>
  <2> DEFINE h == Head(buf[s])
  <2>1. /\ buf[s] # <<>> /\ enq' = enq /\ lost' = lost
        /\ last' = [last EXCEPT ![s] = IF h.type = "Payload" THEN h.n ELSE @]
        /\ delivered' = delivered \cup ({h.n} \ {0})
    BY <1>6 DEF Pull
  <2> HIDE DEF h
  <2>2. h \in Request /\ (h.n # 0 => h.n \in Own(s))
    BY <2>1, BodyHead DEF h
  <2>3. h.type = "Payload" <=> h.n # 0
    BY <2>2 DEF Request
  <2>4. CASE h.n = 0
    <3>1. last' = last
      BY <2>1, <2>3, <2>4 DEF PipeTypeOK
    <3> QED
      BY <2>1, <2>4, <3>1
  <2>5. CASE h.n # 0
    <3>1. h.n \in Fifo!Fresh
      BY <2>2, <2>5, OwnFresh
    <3>2. last[s] < h.n /\ last[s] \in Nat /\ h.n \in Nat
      BY <2>2, <2>5, FifoTypes DEF FifoInv, CallInv
    <3>3. Fifo!Deliver(s, h.n)
      BY <2>1, <2>3, <2>5, <3>2 DEF Fifo!Deliver
    <3> QED
      BY <3>1, <3>3
  <2> QED
    BY <2>4, <2>5
<1>7. CASE UNCHANGED pipe
  BY <1>7 DEF pipe
<1> QED
  BY <1>1, <1>2, <1>3, <1>4, <1>5, <1>6, <1>7
     DEF PipeNext, Start, TaskStep, Fifo!Next

\* The forwarding tasks, the channel and the bodies implement the lossy queue: a
\* payload leaves on at most one call, in order, or is lost for good.
THEOREM PipeImplementsFifo == PipeSpec => ImplementsLossyFifo
<1>1. PipeInit => Fifo!Init
  BY DEF PipeInit, Fifo!Init
<1>2. PipeTypeOK /\ Bounded /\ FifoInv /\ [PipeNext]_pipe
        => [Fifo!Next]_<<enq, last, delivered, lost>>
  BY FifoSimulation
<1> QED
  BY <1>1, <1>2, PipeTypeCorrect, PipeBounded, PipeFifoInv, PTL
     DEF PipeSpec, ImplementsLossyFifo, Fifo!Spec
-----------------------------------------------------------------------------
(* Nothing is forgotten or in two places. *)

\* A payload that was put into the channel is there, with a call, or gone for one reason.
Covered ==
  /\ \A n \in 1 .. enq : n \in Numbers(tonic) \cup Gone \/ \E s \in Streams : n \in Own(s)
  /\ delivered \cap lost = {}

\* A step of call s that loses sight of no payload.
LEMMA CoveredCallStep ==
  ASSUME Covered, NEW s \in Streams, enq' = enq,
         \A t \in Streams \ {s} : buf'[t] = buf[t] /\ hand'[t] = hand[t],
         Numbers(tonic) \subseteq Numbers(tonic)' \cup Own(s)',
         Own(s) \subseteq Own(s)' \cup Gone',
         Gone \subseteq Gone',
         (delivered \cap lost)' = {}
  PROVE  Covered'
<1>1. ASSUME NEW t \in Streams, t # s
      PROVE  Own(t)' = Own(t)
  BY <1>1 DEF Own, Numbers
<1>2. ASSUME NEW n \in 1 .. enq
      PROVE  n \in Numbers(tonic)' \cup Gone' \/ \E t \in Streams : n \in Own(t)'
  <2>1. CASE n \in Numbers(tonic) \cup Gone
    BY <2>1
  <2>2. CASE \E t \in Streams : n \in Own(t)
    <3>1. PICK t \in Streams : n \in Own(t)
      BY <2>2
    <3>2. CASE t = s
      BY <3>1, <3>2
    <3>3. CASE t # s
      BY <1>1, <3>1, <3>3
    <3> QED
      BY <3>2, <3>3
  <2> QED
    BY <2>1, <2>2 DEF Covered
<1> QED
  BY <1>2 DEF Covered

LEMMA CoveredStep ==
  ASSUME PipeTypeOK, Bounded, FifoInv, Covered, [PipeNext]_pipe
  PROVE  Covered'
<1>1. ASSUME tonic' = tonic, enq' = enq, buf' = buf, hand' = hand, delivered' = delivered,
             lost' = lost
      PROVE  Covered'
  BY <1>1 DEF Covered, Own, Gone
<1>2. ASSUME NEW s \in Streams, New(s) \/ Cancel(s) \/ CheckToken(s) \/ Park(s)
      PROVE  Covered'
  BY <1>1, <1>2 DEF New, Cancel, CheckToken, Park
<1>3. CASE UNCHANGED pipe
  BY <1>1, <1>3 DEF pipe
<1>4. ASSUME NEW type \in {"ConnectRequest", "Payload", "Heartbeat"}, Put(type)
      PROVE  Covered'
  <2> DEFINE r == [type |-> type, n |-> IF type = "Payload" THEN enq + 1 ELSE 0]
  <2>1. r \in Request /\ tonic \in Seq(Request) /\ enq \in Nat
    BY PutRequest DEF PipeTypeOK
  <2>2. tonic' = Append(tonic, r) /\ enq' = (IF type = "Payload" THEN enq + 1 ELSE enq)
        /\ UNCHANGED <<buf, hand, delivered, lost>>
    BY <1>4 DEF Put
  <2>3. type = "Payload" => r.n = enq + 1 /\ r.n # 0
    BY <2>1
  <2> HIDE DEF r
  <2>4. Numbers(tonic') = Numbers(tonic) \cup ({r.n} \ {0})
    BY <2>1, <2>2, NumbersAppend
  <2>5. \A s \in Streams : Own(s)' = Own(s)
    BY <2>2 DEF Own
  <2>6. Gone' = Gone /\ (delivered \cap lost)' = delivered \cap lost
    BY <2>2 DEF Gone
  <2>7. \A n \in 1 .. enq' : n \in 1 .. enq \/ n \in Numbers(tonic')
    BY <2>1, <2>2, <2>3, <2>4
  <2> QED
    BY <2>4, <2>5, <2>6, <2>7 DEF Covered
<1>5. ASSUME NEW s \in Streams, Recv(s)
      PROVE  Covered'
  <2>1. /\ tonic # <<>> /\ tonic \in Seq(Request) /\ hand[s] = <<>>
        /\ hand'[s] = <<Head(tonic)>> /\ tonic' = Tail(tonic) /\ buf'[s] = buf[s]
        /\ \A t \in Streams \ {s} : buf'[t] = buf[t] /\ hand'[t] = hand[t]
        /\ UNCHANGED <<enq, delivered, lost>>
    BY <1>5 DEF Recv, PipeTypeOK, Bounded
  <2>2. Head(tonic) \in Request
    BY <2>1
  <2>3. Numbers(tonic) = ({Head(tonic).n} \ {0}) \cup Numbers(tonic')
    BY <2>1, NumbersTail
  <2>4. Numbers(hand'[s]) = {Head(tonic).n} \ {0} /\ Numbers(hand[s]) = {}
    BY <2>1, <2>2, NumbersOne, NumbersEmpty
  <2>5. Own(s)' = Numbers(buf[s]) \cup ({Head(tonic).n} \ {0}) /\ Own(s) = Numbers(buf[s])
    BY <2>1, <2>4 DEF Own
  <2>6. Gone' = Gone /\ (delivered \cap lost)' = delivered \cap lost
    BY <2>1 DEF Gone
  <2>7. delivered \cap lost = {}
    BY DEF Covered
  <2> QED
    BY <2>1, <2>3, <2>5, <2>6, <2>7, CoveredCallStep
<1>6. ASSUME NEW s \in Streams, Push(s)
      PROVE  Covered'
  <2>1. /\ buf[s] \in Seq(Request) /\ hand[s] \in Seq(Request)
        /\ buf'[s] = buf[s] \o hand[s]
        /\ \A t \in Streams \ {s} : buf'[t] = buf[t] /\ hand'[t] = hand[t]
        /\ UNCHANGED <<tonic, enq, delivered, lost>>
    BY <1>6 DEF Push, PipeTypeOK
  <2>2. Numbers(buf'[s]) = Numbers(buf[s]) \cup Numbers(hand[s])
    BY <2>1, NumbersConcat
  <2>3. Own(s) \subseteq Own(s)'
    BY <2>2 DEF Own
  <2>4. Gone' = Gone /\ Numbers(tonic)' = Numbers(tonic)
        /\ (delivered \cap lost)' = delivered \cap lost
    BY <2>1 DEF Gone
  <2>5. delivered \cap lost = {}
    BY DEF Covered
  <2> QED
    BY <2>1, <2>3, <2>4, <2>5, CoveredCallStep
<1>7. ASSUME NEW s \in Streams, Own(s) \cap Gone = {} => (delivered \cap lost)' = {},
             \A t \in Streams \ {s} : buf'[t] = buf[t] /\ hand'[t] = hand[t],
             UNCHANGED <<tonic, enq>>, Gone \subseteq Gone', Own(s) \subseteq Own(s)' \cup Gone'
      PROVE  Covered'
  <2>1. Own(s) \cap Gone = {}
    BY DEF FifoInv, CallInv
  <2>2. Numbers(tonic)' = Numbers(tonic)
    BY <1>7
  <2> QED
    BY <1>7, <2>1, <2>2, CoveredCallStep
<1>8. delivered \cap lost = {}
  BY DEF Covered
<1>9. ASSUME NEW s \in Streams, SendErr(s)
      PROVE  Covered'
  <2>1. /\ lost' = lost \cup Numbers(hand[s]) /\ buf'[s] = buf[s]
        /\ \A t \in Streams \ {s} : buf'[t] = buf[t] /\ hand'[t] = hand[t]
        /\ UNCHANGED <<tonic, enq, delivered>>
    BY <1>9 DEF SendErr, PipeTypeOK
  <2>2. /\ Gone' = Gone \cup Numbers(hand[s])
        /\ Own(s) \cap Gone = {} => (delivered \cap lost)' = {}
    BY <1>8, <2>1 DEF Gone, Own
  <2>3. Own(s) \subseteq Own(s)' \cup Gone'
    BY <2>1, <2>2 DEF Own
  <2> QED
    BY <1>7, <2>1, <2>2, <2>3
<1>10. ASSUME NEW s \in Streams, DropBody(s)
       PROVE  Covered'
  <2>1. /\ lost' = lost \cup Numbers(buf[s]) /\ hand'[s] = hand[s]
        /\ \A t \in Streams \ {s} : buf'[t] = buf[t] /\ hand'[t] = hand[t]
        /\ UNCHANGED <<tonic, enq, delivered>>
    BY <1>10 DEF DropBody, PipeTypeOK
  <2>2. /\ Gone' = Gone \cup Numbers(buf[s])
        /\ Own(s) \cap Gone = {} => (delivered \cap lost)' = {}
    BY <1>8, <2>1 DEF Gone, Own
  <2>3. Own(s) \subseteq Own(s)' \cup Gone'
    BY <2>1, <2>2 DEF Own
  <2> QED
    BY <1>7, <2>1, <2>2, <2>3
<1>11. ASSUME NEW s \in Streams, Pull(s)
       PROVE  Covered'
  <2>1. PICK h : h = Head(buf[s])
    OBVIOUS
  <2>2. /\ buf[s] # <<>> /\ buf'[s] = Tail(buf[s]) /\ hand'[s] = hand[s]
        /\ delivered' = delivered \cup ({h.n} \ {0})
        /\ \A t \in Streams \ {s} : buf'[t] = buf[t] /\ hand'[t] = hand[t]
        /\ UNCHANGED <<tonic, enq, lost>>
    BY <1>11, <2>1 DEF Pull, PipeTypeOK
  <2>3. /\ Numbers(buf[s]) = ({h.n} \ {0}) \cup Numbers(Tail(buf[s]))
        /\ h.n # 0 => h.n \in Own(s)
    BY <2>1, <2>2, BodyHead
  <2>4. /\ Gone' = Gone \cup ({h.n} \ {0})
        /\ Own(s) \cap Gone = {} => (delivered \cap lost)' = {}
    BY <1>8, <2>2, <2>3 DEF Gone
  <2>5. Own(s) \subseteq Own(s)' \cup Gone'
    BY <2>2, <2>3, <2>4 DEF Own
  <2> QED
    BY <1>7, <2>2, <2>4, <2>5
<1> QED
  BY <1>2, <1>3, <1>4, <1>5, <1>6, <1>9, <1>10, <1>11 DEF PipeNext, Start, TaskStep

\* A payload is at most once in a channel that is in order.
LEMMA HeldOnce ==
  ASSUME NEW q \in Seq(Request), Sorted(q), NEW n \in Nat \ {0}
  PROVE  /\ n \notin Numbers(q) => Held(q, n) = {}
         /\ n \in Numbers(q) => \E i : Held(q, n) = {i}
<1>1. \A i, j \in Held(q, n) : i = j
  BY DEF Held, Sorted
<1>2. n \in Numbers(q) <=> Held(q, n) # {}
  BY DEF Held, Numbers
<1> QED
  BY <1>1, <1>2

\* A payload handed to tonic_tx is in exactly one place, for any number of overlapping calls.
THEOREM PipeConserves == PipeSpec => []PayloadsConserved
<1>1. PipeInit => Covered
  BY DEF PipeInit, Covered, Gone
<1>2. ASSUME PipeTypeOK, Bounded, FifoInv, Covered
      PROVE  PayloadsConserved
  <2> SUFFICES ASSUME NEW n \in 1 .. enq
               PROVE  \E p : Places(n) = {p}
    BY FS_Singleton DEF PayloadsConserved
  <2>1. n \in Nat \ {0}
    BY <1>2 DEF PipeTypeOK
  <2>2. ChannelInv /\ Apart /\ \A s \in Streams : CallInv(s)
    BY <1>2 DEF FifoInv
  <2>3. /\ n \notin Numbers(tonic) => Held(tonic, n) = {}
        /\ n \in Numbers(tonic) => \E i : Held(tonic, n) = {i}
    BY <1>2, <2>1, <2>2, HeldOnce DEF PipeTypeOK, ChannelInv
  <2>4. ASSUME NEW s \in Streams
        PROVE  /\ n \notin Numbers(buf[s]) => Held(buf[s], n) = {}
               /\ n \in Numbers(buf[s]) => \E i : Held(buf[s], n) = {i}
    BY <1>2, <2>1, <2>2, HeldOnce DEF PipeTypeOK, CallInv
  <2>5. ASSUME NEW s \in Streams
        PROVE  /\ n \notin Numbers(hand[s]) => Held(hand[s], n) = {}
               /\ n \in Numbers(hand[s]) => \E i : Held(hand[s], n) = {i}
    <3>1. hand[s] \in Seq(Request) /\ (Len(hand[s]) = 0 \/ Len(hand[s]) = 1)
      BY <1>2 DEF PipeTypeOK, Bounded
    <3>2. Sorted(hand[s])
      BY <3>1 DEF Sorted
    <3> QED
      BY <2>1, <3>1, <3>2, HeldOnce
  <2>6. ASSUME NEW s \in Streams, n \in Own(s)
        PROVE  /\ n \notin Numbers(tonic) /\ n \notin Gone
               /\ \A t \in Streams \ {s} : n \notin Own(t)
               /\ ~(n \in Numbers(buf[s]) /\ n \in Numbers(hand[s]))
    BY <2>1, <2>2, <2>6 DEF CallInv, Apart
  <2> DEFINE T == {<<"tonic", i>> : i \in Held(tonic, n)}
             H == UNION {{<<"hand", s, i>> : i \in Held(hand[s], n)} : s \in Streams}
             B == UNION {{<<"buf", s, i>> : i \in Held(buf[s], n)} : s \in Streams}
             D == IF n \in delivered THEN {<<"delivered">>} ELSE {}
             L == IF n \in lost THEN {<<"lost">>} ELSE {}
             G == D \cup L
  <2>7. Places(n) = T \cup H \cup B \cup G
    <3>1. Places(n) = T \cup H \cup B \cup D \cup L
      BY DEF Places
    <3> HIDE DEF T, H, B, D, L
    <3> QED
      BY <3>1
  <2>8. n \notin Numbers(tonic) => T = {}
    BY <2>3
  <2>9. (\A s \in Streams : n \notin Numbers(hand[s])) => H = {}
    BY <2>5
  <2>10. (\A s \in Streams : n \notin Numbers(buf[s])) => B = {}
    BY <2>4
  <2>11. n \notin Gone => G = {}
    BY DEF Gone
  <2>12. CASE n \in Numbers(tonic)
    <3>1. \E i : T = {<<"tonic", i>>}
      BY <2>3, <2>12
    <3>2. n \notin Gone /\ \A s \in Streams : n \notin Own(s)
      BY <2>2, <2>6, <2>12 DEF ChannelInv
    <3>3. H = {} /\ B = {} /\ G = {}
      BY <2>9, <2>10, <2>11, <3>2 DEF Own
    <3> HIDE DEF T, H, B, G
    <3> QED
      BY <2>7, <3>1, <3>3
  <2>13. CASE \E s \in Streams : n \in Own(s)
    <3>1. PICK s \in Streams : n \in Own(s)
      BY <2>13
    <3>2. T = {} /\ G = {} /\ \A t \in Streams \ {s} : n \notin Own(t)
      BY <2>6, <2>8, <2>11, <3>1
    <3>3. CASE n \in Numbers(buf[s])
      <4>1. PICK i : Held(buf[s], n) = {i}
        BY <2>4, <3>3
      <4>2. \A t \in Streams \ {s} : Held(buf[t], n) = {}
        BY <2>4, <3>2 DEF Own
      <4>3. B = {<<"buf", s, i>>}
        BY <4>1, <4>2
      <4>4. H = {}
        BY <2>6, <2>9, <3>1, <3>2, <3>3 DEF Own
      <4> HIDE DEF T, H, B, G
      <4> QED
        BY <2>7, <3>2, <4>3, <4>4
    <3>4. CASE n \in Numbers(hand[s])
      <4>1. PICK i : Held(hand[s], n) = {i}
        BY <2>5, <3>4
      <4>2. \A t \in Streams \ {s} : Held(hand[t], n) = {}
        BY <2>5, <3>2 DEF Own
      <4>3. H = {<<"hand", s, i>>}
        BY <4>1, <4>2
      <4>4. B = {}
        BY <2>6, <2>10, <3>1, <3>2, <3>4 DEF Own
      <4> HIDE DEF T, H, B, G
      <4> QED
        BY <2>7, <3>2, <4>3, <4>4
    <3> QED
      BY <3>1, <3>3, <3>4 DEF Own
  <2>14. CASE n \in Gone
    <3>1. n \notin Numbers(tonic) /\ \A s \in Streams : n \notin Own(s)
      BY <2>2, <2>6, <2>14 DEF ChannelInv
    <3>2. T = {} /\ H = {} /\ B = {}
      BY <2>8, <2>9, <2>10, <3>1 DEF Own
    <3>3. n \in delivered <=> n \notin lost
      BY <1>2, <2>14 DEF Covered, Gone
    <3>4. G = {<<"delivered">>} \/ G = {<<"lost">>}
      BY <3>3
    <3> HIDE DEF T, H, B, G
    <3> QED
      BY <2>7, <3>2, <3>4
  <2> QED
    BY <1>2, <2>12, <2>13, <2>14 DEF Covered
<1>3. PipeTypeOK /\ Bounded /\ FifoInv /\ Covered /\ [PipeNext]_pipe => Covered'
  BY CoveredStep
<1> QED
  BY <1>1, <1>2, <1>3, PipeTypeCorrect, PipeBounded, PipeFifoInv, PTL DEF PipeSpec
=============================================================================
