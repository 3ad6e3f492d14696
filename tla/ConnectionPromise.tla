------------------------- MODULE ConnectionPromise -------------------------
(***************************************************************************)
(* What Client::connect(), send(), stop() and reconnect() and the task     *)
(* they talk to promise, said without the queue between them, RelayConnect *)
(* calls, handshakes, responses, tokens and heartbeats: what is asked of   *)
(* the client is done while it is online, and in which order; which ends a *)
(* client can come to; and what its failures cost.  Online is a client     *)
(* whose connect() has returned Ok, the relay may not have answered; what  *)
(* it takes it has given to its connection, which may still lose it.       *)
(***************************************************************************)
EXTENDS Amount

CONSTANT MaxAttempts   \* ClientOpts::max_connection_attempts

VARIABLES
  status,     \* "starting", "offline", "online", "stopped", "failed" or "panicked"
  left,       \* how many more failures it takes to end the client (an Amount)
  held,       \* some Client handle is alive
  asked,      \* messages handed to the client
  taken,      \* those given to the connection
  stopAfter,  \* how many of them were handed over before stop(), -1 until then
  due,        \* calls of reconnect() before stop() that have not taken effect
  got         \* the number of the last payload that was given to recv()

vars == <<status, left, held, asked, taken, stopAfter, due, got>>

Init ==
  /\ status = "starting"
  /\ left = IF MaxAttempts = 0 THEN 1 ELSE MaxAttempts
  /\ held = TRUE
  /\ asked = 0 /\ taken = 0 /\ stopAfter = -1 /\ due = 0 /\ got = 0

Over == status \in {"stopped", "failed", "panicked"}
-----------------------------------------------------------------------------
(* What the holders of the handles do. *)
HandOver ==
  /\ held /\ ~Over
  /\ asked' = asked + 1
  /\ UNCHANGED <<status, left, held, taken, stopAfter, due, got>>

AskStop ==
  /\ held /\ ~Over /\ stopAfter = -1
  /\ stopAfter' = asked
  /\ UNCHANGED <<status, left, held, asked, taken, due, got>>

\* After stop() it has no effect.
AskReconnect ==
  /\ held /\ ~Over
  /\ due' = IF stopAfter = -1 THEN due + 1 ELSE due
  /\ UNCHANGED <<status, left, held, asked, taken, stopAfter, got>>

DropHandles ==
  /\ held /\ held' = FALSE
  /\ UNCHANGED <<status, left, asked, taken, stopAfter, due, got>>
-----------------------------------------------------------------------------
(* What the client does. *)
Become(s) == status' = s /\ UNCHANGED <<held, asked, taken, stopAfter, got>>

Start == status = "starting" /\ Become("offline") /\ UNCHANGED <<left, due>>

Connect == status = "offline" /\ Become("online") /\ UNCHANGED <<left, due>>

\* A message is given to the connection, the oldest first, and none that came after stop().
Take ==
  /\ status = "online" /\ taken < asked
  /\ stopAfter # -1 => taken < stopAfter
  /\ taken' = taken + 1
  /\ UNCHANGED <<status, left, held, asked, stopAfter, due, got>>

\* A payload goes to recv(): none twice, none before an older one.
Give ==
  /\ status = "online" /\ held
  /\ got' \in Nat /\ got < got'
  /\ UNCHANGED <<status, left, held, asked, taken, stopAfter, due>>

\* It costs no attempt, and every call of reconnect() has effect once.
Reconnect ==
  /\ status = "online" /\ due > 0
  /\ Become("offline")
  /\ due' = due - 1
  /\ UNCHANGED left

\* A failure costs one attempt; the client goes on as long as there are others.
Lose ==
  /\ status \in {"offline", "online"} /\ left # 1
  /\ Become("offline")
  /\ left' = Decrement(left)
  /\ UNCHANGED due

GiveUp ==
  /\ status \in {"offline", "online"} /\ left = 1
  /\ Become("failed")
  /\ left' = 0 /\ due' = 0

\* Stop comes when all that was asked for before has been done.
Stop ==
  /\ status = "online" /\ taken = stopAfter /\ due = 0
  /\ Become("stopped")
  /\ UNCHANGED <<left, due>>

\* Options the client cannot work with.
Refuse == status = "starting" /\ Become("failed") /\ due' = 0 /\ UNCHANGED left

Panic == status = "offline" /\ Become("panicked") /\ due' = 0 /\ UNCHANGED left

Next ==
  \/ HandOver \/ AskStop \/ AskReconnect \/ DropHandles
  \/ Start \/ Connect \/ Take \/ Give \/ Reconnect
  \/ Lose \/ GiveUp \/ Stop \/ Refuse \/ Panic

Spec == Init /\ [][Next]_vars
=============================================================================
