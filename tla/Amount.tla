------------------------------- MODULE Amount -------------------------------
(***************************************************************************)
(* relay-client/src/amount.rs: a count that may be infinite.  Amount::Val  *)
(* is a natural number, Amount::Infinite the one value outside Nat.        *)
(***************************************************************************)
EXTENDS Integers

Infinite == -1

Amount == Nat \cup {Infinite}

\* PartialOrd<u64>: the comparison a <= n that run() makes with conn_attempts.
\* Infinite compares Greater than every number.
AtMost(a, n) == a # Infinite /\ a <= n

\* Amount::is_zero.
IsZero(a) == a = 0

\* Amount::decrement: neither Val(0) nor Infinite changes.
Decrement(a) == IF a > 0 THEN a - 1 ELSE a
=============================================================================
