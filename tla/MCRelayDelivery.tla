-------------------------- MODULE MCRelayDelivery --------------------------
(* RelayDelivery for TLC. *)
EXTENDS RelayDelivery, TLC

CallSymmetry == Permutations(Calls)
=============================================================================
