------------------------- MODULE MCRelayConnection -------------------------
(* RelayConnection for TLC. *)
EXTENDS RelayConnection, TLC

StreamSymmetry == Permutations(Streams)

\* With faults without end, ConnectRequests could pile up in the channel.
MaxTonic == 2
MCFairSpec == Init /\ [][Next /\ Len(tonic') <= MaxTonic]_vars /\ Fairness
=============================================================================
