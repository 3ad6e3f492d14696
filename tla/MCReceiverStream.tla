-------------------------- MODULE MCReceiverStream --------------------------
(* ReceiverStream, with what PipeLoss counts, under every environment that   *)
(* keeps to run()'s discipline, for a bounded number of payloads and a       *)
(* bounded backlog in the channel.                                           *)
EXTENDS PipeLoss, TLC

CONSTANTS
  MaxPayloads,  \* payloads put into the channel
  MaxTonic      \* requests waiting in the channel

StreamSymmetry == Permutations(Streams)

\* The pipe treats a Heartbeat like a ConnectRequest: one of them is enough.
MCNext ==
  /\ LossNext
  /\ \A i \in DOMAIN tonic' : tonic'[i].type # "Heartbeat"
  /\ enq' <= MaxPayloads
  /\ Len(tonic') <= MaxTonic

MCSpec == LossInit /\ [][MCNext]_<<pipe, gone>>
=============================================================================
