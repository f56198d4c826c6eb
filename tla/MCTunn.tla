------------------------------- MODULE MCTunn -------------------------------
(* Instances of Tunn for TLC.                                              *)
EXTENDS Tunn, TLC

\* Packets are interchangeable; the two nodes are not when only one restarts.
PacketSymmetry == Permutations(Packet)
=============================================================================
