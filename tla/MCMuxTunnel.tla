---------------------------- MODULE MCMuxTunnel ----------------------------
(* Instances of MuxTunnel for TLC. *)
EXTENDS MuxTunnel, TLC

CONSTANTS u1, u2

\* Users differ in nothing but their name, and the run checks no liveness.
Symmetry == Permutations(Users)
=============================================================================
