----------------------------- MODULE MCTcpGroup -----------------------------
(* Instances of TcpGroup for TLC. *)
EXTENDS TcpGroup

CONSTANTS m1, m2, m3
=============================================================================
