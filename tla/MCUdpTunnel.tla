---------------------------- MODULE MCUdpTunnel ----------------------------
(* Instances of UdpTunnel for TLC. *)
EXTENDS UdpTunnel

CONSTANTS x, y
=============================================================================
