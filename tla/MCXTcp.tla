------------------------------- MODULE MCXTcp -------------------------------
(* Instances of XTcp for TLC: the users of one visitor client. *)
EXTENDS XTcp, TLC

CONSTANTS v1, v2
=============================================================================
