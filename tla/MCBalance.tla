----------------------------- MODULE MCBalance ------------------------------
(* Instances of Balance for TLC. *)
EXTENDS Balance

CONSTANTS steady, flaky, u1, u2

TwoBackends == <<steady, flaky>>
=============================================================================
