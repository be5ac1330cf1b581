----------------------------- MODULE MCWorkConn -----------------------------
(***************************************************************************)
(* Instances of WorkConn for TLC.                                          *)
(***************************************************************************)
EXTENDS WorkConn

CONSTANTS r1, r2, r3, p, q

\* Requests of two proxies: r1 is for q.
TwoProxies == [r \in Requests |-> IF r = r1 THEN q ELSE p]
=============================================================================
