------------------------------ MODULE MCClient ------------------------------
(* Instances of Client for TLC. *)
EXTENDS Client, TLC

CONSTANTS p, q, k1, k2, k3

(* One proxy in the file; the admin API adds q and drops it again, and a   *)
(* second caller adds p, which is already there.                           *)
OneProxy == <<p>>
TwoProxies == <<p, q>>
NoCalls == <<>>
AdminCalls == k1 :> [op |-> "register", n |-> q] @@ k2 :> [op |-> "close", n |-> q]
              @@ k3 :> [op |-> "register", n |-> p]
=============================================================================
