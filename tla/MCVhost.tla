------------------------------ MODULE MCVhost -------------------------------
(* Instances of Vhost for TLC. *)
EXTENDS Vhost, TLC

CONSTANTS p1, p2, p3, d1, d2

\* All three proxies serve d1, the second one d2 as well.
SharedDomain == [p \in Proxies |-> IF p = p2 THEN <<d1, d2>> ELSE <<d1>>]

\* p1 and p3 are interchangeable.
Alike == Permutations({p1, p3})
=============================================================================
