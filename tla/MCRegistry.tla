----------------------------- MODULE MCRegistry -----------------------------
(* Instances of Registry for TLC. *)
EXTENDS Registry

CONSTANTS r1, r2, r3, c, d, a, ab

\* Two logins of client c and one of d.
TwoClients == [r \in Runs |-> IF r = r3 THEN d ELSE c]

\* No name contains a colon.
PlainNames == [n \in Names |-> {n}]

Offer(t, p) == [type |-> t, port |-> p]

MixedOffers == {Offer("tcp", 1), Offer("stcp", 0), Offer("xtcp", 1)}

Scene(runs, kicked, offers, threads) ==
    [runs |-> runs, kicked |-> kicked, offers |-> offers, threads |-> threads]

\* Three logins on one thread, and two on several.
AwaitsAndThreads == {Scene(Runs, {r1}, MixedOffers, FALSE),
                     Scene({r1, r2}, {r1}, {Offer("xtcp", 1)}, TRUE)}

\* A client with two stcp proxies logs in twice.
Reconnect == {Scene(Runs, {}, {Offer("stcp", 0)}, FALSE)}
=============================================================================
