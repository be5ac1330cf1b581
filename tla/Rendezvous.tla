----------------------------- MODULE Rendezvous -----------------------------
(***************************************************************************)
(* What a Control promises to the proxies that ask it for work             *)
(* connections: requests and connections meet one to one.  A connection is *)
(* handed to at most one request, a request gets at most one connection,   *)
(* only a request that is still waiting is served, and only with a         *)
(* connection that is still on offer.                                      *)
(***************************************************************************)
EXTENDS Naturals

CONSTANTS Requests, Conns

VARIABLES want,     \* requests that wait for a connection
          offer,    \* connections the server holds unassigned
          pair      \* assigned connections: a set of <<request, connection>>

rvars == <<want, offer, pair>>

Paired(r) == \E c \in Conns : <<r, c>> \in pair
Taken(c) == \E r \in Requests : <<r, c>> \in pair

Init == want = {} /\ offer = {} /\ pair = {}

Ask(r) ==
    /\ r \notin want /\ ~Paired(r)
    /\ want' = want \cup {r}
    /\ UNCHANGED <<offer, pair>>

Offer(c) ==
    /\ c \notin offer /\ ~Taken(c)
    /\ offer' = offer \cup {c}
    /\ UNCHANGED <<want, pair>>

Meet(r, c) ==
    /\ r \in want /\ c \in offer
    /\ want' = want \ {r}
    /\ offer' = offer \ {c}
    /\ pair' = pair \cup {<<r, c>>}

\* Requests give up, connections are closed unassigned.
Withdraw ==
    /\ want' \subseteq want
    /\ offer' \subseteq offer
    /\ UNCHANGED pair

Part(r, c) ==
    /\ <<r, c>> \in pair
    /\ pair' = pair \ {<<r, c>>}
    /\ UNCHANGED <<want, offer>>

Next == \/ \E r \in Requests : Ask(r)
        \/ \E c \in Conns : Offer(c)
        \/ \E r \in Requests, c \in Conns : Meet(r, c) \/ Part(r, c)
        \/ Withdraw

Spec == Init /\ [][Next]_rvars
=============================================================================
