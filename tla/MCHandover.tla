----------------------------- MODULE MCHandover -----------------------------
(* Instances of Handover for TLC. *)
EXTENDS Handover

Scene(k, h, t, f) == [kind |-> k, head |-> h, text |-> t, faults |-> f]

\* Every kind of connection, orderly and with faults; heads that fit, heads that
\* do not; bodies of one-byte characters, bodies that are not text, and bodies
\* with a two-byte character.
AllScenes == {Scene(k, 2, 1..N, f) : k \in Kinds, f \in BOOLEAN}
             \cup {Scene("http", 6, 1..N, FALSE), Scene("http", 2, {1, 2}, FALSE),
                   Scene("http", 2, 1..N \ {4}, FALSE)}

\* Length fields: nothing, small values, and the largest one.
Bytes1 == {0, 1, 255}
Bytes2 == {0, 1, 2, 3, 5, 7, 11, 65535}
Bytes3 == {0, 40, 16777215}
=============================================================================
