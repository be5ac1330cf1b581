-------------------------------- MODULE Sni ---------------------------------
(***************************************************************************)
(* parse_tls_sni: the walk through a TLS ClientHello record that finds the *)
(* server name an https connection is routed by.                           *)
(*                                                                         *)
(* The record is its length; what its bytes say (a type, a length field)   *)
(* is chosen when it is read.  Every index the parser uses is recorded.    *)
(***************************************************************************)
EXTENDS Integers

CONSTANTS U8, U16, U24      \* the values of length fields of one, two and three bytes

ASSUME WidthAssumption == U8 \subseteq Nat /\ U16 \subseteq Nat /\ U24 \subseteq Nat

VARIABLES
    field,      \* the field the parser is about to read
    len,        \* record.len()
    pos,        \* pos, or sn_pos once the extension is found
    end,        \* extensions_end
    snEnd,      \* sn_end
    span        \* the bytes the last step read: from span[1] up to span[2]

sniVars == <<field, len, pos, end, snEnd, span>>

Fields == {"record", "hello", "session", "ciphers", "compression", "extensions",
           "extension", "name", "found", "none"}

\* The parser is given a record of n bytes.
SniInit(n) ==
    /\ field = "record" /\ len = n /\ pos = 0
    /\ end = 0 /\ snEnd = 0 /\ span = <<0, 0>>

-----------------------------------------------------------------------------

\* The parser returns None.
NoName == field' = "none" /\ UNCHANGED <<pos, end, snEnd, span>>

\* It reads k bytes at pos.
Reads(k) == span' = <<pos, pos + k>>

\* What was read rules a name out.
Refused(k) == Reads(k) /\ field' = "none" /\ UNCHANGED <<pos, end, snEnd>>

\* It goes on to the field f at q.
Continue(f, q) == field' = f /\ pos' = q

\* A record of type handshake that is complete.
Record ==
    /\ field = "record"
    /\ \/ len < 5 /\ NoName
       \/ len >= 5 /\ Refused(5)
       \/ /\ len >= 5 /\ Reads(5)
          /\ \E n \in U16 : n + 5 <= len
          /\ Continue("hello", 5)
          /\ UNCHANGED <<end, snEnd>>
    /\ UNCHANGED len

\* A ClientHello that is complete; its version and random are skipped.
Hello ==
    /\ field = "hello"
    /\ \/ pos + 4 > len /\ NoName
       \/ pos + 4 <= len /\ Refused(4)
       \/ /\ pos + 4 <= len /\ Reads(4)
          /\ \E n \in U24 : pos + 4 + n <= len
          /\ Continue("session", pos + 4 + 2 + 32)
          /\ UNCHANGED <<end, snEnd>>
    /\ UNCHANGED len

\* The field f: k bytes of length and as many bytes as these say, skipped.
Skip(f, k, lengths, next) ==
    /\ field = f
    /\ \/ pos + k > len /\ NoName
       \/ /\ pos + k <= len /\ Reads(k)
          /\ \E n \in lengths : Continue(next, pos + k + n)
          /\ UNCHANGED <<end, snEnd>>
    /\ UNCHANGED len

SessionId == Skip("session", 1, U8, "ciphers")

\* Mutant: the length of the list may have one byte only.
MutCipherSuites ==
    /\ field = "ciphers"
    /\ \/ pos + 1 > len /\ NoName
       \/ /\ pos + 1 <= len /\ Reads(2)
          /\ \E n \in U16 : Continue("compression", pos + 2 + n)
          /\ UNCHANGED <<end, snEnd>>
    /\ UNCHANGED len

CipherSuites == Skip("ciphers", 2, U16, "compression")

Compression == Skip("compression", 1, U8, "extensions")

\* The list of extensions ends inside the record.
Extensions ==
    /\ field = "extensions"
    /\ \/ pos + 2 > len /\ NoName
       \/ /\ pos + 2 <= len /\ Reads(2)
          /\ \E n \in U16 :
                /\ end' = pos + 2 + n
                /\ pos' = pos + 2
                /\ field' = IF end' > len THEN "none" ELSE "extension"
          /\ UNCHANGED snEnd
    /\ UNCHANGED len

\* One extension: server_name is looked into, another one is skipped.
Extension ==
    /\ field = "extension"
    /\ \/ pos + 4 > end /\ NoName
       \/ /\ pos + 4 <= end
          /\ \E n \in U16 :
                \/ (pos + 4 + n > end \/ n < 2) /\ Refused(4)
                \/ /\ pos + 4 + n <= end /\ Reads(4)
                   /\ Continue("extension", pos + 4 + n)
                   /\ UNCHANGED <<end, snEnd>>
                \/ /\ pos + 4 + n <= end /\ n >= 2 /\ Reads(4)
                   /\ Continue("name", pos + 4 + 2)
                   /\ snEnd' = pos + 4 + n
                   /\ UNCHANGED end
    /\ UNCHANGED len

\* One name of the server_name list: a host name is the result if it is UTF-8,
\* a name of another type is skipped.
Name ==
    /\ field = "name"
    /\ \/ pos + 3 > snEnd /\ NoName
       \/ /\ pos + 3 <= snEnd
          /\ \E n \in U16 :
                \/ pos + 3 + n > snEnd /\ Refused(3)
                \/ /\ pos + 3 + n <= snEnd
                   /\ field' \in {"found", "none"}
                   /\ span' = <<pos, pos + 3 + n>>
                   /\ UNCHANGED pos
                \/ /\ pos + 3 + n <= snEnd /\ Reads(3)
                   /\ Continue("name", pos + 3 + n)
          /\ UNCHANGED <<end, snEnd>>
    /\ UNCHANGED len

SniNext == \/ Record \/ Hello \/ SessionId \/ CipherSuites
           \/ Compression \/ Extensions \/ Extension \/ Name

SniSpec == (\E n \in Nat : SniInit(n)) /\ [][SniNext]_sniVars

-----------------------------------------------------------------------------

\* Whatever its length fields say, parse_tls_sni indexes only bytes of the
\* record (an index past its end would end the connection's task), and the name
\* it returns lies inside the server_name extension it was found in.
SniInBounds ==
    /\ 0 <= span[1] /\ span[1] <= span[2] /\ span[2] <= len
    /\ field = "found" => span[2] <= snEnd /\ snEnd <= end /\ end <= len
=============================================================================
