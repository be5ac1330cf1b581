------------------------------ MODULE Handover ------------------------------
(***************************************************************************)
(* How the bytes of one user connection reach the local service, through   *)
(* every place where a connection is first read as messages, a request     *)
(* head or a TLS record and then handed over to a raw copy: what a read    *)
(* returned beyond the part that was wanted must not be lost.              *)
(*                                                                         *)
(* user -> (stcp visitor ->) server -> client -> local service.  A stream  *)
(* carries items: the user's bytes in order, the two parts of an encoded   *)
(* message, frame headers, the end of the stream.  A read returns any      *)
(* non-empty beginning of what has arrived.                                *)
(***************************************************************************)
EXTENDS Sni, Sequences, Functions

CONSTANTS
    N,          \* the user sends N bytes and shuts its stream down
    Chunk,      \* the size of a read buffer
    HeaderMax,  \* HTTP_HEADER_MAX
    Lens,       \* the lengths a TLS record may have
    Scenes      \* the connections considered

Kinds == {"tcp", "mux", "http", "https", "visitor"}

\* A connection of some kind; its first head bytes are the request head or the
\* TLS record; text: the n for which its first n bytes are whole characters of
\* UTF-8; faults: may it break?
ASSUME SceneAssumption ==
    /\ N \in Nat /\ Chunk \in Nat \ {0} /\ HeaderMax \in Nat /\ Lens \subseteq Nat
    /\ Scenes \subseteq [kind : Kinds, head : 1..N, text : SUBSET (1..N), faults : BOOLEAN]

VARIABLES
    scene,
    sent,       \* how many bytes the user wrote
    shut,       \* did it shut its stream down?
    up,         \* in flight to the server
    server,     \* what the server does with the connection
    data,       \* what it read before the raw copy
    down,       \* in flight on the work connection
    client,     \* what the client does with the work connection
    buf,        \* the read buffer of its transport, then the prefix of its stream
    need,       \* how much of the current frame is missing, and
    part,       \* what of it has been read
    got,        \* what the local service received
    skipped     \* how many bytes the server dropped with its read buffer

userVars == <<sent, shut, up>>
serverVars == <<server, data, skipped>>
clientVars == <<client, buf, need, part, got>>
vars == <<scene, userVars, serverVars, down, clientVars, sniVars>>

Byte(i) == <<"byte", i>>
Eof == <<"eof", 0>>
Frame(n) == <<"frame", n>>
CloseFrame == <<"close", 0>>

\* MessageCodec::encode: type and length, then the body.
Message == <<<<"length", 0>>, <<"json", 0>>>>

Init ==
    /\ scene \in Scenes
    /\ sent = 0 /\ shut = FALSE /\ up = <<>> /\ down = <<>>
    /\ server = CASE scene.kind = "http" -> "head"
                  [] scene.kind = "https" -> "tls"
                  [] scene.kind = "visitor" -> "visit"
                  [] OTHER -> "ask"
    /\ data = <<>> /\ skipped = 0
    /\ client = "wait" /\ buf = <<>> /\ need = 0 /\ part = <<>> /\ got = <<>>
    /\ \E n \in IF scene.kind = "https" THEN Lens ELSE {0} : SniInit(n)

-----------------------------------------------------------------------------

\* What a read of stream w with room for m bytes may return: how many items.
Readable(w, m) == {k \in 1..m : k <= Len(w) /\ Eof \notin Range(SubSeq(w, 1, k))}

First(w, k) == SubSeq(w, 1, k)
Rest(w, k) == SubSeq(w, k + 1, Len(w))

\* A read returns 0.
AtEof(w) == w # <<>> /\ w[1] = Eof

\* MessageCodec::decode finds a whole message at the start of the buffer b.
Decodes(b) == Len(b) >= Len(Message)

-----------------------------------------------------------------------------
(***************************************************************************)
(* The user, and the stcp visitor in front of the server                   *)
(***************************************************************************)

\* The visitor sends its handshake, then copies without waiting for an answer.
VisitorHandshake ==
    /\ scene.kind = "visitor" /\ sent = 0 /\ up = <<>> /\ server = "visit" /\ data = <<>>
    /\ up' = Message
    /\ UNCHANGED <<scene, sent, shut, serverVars, down, clientVars, sniVars>>

UserWrites ==
    /\ sent < N /\ ~shut
    /\ scene.kind = "visitor" => up # <<>> \/ data # <<>> \/ server # "visit"
    /\ sent' = sent + 1
    /\ up' = Append(up, Byte(sent + 1))
    /\ UNCHANGED <<scene, shut, serverVars, down, clientVars, sniVars>>

\* With faults the user may give up early.
UserShutsDown ==
    /\ ~shut /\ sent > 0
    /\ sent = N \/ scene.faults
    /\ shut' = TRUE
    /\ up' = Append(up, Eof)
    /\ UNCHANGED <<scene, sent, serverVars, down, clientVars, sniVars>>

-----------------------------------------------------------------------------
(***************************************************************************)
(* The server reads as much as it needs to know where the connection goes  *)
(***************************************************************************)

\* extract_http_host takes all n bytes that were read for text, those of the body
\* included, which may be cut inside a character.
ExtractHttpHost(n) == n \in scene.text

\* read_http_request_head reads until it has the whole head; it may read more.
ReadHead ==
    /\ server = "head"
    /\ \E k \in Readable(up, Chunk) :
          /\ data' = data \o First(up, k)
          /\ up' = Rest(up, k)
    /\ server' = IF Len(data') >= scene.head
                 THEN IF ExtractHttpHost(Len(data')) THEN "ask" ELSE "closed"
                 ELSE IF Len(data') >= HeaderMax THEN "closed" ELSE "head"
    /\ UNCHANGED <<scene, sent, shut, skipped, down, clientVars, sniVars>>

\* read_tls_client_hello reads exactly one record: the header, here its first
\* byte, then the payload.  It may refuse the header.
ReadRecord ==
    /\ server = "tls"
    /\ \E k \in Readable(up, IF data = <<>> THEN 1 ELSE scene.head - Len(data)) :
          /\ data' = data \o First(up, k)
          /\ up' = Rest(up, k)
    /\ server' \in IF data = <<>> /\ scene.faults THEN {"tls", "closed"}
                   ELSE IF Len(data') = scene.head THEN {"sni"} ELSE {"tls"}
    /\ UNCHANGED <<scene, sent, shut, skipped, down, clientVars, sniVars>>

\* parse_tls_sni
ParseSni ==
    /\ server = "sni"
    /\ \/ SniNext /\ UNCHANGED server
       \/ field = "found" /\ server' = "ask" /\ UNCHANGED sniVars
       \/ field = "none" /\ server' = "closed" /\ UNCHANGED sniVars
    /\ UNCHANGED <<scene, userVars, data, skipped, down, clientVars>>

\* recv of StcpVisitorConn: the buffer may hold bytes that follow the message.
\* The provider, the signature or the timestamp may be refused.
RecvVisitor ==
    /\ server = "visit"
    /\ \E k \in Readable(up, Chunk) :
          /\ data' = data \o First(up, k)
          /\ up' = Rest(up, k)
    /\ server' \in IF ~Decodes(data') THEN {"visit"}
                   ELSE IF scene.faults THEN {"ask", "closed"} ELSE {"ask"}
    /\ UNCHANGED <<scene, sent, shut, skipped, down, clientVars, sniVars>>

\* The connection ends before the server knows where it goes.
EofEarly ==
    /\ server \in {"head", "tls", "visit"} /\ AtEof(up)
    /\ server' = "closed"
    /\ UNCHANGED <<scene, userVars, data, skipped, down, clientVars, sniVars>>

-----------------------------------------------------------------------------
(***************************************************************************)
(* The server has a work connection                                        *)
(***************************************************************************)

\* What was read of the connection, the head or the record, is written first;
\* a mux tunnel opens a stream.
Forwarded == CASE scene.kind = "mux" -> <<Frame(0)>>
               [] scene.kind = "visitor" -> <<>>
               [] OTHER -> data

\* The visitor's transport is turned into its stream without its read buffer.
Discarded == IF scene.kind = "visitor" THEN Len(data) - Len(Message) ELSE 0

\* StartWorkConn is sent on the work connection.
StartWorkConn ==
    /\ server = "ask"
    /\ server' = "relay"
    /\ down' = Message \o Forwarded
    /\ skipped' = Discarded
    /\ data' = <<>>
    /\ UNCHANGED <<scene, userVars, clientVars, sniVars>>

\* copy_bidirectional, or relay_mux_stream.
ServerCopies ==
    /\ server = "relay"
    /\ \E k \in Readable(up, Chunk) :
          /\ up' = Rest(up, k)
          /\ down' = down \o (IF scene.kind = "mux" THEN <<Frame(k)>> ELSE <<>>) \o First(up, k)
    /\ UNCHANGED <<scene, sent, shut, serverVars, clientVars, sniVars>>

\* Mutant: the end of the user's stream is not passed on.
MutServerShutsDown ==
    /\ server = "relay" /\ AtEof(up)
    /\ up' = <<>>
    /\ server' = "closed"
    /\ UNCHANGED <<scene, sent, shut, data, skipped, down, clientVars, sniVars>>

\* The user's stream ends: shutdown of the work connection, or a Close frame.
ServerShutsDown ==
    /\ server = "relay" /\ AtEof(up)
    /\ up' = <<>>
    /\ down' = Append(down, IF scene.kind = "mux" THEN CloseFrame ELSE Eof)
    /\ server' = "closed"
    /\ UNCHANGED <<scene, sent, shut, data, skipped, clientVars, sniVars>>

-----------------------------------------------------------------------------
(***************************************************************************)
(* The client                                                              *)
(***************************************************************************)

\* create_work_conn_static receives StartWorkConn.
RecvStart ==
    /\ client = "wait"
    /\ \E k \in Readable(down, Chunk) :
          LET b == buf \o First(down, k)
          IN /\ down' = Rest(down, k)
             /\ buf' = IF Decodes(b) THEN Rest(b, Len(Message)) ELSE b
             /\ client' = IF Decodes(b) THEN "connect" ELSE "wait"
    /\ UNCHANGED <<scene, userVars, serverVars, need, part, got, sniVars>>

\* Mutant: handle_work_conn takes the stream without the read buffer.
MutConnectLocal ==
    /\ client = "connect"
    /\ client' = IF scene.kind = "mux" THEN "frames" ELSE "relay"
    /\ buf' = <<>>
    /\ UNCHANGED <<scene, userVars, serverVars, down, need, part, got, sniVars>>

\* handle_work_conn connects to the local service and writes the read buffer
\* to it first; handle_mux_work_conn puts it before the stream.
ConnectLocal ==
    /\ client = "connect"
    /\ IF scene.kind = "mux"
       THEN client' = "frames" /\ UNCHANGED <<buf, got>>
       ELSE client' = "relay" /\ got' = got \o buf /\ buf' = <<>>
    /\ UNCHANGED <<scene, userVars, serverVars, down, need, part, sniVars>>

\* copy_bidirectional
ClientCopies ==
    /\ client = "relay"
    /\ \E k \in Readable(down, Chunk) :
          got' = got \o First(down, k) /\ down' = Rest(down, k)
    /\ UNCHANGED <<scene, userVars, serverVars, client, buf, need, part, sniVars>>

\* PrefixedStream::poll_read: the prefix comes first, then the stream.
Prefixed == IF buf # <<>> THEN buf ELSE down

TakePrefixed(k) ==
    IF buf # <<>> THEN buf' = Rest(buf, k) /\ UNCHANGED down
                  ELSE down' = Rest(down, k) /\ UNCHANGED buf

\* read_mux_frame: a header says how long the payload is ...
ReadFrameHeader ==
    /\ client = "frames" /\ need = 0
    /\ Prefixed # <<>> /\ TakePrefixed(1)
    /\ LET header == Prefixed[1]
       IN /\ need' = header[2]
          /\ client' = IF header = CloseFrame THEN "ended" ELSE "frames"
    /\ UNCHANGED <<scene, userVars, serverVars, part, got, sniVars>>

\* ... which is read to its end and written to the local service.
ReadFramePayload ==
    /\ client = "frames" /\ need > 0
    /\ \E k \in Readable(Prefixed, need) :
          LET p == part \o First(Prefixed, k)
          IN /\ TakePrefixed(k)
             /\ need' = need - k
             /\ part' = IF need = k THEN <<>> ELSE p
             /\ got' = IF need = k THEN got \o p ELSE got
    /\ UNCHANGED <<scene, userVars, serverVars, client, sniVars>>

\* The work connection ends: the local service sees the end of its stream.
ClientShutsDown ==
    /\ client = "relay" /\ AtEof(down)
    /\ down' = <<>>
    /\ client' = "ended"
    /\ UNCHANGED <<scene, userVars, serverVars, buf, need, part, got, sniVars>>

-----------------------------------------------------------------------------

\* A timeout, a reset, no work connection, no local service: both sides close.
Break ==
    /\ scene.faults /\ {server, client} # {"closed"}
    /\ server' = "closed" /\ client' = "closed" /\ down' = <<>>
    /\ UNCHANGED <<scene, userVars, data, skipped, buf, need, part, got, sniVars>>

UserStep == VisitorHandshake \/ UserWrites \/ UserShutsDown
ServerStep == \/ ReadHead \/ ReadRecord \/ ParseSni \/ RecvVisitor \/ EofEarly
              \/ StartWorkConn \/ ServerCopies \/ ServerShutsDown
ClientStep == \/ RecvStart \/ ConnectLocal \/ ClientCopies \/ ClientShutsDown
              \/ ReadFrameHeader \/ ReadFramePayload

Next == UserStep \/ ServerStep \/ ClientStep \/ Break

Spec == Init /\ [][Next]_vars

\* The runtime polls the tasks of both processes.
FairSpec == Spec /\ WF_vars(ServerStep) /\ WF_vars(ClientStep)

-----------------------------------------------------------------------------

\* The local service receives the user's bytes in order with none missing and
\* none twice, however the network cut them up, and sees the end of the stream
\* only after the last one.  Through a stcp visitor the bytes that arrived
\* together with its handshake are missing, and only those: the server drops
\* them with the read buffer of the visitor's transport.
BytesInOrder ==
    /\ got = [i \in 1..Len(got) |-> Byte(skipped + i)]
    /\ client = "ended" => shut /\ Len(got) = sent - skipped
    /\ scene.kind # "visitor" => skipped = 0

\* What read_http_request_head read ends inside a character, or is not text.
HeadRefused ==
    scene.kind = "http" /\ server = "closed" /\ Len(data) >= scene.head /\ Len(data) \notin scene.text

\* Once the user sent everything and shut down, the local service has received
\* it, but for what BytesInOrder counts as skipped, and sees the end of the
\* stream, unless the connection broke, the hello has no server name, the head
\* is too long, or the bytes that were read with the head are refused since
\* they are not, or not to their end, UTF-8.
Delivered ==
    /\ shut /\ ~scene.faults
    /\ scene.kind = "http" => scene.head < HeaderMax
    ~> client = "ended" \/ field = "none" \/ HeadRefused
=============================================================================
