----------------------------- MODULE MuxTunnel -----------------------------
(***************************************************************************)
(* tcp_mux: the users of one tcp proxy share one work connection.  Server  *)
(* side: the tunnel holder behind its mutex, the writer and reader task of *)
(* a MuxTunnel, one relay per user; client side: handle_mux_work_conn and  *)
(* one task per stream with a connection to the local service.             *)
(*                                                                         *)
(* A stream is named after its user; the name is used again for another    *)
(* stream id once nothing in the system refers to the old one.  A payload  *)
(* is a chunk; only the number of chunks is kept.                          *)
(***************************************************************************)
EXTENDS Naturals, Sequences, FiniteSets

CONSTANTS
    Users,
    MaxTunnels,   \* bound on the tunnels made; all but the last may break
    MaxChunks,    \* bound on the chunks the local service sends on a stream
    None

ASSUME NoneAssumption == None \notin Users
ASSUME TunnelsAssumption == MaxTunnels \in Nat

Tunnels == 1..MaxTunnels

VARIABLES
    lock, holder,   \* the mutex and the tunnel in it (0: none)
    proxy,          \* "open", "closing" (TcpProxy::close waits for the mutex), "closed"
    made,           \* tunnels made so far
    link,           \* tunnel -> the work connection works
    writer, reader, \* tunnel -> the server's task runs
    client,         \* tunnel -> the client's read loop runs
    up, down,       \* tunnel -> frames under way <<kind, user>>
    srv, cli,       \* tunnel -> the two stream tables
    user, tun,      \* user -> where its relay is, and its tunnel
    inbox, got,     \* user -> chunks in the relay's channel, chunks the user has
    shut,           \* user -> the relay has ended the user's receiving side
    spoke,          \* user -> it has sent its chunk
    broke,          \* users whose connection was reset
    local, sent     \* user -> its connection to the local service, chunks it sent

gate == <<lock, holder, proxy>>
tasks == <<made, link, writer, reader, client>>
frames == <<up, down>>
tables == <<srv, cli>>
relay == <<user, tun, inbox, got, shut, spoke, broke>>
service == <<local, sent>>
vars == <<gate, tasks, frames, tables, relay, service>>

Init ==
    /\ lock = None /\ holder = 0 /\ proxy = "open" /\ made = 0
    /\ link = [t \in Tunnels |-> FALSE] /\ client = link
    /\ writer = link /\ reader = link
    /\ up = [t \in Tunnels |-> <<>>] /\ down = up
    /\ srv = [t \in Tunnels |-> {}] /\ cli = srv
    /\ user = [u \in Users |-> "away"] /\ tun = [u \in Users |-> 0]
    /\ inbox = tun /\ got = tun /\ sent = tun
    /\ shut = [u \in Users |-> FALSE] /\ spoke = shut
    /\ local = [u \in Users |-> "none"] /\ broke = {}

(* Nothing that is still read refers to the stream.                        *)
Forgotten(u) ==
    /\ local[u] \in {"none", "closed", "reset", "failed"}
    /\ \A t \in Tunnels : /\ u \notin cli[t] /\ (reader[t] => u \notin srv[t])
                          /\ \A i \in DOMAIN up[t] : up[t][i][2] /= u
                          /\ \A i \in DOMAIN down[t] : down[t][i][2] /= u

(* write_mux_frame and read_mux_frame: frames arrive whole and in order.   *)
WriteFrame(q, t, f) == [q EXCEPT ![t] = Append(@, f)]

ReadFrame(q, t) == [q EXCEPT ![t] = Tail(@)]

(* TcpProxy::run accepts a user until it is shut down.                     *)
Arrive(u) ==
    /\ user[u] = "away" /\ proxy = "open" /\ Forgotten(u)
    /\ user' = [user EXCEPT ![u] = "lock"] /\ tun' = [tun EXCEPT ![u] = 0]
    /\ local' = [local EXCEPT ![u] = "none"] /\ sent' = [sent EXCEPT ![u] = 0]
    /\ broke' = broke \ {u}
    /\ UNCHANGED <<gate, tasks, frames, tables, inbox, got, shut, spoke>>

(* MuxTunnel::is_alive: the channel to the writer task is open.            *)
IsAlive(t) == t /= 0 /\ writer[t]

(* get_or_create_mux_tunnel: under the mutex, use the tunnel that is there *)
UseTunnel(u) ==
    /\ user[u] = "lock" /\ lock = None /\ IsAlive(holder)
    /\ user' = [user EXCEPT ![u] = "open"] /\ tun' = [tun EXCEPT ![u] = holder]
    /\ UNCHANGED <<gate, tasks, frames, tables, inbox, got, shut, spoke, broke, service>>

MutStartRequest(u) ==
    /\ user[u] = "lock" /\ lock = None /\ ~IsAlive(holder)
    /\ holder' = 0 /\ user' = [user EXCEPT ![u] = "request"]
    /\ UNCHANGED <<lock, proxy, tasks, frames, tables, tun, inbox, got, shut, spoke, broke, service>>

(* or drop it and request a work connection, the mutex held.               *)
StartRequest(u) ==
    /\ user[u] = "lock" /\ lock = None /\ ~IsAlive(holder)
    /\ lock' = u /\ holder' = 0
    /\ user' = [user EXCEPT ![u] = "request"]
    /\ UNCHANGED <<proxy, tasks, frames, tables, tun, inbox, got, shut, spoke, broke, service>>

(* MuxTunnel::new on the connection that came, and handle_mux_work_conn on *)
(* its other end.                                                          *)
NewTunnel(u) ==
    /\ user[u] = "request" /\ made < MaxTunnels
    /\ LET t == made + 1 IN
       /\ made' = t /\ holder' = t /\ lock' = None
       /\ link' = [link EXCEPT ![t] = TRUE] /\ client' = [client EXCEPT ![t] = TRUE]
       /\ writer' = [writer EXCEPT ![t] = TRUE] /\ reader' = [reader EXCEPT ![t] = TRUE]
       /\ user' = [user EXCEPT ![u] = "open"] /\ tun' = [tun EXCEPT ![u] = t]
    /\ UNCHANGED <<proxy, frames, tables, inbox, got, shut, spoke, broke, service>>

(* The ten seconds of request_work_transport.                              *)
RequestFails(u) ==
    /\ user[u] = "request"
    /\ lock' = None /\ user' = [user EXCEPT ![u] = "away"]
    /\ UNCHANGED <<holder, proxy, tasks, frames, tables, tun, inbox, got, shut, spoke, broke, service>>

(* A frame for the writer task: an error once the task has ended.          *)
SendFrame(t, f) == writer[t] /\ up' = WriteFrame(up, t, f)

(* open_stream: the table entry, and the Open frame.                       *)
OpenStream(u) ==
    /\ user[u] = "open" /\ SendFrame(tun[u], <<"Open", u>>)
    /\ srv' = [srv EXCEPT ![tun[u]] = @ \cup {u}]
    /\ user' = [user EXCEPT ![u] = "relay"]
    /\ UNCHANGED <<gate, tasks, down, cli, tun, inbox, got, shut, spoke, broke, service>>

(* The user's connection and the relay's channel are gone.                 *)
Leave(u) ==
    /\ user' = [user EXCEPT ![u] = "away"]
    /\ inbox' = [inbox EXCEPT ![u] = 0] /\ got' = [got EXCEPT ![u] = 0]
    /\ shut' = [shut EXCEPT ![u] = FALSE] /\ spoke' = [spoke EXCEPT ![u] = FALSE]

(* relay_mux_stream, reading: a chunk becomes a Data frame ...             *)
UserSends(u) ==
    /\ user[u] = "relay" /\ ~spoke[u] /\ SendFrame(tun[u], <<"Data", u>>)
    /\ spoke' = [spoke EXCEPT ![u] = TRUE]
    /\ UNCHANGED <<gate, tasks, down, tables, user, tun, inbox, got, shut, broke, service>>

(* ... an error of the frame channel ends the relay and leaves the entry to*)
(* the tunnel, which is dropped when its last user has gone ...            *)
SendFails(u) ==
    /\ user[u] = "open" \/ (user[u] = "relay" /\ ~spoke[u])
    /\ ~writer[tun[u]]
    /\ Leave(u)
    /\ UNCHANGED <<gate, tasks, frames, tables, tun, broke, service>>

MutUserCloses(u) ==
    /\ user[u] = "relay" /\ Leave(u)
    /\ srv' = [srv EXCEPT ![tun[u]] = @ \ {u}]
    /\ UNCHANGED <<gate, tasks, frames, cli, tun, broke, service>>

(* ... and the user's EOF closes the stream and aborts the writing half.   *)
UserCloses(u) ==
    /\ user[u] = "relay" /\ Leave(u)
    /\ srv' = [srv EXCEPT ![tun[u]] = @ \ {u}]
    /\ \/ SendFrame(tun[u], <<"Close", u>>)
       \/ ~writer[tun[u]] /\ UNCHANGED up
    /\ UNCHANGED <<gate, tasks, down, cli, tun, broke, service>>

(* A user's connection that breaks ends the relay without either: its      *)
(* writing half goes on until a write fails.                               *)
UserResets(u) ==
    /\ user[u] = "relay"
    /\ user' = [user EXCEPT ![u] = "reset"] /\ broke' = broke \cup {u}
    /\ UNCHANGED <<gate, tasks, frames, tables, tun, inbox, got, shut, spoke, service>>

(* relay_mux_stream, writing half: it ends when the table entry is gone    *)
(* and its channel is drained.                                             *)
UserReads(u) ==
    /\ user[u] = "relay" /\ inbox[u] > 0
    /\ inbox' = [inbox EXCEPT ![u] = @ - 1] /\ got' = [got EXCEPT ![u] = @ + 1]
    /\ UNCHANGED <<gate, tasks, frames, tables, user, tun, shut, spoke, broke, service>>

ShutUser(u) ==
    /\ user[u] = "relay" /\ ~shut[u] /\ inbox[u] = 0 /\ u \notin srv[tun[u]]
    /\ shut' = [shut EXCEPT ![u] = TRUE]
    /\ UNCHANGED <<gate, tasks, frames, tables, user, tun, inbox, got, spoke, broke, service>>

WriteFails(u) ==
    /\ user[u] = "reset" /\ (inbox[u] > 0 \/ u \notin srv[tun[u]])
    /\ Leave(u)
    /\ UNCHANGED <<gate, tasks, frames, tables, tun, broke, service>>

-----------------------------------------------------------------------------
MutServerReads(t) ==
    /\ reader[t] /\ down[t] /= <<>>
    /\ down' = ReadFrame(down, t)
    /\ LET f == Head(down[t])  u == f[2] IN
       \/ /\ f[1] = "Close"
          /\ srv' = [srv EXCEPT ![t] = @ \ {u}] /\ inbox' = [inbox EXCEPT ![u] = 0]
          /\ UNCHANGED up
       \/ /\ f[1] = "Data" /\ u \in srv[t]
          /\ inbox' = [inbox EXCEPT ![u] = @ + 1]
          /\ UNCHANGED <<srv, up>>
       \/ /\ f[1] = "Data" /\ u \notin srv[t]
          /\ UNCHANGED <<srv, inbox, up>>
    /\ UNCHANGED <<gate, tasks, cli, user, tun, got, shut, spoke, broke, service>>

(* The server's reader task.  Data for a stream it does not know is        *)
(* answered with Close.                                                    *)
ServerReads(t) ==
    /\ reader[t] /\ down[t] /= <<>>
    /\ down' = ReadFrame(down, t)
    /\ LET f == Head(down[t])  u == f[2] IN
       \/ /\ f[1] = "Close"
          /\ srv' = [srv EXCEPT ![t] = @ \ {u}]
          /\ UNCHANGED <<inbox, up>>
       \/ /\ f[1] = "Data" /\ u \in srv[t]
          /\ IF user[u] \in {"relay", "reset"} /\ tun[u] = t
             THEN inbox' = [inbox EXCEPT ![u] = @ + 1] /\ UNCHANGED srv
             ELSE srv' = [srv EXCEPT ![t] = @ \ {u}] /\ UNCHANGED inbox
          /\ UNCHANGED up
       \/ /\ f[1] = "Data" /\ u \notin srv[t]
          /\ SendFrame(t, <<"Close", u>>) \/ (~writer[t] /\ UNCHANGED up)
          /\ UNCHANGED <<srv, inbox>>
    /\ UNCHANGED <<gate, tasks, cli, user, tun, got, shut, spoke, broke, service>>

(* At the end of the connection the reader clears the table.               *)
ReaderExits(t) ==
    /\ reader[t] /\ ~link[t] /\ down[t] = <<>>
    /\ reader' = [reader EXCEPT ![t] = FALSE] /\ srv' = [srv EXCEPT ![t] = {}]
    /\ UNCHANGED <<gate, made, link, writer, client, frames, cli, relay, service>>

(* The writer task notices only by writing; the kernel may take a frame    *)
(* for a dead connection before a write fails.                             *)
WriterLoses(t) ==
    /\ writer[t] /\ ~link[t] /\ up[t] /= <<>>
    /\ up' = [up EXCEPT ![t] = Tail(@)]
    /\ UNCHANGED <<gate, tasks, down, tables, relay, service>>

WriterExits(t) ==
    /\ writer[t] /\ ~link[t] /\ up[t] /= <<>>
    /\ writer' = [writer EXCEPT ![t] = FALSE] /\ up' = [up EXCEPT ![t] = <<>>]
    /\ UNCHANGED <<gate, made, link, reader, client, down, tables, relay, service>>

(* The work connection of a tunnel breaks, with the frames on it or after  *)
(* they were read; those the writer task has not written stay with it.     *)
Break(t) ==
    /\ link[t] /\ t < MaxTunnels
    /\ link' = [link EXCEPT ![t] = FALSE]
    /\ UNCHANGED frames \/ (up' = [up EXCEPT ![t] = <<>>] /\ down' = [down EXCEPT ![t] = <<>>])
    /\ UNCHANGED <<gate, made, writer, reader, client, tables, relay, service>>

-----------------------------------------------------------------------------
(* handle_mux_work_conn on the client.  When the local service cannot be   *)
(* reached the stream's task ends; its entry stays and nobody is told.     *)
SendBack(t, f) == down' = IF link[t] THEN WriteFrame(down, t, f) ELSE down

ClientReads(t) ==
    /\ client[t] /\ link[t] /\ up[t] /= <<>>
    /\ up' = ReadFrame(up, t)
    /\ LET f == Head(up[t])  u == f[2] IN
       \/ /\ f[1] = "Open"
          /\ cli' = [cli EXCEPT ![t] = @ \cup {u}]
          /\ local' \in {[local EXCEPT ![u] = r] : r \in {"open", "failed"}}
          /\ UNCHANGED down
       \/ /\ f[1] = "Data" /\ u \in cli[t]
          /\ cli' = IF local[u] = "failed" THEN [cli EXCEPT ![t] = @ \ {u}] ELSE cli
          /\ local' = IF local[u] = "reset" THEN [local EXCEPT ![u] = "failed"] ELSE local
          /\ UNCHANGED down
       \/ /\ f[1] = "Data" /\ u \notin cli[t]
          /\ SendBack(t, <<"Close", u>>)
          /\ UNCHANGED <<cli, local>>
       \/ /\ f[1] = "Close"
          /\ cli' = [cli EXCEPT ![t] = @ \ {u}]
          /\ UNCHANGED <<down, local>>
    /\ UNCHANGED <<gate, tasks, srv, relay, sent>>

ClientExits(t) ==
    /\ client[t] /\ ~link[t]
    /\ client' = [client EXCEPT ![t] = FALSE] /\ cli' = [cli EXCEPT ![t] = {}]
    /\ UNCHANGED <<gate, made, link, writer, reader, frames, srv, relay, service>>

(* handle_local_stream.                                                    *)
LocalSends(u) ==
    /\ local[u] = "open" /\ sent[u] < MaxChunks
    /\ sent' = [sent EXCEPT ![u] = @ + 1] /\ SendBack(tun[u], <<"Data", u>>)
    /\ UNCHANGED <<gate, tasks, up, tables, relay, local>>

MutLocalCloses(u) ==
    /\ local[u] = "open"
    /\ local' = [local EXCEPT ![u] = "closed"]
    /\ cli' = [cli EXCEPT ![tun[u]] = @ \ {u}]
    /\ UNCHANGED <<gate, tasks, frames, srv, relay, sent>>

(* The local service closes: on its own, or because its input has ended.   *)
LocalCloses(u) ==
    /\ local[u] = "open"
    /\ local' = [local EXCEPT ![u] = "closed"]
    /\ cli' = [cli EXCEPT ![tun[u]] = @ \ {u}] /\ SendBack(tun[u], <<"Close", u>>)
    /\ UNCHANGED <<gate, tasks, up, srv, relay, sent>>

(* A connection to it that breaks ends the task without a word to anyone.  *)
LocalResets(u) ==
    /\ local[u] = "open"
    /\ local' = [local EXCEPT ![u] = "reset"]
    /\ UNCHANGED <<gate, tasks, frames, tables, relay, sent>>

-----------------------------------------------------------------------------
(* TcpProxy::close, run by the control task: no more users, then the mutex.*)
BeginClose ==
    /\ proxy = "open"
    /\ proxy' = "closing"
    /\ UNCHANGED <<lock, holder, tasks, frames, tables, relay, service>>

TakeTunnel ==
    /\ proxy = "closing" /\ lock = None
    /\ proxy' = "closed" /\ holder' = 0
    /\ UNCHANGED <<lock, tasks, frames, tables, relay, service>>

Next ==
    \/ BeginClose \/ TakeTunnel
    \/ \E t \in Tunnels :
         \/ ServerReads(t) \/ ReaderExits(t) \/ WriterLoses(t) \/ WriterExits(t)
         \/ Break(t) \/ ClientReads(t) \/ ClientExits(t)
    \/ \E u \in Users :
         \/ Arrive(u) \/ UseTunnel(u) \/ StartRequest(u) \/ NewTunnel(u) \/ RequestFails(u)
         \/ OpenStream(u) \/ UserSends(u) \/ SendFails(u) \/ UserCloses(u)
         \/ UserReads(u) \/ ShutUser(u)
         \/ UserResets(u) \/ WriteFails(u) \/ LocalResets(u)
         \/ LocalSends(u) \/ LocalCloses(u)

Spec == Init /\ [][Next]_vars

-----------------------------------------------------------------------------
(* The users of a proxy share one work connection: a second tunnel is made *)
(* only after the connection of the first has broken or the proxy closed,  *)
(* however many users ask at the same time.                                *)
OneTunnel == proxy /= "closed" => Cardinality({t \in Tunnels : link[t]}) <= 1

(* A user whose receiving side is ended has received everything its local  *)
(* service sent before closing, as long as the work connection works.      *)
DownloadComplete ==
    \A u \in Users : user[u] = "relay" /\ shut[u] /\ link[tun[u]] => got[u] = sent[u]

(* A stream table entry of the client whose user has closed is one a Close *)
(* frame is on its way to: no stream stays behind at the client while the  *)
(* work connection works, whichever side closes first and whatever is      *)
(* still under way on a stream that is gone.  (Nothing is sent for a user  *)
(* whose connection is reset: its stream stays.)                           *)
StreamsCovered ==
    \A t \in Tunnels : \A u \in cli[t] \ broke :
        link[t] /\ ~(user[u] = "relay" /\ tun[u] = t)
            => \E i \in DOMAIN up[t] : up[t][i] = <<"Close", u>>

(* A user whose local service has closed is told: its entry is gone or a   *)
(* Close frame is under way to it, behind all the data of the stream.      *)
UserIsTold ==
    \A u \in Users :
        LET back == down[tun[u]] IN
        user[u] = "relay" /\ link[tun[u]] /\ local[u] = "closed" /\ u \in srv[tun[u]]
            => \E i \in DOMAIN back : /\ back[i] = <<"Close", u>>
                                     /\ \A j \in DOMAIN back : back[j] = <<"Data", u>> => j < i
=============================================================================
