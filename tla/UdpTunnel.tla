----------------------------- MODULE UdpTunnel -----------------------------
(***************************************************************************)
(* A udp proxy: one task per datagram of a user on the server, the one     *)
(* work connection they share (udp mux), and the client, which takes the   *)
(* requests one at a time: it sends the datagram to the local service and  *)
(* waits for the next datagram to come back on that socket.                *)
(*                                                                         *)
(* The payload of an answer is the packet the local service answers with   *)
(* it.  Unlike tcp_mux the tunnel has no liveness test: what is in the     *)
(* holder is used until the proxy is closed.                               *)
(***************************************************************************)
EXTENDS Naturals, Sequences, Functions

CONSTANTS
    Packets,      \* datagrams of users
    MaxTunnels,   \* bound on the tunnels made
    Capacity,     \* of the channel of work connection requests, 100
    None

ASSUME NoneAssumption == None \notin Packets
ASSUME TunnelsAssumption == MaxTunnels \in Nat /\ Capacity \in Nat \ {0}

Tunnels == 1..MaxTunnels

VARIABLES
    lock, holder,   \* the mutex and the tunnel in it (0: none)
    proxy,          \* "open", "closing" (UdpProxy::close waits for the mutex), "closed"
    control,        \* the client's Control takes requests, runs close(), or is dropped
    asked,          \* the channel: requests of packets, and of other proxies (None)
    made,           \* tunnels made so far
    link,           \* tunnel -> the work connection works
    writer, reader, \* tunnel -> the server's task runs
    up, down,       \* tunnel -> Req and Resp frames under way
    pending,        \* tunnel -> requests in the pending table
    pkt, tun,       \* packet -> where its task is, and its tunnel
    slot, got,      \* packet -> its oneshot, and the answer sent to the user
    serving,        \* tunnel -> the request the client works on
    todo,           \* tunnel -> datagrams the local service has not answered
    mail,           \* tunnel -> datagrams at the client's local socket
    twice           \* the local service has answered a datagram twice

channel == <<control, asked>>
gate == <<lock, holder, proxy, channel>>
tasks == <<made, link, writer, reader>>
frames == <<up, down>>
handler == <<pkt, tun, got>>
client == <<serving, todo, mail, twice>>
vars == <<gate, tasks, frames, pending, slot, handler, client>>

Init ==
    /\ lock = None /\ holder = 0 /\ proxy = "open" /\ made = 0
    /\ control = "loop" /\ asked = <<>>
    /\ link = [t \in Tunnels |-> FALSE] /\ writer = link /\ reader = link
    /\ up = [t \in Tunnels |-> <<>>] /\ down = up /\ mail = up
    /\ pending = [t \in Tunnels |-> {}] /\ todo = pending
    /\ pkt = [p \in Packets |-> "away"] /\ tun = [p \in Packets |-> 0]
    /\ slot = [p \in Packets |-> None] /\ got = slot
    /\ serving = [t \in Tunnels |-> None]
    /\ twice = FALSE

(* write_udp_mux_frame and read_udp_mux_frame: frames arrive whole and in order.*)
WriteFrame(q, t, f) == [q EXCEPT ![t] = Append(@, f)]

ReadFrame(q, t) == [q EXCEPT ![t] = Tail(@)]

(* UdpProxy::run spawns handle_udp_packet.                                 *)
Arrive(p) ==
    /\ pkt[p] = "away" /\ proxy = "open"
    /\ pkt' = [pkt EXCEPT ![p] = "lock"]
    /\ UNCHANGED <<gate, tasks, frames, pending, slot, tun, got, client>>

(* get_or_create_udp_tunnel: whatever is in the holder is used.            *)
UseTunnel(p) ==
    /\ pkt[p] = "lock" /\ lock = None /\ holder /= 0
    /\ pkt' = [pkt EXCEPT ![p] = "send"] /\ tun' = [tun EXCEPT ![p] = holder]
    /\ UNCHANGED <<gate, tasks, frames, pending, slot, got, client>>

(* Otherwise the task keeps the mutex,                                     *)
StartRequest(p) ==
    /\ pkt[p] = "lock" /\ lock = None /\ holder = 0
    /\ lock' = p /\ pkt' = [pkt EXCEPT ![p] = "ask"]
    /\ UNCHANGED <<holder, proxy, channel, tasks, frames, pending, slot, tun, got, client>>

(* waits, for as long as it takes, until the channel takes its request,    *)
SendRequest(p) ==
    /\ pkt[p] = "ask" /\ control /= "gone" /\ Len(asked) < Capacity
    /\ asked' = Append(asked, p) /\ pkt' = [pkt EXCEPT ![p] = "request"]
    /\ UNCHANGED <<lock, holder, proxy, control, tasks, frames, pending, slot, tun, got, client>>

(* and gets a connection once the Control has passed the request on:       *)
(* UdpTunnel::new.                                                         *)
NewTunnel(p) ==
    /\ pkt[p] = "request" /\ p \notin Range(asked) /\ made < MaxTunnels
    /\ LET t == made + 1 IN
       /\ made' = t /\ holder' = t /\ lock' = None
       /\ link' = [link EXCEPT ![t] = TRUE]
       /\ writer' = [writer EXCEPT ![t] = TRUE] /\ reader' = [reader EXCEPT ![t] = TRUE]
       /\ pkt' = [pkt EXCEPT ![p] = "send"] /\ tun' = [tun EXCEPT ![p] = t]
    /\ UNCHANGED <<proxy, channel, frames, pending, slot, got, client>>

MutRequestFails(p) == FALSE

(* The channel is closed, or there is no connection within ten seconds.    *)
RequestFails(p) ==
    /\ pkt[p] = "request" \/ (pkt[p] = "ask" /\ control = "gone")
    /\ lock' = None /\ pkt' = [pkt EXCEPT ![p] = "done"]
    /\ UNCHANGED <<holder, proxy, channel, tasks, frames, pending, slot, tun, got, client>>

(* Other proxies of the client ask for connections,                        *)
OthersAsk ==
    /\ control /= "gone" /\ Len(asked) < Capacity
    /\ asked' = Append(asked, None)
    /\ UNCHANGED <<lock, holder, proxy, control, tasks, frames, pending, slot, handler, client>>

(* and the loop of the Control takes the requests one by one.              *)
ControlTakes ==
    /\ control = "loop" /\ asked /= <<>>
    /\ asked' = Tail(asked)
    /\ UNCHANGED <<lock, holder, proxy, control, tasks, frames, pending, slot, handler, client>>

(* roundtrip: the entry, the Req frame ...                                 *)
SendReq(p) ==
    /\ pkt[p] = "send" /\ writer[tun[p]]
    /\ pending' = [pending EXCEPT ![tun[p]] = @ \cup {p}]
    /\ up' = WriteFrame(up, tun[p], p)
    /\ pkt' = [pkt EXCEPT ![p] = "wait"]
    /\ UNCHANGED <<gate, tasks, down, slot, tun, got, client>>

SendReqFails(p) ==
    /\ pkt[p] = "send" /\ ~writer[tun[p]]
    /\ pkt' = [pkt EXCEPT ![p] = "done"]
    /\ UNCHANGED <<gate, tasks, frames, pending, slot, tun, got, client>>

(* ... and the wait for the answer, which goes to the user; the sender may *)
(* be dropped instead.                                                     *)
Receive(p) ==
    /\ pkt[p] = "wait" /\ slot[p] /= None
    /\ pkt' = [pkt EXCEPT ![p] = "done"] /\ slot' = [slot EXCEPT ![p] = None]
    /\ got' = IF slot[p] = "closed" THEN got ELSE [got EXCEPT ![p] = slot[p]]
    /\ UNCHANGED <<gate, tasks, frames, pending, tun, client>>

(* After ten seconds the task gives up; its entry stays in the table.      *)
WaitTimeout(p) ==
    /\ pkt[p] = "wait" /\ slot[p] = None
    /\ pkt' = [pkt EXCEPT ![p] = "done"]
    /\ UNCHANGED <<gate, tasks, frames, pending, slot, tun, got, client>>

-----------------------------------------------------------------------------
(* The server's reader task: an answer goes to the entry of its request.   *)
ServerReads(t) ==
    /\ reader[t] /\ down[t] /= <<>>
    /\ down' = ReadFrame(down, t)
    /\ LET p == Head(down[t])[1]  a == Head(down[t])[2] IN
       /\ pending' = [pending EXCEPT ![t] = @ \ {p}]
       /\ slot' = IF p \in pending[t] /\ pkt[p] = "wait" THEN [slot EXCEPT ![p] = a] ELSE slot
    /\ UNCHANGED <<gate, tasks, up, handler, client>>

MutReaderExits(t) ==
    /\ reader[t] /\ ~link[t] /\ down[t] = <<>>
    /\ reader' = [reader EXCEPT ![t] = FALSE]
    /\ UNCHANGED <<gate, made, link, writer, frames, pending, slot, handler, client>>

(* At the end of the connection the table is cleared, with its senders.    *)
ReaderExits(t) ==
    /\ reader[t] /\ ~link[t] /\ down[t] = <<>>
    /\ reader' = [reader EXCEPT ![t] = FALSE]
    /\ pending' = [pending EXCEPT ![t] = {}]
    /\ slot' = [p \in Packets |-> IF p \in pending[t] /\ pkt[p] = "wait" THEN "closed" ELSE slot[p]]
    /\ UNCHANGED <<gate, made, link, writer, frames, handler, client>>

(* The writer task on a dead connection: the kernel may still take a frame,*)
(* or the write fails.                                                     *)
WriterLoses(t) ==
    /\ writer[t] /\ ~link[t] /\ up[t] /= <<>>
    /\ up' = [up EXCEPT ![t] = Tail(@)]
    /\ UNCHANGED <<gate, tasks, down, pending, slot, handler, client>>

WriterExits(t) ==
    /\ writer[t] /\ ~link[t] /\ up[t] /= <<>>
    /\ writer' = [writer EXCEPT ![t] = FALSE] /\ up' = [up EXCEPT ![t] = <<>>]
    /\ UNCHANGED <<gate, made, link, reader, down, pending, slot, handler, client>>

(* The connection breaks with the frames on it, or after they were read.   *)
Break(t) ==
    /\ link[t]
    /\ link' = [link EXCEPT ![t] = FALSE]
    /\ UNCHANGED frames \/ (up' = [up EXCEPT ![t] = <<>>] /\ down' = [down EXCEPT ![t] = <<>>])
    /\ UNCHANGED <<gate, made, writer, reader, pending, slot, handler, client>>

-----------------------------------------------------------------------------
(* The client's handle_work_conn: the next request goes to the service,    *)
ClientReads(t) ==
    /\ link[t] /\ serving[t] = None /\ up[t] /= <<>>
    /\ serving' = [serving EXCEPT ![t] = Head(up[t])]
    /\ todo' = [todo EXCEPT ![t] = @ \cup {Head(up[t])}]
    /\ up' = ReadFrame(up, t)
    /\ UNCHANGED <<gate, tasks, down, pending, slot, handler, mail, twice>>

(* the next datagram that comes back is its answer,                        *)
ClientAnswers(t) ==
    /\ link[t] /\ serving[t] /= None /\ mail[t] /= <<>>
    /\ down' = WriteFrame(down, t, <<serving[t], Head(mail[t])>>)
    /\ serving' = [serving EXCEPT ![t] = None] /\ mail' = [mail EXCEPT ![t] = Tail(@)]
    /\ UNCHANGED <<gate, tasks, up, pending, slot, handler, todo, twice>>

MutClientTimeout(t) ==
    /\ link[t] /\ serving[t] /= None /\ mail[t] = <<>>
    /\ serving' = [serving EXCEPT ![t] = None]
    /\ down' = WriteFrame(down, t, <<serving[t], None>>)
    /\ UNCHANGED <<gate, tasks, up, pending, slot, handler, todo, mail, twice>>

(* and ten seconds without one end the loop and with it the connection.    *)
ClientTimeout(t) ==
    /\ link[t] /\ serving[t] /= None /\ mail[t] = <<>>
    /\ link' = [link EXCEPT ![t] = FALSE] /\ serving' = [serving EXCEPT ![t] = None]
    /\ UNCHANGED <<gate, made, writer, reader, frames, pending, slot, handler, todo, mail, twice>>

(* The local service answers a datagram, perhaps twice, perhaps never.     *)
LocalAnswers(t, p) ==
    /\ link[t] /\ p \in todo[t]
    /\ todo' = [todo EXCEPT ![t] = @ \ {p}]
    /\ \/ mail' = [mail EXCEPT ![t] = Append(@, p)] /\ UNCHANGED twice
       \/ mail' = [mail EXCEPT ![t] = @ \o <<p, p>>] /\ twice' = TRUE
    /\ UNCHANGED <<gate, tasks, frames, pending, slot, handler, serving>>

-----------------------------------------------------------------------------
(* UdpProxy::close is run by the client's own Control, which takes no      *)
(* requests meanwhile, by the one of a client that takes the name over, or *)
(* after the Control was superseded and dropped with its channel.          *)
BeginClose ==
    /\ proxy = "open"
    /\ proxy' = "closing" /\ control' \in {"busy", "loop", "gone"}
    /\ UNCHANGED <<lock, holder, asked, tasks, frames, pending, slot, handler, client>>

TakeTunnel ==
    /\ proxy = "closing" /\ lock = None
    /\ proxy' = "closed" /\ holder' = 0
    /\ control' \in IF control = "busy" THEN {"loop", "gone"} ELSE {control}
    /\ UNCHANGED <<lock, asked, tasks, frames, pending, slot, handler, client>>

Next ==
    \/ BeginClose \/ TakeTunnel \/ OthersAsk \/ ControlTakes
    \/ \E p \in Packets :
         \/ Arrive(p) \/ UseTunnel(p) \/ StartRequest(p) \/ SendRequest(p)
         \/ NewTunnel(p) \/ RequestFails(p)
         \/ SendReq(p) \/ SendReqFails(p) \/ Receive(p) \/ WaitTimeout(p)
         \/ \E t \in Tunnels : LocalAnswers(t, p)
    \/ \E t \in Tunnels :
         \/ ServerReads(t) \/ ReaderExits(t) \/ WriterLoses(t) \/ WriterExits(t) \/ Break(t)
         \/ ClientReads(t) \/ ClientAnswers(t) \/ ClientTimeout(t)

Spec == Init /\ [][Next]_vars

(* Tasks run, timers fire, and mutex and channel serve their waiters in    *)
(* turn.  The local service owes nothing.                                  *)
FairSpec ==
    /\ Spec /\ WF_vars(TakeTunnel) /\ WF_vars(ControlTakes)
    /\ \A p \in Packets :
         /\ WF_vars(UseTunnel(p) \/ StartRequest(p)) /\ WF_vars(RequestFails(p))
         /\ SF_vars(SendRequest(p))
         /\ WF_vars(SendReq(p) \/ SendReqFails(p)) /\ WF_vars(Receive(p) \/ WaitTimeout(p))
    /\ \A t \in Tunnels :
         /\ WF_vars(ServerReads(t)) /\ WF_vars(ReaderExits(t))
         /\ WF_vars(ClientReads(t)) /\ WF_vars(ClientAnswers(t) \/ ClientTimeout(t))

-----------------------------------------------------------------------------
(* A user gets the answer to its own packet as long as the local service   *)
(* answers a datagram at most once, although the client pairs datagrams    *)
(* with requests by order alone and an answer may come after the timeout.  *)
AnswerIsOwn == ~twice => \A p \in Packets : got[p] \in {None, p}

(* An entry of the pending table that the reader task can see does not     *)
(* stay: an answer or the end of the connection removes it, also after its *)
(* own task has given up.  (One that is made after the reader has exited,  *)
(* while the writer still takes frames, does stay.)                        *)
PendingReclaimed ==
    \A p \in Packets, t \in Tunnels : p \in pending[t] /\ reader[t] ~> p \notin pending[t]

(* A packet holds the mutex and waits for room in a channel that only the  *)
(* task can empty which waits for the mutex.                               *)
Deadlocked ==
    control = "busy" /\ Len(asked) = Capacity /\ \E p \in Packets : lock = p /\ pkt[p] = "ask"

(* close() gets the mutex, whoever runs it, although a packet may hold it  *)
(* while it waits for a work connection that only the Control, which runs  *)
(* close(), could ask the client for; the channel of these requests being  *)
(* full is the one thing that keeps it from ending.                        *)
CloseEnds == proxy = "closing" ~> proxy = "closed" \/ Deadlocked
=============================================================================
