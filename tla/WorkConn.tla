------------------------------ MODULE WorkConn ------------------------------
(***************************************************************************)
(* Work-connection dispatch of one server-side Control.                    *)
(*                                                                         *)
(* A proxy that has a user connection to serve sends a WorkConnRequest     *)
(* (proxy name and oneshot reply sender) to the Control's channel and      *)
(* waits at most 10 s for a work connection.  The control task answers     *)
(* from its idle connections or queues the request and asks the client for *)
(* a connection with ReqWorkConn.  Each work connection the client opens   *)
(* is brought to the Control by a task of its own.                         *)
(*                                                                         *)
(* Concurrent parties: the control task (select loop), one task per work   *)
(* connection (HandleWorkConn), one task per request, the client, and the  *)
(* tasks that supersede or remove the Control.                             *)
(*                                                                         *)
(* A request or connection identifier stands for one oneshot channel or    *)
(* one socket; it is reused once nothing refers to the old one any more.   *)
(***************************************************************************)
EXTENDS Naturals, Sequences, FiniteSets, Functions

CONSTANTS
    Requests,       \* concurrent WorkConnRequests
    Conns,          \* concurrent work connections
    Proxies,        \* proxy names
    ProxyOf,        \* the proxy a request is made for
    Unavailable,    \* proxies the client does not open connections for
    Faults,         \* which faults the environment may produce
    ChanCap,        \* capacity of the work_conn_req channel
    NetCap,         \* ReqWorkConn messages the control connection buffers
    MaxSpawned,     \* bound: connection attempts in progress at the client
    PoolCount,      \* transport.pool_count of the client
    None            \* no request in the control task's hands

FaultKinds == {"linkdown", "supersede", "connfail", "startfail"}

ASSUME ReplyAssumption == Conns \cap {"empty", "closed"} = {}
ASSUME ConnsAssumption == IsFiniteSet(Conns)
ASSUME NoneAssumption == None \notin Requests
ASSUME ProxyAssumption == /\ ProxyOf \in [Requests -> Proxies]
                          /\ Unavailable \subseteq Proxies
ASSUME FaultAssumption == Faults \subseteq FaultKinds
ASSUME BoundAssumption == /\ ChanCap \in Nat \ {0}
                          /\ NetCap \in Nat \ {0}
                          /\ MaxSpawned \in Nat
                          /\ PoolCount \in Nat

VARIABLES
    link,       \* the control connection: "up" or "down"
    entry,      \* the ControlManager entry: "listed", "superseded", "removed"
    phase,      \* "running" (run loop), "ended" (run returned), "dropped"
    ctlPc,      \* the control task: "select", or inside handle_work_conn_request
    hand,       \* the request handle_work_conn_request is working on
    chan,       \* work_conn_req channel
    pending,    \* pending_work_conns
    idle,       \* idle_work_conns
    req,        \* the requesting task
    reply,      \* the oneshot of the request, or the connection it holds
    conn,       \* where a work connection is
    pooled,     \* connections opened by the client's pool tasks
    toClient,   \* ReqWorkConn messages under way (proxy names)
    spawned,    \* connection attempts the client has started
    answered    \* has a connection come, or is one coming, for every ReqWorkConn
                \* the client has read ("all"), or only for some of them ("some")

ctlVars == <<phase, ctlPc, hand>>
queueVars == <<chan, pending, idle>>
clientVars == <<toClient, spawned, answered>>
vars == <<link, entry, ctlVars, queueVars, req, reply, conn, pooled, clientVars>>

\* The queues, oneshots and connections of a Control keep their shape: queues
\* hold requests or connections, and a slot holds one connection at most.
TypeOK ==
    /\ link \in {"up", "down"}
    /\ entry \in {"listed", "superseded", "removed"}
    /\ phase \in {"running", "ended", "dropped"}
    /\ ctlPc \in {"select", "push", "send"}
    /\ hand \in Requests \cup {None}
    /\ chan \in Seq(Requests)
    /\ pending \in Seq(Requests)
    /\ idle \in Seq(Conns)
    /\ req \in [Requests -> {"idle", "waiting", "expired", "served"}]
    /\ reply \in [Requests -> Conns \cup {"empty", "closed"}]
    /\ conn \in [Conns -> {"unused", "handler", "idle", "reply", "used"}]
    /\ pooled \in SUBSET Conns
    /\ toClient \in Seq(Proxies)
    /\ spawned \in Nat
    /\ answered \in {"all", "some"}

Init ==
    /\ link = "up"
    /\ entry = "listed"
    /\ phase = "running"
    /\ ctlPc = "select"
    /\ hand = None
    /\ chan = <<>>
    /\ pending = <<>>
    /\ idle = <<>>
    /\ req = [r \in Requests |-> "idle"]
    /\ reply = [r \in Requests |-> "empty"]
    /\ conn = [c \in Conns |-> "unused"]
    /\ pooled = {}
    /\ toClient = <<>>
    /\ spawned = 0
    /\ answered = "all"

\* What pop and pop_back return, and what they leave.
Last(s) == s[Len(s)]
Front(s) == SubSeq(s, 1, Len(s) - 1)

-----------------------------------------------------------------------------
(***************************************************************************)
(* Oneshot channels and sockets                                            *)
(***************************************************************************)

\* The receiver of r's oneshot still exists: reply_tx.send would succeed.
Receiving(r) == req[r] \in {"waiting", "expired"}

\* A reply sender of r is still held by the channel, the control task or the
\* pending queue, so the identifier cannot stand for a new request yet.
Referenced(r) == r \in Range(chan) \cup Range(pending) \cup {hand}

\* Connection identifiers not in use, and connections that may still be opened
\* for requests under way.  Together with the conjuncts that use them they bound
\* the instance: nothing is started that would run out of identifiers.
Unused == Cardinality({c \in Conns : conn[c] = "unused"})
Demand == Len(chan) + (IF hand = None THEN 0 ELSE 1) + Len(toClient) + spawned

\* Mutant of Deliver: the connection is given to a request that has given up.
MutDeliver(r, c) ==
    /\ reply' = [reply EXCEPT ![r] = c]
    /\ conn' = [conn EXCEPT ![c] = "reply"]
    /\ UNCHANGED pooled

\* reply_tx.send(c): the receiver gets c, or c is dropped with the error.
Deliver(r, c) ==
    IF Receiving(r)
    THEN /\ reply' = [reply EXCEPT ![r] = c]
         /\ conn' = [conn EXCEPT ![c] = "reply"]
         /\ UNCHANGED pooled
    ELSE /\ conn' = [conn EXCEPT ![c] = "unused"]
         /\ pooled' = pooled \ {c}
         /\ UNCHANGED reply

\* The transport of c is dropped, which closes the connection.
CloseConn(c) ==
    /\ conn' = [conn EXCEPT ![c] = "unused"]
    /\ pooled' = pooled \ {c}

-----------------------------------------------------------------------------
(***************************************************************************)
(* The requesting task: request_work_transport                             *)
(***************************************************************************)

\* work_conn_req_tx.send: waits while the channel is full.
RequestWorkConn(r) ==
    /\ req[r] = "idle"
    /\ ~Referenced(r)
    /\ phase # "dropped"
    /\ Len(chan) < ChanCap
    /\ Demand < Unused + Len(idle)
    /\ chan' = Append(chan, r)
    /\ req' = [req EXCEPT ![r] = "waiting"]
    /\ UNCHANGED <<link, entry, ctlVars, pending, idle, reply, conn, pooled, clientVars>>

\* The channel is gone with the Control: the send fails at once.
RequestRefused(r) ==
    /\ req[r] = "idle"
    /\ phase = "dropped"
    /\ UNCHANGED vars

\* The oneshot yields a connection and StartWorkConn is sent on it.
Receive(r) ==
    /\ req[r] = "waiting"
    /\ reply[r] \in Conns
    /\ req' = [req EXCEPT ![r] = "served"]
    /\ conn' = [conn EXCEPT ![reply[r]] = "used"]
    /\ UNCHANGED <<link, entry, ctlVars, queueVars, reply, pooled, clientVars>>

\* The oneshot yields a connection that the client has closed meanwhile.
StartFails(r) ==
    /\ "startfail" \in Faults
    /\ req[r] = "waiting"
    /\ reply[r] \in Conns
    /\ req' = [req EXCEPT ![r] = "idle"]
    /\ reply' = [reply EXCEPT ![r] = "empty"]
    /\ CloseConn(reply[r])
    /\ UNCHANGED <<link, entry, ctlVars, queueVars, clientVars>>

\* The sender was dropped: "Work connection channel closed".
ChannelClosed(r) ==
    /\ req[r] = "waiting"
    /\ reply[r] = "closed"
    /\ req' = [req EXCEPT ![r] = "idle"]
    /\ reply' = [reply EXCEPT ![r] = "empty"]
    /\ UNCHANGED <<link, entry, ctlVars, queueVars, conn, pooled, clientVars>>

\* Mutant of Expire: the wait for the oneshot has no timeout.
MutExpire(r) == FALSE

\* The 10 s timer fires and the slot is still empty.
Expire(r) ==
    /\ req[r] = "waiting"
    /\ reply[r] = "empty"
    /\ req' = [req EXCEPT ![r] = "expired"]
    /\ UNCHANGED <<link, entry, ctlVars, queueVars, reply, conn, pooled, clientVars>>

\* The receiver is dropped; a connection sent since the timer fired goes with it.
DropReceiver(r) ==
    /\ req[r] = "expired"
    /\ req' = [req EXCEPT ![r] = "idle"]
    /\ reply' = [reply EXCEPT ![r] = "empty"]
    /\ IF reply[r] \in Conns THEN CloseConn(reply[r]) ELSE UNCHANGED <<conn, pooled>>
    /\ UNCHANGED <<link, entry, ctlVars, queueVars, clientVars>>

\* The relay between the user connection and the work connection ends.
Finish(r) ==
    /\ req[r] = "served"
    /\ req' = [req EXCEPT ![r] = "idle"]
    /\ reply' = [reply EXCEPT ![r] = "empty"]
    /\ CloseConn(reply[r])
    /\ UNCHANGED <<link, entry, ctlVars, queueVars, clientVars>>

-----------------------------------------------------------------------------
(***************************************************************************)
(* The control task                                                        *)
(***************************************************************************)

\* Mutant of TakeIdle: the last idle connection is read but not removed.
MutTakeIdle ==
    /\ phase = "running" /\ ctlPc = "select"
    /\ chan # <<>> /\ idle # <<>>
    /\ chan' = Tail(chan)
    /\ UNCHANGED idle
    /\ Deliver(Head(chan), Last(idle))
    /\ UNCHANGED <<link, entry, ctlVars, pending, req, clientVars>>

\* handle_work_conn_request, an idle connection is popped (idle lock only).
TakeIdle ==
    /\ phase = "running" /\ ctlPc = "select"
    /\ chan # <<>> /\ idle # <<>>
    /\ chan' = Tail(chan)
    /\ idle' = Front(idle)
    /\ Deliver(Head(chan), Last(idle))
    /\ UNCHANGED <<link, entry, ctlVars, pending, req, clientVars>>

\* Mutant of FindNoIdle: the request is taken from the channel and lost.
MutFindNoIdle ==
    /\ phase = "running" /\ ctlPc = "select"
    /\ chan # <<>> /\ idle = <<>>
    /\ chan' = Tail(chan)
    /\ ctlPc' = "push"
    /\ UNCHANGED <<link, entry, phase, hand, pending, idle, req, reply, conn, pooled, clientVars>>

\* handle_work_conn_request finds no idle connection and releases the lock.
FindNoIdle ==
    /\ phase = "running" /\ ctlPc = "select"
    /\ chan # <<>> /\ idle = <<>>
    /\ hand' = Head(chan)
    /\ chan' = Tail(chan)
    /\ ctlPc' = "push"
    /\ UNCHANGED <<link, entry, phase, pending, idle, req, reply, conn, pooled, clientVars>>

\* The request is queued under the pending lock.
PushPending ==
    /\ ctlPc = "push"
    /\ pending' = Append(pending, hand)
    /\ ctlPc' = "send"
    /\ UNCHANGED <<link, entry, phase, hand, chan, idle, req, reply, conn, pooled, clientVars>>

\* Mutant of SendReqWorkConn: no message while an earlier request is pending.
MutSendReqWorkConn ==
    /\ ctlPc = "send"
    /\ \/ link = "up" /\ Len(toClient) < NetCap
          /\ toClient' = IF Len(pending) > 1 THEN toClient ELSE Append(toClient, ProxyOf[hand])
       \/ link = "down" /\ UNCHANGED toClient
    /\ ctlPc' = "select"
    /\ hand' = None
    /\ UNCHANGED <<link, entry, phase, queueVars, req, reply, conn, pooled, spawned, answered>>

\* transport.send(ReqWorkConn) succeeds; on a broken link the message is lost.
SendReqWorkConn ==
    /\ ctlPc = "send"
    /\ \/ link = "up" /\ Len(toClient) < NetCap
          /\ toClient' = Append(toClient, ProxyOf[hand])
       \/ link = "down" /\ UNCHANGED toClient
    /\ ctlPc' = "select"
    /\ hand' = None
    /\ UNCHANGED <<link, entry, phase, queueVars, req, reply, conn, pooled, spawned, answered>>

\* Mutant of PopBack: pop_front.
MutPopBack ==
    IF pending = <<>>
    THEN UNCHANGED <<pending, reply>>
    ELSE /\ pending' = Tail(pending)
         /\ reply' = IF Receiving(Head(pending))
                     THEN [reply EXCEPT ![Head(pending)] = "closed"] ELSE reply

\* pending.pop_back(): whatever is at the back is dropped with its sender.
PopBack ==
    IF pending = <<>>
    THEN UNCHANGED <<pending, reply>>
    ELSE /\ pending' = Front(pending)
         /\ reply' = IF Receiving(Last(pending))
                     THEN [reply EXCEPT ![Last(pending)] = "closed"] ELSE reply

\* transport.send(ReqWorkConn) fails.
SendFails ==
    /\ ctlPc = "send"
    /\ link = "down"
    /\ PopBack
    /\ ctlPc' = "select"
    /\ hand' = None
    /\ UNCHANGED <<link, entry, phase, chan, idle, req, conn, pooled, clientVars>>

\* Mutant of EndRun: the loop does not wait for the cancellation token.
MutEndRun ==
    /\ phase = "running" /\ ctlPc = "select"
    /\ link = "down"
    /\ phase' = "ended"
    /\ UNCHANGED <<link, entry, ctlPc, hand, queueVars, req, reply, conn, pooled, clientVars>>

\* run returns: receive error or end, heartbeat deadline, or cancellation.  The
\* transport is dropped with it.
EndRun ==
    /\ phase = "running" /\ ctlPc = "select"
    /\ link = "down" \/ entry = "superseded"
    /\ phase' = "ended"
    /\ link' = "down"
    /\ UNCHANGED <<entry, ctlPc, hand, queueVars, req, reply, conn, pooled, clientVars>>

-----------------------------------------------------------------------------
(***************************************************************************)
(* The owners of the Control: handle_login, takeover, the last Arc         *)
(***************************************************************************)

\* ControlManager::shutdown_run by the run that takes a proxy over.
Supersede ==
    /\ "supersede" \in Faults
    /\ entry = "listed"
    /\ entry' = "superseded"
    /\ UNCHANGED <<link, ctlVars, queueVars, req, reply, conn, pooled, clientVars>>

\* handle_login after run: the proxies are unregistered, then the entry goes.
RemoveControl ==
    /\ phase = "ended"
    /\ entry = "listed"
    /\ entry' = "removed"
    /\ UNCHANGED <<link, ctlVars, queueVars, req, reply, conn, pooled, clientVars>>

\* The last Arc goes: channel, pending requests and idle connections with it.
DropControl ==
    /\ phase = "ended"
    /\ entry # "listed"
    /\ \A c \in Conns : conn[c] # "handler"
    /\ phase' = "dropped"
    /\ chan' = <<>> /\ pending' = <<>> /\ idle' = <<>>
    /\ reply' = [r \in Requests |-> IF r \in Range(chan) \cup Range(pending) /\ Receiving(r)
                                    THEN "closed" ELSE reply[r]]
    /\ conn' = [c \in Conns |-> IF conn[c] = "idle" THEN "unused" ELSE conn[c]]
    /\ pooled' = {c \in pooled : conn[c] # "idle"}
    /\ UNCHANGED <<link, entry, ctlPc, hand, req, clientVars>>

LinkDown ==
    /\ "linkdown" \in Faults
    /\ link = "up"
    /\ link' = "down"
    /\ UNCHANGED <<entry, ctlVars, queueVars, req, reply, conn, pooled, clientVars>>

-----------------------------------------------------------------------------
(***************************************************************************)
(* Work connections                                                        *)
(***************************************************************************)

\* The client handles ReqWorkConn: skipped for an unavailable proxy.
ClientReqWorkConn ==
    /\ link = "up"
    /\ toClient # <<>>
    /\ toClient' = Tail(toClient)
    /\ IF Head(toClient) \in Unavailable
       THEN answered' = "some" /\ UNCHANGED spawned
       ELSE spawned < MaxSpawned /\ spawned' = spawned + 1 /\ UNCHANGED answered
    /\ UNCHANGED <<link, entry, ctlVars, queueVars, req, reply, conn, pooled>>

\* handle_new_work_conn finds the Control of the run.
Arrive(c) ==
    /\ entry = "listed"
    /\ conn[c] = "unused"
    /\ conn' = [conn EXCEPT ![c] = "handler"]

\* A connection opened for a ReqWorkConn reaches the server.
OpenRequested(c) ==
    /\ spawned > 0
    /\ spawned' = spawned - 1
    /\ Arrive(c)
    /\ UNCHANGED <<link, entry, ctlVars, queueVars, req, reply, pooled, toClient, answered>>

\* A pool task opens its next connection.
OpenPooled(c) ==
    /\ Cardinality(pooled) < PoolCount
    /\ Demand < Unused
    /\ link = "up"
    /\ Arrive(c)
    /\ pooled' = pooled \cup {c}
    /\ UNCHANGED <<link, entry, ctlVars, queueVars, req, reply, clientVars>>

\* handle_new_work_conn no longer finds the Control: "Unknown run_id".
OpenUnknownRun ==
    /\ entry # "listed"
    /\ spawned > 0
    /\ spawned' = spawned - 1
    /\ UNCHANGED <<link, entry, ctlVars, queueVars, req, reply, conn, pooled, toClient, answered>>

\* The connection attempt fails, or is refused, before NewWorkConn is handled.
OpenFails ==
    /\ "connfail" \in Faults
    /\ spawned > 0
    /\ spawned' = spawned - 1
    /\ answered' = "some"
    /\ UNCHANGED <<link, entry, ctlVars, queueVars, req, reply, conn, pooled, toClient>>

\* Mutant of HandleWorkConn: the whole queue is taken.
MutHandleWorkConnDrain(c) ==
    /\ conn[c] = "handler"
    /\ IF pending = <<>>
       THEN /\ idle' = Append(idle, c)
            /\ conn' = [conn EXCEPT ![c] = "idle"]
            /\ UNCHANGED <<pending, reply, pooled>>
       ELSE /\ pending' = <<>>
            /\ Deliver(Head(pending), c)
            /\ UNCHANGED idle
    /\ UNCHANGED <<link, entry, ctlVars, chan, req, clientVars>>

\* Control::handle_work_conn: the oldest pending request gets the connection;
\* with none pending it is stored idle while the pending lock is still held.
HandleWorkConn(c) ==
    /\ conn[c] = "handler"
    /\ IF pending = <<>>
       THEN /\ idle' = Append(idle, c)
            /\ conn' = [conn EXCEPT ![c] = "idle"]
            /\ UNCHANGED <<pending, reply, pooled>>
       ELSE /\ pending' = Tail(pending)
            /\ Deliver(Head(pending), c)
            /\ UNCHANGED idle
    /\ UNCHANGED <<link, entry, ctlVars, chan, req, clientVars>>

-----------------------------------------------------------------------------

Requester(r) == \/ RequestWorkConn(r) \/ RequestRefused(r) \/ Receive(r) \/ StartFails(r)
                \/ ChannelClosed(r) \/ Expire(r) \/ DropReceiver(r) \/ Finish(r)

ControlTask == \/ TakeIdle \/ FindNoIdle \/ PushPending
               \/ SendReqWorkConn \/ SendFails \/ EndRun

Owners == Supersede \/ RemoveControl \/ DropControl \/ LinkDown

Client == \/ ClientReqWorkConn \/ OpenUnknownRun \/ OpenFails
          \/ \E c \in Conns : OpenRequested(c) \/ OpenPooled(c)

Next == \/ \E r \in Requests : Requester(r)
        \/ ControlTask
        \/ Owners
        \/ Client
        \/ \E c \in Conns : HandleWorkConn(c)

Spec == Init /\ [][Next]_vars

\* Steps the runtime, the kernel and the client take on their own.  Requests,
\* faults, pool connections and the end of a relay need not happen.
Fairness ==
    /\ \A r \in Requests :
          /\ WF_vars(Receive(r)) /\ WF_vars(ChannelClosed(r)) /\ WF_vars(Expire(r))
          /\ WF_vars(DropReceiver(r))
    /\ WF_vars(TakeIdle \/ FindNoIdle) /\ WF_vars(PushPending)
    /\ WF_vars(SendReqWorkConn \/ SendFails) /\ SF_vars(EndRun)
    /\ WF_vars(RemoveControl) /\ WF_vars(DropControl)
    /\ WF_vars(ClientReqWorkConn)
    /\ WF_vars(OpenUnknownRun \/ \E c \in Conns : OpenRequested(c))
    /\ \A c \in Conns : WF_vars(HandleWorkConn(c))

FairSpec == Spec /\ Fairness

-----------------------------------------------------------------------------
(***************************************************************************)
(* Properties                                                              *)
(***************************************************************************)

\* A work connection has one owner.  The idle list holds each connection at
\* most once and only connections nobody else has, and no two requests hold
\* the same connection (handle_work_conn_request and handle_work_conn hand
\* connections out under different locks).
ConnOwnedOnce ==
    /\ \A i, j \in 1..Len(idle) : idle[i] = idle[j] => i = j
    /\ \A c \in Conns : conn[c] = "idle" <=> \E i \in 1..Len(idle) : idle[i] = c
    /\ \A r \in Requests : reply[r] \in Conns => conn[reply[r]] \in {"reply", "used"}
    /\ \A r, s \in Requests : reply[r] \in Conns /\ reply[r] = reply[s] => r = s

\* The positions that hold the reply sender of request r.
Senders(r) == {<<"chan", i>> : i \in {i \in 1..Len(chan) : chan[i] = r}}
              \cup {<<"pending", i>> : i \in {i \in 1..Len(pending) : pending[i] = r}}
              \cup {<<"hand", 0>> : x \in {y \in {hand} : y = r /\ ctlPc = "push"}}

\* A request that waits with an empty slot is never forgotten and never queued
\* twice: exactly one of the channel, the control task and pending_work_conns
\* holds its sender, whatever timeouts and failed sends happened before.
WaitingIsTracked ==
    \A r \in Requests :
        req[r] = "waiting" /\ reply[r] = "empty" => \E x \in Senders(r) : Senders(r) = {x}

\* When ReqWorkConn cannot be sent, pop_back drops the request just pushed and
\* no other, although handle_work_conn may have popped requests from the front
\* in the meantime.  While the Control lives, no other request is closed.
OnlyOwnRequestDropped ==
    [][\A r \in Requests :
          reply[r] = "empty" /\ reply'[r] = "closed" => phase' = "dropped" \/ r = hand]_vars

\* The connections whose task is about to run handle_work_conn.
Handlers == {c \in Conns : conn[c] = "handler"}

\* Work connections the client has been asked for and will deliver.
Coming == Len(toClient) + spawned + Cardinality(Handlers)
          + (IF ctlPc = "send" THEN 1 ELSE 0)

\* As long as a connection comes for every ReqWorkConn, no wakeup is lost: each
\* pending request is covered by a connection under way, also when an idle
\* connection slipped in between the idle check and the push of
\* handle_work_conn_request, and when requests timed out while queued.
PendingIsCovered ==
    answered = "all" /\ link = "up" /\ entry = "listed" => Len(pending) <= Coming

\* Every request comes to an end: a connection, a closed channel or the timer,
\* also when the client never answers or the Control is torn down under it.
\* (A request is made once the channel has room; waiting for that has no timer.)
RequestEnds == \A r \in Requests : req[r] = "waiting" ~> req[r] # "waiting"

\* A Control that is superseded or whose run loop ends is released with its
\* idle connections and pending requests.
ControlReleased == (entry # "listed" \/ phase = "ended") ~> phase = "dropped"

\* The dispatch implements the one-to-one rendezvous of Rendezvous.
Abstract == INSTANCE Rendezvous WITH
    want <- {r \in Requests : Receiving(r) /\ reply[r] = "empty"},
    offer <- {c \in Conns : conn[c] \in {"handler", "idle"}},
    pair <- {p \in Requests \X Conns : reply[p[1]] = p[2]}

ImplementsRendezvous == Abstract!Spec
=============================================================================
