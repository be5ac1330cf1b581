------------------------------- MODULE Client -------------------------------
(***************************************************************************)
(* The client process arpc: Service::run, which connects, runs a Control   *)
(* and reconnects, and the Control itself, which logs in, registers the    *)
(* configured proxies one at a time and then serves its message loop, in   *)
(* which the admin API and the SIGHUP reload register and close proxies.   *)
(* The far end of the control connection, the server's Control task, is    *)
(* present as far as the client can see it: it answers a login and every   *)
(* NewProxy in order, says nothing to a CloseProxy, and asks for work      *)
(* connections as soon as a proxy it has accepted has a user.              *)
(***************************************************************************)
EXTENDS Naturals, Sequences, FiniteSets

CONSTANTS
    Configured,   \* the proxy names of the configuration file, in order
    Calls,        \* the admin and reload calls: call -> [op, n]
    MaxSessions,  \* bound on the number of Controls Service::run builds
    MaxUsers,     \* bound on the users that connect, over all sessions
    Capacity,     \* size of the command channel of a Control (100)
    Faults,       \* subset of {"unreachable", "config", "break", "silence", "refuse", "slow"}
    None

ASSUME CallAssumption == None \notin DOMAIN Calls

Names == {Configured[i] : i \in DOMAIN Configured} \cup {Calls[c].n : c \in DOMAIN Calls}

VARIABLES
    phase,     \* where Service::run is
    why,       \* the class of the error that ended the process
    session,   \* how many Controls have been built
    link,      \* the control connection: "none", "up", "silent" or "closed"
    up, down,  \* messages in flight to and from the server
    next,      \* index of the configured proxy being registered
    known,     \* the names in the current ProxyManager
    closed,    \* the names this Control has asked the server to close
    srv,       \* the names the server holds for this session
    cmds,      \* the control command channel of the current Control
    slot,      \* pending_proxy_resp: the call whose answer is awaited
    call,      \* call -> [st, addr, ctl]: where it is, whose address it was given, its Control
    late,      \* a call has timed out while its Control was serving
    unread,    \* Control -> how many commands are left in its channel after its end
    users      \* users that have connected so far

service == <<phase, why, session>>
wire == <<link, up, down>>
proxyState == <<next, known, closed>>
admin == <<cmds, slot, call, late, unread>>
vars == <<service, wire, proxyState, srv, admin, users>>

Init ==
    /\ phase = "connect" /\ why = "none" /\ session = 0
    /\ link = "none" /\ up = <<>> /\ down = <<>>
    /\ next = 1 /\ known = {} /\ closed = {} /\ srv = {}
    /\ cmds = <<>> /\ slot = None
    /\ call = [c \in DOMAIN Calls |-> [st |-> "idle", addr |-> None, ctl |-> 0]]
    /\ late = FALSE /\ unread = [ctl \in 1..MaxSessions |-> 0] /\ users = 0

Msg(t, n, ok) == [t |-> t, n |-> n, ok |-> ok]

Running == phase \in {"login", "register", "answer", "loop"}

(* A message handed to the transport joins a live connection and vanishes  *)
(* in a silent or closed one.  Sending on a closed connection may also     *)
(* fail, which every sender treats in its own way.                         *)
SendUp(m) == up' = IF link = "up" THEN Append(up, m) ELSE up
MutSendDown(m) == down' = <<m>> \o down
SendDown(m) == down' = Append(down, m)

(* Control::run after the message loop: whoever waits in the slot is told. *)
(* Commands still queued belong to a Control nobody will run again: they   *)
(* stay in its channel, as both ends of it are fields of the Control.      *)
Finish(to, class) ==
    /\ phase' = to /\ why' = class
    /\ link' = "none" /\ up' = <<>> /\ down' = <<>> /\ srv' = {}
    /\ cmds' = <<>> /\ slot' = None
    /\ call' = IF slot = None THEN call ELSE [call EXCEPT ![slot].st = "err"]
    /\ unread' = [unread EXCEPT ![session] = Len(cmds)]
    /\ UNCHANGED <<session, proxyState, late, users>>

(* is_retriable: a lost connection or a timeout leads to the backoff,      *)
(* any other class of error ends the process.                              *)
Lost == Finish("backoff", "none")
Fatal(class) == Finish("exited", class)

(* Service::run and Control::new: a fresh ProxyManager and a connection,   *)
(* on which login() sends its message.                                     *)
Connect ==
    /\ phase = "connect" /\ session < MaxSessions
    /\ phase' = "login" /\ session' = session + 1
    /\ link' = "up" /\ up' = <<Msg("Login", None, TRUE)>> /\ down' = <<>>
    /\ next' = 1 /\ known' = {} /\ closed' = {}
    /\ UNCHANGED <<why, srv, admin, users>>

(* A server that cannot be reached is tried again; an error in the         *)
(* configuration, such as a certificate that is gone, ends the process.    *)
ConnectFails ==
    /\ phase = "connect"
    /\ \/ "unreachable" \in Faults /\ phase' = "backoff" /\ UNCHANGED why
       \/ "config" \in Faults /\ phase' = "exited" /\ why' = "config"
    /\ UNCHANGED <<session, wire, proxyState, srv, admin, users>>

(* The peer accepts the connection and then stays silent in the TLS or     *)
(* WebSocket handshake, for which there is no timeout.                     *)
ConnectHangs ==
    /\ phase = "connect" /\ "silence" \in Faults
    /\ phase' = "handshake"
    /\ UNCHANGED <<why, session, wire, proxyState, srv, admin, users>>

Retry ==
    /\ phase = "backoff" /\ session < MaxSessions
    /\ phase' = "connect"
    /\ UNCHANGED <<why, session, wire, proxyState, srv, admin, users>>

(* The connection ends; what had already arrived may or may not be read.   *)
Break ==
    /\ "break" \in Faults /\ link = "up" /\ session < MaxSessions
    /\ link' = "closed" /\ up' = <<>> /\ srv' = {}
    /\ down' \in {down, <<>>}
    /\ UNCHANGED <<service, proxyState, admin, users>>

(* The path swallows everything, without error.                            *)
Silence ==
    /\ "silence" \in Faults /\ link = "up" /\ session < MaxSessions
    /\ link' = "silent" /\ up' = <<>> /\ down' = <<>> /\ srv' = {}
    /\ UNCHANGED <<service, proxyState, admin, users>>

(* The timeout_checker of the message loop: no Pong for heartbeat_timeout. *)
HeartbeatTimeout ==
    /\ phase = "loop" /\ link = "silent"
    /\ Lost

MutConnectionClosed == phase = "loop" /\ link = "closed" /\ down = <<>> /\ Lost

(* recv() reports the end of the connection, wherever the Control reads.   *)
ConnectionClosed ==
    /\ Running /\ link = "closed" /\ down = <<>>
    /\ Lost

(* login(): the answer carries an error or the run id.                     *)
RecvLoginResp ==
    /\ phase = "login" /\ down /= <<>>
    /\ \/ /\ Head(down).ok
          /\ phase' = "register" /\ down' = Tail(down)
          /\ UNCHANGED <<why, session, link, up, proxyState, srv, admin, users>>
       \/ /\ ~Head(down).ok
          /\ Fatal("auth")

(* register_proxies(): NewProxy for the next configured proxy ...          *)
SendNewProxy ==
    /\ phase = "register" /\ next \in DOMAIN Configured
    /\ \/ /\ phase' = "answer"
          /\ SendUp(Msg("NewProxy", Configured[next], TRUE))
          /\ UNCHANGED <<why, session, link, down, proxyState, srv, admin, users>>
       \/ /\ link = "closed"
          /\ Lost

(* ... then one message is read, and it must be the NewProxyResp.          *)
RecvNewProxyResp ==
    /\ phase = "answer" /\ down /= <<>>
    /\ LET m == Head(down) IN
       \/ /\ m.t = "NewProxyResp" /\ m.ok
          /\ phase' = "register" /\ down' = Tail(down)
          /\ known' = known \cup {Configured[next]} /\ next' = next + 1
          /\ UNCHANGED <<why, session, link, up, closed, srv, admin, users>>
       \/ /\ m.t = "NewProxyResp" /\ ~m.ok
          /\ Fatal("rejected")
       \/ /\ m.t /= "NewProxyResp"
          /\ Fatal("protocol")

(* All configured proxies are registered: visitors start, the loop runs.   *)
EnterLoop ==
    /\ phase = "register" /\ next \notin DOMAIN Configured
    /\ phase' = "loop"
    /\ UNCHANGED <<why, session, wire, proxyState, srv, admin, users>>

(* register_proxy_dynamic and close_proxy_dynamic, from the admin API, the *)
(* SIGHUP reload or a reload over the API, on the Control the caller holds.*)
(* That may be an earlier Control: neither the admin server nor a SIGHUP   *)
(* listener is replaced or ended on reconnect.                             *)
Call(c) ==
    /\ call[c].st = "idle" /\ session > 0 /\ phase /= "exited"
    /\ \E ctl \in 1..session : call' = [call EXCEPT ![c].st = "send", ![c].ctl = ctl]
    /\ UNCHANGED <<service, wire, proxyState, srv, cmds, slot, late, unread, users>>

Ended(c) == call[c].ctl < session \/ ~Running

Room(c) == IF Ended(c) THEN unread[call[c].ctl] < Capacity ELSE Len(cmds) < Capacity

(* The command waits, with no timeout, until the channel has room for it.  *)
Send(c) ==
    /\ call[c].st = "send" /\ phase /= "exited" /\ Room(c)
    /\ call' = [call EXCEPT ![c].st = "queued"]
    /\ IF Ended(c)
       THEN unread' = [unread EXCEPT ![call[c].ctl] = @ + 1] /\ UNCHANGED cmds
       ELSE cmds' = Append(cmds, c) /\ UNCHANGED unread
    /\ UNCHANGED <<service, wire, proxyState, srv, slot, late, users>>

MutCallTimeout(c) ==
    /\ call[c].st = "queued" /\ slot = c /\ "slow" \in Faults
    /\ call' = [call EXCEPT ![c].st = "err"] /\ slot' = None /\ late' = TRUE
    /\ UNCHANGED <<service, wire, proxyState, srv, cmds, unread, users>>

(* Ten seconds without an answer.  A registration that times out empties   *)
(* the slot of its Control, whoever is in it.                              *)
CallTimeout(c) ==
    /\ call[c].st = "queued" /\ phase /= "exited"
    /\ "slow" \in Faults \/ Ended(c) \/ link /= "up"
    /\ LET steals == Calls[c].op = "register" /\ ~Ended(c) /\ slot /= None IN
       /\ call' = [d \in DOMAIN call |->
                     IF d = c \/ (steals /\ d = slot /\ call[d].st = "queued")
                     THEN [call[d] EXCEPT !.st = "err"] ELSE call[d]]
       /\ slot' = IF steals THEN None ELSE slot
    /\ late' = (late \/ ~Ended(c))
    /\ UNCHANGED <<service, wire, proxyState, srv, cmds, unread, users>>

MutStartRegister(c) ==
    /\ slot' = c /\ SendUp(Msg("NewProxy", Calls[c].n, TRUE))
    /\ UNCHANGED <<call, link, down>>

(* handle_control_command, RegisterProxy: one registration at a time.      *)
StartRegister(c) ==
    IF slot /= None
    THEN /\ call' = [call EXCEPT ![c].st = "err"]
         /\ UNCHANGED <<slot, wire>>
    ELSE \/ /\ slot' = c
            /\ SendUp(Msg("NewProxy", Calls[c].n, TRUE))
            /\ UNCHANGED <<call, link, down>>
         \/ /\ link = "closed"
            /\ call' = [call EXCEPT ![c].st = "err"]
            /\ UNCHANGED <<slot, wire>>

HandleRegister ==
    /\ phase = "loop" /\ cmds /= <<>> /\ Calls[Head(cmds)].op = "register"
    /\ cmds' = Tail(cmds)
    /\ StartRegister(Head(cmds))
    /\ UNCHANGED <<service, proxyState, srv, late, unread, users>>

(* handle_close_proxy_cmd: forgotten at once, the server sends no answer.  *)
HandleClose ==
    /\ phase = "loop" /\ cmds /= <<>> /\ Calls[Head(cmds)].op = "close"
    /\ cmds' = Tail(cmds)
    /\ LET c == Head(cmds) IN
       \/ /\ SendUp(Msg("CloseProxy", Calls[c].n, TRUE))
          /\ known' = known \ {Calls[c].n} /\ closed' = closed \cup {Calls[c].n}
          /\ call' = [call EXCEPT ![c].st = IF @ = "queued" THEN "ok" ELSE @]
       \/ /\ link = "closed"
          /\ call' = [call EXCEPT ![c].st = "err"]
          /\ UNCHANGED <<up, known, closed>>
    /\ UNCHANGED <<service, link, down, next, srv, slot, late, unread, users>>

MutHandleNewProxyResp ==
    /\ phase = "loop" /\ down /= <<>> /\ Head(down).t = "NewProxyResp"
    /\ down' = Tail(down) /\ slot' = None
    /\ call' = IF slot = None THEN call
               ELSE [call EXCEPT ![slot].st = IF Head(down).ok THEN "ok" ELSE "err"]
    /\ UNCHANGED <<service, link, up, proxyState, srv, cmds, late, unread, users>>

(* The message loop's NewProxyResp arm: the answer goes to whoever is in   *)
(* the slot, and it is the waiting call's proxy that enters the manager.   *)
HandleNewProxyResp ==
    /\ phase = "loop" /\ down /= <<>> /\ Head(down).t = "NewProxyResp"
    /\ down' = Tail(down) /\ slot' = None
    /\ IF slot = None
       THEN UNCHANGED <<known, call>>
       ELSE /\ known' = IF Head(down).ok THEN known \cup {Calls[slot].n} ELSE known
            /\ call' = [call EXCEPT ![slot] = IF @.st /= "queued" THEN @
                          ELSE IF Head(down).ok THEN [@ EXCEPT !.st = "ok", !.addr = Head(down).n]
                          ELSE [@ EXCEPT !.st = "err"]]
    /\ UNCHANGED <<service, link, up, next, closed, srv, cmds, late, unread, users>>

(* The ReqWorkConn arm: a request for a proxy the manager does not hold is *)
(* skipped, any other starts a work connection (module WorkConn).          *)
HandleReqWorkConn ==
    /\ phase = "loop" /\ down /= <<>> /\ Head(down).t = "ReqWorkConn"
    /\ down' = Tail(down)
    /\ UNCHANGED <<service, link, up, proxyState, srv, admin, users>>

(* The server's Control: handle_login, handle_new_proxy, handle_close_proxy*)
ServerLogin ==
    /\ link = "up" /\ up /= <<>> /\ Head(up).t = "Login"
    /\ up' = Tail(up)
    /\ \E ok \in {TRUE} \cup (IF "refuse" \in Faults THEN {FALSE} ELSE {}) :
         SendDown(Msg("LoginResp", None, ok))
    /\ UNCHANGED <<service, link, proxyState, srv, admin, users>>

ServerNewProxy ==
    /\ link = "up" /\ up /= <<>> /\ Head(up).t = "NewProxy"
    /\ up' = Tail(up)
    /\ LET n == Head(up).n IN
       \/ /\ n \notin srv
          /\ srv' = srv \cup {n} /\ SendDown(Msg("NewProxyResp", n, TRUE))
       \/ /\ n \in srv \/ "refuse" \in Faults
          /\ srv' = srv /\ SendDown(Msg("NewProxyResp", n, FALSE))
    /\ UNCHANGED <<service, link, proxyState, admin, users>>

ServerCloseProxy ==
    /\ link = "up" /\ up /= <<>> /\ Head(up).t = "CloseProxy"
    /\ up' = Tail(up) /\ srv' = srv \ {Head(up).n}
    /\ UNCHANGED <<service, link, down, proxyState, admin, users>>

(* A user connects to a proxy the server holds: handle_work_conn_request.  *)
UserConnects ==
    /\ link = "up" /\ users < MaxUsers
    /\ \E n \in srv : SendDown(Msg("ReqWorkConn", n, TRUE))
    /\ users' = users + 1
    /\ UNCHANGED <<service, link, up, proxyState, srv, admin>>

Receive ==
    \/ ConnectionClosed \/ RecvLoginResp \/ RecvNewProxyResp
    \/ HandleNewProxyResp \/ HandleReqWorkConn

Next ==
    \/ Connect \/ ConnectFails \/ ConnectHangs \/ Retry \/ Break \/ Silence \/ HeartbeatTimeout
    \/ Receive \/ SendNewProxy \/ EnterLoop
    \/ HandleRegister \/ HandleClose
    \/ \E c \in DOMAIN Calls : Call(c) \/ Send(c) \/ CallTimeout(c)
    \/ ServerLogin \/ ServerNewProxy \/ ServerCloseProxy \/ UserConnects

Spec == Init /\ [][Next]_vars

(* Timers fire, and select! is unbiased: the message arm and the command   *)
(* arm are both taken again and again.  The server reads its connection.   *)
Fairness ==
    /\ SF_vars(Connect) /\ WF_vars(Retry) /\ WF_vars(HeartbeatTimeout)
    /\ WF_vars(Receive) /\ WF_vars(SendNewProxy) /\ WF_vars(EnterLoop)
    /\ WF_vars(HandleRegister) /\ WF_vars(HandleClose)
    /\ \A c \in DOMAIN Calls : WF_vars(Send(c)) /\ WF_vars(CallTimeout(c))
    /\ WF_vars(ServerLogin \/ ServerNewProxy \/ ServerCloseProxy)

FairSpec == Spec /\ Fairness

-----------------------------------------------------------------------------
(* A dynamic registration that reports success reports the address of its  *)
(* own proxy, although the NewProxyResp arm never compares names: as long  *)
(* as no call times out, the one slot and the order of the connection pair *)
(* every answer with its request, whatever other calls are queued.         *)
AnswerIsOwn == ~late => \A c \in DOMAIN Calls : call[c].addr \in {None, Calls[c].n}

InFlight(q, t, n) == \E i \in DOMAIN q : q[i].t = t /\ q[i].n = n

(* The server never holds a proxy that the client has lost sight of: one   *)
(* missing from the ProxyManager is about to be confirmed by an answer on  *)
(* its way, or about to be closed by a message on its way.  Again as long  *)
(* as no call has timed out: a timeout forgets the call, not the proxy.    *)
ServerProxiesKnown ==
    link = "up" /\ ~late =>
        \A n \in srv : \/ n \in known
                       \/ InFlight(down, "NewProxyResp", n)
                       \/ InFlight(up, "CloseProxy", n)

(* A work connection is refused for an unknown proxy only after the client *)
(* itself closed that proxy: the users of a proxy that is being registered *)
(* while others come and go are not turned away.                           *)
SkippedOnlyAfterClose ==
    [][HandleReqWorkConn /\ ~late => Head(down).n \in known \cup closed]_vars

(* A read without a timeout, on a connection that has gone silent.         *)
Hung == phase = "handshake" \/ (phase \in {"login", "answer"} /\ link = "silent")

(* A client that loses its connection in any phase, or whose connection    *)
(* goes silent once it is established, is back in its message loop with a  *)
(* live one, or has ended, once connections stop failing.  Only a silence  *)
(* while it connects, logs in or registers its proxies holds it up.        *)
Reconnects == []<>(phase = "exited" \/ (phase = "loop" /\ link = "up") \/ Hung)

(* Every admin or reload call returns, also one made on a Control that has *)
(* ended or that ends before it reads the command, except one that waits   *)
(* for room in the full channel of a Control that reads no more.           *)
CallsReturn ==
    \A c \in DOMAIN Calls :
       call[c].st \in {"send", "queued"} ~>
          \/ call[c].st \in {"ok", "err"} \/ phase = "exited"
          \/ call[c].st = "send" /\ ~Room(c) /\ (Ended(c) \/ Hung)

(* is_retriable's own account of the errors that end the process: a failed *)
(* authentication, a configuration error or a rejected registration.       *)
ExitsOnlyWhenRefused == phase = "exited" => why \in {"auth", "config", "rejected"}

=============================================================================
