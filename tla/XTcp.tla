-------------------------------- MODULE XTcp --------------------------------
(***************************************************************************)
(* An xtcp session: the users of a visitor client's local port ask,        *)
(* through the one pending_xtcp slot of its Control, the server's          *)
(* NatHoleController for a provider; the provider's client opens a         *)
(* listener, answers and starts its side of the race; the visitor starts   *)
(* the other side; each side takes whichever of its own connect and its    *)
(* own accept finishes first.                                              *)
(*                                                                         *)
(* A request is named after the user connection that makes it.  That name  *)
(* also stands for the request's visitor_addr, the key of the server's     *)
(* pending map: every request binds a fresh punch listener.                *)
(***************************************************************************)
EXTENDS Naturals, Sequences, FiniteSets

CONSTANTS
    Visitors,   \* user connections of the visitor client, one request each
    Paths,      \* subset of {"vo", "ov"}: which side can reach the other's listener
    Relay,      \* both sides allow the relay, and the server runs one
    Lossy,      \* control connections may end, the visitor's and the owners'
    Slow,       \* a request may take longer than its ten seconds
    None

ASSUME NoneAssumption == None \notin Visitors

VARIABLES
    vis,        \* visitor side of a request
    cmds, slot, \* command channel and pending_xtcp of the visitor's Control
    control,    \* the visitor's Control is serving its message loop
    toSrv, fromSrv,       \* the visitor's control connection
    pending,              \* NatHoleController::pending
    toOwner, fromOwner,   \* NatHoleClient and NatHoleResp under way
    gone,                 \* the requests whose owner's control ended meanwhile
    owner,      \* provider side of a request
    peer,       \* the request whose NatHoleResp the visitor was given
    streams,    \* established direct connections <<direction, visitor, request>>
    dialled,    \* connection attempts that have finished
    late        \* a request has timed out while its Control was serving

asking == <<vis, cmds, slot, control, late>>
wires == <<toSrv, fromSrv, pending, toOwner, fromOwner, gone>>
racing == <<owner, peer, streams, dialled>>
vars == <<asking, wires, racing>>

Init ==
    /\ vis = [v \in Visitors |-> "idle"] /\ owner = [v \in Visitors |-> "idle"]
    /\ cmds = <<>> /\ slot = None /\ control = TRUE /\ late = FALSE
    /\ toSrv = <<>> /\ fromSrv = <<>> /\ pending = {} /\ toOwner = {} /\ fromOwner = {} /\ gone = {}
    /\ peer = [v \in Visitors |-> None]
    /\ streams = {} /\ dialled = {}

(* A user connects to the visitor's bind_port: a punch listener is bound   *)
(* and OpenXtcp is queued.  The accept loop ends with its Control.         *)
Accept(v) ==
    /\ vis[v] = "idle" /\ control
    /\ vis' = [vis EXCEPT ![v] = "asking"]
    /\ cmds' = Append(cmds, v)
    /\ UNCHANGED <<slot, control, late, wires, racing>>

MutOpenXtcp ==
    /\ control /\ cmds /= <<>>
    /\ cmds' = Tail(cmds) /\ slot' = Head(cmds) /\ toSrv' = Append(toSrv, Head(cmds))
    /\ UNCHANGED <<vis, control, late, fromSrv, pending, toOwner, fromOwner, gone, racing>>

(* handle_control_command, OpenXtcp: one request at a time, others are     *)
(* turned away.  The command of a request that gave up is served as well.  *)
OpenXtcp ==
    /\ control /\ cmds /= <<>>
    /\ cmds' = Tail(cmds)
    /\ LET v == Head(cmds) IN
       IF slot /= None
       THEN /\ vis' = [vis EXCEPT ![v] = "error"]
            /\ UNCHANGED <<slot, toSrv>>
       ELSE /\ slot' = v /\ toSrv' = Append(toSrv, v)
            /\ UNCHANGED vis
    /\ UNCHANGED <<control, late, fromSrv, pending, toOwner, fromOwner, gone, racing>>

(* request_xtcp_peer gives up and empties the slot, whoever is in it: that *)
(* request then finds its channel closed.                                  *)
RequestTimeout(v) ==
    /\ vis[v] = "asking" /\ (Slow \/ ~control)
    /\ vis' = [w \in Visitors |-> IF w = v \/ (w = slot /\ vis[w] = "asking")
                                  THEN "error" ELSE vis[w]]
    /\ slot' = None /\ late' = (late \/ control)
    /\ UNCHANGED <<cmds, control, wires, racing>>

(* The visitor's Control::run ends and tells whoever waits in the slot.    *)
ControlLost ==
    /\ Lossy /\ control
    /\ control' = FALSE /\ toSrv' = <<>> /\ fromSrv' = <<>> /\ slot' = None
    /\ vis' = [v \in Visitors |-> IF v = slot /\ vis[v] = "asking" THEN "error" ELSE vis[v]]
    /\ UNCHANGED <<cmds, late, pending, toOwner, fromOwner, gone, racing>>

(* NatHoleController::handle_visitor: no owner or another secret, an owner *)
(* whose control takes no more messages, or the request goes on to it.     *)
(* The entry made for an owner that turns out to be offline stays.         *)
HandleVisitor ==
    /\ toSrv /= <<>>
    /\ toSrv' = Tail(toSrv)
    /\ LET v == Head(toSrv)
           AnswerError == fromSrv' = Append(fromSrv, [v |-> v, ok |-> FALSE])
       IN \/ AnswerError /\ UNCHANGED <<pending, toOwner, gone>>
          \/ /\ Lossy /\ AnswerError
             /\ pending' = pending \cup {v} /\ gone' = gone \cup {v}
             /\ UNCHANGED toOwner
          \/ /\ pending' = pending \cup {v} /\ toOwner' = toOwner \cup {v}
             /\ UNCHANGED <<fromSrv, gone>>
    /\ UNCHANGED <<asking, fromOwner, racing>>

(* The owner's control connection ends with the request or the answer on it*)
OwnerLost(v) ==
    /\ Lossy
    /\ v \in toOwner \/ \E m \in fromOwner : m.v = v
    /\ toOwner' = toOwner \ {v} /\ fromOwner' = {m \in fromOwner : m.v /= v}
    /\ gone' = gone \cup {v}
    /\ UNCHANGED <<asking, toSrv, fromSrv, pending, racing>>

MutHandleNatHoleClient(v) ==
    /\ v \in toOwner
    /\ toOwner' = toOwner \ {v}
    /\ owner' = [owner EXCEPT ![v] = "race"]
    /\ UNCHANGED <<asking, toSrv, fromSrv, pending, fromOwner, gone, peer, streams, dialled>>

(* The provider's client: XtcpProxy::handle_nat_hole_client binds its      *)
(* listener, spawns its side of the race and answers, or answers an error. *)
HandleNatHoleClient(v) ==
    /\ v \in toOwner
    /\ toOwner' = toOwner \ {v}
    /\ \E ok \in BOOLEAN :
         /\ fromOwner' = fromOwner \cup {[v |-> v, ok |-> ok]}
         /\ owner' = [owner EXCEPT ![v] = IF ok THEN "race" ELSE "failed"]
    /\ UNCHANGED <<asking, toSrv, fromSrv, pending, gone, peer, streams, dialled>>

(* NatHoleController::handle_client_resp: forwarded to the visitor's run,  *)
(* which may be gone, or dropped when nobody is pending under the address. *)
HandleClientResp(m) ==
    /\ m \in fromOwner
    /\ fromOwner' = fromOwner \ {m} /\ pending' = pending \ {m.v}
    /\ fromSrv' = IF m.v \in pending /\ control THEN Append(fromSrv, m) ELSE fromSrv
    /\ UNCHANGED <<asking, toSrv, toOwner, gone, racing>>

(* handle_nathole_response: the answer goes to whoever is in the slot; the *)
(* address it carries is not compared.                                     *)
HandleNatHoleResp ==
    /\ control /\ fromSrv /= <<>>
    /\ fromSrv' = Tail(fromSrv) /\ slot' = None
    /\ LET m == Head(fromSrv) IN
       IF slot = None \/ vis[slot] /= "asking"
       THEN UNCHANGED <<vis, peer>>
       ELSE /\ vis' = [vis EXCEPT ![slot] = IF m.ok THEN "race" ELSE "error"]
            /\ peer' = IF m.ok THEN [peer EXCEPT ![slot] = m.v] ELSE peer
    /\ UNCHANGED <<cmds, control, late, toSrv, pending, toOwner, fromOwner, gone, owner, streams, dialled>>

-----------------------------------------------------------------------------
(* The race.  A connect succeeds when the other side's listener is bound,  *)
(* accepted or not, and reachable; otherwise it is refused or times out.   *)
VisitorListens(v) == vis[v] \in {"asking", "race"}
OwnerListens(v) == owner[v] = "race"

OwnerDials(v) ==
    /\ owner[v] = "race" /\ <<"ov", v>> \notin dialled
    /\ dialled' = dialled \cup {<<"ov", v>>}
    /\ streams' = IF "ov" \in Paths /\ VisitorListens(v)
                  THEN streams \cup {<<"ov", v, v>>} ELSE streams
    /\ UNCHANGED <<asking, wires, owner, peer>>

VisitorDials(v) ==
    /\ vis[v] = "race" /\ <<"vo", v>> \notin dialled
    /\ dialled' = dialled \cup {<<"vo", v>>}
    /\ streams' = IF "vo" \in Paths /\ OwnerListens(peer[v])
                  THEN streams \cup {<<"vo", v, peer[v]>>} ELSE streams
    /\ UNCHANGED <<asking, wires, owner, peer>>

(* race_peer_stream on the provider: the first of connect_task and         *)
(* accept_task to finish decides, also when what it finished with is an    *)
(* error, and the other is aborted.                                        *)
OwnerDecides(v) ==
    /\ owner[v] = "race"
    /\ \/ /\ <<"ov", v>> \in dialled
          /\ owner' = [owner EXCEPT ![v] = IF <<"ov", v, v>> \in streams THEN "ov" ELSE "failed"]
       \/ /\ \E w \in Visitors : <<"vo", w, v>> \in streams
          /\ owner' = [owner EXCEPT ![v] = "vo"]
    /\ UNCHANGED <<asking, wires, peer, streams, dialled>>

(* The same choice in run_xtcp_visitor, then the fallback.                 *)
AfterFailure == IF Relay THEN "relay" ELSE "error"


VisitorDecides(v) ==
    /\ vis[v] = "race"
    /\ \/ /\ <<"vo", v>> \in dialled
          /\ vis' = [vis EXCEPT ![v] = IF <<"vo", v, peer[v]>> \in streams THEN "vo" ELSE AfterFailure]
       \/ /\ <<"ov", v, v>> \in streams
          /\ vis' = [vis EXCEPT ![v] = "ov"]
    /\ UNCHANGED <<cmds, slot, control, late, wires, racing>>

Next ==
    \/ OpenXtcp \/ ControlLost \/ HandleVisitor \/ HandleNatHoleResp
    \/ \E m \in fromOwner : HandleClientResp(m)
    \/ \E v \in Visitors :
         \/ Accept(v) \/ RequestTimeout(v) \/ OwnerLost(v) \/ HandleNatHoleClient(v)
         \/ OwnerDials(v) \/ VisitorDials(v) \/ OwnerDecides(v) \/ VisitorDecides(v)

Spec == Init /\ [][Next]_vars

(* Timers fire, messages are delivered and handled, connects finish.       *)
Fairness ==
    /\ WF_vars(OpenXtcp) /\ WF_vars(HandleVisitor) /\ WF_vars(HandleNatHoleResp)
    /\ WF_vars(\E m \in fromOwner : HandleClientResp(m))
    /\ \A v \in Visitors :
         /\ WF_vars(RequestTimeout(v)) /\ WF_vars(HandleNatHoleClient(v))
         /\ WF_vars(OwnerDials(v)) /\ WF_vars(VisitorDials(v))
         /\ WF_vars(OwnerDecides(v)) /\ WF_vars(VisitorDecides(v))

FairSpec == Spec /\ Fairness

-----------------------------------------------------------------------------
(* A visitor is sent to the provider it asked for, although an answer is   *)
(* handed to whoever is in the slot: as long as no request times out, the  *)
(* slot and the order of the control connection pair answers and requests. *)
PeerIsOwn == ~late => \A v \in Visitors : peer[v] \in {None, v}

(* The server's pending map holds a request only while its owner is about  *)
(* to hear of it or to answer it, except for the entries left behind by    *)
(* owners whose control connection ended: those are never removed.         *)
PendingIsAnswered ==
    \A v \in pending : v \in gone \/ v \in toOwner \/ \E m \in fromOwner : m.v = v

=============================================================================
