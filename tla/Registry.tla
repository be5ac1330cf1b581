------------------------------ MODULE Registry ------------------------------
(***************************************************************************)
(* Proxy registration, takeover and cleanup on the server: the tables of   *)
(* ControlManager, ProxyManager and ResourceController, and the task of    *)
(* each login.                                                             *)
(*                                                                         *)
(* A run is one login of a client.  Its task handles one message at a time *)
(* (Control::run); when that loop returns the task unregisters the proxies *)
(* of the run and removes its Control (handle_login).  Tasks interleave at *)
(* awaits and, in a scene with several worker threads, between any two     *)
(* operations on a table.                                                  *)
(***************************************************************************)
EXTENDS Naturals, FiniteSets

CONSTANTS
    Runs,           \* logins, each with a fresh run_id
    ClientOf,       \* the client_id a run logged in with; NoClient for an empty one
    NoClient,
    Names,          \* proxy names
    SuffixOf,       \* SuffixOf[n]: the names m whose key "run:m" ends with ":n"
    Ids,            \* tell apart the proxies of one key that exist together
    Scenes,         \* what may happen: who logs in, what is offered, on how many threads
    None

Types == {"tcp", "stcp", "xtcp", "http"}

\* In a scene the runs log in, the admin API may shut down those in kicked,
\* NewProxy messages ask for one of the offers (port 0: none), and with threads
\* tasks interleave between awaits as well.
ASSUME SceneAssumption ==
    Scenes \subseteq [runs : SUBSET Runs, kicked : SUBSET Runs,
                      offers : SUBSET [type : Types, port : 0..65535], threads : BOOLEAN]
ASSUME ClientAssumption == DOMAIN ClientOf = Runs
ASSUME SuffixAssumption == /\ SuffixOf \in [Names -> SUBSET Names]
                           /\ \A n \in Names : n \in SuffixOf[n]
ASSUME IdAssumption == Ids \subseteq Nat
ASSUME NoneAssumption == None \notin Runs

VARIABLES
    scene,      \* the scene being played
    controls,   \* ControlManager.controls: the runs it lists
    cancelled,  \* the runs whose cancellation token was triggered
    online,     \* the runs whose control connection is alive
    proxies,    \* ProxyManager.proxies
    records,    \* ProxyManager.records: the keys the admin API shows
    ports,      \* ResourceController.tcp_ports
    stcpReg,    \* stcp_registry, as pairs <<name, run>>
    xtcpReg,    \* xtcp_registry, as pairs <<name, run>>
    listeners,  \* the listeners of proxies, each with the state of its accept loop
    task        \* the task of each run: where it is, and its locals

tables == <<proxies, records, ports, stcpReg, xtcpReg>>
vars == <<scene, controls, cancelled, online, tables, listeners, task>>

\* What ProxyManager knows of a proxy p; its key is the run and the name.
Key(p) == <<p.run, p.name>>

\* The locals of a task.  new: the proxy a NewProxy message asks for; owner: the
\* run it is taken from; victim: the proxy being closed; next: where the task
\* goes once it is closed.
AtRest(l) == [at |-> l, new |-> None, owner |-> None, victim |-> None, next |-> "select"]

Init ==
    /\ scene \in Scenes
    /\ controls = {} /\ cancelled = {} /\ online = {}
    /\ proxies = {} /\ records = {} /\ ports = {}
    /\ stcpReg = {} /\ xtcpReg = {}
    /\ listeners = {}
    /\ task = [r \in Runs |-> AtRest("new")]

\* The proxies that tasks at one of the labels are closing, or are creating.
ClosingAt(labels) == {task[r].victim : r \in {r \in Runs : task[r].at \in labels}}
CreatingAt(labels) == {task[r].new : r \in {r \in Runs : task[r].at \in labels}}

-----------------------------------------------------------------------------
(***************************************************************************)
(* Scheduling                                                              *)
(***************************************************************************)

\* Closing a proxy with a listener waits for its accept loop to end.
HasListener(p) == p.port # 0

\* The task of s is suspended in an await, or it does not run.
Yielded(s) == \/ task[s].at \in {"new", "login", "select", "cleanup", "gone"}
              \/ task[s].at = "close" /\ HasListener(task[s].victim)

\* The task of r, which is at l, runs.
Turn(r, l) == task[r].at = l /\ (scene.threads \/ \A s \in Runs \ {r} : Yielded(s))

\* The accept loop of a listener, a task of its own, runs.
LoopTurn == scene.threads \/ \A s \in Runs : Yielded(s)

Goto(r, l) == task' = [task EXCEPT ![r].at = l]

\* The handler or the task is done with its locals.
Rest(r, l) == task' = [task EXCEPT ![r] = AtRest(l)]

\* handle_new_proxy sends its NewProxyResp and returns to the select loop.
Reply(r) == Rest(r, "select")

-----------------------------------------------------------------------------
(***************************************************************************)
(* handle_login and the select loop                                        *)
(***************************************************************************)

\* verify_login succeeded and LoginResp is sent.
Login(r) ==
    /\ Turn(r, "new") /\ r \in scene.runs
    /\ Goto(r, "login")
    /\ online' = online \cup {r}
    /\ UNCHANGED <<controls, cancelled, tables, listeners>>

\* control_manager.add, then Control::run.
AddControl(r) ==
    /\ Turn(r, "login")
    /\ controls' = controls \cup {r}
    /\ Goto(r, "select")
    /\ UNCHANGED <<cancelled, online, tables, listeners>>

\* The connection of r ends, or the client falls silent past heartbeat_timeout.
Disconnect(r) ==
    /\ r \in online
    /\ online' = online \ {r}
    /\ UNCHANGED <<controls, cancelled, tables, listeners, task>>

\* The admin API shuts a client down (api_client_shutdown, shutdown_run).
AdminShutdown(r) ==
    /\ r \in controls \cap scene.kicked
    /\ controls' = controls \ {r}
    /\ cancelled' = cancelled \cup {r}
    /\ UNCHANGED <<online, tables, listeners, task>>

\* Control::run returns.
EndRun(r) ==
    /\ Turn(r, "select")
    /\ r \in cancelled \/ r \notin online
    /\ Rest(r, "cleanup")
    /\ online' = online \ {r}
    /\ UNCHANGED <<controls, cancelled, tables, listeners>>

-----------------------------------------------------------------------------
(***************************************************************************)
(* Closing a proxy: out of proxies, out of records, then close()           *)
(***************************************************************************)

Owned(r) == {p \in proxies : p.run = r}

\* proxies.remove(key) by the task of r, which goes to next once p is closed.
Remove(r, p, next) ==
    /\ proxies' = proxies \ {p}
    /\ task' = [task EXCEPT ![r].victim = p, ![r].next = next, ![r].at = "unlist"]

\* handle_close_proxy: unregister_proxy.
CloseProxy(r, n) ==
    /\ Turn(r, "select")
    /\ r \in online
    /\ \E p \in Owned(r) : p.name = n /\ Remove(r, p, "select")
    /\ UNCHANGED <<controls, cancelled, online, records, ports, stcpReg, xtcpReg, listeners>>

\* unregister_run_proxies takes the keys of the run one after the other.
CleanupOne(r) ==
    /\ Turn(r, "cleanup")
    /\ \E p \in Owned(r) : Remove(r, p, "cleanup")
    /\ UNCHANGED <<controls, cancelled, online, records, ports, stcpReg, xtcpReg, listeners>>

\* Mutant: the Control is removed while proxies of the run are still registered.
MutCleanupDone(r) ==
    /\ Turn(r, "cleanup")
    /\ controls' = controls \ {r}
    /\ Rest(r, "gone")
    /\ UNCHANGED <<cancelled, online, tables, listeners>>

\* control_manager.remove, and the login task is over.
CleanupDone(r) ==
    /\ Turn(r, "cleanup")
    /\ Owned(r) = {}
    /\ controls' = controls \ {r}
    /\ Rest(r, "gone")
    /\ UNCHANGED <<cancelled, online, tables, listeners>>

\* shutdown_tx.send: the accept loop of p is told to stop.  One that has not
\* subscribed yet misses the signal, which nobody repeats; one that failed is over.
Told(p) ==
    LET state(l) == IF l.is = "accepting" THEN "shut" ELSE "deaf"
    IN {l \in listeners : l.of # p}
       \cup {[of |-> p, is |-> state(l)] : l \in {l \in listeners : l.of = p /\ l.is # "failed"}}

\* Mutant: the record stays.
MutUnlist(r) ==
    /\ Turn(r, "unlist")
    /\ listeners' = Told(task[r].victim)
    /\ Goto(r, "close")
    /\ UNCHANGED <<controls, cancelled, online, tables>>

\* records.remove(key), and close() begins with the shutdown signal.  (Nothing
\* reads both: they are one step.)
Unlist(r) ==
    /\ Turn(r, "unlist")
    /\ records' = records \ {Key(task[r].victim)}
    /\ listeners' = Told(task[r].victim)
    /\ Goto(r, "close")
    /\ UNCHANGED <<controls, cancelled, online, proxies, ports, stcpReg, xtcpReg>>

\* The accept loop has ended, or 3 s have passed and the listener may still be
\* open: the port is released.
Close(r) ==
    /\ Turn(r, "close")
    /\ ports' = ports \ {task[r].victim.port}
    /\ Goto(r, "forget")
    /\ UNCHANGED <<controls, cancelled, online, proxies, records, stcpReg, xtcpReg, listeners>>

\* What a registry holds for other names than n.
Without(reg, n) == {e \in reg : e[1] # n}

\* Mutant: close() of a xtcp proxy only closes the relay.
MutForget(r) ==
    /\ Turn(r, "forget")
    /\ LET p == task[r].victim
       IN stcpReg' = IF p.type = "stcp" THEN Without(stcpReg, p.name) ELSE stcpReg
    /\ task' = [task EXCEPT ![r] = IF @.next = "supersede"
                                   THEN [@ EXCEPT !.at = "supersede", !.victim = None]
                                   ELSE AtRest(@.next)]
    /\ UNCHANGED <<controls, cancelled, online, proxies, records, ports, xtcpReg, listeners>>

\* The rest of close(): a stcp or xtcp proxy removes its name from the registry.
Forget(r) ==
    /\ Turn(r, "forget")
    /\ LET p == task[r].victim
       IN /\ stcpReg' = IF p.type = "stcp" THEN Without(stcpReg, p.name) ELSE stcpReg
          /\ xtcpReg' = IF p.type = "xtcp" THEN Without(xtcpReg, p.name) ELSE xtcpReg
    /\ task' = [task EXCEPT ![r] = IF @.next = "supersede"
                                   THEN [@ EXCEPT !.at = "supersede", !.victim = None]
                                   ELSE AtRest(@.next)]
    /\ UNCHANGED <<controls, cancelled, online, proxies, records, ports, listeners>>

-----------------------------------------------------------------------------
(***************************************************************************)
(* handle_new_proxy: takeover                                              *)
(***************************************************************************)

\* Somebody has, or a listener belongs to, the proxy p.
InUse(p) == p \in proxies \cup {task[s].new : s \in Runs} \cup {task[s].victim : s \in Runs}
                  \cup {l.of : l \in listeners}

\* The select loop receives NewProxy.
NewProxy(r, n, o) ==
    /\ Turn(r, "select")
    /\ r \in online
    /\ LET new(i) == [run |-> r, name |-> n, type |-> o.type, port |-> o.port, id |-> i]
       IN \E i \in Ids : /\ ~InUse(new(i))
                         /\ \A j \in Ids : j < i => InUse(new(j))
                         /\ task' = [task EXCEPT ![r] = [AtRest("find") EXCEPT !.new = new(i)]]
    /\ UNCHANGED <<controls, cancelled, online, tables, listeners>>

\* find_proxy_owner: a listed run with a proxy of this name.
Owners(n) == {s \in controls : \E p \in Owned(s) : p.name = n}

SameClient(r, s) == ClientOf[r] = ClientOf[s] /\ ClientOf[r] # NoClient

\* Mutant: whoever asks takes the name over.
MutFindOwner(r) ==
    /\ Turn(r, "find")
    /\ LET owners == Owners(task[r].new.name)
       IN \/ (owners = {} \/ r \in owners) /\ Goto(r, "authorize")
          \/ \E s \in owners \ {r} : task' = [task EXCEPT ![r].owner = s, ![r].at = "evict"]
    /\ UNCHANGED <<controls, cancelled, online, tables, listeners>>

FindOwner(r) ==
    /\ Turn(r, "find")
    /\ LET owners == Owners(task[r].new.name)
       IN \/ /\ owners = {} \/ r \in owners
             /\ Goto(r, "authorize")
          \/ \E s \in owners \ {r} :
                \/ SameClient(r, s) /\ task' = [task EXCEPT ![r].owner = s, ![r].at = "evict"]
                \/ ~SameClient(r, s) /\ Reply(r)
    /\ UNCHANGED <<controls, cancelled, online, tables, listeners>>

\* evict_proxy_by_name picks a key that ends with the name, whosever it is.
Evict(r) ==
    /\ Turn(r, "evict")
    /\ LET found == {p \in proxies : p.name \in SuffixOf[task[r].new.name]}
       IN \/ \E p \in found : task' = [task EXCEPT ![r].victim = p, ![r].at = "remove"]
          \/ found = {} /\ Goto(r, "authorize")
    /\ UNCHANGED <<controls, cancelled, online, tables, listeners>>

\* It removes that key, unless another task just did.
RemoveEvicted(r) ==
    /\ Turn(r, "remove")
    /\ LET same == {p \in proxies : Key(p) = Key(task[r].victim)}
       IN \/ \E p \in same : Remove(r, p, "supersede")
          \/ same = {} /\ Goto(r, "supersede") /\ UNCHANGED proxies
    /\ UNCHANGED <<controls, cancelled, online, records, ports, stcpReg, xtcpReg, listeners>>

\* It cleans the xtcp registry, and shutdown_run removes and cancels the owner.
SupersedeOwner(r) ==
    /\ Turn(r, "supersede")
    /\ xtcpReg' = Without(xtcpReg, task[r].new.name)
    /\ controls' = controls \ {task[r].owner}
    /\ cancelled' = cancelled \cup ({task[r].owner} \cap controls)
    /\ task' = [task EXCEPT ![r].owner = None, ![r].at = "authorize"]
    /\ UNCHANGED <<online, proxies, records, ports, stcpReg, listeners>>

-----------------------------------------------------------------------------
(***************************************************************************)
(* handle_new_proxy: register_proxy                                        *)
(***************************************************************************)

\* The key, the port or the name is taken.
Conflict(p) ==
    \/ \E q \in proxies : Key(q) = Key(p)
    \/ p.port \in ports
    \/ p.type = "stcp" /\ \E e \in stcpReg : e[1] = p.name
    \/ p.type = "xtcp" /\ \E e \in xtcpReg : e[1] = p.name

\* authorize_proxy accepts or refuses the message.
Authorize(r) ==
    /\ Turn(r, "authorize")
    /\ Goto(r, "register") \/ Reply(r)
    /\ UNCHANGED <<controls, cancelled, online, tables, listeners>>

\* The checks of register_proxy and allocate_tcp_port.
Register(r) ==
    /\ Turn(r, "register")
    /\ IF Conflict(task[r].new) THEN Reply(r) ELSE Goto(r, "allocate")
    /\ UNCHANGED <<controls, cancelled, online, tables, listeners>>

\* tcp_ports.insert
Allocate(r) ==
    /\ Turn(r, "allocate")
    /\ ports' = ports \cup ({task[r].new.port} \ {0})
    /\ Goto(r, "bind")
    /\ UNCHANGED <<controls, cancelled, online, proxies, records, stcpReg, xtcpReg, listeners>>

\* The ports that listeners of this server are bound to.
BoundPorts == {l.of.port : l \in {l \in listeners : l.is # "failed"}}

\* What Bind adds to the listeners for p.
Opened(p) == {l \in {[of |-> p, is |-> "bound"]} : p.port # 0}

\* Mutant: a failed bind keeps the port allocated.
MutBind(r) ==
    /\ Turn(r, "bind")
    /\ LET new == task[r].new
       IN \/ new.port # 0 /\ Reply(r) /\ UNCHANGED listeners
          \/ new.port \notin BoundPorts /\ listeners' = listeners \cup Opened(new) /\ Goto(r, "enter")
    /\ UNCHANGED <<controls, cancelled, online, tables>>

\* TcpListener::bind fails on a port in use, by this server or another program.
Bind(r) ==
    /\ Turn(r, "bind")
    /\ LET new == task[r].new
       IN \/ /\ new.port # 0
             /\ ports' = ports \ {new.port}
             /\ Reply(r)
             /\ UNCHANGED listeners
          \/ /\ new.port \notin BoundPorts
             /\ listeners' = listeners \cup Opened(new)
             /\ Goto(r, "enter")
             /\ UNCHANGED ports
    /\ UNCHANGED <<controls, cancelled, online, proxies, records, stcpReg, xtcpReg>>

\* The registry of a stcp or xtcp proxy gets its name.
Enter(r) ==
    /\ Turn(r, "enter")
    /\ LET p == task[r].new
           With(reg) == Without(reg, p.name) \cup {<<p.name, r>>}
       IN /\ stcpReg' = IF p.type = "stcp" THEN With(stcpReg) ELSE stcpReg
          /\ xtcpReg' = IF p.type = "xtcp" THEN With(xtcpReg) ELSE xtcpReg
    /\ Goto(r, "insert")
    /\ UNCHANGED <<controls, cancelled, online, proxies, records, ports, listeners>>

\* proxies.insert
Insert(r) ==
    /\ Turn(r, "insert")
    /\ proxies' = proxies \cup {task[r].new}
    /\ Goto(r, "record")
    /\ UNCHANGED <<controls, cancelled, online, records, ports, stcpReg, xtcpReg, listeners>>

\* records.insert, and the answer.
Record(r) ==
    /\ Turn(r, "record")
    /\ records' = records \cup {Key(task[r].new)}
    /\ Reply(r)
    /\ UNCHANGED <<controls, cancelled, online, proxies, ports, stcpReg, xtcpReg, listeners>>

-----------------------------------------------------------------------------
(***************************************************************************)
(* TcpProxy::run: the accept loop of a listener                            *)
(***************************************************************************)

\* The loop of l goes from one state to another.
LoopGoes(l, from, to) ==
    /\ LoopTurn /\ l.is \in from
    /\ listeners' = (listeners \ {l}) \cup {[of |-> l.of, is |-> to]}
    /\ UNCHANGED <<controls, cancelled, online, tables, task>>

\* register_proxy has spawned run(), which takes the listener and subscribes.
Subscribe(l) == l.of \notin CreatingAt({"enter"}) /\ LoopGoes(l, {"bound"}, "accepting")

\* accept() fails for good: the listener is gone, its proxy stays.
AcceptFails(l) == LoopGoes(l, {"accepting"}, "failed")

\* The loop hears the signal and ends, or a deaf one ends as accept() fails.
EndLoop(l) ==
    /\ LoopTurn /\ l.is \in {"shut", "deaf"}
    /\ listeners' = listeners \ {l}
    /\ UNCHANGED <<controls, cancelled, online, tables, task>>

LoopStep(l) == Subscribe(l) \/ AcceptFails(l) \/ EndLoop(l)

-----------------------------------------------------------------------------

TakeoverStep(r) == FindOwner(r) \/ Evict(r) \/ RemoveEvicted(r) \/ SupersedeOwner(r)

RegisterStep(r) == \/ Authorize(r) \/ Register(r) \/ Allocate(r) \/ Bind(r)
                   \/ Enter(r) \/ Insert(r) \/ Record(r)

CloseStep(r) == Unlist(r) \/ Close(r) \/ Forget(r)

CleanupStep(r) == CleanupOne(r) \/ CleanupDone(r)

\* The messages of the client.
Receive(r) == \/ \E n \in Names, o \in scene.offers : NewProxy(r, n, o)
              \/ \E n \in Names : CloseProxy(r, n)

Next == /\ \/ \E r \in Runs :
                 \/ Login(r) \/ AddControl(r) \/ Disconnect(r) \/ AdminShutdown(r) \/ EndRun(r)
                 \/ Receive(r) \/ TakeoverStep(r) \/ RegisterStep(r) \/ CloseStep(r) \/ CleanupStep(r)
           \/ \E l \in listeners : LoopStep(l)
        /\ UNCHANGED scene

Spec == Init /\ [][Next]_vars

-----------------------------------------------------------------------------
(***************************************************************************)
(* Properties                                                              *)
(***************************************************************************)

\* The proxies with an open listener they have not told to stop: those registered,
\* about to be registered, or just removed.
Registered == proxies \cup ClosingAt({"unlist"}) \cup CreatingAt({"enter", "insert"})

\* Those that hold a port of the table: also before bind(), and until close() is over.
Holders == {p \in Registered \cup ClosingAt({"close"}) \cup CreatingAt({"bind"}) : p.port # 0}

\* Ports and listeners follow the proxies (allocate_tcp_port, a failed bind and
\* close() write the table, each in a different task).  Whatever the threads, the
\* table holds only the ports of proxies that somebody will close, and a listener
\* that was not told to stop belongs to a proxy that somebody will close: one that
\* is open on a port the table calls free was told, and is ending or missed it.
\* While tasks yield only at awaits the table has the ports of all of them, no two
\* share a port, and each has its listener, unless accept() failed for good.
PortsMatchListeners ==
    LET untold == {l.of : l \in {l \in listeners : l.is \in {"bound", "accepting", "failed"}}}
    IN /\ ports \subseteq {p.port : p \in Holders}
       /\ untold \subseteq Registered
       /\ ~scene.threads =>
             /\ \A p \in Holders : p.port \in ports
             /\ \A p, q \in Holders : p.port = q.port => p = q
             /\ Registered \cap Holders \subseteq untold

\* The registries are right while tasks yield only at awaits: stcp_registry holds
\* a name, with the run visitors are sent to, as long as that run has a stcp proxy
\* of the name, and xtcp_registry keeps no name whose proxy is gone, which would
\* block that name for good ("already exists") and send visitors to a dead run.
NamesMatch == ~scene.threads =>
    LET alive == proxies \cup ClosingAt({"unlist", "close", "forget"}) \cup CreatingAt({"insert"})
        names(ps) == {<<p.name, p.run>> : p \in ps}
    IN /\ stcpReg = names({p \in alive : p.type = "stcp"})
       /\ xtcpReg \subseteq names(alive)

\* The records the admin API lists are the registered proxies, while tasks yield
\* only at awaits.  (With several threads an eviction between the two inserts of
\* register_proxy leaves a record behind.)
RecordsMatch == ~scene.threads =>
    records = {Key(p) : p \in (proxies \ CreatingAt({"record"})) \cup ClosingAt({"unlist"})}

\* Nothing leaks: once every login task is over the tables are empty again,
\* whoever closed, evicted or replaced which proxy on the way.
NothingLeaks ==
    (\A r \in Runs : task[r].at \in {"new", "gone"}) =>
       controls = {} /\ proxies = {} /\ ports = {} /\ stcpReg = {} /\ xtcpReg = {}

\* A task shuts down only runs of its own client (handle_new_proxy).
ShutdownSameClient ==
    [][\A r \in Runs : task[r] # task'[r] =>
          \A s \in cancelled' \ cancelled : SameClient(r, s)]_vars

\* A client that reconnects and registers the same proxy again takes it over:
\* register_proxy does not refuse it because an older run of the client has it.
TakeoverCompletes ==
    [][\A r \in Runs : task[r].at = "register" /\ task'[r].at = "select" =>
          ~\E p \in proxies : /\ p.run # r /\ SameClient(r, p.run)
                              /\ LET new == task[r].new
                                 IN [p EXCEPT !.run = r, !.id = new.id] = new]_vars
=============================================================================
