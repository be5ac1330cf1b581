--------------------------- MODULE RegistryProofs ---------------------------
(***************************************************************************)
(* Proofs about Registry for any number of runs, names and scenes: whose   *)
(* runs a takeover shuts down, and what the tables hold.                   *)
(***************************************************************************)
EXTENDS Registry, TLAPS

-----------------------------------------------------------------------------
(***************************************************************************)
(* Takeover.  The client is compared when the owner is found and the owner *)
(* is shut down several awaits later, after a proxy that may belong to     *)
(* somebody else has been closed: the task has to carry the owner along.   *)
(***************************************************************************)

\* The locals of a task are there.
TaskShape == /\ DOMAIN task = Runs
             /\ \A r \in Runs : DOMAIN task[r] = {"at", "new", "owner", "victim", "next"}

\* The owner a task carries is a run of its own client.
OwnerInv ==
    /\ controls \subseteq Runs
    /\ TaskShape
    /\ \A r \in Runs : task[r].owner = None \/ SameClient(r, task[r].owner)

\* A step that only drops owners.
LEMMA DropsOwners ==
  ASSUME OwnerInv, TaskShape', controls' \subseteq Runs,
         \A s \in Runs : task'[s].owner = task[s].owner \/ task'[s].owner = None
  PROVE  OwnerInv'
  BY DEF OwnerInv, SameClient

\* The ways a task goes on.
LEMMA GoesOn ==
  ASSUME TaskShape, NEW r \in Runs,
         \/ UNCHANGED task
         \/ \E l : Goto(r, l) \/ Rest(r, l)
         \/ \E p, l : Remove(r, p, l)
  PROVE  /\ TaskShape'
         /\ \A s \in Runs : task'[s].owner = task[s].owner \/ task'[s].owner = None
<1>1. CASE UNCHANGED task
  BY <1>1 DEF TaskShape
<1>2. ASSUME NEW l, Goto(r, l)
      PROVE  TaskShape' /\ \A s \in Runs : task'[s].owner = task[s].owner
  BY <1>2 DEF Goto, TaskShape
<1>3. ASSUME NEW l, Rest(r, l)
      PROVE  TaskShape' /\ \A s \in Runs : task'[s].owner = task[s].owner \/ task'[s].owner = None
  BY <1>3 DEF Rest, AtRest, TaskShape
<1>4. ASSUME NEW p, NEW l, Remove(r, p, l)
      PROVE  TaskShape' /\ \A s \in Runs : task'[s].owner = task[s].owner
  BY <1>4, ZenonT(60) DEF Remove, TaskShape
<1>. QED
  BY <1>1, <1>2, <1>3, <1>4

\* Each step of a task keeps the owners, and shuts down only the one it carries.
LEMMA OwnerStep ==
  ASSUME OwnerInv, [Next]_vars
  PROVE  /\ OwnerInv'
         /\ \A r \in Runs : task[r] # task'[r] => \A s \in cancelled' \ cancelled : SameClient(r, s)
<1>. DEFINE Allowed == \A r \in Runs : task[r] # task'[r] =>
                          \A s \in cancelled' \ cancelled : SameClient(r, s)
<1>0. TaskShape /\ controls \subseteq Runs
  BY DEF OwnerInv
<1>1. ASSUME NEW r \in Runs,
             \/ Login(r) \/ AddControl(r) \/ Disconnect(r) \/ EndRun(r)
             \/ Unlist(r) \/ Close(r) \/ CleanupStep(r) \/ RegisterStep(r)
             \/ \E n \in Names : CloseProxy(r, n)
      PROVE  OwnerInv' /\ Allowed
  <2>1. cancelled' = cancelled
    BY <1>1 DEF Login, AddControl, Disconnect, EndRun, Unlist, Close, CleanupStep,
                CleanupOne, CleanupDone, RegisterStep, Authorize, Register, Allocate, Bind, Enter,
                Insert, Record, CloseProxy
  <2>2. controls' \subseteq Runs
    BY <1>0, <1>1 DEF Login, AddControl, Disconnect, EndRun, Unlist, Close, CleanupStep,
                CleanupOne, CleanupDone, RegisterStep, Authorize, Register, Allocate, Bind, Enter,
                Insert, Record, CloseProxy
  <2>3. UNCHANGED task \/ (\E l : Goto(r, l) \/ Rest(r, l)) \/ (\E p, l : Remove(r, p, l))
    <3>1. CASE Login(r) \/ AddControl(r) \/ Disconnect(r) \/ EndRun(r) \/ Unlist(r) \/ Close(r)
      BY <3>1 DEF Login, AddControl, Disconnect, EndRun, Unlist, Close
    <3>2. CASE CleanupStep(r) \/ \E n \in Names : CloseProxy(r, n)
      BY <3>2 DEF CleanupStep, CleanupOne, CleanupDone, CloseProxy
    <3>3. CASE RegisterStep(r)
      <4>1. CASE Authorize(r) \/ Record(r)
        BY <4>1, Zenon DEF Authorize, Record, Reply
      <4>2. CASE Register(r)
        BY <4>2, Zenon DEF Register, Reply
      <4>3. CASE Bind(r)
        BY <4>3, Zenon DEF Bind, Reply
      <4>4. CASE Allocate(r) \/ Enter(r) \/ Insert(r)
        BY <4>4, Zenon DEF Allocate, Enter, Insert
      <4>. QED
        BY <3>3, <4>1, <4>2, <4>3, <4>4 DEF RegisterStep
    <3>. QED
      BY <1>1, <3>1, <3>2, <3>3, Zenon
  <2>. QED
    BY <1>0, <2>1, <2>2, <2>3, GoesOn, DropsOwners
<1>2. ASSUME NEW r \in Runs, Forget(r) PROVE OwnerInv' /\ Allowed
  <2>1. cancelled' = cancelled /\ controls' = controls
    BY <1>2 DEF Forget
  <2>2. TaskShape' /\ \A s \in Runs : task'[s].owner = task[s].owner \/ task'[s].owner = None
    BY <1>0, <1>2 DEF Forget, AtRest, TaskShape
  <2>. QED
    BY <1>0, <2>1, <2>2, DropsOwners
<1>3. ASSUME NEW r \in Runs, NEW n \in Names, NEW o \in scene.offers, NewProxy(r, n, o)
      PROVE  OwnerInv' /\ Allowed
  <2>1. cancelled' = cancelled /\ controls' = controls
    BY <1>3 DEF NewProxy
  <2>2. TaskShape' /\ \A s \in Runs : task'[s].owner = task[s].owner \/ task'[s].owner = None
    BY <1>0, <1>3 DEF NewProxy, AtRest, TaskShape
  <2>. QED
    BY <1>0, <2>1, <2>2, DropsOwners
<1>4. ASSUME NEW r \in Runs, FindOwner(r) PROVE OwnerInv' /\ Allowed
  <2>1. cancelled' = cancelled /\ controls' = controls
    BY <1>4 DEF FindOwner
  <2>2. CASE \E l : Goto(r, l) \/ Rest(r, l)
    BY <1>0, <2>1, <2>2, GoesOn, DropsOwners
  <2>3. ASSUME NEW s, SameClient(r, s), task' = [task EXCEPT ![r].owner = s, ![r].at = "evict"]
        PROVE  OwnerInv'
    <3>1. TaskShape'
      BY <1>0, <2>3 DEF TaskShape
    <3>2. task'[r].owner = s /\ \A t \in Runs \ {r} : task'[t].owner = task[t].owner
      BY <1>0, <2>3 DEF TaskShape
    <3>. QED
      BY <2>1, <2>3, <3>1, <3>2, Zenon DEF OwnerInv, SameClient
  <2>. QED
    BY <1>4, <2>1, <2>2, <2>3, Zenon DEF FindOwner, Reply
<1>5. ASSUME NEW r \in Runs, Evict(r) \/ RemoveEvicted(r) PROVE OwnerInv' /\ Allowed
  <2>1. cancelled' = cancelled /\ controls' = controls
    BY <1>5 DEF Evict, RemoveEvicted
  <2>2. TaskShape' /\ \A s \in Runs : task'[s].owner = task[s].owner
    <3>1. ASSUME NEW p, task' = [task EXCEPT ![r].victim = p, ![r].at = "remove"]
          PROVE  TaskShape' /\ \A s \in Runs : task'[s].owner = task[s].owner
      BY <1>0, <3>1 DEF TaskShape
    <3>2. ASSUME NEW l, Goto(r, l)
          PROVE  TaskShape' /\ \A s \in Runs : task'[s].owner = task[s].owner
      BY <1>0, <3>2 DEF Goto, TaskShape
    <3>3. ASSUME NEW p, NEW l, Remove(r, p, l)
          PROVE  TaskShape' /\ \A s \in Runs : task'[s].owner = task[s].owner
      BY <1>0, <3>3 DEF Remove, TaskShape
    <3>4. CASE Evict(r)
      BY <3>1, <3>2, <3>4 DEF Evict
    <3>5. CASE RemoveEvicted(r)
      BY <3>2, <3>3, <3>5 DEF RemoveEvicted
    <3>. QED
      BY <1>5, <3>4, <3>5
  <2>. QED
    BY <1>0, <2>1, <2>2, DropsOwners
<1>6. ASSUME NEW r \in Runs, SupersedeOwner(r) PROVE OwnerInv' /\ Allowed
  <2>1. TaskShape' /\ \A s \in Runs : task'[s].owner = task[s].owner \/ task'[s].owner = None
    BY <1>0, <1>6 DEF SupersedeOwner, TaskShape
  <2>2. controls' \subseteq Runs /\ cancelled' \ cancelled \subseteq {task[r].owner} \cap Runs
    BY <1>0, <1>6 DEF SupersedeOwner
  <2>3. \A s \in cancelled' \ cancelled : SameClient(r, s)
    BY <2>2, NoneAssumption DEF OwnerInv
  <2>4. \A t \in Runs \ {r} : task'[t] = task[t]
    BY <1>0, <1>6 DEF SupersedeOwner, TaskShape
  <2>. QED
    BY <2>1, <2>2, <2>3, <2>4, DropsOwners
<1>7. ASSUME NEW r \in Runs, AdminShutdown(r) PROVE OwnerInv' /\ Allowed
  BY <1>7 DEF AdminShutdown, OwnerInv, TaskShape, SameClient
<1>8. CASE UNCHANGED vars
  BY <1>8 DEF vars, OwnerInv, TaskShape, SameClient
<1>9. ASSUME NEW l \in listeners, LoopStep(l) PROVE OwnerInv' /\ Allowed
  BY <1>9 DEF LoopStep, LoopGoes, Subscribe, AcceptFails, EndLoop, OwnerInv, TaskShape, SameClient
<1>. QED
  BY <1>1, <1>2, <1>3, <1>4, <1>5, <1>6, <1>7, <1>8, <1>9 DEF Next, Receive, TakeoverStep, CloseStep

\* A task shuts down only runs that logged in with the client_id of its own run
\* (handle_new_proxy, shutdown_run).
THEOREM TakeoverIsOwn == Spec => ShutdownSameClient
<1>1. Init => OwnerInv
  BY DEF Init, AtRest, OwnerInv, TaskShape
<1>2. OwnerInv /\ [Next]_vars => OwnerInv'
  BY OwnerStep
<1>3. OwnerInv /\ [Next]_vars
        => [\A r \in Runs : task[r] # task'[r] =>
               \A s \in cancelled' \ cancelled : SameClient(r, s)]_vars
  BY OwnerStep
<1>. QED
  BY <1>1, <1>2, <1>3, PTL DEF Spec, ShutdownSameClient

-----------------------------------------------------------------------------
(***************************************************************************)
(* The tables.  A proxy is in somebody's hands from the moment a table     *)
(* knows of it: in those of the task that creates it, then in the proxies  *)
(* table, then in those of the task that closes it.  The invariants say    *)
(* what a table holds in terms of who has which proxy.                     *)
(***************************************************************************)

Resting == {"new", "login", "select", "cleanup", "gone"}
Creating == {"find", "evict", "remove", "supersede", "authorize", "register",
             "allocate", "bind", "enter", "insert", "record"}
Closing == {"unlist", "close", "forget"}

\* The locals a task has at its label.
LocalsFit(r, t) ==
    /\ t.at \in Resting \cup Creating \cup Closing
    /\ t.next \in {"select", "cleanup", "supersede"}
    /\ t.at \in Creating \/ (t.at \in Closing /\ t.next = "supersede") => t.new.run = r
    /\ t.at \in Closing \cup {"remove"} => t.victim.run \in Runs

TypeInv ==
    /\ controls \subseteq Runs
    /\ (\A p \in proxies : p.run \in Runs)
    /\ TaskShape
    /\ \A r \in Runs : LocalsFit(r, task[r])

\* While tasks yield only at awaits one of them is between awaits.
Solo == ~scene.threads => \A r, s \in Runs : ~Yielded(r) /\ ~Yielded(s) => r = s

\* A run that is listed, or has a proxy, has logged in and is not over.
Living(r) == task[r].at \notin {"new", "login", "gone"}
LifeInv == (\A r \in controls : Living(r)) /\ (\A p \in proxies : Living(p.run))

\* Who has which proxy: the table (None), the tasks that close one, at the labels
\* ls, and those that create one, at the labels cs.
Hand(r, t, ls, cs) == {h \in {<<r, t.victim>>} : t.at \in ls} \cup {h \in {<<r, t.new>>} : t.at \in cs}
Hands(ls, cs) == {<<None, p>> : p \in proxies} \cup UNION {Hand(r, task[r], ls, cs) : r \in Runs}

PortHands == Hands({"unlist", "close"}, {"bind", "enter", "insert"})
NameHands == Hands({"unlist", "close", "forget"}, {"insert"})

\* Every port in P, and every entry of reg, is that of a proxy somebody has.
PortsHeld(P, H) == \A n \in P : n # 0 /\ \E h \in H : h[2].port = n
NamesHeld(reg, H, type) == \A e \in reg : \E h \in H : h[2].type = type /\ e = <<h[2].name, h[2].run>>

\* Whoever has a proxy has its port in P, or its name in reg, to itself.
PortsOwn(P, H) ==
    /\ \A h \in H : h[2].port # 0 => h[2].port \in P
    /\ \A h, k \in H : h[2].port # 0 /\ h[2].port = k[2].port => h = k
NamesOwn(reg, H) ==
    /\ \A h \in H : h[2].type = "stcp" => <<h[2].name, h[2].run>> \in reg
    /\ \A h, k \in H : h[2].type = "stcp" /\ k[2].type = "stcp" /\ h[2].name = k[2].name => h = k

CoverInv ==
    /\ PortsHeld(ports, PortHands)
    /\ NamesHeld(stcpReg, NameHands, "stcp") /\ NamesHeld(xtcpReg, NameHands, "xtcp")

\* What register_proxy found free is free still when it is taken.
FreeFor(r) ==
    /\ task[r].at = "allocate" => task[r].new.port \notin ports
    /\ task[r].at \in {"allocate", "bind", "enter"} /\ task[r].new.type = "stcp" =>
          \A e \in stcpReg : e[1] # task[r].new.name

ExactInv == ~scene.threads =>
    /\ PortsOwn(ports, PortHands) /\ NamesOwn(stcpReg, NameHands)
    /\ \A r \in Runs : FreeFor(r)

\* A key is in proxies once, and only the run itself puts it there.
KeyInv ==
    /\ \A p, q \in proxies : Key(p) = Key(q) => p = q
    /\ \A r \in Runs : task[r].at \in {"allocate", "bind", "enter", "insert"} =>
          \A p \in proxies : Key(p) # Key(task[r].new)

RecordInv == ~scene.threads =>
    /\ RecordsMatch
    /\ \A r \in Runs :
          /\ task[r].at = "record" => task[r].new \in proxies
          /\ task[r].at = "unlist" => \A p \in proxies : Key(p) # Key(task[r].victim)

\* A proxy goes from one hand to another.
Moved(H, x, y) == (H \ {x}) \cup {y}

LEMMA Transfer ==
  ASSUME NEW H, NEW x \in H, NEW y, y[2] = x[2]
  PROVE  /\ \A P : PortsHeld(P, H) => PortsHeld(P, Moved(H, x, y))
         /\ \A P : PortsOwn(P, H) => PortsOwn(P, Moved(H, x, y))
         /\ \A reg, type : NamesHeld(reg, H, type) => NamesHeld(reg, Moved(H, x, y), type)
         /\ \A reg : NamesOwn(reg, H) => NamesOwn(reg, Moved(H, x, y))
<1>1. ASSUME NEW P, PortsHeld(P, H) PROVE PortsHeld(P, Moved(H, x, y))
  BY <1>1 DEF PortsHeld, Moved
<1>2. ASSUME NEW P, PortsOwn(P, H) PROVE PortsOwn(P, Moved(H, x, y))
  BY <1>2 DEF PortsOwn, Moved
<1>3. ASSUME NEW reg, NEW type, NamesHeld(reg, H, type) PROVE NamesHeld(reg, Moved(H, x, y), type)
  BY <1>3 DEF NamesHeld, Moved
<1>4. ASSUME NEW reg, NamesOwn(reg, H) PROVE NamesOwn(reg, Moved(H, x, y))
  BY <1>4 DEF NamesOwn, Moved
<1>. QED
  BY <1>1, <1>2, <1>3, <1>4

\* A port is taken, and released.
LEMMA TakePort ==
  ASSUME NEW P, NEW H, NEW y, NEW G, G = H \cup {y}, NEW Q, Q = P \cup ({y[2].port} \ {0})
  PROVE  /\ PortsHeld(P, H) => PortsHeld(Q, G)
         /\ PortsOwn(P, H) /\ y[2].port \notin P => PortsOwn(Q, G)
<1>1. ASSUME PortsHeld(P, H) PROVE PortsHeld(Q, G)
  BY <1>1 DEF PortsHeld
<1>2. ASSUME PortsOwn(P, H), y[2].port \notin P PROVE PortsOwn(Q, G)
  BY <1>2 DEF PortsOwn
<1>. QED
  BY <1>1, <1>2

LEMMA ReleasePort ==
  ASSUME NEW P, NEW H, NEW x \in H, NEW G, G = H \ {x}, NEW Q, Q = P \ {x[2].port}
  PROVE  /\ PortsHeld(P, H) => PortsHeld(Q, G)
         /\ PortsOwn(P, H) => PortsOwn(Q, G)
<1>1. ASSUME PortsHeld(P, H) PROVE PortsHeld(Q, G)
  BY <1>1 DEF PortsHeld
<1>2. ASSUME PortsOwn(P, H) PROVE PortsOwn(Q, G)
  BY <1>2 DEF PortsOwn
<1>. QED
  BY <1>1, <1>2

\* The proxies of other types do not matter to a registry.
LEMMA OtherType ==
  ASSUME NEW reg, NEW H, NEW x, NEW type, x[2].type # type
  PROVE  /\ NamesHeld(reg, H, type) => NamesHeld(reg, H \cup {x}, type) /\ NamesHeld(reg, H \ {x}, type)
         /\ NamesOwn(reg, H) /\ type = "stcp" => NamesOwn(reg, H \cup {x}) /\ NamesOwn(reg, H \ {x})
<1>1. ASSUME NamesHeld(reg, H, type)
      PROVE  NamesHeld(reg, H \cup {x}, type) /\ NamesHeld(reg, H \ {x}, type)
  BY <1>1 DEF NamesHeld
<1>2. ASSUME NamesOwn(reg, H), type = "stcp"
      PROVE  NamesOwn(reg, H \cup {x}) /\ NamesOwn(reg, H \ {x})
  BY <1>2 DEF NamesOwn
<1>. QED
  BY <1>1, <1>2

\* A name is entered, and forgotten.
Entered(reg, p) == Without(reg, p.name) \cup {<<p.name, p.run>>}

LEMMA EnterName ==
  ASSUME NEW reg, NEW H, NEW y
  PROVE  /\ \A type : NamesHeld(reg, H, type) /\ y[2].type = type =>
               NamesHeld(Entered(reg, y[2]), H \cup {y}, type)
         /\ NamesOwn(reg, H) /\ (\A e \in reg : e[1] # y[2].name) =>
               NamesOwn(Entered(reg, y[2]), H \cup {y})
<1>1. ASSUME NEW type, NamesHeld(reg, H, type), y[2].type = type
      PROVE  NamesHeld(Entered(reg, y[2]), H \cup {y}, type)
  BY <1>1, Zenon DEF NamesHeld, Without, Entered
<1>2. ASSUME NamesOwn(reg, H), \A e \in reg : e[1] # y[2].name
      PROVE  NamesOwn(Entered(reg, y[2]), H \cup {y})
  <2>1. Entered(reg, y[2]) = reg \cup {<<y[2].name, y[2].run>>}
    BY <1>2 DEF Without, Entered
  <2>2. \A h \in H : h[2].type = "stcp" => h[2].name # y[2].name
    BY <1>2, Zenon DEF NamesOwn
  <2>. QED
    BY <1>2, <2>1, <2>2 DEF NamesOwn
<1>. QED
  BY <1>1, <1>2

LEMMA ForgetName ==
  ASSUME NEW reg, NEW H, NEW x \in H
  PROVE  /\ \A type : NamesHeld(reg, H, type) => NamesHeld(Without(reg, x[2].name), H \ {x}, type)
         /\ NamesOwn(reg, H) /\ x[2].type = "stcp" => NamesOwn(Without(reg, x[2].name), H \ {x})
<1>1. ASSUME NEW type, NamesHeld(reg, H, type)
      PROVE  NamesHeld(Without(reg, x[2].name), H \ {x}, type)
  BY <1>1 DEF NamesHeld, Without
<1>2. ASSUME NamesOwn(reg, H), x[2].type = "stcp" PROVE NamesOwn(Without(reg, x[2].name), H \ {x})
  BY <1>2 DEF NamesOwn, Without
<1>. QED
  BY <1>1, <1>2

-----------------------------------------------------------------------------

\* The tasks of other runs stay as they are; the task of r keeps its locals.
Others(r) == \A s \in Runs \ {r} : task'[s] = task[s]
Keeps(r) == /\ task'[r].new = task[r].new /\ task'[r].victim = task[r].victim
            /\ task'[r].next = task[r].next

LEMMA GotoFacts ==
  ASSUME TaskShape, NEW r \in Runs, NEW l, Goto(r, l)
  PROVE  TaskShape' /\ Others(r) /\ Keeps(r) /\ task'[r].at = l
  BY DEF Goto, TaskShape, Others, Keeps

LEMMA RestFacts ==
  ASSUME TaskShape, NEW r \in Runs, NEW l, Rest(r, l)
  PROVE  TaskShape' /\ Others(r) /\ task'[r] = AtRest(l) /\ task'[r].at = l
  BY DEF Rest, AtRest, TaskShape, Others

LEMMA RemoveFacts ==
  ASSUME TaskShape, NEW r \in Runs, NEW p, NEW l, Remove(r, p, l)
  PROVE  /\ TaskShape' /\ Others(r) /\ proxies' = proxies \ {p}
         /\ task'[r].at = "unlist" /\ task'[r].new = task[r].new
         /\ task'[r].victim = p /\ task'[r].next = l
  BY DEF Remove, TaskShape, Others

\* A task at rest has no locals to fit.
LEMMA RestFits ==
  ASSUME NEW r, NEW l \in Resting PROVE LocalsFit(r, AtRest(l))
  BY Zenon DEF LocalsFit, AtRest, Resting, Creating, Closing

\* What every step of the task of r has in common.
Stepped(r) ==
    /\ TaskShape' /\ Others(r) /\ LocalsFit(r, task'[r])
    /\ controls' \subseteq Runs /\ (\A p \in proxies' : p.run \in Runs)
    /\ scene.threads \/ \A s \in Runs \ {r} : Yielded(s)

LEMMA LoginStepped ==
  ASSUME TypeInv, NEW r \in Runs,
         Login(r) \/ AddControl(r) \/ EndRun(r) \/ CleanupDone(r) \/ Authorize(r) \/ Register(r)
  PROVE  Stepped(r)
<1>0. TaskShape /\ controls \subseteq Runs /\ (\A p \in proxies : p.run \in Runs) /\ LocalsFit(r, task[r])
  BY DEF TypeInv
<1>1. /\ controls' \subseteq Runs /\ proxies' = proxies
      /\ scene.threads \/ \A s \in Runs \ {r} : Yielded(s)
  BY <1>0 DEF Login, AddControl, EndRun, CleanupDone, Authorize, Register, Turn, tables
<1>2. CASE Login(r)
  BY <1>0, <1>1, <1>2, GotoFacts DEF Login, Turn, Stepped, LocalsFit, Keeps, Resting, Creating, Closing
<1>3. CASE AddControl(r)
  BY <1>0, <1>1, <1>3, GotoFacts DEF AddControl, Turn, Stepped, LocalsFit, Keeps, Resting, Creating, Closing
<1>4. CASE \E l \in Resting : Rest(r, l)
  BY <1>0, <1>1, <1>4, RestFacts, RestFits, Zenon DEF Stepped
<1>5. CASE Authorize(r) /\ Goto(r, "register")
  BY <1>0, <1>1, <1>5, GotoFacts, SMTT(60) DEF Authorize, Turn, Stepped, LocalsFit, Keeps, Resting, Creating, Closing
<1>6. CASE Register(r) /\ Goto(r, "allocate")
  BY <1>0, <1>1, <1>6, GotoFacts DEF Register, Turn, Stepped, LocalsFit, Keeps, Resting, Creating, Closing
<1>. QED
  BY <1>2, <1>3, <1>4, <1>5, <1>6, Zenon DEF EndRun, CleanupDone, Authorize, Register, Reply, Resting

LEMMA TakeoverStepped ==
  ASSUME TypeInv, NEW r \in Runs,
         \/ \E n \in Names, o \in scene.offers : NewProxy(r, n, o)
         \/ FindOwner(r) \/ Evict(r) \/ SupersedeOwner(r)
  PROVE  Stepped(r)
<1>0. /\ TaskShape /\ controls \subseteq Runs /\ (\A p \in proxies : p.run \in Runs)
      /\ LocalsFit(r, task[r])
  BY Zenon DEF TypeInv
<1>1. /\ controls' \subseteq Runs /\ proxies' = proxies
      /\ scene.threads \/ \A s \in Runs \ {r} : Yielded(s)
  BY <1>0, Zenon DEF NewProxy, FindOwner, Evict, SupersedeOwner, Turn, tables
<1>2. ASSUME NEW n \in Names, NEW o \in scene.offers, NewProxy(r, n, o) PROVE Stepped(r)
  <2>1. PICK i \in Ids : task' = [task EXCEPT ![r] = [AtRest("find") EXCEPT !.new =
                                    [run |-> r, name |-> n, type |-> o.type, port |-> o.port, id |-> i]]]
    BY <1>2, Zenon DEF NewProxy
  <2>. DEFINE new == [run |-> r, name |-> n, type |-> o.type, port |-> o.port, id |-> i]
  <2>2. new.run = r
    OBVIOUS
  <2>3. task' = [task EXCEPT ![r] = [AtRest("find") EXCEPT !.new = new]]
    BY <2>1
  <2>. HIDE DEF new
  <2>4. /\ TaskShape' /\ Others(r)
        /\ task'[r].at = "find" /\ task'[r].next = "select" /\ task'[r].new = new
    BY <1>0, <2>3 DEF AtRest, TaskShape, Others
  <2>. QED
    BY <1>0, <1>1, <2>2, <2>4, Zenon DEF Stepped, LocalsFit, Resting, Creating, Closing
<1>3. CASE FindOwner(r)
  <2>0. task[r].at = "find"
    BY <1>3, Zenon DEF FindOwner, Turn
  <2>1. CASE Goto(r, "authorize")
    BY <1>0, <1>1, <2>0, <2>1, GotoFacts DEF Stepped, LocalsFit, Keeps, Resting, Creating, Closing
  <2>2. CASE Rest(r, "select")
    BY <1>0, <1>1, <2>2, RestFacts, RestFits, Zenon DEF Stepped, Resting
  <2>3. ASSUME NEW s, task' = [task EXCEPT ![r].owner = s, ![r].at = "evict"] PROVE Stepped(r)
    <3>1. TaskShape' /\ Others(r) /\ Keeps(r) /\ task'[r].at = "evict"
      BY <1>0, <2>3, Zenon DEF TaskShape, Others, Keeps
    <3>. QED
      BY <1>0, <1>1, <2>0, <3>1 DEF Stepped, LocalsFit, Keeps, Resting, Creating, Closing
  <2>. QED
    BY <1>3, <2>1, <2>2, <2>3, Zenon DEF FindOwner, Reply
<1>4. CASE Evict(r)
  <2>0. task[r].at = "evict"
    BY <1>4, Zenon DEF Evict, Turn
  <2>1. CASE Goto(r, "authorize")
    BY <1>0, <1>1, <2>0, <2>1, GotoFacts DEF Stepped, LocalsFit, Keeps, Resting, Creating, Closing
  <2>2. ASSUME NEW p \in proxies, task' = [task EXCEPT ![r].victim = p, ![r].at = "remove"]
        PROVE  Stepped(r)
    <3>1. /\ TaskShape' /\ Others(r)
          /\ task'[r].at = "remove" /\ task'[r].victim = p
          /\ task'[r].new = task[r].new /\ task'[r].next = task[r].next
      BY <1>0, <2>2, Zenon DEF TaskShape, Others
    <3>. QED
      BY <1>0, <1>1, <2>0, <3>1, Zenon DEF Stepped, LocalsFit, Resting, Creating, Closing
  <2>. QED
    BY <1>4, <2>1, <2>2, Zenon DEF Evict
<1>5. CASE SupersedeOwner(r)
  <2>0. task[r].at = "supersede"
    BY <1>5 DEF SupersedeOwner, Turn
  <2>1. TaskShape' /\ Others(r) /\ Keeps(r) /\ task'[r].at = "authorize"
    BY <1>0, <1>5, ZenonT(60) DEF SupersedeOwner, TaskShape, Others, Keeps
  <2>. QED
    BY <1>0, <1>1, <2>0, <2>1 DEF Stepped, LocalsFit, Keeps, Resting, Creating, Closing
<1>. QED
  BY <1>2, <1>3, <1>4, <1>5, Zenon

-----------------------------------------------------------------------------

\* A step that leaves the hands of all tasks as they are: it may reach "allocate"
\* only after the checks of register_proxy.
Quiet(r) ==
    /\ Stepped(r) /\ UNCHANGED <<proxies, ports, stcpReg>> /\ xtcpReg' \subseteq xtcpReg
    /\ \/ /\ task[r].at \notin {"unlist", "close", "forget", "bind", "enter", "insert"}
          /\ task'[r].at \notin {"unlist", "close", "forget", "bind", "enter", "insert"}
          /\ listeners' = listeners
       \/ /\ task[r].at = "unlist" /\ task'[r].at = "close" /\ Keeps(r)
          /\ listeners' = Told(task[r].victim)
       \/ /\ task[r].at = "bind" /\ task'[r].at = "enter" /\ Keeps(r)
          /\ listeners' = listeners \cup Opened(task[r].new)
    /\ task'[r].at = "allocate" => Keeps(r) /\ ~Conflict(task[r].new)
    /\ \/ Record(r) \/ Unlist(r)
       \/ records' = records /\ task[r].at \notin {"record", "unlist"} /\ task'[r].at # "record"
    /\ \/ Login(r) \/ CleanupDone(r)
       \/ controls' \subseteq controls \cup {r} /\ task'[r].at \notin {"new", "login", "gone"}

LEMMA LoginQuiet ==
  ASSUME TypeInv, NEW r \in Runs,
         \/ Login(r) \/ AddControl(r) \/ EndRun(r) \/ CleanupDone(r)
         \/ \E n \in Names, o \in scene.offers : NewProxy(r, n, o)
  PROVE  Quiet(r)
<1>0. TaskShape
  BY Zenon DEF TypeInv
<1>1. Stepped(r)
  BY LoginStepped, TakeoverStepped
<1>2. UNCHANGED <<tables, listeners>> /\ task[r].at \in {"new", "login", "select", "cleanup"}
  BY Zenon DEF Login, AddControl, EndRun, CleanupDone, NewProxy, Turn
<1>3. /\ task'[r].at \in {"login", "select", "cleanup", "gone", "find"}
      /\ \/ Login(r) \/ CleanupDone(r)
         \/ controls' \subseteq controls \cup {r} /\ task'[r].at \notin {"new", "login", "gone"}
  <2>1. CASE Login(r) \/ AddControl(r)
    BY <1>0, <2>1, GotoFacts DEF Login, AddControl
  <2>2. CASE EndRun(r) \/ CleanupDone(r)
    BY <1>0, <2>2, RestFacts DEF EndRun, CleanupDone
  <2>3. CASE \E n \in Names, o \in scene.offers : NewProxy(r, n, o)
    BY <1>0, <2>3 DEF NewProxy, AtRest, TaskShape
  <2>. QED
    BY <2>1, <2>2, <2>3, Zenon
<1>. QED
  BY <1>1, <1>2, <1>3, Zenon DEF Quiet, tables

LEMMA TakeoverQuiet ==
  ASSUME TypeInv, NEW r \in Runs,
         FindOwner(r) \/ Evict(r) \/ SupersedeOwner(r) \/ Authorize(r) \/ Register(r)
  PROVE  Quiet(r)
<1>0. TaskShape
  BY Zenon DEF TypeInv
<1>1. Stepped(r)
  BY LoginStepped, TakeoverStepped, Zenon
<1>2. /\ UNCHANGED <<proxies, records, ports, stcpReg, listeners>> /\ xtcpReg' \subseteq xtcpReg
      /\ controls' \subseteq controls
      /\ task[r].at \in {"find", "evict", "supersede", "authorize", "register"}
  BY Zenon DEF FindOwner, Evict, SupersedeOwner, Authorize, Register, Turn, tables, Without
<1>3. CASE task'[r].at \in {"select", "evict", "remove", "authorize", "register"}
  BY <1>1, <1>2, <1>3, Zenon DEF Quiet
<1>4. CASE Register(r) /\ Goto(r, "allocate")
  <2>1. ~Conflict(task[r].new) \/ Reply(r)
    BY <1>4, Zenon DEF Register
  <2>2. ~Reply(r)
    BY <1>0, <1>4, GotoFacts, RestFacts DEF Reply
  <2>. QED
    BY <1>0, <1>1, <1>2, <1>4, <2>1, <2>2, GotoFacts DEF Quiet
<1>5. CASE \E l \in {"authorize", "register"} : Goto(r, l)
  BY <1>0, <1>3, <1>5, GotoFacts, Zenon
<1>6. CASE Reply(r)
  BY <1>0, <1>3, <1>6, RestFacts DEF Reply
<1>7. CASE FindOwner(r) /\ \E s : task' = [task EXCEPT ![r].owner = s, ![r].at = "evict"]
  BY <1>0, <1>3, <1>7 DEF TaskShape
<1>8. CASE Evict(r) /\ \E p : task' = [task EXCEPT ![r].victim = p, ![r].at = "remove"]
  BY <1>0, <1>3, <1>8 DEF TaskShape
<1>9. CASE SupersedeOwner(r)
  BY <1>0, <1>3, <1>9, Zenon DEF SupersedeOwner, TaskShape
<1>. QED
  BY <1>4, <1>5, <1>6, <1>7, <1>8, <1>9, Zenon DEF FindOwner, Evict, Authorize, Register

LEMMA RegisterQuiet ==
  ASSUME TypeInv, NEW r \in Runs,
         \/ Record(r) \/ Unlist(r) \/ (RemoveEvicted(r) /\ Goto(r, "supersede") /\ UNCHANGED proxies)
         \/ Bind(r) /\ Goto(r, "enter") /\ UNCHANGED ports
  PROVE  Quiet(r)
<1>0. TaskShape /\ controls \subseteq Runs /\ (\A p \in proxies : p.run \in Runs) /\ LocalsFit(r, task[r])
  BY Zenon DEF TypeInv
<1>1. /\ UNCHANGED <<controls, proxies, ports, stcpReg, xtcpReg>>
      /\ scene.threads \/ \A s \in Runs \ {r} : Yielded(s)
  BY Zenon DEF Record, Unlist, RemoveEvicted, Bind, Turn
<1>2. CASE Record(r)
  <2>1. task[r].at = "record" /\ Rest(r, "select") /\ listeners' = listeners
    BY <1>2, Zenon DEF Record, Turn, Reply
  <2>2. Stepped(r)
    BY <1>0, <1>1, <2>1, RestFacts, RestFits, Zenon DEF Stepped, Resting
  <2>. QED
    BY <1>0, <1>1, <1>2, <2>1, <2>2, RestFacts DEF Quiet
<1>3. CASE Unlist(r)
  <2>1. task[r].at = "unlist" /\ Goto(r, "close") /\ listeners' = Told(task[r].victim)
    BY <1>3, Zenon DEF Unlist, Turn
  <2>2. Stepped(r)
    BY <1>0, <1>1, <2>1, GotoFacts, SMTT(60) DEF Stepped, Keeps, LocalsFit, Resting, Creating, Closing
  <2>. QED
    BY <1>0, <1>1, <1>3, <2>1, <2>2, GotoFacts, SMTT(60) DEF Quiet
<1>4. CASE RemoveEvicted(r) /\ Goto(r, "supersede") /\ UNCHANGED proxies
  <2>1. UNCHANGED <<records, listeners>> /\ task[r].at = "remove" /\ Goto(r, "supersede")
    BY <1>4, Zenon DEF RemoveEvicted, Turn
  <2>2. Stepped(r)
    BY <1>0, <1>1, <2>1, GotoFacts, Zenon DEF Stepped, Keeps, LocalsFit, Resting, Creating, Closing
  <2>. QED
    BY <1>0, <1>1, <2>1, <2>2, GotoFacts, SMTT(60) DEF Quiet
<1>5. CASE Bind(r) /\ Goto(r, "enter") /\ UNCHANGED ports
  <2>0. ~Reply(r)
    BY <1>0, <1>5, GotoFacts, RestFacts DEF Reply
  <2>1. /\ records' = records /\ task[r].at = "bind" /\ Goto(r, "enter")
        /\ listeners' = listeners \cup Opened(task[r].new)
    BY <1>5, <2>0, Zenon DEF Bind, Turn
  <2>2. Stepped(r)
    BY <1>0, <1>1, <2>1, GotoFacts DEF Stepped, Keeps, LocalsFit, Resting, Creating, Closing
  <2>. QED
    BY <1>0, <1>1, <2>1, <2>2, GotoFacts, SMTT(60) DEF Quiet
<1>. QED
  BY <1>2, <1>3, <1>4, <1>5, Zenon

\* The steps that change hands, and what they do to the tables.
Removes(r) ==
    /\ Stepped(r) /\ UNCHANGED <<controls, records, ports, stcpReg, xtcpReg, listeners>>
    /\ task[r].at \in {"select", "cleanup", "remove"} /\ task'[r].at = "unlist"
    /\ \E p \in proxies : proxies' = proxies \ {p} /\ task'[r].victim = p

Releases(r) ==
    /\ Stepped(r) /\ UNCHANGED <<controls, proxies, records, stcpReg, xtcpReg, listeners>> /\ Keeps(r)
    /\ task[r].at = "close" /\ task'[r].at = "forget"
    /\ ports' = ports \ {task[r].victim.port}

Forgets(r) ==
    /\ Stepped(r) /\ UNCHANGED <<controls, proxies, records, ports, listeners>>
    /\ task[r].at = "forget" /\ task'[r].at \in {"select", "cleanup", "supersede"}
    /\ LET p == task[r].victim
       IN /\ stcpReg' = IF p.type = "stcp" THEN Without(stcpReg, p.name) ELSE stcpReg
          /\ xtcpReg' = IF p.type = "xtcp" THEN Without(xtcpReg, p.name) ELSE xtcpReg

Takes(r) ==
    /\ Stepped(r) /\ UNCHANGED <<controls, proxies, records, stcpReg, xtcpReg, listeners>> /\ Keeps(r)
    /\ task[r].at = "allocate" /\ task'[r].at = "bind"
    /\ ports' = ports \cup ({task[r].new.port} \ {0})

GivesBack(r) ==
    /\ Stepped(r) /\ UNCHANGED <<controls, proxies, records, stcpReg, xtcpReg, listeners>>
    /\ task[r].at = "bind" /\ task'[r].at = "select"
    /\ ports' = ports \ {task[r].new.port}

Enters(r) ==
    /\ Stepped(r) /\ UNCHANGED <<controls, proxies, records, ports, listeners>> /\ Keeps(r)
    /\ task[r].at = "enter" /\ task'[r].at = "insert" /\ task[r].new.run = r
    /\ LET p == task[r].new
           With(reg) == Without(reg, p.name) \cup {<<p.name, r>>}
       IN /\ stcpReg' = IF p.type = "stcp" THEN With(stcpReg) ELSE stcpReg
          /\ xtcpReg' = IF p.type = "xtcp" THEN With(xtcpReg) ELSE xtcpReg

Inserts(r) ==
    /\ Stepped(r) /\ UNCHANGED <<controls, records, ports, stcpReg, xtcpReg, listeners>> /\ Keeps(r)
    /\ task[r].at = "insert" /\ task'[r].at = "record"
    /\ proxies' = proxies \cup {task[r].new}

LEMMA RemovalFacts ==
  ASSUME TypeInv, NEW r \in Runs,
         \/ \E n \in Names : CloseProxy(r, n)
         \/ CleanupOne(r)
         \/ RemoveEvicted(r) /\ \E p \in proxies : Remove(r, p, "supersede")
  PROVE  Removes(r)
<1>0. TaskShape /\ controls \subseteq Runs /\ (\A p \in proxies : p.run \in Runs) /\ LocalsFit(r, task[r])
  BY Zenon DEF TypeInv
<1>1. /\ UNCHANGED <<controls, records, ports, stcpReg, xtcpReg, listeners>>
      /\ task[r].at \in {"select", "cleanup", "remove"}
      /\ scene.threads \/ \A s \in Runs \ {r} : Yielded(s)
  BY Zenon DEF CloseProxy, CleanupOne, RemoveEvicted, Turn
<1>2. \E p \in proxies, l \in {"select", "cleanup", "supersede"} :
         Remove(r, p, l) /\ (l = "supersede" => task[r].at = "remove")
  <2>1. CASE \E n \in Names : CloseProxy(r, n)
    BY <2>1, Zenon DEF CloseProxy, Owned
  <2>2. CASE CleanupOne(r)
    BY <2>2, Zenon DEF CleanupOne, Owned
  <2>3. CASE RemoveEvicted(r) /\ \E p \in proxies : Remove(r, p, "supersede")
    BY <2>3, Zenon DEF RemoveEvicted, Turn
  <2>. QED
    BY <2>1, <2>2, <2>3, Zenon
<1>3. PICK p \in proxies, l \in {"select", "cleanup", "supersede"} :
         Remove(r, p, l) /\ (l = "supersede" => task[r].at = "remove")
  BY <1>2, Zenon
<1>4. /\ TaskShape' /\ Others(r) /\ proxies' = proxies \ {p}
      /\ task'[r].at = "unlist" /\ task'[r].new = task[r].new
      /\ task'[r].victim = p /\ task'[r].next = l
  BY <1>0, <1>3, RemoveFacts, Zenon
<1>5. LocalsFit(r, task'[r])
  BY <1>0, <1>3, <1>4 DEF LocalsFit, Resting, Creating, Closing
<1>. QED
  BY <1>0, <1>1, <1>4, <1>5, Zenon DEF Removes, Stepped

LEMMA ClosingFacts ==
  ASSUME TypeInv, NEW r \in Runs
  PROVE  (Close(r) => Releases(r)) /\ (Forget(r) => Forgets(r))
<1>0. TaskShape /\ controls \subseteq Runs /\ (\A p \in proxies : p.run \in Runs) /\ LocalsFit(r, task[r])
  BY Zenon DEF TypeInv
<1>1. ASSUME Close(r) PROVE Releases(r)
  <2>1. /\ task[r].at = "close" /\ Goto(r, "forget")
        /\ ports' = ports \ {task[r].victim.port}
        /\ UNCHANGED <<controls, proxies, records, stcpReg, xtcpReg, listeners>>
        /\ scene.threads \/ \A s \in Runs \ {r} : Yielded(s)
    BY <1>1, Zenon DEF Close, Turn
  <2>2. Stepped(r)
    BY <1>0, <2>1, GotoFacts DEF Stepped, Keeps, LocalsFit, Resting, Creating, Closing
  <2>. QED
    BY <1>0, <2>1, <2>2, GotoFacts, Zenon DEF Releases
<1>2. ASSUME Forget(r) PROVE Forgets(r)
  <2>1. /\ task[r].at = "forget" /\ UNCHANGED <<controls, proxies, records, ports, listeners>>
        /\ scene.threads \/ \A s \in Runs \ {r} : Yielded(s)
    BY <1>2 DEF Forget, Turn
  <2>2. CASE task[r].next = "supersede"
    <3>1. task' = [task EXCEPT ![r] = [@ EXCEPT !.at = "supersede", !.victim = None]]
      BY <1>2, <2>2 DEF Forget
    <3>2. TaskShape' /\ Others(r) /\ task'[r].at = "supersede" /\ task'[r].new = task[r].new
          /\ task'[r].next = task[r].next
      BY <1>0, <3>1, Zenon DEF TaskShape, Others
    <3>3. LocalsFit(r, task'[r])
      BY <1>0, <2>1, <2>2, <3>2 DEF LocalsFit, Resting, Creating, Closing
    <3>. QED
      BY <1>0, <1>2, <2>1, <3>2, <3>3 DEF Forget, Forgets, Stepped
  <2>3. CASE task[r].next \in {"select", "cleanup"}
    <3>1. Rest(r, task[r].next)
      BY <1>2, <2>3, Zenon DEF Forget, Rest
    <3>2. LocalsFit(r, task'[r])
      BY <1>0, <2>3, <3>1, RestFacts, RestFits DEF Resting
    <3>. QED
      BY <1>0, <1>2, <2>1, <2>3, <3>1, <3>2, RestFacts DEF Forget, Forgets, Stepped
  <2>. QED
    BY <1>0, <2>2, <2>3 DEF LocalsFit
<1>. QED
  BY <1>1, <1>2

LEMMA CreatingFacts ==
  ASSUME TypeInv, NEW r \in Runs
  PROVE  /\ Allocate(r) => Takes(r)
         /\ Bind(r) /\ Reply(r) /\ ports' = ports \ {task[r].new.port} => GivesBack(r)
         /\ Enter(r) => Enters(r)
         /\ Insert(r) => Inserts(r)
<1>0. TaskShape /\ controls \subseteq Runs /\ (\A p \in proxies : p.run \in Runs) /\ LocalsFit(r, task[r])
  BY DEF TypeInv
<1>1. ASSUME Allocate(r) PROVE Takes(r)
  <2>1. /\ task[r].at = "allocate" /\ Goto(r, "bind")
        /\ ports' = ports \cup ({task[r].new.port} \ {0})
        /\ UNCHANGED <<controls, proxies, records, stcpReg, xtcpReg, listeners>>
        /\ scene.threads \/ \A s \in Runs \ {r} : Yielded(s)
    BY <1>1, Zenon DEF Allocate, Turn
  <2>2. Stepped(r)
    BY <1>0, <2>1, GotoFacts DEF Stepped, Keeps, LocalsFit, Resting, Creating, Closing
  <2>. QED
    BY <1>0, <2>1, <2>2, GotoFacts, Zenon DEF Takes
<1>2. ASSUME Bind(r), Reply(r), ports' = ports \ {task[r].new.port} PROVE GivesBack(r)
  <2>0. ~Goto(r, "enter")
    BY <1>0, <1>2, GotoFacts, RestFacts DEF Reply
  <2>1. /\ task[r].at = "bind" /\ Rest(r, "select")
        /\ UNCHANGED <<controls, proxies, records, stcpReg, xtcpReg, listeners>>
        /\ scene.threads \/ \A s \in Runs \ {r} : Yielded(s)
    BY <1>2, <2>0, Zenon DEF Bind, Turn, Reply
  <2>2. Stepped(r)
    BY <1>0, <2>1, RestFacts, RestFits, Zenon DEF Stepped, Resting
  <2>. QED
    BY <1>0, <1>2, <2>1, <2>2, RestFacts, Zenon DEF GivesBack
<1>3. ASSUME Enter(r) PROVE Enters(r)
  <2>1. /\ task[r].at = "enter" /\ Goto(r, "insert")
        /\ UNCHANGED <<controls, proxies, records, ports, listeners>>
        /\ scene.threads \/ \A s \in Runs \ {r} : Yielded(s)
    BY <1>3, Zenon DEF Enter, Turn
  <2>2. Stepped(r) /\ task[r].new.run = r
    BY <1>0, <2>1, GotoFacts DEF Stepped, Keeps, LocalsFit, Resting, Creating, Closing
  <2>. QED
    BY <1>0, <1>3, <2>1, <2>2, GotoFacts, Zenon DEF Enter, Enters
<1>4. ASSUME Insert(r) PROVE Inserts(r)
  <2>1. /\ task[r].at = "insert" /\ Goto(r, "record")
        /\ proxies' = proxies \cup {task[r].new}
        /\ UNCHANGED <<controls, records, ports, stcpReg, xtcpReg, listeners>>
        /\ scene.threads \/ \A s \in Runs \ {r} : Yielded(s)
    BY <1>4, Zenon DEF Insert, Turn
  <2>2. task[r].new.run = r /\ LocalsFit(r, task'[r])
    BY <1>0, <2>1, GotoFacts DEF Keeps, LocalsFit, Resting, Creating, Closing
  <2>3. Stepped(r)
    BY <1>0, <2>1, <2>2, GotoFacts, Zenon DEF Stepped
  <2>. QED
    BY <1>0, <2>1, <2>3, GotoFacts, Zenon DEF Inserts
<1>. QED
  BY <1>1, <1>2, <1>3, <1>4, Zenon

\* Every step is of one of these kinds, or leaves the tasks and the tables alone.
LEMMA Kinds ==
  ASSUME TypeInv, [Next]_vars
  PROVE  \/ /\ UNCHANGED <<task, tables>> /\ controls' \subseteq controls
            /\ UNCHANGED listeners \/ \E l \in listeners : LoopStep(l)
         \/ \E r \in Runs : \/ Quiet(r) \/ Removes(r) \/ Releases(r) \/ Forgets(r)
                            \/ Takes(r) \/ GivesBack(r) \/ Enters(r) \/ Inserts(r)
<1>1. CASE UNCHANGED vars
  BY <1>1 DEF vars
<1>2. ASSUME NEW r \in Runs, Disconnect(r) \/ AdminShutdown(r)
      PROVE  UNCHANGED <<task, tables, listeners>> /\ controls' \subseteq controls
  BY <1>2, ZenonT(30) DEF Disconnect, AdminShutdown
<1>7. ASSUME NEW l \in listeners, LoopStep(l) PROVE UNCHANGED <<task, tables, controls>>
  BY <1>7, Zenon DEF LoopStep, LoopGoes, Subscribe, AcceptFails, EndLoop
<1>3. ASSUME NEW r \in Runs, Bind(r) PROVE Quiet(r) \/ GivesBack(r)
  BY <1>3, RegisterQuiet, CreatingFacts, Zenon DEF Bind
<1>4. ASSUME NEW r \in Runs, RemoveEvicted(r) PROVE Quiet(r) \/ Removes(r)
  BY <1>4, RegisterQuiet, RemovalFacts DEF RemoveEvicted
<1>5. ASSUME NEW r \in Runs, RegisterStep(r) \/ CloseStep(r)
      PROVE  \/ Quiet(r) \/ Releases(r) \/ Forgets(r)
             \/ Takes(r) \/ GivesBack(r) \/ Enters(r) \/ Inserts(r)
  BY <1>3, <1>5, TakeoverQuiet, RegisterQuiet, ClosingFacts, CreatingFacts, Zenon DEF RegisterStep, CloseStep
<1>6. ASSUME NEW r \in Runs,
             \/ Login(r) \/ AddControl(r) \/ EndRun(r) \/ Receive(r) \/ TakeoverStep(r) \/ CleanupStep(r)
      PROVE  Quiet(r) \/ Removes(r)
  BY <1>4, <1>6, LoginQuiet, TakeoverQuiet, RemovalFacts, ZenonT(30) DEF Receive, TakeoverStep, CleanupStep
<1>. QED
  BY <1>1, <1>2, <1>5, <1>6, <1>7 DEF Next

-----------------------------------------------------------------------------

LEMMA TypeStep == TypeInv /\ [Next]_vars => TypeInv'
<1>. SUFFICES ASSUME TypeInv, [Next]_vars PROVE TypeInv'
  OBVIOUS
<1>1. CASE UNCHANGED <<task, tables>> /\ controls' \subseteq controls
  BY <1>1 DEF tables, TypeInv, TaskShape
<1>2. ASSUME NEW r \in Runs, Stepped(r) PROVE TypeInv'
  BY <1>2, ZenonT(30) DEF Stepped, Others, TypeInv
<1>. QED
  BY <1>1, <1>2, Kinds, Zenon DEF Quiet, Removes, Releases, Forgets, Takes, GivesBack, Enters, Inserts

LEMMA SoloStep == TypeInv /\ Solo /\ [Next]_vars => Solo'
<1>. SUFFICES ASSUME TypeInv, Solo, [Next]_vars PROVE Solo'
  OBVIOUS
<1>0. scene' = scene
  BY Zenon DEF Next, vars
<1>1. CASE UNCHANGED <<task, tables>> /\ controls' \subseteq controls
  BY <1>0, <1>1 DEF Solo, Yielded
<1>2. ASSUME NEW r \in Runs, Stepped(r) PROVE Solo'
  <2>1. ~scene.threads => \A s \in Runs \ {r} : Yielded(s)'
    BY <1>2, Zenon DEF Stepped, Others, Yielded
  <2>. QED
    BY <1>0, <2>1, Zenon DEF Solo
<1>. QED
  BY <1>1, <1>2, Kinds, Zenon DEF Quiet, Removes, Releases, Forgets, Takes, GivesBack, Enters, Inserts

\* The hands of the tasks of other runs than r.
Away(r, ls, cs) == UNION {Hand(s, task[s], ls, cs) : s \in Runs \ {r}}

LEMMA HandsSplit ==
  ASSUME NEW r \in Runs, NEW ls, NEW cs
  PROVE  /\ Hands(ls, cs) = {<<None, p>> : p \in proxies} \cup Away(r, ls, cs) \cup Hand(r, task[r], ls, cs)
         /\ \A h \in Away(r, ls, cs) : h[1] \in Runs \ {r}
<1>1. \A s : \A h \in Hand(s, task[s], ls, cs) : h[1] = s
  BY DEF Hand
<1>2. \A h \in Away(r, ls, cs) : h[1] \in Runs \ {r}
  BY <1>1 DEF Away
<1>3. UNION {Hand(s, task[s], ls, cs) : s \in Runs} = Away(r, ls, cs) \cup Hand(r, task[r], ls, cs)
  BY Zenon DEF Away
<1>. QED
  BY <1>2, <1>3, Zenon DEF Hands

LEMMA HandsChange ==
  ASSUME NEW r \in Runs, Others(r), NEW ls, NEW cs
  PROVE  Hands(ls, cs)' = {<<None, p>> : p \in proxies'} \cup Away(r, ls, cs) \cup Hand(r, task'[r], ls, cs)
<1>1. Hands(ls, cs)' = {<<None, p>> : p \in proxies'} \cup UNION {Hand(s, task'[s], ls, cs) : s \in Runs}
  BY DEF Hands
<1>2. UNION {Hand(s, task'[s], ls, cs) : s \in Runs} = Away(r, ls, cs) \cup Hand(r, task'[r], ls, cs)
  BY Zenon DEF Away, Others
<1>. QED
  BY <1>1, <1>2, Zenon

LEMMA HandsSame ==
  ASSUME NEW r \in Runs, Others(r), proxies' = proxies, NEW ls, NEW cs,
         Hand(r, task'[r], ls, cs) = Hand(r, task[r], ls, cs)
  PROVE  Hands(ls, cs)' = Hands(ls, cs)
<1>1. Hands(ls, cs)' = {<<None, p>> : p \in proxies'} \cup Away(r, ls, cs) \cup Hand(r, task'[r], ls, cs)
  BY HandsChange, Zenon
<1>2. Hands(ls, cs) = {<<None, p>> : p \in proxies} \cup Away(r, ls, cs) \cup Hand(r, task[r], ls, cs)
  BY HandsSplit, Zenon
<1>. QED
  BY <1>1, <1>2, Zenon

LEMMA HandsGain ==
  ASSUME NEW r \in Runs, Others(r), proxies' = proxies, NEW ls, NEW cs, NEW p,
         Hand(r, task[r], ls, cs) = {}, Hand(r, task'[r], ls, cs) = {<<r, p>>}
  PROVE  /\ <<r, p>> \in Hands(ls, cs)'
         /\ Hands(ls, cs)' = Hands(ls, cs) \cup {<<r, p>>}
  BY HandsSplit, HandsChange

LEMMA HandsLose ==
  ASSUME NEW r \in Runs, Others(r), proxies' = proxies, NEW ls, NEW cs, NEW p,
         Hand(r, task[r], ls, cs) = {<<r, p>>}, Hand(r, task'[r], ls, cs) = {}
  PROVE  Hands(ls, cs)' = Hands(ls, cs) \ {<<r, p>>} /\ <<r, p>> \in Hands(ls, cs)
<1>1. <<r, p>> \notin Away(r, ls, cs) /\ <<r, p>> \notin {<<None, q>> : q \in proxies}
  BY HandsSplit, NoneAssumption
<1>. QED
  BY <1>1, HandsSplit, HandsChange

LEMMA HandsTaken ==
  ASSUME NEW r \in Runs, Others(r), NEW p \in proxies, proxies' = proxies \ {p}, NEW ls, NEW cs,
         Hand(r, task[r], ls, cs) = {}, Hand(r, task'[r], ls, cs) = {<<r, p>>}
  PROVE  /\ Hands(ls, cs)' = Moved(Hands(ls, cs), <<None, p>>, <<r, p>>)
         /\ <<None, p>> \in Hands(ls, cs)
<1>1. <<None, p>> \notin Away(r, ls, cs)
  BY HandsSplit, NoneAssumption
<1>2. {<<None, q>> : q \in proxies'} = {<<None, q>> : q \in proxies} \ {<<None, p>>}
  OBVIOUS
<1>. QED
  BY <1>1, <1>2, HandsSplit, HandsChange DEF Moved

LEMMA HandsGiven ==
  ASSUME NEW r \in Runs, Others(r), NEW p, proxies' = proxies \cup {p}, NEW ls, NEW cs,
         Hand(r, task[r], ls, cs) = {<<r, p>>}, Hand(r, task'[r], ls, cs) = {}
  PROVE  /\ Hands(ls, cs)' = Moved(Hands(ls, cs), <<r, p>>, <<None, p>>)
         /\ <<r, p>> \in Hands(ls, cs)
<1>1. <<r, p>> \notin Away(r, ls, cs) /\ <<r, p>> \notin {<<None, q>> : q \in proxies}
  BY HandsSplit, NoneAssumption
<1>2. {<<None, q>> : q \in proxies'} = {<<None, q>> : q \in proxies} \cup {<<None, p>>}
  BY Zenon
<1>. QED
  BY <1>1, <1>2, HandsSplit, HandsChange DEF Moved

-----------------------------------------------------------------------------

\* What the port table holds after each kind of step, for its present hands.
LEMMA PortsStep ==
  ASSUME TypeInv, NEW r \in Runs,
         \/ Quiet(r) \/ Removes(r) \/ Releases(r) \/ Forgets(r)
         \/ Takes(r) \/ GivesBack(r) \/ Enters(r) \/ Inserts(r)
  PROVE  /\ PortsHeld(ports, PortHands) => PortsHeld(ports, PortHands)'
         /\ PortsOwn(ports, PortHands) /\ FreeFor(r) => PortsOwn(ports, PortHands)'
<1>. DEFINE ls == {"unlist", "close"}
            cs == {"bind", "enter", "insert"}
            Goal == /\ PortsHeld(ports, PortHands) => PortsHeld(ports', PortHands')
                    /\ PortsOwn(ports, PortHands) /\ FreeFor(r) => PortsOwn(ports', PortHands')
<1>0. /\ PortHands = Hands(ls, cs) /\ PortHands' = Hands(ls, cs)'
      /\ PortsHeld(ports, PortHands)' = PortsHeld(ports', PortHands')
      /\ PortsOwn(ports, PortHands)' = PortsOwn(ports', PortHands')
  BY Zenon DEF PortHands, PortsHeld, PortsOwn
<1>. SUFFICES Goal
  BY <1>0, Zenon
<1>. HIDE DEF ls, cs
<1>1. CASE Quiet(r)
  <2>1. Hand(r, task'[r], ls, cs) = Hand(r, task[r], ls, cs)
    BY <1>1, Zenon DEF Quiet, Hand, Keeps, ls, cs
  <2>2. Others(r) /\ proxies' = proxies /\ ports' = ports
    BY <1>1, Zenon DEF Quiet, Stepped
  <2>3. PortHands' = PortHands
    BY <1>0, <2>1, <2>2, HandsSame, Zenon
  <2>. QED
    BY <2>2, <2>3
<1>2. CASE Removes(r)
  <2>1. PICK p \in proxies : proxies' = proxies \ {p} /\ task'[r].victim = p
    BY <1>2, Zenon DEF Removes
  <2>2. Hand(r, task[r], ls, cs) = {} /\ Hand(r, task'[r], ls, cs) = {<<r, p>>}
    BY <1>2, <2>1, Zenon DEF Removes, Hand, ls, cs
  <2>5. Others(r) /\ ports' = ports
    BY <1>2, Zenon DEF Removes, Stepped
  <2>6. /\ Hands(ls, cs)' = Moved(Hands(ls, cs), <<None, p>>, <<r, p>>)
        /\ <<None, p>> \in Hands(ls, cs)
    BY <2>1, <2>2, <2>5, HandsTaken, Zenon
  <2>. DEFINE x == <<None, p>>
              y == <<r, p>>
  <2>4. PortHands' = Moved(PortHands, x, y) /\ x \in PortHands /\ y[2] = x[2]
    BY <1>0, <2>6, Zenon
  <2>. HIDE DEF x, y
  <2>. QED
    BY <2>4, <2>5, Transfer
<1>3. CASE Releases(r)
  <2>6. PICK p : p = task[r].victim
    OBVIOUS
  <2>. DEFINE x == <<r, p>>
  <2>1. Hand(r, task[r], ls, cs) = {x} /\ Hand(r, task'[r], ls, cs) = {}
    BY <1>3, <2>6, Zenon DEF Releases, Hand, ls, cs
  <2>4. Others(r) /\ proxies' = proxies
    BY <1>3 DEF Releases, Stepped
  <2>5. Hands(ls, cs)' = Hands(ls, cs) \ {x} /\ x \in Hands(ls, cs)
    BY <2>1, <2>4, HandsLose, Zenon
  <2>2. PortHands' = PortHands \ {x} /\ x \in PortHands
    BY <1>0, <2>5
  <2>3. ports' = ports \ {x[2].port}
    BY <1>3, <2>6, Zenon DEF Releases
  <2>. HIDE DEF x
  <2>. QED
    BY <2>2, <2>3, ReleasePort
<1>4. CASE Forgets(r) \/ Enters(r)
  <2>1. Hand(r, task'[r], ls, cs) = Hand(r, task[r], ls, cs)
    BY <1>4, Zenon DEF Forgets, Enters, Hand, Keeps, ls, cs
  <2>2. Others(r) /\ proxies' = proxies /\ ports' = ports
    BY <1>4, Zenon DEF Forgets, Enters, Stepped
  <2>3. PortHands' = PortHands
    BY <1>0, <2>1, <2>2, HandsSame, Zenon
  <2>. QED
    BY <2>2, <2>3
<1>5. CASE Takes(r)
  <2>0. PICK p : p = task[r].new
    OBVIOUS
  <2>. DEFINE y == <<r, p>>
  <2>1. Hand(r, task[r], ls, cs) = {} /\ Hand(r, task'[r], ls, cs) = {y}
    BY <1>5, <2>0, Zenon DEF Takes, Keeps, Hand, ls, cs
  <2>2. Others(r) /\ proxies' = proxies
    BY <1>5, Zenon DEF Takes, Stepped
  <2>3. y \in Hands(ls, cs)' /\ Hands(ls, cs)' = Hands(ls, cs) \cup {y}
    BY <2>1, <2>2, HandsGain, Zenon
  <2>4. /\ PortHands' = PortHands \cup {y}
        /\ ports' = ports \cup ({y[2].port} \ {0})
        /\ FreeFor(r) => y[2].port \notin ports
    BY <1>0, <1>5, <2>0, <2>3, Zenon DEF Takes, FreeFor
  <2>. HIDE DEF y
  <2>. QED
    BY <2>4, TakePort, Zenon
<1>6. CASE GivesBack(r)
  <2>6. PICK p : p = task[r].new
    OBVIOUS
  <2>. DEFINE x == <<r, p>>
  <2>1. Hand(r, task[r], ls, cs) = {x} /\ Hand(r, task'[r], ls, cs) = {}
    BY <1>6, <2>6, Zenon DEF GivesBack, Hand, ls, cs
  <2>4. Others(r) /\ proxies' = proxies
    BY <1>6, Zenon DEF GivesBack, Stepped
  <2>5. Hands(ls, cs)' = Hands(ls, cs) \ {x} /\ x \in Hands(ls, cs)
    BY <2>1, <2>4, HandsLose, Zenon
  <2>2. PortHands' = PortHands \ {x} /\ x \in PortHands
    BY <1>0, <2>5
  <2>3. ports' = ports \ {x[2].port}
    BY <1>6, <2>6 DEF GivesBack
  <2>. HIDE DEF x
  <2>. QED
    BY <2>2, <2>3, ReleasePort
<1>7. CASE Inserts(r)
  <2>0. PICK p : p = task[r].new
    OBVIOUS
  <2>1. Hand(r, task[r], ls, cs) = {<<r, p>>} /\ Hand(r, task'[r], ls, cs) = {}
    BY <1>7, <2>0, Zenon DEF Inserts, Hand, ls, cs
  <2>2. Others(r) /\ proxies' = proxies \cup {p} /\ ports' = ports
    BY <1>7, <2>0, Zenon DEF Inserts, Stepped
  <2>4. /\ Hands(ls, cs)' = Moved(Hands(ls, cs), <<r, p>>, <<None, p>>)
        /\ <<r, p>> \in Hands(ls, cs)
    BY <2>1, <2>2, HandsGiven, Zenon
  <2>. DEFINE x == <<r, p>>
              y == <<None, p>>
  <2>3. PortHands' = Moved(PortHands, x, y) /\ x \in PortHands /\ y[2] = x[2]
    BY <1>0, <2>4, Zenon
  <2>. HIDE DEF x, y
  <2>. QED
    BY <2>2, <2>3, Transfer, Zenon
<1>. QED
  BY <1>1, <1>2, <1>3, <1>4, <1>5, <1>6, <1>7, Zenon

\* The same for the two registries.
LEMMA NamesStep ==
  ASSUME TypeInv, NEW r \in Runs,
         \/ Quiet(r) \/ Removes(r) \/ Releases(r) \/ Forgets(r)
         \/ Takes(r) \/ GivesBack(r) \/ Enters(r) \/ Inserts(r)
  PROVE  /\ NamesHeld(stcpReg, NameHands, "stcp") => NamesHeld(stcpReg, NameHands, "stcp")'
         /\ NamesHeld(xtcpReg, NameHands, "xtcp") => NamesHeld(xtcpReg, NameHands, "xtcp")'
         /\ NamesOwn(stcpReg, NameHands) /\ FreeFor(r) => NamesOwn(stcpReg, NameHands)'
<1>. DEFINE ls == {"unlist", "close", "forget"}
            cs == {"insert"}
            Goal == /\ NamesHeld(stcpReg, NameHands, "stcp") => NamesHeld(stcpReg', NameHands', "stcp")
                    /\ NamesHeld(xtcpReg, NameHands, "xtcp") => NamesHeld(xtcpReg', NameHands', "xtcp")
                    /\ NamesOwn(stcpReg, NameHands) /\ FreeFor(r) => NamesOwn(stcpReg', NameHands')
<1>0. /\ NameHands = Hands(ls, cs) /\ NameHands' = Hands(ls, cs)'
      /\ NamesHeld(stcpReg, NameHands, "stcp")' = NamesHeld(stcpReg', NameHands', "stcp")
      /\ NamesHeld(xtcpReg, NameHands, "xtcp")' = NamesHeld(xtcpReg', NameHands', "xtcp")
      /\ NamesOwn(stcpReg, NameHands)' = NamesOwn(stcpReg', NameHands')
  BY Zenon DEF NameHands, NamesHeld, NamesOwn
<1>. SUFFICES Goal
  BY <1>0, Zenon
<1>. HIDE DEF ls, cs
<1>1. CASE Quiet(r) \/ Releases(r) \/ Takes(r) \/ GivesBack(r)
  <2>1. Hand(r, task'[r], ls, cs) = Hand(r, task[r], ls, cs)
    BY <1>1, Zenon DEF Quiet, Releases, Takes, GivesBack, Hand, Keeps, ls, cs
  <2>3. /\ Others(r) /\ proxies' = proxies
        /\ stcpReg' = stcpReg /\ xtcpReg' \subseteq xtcpReg
    BY <1>1, Zenon DEF Quiet, Releases, Takes, GivesBack, Stepped
  <2>2. NameHands' = NameHands
    BY <1>0, <2>1, <2>3, HandsSame, ZenonT(30)
  <2>4. NamesHeld(xtcpReg, NameHands, "xtcp") => NamesHeld(xtcpReg', NameHands, "xtcp")
    BY <2>3, SMTT(30) DEF NamesHeld
  <2>. QED
    BY <2>2, <2>3, <2>4
<1>2. CASE Removes(r)
  <2>1. PICK p \in proxies : proxies' = proxies \ {p} /\ task'[r].victim = p
    BY <1>2 DEF Removes
  <2>2. Hand(r, task[r], ls, cs) = {} /\ Hand(r, task'[r], ls, cs) = {<<r, p>>}
    BY <1>2, <2>1, Zenon DEF Removes, Hand, ls, cs
  <2>5. Others(r) /\ UNCHANGED <<stcpReg, xtcpReg>>
    BY <1>2, ZenonT(30) DEF Removes, Stepped
  <2>6. /\ Hands(ls, cs)' = Moved(Hands(ls, cs), <<None, p>>, <<r, p>>)
        /\ <<None, p>> \in Hands(ls, cs)
    BY <2>1, <2>2, <2>5, HandsTaken, Zenon
  <2>. DEFINE x == <<None, p>>
              y == <<r, p>>
  <2>4. NameHands' = Moved(NameHands, x, y) /\ x \in NameHands /\ y[2] = x[2]
    BY <1>0, <2>6, Zenon
  <2>. HIDE DEF x, y
  <2>. QED
    BY <2>4, <2>5, Transfer, Zenon
<1>3. CASE Inserts(r)
  <2>0. PICK p : p = task[r].new
    OBVIOUS
  <2>1. Hand(r, task[r], ls, cs) = {<<r, p>>} /\ Hand(r, task'[r], ls, cs) = {}
    BY <1>3, <2>0, Zenon DEF Inserts, Hand, ls, cs
  <2>2. Others(r) /\ proxies' = proxies \cup {p} /\ UNCHANGED <<stcpReg, xtcpReg>>
    BY <1>3, <2>0, Zenon DEF Inserts, Stepped
  <2>4. /\ Hands(ls, cs)' = Moved(Hands(ls, cs), <<r, p>>, <<None, p>>)
        /\ <<r, p>> \in Hands(ls, cs)
    BY <2>1, <2>2, HandsGiven, Zenon
  <2>. DEFINE x == <<r, p>>
              y == <<None, p>>
  <2>3. NameHands' = Moved(NameHands, x, y) /\ x \in NameHands /\ y[2] = x[2]
    BY <1>0, <2>4
  <2>. HIDE DEF x, y
  <2>. QED
    BY <2>2, <2>3, Transfer, ZenonT(30)
<1>4. CASE Forgets(r)
  <2>6. PICK p : p = task[r].victim
    OBVIOUS
  <2>. DEFINE x == <<r, p>>
  <2>0. x[2] = task[r].victim
    BY <2>6, Zenon
  <2>1. Hand(r, task[r], ls, cs) = {x} /\ Hand(r, task'[r], ls, cs) = {}
    BY <1>4, <2>6, ZenonT(30) DEF Forgets, Hand, ls, cs
  <2>4. Others(r) /\ proxies' = proxies
    BY <1>4, Zenon DEF Forgets, Stepped
  <2>5. Hands(ls, cs)' = Hands(ls, cs) \ {x} /\ x \in Hands(ls, cs)
    BY <2>1, <2>4, HandsLose, Zenon
  <2>2. NameHands' = NameHands \ {x} /\ x \in NameHands
    BY <1>0, <2>5, ZenonT(30)
  <2>3. /\ stcpReg' = IF x[2].type = "stcp" THEN Without(stcpReg, x[2].name) ELSE stcpReg
        /\ xtcpReg' = IF x[2].type = "xtcp" THEN Without(xtcpReg, x[2].name) ELSE xtcpReg
    BY <1>4, <2>0, Zenon DEF Forgets
  <2>. HIDE DEF x
  <2>. QED
    BY <2>2, <2>3, ForgetName, OtherType, Zenon
<1>5. CASE Enters(r)
  <2>. PICK p : p = task[r].new
    OBVIOUS
  <2>. DEFINE y == <<r, p>>
  <2>0. y[2] = task[r].new /\ y[2].run = r
    BY <1>5, Zenon DEF Enters
  <2>1. Hand(r, task[r], ls, cs) = {} /\ Hand(r, task'[r], ls, cs) = {y}
    BY <1>5, <2>0 DEF Enters, Keeps, Hand, ls, cs
  <2>2. Others(r) /\ proxies' = proxies
    BY <1>5, Zenon DEF Enters, Stepped
  <2>5. y \in Hands(ls, cs)' /\ Hands(ls, cs)' = Hands(ls, cs) \cup {y}
    BY <2>1, <2>2, HandsGain, Zenon
  <2>6. NameHands' = NameHands \cup {y}
    BY <1>0, <2>5, Zenon
  <2>3. /\ stcpReg' = IF y[2].type = "stcp" THEN Entered(stcpReg, y[2]) ELSE stcpReg
        /\ xtcpReg' = IF y[2].type = "xtcp" THEN Entered(xtcpReg, y[2]) ELSE xtcpReg
    BY <1>5, <2>0, Zenon DEF Enters, Entered
  <2>4. FreeFor(r) /\ y[2].type = "stcp" => \A e \in stcpReg : e[1] # y[2].name
    BY <1>5, <2>0, Zenon DEF Enters, FreeFor
  <2>. HIDE DEF y
  <2>. QED
    BY <2>3, <2>4, <2>6, EnterName, OtherType, Zenon
<1>. QED
  BY <1>1, <1>2, <1>3, <1>4, <1>5, Zenon

\* What was found free stays free: no other task runs before it is taken.
LEMMA FreeStep ==
  ASSUME ~scene.threads, NEW r \in Runs, \A s \in Runs : FreeFor(s),
         \/ Quiet(r) \/ Removes(r) \/ Releases(r) \/ Forgets(r)
         \/ Takes(r) \/ GivesBack(r) \/ Enters(r) \/ Inserts(r)
  PROVE  \A s \in Runs : FreeFor(s)'
<1>1. Stepped(r)
  BY Zenon DEF Quiet, Removes, Releases, Forgets, Takes, GivesBack, Enters, Inserts
<1>2. ASSUME NEW s \in Runs \ {r} PROVE FreeFor(s)'
  BY <1>1, Zenon DEF Stepped, Others, Yielded, FreeFor
<1>3. FreeFor(r)'
  <2>1. CASE Quiet(r) /\ task'[r].at = "allocate"
    BY <2>1, Zenon DEF Quiet, Conflict, Keeps, FreeFor
  <2>2. CASE Quiet(r) /\ task'[r].at # "allocate"
    BY <2>2, Zenon DEF Quiet, Keeps, FreeFor
  <2>3. CASE Takes(r)
    BY <2>3, Zenon DEF Takes, Keeps, FreeFor
  <2>4. CASE Removes(r) \/ Releases(r) \/ Forgets(r) \/ GivesBack(r) \/ Enters(r) \/ Inserts(r)
    BY <2>4, Zenon DEF Removes, Releases, Forgets, GivesBack, Enters, Inserts, FreeFor
  <2>. QED
    BY <2>1, <2>2, <2>3, <2>4, Zenon
<1>. QED
  BY <1>2, <1>3, Zenon

LEMMA Handed ==
  ASSUME NEW ls, NEW cs
  PROVE  /\ \A p \in proxies : <<None, p>> \in Hands(ls, cs)
         /\ \A s \in Runs : /\ task[s].at \in ls => <<s, task[s].victim>> \in Hands(ls, cs)
                            /\ task[s].at \in cs => <<s, task[s].new>> \in Hands(ls, cs)
<1>1. \A s \in Runs : /\ task[s].at \in ls => <<s, task[s].victim>> \in Hand(s, task[s], ls, cs)
                      /\ task[s].at \in cs => <<s, task[s].new>> \in Hand(s, task[s], ls, cs)
  BY Zenon DEF Hand
<1>. QED
  BY <1>1, Zenon DEF Hands

TablesInv == TypeInv /\ Solo /\ CoverInv /\ ExactInv

LEMMA TablesStep == TablesInv /\ [Next]_vars => TablesInv'
<1>. SUFFICES ASSUME TablesInv, [Next]_vars PROVE CoverInv' /\ ExactInv'
  BY TypeStep, SoloStep, Zenon DEF TablesInv
<1>0. TypeInv /\ CoverInv /\ ExactInv /\ scene' = scene
  BY DEF TablesInv, Next, vars
<1>1. CASE UNCHANGED <<task, tables>>
  <2>1. UNCHANGED <<PortHands, NameHands, ports, stcpReg, xtcpReg>>
    BY <1>1, Zenon DEF tables, PortHands, NameHands, Hands
  <2>2. CoverInv'
    BY <1>0, <2>1, Zenon DEF CoverInv, PortsHeld, NamesHeld
  <2>3. ExactInv'
    BY <1>0, <1>1, <2>1, Zenon DEF ExactInv, PortsOwn, NamesOwn, FreeFor
  <2>. QED
    BY <2>2, <2>3, Zenon
<1>2. ASSUME NEW r \in Runs,
             \/ Quiet(r) \/ Removes(r) \/ Releases(r) \/ Forgets(r)
             \/ Takes(r) \/ GivesBack(r) \/ Enters(r) \/ Inserts(r)
      PROVE  CoverInv' /\ ExactInv'
  <2>1. CoverInv'
    BY <1>0, <1>2, PortsStep, NamesStep, Zenon DEF CoverInv
  <2>2. ASSUME ~scene.threads
        PROVE  /\ PortsOwn(ports, PortHands)' /\ NamesOwn(stcpReg, NameHands)'
               /\ \A s \in Runs : FreeFor(s)'
    <3>1. /\ PortsOwn(ports, PortHands) /\ NamesOwn(stcpReg, NameHands)
          /\ \A s \in Runs : FreeFor(s)
      BY <1>0, <2>2 DEF ExactInv
    <3>2. FreeFor(r)
      BY <3>1, Zenon
    <3>. QED
      BY <1>0, <1>2, <2>2, <3>1, <3>2, PortsStep, NamesStep, FreeStep, Zenon
  <2>3. ExactInv'
    BY <1>0, <2>2 DEF ExactInv
  <2>. QED
    BY <2>1, <2>3, Zenon
<1>. QED
  BY <1>0, <1>1, <1>2, Kinds, Zenon

LEMMA TablesInit == Init => TablesInv
<1>. SUFFICES ASSUME Init PROVE TablesInv
  OBVIOUS
<1>1. \A r \in Runs : task[r] = AtRest("new") /\ task[r].at = "new"
  BY Zenon DEF Init, AtRest
<1>2. TypeInv
  BY <1>1, RestFits, Zenon DEF Init, TypeInv, TaskShape, AtRest, Resting
<1>3. Solo
  BY <1>1, Zenon DEF Solo, Yielded
<1>4. CoverInv /\ ports = {} /\ stcpReg = {}
  BY Zenon DEF Init, CoverInv, PortsHeld, NamesHeld
<1>5. \A r \in Runs : \A ls, cs : "new" \notin ls /\ "new" \notin cs => Hand(r, task[r], ls, cs) = {}
  BY <1>1, Zenon DEF Hand
<1>6. PortHands = {} /\ NameHands = {}
  BY <1>5 DEF Init, PortHands, NameHands, Hands
<1>7. ExactInv
  BY <1>1, <1>6 DEF ExactInv, PortsOwn, NamesOwn, FreeFor
<1>. QED
  BY <1>2, <1>3, <1>4, <1>7 DEF TablesInv

LEMMA TablesAlways == Spec => []TablesInv
  BY TablesInit, TablesStep, PTL DEF Spec

-----------------------------------------------------------------------------
(***************************************************************************)
(* The listeners.  One that was not told to stop is that of a proxy in the *)
(* hands of a task that opened it, of the table, or of a task about to     *)
(* tell it.                                                                *)
(***************************************************************************)

ListenHands == Hands({"unlist"}, {"enter", "insert"})

\* The listeners of ls that nobody has told to stop.
Untold(ls) == {l \in ls : l.is \in {"bound", "accepting", "failed"}}

\* Each of them is that of a proxy somebody has.
ListenHeld(ls, H) == \A l \in Untold(ls) : \E h \in H : h[2] = l.of

\* Whoever has a proxy with a port has its listener.
ListenOwn(ls, H) == \A h \in H : h[2].port # 0 => \E l \in Untold(ls) : l.of = h[2]

ListenInv ==
    /\ ListenHeld(listeners, ListenHands)
    /\ ~scene.threads => ListenOwn(listeners, ListenHands)

\* A listener changes hands with its proxy.
LEMMA ListenMoved ==
  ASSUME NEW H, NEW x \in H, NEW y, y[2] = x[2], NEW ls
  PROVE  /\ ListenHeld(ls, H) => ListenHeld(ls, Moved(H, x, y))
         /\ ListenOwn(ls, H) => ListenOwn(ls, Moved(H, x, y))
<1>1. ASSUME ListenHeld(ls, H) PROVE ListenHeld(ls, Moved(H, x, y))
  BY <1>1 DEF ListenHeld, Moved
<1>2. ASSUME ListenOwn(ls, H) PROVE ListenOwn(ls, Moved(H, x, y))
  BY <1>2 DEF ListenOwn, Moved
<1>. QED
  BY <1>1, <1>2

\* bind() opens a listener.
LEMMA ListenOpened ==
  ASSUME NEW H, NEW y, NEW ls
  PROVE  /\ ListenHeld(ls, H) => ListenHeld(ls \cup Opened(y[2]), H \cup {y})
         /\ ListenOwn(ls, H) => ListenOwn(ls \cup Opened(y[2]), H \cup {y})
<1>1. ASSUME ListenHeld(ls, H) PROVE ListenHeld(ls \cup Opened(y[2]), H \cup {y})
  BY <1>1 DEF ListenHeld, Untold, Opened
<1>2. ASSUME ListenOwn(ls, H) PROVE ListenOwn(ls \cup Opened(y[2]), H \cup {y})
  <2>1. ASSUME y[2].port # 0 PROVE \E l \in Untold(ls \cup Opened(y[2])) : l.of = y[2]
    <3>. DEFINE new == [of |-> y[2], is |-> "bound"]
    <3>1. new.of = y[2] /\ new.is = "bound" /\ new \in Opened(y[2])
      BY <2>1 DEF Opened
    <3>. HIDE DEF new
    <3>. QED
      BY <3>1, Zenon DEF Untold
  <2>2. Untold(ls) \subseteq Untold(ls \cup Opened(y[2]))
    BY Zenon DEF Untold
  <2>. QED
    BY <1>2, <2>1, <2>2, Zenon DEF ListenOwn
<1>. QED
  BY <1>1, <1>2

\* close() tells a listener to stop.
LEMMA ListenTold ==
  ASSUME NEW H, NEW x \in H
  PROVE  /\ ListenHeld(listeners, H) => ListenHeld(Told(x[2]), H \ {x})
         /\ ListenOwn(listeners, H) /\ (\A h \in H : h[2].port # 0 /\ h[2] = x[2] => h = x)
               => ListenOwn(Told(x[2]), H \ {x})
<1>1. Untold(Told(x[2])) = {l \in Untold(listeners) : l.of # x[2]}
  <2>1. \A l \in Told(x[2]) : \/ l \in listeners /\ l.of # x[2]
                              \/ l.is \in {"shut", "deaf"}
    BY DEF Told
  <2>2. \A l \in listeners : l.of # x[2] => l \in Told(x[2])
    BY Zenon DEF Told
  <2>. QED
    BY <2>1, <2>2 DEF Untold
<1>2. ASSUME ListenHeld(listeners, H) PROVE ListenHeld(Told(x[2]), H \ {x})
  BY <1>1, <1>2 DEF ListenHeld
<1>3. ASSUME ListenOwn(listeners, H), \A h \in H : h[2].port # 0 /\ h[2] = x[2] => h = x
      PROVE  ListenOwn(Told(x[2]), H \ {x})
  BY <1>1, <1>3 DEF ListenOwn
<1>. QED
  BY <1>2, <1>3

\* An accept loop goes on: a listener that was not told stays, in another state.
LEMMA LoopUntold ==
  ASSUME NEW l \in listeners, LoopStep(l)
  PROVE  /\ \A k \in Untold(listeners') : \E j \in Untold(listeners) : j.of = k.of
         /\ \A k \in Untold(listeners) : \E j \in Untold(listeners') : j.of = k.of
<1>1. CASE EndLoop(l)
  BY <1>1 DEF EndLoop, Untold
<1>2. ASSUME NEW to \in {"accepting", "failed"}, LoopGoes(l, {"bound", "accepting"}, to)
      PROVE  /\ \A k \in Untold(listeners') : \E j \in Untold(listeners) : j.of = k.of
             /\ \A k \in Untold(listeners) : \E j \in Untold(listeners') : j.of = k.of
  <2>. DEFINE new == [of |-> l.of, is |-> to]
  <2>1. new.of = l.of /\ new.is = to /\ listeners' = (listeners \ {l}) \cup {new} /\ l \in Untold(listeners)
    BY <1>2 DEF LoopGoes, Untold
  <2>. HIDE DEF new
  <2>2. Untold(listeners') = (Untold(listeners) \ {l}) \cup {new}
    BY <2>1 DEF Untold
  <2>. QED
    BY <2>1, <2>2, Zenon
<1>3. CASE Subscribe(l)
  <2>1. LoopGoes(l, {"bound", "accepting"}, "accepting")
    BY <1>3 DEF Subscribe, LoopGoes
  <2>. QED
    BY <1>2, <2>1
<1>4. CASE AcceptFails(l)
  <2>1. LoopGoes(l, {"bound", "accepting"}, "failed")
    BY <1>4 DEF AcceptFails, LoopGoes
  <2>. QED
    BY <1>2, <2>1
<1>. QED
  BY <1>1, <1>3, <1>4 DEF LoopStep

\* What the listeners are after each kind of step, for the hands they are in.
LEMMA ListenStep ==
  ASSUME TablesInv, ListenInv, NEW r \in Runs, scene' = scene,
         \/ Quiet(r) \/ Removes(r) \/ Releases(r) \/ Forgets(r)
         \/ Takes(r) \/ GivesBack(r) \/ Enters(r) \/ Inserts(r)
  PROVE  ListenInv'
<1>. DEFINE ls == {"unlist"}
            cs == {"enter", "insert"}
            Goal == /\ ListenHeld(listeners, ListenHands) => ListenHeld(listeners', ListenHands')
                    /\ ~scene.threads /\ ListenOwn(listeners, ListenHands) => ListenOwn(listeners', ListenHands')
<1>0. /\ ListenHands = Hands(ls, cs) /\ ListenHands' = Hands(ls, cs)'
      /\ ListenHeld(listeners, ListenHands)' = ListenHeld(listeners', ListenHands')
      /\ ListenOwn(listeners, ListenHands)' = ListenOwn(listeners', ListenHands')
  BY Zenon DEF ListenHands, ListenHeld, ListenOwn, Untold
<1>. SUFFICES Goal
  BY <1>0, Zenon DEF ListenInv
<1>. HIDE DEF ls, cs
<1>9. ASSUME Others(r), UNCHANGED <<proxies, listeners>>,
             Hand(r, task'[r], ls, cs) = Hand(r, task[r], ls, cs)
      PROVE  Goal
  <2>1. ListenHands' = ListenHands
    BY <1>0, <1>9, HandsSame, Zenon
  <2>. QED
    BY <1>9, <2>1
<1>1. CASE Releases(r) \/ Forgets(r) \/ Takes(r) \/ GivesBack(r) \/ Enters(r)
  <2>1. Hand(r, task'[r], ls, cs) = Hand(r, task[r], ls, cs)
    BY <1>1, Zenon DEF Releases, Forgets, Takes, GivesBack, Enters, Hand, Keeps, ls, cs
  <2>2. Others(r) /\ UNCHANGED <<proxies, listeners>>
    BY <1>1, Zenon DEF Releases, Forgets, Takes, GivesBack, Enters, Stepped
  <2>. QED
    BY <1>9, <2>1, <2>2, Zenon
<1>2. CASE Removes(r)
  <2>1. PICK p \in proxies : proxies' = proxies \ {p} /\ task'[r].victim = p
    BY <1>2, Zenon DEF Removes
  <2>2. Hand(r, task[r], ls, cs) = {} /\ Hand(r, task'[r], ls, cs) = {<<r, p>>}
    BY <1>2, <2>1, Zenon DEF Removes, Hand, ls, cs
  <2>3. Others(r) /\ listeners' = listeners
    BY <1>2, Zenon DEF Removes, Stepped
  <2>4. /\ Hands(ls, cs)' = Moved(Hands(ls, cs), <<None, p>>, <<r, p>>)
        /\ <<None, p>> \in Hands(ls, cs)
    BY <2>1, <2>2, <2>3, HandsTaken, Zenon
  <2>. DEFINE x == <<None, p>>
              y == <<r, p>>
  <2>5. ListenHands' = Moved(ListenHands, x, y) /\ x \in ListenHands /\ y[2] = x[2]
    BY <1>0, <2>4, Zenon
  <2>. HIDE DEF x, y
  <2>. QED
    BY <2>3, <2>5, ListenMoved, Zenon
<1>3. CASE Inserts(r)
  <2>0. PICK p : p = task[r].new
    OBVIOUS
  <2>1. Hand(r, task[r], ls, cs) = {<<r, p>>} /\ Hand(r, task'[r], ls, cs) = {}
    BY <1>3, <2>0, Zenon DEF Inserts, Hand, ls, cs
  <2>2. Others(r) /\ proxies' = proxies \cup {p} /\ listeners' = listeners
    BY <1>3, <2>0, Zenon DEF Inserts, Stepped
  <2>4. /\ Hands(ls, cs)' = Moved(Hands(ls, cs), <<r, p>>, <<None, p>>)
        /\ <<r, p>> \in Hands(ls, cs)
    BY <2>1, <2>2, HandsGiven, Zenon
  <2>. DEFINE x == <<r, p>>
              y == <<None, p>>
  <2>3. ListenHands' = Moved(ListenHands, x, y) /\ x \in ListenHands /\ y[2] = x[2]
    BY <1>0, <2>4, Zenon
  <2>. HIDE DEF x, y
  <2>. QED
    BY <2>2, <2>3, ListenMoved, Zenon
<1>4. CASE Quiet(r) /\ task[r].at = "unlist"
  <2>0. PICK p : p = task[r].victim
    OBVIOUS
  <2>. DEFINE x == <<r, p>>
  <2>1. Hand(r, task[r], ls, cs) = {x} /\ Hand(r, task'[r], ls, cs) = {}
    BY <1>4, <2>0, Zenon DEF Quiet, Hand, ls, cs
  <2>2. Others(r) /\ proxies' = proxies
    BY <1>4, Zenon DEF Quiet, Stepped
  <2>3. Hands(ls, cs)' = Hands(ls, cs) \ {x} /\ x \in Hands(ls, cs)
    BY <2>1, <2>2, HandsLose, Zenon
  <2>4. /\ ListenHands' = ListenHands \ {x} /\ x \in ListenHands
        /\ listeners' = Told(x[2])
    BY <1>0, <1>4, <2>0, <2>3, Zenon DEF Quiet
  <2>5. ListenHands \subseteq PortHands
    <3>1. \A s \in Runs : Hand(s, task[s], {"unlist"}, {"enter", "insert"})
                             \subseteq Hand(s, task[s], {"unlist", "close"}, {"bind", "enter", "insert"})
      BY DEF Hand
    <3>. QED
      BY <3>1, Zenon DEF ListenHands, PortHands, Hands
  <2>6. ~scene.threads => PortsOwn(ports, PortHands)
    BY Zenon DEF TablesInv, ExactInv
  <2>. HIDE DEF x
  <2>7. ~scene.threads => \A h \in ListenHands : h[2].port # 0 /\ h[2] = x[2] => h = x
    BY <2>4, <2>5, <2>6, Zenon DEF PortsOwn
  <2>. QED
    BY <2>4, <2>7, ListenTold, Zenon
<1>5. CASE Quiet(r) /\ task[r].at = "bind"
  <2>0. PICK p : p = task[r].new
    OBVIOUS
  <2>. DEFINE y == <<r, p>>
  <2>1. Hand(r, task[r], ls, cs) = {} /\ Hand(r, task'[r], ls, cs) = {y}
    BY <1>5, <2>0, Zenon DEF Quiet, Keeps, Hand, ls, cs
  <2>2. Others(r) /\ proxies' = proxies
    BY <1>5, Zenon DEF Quiet, Stepped
  <2>3. y \in Hands(ls, cs)' /\ Hands(ls, cs)' = Hands(ls, cs) \cup {y}
    BY <2>1, <2>2, HandsGain, Zenon
  <2>4. ListenHands' = ListenHands \cup {y} /\ listeners' = listeners \cup Opened(y[2])
    BY <1>0, <1>5, <2>0, <2>3, Zenon DEF Quiet
  <2>. HIDE DEF y
  <2>. QED
    BY <2>4, ListenOpened, Zenon
<1>6. CASE Quiet(r) /\ task[r].at \notin {"unlist", "bind"}
  <2>1. Hand(r, task'[r], ls, cs) = Hand(r, task[r], ls, cs)
    BY <1>6, Zenon DEF Quiet, Hand, ls, cs
  <2>2. Others(r) /\ UNCHANGED <<proxies, listeners>>
    BY <1>6, Zenon DEF Quiet, Stepped
  <2>. QED
    BY <1>9, <2>1, <2>2, Zenon
<1>. QED
  BY <1>1, <1>2, <1>3, <1>4, <1>5, <1>6, Zenon

LEMMA ListenAlways == Spec => [](TablesInv /\ ListenInv)
<1>1. Init => ListenInv
  <2>. SUFFICES ASSUME Init PROVE ListenInv
    OBVIOUS
  <2>1. \A r \in Runs : task[r].at = "new"
    BY DEF Init, AtRest
  <2>2. ListenHands = {} /\ listeners = {}
    BY <2>1 DEF Init, ListenHands, Hands, Hand
  <2>. QED
    BY <2>2 DEF ListenInv, ListenHeld, ListenOwn, Untold
<1>2. ASSUME TablesInv, ListenInv, [Next]_vars PROVE ListenInv'
  <2>0. TypeInv /\ scene' = scene
    BY <1>2 DEF TablesInv, Next, vars
  <2>1. ASSUME UNCHANGED <<task, tables>>, UNCHANGED listeners \/ \E l \in listeners : LoopStep(l)
        PROVE  ListenInv'
    <3>1. ListenHands' = ListenHands
      BY <2>1, Zenon DEF tables, ListenHands, Hands
    <3>2. /\ \A k \in Untold(listeners') : \E j \in Untold(listeners) : j.of = k.of
          /\ \A k \in Untold(listeners) : \E j \in Untold(listeners') : j.of = k.of
      BY <2>1, LoopUntold
    <3>3. ListenHeld(listeners', ListenHands')
      BY <1>2, <3>1, <3>2 DEF ListenInv, ListenHeld
    <3>4. ~scene.threads => ListenOwn(listeners', ListenHands')
      BY <1>2, <3>1, <3>2 DEF ListenInv, ListenOwn
    <3>5. /\ ListenHeld(listeners, ListenHands)' = ListenHeld(listeners', ListenHands')
          /\ ListenOwn(listeners, ListenHands)' = ListenOwn(listeners', ListenHands')
      BY Zenon DEF ListenHeld, ListenOwn, Untold
    <3>. QED
      BY <2>0, <3>3, <3>4, <3>5, Zenon DEF ListenInv
  <2>. QED
    BY <1>2, <2>0, <2>1, Kinds, ListenStep, Zenon
<1>. QED
  BY <1>1, <1>2, TablesAlways, PTL DEF Spec

\* Whatever the threads, each port in the table is that of a proxy somebody will
\* close, and so is each listener that was not told to stop; while tasks yield only
\* at awaits the table is exact and each proxy has its listener, unless accept()
\* failed for good (allocate_tcp_port, the failed bind, close).
THEOREM PortsSafe == Spec => []PortsMatchListeners
<1>1. ASSUME TablesInv, ListenInv PROVE PortsMatchListeners
  <2>. DEFINE all == Registered \cup ClosingAt({"close"}) \cup CreatingAt({"bind"})
              untold == {l.of : l \in Untold(listeners)}
  <2>0. Holders = {p \in all : p.port # 0}
    BY DEF Holders
  <2>1. PortsHeld(ports, PortHands) /\ (~scene.threads => PortsOwn(ports, PortHands))
    BY <1>1 DEF TablesInv, CoverInv, ExactInv
  <2>2. \A p \in all : \E h \in PortHands : h[2] = p
    <3>1. \A p : \A s \in Runs \cup {None} : <<s, p>> \in PortHands => \E h \in PortHands : h[2] = p
      BY Zenon
    <3>2. \A p \in all : \E s \in Runs \cup {None} : <<s, p>> \in PortHands
      BY Handed, Zenon DEF PortHands, Registered, ClosingAt, CreatingAt
    <3>. QED
      BY <3>1, <3>2, Zenon
  <2>3. \A h \in PortHands : h[2] \in all
    BY DEF PortHands, Hands, Hand, Registered, ClosingAt, CreatingAt
  <2>4. \A p \in Registered : \E h \in ListenHands : h[2] = p
    <3>1. \A p : \A s \in Runs \cup {None} : <<s, p>> \in ListenHands => \E h \in ListenHands : h[2] = p
      BY Zenon
    <3>2. \A p \in Registered : \E s \in Runs \cup {None} : <<s, p>> \in ListenHands
      BY Handed, Zenon DEF ListenHands, Registered, ClosingAt, CreatingAt
    <3>. QED
      BY <3>1, <3>2, Zenon
  <2>5. \A h \in ListenHands : h[2] \in Registered
    BY DEF ListenHands, Hands, Hand, Registered, ClosingAt, CreatingAt
  <2>. HIDE DEF all
  <2>6. ports \subseteq {p.port : p \in Holders}
    BY <2>0, <2>1, <2>3 DEF PortsHeld
  <2>7. untold \subseteq Registered
    BY <1>1, <2>5, Zenon DEF ListenInv, ListenHeld
  <2>8. ASSUME ~scene.threads
        PROVE  /\ \A p \in Holders : p.port \in ports
               /\ \A p, q \in Holders : p.port = q.port => p = q
               /\ Registered \cap Holders \subseteq untold
    <3>1. \A p \in Holders : p.port \in ports
      BY <2>0, <2>1, <2>2, <2>8, Zenon DEF PortsOwn
    <3>2. ASSUME NEW p \in Holders, NEW q \in Holders, p.port = q.port PROVE p = q
      <4>1. PICK h \in PortHands : h[2] = p
        BY <2>0, <2>2, <3>2, Zenon
      <4>2. PICK k \in PortHands : k[2] = q
        BY <2>0, <2>2, <3>2, Zenon
      <4>. QED
        BY <2>0, <2>1, <2>8, <3>2, <4>1, <4>2, Zenon DEF PortsOwn
    <3>3. Registered \cap Holders \subseteq untold
      <4>1. ListenOwn(listeners, ListenHands)
        BY <1>1, <2>8 DEF ListenInv
      <4>2. \A p \in Registered : p.port # 0 => \E l \in Untold(listeners) : l.of = p
        BY <2>4, <4>1, Zenon DEF ListenOwn
      <4>. QED
        BY <2>0, <4>2, Zenon
    <3>. QED
      BY <3>1, <3>2, <3>3, Zenon
  <2>. QED
    BY <2>6, <2>7, <2>8, Zenon DEF PortsMatchListeners, Untold
<1>. QED
  BY <1>1, ListenAlways, PTL

\* stcp_registry holds the names of the stcp proxies and no other, and
\* xtcp_registry no name without a proxy, while tasks yield only at awaits
\* (register_proxy, close, evict_proxy_by_name).
THEOREM NamesSafe == Spec => []NamesMatch
<1>1. ASSUME TablesInv, ~scene.threads
      PROVE  LET alive == proxies \cup ClosingAt({"unlist", "close", "forget"}) \cup CreatingAt({"insert"})
                 names(ps) == {<<p.name, p.run>> : p \in ps}
             IN /\ stcpReg = names({p \in alive : p.type = "stcp"})
                /\ xtcpReg \subseteq names(alive)
  <2>. DEFINE alive == proxies \cup ClosingAt({"unlist", "close", "forget"}) \cup CreatingAt({"insert"})
  <2>1. /\ NamesHeld(stcpReg, NameHands, "stcp") /\ NamesHeld(xtcpReg, NameHands, "xtcp")
        /\ NamesOwn(stcpReg, NameHands)
    BY <1>1 DEF TablesInv, CoverInv, ExactInv
  <2>2. \A p \in alive : \E h \in NameHands : h[2] = p
    <3>1. \A p : \A s \in Runs \cup {None} : <<s, p>> \in NameHands => \E h \in NameHands : h[2] = p
      OBVIOUS
    <3>2. \A p \in alive : \E s \in Runs \cup {None} : <<s, p>> \in NameHands
      BY Handed, Zenon DEF NameHands, ClosingAt, CreatingAt
    <3>. QED
      BY <3>1, <3>2, Zenon
  <2>3. \A h \in NameHands : h[2] \in alive
    BY DEF NameHands, Hands, Hand, ClosingAt, CreatingAt
  <2>. HIDE DEF alive
  <2>4. stcpReg = {<<p.name, p.run>> : p \in {p \in alive : p.type = "stcp"}}
    BY <2>1, <2>2, <2>3 DEF NamesHeld, NamesOwn
  <2>5. xtcpReg \subseteq {<<p.name, p.run>> : p \in alive}
    BY <2>1, <2>3, Zenon DEF NamesHeld
  <2>. QED
    BY <2>4, <2>5, Zenon DEF alive
<1>2. TablesInv => NamesMatch
  BY <1>1 DEF NamesMatch
<1>. QED
  BY <1>2, TablesAlways, PTL

-----------------------------------------------------------------------------

LEMMA KeyStep == TypeInv /\ KeyInv /\ [Next]_vars => KeyInv'
<1>. SUFFICES ASSUME TypeInv, KeyInv, [Next]_vars PROVE KeyInv'
  OBVIOUS
<1>1. CASE UNCHANGED <<task, tables>>
  BY <1>1, Zenon DEF tables, KeyInv
<1>2. ASSUME NEW r \in Runs, Stepped(r), proxies' \subseteq proxies,
             task'[r].at \in {"allocate", "bind", "enter", "insert"} =>
                \A p \in proxies' : Key(p) # Key(task'[r].new)
      PROVE  KeyInv'
  BY <1>2 DEF Stepped, Others, KeyInv
<1>3. ASSUME NEW r \in Runs, Quiet(r) PROVE KeyInv'
  <2>1. CASE task'[r].at = "allocate"
    BY <1>2, <1>3, <2>1, Zenon DEF Quiet, Conflict, Keeps
  <2>2. CASE task'[r].at # "allocate"
    BY <1>2, <1>3, <2>2, Zenon DEF Quiet, Keeps, KeyInv
  <2>. QED
    BY <2>1, <2>2, Zenon
<1>4. ASSUME NEW r \in Runs, Takes(r) \/ Enters(r) PROVE KeyInv'
  BY <1>2, <1>4, ZenonT(30) DEF Takes, Enters, Keeps, KeyInv
<1>5. ASSUME NEW r \in Runs, Removes(r) \/ Releases(r) \/ Forgets(r) \/ GivesBack(r) PROVE KeyInv'
  BY <1>2, <1>5 DEF Removes, Releases, Forgets, GivesBack
<1>6. ASSUME NEW r \in Runs, Inserts(r) PROVE KeyInv'
  <2>. DEFINE new == task[r].new
  <2>1. /\ proxies' = proxies \cup {new} /\ Others(r) /\ task'[r].at = "record"
        /\ \A p \in proxies : Key(p) # Key(new)
    BY <1>6, Zenon DEF Inserts, Stepped, KeyInv
  <2>2. new.run = r
    BY <1>6, Zenon DEF Inserts, TypeInv, LocalsFit, Creating
  <2>3. ASSUME NEW s \in Runs \ {r}, task[s].at \in {"allocate", "bind", "enter", "insert"}
        PROVE  Key(new) # Key(task[s].new)
    BY <2>2, <2>3, Zenon DEF TypeInv, LocalsFit, Creating, Key
  <2>. HIDE DEF new
  <2>4. \A s \in Runs : task'[s].at \in {"allocate", "bind", "enter", "insert"} =>
           \A p \in proxies' : Key(p) # Key(task'[s].new)
    BY <2>1, <2>3, Zenon DEF Others, KeyInv
  <2>5. \A p, q \in proxies' : Key(p) = Key(q) => p = q
    BY <2>1, Zenon DEF KeyInv
  <2>. QED
    BY <2>4, <2>5, Zenon DEF KeyInv
<1>. QED
  BY <1>1, <1>3, <1>4, <1>5, <1>6, Kinds, Zenon

\* The keys of the proxies that have a record, when only the task t runs.
Recorded(ps, t) ==
    {Key(p) : p \in (ps \ {q \in {t.new} : t.at = "record"}) \cup {q \in {t.victim} : t.at = "unlist"}}

\* What RecordInv says when only the task t runs.
RecordsFit(rs, ps, t) ==
    /\ rs = Recorded(ps, t)
    /\ t.at = "record" => t.new \in ps
    /\ t.at = "unlist" => \A p \in ps : Key(p) # Key(t.victim)

LEMMA RecordsOfOne ==
  ASSUME ~scene.threads, NEW r \in Runs, \A s \in Runs \ {r} : Yielded(s)
  PROVE  RecordInv <=> RecordsFit(records, proxies, task[r])
<1>1. \A s \in Runs \ {r} : task[s].at \notin {"record", "unlist"}
  BY Zenon DEF Yielded
<1>2. CreatingAt({"record"}) = {q \in {task[r].new} : task[r].at = "record"}
  BY <1>1, Zenon DEF CreatingAt
<1>3. ClosingAt({"unlist"}) = {q \in {task[r].victim} : task[r].at = "unlist"}
  BY <1>1, Zenon DEF ClosingAt
<1>4. RecordsMatch <=> records = Recorded(proxies, task[r])
  BY <1>2, <1>3, Zenon DEF RecordsMatch, Recorded
<1>. QED
  BY <1>1, <1>4, Zenon DEF RecordInv, RecordsFit

LEMMA RecordStep == TypeInv /\ KeyInv /\ RecordInv /\ [Next]_vars => RecordInv'
<1>. SUFFICES ASSUME TypeInv, KeyInv, RecordInv, [Next]_vars, ~scene.threads PROVE RecordInv'
  BY Zenon DEF RecordInv, Next, vars
<1>0. scene' = scene
  BY DEF Next, vars
<1>1. CASE UNCHANGED <<task, tables>>
  BY <1>0, <1>1, Zenon DEF tables, RecordInv, RecordsMatch, CreatingAt, ClosingAt
<1>2. ASSUME NEW r \in Runs, Stepped(r)
      PROVE  /\ RecordsFit(records, proxies, task[r])
             /\ RecordsFit(records', proxies', task'[r]) => RecordInv'
  <2>1. \A s \in Runs \ {r} : Yielded(s) /\ Yielded(s)'
    BY <1>2, Zenon DEF Stepped, Others, Yielded
  <2>2. RecordsFit(records, proxies, task[r])
    BY <2>1, RecordsOfOne, Zenon
  <2>3. \A s \in Runs \ {r} : task'[s].at \notin {"record", "unlist"}
    BY <2>1, Zenon DEF Yielded
  <2>4. CreatingAt({"record"})' = {q \in {task'[r].new} : task'[r].at = "record"}
    BY <2>3, Zenon DEF CreatingAt
  <2>5. ClosingAt({"unlist"})' = {q \in {task'[r].victim} : task'[r].at = "unlist"}
    BY <2>3, Zenon DEF ClosingAt
  <2>6. records' = Recorded(proxies', task'[r]) => RecordsMatch'
    BY <2>4, <2>5, Zenon DEF RecordsMatch, Recorded
  <2>. QED
    BY <2>2, <2>3, <2>6, Zenon DEF RecordInv, RecordsFit
<1>3. ASSUME NEW r \in Runs, Stepped(r), UNCHANGED <<records, proxies>>,
             task[r].at \notin {"record", "unlist"}, task'[r].at \notin {"record", "unlist"}
      PROVE  RecordInv'
  BY <1>2, <1>3 DEF RecordsFit, Recorded
<1>4. ASSUME NEW r \in Runs, Removes(r) PROVE RecordInv'
  <2>1. PICK p \in proxies : proxies' = proxies \ {p} /\ task'[r].victim = p
    BY <1>4, Zenon DEF Removes
  <2>2. /\ Stepped(r) /\ records' = records
        /\ task[r].at \notin {"record", "unlist"} /\ task'[r].at = "unlist"
    BY <1>4, Zenon DEF Removes
  <2>3. records = {Key(q) : q \in proxies}
    BY <1>2, <2>2, Zenon DEF RecordsFit, Recorded
  <2>4. Recorded(proxies', task'[r]) = {Key(q) : q \in proxies}
    BY <2>1, <2>2, Zenon DEF Recorded
  <2>5. \A q \in proxies' : Key(q) # Key(p)
    BY <2>1 DEF KeyInv
  <2>. QED
    BY <1>2, <2>1, <2>2, <2>3, <2>4, <2>5, Zenon DEF RecordsFit
<1>5. ASSUME NEW r \in Runs, Inserts(r) PROVE RecordInv'
  <2>. DEFINE new == task[r].new
  <2>1. /\ Stepped(r) /\ records' = records /\ proxies' = proxies \cup {new}
        /\ task[r].at \notin {"record", "unlist"} /\ task'[r].at = "record" /\ task'[r].new = new
        /\ new \notin proxies
    BY <1>5, Zenon DEF Inserts, Keeps, KeyInv
  <2>2. records = {Key(q) : q \in proxies}
    BY <1>2, <2>1, Zenon DEF RecordsFit, Recorded
  <2>3. Recorded(proxies', task'[r]) = {Key(q) : q \in proxies}
    BY <2>1, Zenon DEF Recorded
  <2>. QED
    BY <1>2, <2>1, <2>2, <2>3, Zenon DEF RecordsFit
<1>6. ASSUME NEW r \in Runs, Quiet(r), Record(r) PROVE RecordInv'
  <2>. DEFINE new == task[r].new
  <2>1. /\ Stepped(r) /\ records' = records \cup {Key(new)} /\ proxies' = proxies
        /\ task[r].at = "record" /\ task'[r].at \notin {"record", "unlist"}
    BY <1>6, Zenon DEF Quiet, Record, Turn, Reply, Rest, AtRest, TypeInv, TaskShape
  <2>2. records = {Key(q) : q \in proxies \ {new}} /\ new \in proxies
    BY <1>2, <2>1, Zenon DEF RecordsFit, Recorded
  <2>3. Recorded(proxies', task'[r]) = {Key(q) : q \in proxies}
    BY <2>1, Zenon DEF Recorded
  <2>4. records' = {Key(q) : q \in proxies}
    BY <2>1, <2>2
  <2>. QED
    BY <1>2, <2>1, <2>3, <2>4 DEF RecordsFit
<1>7. ASSUME NEW r \in Runs, Quiet(r), Unlist(r) PROVE RecordInv'
  <2>. DEFINE victim == task[r].victim
  <2>1. /\ Stepped(r) /\ records' = records \ {Key(victim)} /\ proxies' = proxies
        /\ task[r].at = "unlist" /\ task'[r].at \notin {"record", "unlist"}
    BY <1>7, Zenon DEF Quiet, Unlist, Turn
  <2>2. records = {Key(q) : q \in proxies \cup {victim}} /\ \A p \in proxies : Key(p) # Key(victim)
    BY <1>2, <2>1, Zenon DEF RecordsFit, Recorded
  <2>3. Recorded(proxies', task'[r]) = {Key(q) : q \in proxies}
    BY <2>1 DEF Recorded
  <2>4. records' = {Key(q) : q \in proxies}
    BY <2>1, <2>2, Zenon
  <2>. QED
    BY <1>2, <2>1, <2>3, <2>4, ZenonT(30) DEF RecordsFit
<1>8. ASSUME NEW r \in Runs, Quiet(r), ~Record(r), ~Unlist(r) PROVE RecordInv'
  BY <1>3, <1>8, Zenon DEF Quiet
<1>9. ASSUME NEW r \in Runs, Releases(r) \/ Forgets(r) \/ Takes(r) \/ GivesBack(r) \/ Enters(r)
      PROVE  RecordInv'
  BY <1>3, <1>9, Zenon DEF Releases, Forgets, Takes, GivesBack, Enters
<1>. QED
  BY <1>1, <1>4, <1>5, <1>6, <1>7, <1>8, <1>9, Kinds

\* The admin API lists the registered proxies, while tasks yield only at awaits
\* (register_proxy, unregister_proxy, evict_proxy_by_name).
THEOREM RecordsSafe == Spec => []RecordsMatch
<1>1. Init => TypeInv
  BY TablesInit, Zenon DEF TablesInv
<1>2. Init => KeyInv /\ RecordInv
  <2>. SUFFICES ASSUME Init PROVE KeyInv /\ RecordInv
    BY Zenon
  <2>1. \A r \in Runs : task[r].at = "new"
    BY DEF Init, AtRest
  <2>2. proxies = {} /\ records = {}
    BY Zenon DEF Init
  <2>3. KeyInv
    BY <2>1, <2>2, Zenon DEF KeyInv
  <2>4. RecordsMatch
    BY <2>1, <2>2, Zenon DEF RecordsMatch, CreatingAt, ClosingAt
  <2>. QED
    BY <2>1, <2>3, <2>4 DEF RecordInv
<1>3. RecordInv => RecordsMatch
  BY Zenon DEF RecordInv, RecordsMatch
<1>. QED
  BY <1>1, <1>2, <1>3, TypeStep, KeyStep, RecordStep, PTL DEF Spec

-----------------------------------------------------------------------------

LEMMA LifeStep == TypeInv /\ LifeInv /\ [Next]_vars => LifeInv'
<1>. SUFFICES ASSUME TypeInv, LifeInv, [Next]_vars PROVE LifeInv'
  OBVIOUS
<1>1. CASE UNCHANGED <<task, tables>> /\ controls' \subseteq controls
  BY <1>1, Zenon DEF tables, LifeInv, Living
<1>2. ASSUME NEW r \in Runs, Others(r), controls' \subseteq controls \cup {r}, controls \subseteq Runs,
             \A p \in proxies' : p.run \in Runs /\ (p \in proxies \/ p.run = r),
             task'[r].at \notin {"new", "login", "gone"}
      PROVE  LifeInv'
  BY <1>2 DEF Others, LifeInv, Living
<1>3. ASSUME NEW r \in Runs, Others(r), UNCHANGED proxies, controls' \subseteq controls \ {r},
             controls \subseteq Runs, \A p \in proxies : p.run \in Runs \ {r}
      PROVE  LifeInv'
  BY <1>3, Zenon DEF Others, LifeInv, Living
<1>4. ASSUME NEW r \in Runs, Quiet(r) PROVE LifeInv'
  <2>1. /\ Others(r) /\ proxies' = proxies /\ controls \subseteq Runs
        /\ \A p \in proxies : p.run \in Runs
    BY <1>4, Zenon DEF Quiet, Stepped, TypeInv
  <2>2. CASE Login(r)
    <3>1. task[r].at = "new" /\ controls' = controls
      BY <2>2, Zenon DEF Login, Turn
    <3>2. r \notin controls /\ \A p \in proxies : p.run # r
      BY <3>1, Zenon DEF LifeInv, Living
    <3>. QED
      BY <1>3, <2>1, <3>1, <3>2, Zenon
  <2>3. CASE CleanupDone(r)
    <3>1. controls' = controls \ {r} /\ \A p \in proxies : p.run # r
      BY <2>3 DEF CleanupDone, Owned
    <3>. QED
      BY <1>3, <2>1, <3>1, Zenon
  <2>. QED
    BY <1>2, <1>4, <2>1, <2>2, <2>3 DEF Quiet
<1>5. ASSUME NEW r \in Runs,
             \/ Removes(r) \/ Releases(r) \/ Forgets(r)
             \/ Takes(r) \/ GivesBack(r) \/ Enters(r) \/ Inserts(r)
      PROVE  LifeInv'
  <2>1. /\ Others(r) /\ controls' = controls /\ controls \subseteq Runs
        /\ \A p \in proxies' : p.run \in Runs
        /\ task'[r].at \notin {"new", "login", "gone"}
    BY <1>5, Zenon DEF Removes, Releases, Forgets, Takes, GivesBack, Enters, Inserts, Stepped, TypeInv
  <2>2. CASE proxies' \subseteq proxies
    BY <1>2, <2>1, <2>2, Zenon
  <2>3. CASE Inserts(r)
    <3>1. task[r].new.run = r
      BY <2>3 DEF Inserts, TypeInv, LocalsFit, Creating
    <3>. QED
      BY <1>2, <2>1, <2>3, <3>1, ZenonT(60) DEF Inserts
  <2>. QED
    BY <1>5, <2>2, <2>3, Zenon DEF Removes, Releases, Forgets, Takes, GivesBack, Enters
<1>. QED
  BY <1>1, <1>4, <1>5, Kinds, Zenon

\* Nothing leaks, on however many threads: when every task is over nobody has a
\* proxy, so no table has an entry (handle_login, unregister_run_proxies).
THEOREM LeakSafe == Spec => []NothingLeaks
<1>1. Init => LifeInv
  BY Zenon DEF Init, LifeInv
<1>2. ASSUME TablesInv, LifeInv, \A r \in Runs : task[r].at \in {"new", "gone"}
      PROVE  controls = {} /\ proxies = {} /\ ports = {} /\ stcpReg = {} /\ xtcpReg = {}
  <2>1. controls = {} /\ proxies = {}
    BY <1>2, Zenon DEF TablesInv, TypeInv, LifeInv, Living
  <2>2. ASSUME NEW ls, NEW cs, "new" \notin ls \cup cs, "gone" \notin ls \cup cs
        PROVE  Hands(ls, cs) = {}
    <3>1. \A r \in Runs : Hand(r, task[r], ls, cs) = {}
      BY <1>2, <2>2, Zenon DEF Hand
    <3>. QED
      BY <2>1, <3>1, Zenon DEF Hands
  <2>3. PortHands = {} /\ NameHands = {}
    BY <2>2, Zenon DEF PortHands, NameHands
  <2>4. /\ PortsHeld(ports, PortHands)
        /\ NamesHeld(stcpReg, NameHands, "stcp") /\ NamesHeld(xtcpReg, NameHands, "xtcp")
    BY <1>2, Zenon DEF TablesInv, CoverInv
  <2>. QED
    BY <2>1, <2>3, <2>4 DEF PortsHeld, NamesHeld
<1>3. TablesInv /\ LifeInv => NothingLeaks
  BY <1>2 DEF NothingLeaks
<1>4. TablesInv => TypeInv
  BY DEF TablesInv
<1>. QED
  BY <1>1, <1>3, <1>4, TablesAlways, LifeStep, PTL DEF Spec

=============================================================================
