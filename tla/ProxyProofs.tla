---------------------------- MODULE ProxyProofs ----------------------------
(***************************************************************************)
(* Proofs about two proxies of the server that have nothing in common but  *)
(* that: a tcp group (TcpGroup), and a udp proxy with its tunnel           *)
(* (UdpTunnel), each from its own specification.                           *)
(***************************************************************************)
EXTENDS TcpGroup, UdpTunnel, TLAPS

-----------------------------------------------------------------------------
(***************************************************************************)
(* TcpGroup, for every number of members and of instances: no connection   *)
(* is given to a member that has left, and no port stays allocated that    *)
(* nobody will release, however joins and leaves overlap; and as long as   *)
(* they do not overlap the members share one listener, and its port is     *)
(* allocated exactly while the group has a member.                         *)
(***************************************************************************)

\* A member is on the list of the instance it works with, and only while in.
GroupInv == TypeOK /\ NoGhostBackends

\* A step of register_proxy keeps the backends of the group registered.
LEMMA JoinInv == ASSUME GroupInv, NEW m \in Members, Join(m) PROVE GroupInv'
<1>. USE InstancesAssumption DEF GroupInv, TypeOK, NoGhostBackends, MemberStates, LoopStates,
                                Goto, Out
<1>1. CASE Lookup(m)
  BY <1>1 DEF Lookup
<1>2. CASE CheckPort(m) \/ InsertPort(m)
  BY <1>2 DEF CheckPort, InsertPort
<1>3. CASE Bind(m)
  BY <1>3 DEF Bind
<1>4. CASE BindFails(m)
  BY <1>4 DEF BindFails
<1>5. CASE Publish(m)
  BY <1>5 DEF Publish
<1>6. CASE Add(m)
  <2>1. mine[m] \in Instances
    BY <1>6 DEF Add
  <2>2. TypeOK'
    BY <1>6, <2>1 DEF Add
  <2>3. NoGhostBackends'
    BY <1>6, <2>1 DEF Add
  <2>. QED
    BY <2>2, <2>3
<1>. QED
  BY <1>1, <1>2, <1>3, <1>4, <1>5, <1>6 DEF Join

\* remove_backend takes the member off the list before it is anything but in.
LEMMA LeaveInv == ASSUME GroupInv, NEW m \in Members, Leave(m) PROVE GroupInv'
<1>. USE InstancesAssumption DEF GroupInv, TypeOK, NoGhostBackends, MemberStates, Goto, Out
<1>1. mine[m] \in Instances
  BY DEF Leave
<1>2. TypeOK'
  BY <1>1 DEF Leave
<1>3. NoGhostBackends'
  <2>. SUFFICES ASSUME NEW g \in Instances, NEW n \in backends'[g]
                PROVE  pc'[n] = "in" /\ mine'[n] = g
    OBVIOUS
  <2>1. n \in backends[g] /\ n # m
    BY <1>1 DEF Leave
  <2>. QED
    BY <1>1, <2>1 DEF Leave
<1>. QED
  BY <1>2, <1>3

\* The steps of close() after that do not touch the list.
LEMMA CloseInv == ASSUME GroupInv, NEW m \in Members, Close(m) PROVE GroupInv'
<1>. USE InstancesAssumption DEF GroupInv, TypeOK, NoGhostBackends, MemberStates, LoopStates,
                                Goto, Out
<1>1. CASE Signal(m)
  BY <1>1 DEF Signal
<1>2. CASE Waited(m)
  BY <1>2 DEF Waited
<1>3. CASE Release(m)
  BY <1>3 DEF Release
<1>4. CASE Ungroup(m)
  BY <1>4 DEF Ungroup
<1>. QED
  BY <1>1, <1>2, <1>3, <1>4 DEF Close

\* Nor does the accept loop.
LEMMA LoopInv == ASSUME GroupInv, NEW g \in Instances, Loop(g) \/ AcceptFails(g) PROVE GroupInv'
  BY DEF Loop, Subscribe, EndLoop, AcceptFails, GroupInv, TypeOK, NoGhostBackends, LoopStates

\* Every step keeps the group table, the listeners and the lists in order.
LEMMA GroupStep == GroupInv /\ [GroupNext]_groupVars => GroupInv'
<1>. SUFFICES ASSUME GroupInv, [GroupNext]_groupVars PROVE GroupInv'
  OBVIOUS
<1>1. ASSUME NEW m \in Members, Join(m) \/ Leave(m) \/ Close(m) PROVE GroupInv'
  BY <1>1, JoinInv, LeaveInv, CloseInv
<1>2. ASSUME NEW g \in Instances, Loop(g) \/ AcceptFails(g) PROVE GroupInv'
  BY <1>2, LoopInv
<1>3. CASE UNCHANGED groupVars
  BY <1>3 DEF groupVars, GroupInv, TypeOK, NoGhostBackends
<1>. QED
  BY <1>1, <1>2, <1>3 DEF GroupNext

\* pick_backend never gives a connection to a proxy that has left the group
\* (remove_backend), and the tables keep their shape.
THEOREM GroupSafe == GroupSpec => [](TypeOK /\ NoGhostBackends)
<1>1. GroupInit => GroupInv
  BY InstancesAssumption, ModesAssumption
     DEF GroupInit, GroupInv, TypeOK, NoGhostBackends, MemberStates, LoopStates
<1>. QED
  BY <1>1, GroupStep, PTL DEF GroupSpec, GroupInv

-----------------------------------------------------------------------------
(***************************************************************************)
(* The port, however joins and leaves overlap: whoever allocated it keeps  *)
(* it, hands it to the group or releases it, and a member that leaves      *)
(* others behind leaves holders behind.                                    *)
(***************************************************************************)

HolderInv == held = "yes" => \E m \in Members : Holding(m)

LEMMA HolderStep == GroupInv /\ HolderInv /\ [GroupNext]_groupVars => HolderInv'
<1>. SUFFICES ASSUME GroupInv, HolderInv, [GroupNext]_groupVars, held' = "yes"
              PROVE  \E m \in Members : Holding(m)'
  BY DEF HolderInv
<1>. USE DEF GroupInv, TypeOK, Goto, Out, Holding
<1>1. ASSUME NEW m \in Members, Leave(m) PROVE \E n \in Members : Holding(n)'
  <2>1. mine[m] \in Instances
    BY <1>1 DEF Leave
  <2>2. CASE backends[mine[m]] \subseteq {m}
    BY <1>1, <2>2 DEF Leave
  <2>3. CASE ~(backends[mine[m]] \subseteq {m})
    <3>1. PICK n \in Members : n # m /\ n \in backends[mine[m]]
      BY <2>1, <2>3
    <3>2. pc[n] = "in"
      BY <2>1, <3>1 DEF NoGhostBackends
    <3>. QED
      BY <1>1, <2>3, <3>1, <3>2 DEF Leave
  <2>. QED
    BY <2>2, <2>3
<1>2. ASSUME NEW m \in Members, InsertPort(m) \/ Bind(m) \/ Publish(m) \/ Add(m) \/ Signal(m) \/ Waited(m)
      PROVE  Holding(m)'
  BY <1>2 DEF InsertPort, Bind, Publish, Add, Signal, Waited
<1>3. ASSUME NEW m \in Members, BindFails(m) \/ Release(m) PROVE FALSE
  BY <1>3 DEF BindFails, Release
<1>4. ASSUME NEW m \in Members, Lookup(m) \/ CheckPort(m) \/ Ungroup(m)
      PROVE  \E n \in Members : Holding(n)'
  <2>1. /\ held = "yes" /\ ~Holding(m)
        /\ \A n \in Members \ {m} : pc'[n] = pc[n]
    BY <1>4 DEF Lookup, CheckPort, Ungroup
  <2>. QED
    BY <2>1 DEF HolderInv
<1>5. ASSUME UNCHANGED <<held, pc>> PROVE \E n \in Members : Holding(n)'
  BY <1>5 DEF HolderInv
<1>. QED
  BY <1>1, <1>2, <1>3, <1>4, <1>5
     DEF GroupNext, Join, Close, Loop, Subscribe, EndLoop, AcceptFails, groupVars

-----------------------------------------------------------------------------
(***************************************************************************)
(* Calm use goes through five phases, over and over: no group, a member    *)
(* that opens the listener, a group that is not listed yet, a group with   *)
(* members, a group that is closed.                                        *)
(***************************************************************************)

\* Only g has backends, if any.
OnlyInstance(g) == \A f \in Instances : f # g => backends[f] = {}

NoGroup ==
    /\ group = 0 /\ held = "no"
    /\ OnlyInstance(0)
    /\ \A n \in Members : pc[n] \in {"out", "create"}

Founding(m) ==
    /\ group = 0
    /\ \/ pc[m] = "insert"
       \/ pc[m] = "bind" /\ held = "yes"
       \/ pc[m] = "publish" /\ held = "yes" /\ loop[mine[m]] = "bound"
    /\ \A n \in Members \ {m} : pc[n] \in {"out", "create"}
    /\ OnlyInstance(0)

Sharing ==
    /\ group \in Instances /\ held = "yes"
    /\ OnlyInstance(group)
    /\ loop[group] \in {"bound", "spawned", "accepting", "failed"}
    /\ \A n \in Members : pc[n] \in {"out", "create", "add", "in"}
    /\ \A n \in Members : pc[n] \in {"add", "in"} => mine[n] = group
    /\ \A n \in Members : pc[n] = "in" => n \in backends[group] /\ loop[group] # "bound"
    /\ \E n \in Members : pc[n] \in {"add", "in"}

Shutting(m) ==
    /\ group = mine[m]
    /\ OnlyInstance(0)
    /\ \A n \in Members \ {m} : pc[n] = "out"
    /\ \/ pc[m] \in {"signal", "wait", "release"} /\ held = "yes"
       \/ pc[m] = "ungroup" /\ held = "no"

CalmInv == mode = "calm" =>
    NoGroup \/ (\E m \in Members : Founding(m)) \/ Sharing \/ (\E m \in Members : Shutting(m))

\* Only the first member to come, the last one to go and the listener of the
\* group itself change what the phases are about.
LEMMA FromNoGroup == ASSUME GroupInv, mode = "calm", NoGroup, GroupNext PROVE CalmInv'
<1>. USE DEF GroupInv, TypeOK, OnlyInstance, Goto, Out
<1>1. ASSUME NEW m \in Members, Lookup(m) PROVE NoGroup'
  BY <1>1 DEF Lookup, NoGroup
<1>2. ASSUME NEW m \in Members, CheckPort(m) PROVE Founding(m)'
  BY <1>2 DEF CheckPort, NoGroup, Founding
<1>3. ASSUME NEW m \in Members
      PROVE  /\ ~InsertPort(m) /\ ~Bind(m) /\ ~BindFails(m) /\ ~Publish(m) /\ ~Add(m)
             /\ ~Leave(m) /\ ~Close(m)
  BY DEF NoGroup, InsertPort, Bind, BindFails, Publish, Add, Leave, Close, Signal, Waited,
         Release, Ungroup
<1>4. ASSUME NEW g \in Instances, Loop(g) \/ AcceptFails(g) PROVE NoGroup'
  BY <1>4 DEF Loop, Subscribe, EndLoop, AcceptFails, NoGroup
<1>. QED
  BY <1>1, <1>2, <1>3, <1>4 DEF GroupNext, Join, CalmInv

\* Out of Founding leads the entry in tcp_groups, or a bind that fails.
LEMMA FromFounding ==
  ASSUME GroupInv, mode = "calm", NEW m \in Members, Founding(m), GroupNext PROVE CalmInv'
<1>. USE InstancesAssumption DEF GroupInv, TypeOK, OnlyInstance, Goto, Out
<1>1. ASSUME NEW n \in Members, Lookup(n) PROVE Founding(m)'
  BY <1>1 DEF Lookup, Founding
<1>2. ASSUME NEW n \in Members, CheckPort(n) PROVE Founding(m)'
  <2>1. n # m /\ ~Opening(m)
    BY <1>2 DEF CheckPort, Founding
  <2>2. held = "yes" /\ pc[m] = "publish"
    BY <2>1 DEF Founding, Opening
  <2>. QED
    BY <1>2, <2>1, <2>2 DEF CheckPort, Founding
<1>3. ASSUME NEW n \in Members, InsertPort(n) PROVE Founding(m)'
  BY <1>3 DEF InsertPort, Founding
<1>4. ASSUME NEW n \in Members, Bind(n) PROVE Founding(m)'
  <2>1. n = m
    BY <1>4 DEF Bind, Founding
  <2>2. PICK g \in Instances : /\ loop' = [loop EXCEPT ![g] = "bound"]
                               /\ mine' = [mine EXCEPT ![m] = g]
    BY <1>4, <2>1 DEF Bind
  <2>. QED
    BY <1>4, <2>1, <2>2 DEF Bind, Founding
<1>5. ASSUME NEW n \in Members, BindFails(n) PROVE NoGroup'
  BY <1>5 DEF BindFails, Founding, NoGroup
<1>6. ASSUME NEW n \in Members, Publish(n) PROVE Sharing'
  <2>1. n = m /\ mine[m] \in Instances
    BY <1>6 DEF Publish, Founding
  <2>. QED
    BY <1>6, <2>1 DEF Publish, Founding, Sharing, Instances
<1>7. ASSUME NEW n \in Members PROVE ~Add(n) /\ ~Leave(n) /\ ~Close(n)
  BY DEF Founding, Add, Leave, Close, Signal, Waited, Release, Ungroup
<1>8. ASSUME NEW g \in Instances, Loop(g) \/ AcceptFails(g) PROVE Founding(m)'
  BY <1>8, ZenonT(60) DEF Loop, Subscribe, EndLoop, AcceptFails, Founding
<1>. QED
  BY <1>1, <1>2, <1>3, <1>4, <1>5, <1>6, <1>7, <1>8 DEF GroupNext, Join, CalmInv

\* Out of Sharing leads the last member that leaves.
LEMMA FromSharing == ASSUME GroupInv, mode = "calm", Sharing, GroupNext PROVE CalmInv'
<1>. USE InstancesAssumption DEF GroupInv, TypeOK, OnlyInstance, Goto, Out
<1>1. ASSUME NEW m \in Members, Lookup(m) \/ CheckPort(m) PROVE Sharing'
  BY <1>1 DEF Lookup, CheckPort, Sharing
<1>2. ASSUME NEW m \in Members, Add(m) PROVE Sharing'
  BY <1>2 DEF Add, Sharing
<1>3. ASSUME NEW m \in Members, Leave(m) PROVE Sharing' \/ Shutting(m)'
  <2>1. pc[m] = "in" /\ mine[m] = group /\ m \in backends[group]
    BY <1>3 DEF Leave, Sharing
  <2>2. \A n \in Members : pc[n] \in {"out", "in"}
    BY <1>3 DEF Leave, Sharing, Joining
  <2>3. CASE backends[group] \subseteq {m}
    <3>1. \A n \in Members \ {m} : pc[n] = "out"
      BY <2>2, <2>3 DEF Sharing
    <3>. QED
      BY <1>3, <2>1, <2>3, <3>1 DEF Leave, Sharing, Shutting
  <2>4. CASE ~(backends[group] \subseteq {m})
    <3>1. PICK n \in Members : n # m /\ n \in backends[group]
      BY <2>4 DEF Sharing
    <3>2. pc[n] = "in"
      BY <3>1 DEF NoGhostBackends, Sharing
    <3>. QED
      BY <1>3, <2>1, <2>4, <3>1, <3>2 DEF Leave, Sharing
  <2>. QED
    BY <2>3, <2>4
<1>4. ASSUME NEW m \in Members
      PROVE  ~InsertPort(m) /\ ~Bind(m) /\ ~BindFails(m) /\ ~Publish(m) /\ ~Close(m)
  BY DEF Sharing, InsertPort, Bind, BindFails, Publish, Close, Signal, Waited, Release, Ungroup
<1>5. ASSUME NEW g \in Instances, Loop(g) \/ AcceptFails(g) PROVE Sharing'
  BY <1>5 DEF Loop, Subscribe, EndLoop, AcceptFails, Sharing
<1>. QED
  BY <1>1, <1>2, <1>3, <1>4, <1>5 DEF GroupNext, Join, CalmInv

\* Out of Shutting leads the removal of the entry; nobody joins before it.
LEMMA FromShutting ==
  ASSUME GroupInv, mode = "calm", NEW m \in Members, Shutting(m), GroupNext PROVE CalmInv'
<1>. USE DEF GroupInv, TypeOK, OnlyInstance, Goto, Out
<1>1. ASSUME NEW n \in Members, Signal(n) \/ Waited(n) \/ Release(n) PROVE Shutting(m)'
  <2>1. n = m
    BY <1>1 DEF Signal, Waited, Release, Shutting
  <2>. QED
    BY <1>1, <2>1 DEF Signal, Waited, Release, Shutting
<1>2. ASSUME NEW n \in Members, Ungroup(n) PROVE NoGroup'
  BY <1>2 DEF Ungroup, Shutting, NoGroup
<1>3. ASSUME NEW n \in Members PROVE ~Join(n) /\ ~Leave(n)
  <2>1. Closing(m)
    BY DEF Shutting, Closing
  <2>2. ~Lookup(n)
    BY <2>1 DEF Lookup
  <2>. QED
    BY <2>2 DEF Shutting, Join, CheckPort, InsertPort, Bind, BindFails, Publish, Add, Leave
<1>4. ASSUME NEW g \in Instances, Loop(g) \/ AcceptFails(g) PROVE Shutting(m)'
  BY <1>4 DEF Loop, Subscribe, EndLoop, AcceptFails, Shutting
<1>. QED
  BY <1>1, <1>2, <1>3, <1>4 DEF GroupNext, Close, CalmInv

\* Every step in calm use stays in a phase or leads to the next one.
LEMMA CalmStep == GroupInv /\ CalmInv /\ [GroupNext]_groupVars => CalmInv'
<1>. SUFFICES ASSUME GroupInv, CalmInv, [GroupNext]_groupVars PROVE CalmInv'
  BY SMTT(30)
<1>1. mode' = mode
  BY DEF GroupNext, groupVars, Join, Close, Loop, Lookup, CheckPort, InsertPort, Bind, BindFails,
         Publish, Add, Leave, Signal, Waited, Release, Ungroup, Subscribe, EndLoop, AcceptFails
<1>2. CASE GroupNext
  BY <1>1, <1>2, FromNoGroup, FromFounding, FromSharing, FromShutting DEF CalmInv
<1>3. CASE UNCHANGED groupVars
  BY <1>3 DEF groupVars, CalmInv, NoGroup, Founding, Sharing, Shutting, OnlyInstance
<1>. QED
  BY <1>2, <1>3

LEMMA CalmAlways == GroupSpec => [](SharedWhenCalm /\ PortExact)
<1>1. GroupInit => GroupInv /\ HolderInv /\ CalmInv
  BY InstancesAssumption, ModesAssumption
     DEF GroupInit, GroupInv, TypeOK, NoGhostBackends, MemberStates, LoopStates,
         HolderInv, CalmInv, NoGroup, OnlyInstance
<1>2. HolderInv /\ CalmInv => SharedWhenCalm /\ PortExact
  <2>1. ASSUME mode = "calm", CalmInv, NEW m \in Members
        PROVE  /\ pc[m] = "in" => mine[m] = group /\ (Open(group) \/ loop[group] = "failed")
               /\ Holding(m) => held = "yes"
    <3>. USE DEF Holding
    <3>1. CASE NoGroup
      BY <3>1 DEF NoGroup
    <3>2. ASSUME NEW n \in Members, Founding(n)
          PROVE  pc[m] # "in" /\ (Holding(m) => held = "yes")
      BY <3>2 DEF Founding
    <3>3. CASE Sharing
      BY <3>3 DEF Sharing, Open
    <3>4. ASSUME NEW n \in Members, Shutting(n)
          PROVE  pc[m] # "in" /\ (Holding(m) => held = "yes")
      BY <3>4 DEF Shutting
    <3>. QED
      BY <2>1, <3>1, <3>2, <3>3, <3>4 DEF CalmInv
  <2>. QED
    BY <2>1 DEF HolderInv, SharedWhenCalm, PortExact
<1>. QED
  BY <1>1, <1>2, GroupStep, HolderStep, CalmStep, PTL DEF GroupSpec

\* As long as joins and leaves do not overlap, nor two binds, registered members
\* share the listener of the listed group (register_proxy, add_backend and
\* remove_backend of GroupedTcpProxy), open unless accept() failed for good.
THEOREM SharedSafe == GroupSpec => []SharedWhenCalm
  BY CalmAlways, PTL

\* The port is never left allocated with nobody to release it, and under the
\* same condition it is allocated as long as a member needs it
\* (allocate_tcp_port, release_tcp_port).
THEOREM PortSafe == GroupSpec => []PortExact
  BY CalmAlways, PTL

-----------------------------------------------------------------------------
(***************************************************************************)
(* UdpTunnel: a user of a udp proxy gets the answer to its own packet, for *)
(* any number of packets and tunnels.  The client pairs datagrams with     *)
(* requests by their order alone; what makes that right is that it has one *)
(* request at a time and gives up the whole connection when one times out, *)
(* so a late answer never meets the next request.                          *)
(***************************************************************************)

\* Nothing is at the client, or one request and its datagram or its answer.
Idle(t) == serving[t] = None /\ todo[t] = {} /\ mail[t] = <<>>
Busy(t) == /\ serving[t] \in Packets
           /\ \/ todo[t] = {serving[t]} /\ mail[t] = <<>>
              \/ todo[t] = {} /\ mail[t] = <<serving[t]>>

\* A Resp frame with the answer to its own request.
Pairs == {<<p, p>> : p \in Packets}

ServerInv ==
    /\ up \in [Tunnels -> Seq(Packets)]
    /\ down \in [Tunnels -> Seq(Pairs)]
    /\ slot \in [Packets -> Packets \cup {None, "closed"}]
    /\ got \in [Packets -> Packets \cup {None}]
    /\ \A p \in Packets : slot[p] \in {None, "closed", p} /\ got[p] \in {None, p}

ClientInv ==
    /\ made \in Nat
    /\ link \in [Tunnels -> BOOLEAN]
    /\ serving \in [Tunnels -> Packets \cup {None}]
    /\ todo \in [Tunnels -> SUBSET Packets]
    /\ mail \in [Tunnels -> Seq(Packets)]
    /\ \A t \in Tunnels : /\ t > made => Idle(t)
                          /\ link[t] => t <= made /\ (Idle(t) \/ Busy(t))

PairInv == twice \in BOOLEAN /\ (twice = FALSE => ServerInv /\ ClientInv)

\* A task of a packet, up to what it sends on a tunnel.
LEMMA PacketSteps ==
  ASSUME ServerInv, ClientInv, NEW p \in Packets,
         \/ Arrive(p) \/ UseTunnel(p) \/ StartRequest(p) \/ SendRequest(p) \/ NewTunnel(p)
         \/ RequestFails(p) \/ SendReq(p) \/ SendReqFails(p) \/ Receive(p) \/ WaitTimeout(p)
  PROVE  ServerInv' /\ ClientInv'
<1>1. CASE \/ Arrive(p) \/ UseTunnel(p) \/ StartRequest(p) \/ SendRequest(p)
           \/ RequestFails(p) \/ SendReqFails(p) \/ WaitTimeout(p)
  <2>1. UNCHANGED <<tasks, frames, slot, got, client>>
    BY <1>1 DEF Arrive, UseTunnel, StartRequest, SendRequest, RequestFails, SendReqFails,
                WaitTimeout, handler
  <2>. QED
    BY <2>1, SMTT(60) DEF ServerInv, ClientInv, Idle, Busy, tasks, frames, client
<1>2. CASE NewTunnel(p)
  <2>1. ServerInv'
    BY <1>2 DEF NewTunnel, ServerInv, frames
  <2>2. ClientInv'
    <3>1. /\ made + 1 \in Tunnels /\ made' = made + 1 /\ link' = [link EXCEPT ![made + 1] = TRUE]
          /\ UNCHANGED <<serving, todo, mail>>
      BY <1>2, TunnelsAssumption DEF NewTunnel, ClientInv, client, Tunnels
    <3>2. ASSUME NEW t \in Tunnels
          PROVE  /\ t > made' => Idle(t)'
                 /\ link'[t] => t <= made' /\ (Idle(t) \/ Busy(t))'
      BY <3>1 DEF ClientInv, Idle, Busy, Tunnels
    <3>. QED
      BY <3>1, <3>2 DEF ClientInv
  <2>. QED
    BY <2>1, <2>2
<1>3. CASE SendReq(p)
  <2>1. up' \in [Tunnels -> Seq(Packets)]
    <3>1. \A t \in Tunnels : Append(up[t], p) \in Seq(Packets)
      BY SMTT(60) DEF ServerInv
    <3>2. up' = [up EXCEPT ![tun[p]] = Append(up[tun[p]], p)]
      BY <1>3 DEF SendReq, WriteFrame
    <3>3. CASE tun[p] \in Tunnels
      BY <3>1, <3>2, <3>3 DEF ServerInv
    <3>4. CASE tun[p] \notin Tunnels
      BY <3>2, <3>4 DEF ServerInv
    <3>. QED
      BY <3>3, <3>4
  <2>2. UNCHANGED <<tasks, down, slot, got, client>>
    BY <1>3 DEF SendReq
  <2>. QED
    BY <2>1, <2>2 DEF ServerInv, ClientInv, Idle, Busy, tasks, client
<1>4. CASE Receive(p)
  <2>1. UNCHANGED <<tasks, frames, client>>
    BY <1>4 DEF Receive
  <2>2. ClientInv'
    BY <2>1 DEF ClientInv, Idle, Busy, tasks, client
  <2>3. ServerInv'
    BY <1>4, <2>1 DEF Receive, ServerInv, frames
  <2>. QED
    BY <2>2, <2>3
<1>. QED
  BY <1>1, <1>2, <1>3, <1>4

\* The server's tasks of a tunnel, and the end of its connection.
LEMMA TunnelSteps ==
  ASSUME ServerInv, ClientInv, NEW t \in Tunnels,
         ServerReads(t) \/ ReaderExits(t) \/ WriterLoses(t) \/ WriterExits(t) \/ Break(t)
  PROVE  ServerInv' /\ ClientInv'
<1>1. CASE ServerReads(t)
  <2>1. UNCHANGED <<tasks, up, got, client>>
    BY <1>1 DEF ServerReads, handler
  <2>2. Head(down[t]) \in Pairs /\ Tail(down[t]) \in Seq(Pairs)
    BY <1>1 DEF ServerReads, ServerInv
  <2>3. PICK q \in Packets : Head(down[t]) = <<q, q>>
    BY <2>2, SMTT(60) DEF Pairs
  <2>4. down' \in [Tunnels -> Seq(Pairs)]
    BY <1>1, <2>2 DEF ServerReads, ReadFrame, ServerInv
  <2>5. slot' = slot \/ slot' = [slot EXCEPT ![q] = q]
    <3>1. Head(down[t])[1] = q /\ Head(down[t])[2] = q
      BY <2>3
    <3>2. slot' = IF q \in pending[t] /\ pkt[q] = "wait" THEN [slot EXCEPT ![q] = q] ELSE slot
      BY <1>1, <3>1, Zenon DEF ServerReads
    <3>. QED
      BY <3>2
  <2>6. ServerInv'
    BY <2>1, <2>4, <2>5, ZenonT(60) DEF ServerInv
  <2>. QED
    BY <2>1, <2>6, SMTT(60) DEF ClientInv, Idle, Busy, tasks, client
<1>2. CASE ReaderExits(t)
  <2>1. UNCHANGED <<made, link, frames, got, client>>
    BY <1>2 DEF ReaderExits, handler
  <2>2. ServerInv'
    BY <1>2, <2>1 DEF ReaderExits, ServerInv, frames
  <2>. QED
    BY <2>1, <2>2 DEF ClientInv, Idle, Busy, client
<1>3. CASE WriterLoses(t) \/ WriterExits(t)
  <2>1. UNCHANGED <<made, link, down, slot, got, client>>
    BY <1>3 DEF WriterLoses, WriterExits, tasks, handler
  <2>2. up' \in [Tunnels -> Seq(Packets)]
    <3>1. CASE WriterLoses(t)
      <4>1. Tail(up[t]) \in Seq(Packets)
        BY <3>1 DEF WriterLoses, ServerInv
      <4>. QED
        BY <3>1, <4>1 DEF WriterLoses, ServerInv
    <3>2. CASE WriterExits(t)
      BY <3>2 DEF WriterExits, ServerInv
    <3>. QED
      BY <1>3, <3>1, <3>2
  <2>. QED
    BY <2>1, <2>2 DEF ServerInv, ClientInv, Idle, Busy, client
<1>4. CASE Break(t)
  <2>1. UNCHANGED <<made, slot, got, client>> /\ link' = [link EXCEPT ![t] = FALSE]
    BY <1>4 DEF Break, handler
  <2>2. up' \in [Tunnels -> Seq(Packets)] /\ down' \in [Tunnels -> Seq(Pairs)]
    <3>1. CASE UNCHANGED frames
      BY <3>1 DEF ServerInv, frames
    <3>2. CASE up' = [up EXCEPT ![t] = <<>>] /\ down' = [down EXCEPT ![t] = <<>>]
      BY <3>2 DEF ServerInv
    <3>. QED
      BY <1>4, <3>1, <3>2 DEF Break
  <2>3. ServerInv'
    BY <2>1, <2>2 DEF ServerInv
  <2>4. ClientInv'
    BY <2>1 DEF ClientInv, Idle, Busy, client
  <2>. QED
    BY <2>3, <2>4
<1>. QED
  BY <1>1, <1>2, <1>3, <1>4

\* The client and the local service, which answers once.
LEMMA ClientSteps ==
  ASSUME ServerInv, ClientInv, NEW t \in Tunnels, twice = FALSE, twice' = FALSE,
         \/ ClientReads(t) \/ ClientAnswers(t) \/ ClientTimeout(t)
         \/ \E p \in Packets : LocalAnswers(t, p)
  PROVE  ServerInv' /\ ClientInv'
<1>1. CASE ClientReads(t)
  <2>1. UNCHANGED <<made, link, down, slot, got, mail>>
    BY <1>1 DEF ClientReads, tasks, handler
  <2>2. Head(up[t]) \in Packets /\ up' \in [Tunnels -> Seq(Packets)]
    BY <1>1, SMTT(60) DEF ClientReads, ReadFrame, ServerInv
  <2>3. Idle(t)
    BY <1>1, NoneAssumption, SMTT(60) DEF ClientReads, ClientInv, Busy
  <2>4. serving' = [serving EXCEPT ![t] = Head(up[t])] /\ todo' = [todo EXCEPT ![t] = {Head(up[t])}]
    BY <1>1, <2>3 DEF ClientReads, Idle
  <2>5. ServerInv'
    BY <2>1, <2>2 DEF ServerInv
  <2>6. ClientInv'
    <3>1. t <= made /\ mail[t] = <<>>
      BY <1>1, <2>3 DEF ClientReads, ClientInv, Idle
    <3>2. ASSUME NEW u \in Tunnels
          PROVE  /\ u > made' => Idle(u)'
                 /\ link'[u] => u <= made' /\ (Idle(u) \/ Busy(u))'
      BY <2>1, <2>2, <2>4, <3>1 DEF ClientInv, Idle, Busy, Tunnels
    <3>. QED
      BY <2>1, <2>2, <2>4, <3>2 DEF ClientInv
  <2>. QED
    BY <2>5, <2>6, SMTT(60)
<1>2. CASE ClientAnswers(t)
  <2>1. UNCHANGED <<made, link, up, slot, got, todo>>
    BY <1>2 DEF ClientAnswers, tasks, handler
  <2>2. serving[t] \in Packets /\ todo[t] = {} /\ mail[t] = <<serving[t]>>
    BY <1>2 DEF ClientAnswers, ClientInv, Idle, Busy
  <2>3. /\ down' = [down EXCEPT ![t] = Append(@, <<serving[t], serving[t]>>)]
        /\ serving' = [serving EXCEPT ![t] = None] /\ mail' = [mail EXCEPT ![t] = <<>>]
    BY <1>2, <2>2 DEF ClientAnswers, WriteFrame
  <2>4. <<serving[t], serving[t]>> \in Pairs
    BY <2>2 DEF Pairs
  <2>5. ServerInv'
    BY <2>1, <2>3, <2>4, SMTT(60) DEF ServerInv
  <2>6. ClientInv'
    BY <1>2, <2>1, <2>2, <2>3 DEF ClientAnswers, ClientInv, Idle, Busy
  <2>. QED
    BY <2>5, <2>6
<1>3. CASE ClientTimeout(t)
  <2>1. /\ UNCHANGED <<made, frames, slot, got, todo, mail>>
        /\ link' = [link EXCEPT ![t] = FALSE] /\ serving' = [serving EXCEPT ![t] = None]
    BY <1>3 DEF ClientTimeout, handler
  <2>2. t <= made
    BY <1>3 DEF ClientTimeout, ClientInv
  <2>3. ClientInv'
    BY <2>1, <2>2 DEF ClientInv, Idle, Busy, Tunnels
  <2>. QED
    BY <2>1, <2>3 DEF ServerInv, frames
<1>4. ASSUME NEW p \in Packets, LocalAnswers(t, p) PROVE ServerInv' /\ ClientInv'
  <2>1. UNCHANGED <<made, link, frames, slot, got, serving>> /\ link[t] /\ p \in todo[t]
    BY <1>4 DEF LocalAnswers, tasks, handler
  <2>2. serving[t] = p /\ todo[t] = {p} /\ mail[t] = <<>> /\ t <= made
    BY <2>1 DEF ClientInv, Idle, Busy
  <2>3. todo' = [todo EXCEPT ![t] = {}] /\ mail' = [mail EXCEPT ![t] = <<p>>]
    <3>1. {p} \ {p} = {} /\ Append(<<>>, p) = <<p>>
      OBVIOUS
    <3>2. todo' = [todo EXCEPT ![t] = @ \ {p}] /\ mail' = [mail EXCEPT ![t] = Append(@, p)]
      BY <1>4 DEF LocalAnswers
    <3>. QED
      BY <2>2, <3>1, <3>2
  <2>4. ClientInv'
    BY <2>1, <2>2, <2>3 DEF ClientInv, Idle, Busy, Tunnels
  <2>. QED
    BY <2>1, <2>4 DEF ServerInv, frames
<1>. QED
  BY <1>1, <1>2, <1>3, <1>4

\* Every step keeps requests and answers paired until the service answers twice.
LEMMA PairStep == PairInv /\ [Next]_vars => PairInv'
<1>. SUFFICES ASSUME PairInv, [Next]_vars PROVE PairInv'
  OBVIOUS
<1>1. twice' = twice \/ twice' = TRUE
  BY DEF Next, vars, client, BeginClose, TakeTunnel, OthersAsk, ControlTakes, Arrive, UseTunnel,
         StartRequest, SendRequest, NewTunnel, RequestFails, SendReq, SendReqFails, Receive, WaitTimeout, LocalAnswers, ServerReads,
         ReaderExits, WriterLoses, WriterExits, Break, ClientReads, ClientAnswers, ClientTimeout
<1>2. ASSUME twice = FALSE, twice' = FALSE PROVE ServerInv' /\ ClientInv'
  <2>1. ServerInv /\ ClientInv
    BY <1>2 DEF PairInv
  <2>2. CASE BeginClose \/ TakeTunnel \/ OthersAsk \/ ControlTakes \/ UNCHANGED vars
    <3>1. UNCHANGED <<tasks, frames, slot, got, client>>
      BY <2>2 DEF BeginClose, TakeTunnel, OthersAsk, ControlTakes, vars, handler
    <3>. QED
      BY <2>1, <3>1 DEF ServerInv, ClientInv, Idle, Busy, tasks, frames, client
  <2>. QED
    BY <1>2, <2>1, <2>2, PacketSteps, TunnelSteps, ClientSteps DEF Next
<1>. QED
  BY <1>1, <1>2 DEF PairInv

\* Every answer that reaches a user is the answer to the user's own packet, as
\* long as the local service answers no datagram twice (handle_work_conn of the
\* client, UdpTunnel::roundtrip of the server).
THEOREM OwnAnswers == Spec => []AnswerIsOwn
<1>1. Init => PairInv
  <2>. SUFFICES ASSUME Init PROVE PairInv
    OBVIOUS
  <2>1. ServerInv
    BY DEF Init, ServerInv
  <2>2. ClientInv
    BY DEF Init, ClientInv, Idle
  <2>. QED
    BY <2>1, <2>2 DEF Init, PairInv
<1>2. PairInv => AnswerIsOwn
  BY DEF PairInv, ServerInv, AnswerIsOwn
<1>. QED
  BY <1>1, <1>2, PairStep, PTL DEF Spec
=============================================================================
