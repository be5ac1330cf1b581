------------------------------ MODULE TcpGroup ------------------------------
(***************************************************************************)
(* A load-balancing group of tcp proxies: members of one group id join and *)
(* leave, the first one opens the shared listener and the last one closes  *)
(* it (GroupedTcpProxy, GroupedMemberProxy, register_proxy).               *)
(*                                                                         *)
(* One group id, hence one remote_port.  Each GroupedTcpProxy object made  *)
(* for it is an instance, numbered in the order of creation.               *)
(***************************************************************************)
EXTENDS Naturals

CONSTANTS
    Members,        \* proxies of the group, each registered by its own run
    MaxInstances,   \* bound on the number of GroupedTcpProxy objects
    Modes           \* how the members behave: a subset of {"calm", "churn"}

ASSUME InstancesAssumption == MaxInstances \in Nat \ {0}
ASSUME ModesAssumption == Modes \subseteq {"calm", "churn"}

VARIABLES
    mode,       \* "calm": members do not join while another one leaves, and are not
                \* both between the check of the port table and the bind; on one
                \* thread these are one step
    group,      \* tcp_groups: the instance listed under the group id, 0 if none
    held,       \* is the port in ResourceController.tcp_ports: "yes" or "no"
    loop,       \* the listener and accept loop of each instance
    backends,   \* GroupedTcpProxy.backends of each instance
    pc,         \* what the task that registers or closes a member is doing
    mine,       \* the instance a member works with
    missed      \* history: the instances that were shut down before run_loop subscribed

groupVars == <<mode, group, held, loop, backends, pc, mine, missed>>

Instances == 1..MaxInstances

LoopStates == {"none",       \* not created
               "bound",      \* the listener is open, run_loop is not spawned
               "spawned",    \* spawned, not yet subscribed to shutdown_tx
               "accepting",
               "signalled",  \* a shutdown is waiting to be received
               "done",       \* listener dropped, close_done sent
               "failed"}     \* listener dropped on an error, close_done not sent

MemberStates == {"out", "create", "insert", "bind", "publish", "add", "in",
                 "signal", "wait", "release", "ungroup"}

\* The group table, the listeners and the members keep their shape; a member
\* past its creation step has an instance to work with.
TypeOK ==
    /\ mode \in Modes
    /\ group \in Instances \cup {0}
    /\ held \in {"yes", "no"}
    /\ loop \in [Instances -> LoopStates]
    /\ backends \in [Instances -> SUBSET Members]
    /\ pc \in [Members -> MemberStates]
    /\ mine \in [Members -> Instances \cup {0}]
    /\ missed \subseteq Instances
    /\ \A m \in Members : pc[m] \notin {"out", "create", "insert", "bind"} => mine[m] \in Instances

GroupInit ==
    /\ mode \in Modes
    /\ group = 0
    /\ held = "no"
    /\ loop = [g \in Instances |-> "none"]
    /\ backends = [g \in Instances |-> {}]
    /\ pc = [m \in Members |-> "out"]
    /\ mine = [m \in Members |-> 0]
    /\ missed = {}

Open(g) == loop[g] \in {"bound", "spawned", "accepting", "signalled"}

Goto(m, l) == pc' = [pc EXCEPT ![m] = l]

\* The member is registered nowhere.
Out(m) == Goto(m, "out") /\ mine' = [mine EXCEPT ![m] = 0]

-----------------------------------------------------------------------------
(***************************************************************************)
(* register_proxy of a grouped tcp proxy                                   *)
(***************************************************************************)

Opening(m) == pc[m] \in {"insert", "bind"}
Joining(m) == Opening(m) \/ pc[m] \in {"create", "publish", "add"}
Closing(m) == pc[m] \in {"signal", "wait", "release", "ungroup"}

\* The group is looked up in tcp_groups.
Lookup(m) ==
    /\ pc[m] = "out"
    /\ mode = "churn" \/ \A n \in Members : ~Closing(n)
    /\ mine' = [mine EXCEPT ![m] = group]
    /\ Goto(m, IF group = 0 THEN "create" ELSE "add")
    /\ UNCHANGED <<mode, group, held, loop, backends, missed>>

\* GroupedTcpProxy::new: allocate_tcp_port looks whether the port is taken ...
CheckPort(m) ==
    /\ pc[m] = "create"
    /\ mode = "churn" \/ \A n \in Members : ~Opening(n)
    /\ IF held = "no" THEN Goto(m, "insert") /\ UNCHANGED mine ELSE Out(m)
    /\ UNCHANGED <<mode, group, held, loop, backends, missed>>

\* ... and takes it, whoever has done so meanwhile.
InsertPort(m) ==
    /\ pc[m] = "insert"
    /\ held' = "yes"
    /\ Goto(m, "bind")
    /\ UNCHANGED <<mode, group, loop, backends, mine, missed>>

\* The listener is opened.
Bind(m) ==
    /\ pc[m] = "bind"
    /\ \A g \in Instances : ~Open(g)
    /\ \E g \in Instances :
          /\ loop[g] = "none" /\ \A f \in Instances : f < g => loop[f] # "none"
          /\ loop' = [loop EXCEPT ![g] = "bound"]
          /\ mine' = [mine EXCEPT ![m] = g]
    /\ Goto(m, "publish")
    /\ UNCHANGED <<mode, group, held, backends, missed>>

\* Mutant: the port stays taken.
MutBindFails(m) ==
    /\ pc[m] = "bind"
    /\ Out(m)
    /\ UNCHANGED <<mode, group, held, loop, backends, missed>>

\* The bind fails, as on a port that is in use; the port is released again.
BindFails(m) ==
    /\ pc[m] = "bind"
    /\ held' = "no"
    /\ Out(m)
    /\ UNCHANGED <<mode, group, loop, backends, missed>>

\* Mutant: the instance is never listed.
MutPublish(m) ==
    /\ pc[m] = "publish"
    /\ Goto(m, "add")
    /\ UNCHANGED <<mode, group, held, loop, backends, mine, missed>>

\* tcp_groups.insert
Publish(m) ==
    /\ pc[m] = "publish"
    /\ group' = mine[m]
    /\ Goto(m, "add")
    /\ UNCHANGED <<mode, held, loop, backends, mine, missed>>

\* add_backend, ensure_started, and the proxy is registered.
Add(m) ==
    /\ pc[m] = "add"
    /\ backends' = [backends EXCEPT ![mine[m]] = @ \cup {m}]
    /\ loop' = [loop EXCEPT ![mine[m]] = IF @ = "bound" THEN "spawned" ELSE @]
    /\ Goto(m, "in")
    /\ UNCHANGED <<mode, group, held, mine, missed>>

-----------------------------------------------------------------------------
(***************************************************************************)
(* GroupedMemberProxy::close                                               *)
(***************************************************************************)

\* Mutant: the last member forgets to take itself off the list.
MutLeave(m) ==
    /\ pc[m] = "in"
    /\ mode = "churn" \/ \A n \in Members : ~Joining(n)
    /\ IF backends[mine[m]] \subseteq {m}
       THEN Goto(m, "signal") /\ UNCHANGED <<mine, backends>>
       ELSE Out(m) /\ backends' = [backends EXCEPT ![mine[m]] = @ \ {m}]
    /\ UNCHANGED <<mode, group, held, loop, missed>>

\* remove_backend: the last one out closes the group.
Leave(m) ==
    /\ pc[m] = "in"
    /\ mode = "churn" \/ \A n \in Members : ~Joining(n)
    /\ backends' = [backends EXCEPT ![mine[m]] = @ \ {m}]
    /\ IF backends[mine[m]] \subseteq {m} THEN Goto(m, "signal") /\ UNCHANGED mine ELSE Out(m)
    /\ UNCHANGED <<mode, group, held, loop, missed>>

\* shutdown_tx.send reaches the accept loop only if it has subscribed.
Signal(m) ==
    /\ pc[m] = "signal"
    /\ loop' = [loop EXCEPT ![mine[m]] = IF @ = "accepting" THEN "signalled" ELSE @]
    /\ missed' = IF loop[mine[m]] = "spawned" THEN missed \cup {mine[m]} ELSE missed
    /\ Goto(m, "wait")
    /\ UNCHANGED <<mode, group, held, backends, mine>>

\* It waits for close_done, but at most 3 s.
Waited(m) ==
    /\ pc[m] = "wait"
    /\ Goto(m, "release")
    /\ UNCHANGED <<mode, group, held, loop, backends, mine, missed>>

\* Mutant: the port stays allocated.
MutRelease(m) ==
    /\ pc[m] = "release"
    /\ Goto(m, "ungroup")
    /\ UNCHANGED <<mode, group, held, loop, backends, mine, missed>>

\* release_tcp_port
Release(m) ==
    /\ pc[m] = "release"
    /\ held' = "no"
    /\ Goto(m, "ungroup")
    /\ UNCHANGED <<mode, group, loop, backends, mine, missed>>

\* groups.remove(group_id), whichever instance is listed there.
Ungroup(m) ==
    /\ pc[m] = "ungroup"
    /\ group' = 0
    /\ Out(m)
    /\ UNCHANGED <<mode, held, loop, backends, missed>>

-----------------------------------------------------------------------------
(***************************************************************************)
(* run_loop                                                                *)
(***************************************************************************)

Subscribe(g) ==
    /\ loop[g] = "spawned"
    /\ loop' = [loop EXCEPT ![g] = "accepting"]
    /\ UNCHANGED <<mode, group, held, backends, pc, mine, missed>>

EndLoop(g) ==
    /\ loop[g] = "signalled"
    /\ loop' = [loop EXCEPT ![g] = "done"]
    /\ UNCHANGED <<mode, group, held, backends, pc, mine, missed>>

\* accept() fails for good: the loop returns without telling anyone.
AcceptFails(g) ==
    /\ loop[g] = "accepting"
    /\ loop' = [loop EXCEPT ![g] = "failed"]
    /\ UNCHANGED <<mode, group, held, backends, pc, mine, missed>>

-----------------------------------------------------------------------------

Join(m) == \/ Lookup(m) \/ CheckPort(m) \/ InsertPort(m) \/ Bind(m) \/ BindFails(m)
           \/ Publish(m) \/ Add(m)

Close(m) == Signal(m) \/ Waited(m) \/ Release(m) \/ Ungroup(m)

Loop(g) == Subscribe(g) \/ EndLoop(g)

GroupNext ==
    \/ \E m \in Members : Join(m) \/ Leave(m) \/ Close(m)
    \/ \E g \in Instances : Loop(g) \/ AcceptFails(g)

GroupSpec == GroupInit /\ [][GroupNext]_groupVars

\* Once a task closes a member it goes on, and so does an accept loop.
GroupFairness ==
    /\ \A m \in Members : WF_groupVars(Close(m))
    /\ \A g \in Instances : WF_groupVars(Loop(g))

GroupFairSpec == GroupSpec /\ GroupFairness

-----------------------------------------------------------------------------

\* As long as nobody joins while another member leaves, nor opens the listener
\* while another one does, every registered member shares the one listener of
\* its group: its instance is the one new members join, and its listener is
\* open unless accept() failed for good.
SharedWhenCalm ==
    mode = "calm" =>
       \A m \in Members : pc[m] = "in" => mine[m] = group /\ (Open(group) \/ loop[group] = "failed")

\* The member has the port allocated, or is the one that will release it.
Holding(m) == pc[m] \in {"bind", "publish", "add", "in", "signal", "wait", "release"}

\* The port is never left allocated with nobody to release it, however joins
\* and leaves overlap; and in calm use it is allocated for all the time that
\* the group has a member, be it one that is being added or removed.  (Else a
\* member whose bind failed, or a late one, may release the port of others.)
PortExact ==
    /\ held = "yes" => \E m \in Members : Holding(m)
    /\ mode = "calm" => \A m \in Members : Holding(m) => held = "yes"

\* A connection is never given to a proxy that has left: backends holds only
\* members that are registered with that very instance.
NoGhostBackends ==
    \A g \in Instances : \A m \in backends[g] : pc[m] = "in" /\ mine[m] = g

\* When the last member leaves, the port becomes free again and the listener is
\* closed, so that the port can be bound, unless somebody joins or the shutdown
\* was sent before run_loop subscribed to it.
PortComesBack ==
    (\A m \in Members : pc[m] = "out" \/ Closing(m)) ~>
       \/ held = "no" /\ \A g \in Instances : Open(g) => g \in missed
       \/ \E m \in Members : Joining(m) \/ pc[m] = "in"
=============================================================================
