------------------------------- MODULE Vhost --------------------------------
(***************************************************************************)
(* VhostManager: http (or https) proxies register the domains they serve,  *)
(* one shared listener is started by the first registration and started    *)
(* again by a later one if it failed, and each connection goes to the next *)
(* proxy of its domain.                                                    *)
(*                                                                         *)
(* The http and the https half are the same code over separate tables; the *)
(* module is one of them.  No operation awaits, so on one thread they run  *)
(* one after the other; on several their table accesses interleave.        *)
(***************************************************************************)
EXTENDS Integers, Sequences, FiniteSets, Functions

CONSTANTS
    Proxies,        \* route keys, run and proxy name
    Domains,
    DomainsOf,      \* collect_domains of each proxy, a sequence without repetitions
    Threads,        \* how many threads: a subset of {"one", "many"}
    MaxPicks,       \* bound on a round-robin counter
    MaxFailures     \* bound on the failures of the listener

ASSUME DomainsAssumption ==
    /\ IsFiniteSet(Domains)
    /\ DomainsOf \in [Proxies -> Seq(Domains) \ {<<>>}]
    /\ Threads \subseteq {"one", "many"} /\ MaxPicks \in Nat /\ MaxFailures \in Nat

VARIABLES
    threads,
    routes,     \* http_routes: the proxies of each domain; no entry is an empty one
    rr,         \* http_rr; no entry is 0
    started,    \* http_listener_started
    tasks,      \* listener tasks that bind, accept, or have failed
    failures,   \* how often the listener failed
    pc,         \* what is being done with a proxy
    todo,       \* the domains it has yet to be added to, or removed from
    picks,      \* history: connections each proxy of a domain got by the present counter, and
    earlier,    \* by earlier ones, since the routes of the domain changed
    drops,      \* history: how many counters of a domain were dropped since then
    stranded    \* history: did the listener fail after the last registration?

listenerVars == <<started, tasks, failures>>
history == <<picks, earlier, drops>>
vars == <<threads, routes, rr, listenerVars, pc, todo, history, stranded>>

NoPicks == [p \in Proxies |-> 0]

Init ==
    /\ threads \in Threads
    /\ routes = [d \in Domains |-> <<>>]
    /\ rr = [d \in Domains |-> 0]
    /\ started = FALSE
    /\ tasks = [binding |-> 0, accepting |-> 0, failed |-> 0]
    /\ failures = 0
    /\ pc = [p \in Proxies |-> "out"]
    /\ todo = [p \in Proxies |-> <<>>]
    /\ picks = [d \in Domains |-> NoPicks]
    /\ earlier = [d \in Domains |-> NoPicks]
    /\ drops = [d \in Domains |-> 0]
    /\ stranded = FALSE

\* The operation on p, which is at l, goes on.
Turn(p, l) ==
    /\ pc[p] = l
    /\ \/ threads = "many"
       \/ tasks.failed = 0 /\ \A q \in Proxies \ {p} : pc[q] \in {"out", "in"}

\* The listener and the connections run.
Polled == threads = "many" \/ \A p \in Proxies : pc[p] \in {"out", "in"}

Goto(p, l) == pc' = [pc EXCEPT ![p] = l]

\* The routes of d become s.
SetRoutes(d, s) ==
    /\ routes' = [routes EXCEPT ![d] = s]
    /\ picks' = [picks EXCEPT ![d] = NoPicks]
    /\ earlier' = [earlier EXCEPT ![d] = NoPicks]
    /\ drops' = [drops EXCEPT ![d] = 0]

-----------------------------------------------------------------------------
(***************************************************************************)
(* register_http                                                           *)
(***************************************************************************)

Register(p) ==
    /\ Turn(p, "out")
    /\ Goto(p, "add")
    /\ todo' = [todo EXCEPT ![p] = DomainsOf[p]]
    /\ UNCHANGED <<threads, routes, rr, listenerVars, history, stranded>>

\* add_routes takes one domain after the other.
AddRoute(p) ==
    /\ Turn(p, "add") /\ todo[p] # <<>>
    /\ LET d == Head(todo[p])
       IN IF p \in Range(routes[d])
          THEN UNCHANGED <<routes, history>>
          ELSE SetRoutes(d, Append(routes[d], p))
    /\ todo' = [todo EXCEPT ![p] = Tail(@)]
    /\ UNCHANGED <<threads, rr, listenerVars, pc, stranded>>

\* Mutant: the flag is set without being looked at.
MutEnsureListenerStarted(p) ==
    /\ Turn(p, "add") /\ todo[p] = <<>>
    /\ started' = TRUE
    /\ tasks' = [tasks EXCEPT !.binding = @ + 1]
    /\ Goto(p, "in")
    /\ stranded' = FALSE
    /\ UNCHANGED <<threads, routes, rr, failures, todo, history>>

\* ensure_http_listener_started: whoever flips the flag spawns the listener.
EnsureListenerStarted(p) ==
    /\ Turn(p, "add") /\ todo[p] = <<>>
    /\ started' = TRUE
    /\ tasks' = IF started THEN tasks ELSE [tasks EXCEPT !.binding = @ + 1]
    /\ Goto(p, "in")
    /\ stranded' = FALSE
    /\ UNCHANGED <<threads, routes, rr, failures, todo, history>>

-----------------------------------------------------------------------------
(***************************************************************************)
(* unregister_route                                                        *)
(***************************************************************************)

\* The domains with a route of p are collected, in the order of the map.
Unregister(p) ==
    /\ Turn(p, "in")
    /\ Goto(p, "retain")
    /\ LET keys == {d \in Domains : p \in Range(routes[d])}
       IN \E s \in Bijection(1..Cardinality(keys), keys) : todo' = [todo EXCEPT ![p] = s]
    /\ UNCHANGED <<threads, routes, rr, listenerVars, history, stranded>>

\* What retain leaves of a domain's routes, which hold p once at most.
Without(s, p) ==
    IF p \in Range(s)
    THEN LET i == CHOOSE i \in DOMAIN s : s[i] = p
         IN SubSeq(s, 1, i - 1) \o SubSeq(s, i + 1, Len(s))
    ELSE s

\* Mutant: the first domain only.
MutRetain(p) ==
    /\ Turn(p, "retain") /\ todo[p] # <<>>
    /\ LET d == Head(todo[p])
           left == Without(routes[d], p)
       IN /\ SetRoutes(d, left)
          /\ IF left = <<>> THEN Goto(p, "remove") /\ UNCHANGED todo
                            ELSE todo' = [todo EXCEPT ![p] = <<>>] /\ UNCHANGED pc
    /\ UNCHANGED <<threads, rr, listenerVars, stranded>>

\* The route is taken out of one of them; an empty entry is then removed.
Retain(p) ==
    /\ Turn(p, "retain") /\ todo[p] # <<>>
    /\ LET d == Head(todo[p])
           left == Without(routes[d], p)
       IN /\ SetRoutes(d, left)
          /\ IF left = <<>> THEN Goto(p, "remove") /\ UNCHANGED todo
                            ELSE todo' = [todo EXCEPT ![p] = Tail(@)] /\ UNCHANGED pc
    /\ UNCHANGED <<threads, rr, listenerVars, stranded>>

\* routes.remove, whatever the entry holds by now ...
RemoveEntry(p) ==
    /\ Turn(p, "remove")
    /\ SetRoutes(Head(todo[p]), <<>>)
    /\ Goto(p, "counter")
    /\ UNCHANGED <<threads, rr, listenerVars, todo, stranded>>

\* ... and rr.remove.
RemoveCounter(p) ==
    /\ Turn(p, "counter")
    /\ LET d == Head(todo[p])
       IN /\ rr' = [rr EXCEPT ![d] = 0]
          /\ picks' = [picks EXCEPT ![d] = NoPicks]
          /\ earlier' = [earlier EXCEPT ![d] = [q \in Proxies |-> @[q] + picks[d][q]]]
          /\ drops' = [drops EXCEPT ![d] = @ + 1]
    /\ todo' = [todo EXCEPT ![p] = Tail(@)]
    /\ Goto(p, "retain")
    /\ UNCHANGED <<threads, routes, listenerVars, stranded>>

Unregistered(p) ==
    /\ Turn(p, "retain") /\ todo[p] = <<>>
    /\ Goto(p, "out")
    /\ UNCHANGED <<threads, routes, rr, listenerVars, todo, history, stranded>>

-----------------------------------------------------------------------------
(***************************************************************************)
(* The listener and its connections                                        *)
(***************************************************************************)

\* run_http_listener binds the port, if no other listener has it.
Bind ==
    /\ Polled
    /\ tasks.binding > 0 /\ tasks.accepting = 0
    /\ tasks' = [tasks EXCEPT !.binding = @ - 1, !.accepting = @ + 1]
    /\ UNCHANGED <<threads, routes, rr, started, failures, pc, todo, history, stranded>>

\* bind or accept fails.
ListenerFails ==
    /\ Polled /\ failures < MaxFailures
    /\ \E l \in {"binding", "accepting"} :
          /\ tasks[l] > 0
          /\ tasks' = [tasks EXCEPT ![l] = @ - 1, !.failed = @ + 1]
    /\ failures' = failures + 1
    /\ stranded' = TRUE
    /\ UNCHANGED <<threads, routes, rr, started, pc, todo, history>>

\* The spawned task clears the flag.
ClearStarted ==
    /\ tasks.failed > 0
    /\ tasks' = [tasks EXCEPT !.failed = @ - 1]
    /\ started' = FALSE
    /\ UNCHANGED <<threads, routes, rr, failures, pc, todo, history, stranded>>

\* Mutant: the counter is read and not advanced.
MutHandleConn(d) ==
    /\ Polled /\ tasks.accepting > 0
    /\ routes[d] # <<>> /\ rr[d] < MaxPicks
    /\ LET p == routes[d][(rr[d] % Len(routes[d])) + 1]
       IN picks' = [picks EXCEPT ![d][p] = @ + 1]
    /\ UNCHANGED <<threads, routes, rr, listenerVars, pc, todo, earlier, drops, stranded>>

\* handle_http_conn: a connection for domain d is given to the next route.
HandleConn(d) ==
    /\ Polled /\ tasks.accepting > 0
    /\ routes[d] # <<>> /\ rr[d] < MaxPicks
    /\ LET p == routes[d][(rr[d] % Len(routes[d])) + 1]
       IN picks' = [picks EXCEPT ![d][p] = @ + 1]
    /\ rr' = [rr EXCEPT ![d] = @ + 1]
    /\ UNCHANGED <<threads, routes, listenerVars, pc, todo, earlier, drops, stranded>>

Next == \/ \E p \in Proxies :
              \/ Register(p) \/ AddRoute(p) \/ EnsureListenerStarted(p)
              \/ Unregister(p) \/ Retain(p) \/ RemoveEntry(p) \/ RemoveCounter(p) \/ Unregistered(p)
        \/ Bind \/ ListenerFails \/ ClearStarted
        \/ \E d \in Domains : HandleConn(d)

Spec == Init /\ [][Next]_vars

-----------------------------------------------------------------------------

\* No domain routes to a proxy that was unregistered, to one that does not serve
\* it, or to one twice, however registrations overlap; and while they do not, a
\* registered proxy has a route for each of its domains.  (When they do, the
\* removal of an emptied entry can take a route with it that was just added.)
RoutesMatch ==
    /\ \A d \in Domains :
          /\ IsInjective(routes[d])
          /\ \A p \in Range(routes[d]) : pc[p] # "out" /\ d \in Range(DomainsOf[p])
    /\ threads = "one" =>
          \A p \in Proxies : pc[p] = "in" => \A d \in Range(DomainsOf[p]) : p \in Range(routes[d])

\* As long as its routes do not change, no proxy of a domain gets two connections
\* more than another one, wherever the counter stood when they last changed; on
\* several threads, where a late rr.remove can drop the counter of a domain that
\* was registered again, one more for each time that happens.
SpreadEvenly ==
    /\ \A d \in Domains : \A p, q \in Range(routes[d]) :
          earlier[d][p] + picks[d][p] <= earlier[d][q] + picks[d][q] + 1 + drops[d]
    /\ threads = "one" => \A d \in Domains : routes[d] # <<>> => drops[d] = 0

\* There is one listener task at most and the flag says whether there is one, so
\* a registered proxy is served unless the listener failed after the last
\* registration.  (On several threads a registration can also come between the
\* failure and the flag, and start no listener.)
ListenerServes ==
    /\ tasks.binding + tasks.accepting + tasks.failed = IF started THEN 1 ELSE 0
    /\ threads = "one" /\ ~stranded /\ (\E p \in Proxies : pc[p] = "in") => tasks.binding + tasks.accepting = 1
=============================================================================
