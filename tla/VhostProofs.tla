---------------------------- MODULE VhostProofs -----------------------------
(***************************************************************************)
(* The vhost listener is started once at a time and serves what is         *)
(* registered, the routes are those of registered proxies, and connections *)
(* are spread evenly, for every number of proxies, domains and failures.   *)
(***************************************************************************)
EXTENDS Vhost, FiniteSetTheorems, TLAPS

PcStates == {"out", "add", "in", "retain", "remove", "counter"}

TaskTypes ==
    /\ pc \in [Proxies -> PcStates]
    /\ tasks \in [binding : Nat, accepting : Nat, failed : Nat]

\* On one thread nothing is seen between a failure and the flag it clears.
FlagFits ==
    /\ started = TRUE => tasks.binding + tasks.accepting + tasks.failed = 1
    /\ started = FALSE => tasks.binding + tasks.accepting + tasks.failed = 0
    /\ threads = "one" /\ tasks.failed > 0 => stranded = TRUE
    /\ threads = "one" /\ stranded = FALSE /\ (\E p \in Proxies : pc[p] = "in") => started = TRUE

ListenerInv == started \in BOOLEAN /\ stranded \in BOOLEAN /\ TaskTypes /\ FlagFits

\* Steps of a proxy's registration and removal that are not about the listener.
LEMMA RouteSteps ==
  ASSUME ListenerInv, NEW p \in Proxies,
         UNCHANGED <<threads, listenerVars, stranded>>,
         \/ UNCHANGED pc
         \/ \E l \in PcStates \ {"in"} : Goto(p, l)
  PROVE  ListenerInv'
  BY DEF ListenerInv, TaskTypes, FlagFits, listenerVars, Goto, PcStates

\* A registration finds the flag set and the listener alive, or starts it.
LEMMA EnsureStep ==
  ASSUME ListenerInv, NEW p \in Proxies, EnsureListenerStarted(p) PROVE ListenerInv'
<1>1. threads' = threads /\ started' = TRUE /\ stranded' = FALSE
  BY DEF EnsureListenerStarted
<1>2. threads = "one" => tasks.failed = 0
  BY DEF EnsureListenerStarted, Turn
<1>3. TaskTypes /\ FlagFits
  BY DEF ListenerInv
<1>4. CASE started = TRUE
  <2>1. tasks' = tasks
    BY <1>4 DEF EnsureListenerStarted
  <2>2. TaskTypes'
    BY <1>3, <2>1 DEF TaskTypes, EnsureListenerStarted, Goto, PcStates
  <2>3. FlagFits'
    BY <1>1, <1>2, <1>3, <1>4, <2>1 DEF FlagFits, TaskTypes
  <2>. QED
    BY <1>1, <2>2, <2>3 DEF ListenerInv
<1>5. CASE started = FALSE
  <2>1. tasks' = [tasks EXCEPT !.binding = @ + 1]
    BY <1>5 DEF EnsureListenerStarted
  <2>2. TaskTypes'
    BY <1>3, <2>1 DEF TaskTypes, EnsureListenerStarted, Goto, PcStates
  <2>3. FlagFits'
    BY <1>1, <1>2, <1>3, <1>5, <2>1 DEF FlagFits, TaskTypes
  <2>. QED
    BY <1>1, <2>2, <2>3 DEF ListenerInv
<1>. QED
  BY <1>4, <1>5, Zenon DEF ListenerInv

\* One count is replaced.
LEMMA OneCount ==
  ASSUME NEW t \in [binding : Nat, accepting : Nat, failed : Nat], NEW n \in Nat
  PROVE  /\ [t EXCEPT !.binding = n] \in [binding : Nat, accepting : Nat, failed : Nat]
         /\ [t EXCEPT !.accepting = n] \in [binding : Nat, accepting : Nat, failed : Nat]
         /\ [t EXCEPT !.failed = n] \in [binding : Nat, accepting : Nat, failed : Nat]
  OBVIOUS

\* A task that moves from one phase to another leaves the counts natural.
LEMMA TaskMoves ==
  ASSUME NEW t \in [binding : Nat, accepting : Nat, failed : Nat]
  PROVE  /\ t.binding > 0 => [t EXCEPT !.binding = @ - 1, !.accepting = @ + 1]
                                 \in [binding : Nat, accepting : Nat, failed : Nat]
         /\ t.binding > 0 => [t EXCEPT !.binding = @ - 1, !.failed = @ + 1]
                                 \in [binding : Nat, accepting : Nat, failed : Nat]
         /\ t.accepting > 0 => [t EXCEPT !.accepting = @ - 1, !.failed = @ + 1]
                                 \in [binding : Nat, accepting : Nat, failed : Nat]
<1>1. /\ t.binding > 0 => t.binding - 1 \in Nat
      /\ t.accepting > 0 => t.accepting - 1 \in Nat
      /\ t.accepting + 1 \in Nat /\ t.failed + 1 \in Nat
  OBVIOUS
<1>2. [t EXCEPT !.binding = @ - 1, !.accepting = @ + 1]
        = [[t EXCEPT !.binding = t.binding - 1] EXCEPT !.accepting = t.accepting + 1]
  OBVIOUS
<1>3. [t EXCEPT !.binding = @ - 1, !.failed = @ + 1]
        = [[t EXCEPT !.binding = t.binding - 1] EXCEPT !.failed = t.failed + 1]
  OBVIOUS
<1>4. [t EXCEPT !.accepting = @ - 1, !.failed = @ + 1]
        = [[t EXCEPT !.accepting = t.accepting - 1] EXCEPT !.failed = t.failed + 1]
  OBVIOUS
<1>. QED
  BY <1>1, <1>2, <1>3, <1>4, OneCount, Zenon

\* The listener binds, fails, and clears the flag.
LEMMA ListenerSteps ==
  ASSUME ListenerInv, Bind \/ ListenerFails \/ ClearStarted PROVE ListenerInv'
<1>1. TaskTypes /\ FlagFits /\ started \in BOOLEAN /\ stranded \in BOOLEAN
  BY DEF ListenerInv
<1>2. CASE Bind
  <2>0. threads' = threads /\ pc' = pc /\ started' = started /\ stranded' = stranded
    BY <1>2 DEF Bind
  <2>1. tasks' \in [binding : Nat, accepting : Nat, failed : Nat] /\ tasks'.failed = tasks.failed
    <3>1. tasks' \in [binding : Nat, accepting : Nat, failed : Nat]
      BY <1>1, <1>2, TaskMoves, Zenon DEF Bind, TaskTypes
    <3>2. tasks'.failed = tasks.failed
      BY <1>1, <1>2 DEF Bind, TaskTypes
    <3>. QED
      BY <3>1, <3>2
  <2>2. (tasks.binding + tasks.accepting + tasks.failed)' = tasks.binding + tasks.accepting + tasks.failed
    BY <1>1, <1>2 DEF Bind, TaskTypes
  <2>3. FlagFits'
    BY <1>1, <2>0, <2>1, <2>2 DEF FlagFits
  <2>. QED
    BY <1>1, <2>0, <2>1, <2>3 DEF ListenerInv, TaskTypes
<1>3. CASE ListenerFails
  <2>1. threads' = threads /\ pc' = pc /\ started' = started /\ stranded' = TRUE
    BY <1>3 DEF ListenerFails
  <2>2. \/ tasks.binding > 0 /\ tasks' = [tasks EXCEPT !.binding = @ - 1, !.failed = @ + 1]
        \/ tasks.accepting > 0 /\ tasks' = [tasks EXCEPT !.accepting = @ - 1, !.failed = @ + 1]
    <3>1. PICK l \in {"binding", "accepting"} :
             tasks[l] > 0 /\ tasks' = [tasks EXCEPT ![l] = @ - 1, !.failed = @ + 1]
      BY <1>3 DEF ListenerFails
    <3>2. CASE l = "binding"
      BY <3>1, <3>2
    <3>3. CASE l = "accepting"
      BY <3>1, <3>3
    <3>. QED
      BY <3>2, <3>3
  <2>3. tasks' \in [binding : Nat, accepting : Nat, failed : Nat]
    BY <1>1, <2>2, TaskMoves, Zenon DEF TaskTypes
  <2>4. (tasks.binding + tasks.accepting + tasks.failed)' = tasks.binding + tasks.accepting + tasks.failed
    <3>1. CASE tasks.binding > 0 /\ tasks' = [tasks EXCEPT !.binding = @ - 1, !.failed = @ + 1]
      BY <1>1, <3>1 DEF TaskTypes
    <3>2. CASE tasks.accepting > 0 /\ tasks' = [tasks EXCEPT !.accepting = @ - 1, !.failed = @ + 1]
      BY <1>1, <3>2 DEF TaskTypes
    <3>. QED
      BY <2>2, <3>1, <3>2
  <2>5. FlagFits'
    BY <1>1, <2>1, <2>4 DEF FlagFits
  <2>. QED
    BY <1>1, <2>1, <2>3, <2>5 DEF ListenerInv, TaskTypes
<1>4. CASE ClearStarted
  <2>1. TaskTypes' /\ threads' = threads /\ pc' = pc /\ started' = FALSE /\ stranded' = stranded
    BY <1>1, <1>4 DEF ClearStarted, TaskTypes
  <2>2. started = TRUE
    BY <1>1, <1>4 DEF ClearStarted, TaskTypes, FlagFits
  <2>3. /\ tasks.failed = 1
        /\ tasks'.binding = 0 /\ tasks'.accepting = 0 /\ tasks'.failed = 0
    BY <1>1, <1>4, <2>2 DEF ClearStarted, TaskTypes, FlagFits
  <2>4. threads = "one" => stranded = TRUE
    BY <1>1, <2>3 DEF FlagFits
  <2>5. FlagFits'
    BY <2>1, <2>3, <2>4 DEF FlagFits
  <2>. QED
    BY <1>1, <2>1, <2>5 DEF ListenerInv
<1>. QED
  BY <1>2, <1>3, <1>4

\* Every step keeps the flag and the listener task together.
LEMMA ListenerStep == ListenerInv /\ [Next]_vars => ListenerInv'
<1>. SUFFICES ASSUME ListenerInv, [Next]_vars PROVE ListenerInv'
  OBVIOUS
<1>1. ASSUME NEW p \in Proxies,
             \/ Register(p) \/ AddRoute(p) \/ Unregister(p) \/ Retain(p)
             \/ RemoveEntry(p) \/ RemoveCounter(p) \/ Unregistered(p)
      PROVE  ListenerInv'
  <2>1. UNCHANGED <<threads, listenerVars, stranded>>
    BY <1>1 DEF Register, AddRoute, Unregister, Retain, RemoveEntry, RemoveCounter, Unregistered
  <2>2. UNCHANGED pc \/ \E l \in PcStates \ {"in"} : Goto(p, l)
    BY <1>1 DEF Register, AddRoute, Unregister, Retain, RemoveEntry, RemoveCounter, Unregistered,
                PcStates
  <2>. QED
    BY <2>1, <2>2, RouteSteps
<1>2. ASSUME NEW p \in Proxies, EnsureListenerStarted(p) PROVE ListenerInv'
  BY <1>2, EnsureStep
<1>3. ASSUME Bind \/ ListenerFails \/ ClearStarted PROVE ListenerInv'
  BY <1>3, ListenerSteps
<1>4. ASSUME NEW d \in Domains, HandleConn(d) PROVE ListenerInv'
  BY <1>4 DEF HandleConn, listenerVars, ListenerInv, TaskTypes, FlagFits
<1>5. CASE UNCHANGED vars
  BY <1>5 DEF vars, listenerVars, ListenerInv, TaskTypes, FlagFits
<1>. QED
  BY <1>1, <1>2, <1>3, <1>4, <1>5 DEF Next

\* At most one listener runs, the flag says whether one does, and on one thread
\* a registered proxy has a listener unless it failed after the registration
\* (ensure_http_listener_started).
THEOREM ListenerSafe == Spec => []ListenerServes
<1>1. Init => ListenerInv
  <2>. SUFFICES ASSUME Init PROVE ListenerInv
    OBVIOUS
  <2>1. TaskTypes /\ started = FALSE /\ ~\E p \in Proxies : pc[p] = "in"
    BY DEF Init, TaskTypes, PcStates
  <2>2. tasks.binding = 0 /\ tasks.accepting = 0 /\ tasks.failed = 0
    BY DEF Init
  <2>3. FlagFits
    BY <2>1, <2>2 DEF FlagFits
  <2>. QED
    BY <2>1, <2>3, Zenon DEF Init, ListenerInv
<1>2. ListenerInv => ListenerServes
  <2>. SUFFICES ASSUME ListenerInv PROVE ListenerServes
    OBVIOUS
  <2>1. CASE started = TRUE
    BY <2>1 DEF ListenerInv, TaskTypes, FlagFits, ListenerServes
  <2>2. CASE started = FALSE
    BY <2>2 DEF ListenerInv, TaskTypes, FlagFits, ListenerServes
  <2>. QED
    BY <2>1, <2>2 DEF ListenerInv
<1>. QED
  BY <1>1, <1>2, ListenerStep, PTL DEF Spec

-----------------------------------------------------------------------------
(***************************************************************************)
(* Facts about sequences                                                   *)
(***************************************************************************)

LEMMA Appended ==
  ASSUME NEW S, NEW s \in Seq(S), NEW e \in S
  PROVE  /\ Append(s, e) \in Seq(S)
         /\ Range(Append(s, e)) = Range(s) \cup {e}
         /\ IsInjective(s) /\ e \notin Range(s) => IsInjective(Append(s, e))
<1>1. Append(s, e) \in Seq(S) /\ Len(Append(s, e)) = Len(s) + 1
  OBVIOUS
<1>2. \A i \in 1..(Len(s) + 1) : Append(s, e)[i] = IF i <= Len(s) THEN s[i] ELSE e
  OBVIOUS
<1>3. Len(s) + 1 \in 1..(Len(s) + 1) /\ 1..Len(s) \subseteq 1..(Len(s) + 1)
  OBVIOUS
<1>4. Range(Append(s, e)) = Range(s) \cup {e}
  <2>1. e \in Range(Append(s, e))
    BY <1>1, <1>2, <1>3 DEF Range
  <2>2. Range(s) \subseteq Range(Append(s, e))
    BY <1>1, <1>2, <1>3 DEF Range
  <2>3. Range(Append(s, e)) \subseteq Range(s) \cup {e}
    BY <1>1, <1>2 DEF Range
  <2>. QED
    BY <2>1, <2>2, <2>3
<1>5. IsInjective(s) /\ e \notin Range(s) => IsInjective(Append(s, e))
  BY <1>1, <1>2 DEF IsInjective, Range
<1>. QED
  BY <1>1, <1>4, <1>5

LEMMA Tailed ==
  ASSUME NEW S, NEW s \in Seq(S), s # <<>>
  PROVE  /\ Head(s) \in S /\ Tail(s) \in Seq(S)
         /\ Range(s) = {Head(s)} \cup Range(Tail(s))
<1>1. /\ Len(s) > 0 /\ Head(s) = s[1] /\ s[1] \in S
      /\ Tail(s) \in Seq(S) /\ Len(Tail(s)) = Len(s) - 1
      /\ \A i \in 1..(Len(s) - 1) : Tail(s)[i] = s[i + 1]
  OBVIOUS
<1>2. Range(s) \subseteq {Head(s)} \cup Range(Tail(s))
  <2>. SUFFICES ASSUME NEW i \in 1..Len(s), i # 1 PROVE s[i] \in Range(Tail(s))
    BY <1>1 DEF Range
  <2>1. i - 1 \in DOMAIN Tail(s) /\ Tail(s)[i - 1] = s[i]
    BY <1>1
  <2>. QED
    BY <2>1, Zenon DEF Range
<1>3. {Head(s)} \cup Range(Tail(s)) \subseteq Range(s)
  BY <1>1 DEF Range
<1>. QED
  BY <1>1, <1>2, <1>3

LEMMA Joined ==
  ASSUME NEW S, NEW u \in Seq(S), NEW v \in Seq(S)
  PROVE  /\ u \o v \in Seq(S) /\ Len(u \o v) = Len(u) + Len(v)
         /\ Len(u) \in Nat /\ Len(v) \in Nat
         /\ \A j \in 1..Len(u) : (u \o v)[j] = u[j]
         /\ \A j \in 1..Len(v) : (u \o v)[Len(u) + j] = v[j]
  OBVIOUS

\* What retain leaves of a domain's routes, which hold p once at most.
LEMMA Removed ==
  ASSUME NEW S, NEW s \in Seq(S), IsInjective(s), NEW p
  PROVE  /\ Without(s, p) \in Seq(S)
         /\ IsInjective(Without(s, p))
         /\ Range(Without(s, p)) = Range(s) \ {p}
<1>1. CASE p \notin Range(s)
  <2>1. Without(s, p) = s
    BY <1>1 DEF Without
  <2>. QED
    BY <1>1, <2>1
<1>2. CASE p \in Range(s)
  <2>. DEFINE i == CHOOSE i \in DOMAIN s : s[i] = p
              t == Without(s, p)
  <2>1. i \in DOMAIN s /\ s[i] = p
    BY <1>2 DEF Range
  <2>2. i \in 1..Len(s)
    BY <2>1
  <2>3. t = SubSeq(s, 1, i - 1) \o SubSeq(s, i + 1, Len(s))
    BY <1>2 DEF Without
  <2>. HIDE DEF i
  <2>. USE <2>2
  <2>4. /\ t \in Seq(S)
        /\ Len(t) = Len(s) - 1
        /\ \A j \in 1..(Len(s) - 1) : t[j] = IF j < i THEN s[j] ELSE s[j + 1]
    <3>. DEFINE u == SubSeq(s, 1, i - 1)
                v == SubSeq(s, i + 1, Len(s))
    <3>1. u \in Seq(S) /\ Len(u) = i - 1 /\ \A j \in 1..(i - 1) : u[j] = s[j]
      OBVIOUS
    <3>2. v \in Seq(S) /\ Len(v) = Len(s) - i /\ \A j \in 1..(Len(s) - i) : v[j] = s[i + j]
      OBVIOUS
    <3>3. t = u \o v
      BY <2>3
    <3>. HIDE DEF t, u, v
    <3>n. Len(s) \in Nat /\ i \in Nat /\ 1 <= i /\ i <= Len(s)
      BY <2>2
    <3>j. /\ t \in Seq(S) /\ Len(t) = Len(u) + Len(v)
          /\ \A j \in 1..(i - 1) : t[j] = u[j]
          /\ \A j \in 1..(Len(s) - i) : t[(i - 1) + j] = v[j]
      <4>1. PICK a : a = u
        OBVIOUS
      <4>2. PICK b : b = v
        OBVIOUS
      <4>3. /\ a \o b \in Seq(S) /\ Len(a \o b) = Len(a) + Len(b)
            /\ \A j \in 1..Len(a) : (a \o b)[j] = a[j]
            /\ \A j \in 1..Len(b) : (a \o b)[Len(a) + j] = b[j]
        BY <3>1, <3>2, <4>1, <4>2, Joined
      <4>. QED
        BY <3>1, <3>2, <3>3, <4>1, <4>2, <4>3, Zenon
    <3>4. t \in Seq(S) /\ Len(t) = Len(s) - 1
      <4>1. (i - 1) + (Len(s) - i) = Len(s) - 1
        BY <3>n
      <4>. QED
        BY <3>1, <3>2, <3>j, <4>1, Zenon
    <3>5. ASSUME NEW j \in 1..(Len(s) - 1) PROVE t[j] = IF j < i THEN s[j] ELSE s[j + 1]
      <4>1. CASE j < i
        <5>1. j \in 1..(i - 1)
          BY <3>n, <4>1
        <5>2. t[j] = s[j]
          BY <3>1, <3>j, <5>1, Zenon
        <5>. QED
          BY <4>1, <5>2
      <4>2. CASE j >= i
        <5>1. PICK k \in 1..(Len(s) - i) : (i - 1) + k = j /\ i + k = j + 1
          <6>1. j - (i - 1) \in 1..(Len(s) - i) /\ (i - 1) + (j - (i - 1)) = j /\ i + (j - (i - 1)) = j + 1
            BY <3>n, <4>2
          <6>. QED
            BY <6>1, Zenon
        <5>2. t[j] = s[j + 1]
          BY <3>2, <3>j, <5>1, Zenon
        <5>. QED
          BY <3>n, <4>2, <5>2
      <4>. QED
        BY <4>1, <4>2
    <3>. QED
      BY <3>4, <3>5
  <2>. HIDE DEF t
  <2>n. Len(s) \in Nat /\ i \in Nat /\ 1 <= i /\ i <= Len(s) /\ DOMAIN s = 1..Len(s) /\ DOMAIN t = 1..(Len(s) - 1)
    BY <2>4
  \* Where a route of t is in s.
  <2>k. \A j \in DOMAIN t : \E k \in DOMAIN s : k # i /\ t[j] = s[k] /\ k = IF j < i THEN j ELSE j + 1
    BY <2>4, <2>n
  <2>5. IsInjective(t)
    <3>1. SUFFICES ASSUME NEW a \in DOMAIN t, NEW b \in DOMAIN t, t[a] = t[b] PROVE a = b
      BY DEF IsInjective
    <3>2. PICK k \in DOMAIN s : t[a] = s[k] /\ k = IF a < i THEN a ELSE a + 1
      BY <2>k
    <3>3. PICK l \in DOMAIN s : t[b] = s[l] /\ l = IF b < i THEN b ELSE b + 1
      BY <2>k
    <3>4. k = l
      BY <3>1, <3>2, <3>3, Zenon DEF IsInjective
    <3>5. a \in Nat /\ b \in Nat
      BY <2>n
    <3>. QED
      BY <2>n, <3>2, <3>3, <3>4, <3>5
  <2>6. Range(t) \subseteq Range(s) \ {p}
    <3>1. SUFFICES ASSUME NEW a \in DOMAIN t PROVE t[a] \in Range(s) /\ t[a] # p
      BY Zenon DEF Range
    <3>2. PICK k \in DOMAIN s : k # i /\ t[a] = s[k]
      BY <2>k
    <3>. QED
      BY <2>1, <3>2, Zenon DEF IsInjective, Range
  <2>7. ASSUME NEW j \in 1..Len(s), s[j] # p PROVE s[j] \in Range(t)
    <3>1. CASE j < i
      BY <2>4, <3>1 DEF Range
    <3>2. CASE j > i
      <4>1. j - 1 \in 1..(Len(s) - 1) /\ t[j - 1] = s[j]
        BY <2>4, <3>2
      <4>. QED
        BY <2>4, <4>1 DEF Range
    <3>. QED
      BY <2>1, <2>7, <3>1, <3>2
  <2>. QED
    <3>1. Range(s) \ {p} \subseteq Range(t)
      BY <2>7 DEF Range
    <3>. QED
      BY <2>4, <2>5, <2>6, <3>1 DEF t
<1>. QED
  BY <1>1, <1>2

-----------------------------------------------------------------------------
(***************************************************************************)
(* The routes                                                              *)
(***************************************************************************)

RouteTypes ==
    /\ pc \in [Proxies -> PcStates]
    /\ todo \in [Proxies -> Seq(Domains)]
    /\ routes \in [Domains -> Seq(Proxies)]
    /\ \A d \in Domains : IsInjective(routes[d])

\* A route of p belongs to its domain, and its removal has yet to come by.
Kept(p, d) ==
    /\ pc[p] # "out" /\ d \in Range(DomainsOf[p])
    /\ pc[p] \in {"retain", "remove", "counter"} => d \in Range(todo[p])
    /\ pc[p] \in {"remove", "counter"} => d # Head(todo[p])

RouteInv ==
    /\ \A d \in Domains : \A p \in Range(routes[d]) : Kept(p, d)
    /\ \A p \in Proxies :
          /\ pc[p] \in {"remove", "counter"} => todo[p] # <<>>
          /\ pc[p] = "add" => Range(todo[p]) \subseteq Range(DomainsOf[p])

\* On one thread: one operation at a time, and the entry it removes is empty still.
OneThread == threads = "one" =>
    /\ \A p, q \in Proxies : p # q /\ pc[p] \notin {"out", "in"} => pc[q] \in {"out", "in"}
    /\ \A p \in Proxies :
          /\ pc[p] \in {"remove", "counter"} => routes[Head(todo[p])] = <<>>
          /\ pc[p] \in {"add", "in"} =>
                \A d \in Range(DomainsOf[p]) :
                    p \in Range(routes[d]) \/ (pc[p] = "add" /\ d \in Range(todo[p]))

RoutesInv == RouteTypes /\ RouteInv /\ OneThread

LEMMA RegisterRoutes ==
  ASSUME RoutesInv, NEW p \in Proxies, Register(p) PROVE RoutesInv'
<1>1. /\ threads' = threads /\ routes' = routes /\ pc[p] = "out"
      /\ pc' = [pc EXCEPT ![p] = "add"] /\ todo' = [todo EXCEPT ![p] = DomainsOf[p]]
  BY DEF Register, Turn, Goto
<1>2. DomainsOf[p] \in Seq(Domains)
  BY DomainsAssumption
<1>3. RouteTypes'
  BY <1>1, <1>2 DEF RoutesInv, RouteTypes, PcStates
<1>4. RouteInv'
  BY <1>1, <1>2 DEF RoutesInv, RouteTypes, RouteInv, Kept
<1>5. OneThread'
  <2>1. threads = "one" => \A q \in Proxies : q # p => pc[q] \in {"out", "in"}
    BY DEF Register, Turn
  <2>. QED
    BY <1>1, <1>2, <2>1 DEF RoutesInv, RouteTypes, OneThread
<1>. QED
  BY <1>3, <1>4, <1>5 DEF RoutesInv

LEMMA AddRouteRoutes ==
  ASSUME RoutesInv, NEW p \in Proxies, AddRoute(p) PROVE RoutesInv'
<1>. DEFINE d == Head(todo[p])
            s == routes'[d]
<1>1. /\ threads' = threads /\ pc' = pc /\ pc[p] = "add" /\ todo[p] # <<>>
      /\ todo' = [todo EXCEPT ![p] = Tail(@)]
  BY DEF AddRoute, Turn
<1>2. todo[p] \in Seq(Domains) /\ pc \in [Proxies -> PcStates] /\ routes \in [Domains -> Seq(Proxies)]
  BY DEF RoutesInv, RouteTypes
<1>3. /\ d \in Domains /\ Tail(todo[p]) \in Seq(Domains)
      /\ Range(todo[p]) = {d} \cup Range(Tail(todo[p]))
  BY <1>1, <1>2, Tailed
<1>4. /\ routes' = [routes EXCEPT ![d] = s] /\ s \in Seq(Proxies) /\ IsInjective(s)
      /\ Range(s) = Range(routes[d]) \cup {p}
  <2>1. CASE p \in Range(routes[d])
    BY <1>2, <1>3, <2>1, Zenon DEF AddRoute, RoutesInv, RouteTypes
  <2>2. CASE p \notin Range(routes[d])
    <3>1. routes' = [routes EXCEPT ![d] = Append(routes[d], p)]
      BY <2>2, Zenon DEF AddRoute, SetRoutes
    <3>2. s = Append(routes[d], p)
      BY <1>2, <1>3, <3>1, Zenon
    <3>3. routes[d] \in Seq(Proxies) /\ IsInjective(routes[d])
      BY <1>3 DEF RoutesInv, RouteTypes
    <3>4. /\ Append(routes[d], p) \in Seq(Proxies) /\ IsInjective(Append(routes[d], p))
          /\ Range(Append(routes[d], p)) = Range(routes[d]) \cup {p}
      BY <2>2, <3>3, Appended
    <3>. QED
      BY <3>1, <3>2, <3>4, Zenon
  <2>. QED
    BY <2>1, <2>2
<1>. HIDE DEF d, s
<1>5. RouteTypes'
  BY <1>1, <1>2, <1>3, <1>4 DEF RoutesInv, RouteTypes
<1>6. \A q \in Proxies, e \in Domains :
         q \in Range(routes'[e]) <=> q \in Range(routes[e]) \/ (q = p /\ e = d)
  BY <1>2, <1>3, <1>4
<1>7. /\ \A q \in Proxies : q # p => todo'[q] = todo[q]
      /\ Range(todo'[p]) \cup {d} = Range(todo[p])
  BY <1>1, <1>2, <1>3 DEF RoutesInv, RouteTypes
<1>8. RouteInv'
  <2>1. \A e \in Domains : Range(routes'[e]) \subseteq Proxies
    BY <1>5 DEF RouteTypes, Range
  <2>2. d \in Range(DomainsOf[p])
    BY <1>1, <1>3, Zenon DEF RoutesInv, RouteInv
  <2>3. ASSUME NEW e \in Domains, NEW q \in Range(routes'[e]) PROVE Kept(q, e)'
    <3>1. CASE q = p
      BY <1>1, <1>6, <2>2, <3>1, Zenon DEF RoutesInv, RouteInv, Kept
    <3>2. CASE q # p
      BY <1>1, <1>6, <1>7, <2>1, <2>3, <3>2 DEF RoutesInv, RouteInv, Kept
    <3>. QED
      BY <3>1, <3>2, Zenon
  <2>4. \A q \in Proxies :
           /\ pc'[q] \in {"remove", "counter"} => todo'[q] # <<>>
           /\ pc'[q] = "add" => Range(todo'[q]) \subseteq Range(DomainsOf[q])
    BY <1>1, <1>7, Zenon DEF RoutesInv, RouteInv
  <2>. QED
    BY <2>3, <2>4 DEF RouteInv
<1>9. OneThread'
  <2>. SUFFICES ASSUME threads = "one" PROVE OneThread'
    BY <1>1 DEF OneThread
  <2>1. \A q \in Proxies : q # p => pc[q] \in {"out", "in"}
    BY DEF AddRoute, Turn
  <2>2. \A q \in Proxies : Range(DomainsOf[q]) \subseteq Domains
    BY DomainsAssumption DEF Range
  <2>3. \A q \in Proxies : pc[q] \in {"add", "in"} =>
           \A e \in Range(DomainsOf[q]) :
               q \in Range(routes[e]) \/ (pc[q] = "add" /\ e \in Range(todo[q]))
    BY Zenon DEF RoutesInv, OneThread
  <2>4. ASSUME NEW q \in Proxies, pc[q] \in {"add", "in"}, NEW e \in Range(DomainsOf[q])
        PROVE  q \in Range(routes'[e]) \/ (pc[q] = "add" /\ e \in Range(todo'[q]))
    BY <1>6, <1>7, <2>2, <2>3, <2>4
  <2>5. \A q \in Proxies : pc[q] \notin {"remove", "counter"}
    BY <1>1, <2>1
  <2>. QED
    BY <1>1, <2>1, <2>4, <2>5 DEF OneThread
<1>. QED
  BY <1>5, <1>8, <1>9 DEF RoutesInv

LEMMA EnsureRoutes ==
  ASSUME RoutesInv, NEW p \in Proxies, EnsureListenerStarted(p) PROVE RoutesInv'
<1>1. /\ threads' = threads /\ routes' = routes /\ todo' = todo /\ pc[p] = "add" /\ todo[p] = <<>>
      /\ pc' = [pc EXCEPT ![p] = "in"]
  BY DEF EnsureListenerStarted, Turn, Goto
<1>2. RouteTypes'
  BY <1>1 DEF RoutesInv, RouteTypes, PcStates
<1>3. RouteInv'
  BY <1>1 DEF RoutesInv, RouteTypes, RouteInv, Kept
<1>4. Range(todo[p]) = {}
  BY <1>1 DEF Range
<1>5. OneThread'
  BY <1>1, <1>4 DEF RoutesInv, RouteTypes, OneThread
<1>. QED
  BY <1>2, <1>3, <1>5 DEF RoutesInv

LEMMA UnregisterRoutes ==
  ASSUME RoutesInv, NEW p \in Proxies, Unregister(p) PROVE RoutesInv'
<1>. DEFINE D == {d \in Domains : p \in Range(routes[d])}
<1>1. threads' = threads /\ routes' = routes /\ pc[p] = "in" /\ pc' = [pc EXCEPT ![p] = "retain"]
  BY DEF Unregister, Turn, Goto
<1>2. PICK s \in Bijection(1..Cardinality(D), D) : todo' = [todo EXCEPT ![p] = s]
  BY Zenon DEF Unregister
<1>3. s \in Seq(Domains) /\ Range(s) = D
  <2>1. Cardinality(D) \in Nat
    <3>1. IsFiniteSet(D)
      BY DomainsAssumption, FS_Subset
    <3>. QED
      BY <3>1, FS_CardinalityType
  <2>2. s \in [1..Cardinality(D) -> D] /\ \A d \in D : \E i \in 1..Cardinality(D) : s[i] = d
    BY DEF Bijection, Surjection
  <2>3. Range(s) = D
    BY <2>2, Zenon DEF Range
  <2>4. s \in [1..Cardinality(D) -> Domains]
    BY <2>2
  <2>. HIDE DEF D
  <2>5. s \in Seq(Domains)
    BY <2>1, <2>4
  <2>. QED
    BY <2>3, <2>5
<1>4. RouteTypes'
  BY <1>1, <1>2, <1>3 DEF RoutesInv, RouteTypes, PcStates
<1>5. /\ pc'[p] = "retain" /\ todo'[p] = s
      /\ \A q \in Proxies : q # p => pc'[q] = pc[q] /\ todo'[q] = todo[q]
  BY <1>1, <1>2 DEF RoutesInv, RouteTypes
<1>6. RouteInv'
  <2>1. ASSUME NEW e \in Domains, NEW q \in Range(routes'[e]) PROVE Kept(q, e)'
    <3>1. q \in Proxies
      BY <1>4 DEF RouteTypes, Range
    <3>2. Kept(q, e)
      BY <1>1, Zenon DEF RoutesInv, RouteInv
    <3>3. CASE q = p
      <4>1. e \in D
        BY <1>1, <2>1, <3>3
      <4>. QED
        BY <1>1, <1>3, <1>5, <3>2, <3>3, <4>1 DEF Kept
    <3>4. CASE q # p
      BY <1>5, <3>1, <3>2, <3>4, Zenon DEF Kept
    <3>. QED
      BY <3>3, <3>4
  <2>. QED
    BY <1>1, <1>5, <2>1 DEF RoutesInv, RouteInv
<1>7. OneThread'
  <2>1. threads = "one" => \A q \in Proxies : q # p => pc[q] \in {"out", "in"}
    BY DEF Unregister, Turn
  <2>. QED
    BY <1>1, <1>5, <2>1 DEF RoutesInv, RouteTypes, OneThread
<1>. QED
  BY <1>4, <1>6, <1>7 DEF RoutesInv

\* retain on one domain: p's route is gone from it, and the other routes are not touched.
LEMMA RetainRoutes ==
  ASSUME RoutesInv, NEW p \in Proxies, Retain(p) PROVE RoutesInv'
<1>. DEFINE d == Head(todo[p])
            s == Without(routes[d], p)
<1>1. /\ threads' = threads /\ pc[p] = "retain" /\ todo[p] # <<>>
      /\ routes' = [routes EXCEPT ![d] = s]
      /\ \/ s = <<>> /\ pc' = [pc EXCEPT ![p] = "remove"] /\ todo' = todo
         \/ s # <<>> /\ pc' = pc /\ todo' = [todo EXCEPT ![p] = Tail(@)]
  BY DEF Retain, Turn, Goto, SetRoutes
<1>2. todo[p] \in Seq(Domains) /\ pc \in [Proxies -> PcStates] /\ routes \in [Domains -> Seq(Proxies)]
  BY DEF RoutesInv, RouteTypes
<1>3. /\ d \in Domains /\ Tail(todo[p]) \in Seq(Domains)
      /\ Range(todo[p]) = {d} \cup Range(Tail(todo[p]))
  BY <1>1, <1>2, Tailed
<1>4. s \in Seq(Proxies) /\ IsInjective(s) /\ Range(s) = Range(routes[d]) \ {p}
  <2>1. routes[d] \in Seq(Proxies) /\ IsInjective(routes[d])
    BY <1>3 DEF RoutesInv, RouteTypes
  <2>. QED
    BY <2>1, Removed
<1>. HIDE DEF d, s
<1>5. RouteTypes'
  BY <1>1, <1>2, <1>3, <1>4, Zenon DEF RoutesInv, RouteTypes, PcStates
<1>6. \A q, e : e \in Domains =>
         (q \in Range(routes'[e]) <=> q \in Range(routes[e]) /\ ~(q = p /\ e = d))
  BY <1>1, <1>2, <1>3, <1>4, Zenon
<1>7. /\ \A q \in Proxies : q # p => todo'[q] = todo[q] /\ pc'[q] = pc[q]
      /\ \/ pc'[p] = "remove" /\ todo'[p] = todo[p] /\ routes'[d] = <<>>
         \/ pc'[p] = "retain" /\ todo'[p] = Tail(todo[p])
  BY <1>1, <1>2, <1>3 DEF RoutesInv, RouteTypes
<1>8. RouteInv'
  <2>1. ASSUME NEW e \in Domains, NEW q \in Range(routes'[e]) PROVE Kept(q, e)'
    <3>1. q \in Proxies
      BY <1>5 DEF RouteTypes, Range
    <3>2. Kept(q, e) /\ ~(q = p /\ e = d)
      BY <1>6, <2>1 DEF RoutesInv, RouteInv
    <3>3. CASE q = p
      BY <1>1, <1>3, <1>7, <3>2, <3>3, Zenon DEF Kept, d
    <3>4. CASE q # p
      BY <1>7, <3>1, <3>2, <3>4, Zenon DEF Kept
    <3>. QED
      BY <3>3, <3>4
  <2>2. \A q \in Proxies :
           /\ pc'[q] \in {"remove", "counter"} => todo'[q] # <<>>
           /\ pc'[q] = "add" => Range(todo'[q]) \subseteq Range(DomainsOf[q])
    BY <1>1, <1>7 DEF RoutesInv, RouteInv
  <2>. QED
    BY <2>1, <2>2 DEF RouteInv
<1>9. OneThread'
  <2>. SUFFICES ASSUME threads = "one" PROVE OneThread'
    BY <1>1 DEF OneThread
  <2>1. \A q \in Proxies : q # p => pc[q] \in {"out", "in"}
    BY DEF Retain, Turn
  <2>2. \A q \in Proxies : Range(DomainsOf[q]) \subseteq Domains
    BY DomainsAssumption DEF Range
  <2>3. ASSUME NEW q \in Proxies, pc'[q] \in {"add", "in"}, NEW e \in Range(DomainsOf[q])
        PROVE  q \in Range(routes'[e])
    <3>1. q # p /\ pc[q] = "in"
      BY <1>7, <2>1, <2>3
    <3>2. q \in Range(routes[e])
      BY <3>1 DEF RoutesInv, OneThread
    <3>. QED
      BY <1>6, <2>2, <3>1, <3>2
  <2>4. \A q \in Proxies : pc'[q] \in {"remove", "counter"} => routes'[Head(todo'[q])] = <<>>
    BY <1>7, <2>1 DEF d
  <2>5. \A q \in Proxies : q # p => pc'[q] \in {"out", "in"}
    BY <1>7, <2>1
  <2>. QED
    BY <2>3, <2>4, <2>5, Zenon DEF OneThread
<1>. QED
  BY <1>5, <1>8, <1>9 DEF RoutesInv

\* routes.remove: on one thread the entry is the empty one that retain left.
LEMMA RemoveEntryRoutes ==
  ASSUME RoutesInv, NEW p \in Proxies, RemoveEntry(p) PROVE RoutesInv'
<1>. DEFINE d == Head(todo[p])
<1>1. /\ threads' = threads /\ pc[p] = "remove" /\ todo' = todo
      /\ routes' = [routes EXCEPT ![d] = <<>>] /\ pc' = [pc EXCEPT ![p] = "counter"]
  BY DEF RemoveEntry, Turn, Goto, SetRoutes
<1>2. todo[p] \in Seq(Domains) /\ pc \in [Proxies -> PcStates] /\ routes \in [Domains -> Seq(Proxies)]
  BY DEF RoutesInv, RouteTypes
<1>3. d \in Domains /\ todo[p] # <<>>
  BY <1>1, <1>2, Tailed DEF RoutesInv, RouteInv
<1>4. <<>> \in Seq(Proxies) /\ IsInjective(<<>>) /\ Range(<<>>) = {}
  BY DEF IsInjective, Range
<1>. HIDE DEF d
<1>5. RouteTypes'
  BY <1>1, <1>2, <1>3, <1>4 DEF RoutesInv, RouteTypes, PcStates
<1>6. /\ \A q, e : e \in Domains /\ q \in Range(routes'[e]) => q \in Range(routes[e]) /\ e # d
      /\ routes[d] = <<>> => routes' = routes
  BY <1>1, <1>2, <1>3, <1>4
<1>7. pc'[p] = "counter" /\ routes'[d] = <<>> /\ \A q \in Proxies : q # p => pc'[q] = pc[q]
  BY <1>1, <1>2, <1>3
<1>8. RouteInv'
  <2>1. ASSUME NEW e \in Domains, NEW q \in Range(routes'[e]) PROVE Kept(q, e)'
    <3>1. q \in Proxies
      BY <1>5 DEF RouteTypes, Range
    <3>2. Kept(q, e)
      BY <1>6, <2>1 DEF RoutesInv, RouteInv
    <3>3. CASE q = p
      BY <1>1, <1>7, <3>2, <3>3 DEF Kept
    <3>4. CASE q # p
      BY <1>1, <1>7, <3>1, <3>2, <3>4 DEF Kept
    <3>. QED
      BY <3>3, <3>4
  <2>2. \A q \in Proxies :
           /\ pc'[q] \in {"remove", "counter"} => todo'[q] # <<>>
           /\ pc'[q] = "add" => Range(todo'[q]) \subseteq Range(DomainsOf[q])
    BY <1>1, <1>3, <1>7, Zenon DEF RoutesInv, RouteInv
  <2>. QED
    BY <2>1, <2>2 DEF RouteInv
<1>9. OneThread'
  <2>. SUFFICES ASSUME threads = "one" PROVE OneThread'
    BY <1>1 DEF OneThread
  <2>1. routes' = routes
    BY <1>1, <1>6 DEF RoutesInv, OneThread, d
  <2>2. \A q \in Proxies : q # p => pc[q] \in {"out", "in"}
    BY DEF RemoveEntry, Turn
  <2>. QED
    BY <1>1, <1>7, <2>1, <2>2 DEF RoutesInv, OneThread, d
<1>. QED
  BY <1>5, <1>8, <1>9 DEF RoutesInv

LEMMA RemoveCounterRoutes ==
  ASSUME RoutesInv, NEW p \in Proxies, RemoveCounter(p) PROVE RoutesInv'
<1>1. /\ threads' = threads /\ pc[p] = "counter" /\ routes' = routes
      /\ todo' = [todo EXCEPT ![p] = Tail(@)] /\ pc' = [pc EXCEPT ![p] = "retain"]
  BY DEF RemoveCounter, Turn, Goto
<1>2. todo \in [Proxies -> Seq(Domains)] /\ pc \in [Proxies -> PcStates]
  BY DEF RoutesInv, RouteTypes
<1>3. /\ Tail(todo[p]) \in Seq(Domains)
      /\ Range(todo[p]) = {Head(todo[p])} \cup Range(Tail(todo[p]))
  BY <1>1, <1>2, Tailed DEF RoutesInv, RouteInv
<1>4. RouteTypes'
  BY <1>1, <1>2, <1>3 DEF RoutesInv, RouteTypes, PcStates
<1>5. /\ pc'[p] = "retain" /\ todo'[p] = Tail(todo[p])
      /\ \A q \in Proxies : q # p => pc'[q] = pc[q] /\ todo'[q] = todo[q]
  BY <1>1, <1>2
<1>6. RouteInv'
  <2>1. ASSUME NEW e \in Domains, NEW q \in Range(routes'[e]) PROVE Kept(q, e)'
    <3>1. q \in Proxies
      BY <1>4 DEF RouteTypes, Range
    <3>2. Kept(q, e)
      BY <1>1, <2>1 DEF RoutesInv, RouteInv
    <3>3. CASE q = p
      BY <1>1, <1>3, <1>5, <3>2, <3>3, Zenon DEF Kept
    <3>4. CASE q # p
      BY <1>5, <3>1, <3>2, <3>4 DEF Kept
    <3>. QED
      BY <3>3, <3>4
  <2>. QED
    BY <1>5, <2>1 DEF RoutesInv, RouteInv
<1>7. OneThread'
  <2>1. threads = "one" => \A q \in Proxies : q # p => pc[q] \in {"out", "in"}
    BY DEF RemoveCounter, Turn
  <2>. QED
    BY <1>1, <1>5, <2>1 DEF RoutesInv, OneThread
<1>. QED
  BY <1>4, <1>6, <1>7 DEF RoutesInv

\* The proxy is out once no domain is left to take its route from.
LEMMA UnregisteredRoutes ==
  ASSUME RoutesInv, NEW p \in Proxies, Unregistered(p) PROVE RoutesInv'
<1>1. /\ threads' = threads /\ routes' = routes /\ todo' = todo /\ pc[p] = "retain" /\ todo[p] = <<>>
      /\ pc' = [pc EXCEPT ![p] = "out"]
  BY DEF Unregistered, Turn, Goto
<1>2. RouteTypes'
  BY <1>1 DEF RoutesInv, RouteTypes, PcStates
<1>3. Range(todo[p]) = {}
  BY <1>1 DEF Range
<1>4. /\ pc'[p] = "out" /\ \A q \in Proxies : q # p => pc'[q] = pc[q]
  BY <1>1 DEF RoutesInv, RouteTypes
<1>5. RouteInv'
  <2>1. ASSUME NEW e \in Domains, NEW q \in Range(routes[e]) PROVE Kept(q, e)'
    <3>1. q \in Proxies
      BY DEF RoutesInv, RouteTypes, Range
    <3>2. Kept(q, e)
      BY DEF RoutesInv, RouteInv
    <3>3. q # p
      BY <1>1, <1>3, <3>2 DEF Kept
    <3>. QED
      BY <1>1, <1>4, <3>1, <3>2, <3>3, Zenon DEF Kept
  <2>. QED
    BY <1>1, <1>4, <2>1 DEF RoutesInv, RouteInv
<1>6. OneThread'
  BY <1>1, <1>4 DEF RoutesInv, OneThread
<1>. QED
  BY <1>2, <1>5, <1>6 DEF RoutesInv

LEMMA RoutesStep == RoutesInv /\ [Next]_vars => RoutesInv'
<1>. SUFFICES ASSUME RoutesInv, [Next]_vars PROVE RoutesInv'
  OBVIOUS
<1>1. ASSUME NEW p \in Proxies,
             \/ Register(p) \/ AddRoute(p) \/ EnsureListenerStarted(p) \/ Unregister(p)
             \/ Retain(p) \/ RemoveEntry(p) \/ RemoveCounter(p) \/ Unregistered(p)
      PROVE  RoutesInv'
  BY <1>1, RegisterRoutes, AddRouteRoutes, EnsureRoutes, UnregisterRoutes,
     RetainRoutes, RemoveEntryRoutes, RemoveCounterRoutes, UnregisteredRoutes, Zenon
<1>2. ASSUME \/ Bind \/ ListenerFails \/ ClearStarted \/ \E d \in Domains : HandleConn(d)
             \/ UNCHANGED vars
      PROVE  RoutesInv'
  <2>1. UNCHANGED <<threads, routes, pc, todo>>
    BY <1>2, Zenon DEF Bind, ListenerFails, ClearStarted, HandleConn, vars
  <2>. QED
    BY <2>1 DEF RoutesInv, RouteTypes, RouteInv, Kept, OneThread
<1>. QED
  BY <1>1, <1>2 DEF Next

LEMMA RoutesAlways == Spec => []RoutesInv
<1>1. Init => RoutesInv
  <2>. SUFFICES ASSUME Init PROVE RoutesInv
    OBVIOUS
  <2>1. \A d \in Domains : routes[d] = <<>> /\ Range(routes[d]) = {} /\ IsInjective(routes[d])
    BY DEF Init, Range, IsInjective
  <2>2. RouteTypes
    BY <2>1 DEF Init, RouteTypes, PcStates
  <2>. QED
    BY <2>1, <2>2 DEF Init, RoutesInv, RouteInv, OneThread
<1>. QED
  BY <1>1, RoutesStep, PTL DEF Spec

\* A domain routes only to proxies that serve it and are registered, to each once,
\* whatever add_routes and unregister_route interleave; and on one thread a
\* registered proxy has all its routes.
THEOREM RoutesSafe == Spec => []RoutesMatch
<1>1. RoutesInv => RoutesMatch
  BY DEF RoutesInv, RouteTypes, RouteInv, Kept, OneThread, RoutesMatch
<1>. QED
  BY <1>1, RoutesAlways, PTL

-----------------------------------------------------------------------------
(***************************************************************************)
(* The round robin                                                         *)
(***************************************************************************)

\* The positions, from 0, that come from s on and before e, counted in a circle.
Passed(s, e) == {i \in Nat : IF s <= e THEN s <= i /\ i < e ELSE s <= i \/ i < e}

\* Of n counts those from s on and before e are one above that of e, the others equal it.
LevelFrom(f, n, s, e) == \A i \in 0..(n - 1) : f[i] = f[e] + IF i \in Passed(s, e) THEN 1 ELSE 0

\* The connections each position of d's routes has had.
Counts(d) == [i \in 0..(Len(routes[d]) - 1) |-> picks[d][routes[d][i + 1]]]

\* The proxy whose turn it is has had as many connections as any, or one less:
\* those that were passed since the counts last were level have had one more.
Level(d) ==
    \E s \in 0..(Len(routes[d]) - 1) :
        LevelFrom(Counts(d), Len(routes[d]), s, rr[d] % Len(routes[d]))

\* What was given by earlier counters differs by one for each of them at most.
EarlierInv ==
    /\ earlier \in [Domains -> [Proxies -> Nat]]
    /\ drops \in [Domains -> Nat]
    /\ \A d \in Domains : \A p, q \in Range(routes[d]) : earlier[d][p] <= earlier[d][q] + drops[d]
    /\ threads = "one" => \A d \in Domains : routes[d] # <<>> => drops[d] = 0

SpreadInv ==
    /\ rr \in [Domains -> Nat]
    /\ picks \in [Domains -> [Proxies -> Nat]]
    /\ \A d \in Domains : routes[d] # <<>> => Level(d)
    /\ EarlierInv

LEMMA Product ==
  ASSUME NEW n \in Nat, NEW k \in Nat PROVE n * k \in Nat /\ n * (k + 1) = (n * k) + n
  OBVIOUS

LEMMA DivMod ==
  ASSUME NEW c \in Nat, NEW n \in Nat, n > 0
  PROVE  c = (n * (c \div n)) + (c % n) /\ c % n \in 0..(n - 1) /\ c \div n \in Nat
  OBVIOUS

\* Of two quotients that leave remainders below n the second is not smaller.
LEMMA Quotients ==
  ASSUME NEW n \in Nat, NEW x \in Nat, NEW y \in Nat, NEW r \in 0..(n - 1), NEW s \in 0..(n - 1),
         (n * x) + r = (n * y) + s
  PROVE  x <= y
<1>. SUFFICES ASSUME x > y PROVE FALSE
  OBVIOUS
<1>. DEFINE k == x - y - 1
            nx == n * x
            ny == n * y
            nk == n * k
<1>1. k \in Nat /\ x = y + (k + 1)
  OBVIOUS
<1>2. nx = ny + (n * (k + 1))
  BY <1>1
<1>3. nx \in Nat /\ ny \in Nat /\ nk \in Nat /\ nx = ny + (nk + n) /\ nx + r = ny + s
  BY <1>1, <1>2, Product
<1>. HIDE DEF k, nx, ny, nk
<1>. QED
  BY <1>3

LEMMA Remainder ==
  ASSUME NEW n \in Nat, NEW k \in Nat, NEW r \in 0..(n - 1)
  PROVE  ((n * k) + r) % n = r
<1>. DEFINE c == (n * k) + r
            z == c \div n
            y == c % n
<1>1. c \in Nat /\ n * k \in Nat
  BY Product
<1>2. (n * k) + r = (n * z) + y /\ y \in 0..(n - 1) /\ z \in Nat
  BY <1>1, DivMod
<1>. HIDE DEF z, y
<1>3. k = z
  <2>1. k <= z /\ z <= k
    BY <1>2, Quotients
  <2>. QED
    BY <1>2, <2>1
<1>4. r = y
  BY <1>1, <1>2, <1>3
<1>. QED
  BY <1>4 DEF y

\* Advancing the counter advances the position, around the circle.
LEMMA NextPosition ==
  ASSUME NEW c \in Nat, NEW n \in Nat, n > 0
  PROVE  (c + 1) % n = IF c % n = n - 1 THEN 0 ELSE (c % n) + 1
<1>. DEFINE k == c \div n
            r == c % n
<1>1. c = (n * k) + r /\ r \in 0..(n - 1) /\ k \in Nat
  BY DivMod
<1>. HIDE DEF k, r
<1>2. n * k \in Nat /\ n * (k + 1) = (n * k) + n
  BY <1>1, Product
<1>3. CASE r = n - 1
  <2>1. c + 1 = (n * (k + 1)) + 0
    BY <1>1, <1>2, <1>3
  <2>2. (c + 1) % n = 0
    BY <1>1, <2>1, Remainder
  <2>. QED
    BY <1>3, <2>2 DEF r
<1>4. CASE r # n - 1
  <2>1. c + 1 = (n * k) + (r + 1) /\ r + 1 \in 0..(n - 1)
    BY <1>1, <1>2, <1>4
  <2>2. (c + 1) % n = r + 1
    BY <1>1, <2>1, Remainder
  <2>. QED
    BY <1>4, <2>2 DEF r
<1>. QED
  BY <1>3, <1>4

\* One more connection: the turn goes to the next position, and when it comes
\* back to where it started the counts are level.
LEMMA OneMore ==
  ASSUME NEW n \in Nat, n > 0, NEW s \in 0..(n - 1), NEW e \in 0..(n - 1), NEW e2 \in 0..(n - 1),
         e2 = IF e = n - 1 THEN 0 ELSE e + 1,
         NEW f \in [0..(n - 1) -> Nat], LevelFrom(f, n, s, e)
  PROVE  \E t \in 0..(n - 1) : LevelFrom([f EXCEPT ![e] = @ + 1], n, t, e2)
<1>. DEFINE g == [f EXCEPT ![e] = @ + 1]
<1>0. \A i \in 0..(n - 1) : g[i] \in Nat /\ g[i] = IF i = e THEN f[i] + 1 ELSE f[i]
  OBVIOUS
<1>. HIDE DEF g
<1>. SUFFICES \E t \in 0..(n - 1) : LevelFrom(g, n, t, e2)
  BY DEF g
<1>1. CASE e2 = s
  <2>1. \A i \in 0..(n - 1) : i # e => i \in Passed(s, e)
    BY <1>1 DEF Passed
  <2>2. \A i \in 0..(n - 1) : g[i] = f[e] + 1
    BY <1>0, <2>1, Zenon DEF LevelFrom
  <2>3. \A i \in 0..(n - 1) : i \notin Passed(e2, e2)
    BY DEF Passed
  <2>4. \A i \in 0..(n - 1) : g[i] = g[e2] + 0
    BY <2>2, SMTT(60)
  <2>. QED
    BY <2>3, <2>4, Zenon DEF LevelFrom
<1>2. CASE e2 # s
  <2>1. e2 # e /\ e2 \notin Passed(s, e) /\ e \notin Passed(s, e)
    BY <1>2 DEF Passed
  <2>2. g[e2] = f[e]
    BY <1>0, <2>1 DEF LevelFrom
  <2>3. \A i \in 0..(n - 1) : i \in Passed(s, e2) <=> i = e \/ i \in Passed(s, e)
    BY <1>2 DEF Passed
  <2>4. \A i \in 0..(n - 1) : g[i] = g[e2] + IF i \in Passed(s, e2) THEN 1 ELSE 0
    BY <1>0, <2>1, <2>2, <2>3 DEF LevelFrom
  <2>. QED
    BY <2>4 DEF LevelFrom
<1>. QED
  BY <1>1, <1>2

\* A domain whose routes change starts from level counts.
LEMMA ChangedIsLevel ==
  ASSUME RouteTypes', rr' \in [Domains -> Nat], NEW d \in Domains, routes'[d] # <<>>, picks'[d] = NoPicks
  PROVE  Level(d)'
<1>. DEFINE n == Len(routes'[d])
            e == rr'[d] % n
<1>1. n \in Nat /\ n > 0 /\ rr'[d] \in Nat
  BY DEF RouteTypes
<1>2. e \in 0..(n - 1)
  BY <1>1, DivMod
<1>. HIDE DEF e
<1>3. \A i \in 0..(n - 1) : routes'[d][i + 1] \in Proxies
  BY <1>1 DEF RouteTypes
<1>4. \A i \in 0..(n - 1) : picks'[d][routes'[d][i + 1]] = 0
  BY <1>3 DEF NoPicks
<1>5. \A i \in 0..(n - 1) : i \notin Passed(e, e)
  BY <1>2 DEF Passed
<1>6. LevelFrom(Counts(d)', n, e, e)
  BY <1>2, <1>4, <1>5, SMTT(60) DEF LevelFrom, Counts
<1>. QED
  BY <1>2, <1>6 DEF Level, e

LEMMA ConnLevel ==
  ASSUME RouteTypes, SpreadInv, NEW d \in Domains, HandleConn(d) PROVE SpreadInv'
<1>. DEFINE n == Len(routes[d])
            e == rr[d] % n
            e2 == (rr[d] + 1) % n
            p == routes[d][e + 1]
<1>1. /\ threads' = threads /\ routes' = routes /\ routes[d] # <<>>
      /\ picks' = [picks EXCEPT ![d][p] = @ + 1]
      /\ rr' = [rr EXCEPT ![d] = @ + 1]
      /\ UNCHANGED <<earlier, drops>>
  BY DEF HandleConn
<1>2. /\ n \in Nat /\ n > 0 /\ rr[d] \in Nat
      /\ routes[d] \in Seq(Proxies) /\ IsInjective(routes[d])
      /\ rr \in [Domains -> Nat] /\ picks \in [Domains -> [Proxies -> Nat]]
  BY <1>1, SMTT(60) DEF RouteTypes, SpreadInv
<1>. HIDE DEF n
<1>3. /\ e \in 0..(n - 1) /\ e2 \in 0..(n - 1)
      /\ e2 = IF e = n - 1 THEN 0 ELSE e + 1
  <2>1. rr[d] + 1 \in Nat
    BY <1>2
  <2>2. e \in 0..(n - 1) /\ e2 \in 0..(n - 1)
    BY <1>2, <2>1, DivMod, Zenon
  <2>. QED
    BY <1>2, <2>2, NextPosition, Zenon
<1>. HIDE DEF e, e2
<1>4. \A i \in 0..(n - 1) : i + 1 \in DOMAIN routes[d] /\ routes[d][i + 1] \in Proxies
  BY <1>2 DEF n
<1>5. /\ rr' \in [Domains -> Nat] /\ picks' \in [Domains -> [Proxies -> Nat]]
      /\ rr'[d] = rr[d] + 1 /\ \A c \in Domains : c # d => rr'[c] = rr[c] /\ picks'[c] = picks[c]
      /\ picks'[d] = [picks[d] EXCEPT ![p] = @ + 1]
  <2>1. p \in Proxies
    BY <1>3, <1>4
  <2>2. picks[d][p] + 1 \in Nat
    BY <1>2, <2>1
  <2>. HIDE DEF p
  <2>3. picks'[d] = [picks[d] EXCEPT ![p] = @ + 1] /\ \A c \in Domains : c # d => picks'[c] = picks[c]
    BY <1>1, <1>2, Zenon
  <2>4. picks' \in [Domains -> [Proxies -> Nat]]
    BY <1>1, <1>2, <2>1, <2>2
  <2>. QED
    BY <1>1, <1>2, <2>3, <2>4
<1>6. Level(d)'
  <2>. DEFINE f == Counts(d)
              g == Counts(d)'
  <2>0. /\ f = [i \in 0..(n - 1) |-> picks[d][routes[d][i + 1]]]
        /\ g = [i \in 0..(n - 1) |-> picks'[d][routes[d][i + 1]]]
    BY <1>1 DEF Counts, n
  <2>. HIDE DEF f, g
  <2>1. f \in [0..(n - 1) -> Nat] /\ g \in [0..(n - 1) -> Nat]
    <3>1. \A i \in 0..(n - 1) : /\ picks[d][routes[d][i + 1]] \in Nat
                                /\ picks'[d][routes[d][i + 1]] \in Nat
      BY <1>2, <1>4, <1>5
    <3>. QED
      BY <2>0, <3>1, Zenon
  <2>2. PICK s \in 0..(n - 1) : LevelFrom(f, n, s, e)
    <3>1. Level(d)
      BY <1>1 DEF SpreadInv
    <3>. QED
      BY <1>3, <3>1 DEF Level, e, n, f
  <2>3. g = [f EXCEPT ![e] = @ + 1]
    <3>1. \A i \in 0..(n - 1) : routes[d][i + 1] = p <=> i = e
      BY <1>2, <1>3, <1>4, SMTT(30) DEF IsInjective
    <3>2. \A i \in 0..(n - 1) : g[i] = IF i = e THEN f[i] + 1 ELSE f[i]
      BY <1>2, <1>4, <1>5, <2>0, <3>1, SMTT(60)
    <3>. QED
      BY <2>1, <3>2
  <2>4. \E t \in 0..(n - 1) : LevelFrom(g, n, t, e2)
    BY <1>2, <1>3, <2>1, <2>2, <2>3, OneMore, Zenon
  <2>5. Len(routes'[d]) = n /\ rr'[d] % n = e2
    BY <1>1, <1>5, Zenon DEF e2, n
  <2>. QED
    BY <2>4, <2>5 DEF Level, g
<1>7. ASSUME NEW c \in Domains, c # d, routes[c] # <<>> PROVE Level(c)'
  BY <1>1, <1>5, <1>7, Zenon DEF SpreadInv, Level, Counts
<1>. QED
  BY <1>1, <1>5, <1>6, <1>7, Zenon DEF SpreadInv, EarlierInv

\* The routes of one domain are replaced, and its counts start over.
LEMMA SetRoutesLevel ==
  ASSUME RoutesInv', RouteTypes, SpreadInv, NEW d \in Domains, NEW s, SetRoutes(d, s),
         UNCHANGED <<threads, rr>>
  PROVE  SpreadInv'
<1>1. RouteTypes' /\ rr' \in [Domains -> Nat] /\ NoPicks \in [Proxies -> Nat]
  BY DEF RoutesInv, SpreadInv, NoPicks
<1>2. /\ picks' \in [Domains -> [Proxies -> Nat]] /\ picks'[d] = NoPicks
      /\ \A c \in Domains : c # d => picks'[c] = picks[c] /\ routes'[c] = routes[c]
  BY <1>1 DEF SetRoutes, SpreadInv, RouteTypes
<1>3. ASSUME NEW c \in Domains, routes'[c] # <<>> PROVE Level(c)'
  <2>1. CASE c = d
    BY <1>1, <1>2, <1>3, <2>1, ChangedIsLevel
  <2>2. CASE c # d
    BY <1>2, <1>3, <2>2, Zenon DEF SpreadInv, Level, Counts
  <2>. QED
    BY <2>1, <2>2
<1>4. EarlierInv'
  <2>1. /\ earlier' \in [Domains -> [Proxies -> Nat]] /\ drops' \in [Domains -> Nat]
        /\ earlier'[d] = NoPicks /\ drops'[d] = 0
        /\ \A c \in Domains : c # d => earlier'[c] = earlier[c] /\ drops'[c] = drops[c]
    BY <1>1 DEF SetRoutes, SpreadInv, EarlierInv
  <2>2. ASSUME NEW c \in Domains, NEW p \in Range(routes'[c]), NEW q \in Range(routes'[c])
        PROVE  earlier'[c][p] <= earlier'[c][q] + drops'[c]
    <3>1. CASE c = d
      <4>1. p \in Proxies /\ q \in Proxies
        BY <1>1 DEF RouteTypes, Range
      <4>. QED
        BY <2>1, <3>1, <4>1 DEF NoPicks
    <3>2. CASE c # d
      BY <1>2, <2>1, <3>2, Zenon DEF SpreadInv, EarlierInv
    <3>. QED
      BY <3>1, <3>2
  <2>3. ASSUME threads' = "one", NEW c \in Domains, routes'[c] # <<>> PROVE drops'[c] = 0
    BY <1>2, <2>1, <2>3, Zenon DEF SpreadInv, EarlierInv
  <2>. QED
    BY <2>1, <2>2, <2>3, Zenon DEF EarlierInv
<1>. QED
  BY <1>1, <1>2, <1>3, <1>4, Zenon DEF SpreadInv

\* Of the present counter, no proxy has had two connections more than another.
LEMMA LevelCounts ==
  ASSUME RouteTypes, SpreadInv, NEW d \in Domains, NEW p \in Range(routes[d]), NEW q \in Range(routes[d])
  PROVE  picks[d][p] <= picks[d][q] + 1
<1>. DEFINE n == Len(routes[d])
            e == rr[d] % n
            f == Counts(d)
<1>1. routes[d] \in Seq(Proxies) /\ n \in Nat
  BY DEF RouteTypes
<1>2. n > 0 /\ routes[d] # <<>>
  BY <1>1 DEF Range
<1>3. PICK s \in 0..(n - 1) : LevelFrom(f, n, s, e)
  BY <1>2, Zenon DEF SpreadInv, Level
<1>4. e \in 0..(n - 1)
  BY <1>1, <1>2, DivMod, Zenon DEF SpreadInv
<1>5. \A r \in Range(routes[d]) : \E i \in 0..(n - 1) : f[i] = picks[d][r]
  <2>. SUFFICES ASSUME NEW r \in Range(routes[d]) PROVE \E i \in 0..(n - 1) : f[i] = picks[d][r]
    BY Zenon
  <2>0. PICK j \in 1..n : r = routes[d][j]
    BY <1>1 DEF Range
  <2>1. j - 1 \in 0..(n - 1) /\ (j - 1) + 1 = j
    BY <1>1
  <2>2. f[j - 1] = picks[d][routes[d][j]]
    BY <2>1, Zenon DEF Counts
  <2>. QED
    BY <2>0, <2>1, <2>2, Zenon
<1>6. \A i \in 0..(n - 1) : f[i] \in Nat
  BY <1>1 DEF Counts, SpreadInv
<1>. HIDE DEF n, e, f
<1>7. \A i, j \in 0..(n - 1) : f[i] <= f[j] + 1
  BY <1>3, <1>4, <1>6 DEF LevelFrom
<1>. QED
  BY <1>5, <1>7, Zenon

\* So what all counters gave differs by one for each of them at most.
LEMMA AllCounts ==
  ASSUME RouteTypes, SpreadInv, NEW d \in Domains, NEW p \in Range(routes[d]), NEW q \in Range(routes[d])
  PROVE  /\ earlier[d][p] + picks[d][p] \in Nat
         /\ earlier[d][p] + picks[d][p] <= earlier[d][q] + picks[d][q] + 1 + drops[d]
<1>1. picks[d][p] <= picks[d][q] + 1 /\ earlier[d][p] <= earlier[d][q] + drops[d]
  BY LevelCounts, Zenon DEF SpreadInv, EarlierInv
<1>2. p \in Proxies /\ q \in Proxies
  BY DEF RouteTypes, Range
<1>3. /\ picks[d][p] \in Nat /\ picks[d][q] \in Nat /\ drops[d] \in Nat
      /\ earlier[d][p] \in Nat /\ earlier[d][q] \in Nat
  BY <1>2, Zenon DEF SpreadInv, EarlierInv
<1>. QED
  BY <1>1, <1>3

\* A counter is dropped: what it gave is added to what earlier ones gave.
LEMMA CounterLevel ==
  ASSUME RoutesInv, RoutesInv', SpreadInv, NEW p \in Proxies, RemoveCounter(p), NEW d \in Domains, d = Head(todo[p])
  PROVE  SpreadInv'
<1>1. /\ pc[p] = "counter" /\ rr' = [rr EXCEPT ![d] = 0]
      /\ picks' = [picks EXCEPT ![d] = NoPicks]
      /\ earlier' = [earlier EXCEPT ![d] = [q \in Proxies |-> @[q] + picks[d][q]]]
      /\ drops' = [drops EXCEPT ![d] = @ + 1]
      /\ UNCHANGED <<threads, routes>>
  BY Zenon DEF RemoveCounter, Turn
<1>2. threads = "one" => routes[d] = <<>>
  BY <1>1, Zenon DEF RoutesInv, OneThread
<1>3. /\ RouteTypes /\ RouteTypes' /\ NoPicks \in [Proxies -> Nat]
      /\ rr \in [Domains -> Nat] /\ picks \in [Domains -> [Proxies -> Nat]]
      /\ earlier \in [Domains -> [Proxies -> Nat]] /\ drops \in [Domains -> Nat]
  BY DEF RoutesInv, SpreadInv, EarlierInv, NoPicks
<1>4. /\ rr' \in [Domains -> Nat] /\ picks' \in [Domains -> [Proxies -> Nat]] /\ picks'[d] = NoPicks
      /\ \A c \in Domains : c # d => /\ rr'[c] = rr[c] /\ picks'[c] = picks[c]
                                     /\ earlier'[c] = earlier[c] /\ drops'[c] = drops[c]
  BY <1>1, <1>3
<1>5. ASSUME NEW c \in Domains, routes'[c] # <<>> PROVE Level(c)'
  <2>1. CASE c = d
    BY <1>3, <1>4, <1>5, <2>1, ChangedIsLevel
  <2>2. CASE c # d
    BY <1>1, <1>4, <1>5, <2>2, Zenon DEF SpreadInv, Level, Counts
  <2>. QED
    BY <2>1, <2>2
<1>6. EarlierInv'
  <2>1. /\ earlier'[d] = [q \in Proxies |-> earlier[d][q] + picks[d][q]] /\ drops'[d] = drops[d] + 1
        /\ drops' \in [Domains -> Nat]
    BY <1>1, <1>3
  <2>2. [q \in Proxies |-> earlier[d][q] + picks[d][q]] \in [Proxies -> Nat]
    BY <1>3
  <2>3. earlier' \in [Domains -> [Proxies -> Nat]]
    BY <1>1, <1>3, <2>2, Zenon
  <2>4. ASSUME NEW c \in Domains, NEW q \in Range(routes'[c]), NEW r \in Range(routes'[c])
        PROVE  earlier'[c][q] <= earlier'[c][r] + drops'[c]
    <3>1. CASE c = d
      <4>1. q \in Range(routes[d]) /\ r \in Range(routes[d]) /\ q \in Proxies /\ r \in Proxies
        BY <1>1, <1>3, <3>1 DEF RouteTypes, Range
      <4>2. earlier'[d][q] = earlier[d][q] + picks[d][q] /\ earlier'[d][r] = earlier[d][r] + picks[d][r]
        BY <2>1, <4>1, Zenon
      <4>3. /\ earlier'[d][q] \in Nat /\ earlier'[d][r] \in Nat
            /\ earlier'[d][q] <= earlier'[d][r] + 1 + drops[d]
        BY <1>3, <4>1, <4>2, AllCounts, Zenon
      <4>4. drops[d] \in Nat /\ drops'[d] = drops[d] + 1
        BY <1>3, <2>1, Zenon
      <4>5. \A i, j, k \in Nat : i <= j + 1 + k => i <= j + (k + 1)
        OBVIOUS
      <4>6. earlier'[d][q] <= earlier'[d][r] + drops'[d]
        BY <4>3, <4>4, <4>5, Zenon
      <4>. QED
        BY <3>1, <4>6, Zenon
    <3>2. CASE c # d
      BY <1>1, <1>4, <3>2, Zenon DEF SpreadInv, EarlierInv
    <3>. QED
      BY <3>1, <3>2, Zenon
  <2>5. ASSUME threads' = "one", NEW c \in Domains, routes'[c] # <<>> PROVE drops'[c] = 0
    BY <1>1, <1>2, <1>4, <2>5, Zenon DEF SpreadInv, EarlierInv
  <2>. QED
    BY <2>1, <2>3, <2>4, <2>5, Zenon DEF EarlierInv
<1>. QED
  BY <1>4, <1>5, <1>6, Zenon DEF SpreadInv

LEMMA SpreadStep == RoutesInv /\ RoutesInv' /\ SpreadInv /\ [Next]_vars => SpreadInv'
<1>. SUFFICES ASSUME RoutesInv, RoutesInv', SpreadInv, [Next]_vars PROVE SpreadInv'
  OBVIOUS
<1>1. RouteTypes
  BY Zenon DEF RoutesInv
<1>2. ASSUME UNCHANGED <<threads, routes, rr, history>> PROVE SpreadInv'
  BY <1>2, Zenon DEF SpreadInv, EarlierInv, Level, Counts, history
<1>3. ASSUME NEW p \in Proxies,
             Register(p) \/ EnsureListenerStarted(p) \/ Unregister(p) \/ Unregistered(p)
      PROVE  SpreadInv'
  BY <1>2, <1>3 DEF Register, EnsureListenerStarted, Unregister, Unregistered
<1>4. ASSUME NEW p \in Proxies, todo[p] # <<>> PROVE Head(todo[p]) \in Domains
  BY <1>1, <1>4, Tailed DEF RouteTypes
<1>5. ASSUME NEW p \in Proxies, AddRoute(p) PROVE SpreadInv'
  <2>1. CASE p \in Range(routes[Head(todo[p])])
    BY <1>2, <1>5, <2>1 DEF AddRoute
  <2>2. CASE p \notin Range(routes[Head(todo[p])])
    BY <1>1, <1>4, <1>5, <2>2, SetRoutesLevel, Zenon DEF AddRoute
  <2>. QED
    BY <2>1, <2>2
<1>6. ASSUME NEW p \in Proxies, Retain(p) PROVE SpreadInv'
  BY <1>1, <1>4, <1>6, SetRoutesLevel, Zenon DEF Retain
<1>7. ASSUME NEW p \in Proxies, RemoveEntry(p) PROVE SpreadInv'
  <2>1. todo[p] # <<>>
    BY <1>7 DEF RemoveEntry, Turn, RoutesInv, RouteInv
  <2>. QED
    BY <1>1, <1>4, <1>7, <2>1, SetRoutesLevel, Zenon DEF RemoveEntry
<1>8. ASSUME NEW p \in Proxies, RemoveCounter(p) PROVE SpreadInv'
  <2>1. todo[p] # <<>>
    BY <1>8 DEF RemoveCounter, Turn, RoutesInv, RouteInv
  <2>. QED
    BY <1>4, <1>8, <2>1, CounterLevel, Zenon
<1>9. ASSUME Bind \/ ListenerFails \/ ClearStarted \/ UNCHANGED vars PROVE SpreadInv'
  BY <1>2, <1>9, Zenon DEF Bind, ListenerFails, ClearStarted, vars
<1>10. ASSUME NEW d \in Domains, HandleConn(d) PROVE SpreadInv'
  BY <1>1, <1>10, ConnLevel
<1>. QED
  BY <1>3, <1>5, <1>6, <1>7, <1>8, <1>9, <1>10 DEF Next

\* The round robin spreads the connections of a domain evenly over its proxies for
\* as long as these stay (handle_http_conn), from whatever position it starts and whatever
\* their number: within one connection on one thread, and on several within one more for
\* each time a late rr.remove dropped the counter meanwhile.
THEOREM SpreadSafe == Spec => []SpreadEvenly
<1>1. Init => SpreadInv
  <2>. SUFFICES ASSUME Init PROVE SpreadInv
    OBVIOUS
  <2>1. \A d \in Domains : routes[d] = <<>> /\ Range(routes[d]) = {}
    BY DEF Init, Range
  <2>2. /\ NoPicks \in [Proxies -> Nat]
        /\ drops \in [Domains -> Nat] /\ rr \in [Domains -> Nat] /\ \A d \in Domains : drops[d] = 0
    BY DEF Init, NoPicks
  <2>. QED
    BY <2>1, <2>2, Zenon DEF Init, SpreadInv, EarlierInv
<1>2. RoutesInv /\ SpreadInv => SpreadEvenly
  <2>. SUFFICES ASSUME RoutesInv, SpreadInv PROVE SpreadEvenly
    BY Zenon
  <2>1. RouteTypes
    BY Zenon DEF RoutesInv
  <2>2. \A d \in Domains : \A p, q \in Range(routes[d]) :
           earlier[d][p] + picks[d][p] <= earlier[d][q] + picks[d][q] + 1 + drops[d]
    BY <2>1, AllCounts, Zenon
  <2>. QED
    BY <2>2, Zenon DEF SpreadEvenly, SpreadInv, EarlierInv
<1>3. RoutesInv /\ RoutesInv' /\ SpreadInv /\ [Next]_vars => SpreadInv'
  BY SpreadStep
<1>. QED
  BY <1>1, <1>2, <1>3, RoutesAlways, PTL DEF Spec

=============================================================================
