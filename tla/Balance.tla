------------------------------ MODULE Balance -------------------------------
(***************************************************************************)
(* Health of the backends of a tcp group, end to end: the server rotates   *)
(* over the backends, ejects the one whose connection failed and tries it  *)
(* again later (pick_backend, mark_backend_failure); the client of a       *)
(* backend probes the local service when it is handed a work connection    *)
(* and leaves requests for an unhealthy proxy unanswered (check_health,    *)
(* is_available).                                                          *)
(*                                                                         *)
(* Each backend has its own client.  The control connections stay up and a *)
(* work connection can be opened; opening one takes less time than the     *)
(* request for one may wait.                                               *)
(***************************************************************************)
EXTENDS Integers, SequencesExt, FiniteSetsExt

CONSTANTS
    Order,          \* GroupedTcpProxy.backends, a sequence
    Checked,        \* the backends with health_check_enable
    Users,
    Pools,          \* the values of pool_count
    FailThreshold,  \* BACKEND_FAIL_THRESHOLD
    MaxFailed,      \* health_check_max_failed
    MaxFlips,       \* bound on the changes of the local services
    MaxStale,       \* bound on the abandoned requests that are counted
    None

Backends == Range(Order)

ASSUME BalanceAssumption ==
    /\ Order # <<>> /\ IsInjective(Order) /\ Checked \subseteq Backends
    /\ Pools \subseteq Nat /\ FailThreshold \in Nat \ {0} /\ MaxFailed \in Nat \ {0}
    /\ MaxFlips \in Nat /\ MaxStale \in Nat /\ None \notin Backends

VARIABLES
    pool,       \* transport.pool_count
    up,         \* the local services that answer
    flips,
    rr,         \* GroupedTcpProxy.rr, modulo the number of backends
    failures,   \* GroupedBackendState.failures, up to FailThreshold
    ejected,    \* the backends whose ejected_until is in the future
    healthy,    \* TcpProxy.healthy: the backends for which it is true
    failed,     \* TcpProxy.health_failed, up to MaxFailed
    fresh,      \* the backends whose last check is younger than the interval
    idle,       \* idle_work_conns of each backend's Control
    stale,      \* the requests in its pending_work_conns that were abandoned
    user        \* what the task of a user's connection is doing

serverVars == <<rr, failures, ejected, idle, stale>>
healthVars == <<healthy, failed, fresh>>
worldVars == <<pool, up, flips>>
vars == <<worldVars, serverVars, healthVars, user>>

Nobody == [at |-> "away", b |-> None, pooled |-> FALSE]

Init ==
    /\ pool \in Pools
    /\ up = Backends /\ flips = 0
    /\ rr = 0
    /\ failures = [b \in Backends |-> 0] /\ ejected = {}
    /\ healthy = Backends /\ failed = [b \in Backends |-> 0] /\ fresh = {}
    /\ idle = [b \in Backends |-> 0] /\ stale = [b \in Backends |-> 0]
    /\ user = [u \in Users |-> Nobody]

At(u, l) == user[u].at = l
Goto(u, l) == user' = [user EXCEPT ![u].at = l]

\* A local service goes down or comes back.
Flip(b) ==
    /\ flips < MaxFlips
    /\ flips' = flips + 1
    /\ up' = IF b \in up THEN up \ {b} ELSE up \cup {b}
    /\ UNCHANGED <<pool, serverVars, healthVars, user>>

-----------------------------------------------------------------------------
(***************************************************************************)
(* The server: handle_client                                               *)
(***************************************************************************)

\* The backends from the start-th on, once around.
Rotation(start) == [i \in 1..Len(Order) |-> Order[((start + i - 1) % Len(Order)) + 1]]

\* Mutant: an ejected backend is passed over for good.
MutPickBackend(u) ==
    /\ At(u, "away")
    /\ LET usable == SelectSeq(Rotation(rr), LAMBDA b : failures[b] = 0)
       IN user' = IF usable = <<>> THEN user
                  ELSE [user EXCEPT ![u] = [at |-> "ask", b |-> usable[1], pooled |-> FALSE]]
    /\ rr' = (rr + 1) % Len(Order)
    /\ UNCHANGED <<worldVars, failures, ejected, idle, stale, healthVars>>

\* pick_backend: the next one that is not ejected; without one the user is refused.
PickBackend(u) ==
    /\ At(u, "away")
    /\ LET usable == SelectSeq(Rotation(rr), LAMBDA b : b \notin ejected)
       IN user' = IF usable = <<>> THEN user
                  ELSE [user EXCEPT ![u] = [at |-> "ask", b |-> usable[1], pooled |-> FALSE]]
    /\ rr' = (rr + 1) % Len(Order)
    /\ UNCHANGED <<worldVars, failures, ejected, idle, stale, healthVars>>

\* handle_work_conn_request: an idle connection, or a ReqWorkConn.
Request(u) ==
    /\ At(u, "ask")
    /\ LET b == user[u].b
       IN IF idle[b] > 0
          THEN /\ idle' = [idle EXCEPT ![b] = @ - 1]
               /\ user' = [user EXCEPT ![u].at = "start", ![u].pooled = TRUE]
          ELSE Goto(u, "wait") /\ UNCHANGED idle
    /\ UNCHANGED <<worldVars, rr, failures, ejected, stale, healthVars>>

\* mark_backend_success
MarkSuccess(b) ==
    /\ failures' = [failures EXCEPT ![b] = 0]
    /\ ejected' = ejected \ {b}

\* mark_backend_failure
MarkFailure(b) ==
    /\ failures' = [failures EXCEPT ![b] = Min({@ + 1, FailThreshold})]
    /\ ejected' = IF failures'[b] >= FailThreshold THEN ejected \cup {b} ELSE ejected

\* The connection is over, with or without an error.
Finish(u, outcomes) ==
    /\ \/ "ok" \in outcomes /\ MarkSuccess(user[u].b)
       \/ "error" \in outcomes /\ MarkFailure(user[u].b)
    /\ user' = [user EXCEPT ![u] = Nobody]

\* BACKEND_EJECT_SECS have passed.
Expire(b) ==
    /\ b \in ejected
    /\ ejected' = ejected \ {b}
    /\ UNCHANGED <<worldVars, rr, failures, idle, stale, healthVars, user>>

-----------------------------------------------------------------------------
(***************************************************************************)
(* The client's control: ReqWorkConn and the pool                          *)
(***************************************************************************)

\* is_available
Available(b) == b \in Checked => b \in healthy

\* Connections of b that its pool tasks have open.
Pooled(b) == idle[b] + Cardinality({u \in Users : user[u].b = b /\ user[u].pooled})

\* The live requests for b that have no connection, and those of them whose
\* ReqWorkConn is used up; they are older than the others.
Pending(b) == {u \in Users : user[u].b = b /\ user[u].at \in {"wait", "skipped"}}
Older(b) == {u \in Pending(b) : At(u, "skipped")}

\* The ReqWorkConn of u: a connection is opened unless the proxy is unhealthy.
\* The server's handle_work_conn gives it to the oldest request, an abandoned one
\* if there is any (the connection is dropped with it).
ReqWorkConn(u) ==
    /\ At(u, "wait")
    /\ LET b == user[u].b
       IN \/ ~Available(b) /\ Goto(u, "skipped") /\ UNCHANGED stale
          \/ /\ Available(b) /\ stale[b] > 0
             /\ stale' = [stale EXCEPT ![b] = @ - 1]
             /\ Goto(u, "skipped")
          \/ /\ Available(b) /\ stale[b] = 0
             /\ \/ Older(b) = {} /\ Goto(u, "start")
                \/ \E v \in Older(b) : user' = [user EXCEPT ![u].at = "skipped", ![v].at = "start"]
             /\ UNCHANGED stale
    /\ UNCHANGED <<worldVars, rr, failures, ejected, idle, healthVars>>

\* prewarm_work_conn_pool opens one more: it goes to the oldest request
\* as well, or is kept idle.  (What the client opens for the ReqWorkConn of a
\* request that the pool served first is left out: it could only be used sooner.)
Refill(b) ==
    /\ Pooled(b) < pool
    /\ \/ /\ stale[b] > 0
          /\ stale' = [stale EXCEPT ![b] = @ - 1]
          /\ UNCHANGED <<idle, user>>
       \/ /\ stale[b] = 0
          /\ \E u \in (IF Older(b) # {} THEN Older(b) ELSE Pending(b)) : user' = [user EXCEPT ![u].at = "start", ![u].pooled = TRUE]
          /\ UNCHANGED <<idle, stale>>
       \/ /\ stale[b] = 0 /\ Pending(b) = {}
          /\ idle' = [idle EXCEPT ![b] = @ + 1]
          /\ UNCHANGED <<stale, user>>
    /\ UNCHANGED <<worldVars, rr, failures, ejected, healthVars>>

\* The request of u was left unanswered for 10 s; it stays in pending_work_conns.
RequestTimeout(u) ==
    /\ At(u, "skipped")
    /\ Pooled(user[u].b) >= pool
    /\ Finish(u, {"error"})
    /\ stale' = [stale EXCEPT ![user[u].b] = Min({@ + 1, MaxStale})]
    /\ UNCHANGED <<worldVars, rr, idle, healthVars>>

-----------------------------------------------------------------------------
(***************************************************************************)
(* The client's proxy: handle_work_conn                                    *)
(***************************************************************************)

\* check_health: off, answered by the last check, or a new probe.
CheckHealth(u) ==
    /\ At(u, "start")
    /\ LET b == user[u].b
       IN \/ b \notin Checked /\ Goto(u, "connect") /\ UNCHANGED fresh
          \/ /\ b \in Checked \cap fresh
             /\ Goto(u, IF b \in healthy THEN "connect" ELSE "dropped")
             /\ UNCHANGED fresh
          \/ b \in Checked \ fresh /\ Goto(u, "probe") /\ fresh' = fresh \cup {b}
    /\ UNCHANGED <<worldVars, serverVars, healthy, failed>>

\* Mutant: the flag is cleared only when the count is exceeded, and starts anew.
MutProbe(u) ==
    /\ At(u, "probe")
    /\ LET b == user[u].b
       IN IF b \in up
          THEN /\ failed' = [failed EXCEPT ![b] = 0]
               /\ healthy' = healthy \cup {b}
               /\ Goto(u, "connect")
          ELSE /\ failed' = [failed EXCEPT ![b] = Min({@ + 1, MaxFailed})]
               /\ healthy' = IF failed'[b] > MaxFailed THEN healthy \ {b} ELSE healthy
               /\ Goto(u, IF b \in healthy' THEN "connect" ELSE "dropped")
    /\ UNCHANGED <<worldVars, serverVars, fresh>>

\* The probe connects to the local service, or does not.
Probe(u) ==
    /\ At(u, "probe")
    /\ LET b == user[u].b
       IN IF b \in up
          THEN /\ failed' = [failed EXCEPT ![b] = 0]
               /\ healthy' = healthy \cup {b}
               /\ Goto(u, "connect")
          ELSE /\ failed' = [failed EXCEPT ![b] = Min({@ + 1, MaxFailed})]
               /\ healthy' = IF failed'[b] >= MaxFailed THEN healthy \ {b} ELSE healthy
               /\ Goto(u, IF b \in healthy' THEN "connect" ELSE "dropped")
    /\ UNCHANGED <<worldVars, serverVars, fresh>>

\* health_check_interval has passed since the last check.
Elapse(b) ==
    /\ b \in fresh
    /\ fresh' = fresh \ {b}
    /\ UNCHANGED <<worldVars, serverVars, healthy, failed, user>>

ConnectLocal(u) ==
    /\ At(u, "connect")
    /\ Goto(u, IF user[u].b \in up THEN "relay" ELSE "dropped")
    /\ UNCHANGED <<worldVars, serverVars, healthVars>>

\* The client drops the work connection: the server's copy ends with it, in an
\* error only if the user's bytes were still unread.
Dropped(u) ==
    /\ At(u, "dropped")
    /\ Finish(u, {"ok", "error"})
    /\ UNCHANGED <<worldVars, rr, idle, stale, healthVars>>

\* The user is done, or one side resets.
RelayEnds(u) ==
    /\ At(u, "relay")
    /\ Finish(u, {"ok", "error"})
    /\ UNCHANGED <<worldVars, rr, idle, stale, healthVars>>

-----------------------------------------------------------------------------

ConnStep(u) == \/ Request(u) \/ ReqWorkConn(u) \/ RequestTimeout(u)
               \/ CheckHealth(u) \/ Probe(u) \/ ConnectLocal(u) \/ Dropped(u)

Next == \/ \E u \in Users : PickBackend(u) \/ ConnStep(u) \/ RelayEnds(u)
        \/ \E b \in Backends : Flip(b) \/ Expire(b) \/ Refill(b) \/ Elapse(b)

Spec == Init /\ [][Next]_vars

\* The tasks of a connection and of the pool are scheduled, and time passes.
FairSpec == /\ Spec
            /\ \A u \in Users : WF_vars(ConnStep(u))
            /\ \A b \in Backends : WF_vars(Expire(b)) /\ WF_vars(Refill(b)) /\ WF_vars(Elapse(b))

-----------------------------------------------------------------------------

Serving(b) == \E u \in Users : At(u, "relay") /\ user[u].b = b

\* Recovery: a backend whose local service is back for good is used again and
\* again as long as users come, whatever was ejected, marked unhealthy or left
\* pending before, provided that the client keeps a pool of work connections.
\* (Without one nothing probes the service of an unhealthy proxy any more.)
Recovers ==
    \A b \in Backends :
        pool > 0 /\ <>[](b \in up) /\ []<><<\E u \in Users : PickBackend(u)>>_rr => []<>Serving(b)

\* Detection: a service that is down for good is marked unhealthy and stays so,
\* if connections for it keep coming: no late probe of an earlier connection
\* and no check that was answered from the last one hides it.
Detects ==
    \A b \in Checked :
        /\ <>[](b \notin up)
        /\ []<><<\E u \in Users : user[u].b = b /\ CheckHealth(u)>>_user
        => <>[](b \notin healthy)
=============================================================================
