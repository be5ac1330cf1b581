---------------------------- MODULE ClientProofs ----------------------------
(***************************************************************************)
(* Proofs about Client for any configuration, any calls and any number of  *)
(* sessions and users: the one slot for pending registrations and the      *)
(* order of the control connection pair every answer with its request.     *)
(***************************************************************************)
EXTENDS Client, TLAPS

-----------------------------------------------------------------------------
(***************************************************************************)
(* The inductive invariant.                                                *)
(***************************************************************************)

Messages == [t : {"Login", "LoginResp", "NewProxy", "NewProxyResp", "CloseProxy", "ReqWorkConn"},
             n : Names \cup {None}, ok : BOOLEAN]

CallType == call \in [DOMAIN Calls -> [st : {"idle", "send", "queued", "ok", "err"},
                                       addr : Names \cup {None}, ctl : Nat]]

TypeInv ==
    /\ up \in Seq(Messages) /\ down \in Seq(Messages)
    /\ cmds \in Seq(DOMAIN Calls) /\ slot \in DOMAIN Calls \cup {None}
    /\ CallType
    /\ session \in Nat /\ next \in Nat /\ late \in BOOLEAN

\* The server holds nothing for a client without a connection.
WireInv ==
    /\ link # "up" => srv = {} /\ up = <<>>
    /\ ~Running => link = "none" /\ down = <<>>

\* What the server holds was asked for.
Asked == srv \subseteq Names \cup {None}

\* Which messages of kind t are in w: none, at most one.
NoneOf(w, t) == \A i \in DOMAIN w : w[i].t # t
OneOf(w, t) == \A i, j \in DOMAIN w : w[i].t = t /\ w[j].t = t => i = j

\* The proxy whose registration the Control waits for.
Awaited ==
    IF phase = "answer" THEN {Configured[next]}
    ELSE IF phase = "loop" /\ slot # None THEN {Calls[slot].n}
    ELSE {}

\* One registration at a time is under way, the one that is waited for.
Paired ==
    /\ \A i \in DOMAIN up : up[i].t = "NewProxy" => up[i].n \in Awaited
    /\ \A i \in DOMAIN down : down[i].t = "NewProxyResp" => down[i].n \in Awaited
    /\ OneOf(up, "NewProxy") /\ OneOf(down, "NewProxyResp")
    /\ NoneOf(up, "NewProxy") \/ NoneOf(down, "NewProxyResp")

\* The server's acceptance of n.
Accepts(m, n) == m.t = "NewProxyResp" /\ m.n = n /\ m.ok

Accepted(n) == \E i \in DOMAIN down : Accepts(down[i], n)

\* What the server holds is known, is about to be, or is about to be closed.
Held == \A n \in srv : n \in known \/ Accepted(n) \/ InFlight(up, "CloseProxy", n)

\* Whatever the server was told to close is remembered.
CloseNoted == \A i \in DOMAIN up : up[i].t = "CloseProxy" => up[i].n \in closed

\* A request for work connections comes after the acceptance of its proxy.
Expected ==
    \A i \in DOMAIN down : down[i].t = "ReqWorkConn" =>
        \/ down[i].n \in known \cup closed
        \/ \E j \in DOMAIN down : j < i /\ Accepts(down[j], down[i].n)

Orderly == Paired /\ Held /\ CloseNoted /\ Expected

ClientInv == TypeInv /\ WireInv /\ AnswerIsOwn /\ (~late => Orderly)

-----------------------------------------------------------------------------
(***************************************************************************)
(* Queues of messages.                                                     *)
(***************************************************************************)

\* r is w without its first message; r is w with m at its end.
Popped(w, r) == /\ Len(w) \in Nat /\ Len(w) >= 1 /\ DOMAIN w = 1..Len(w) /\ DOMAIN r = 1..(Len(w) - 1)
                /\ \A i \in 1..(Len(w) - 1) : r[i] = w[i + 1]
Pushed(w, r, m) == /\ Len(w) \in Nat /\ DOMAIN w = 1..Len(w) /\ DOMAIN r = 1..(Len(w) + 1)
                   /\ r[Len(w) + 1] = m /\ \A i \in 1..Len(w) : r[i] = w[i]

LEMMA PopFacts ==
  ASSUME NEW S, NEW w \in Seq(S), w # <<>>
  PROVE  Popped(w, Tail(w)) /\ Tail(w) \in Seq(S) /\ Head(w) = w[1] /\ Head(w) \in S /\ 1 \in DOMAIN w
  BY DEF Popped

LEMMA PushFacts ==
  ASSUME NEW S, NEW w \in Seq(S), NEW m \in S
  PROVE  Pushed(w, Append(w, m), m) /\ Append(w, m) \in Seq(S)
  BY DEF Pushed

\* Where a message was, and where it is.
LEMMA PopIndex ==
  ASSUME NEW w, NEW r, Popped(w, r)
  PROVE  /\ \A i \in DOMAIN r : i \in Nat /\ i + 1 \in DOMAIN w /\ i + 1 # 1 /\ r[i] = w[i + 1]
         /\ \A i \in DOMAIN w : i # 1 => i \in Nat /\ i - 1 \in DOMAIN r /\ r[i - 1] = w[i]
<1>1. ASSUME NEW i \in DOMAIN w, i # 1 PROVE i \in Nat /\ i - 1 \in DOMAIN r /\ r[i - 1] = w[i]
  <2>1. i - 1 \in 1..(Len(w) - 1) /\ (i - 1) + 1 = i /\ i \in Nat
    BY <1>1 DEF Popped
  <2>. QED
    BY <2>1 DEF Popped
<1>. QED
  BY <1>1 DEF Popped

LEMMA PushIndex ==
  ASSUME NEW w, NEW r, NEW m, Pushed(w, r, m)
  PROVE  /\ \A i \in DOMAIN w : i \in Nat /\ i \in DOMAIN r /\ r[i] = w[i]
         /\ \A i \in DOMAIN r : i \in Nat /\ (i \in DOMAIN w \/ (i = Len(w) + 1 /\ r[i] = m))
         /\ Len(w) + 1 \in DOMAIN r /\ r[Len(w) + 1] = m /\ \A i \in DOMAIN w : i < Len(w) + 1
  BY DEF Pushed

\* Kinds of messages in a queue that is read or written.
LEMMA PopKinds ==
  ASSUME NEW w, NEW r, Popped(w, r), NEW t
  PROVE  /\ NoneOf(w, t) => NoneOf(r, t)
         /\ OneOf(w, t) => OneOf(r, t)
         /\ OneOf(w, t) /\ w[1].t = t => NoneOf(r, t)
         /\ \A n : InFlight(r, t, n) => InFlight(w, t, n)
         /\ \A n : InFlight(w, t, n) => InFlight(r, t, n) \/ (w[1].t = t /\ w[1].n = n)
<1>1. 1 \in DOMAIN w
  BY DEF Popped
<1>2. \A i, j \in DOMAIN r : i + 1 = j + 1 => i = j
  BY PopIndex
<1>3. OneOf(w, t) => OneOf(r, t)
  BY <1>2, PopIndex DEF OneOf
<1>4. NoneOf(w, t) => NoneOf(r, t)
  BY PopIndex DEF NoneOf
<1>5. OneOf(w, t) /\ w[1].t = t => NoneOf(r, t)
  BY <1>1, PopIndex DEF OneOf, NoneOf
<1>6. ASSUME NEW n PROVE InFlight(r, t, n) => InFlight(w, t, n)
  BY PopIndex DEF InFlight
<1>7. ASSUME NEW n, InFlight(w, t, n) PROVE InFlight(r, t, n) \/ (w[1].t = t /\ w[1].n = n)
  BY <1>7, PopIndex DEF InFlight
<1>. QED
  BY <1>3, <1>4, <1>5, <1>6, <1>7

LEMMA PushKinds ==
  ASSUME NEW w, NEW r, NEW m, Pushed(w, r, m), NEW t
  PROVE  /\ NoneOf(w, t) /\ m.t # t => NoneOf(r, t)
         /\ OneOf(w, t) /\ m.t # t => OneOf(r, t)
         /\ NoneOf(w, t) => OneOf(r, t)
         /\ \A n : InFlight(w, t, n) => InFlight(r, t, n)
         /\ m.t = t => InFlight(r, t, m.n)
<1>1. NoneOf(w, t) /\ m.t # t => NoneOf(r, t)
  BY PushIndex DEF NoneOf
<1>2. OneOf(w, t) /\ m.t # t => OneOf(r, t)
  BY PushIndex DEF OneOf
<1>3. NoneOf(w, t) => OneOf(r, t)
  BY PushIndex DEF NoneOf, OneOf
<1>4. ASSUME NEW n PROVE InFlight(w, t, n) => InFlight(r, t, n)
  BY PushIndex DEF InFlight
<1>5. m.t = t => InFlight(r, t, m.n)
  BY PushIndex DEF InFlight
<1>. QED
  BY <1>1, <1>2, <1>3, <1>4, <1>5

-----------------------------------------------------------------------------
(***************************************************************************)
(* Types.                                                                  *)
(***************************************************************************)

\* The address a call was given stays.
Keeps == \A c \in DOMAIN Calls : call'[c].addr = call[c].addr

LEMMA CallSame == ASSUME CallType, call' = call PROVE CallType' /\ Keeps
  BY DEF CallType, Keeps

LEMMA CallTo ==
  ASSUME CallType, NEW c \in DOMAIN Calls, NEW s \in {"idle", "send", "queued", "ok", "err"},
         call' = [call EXCEPT ![c].st = s]
  PROVE  CallType' /\ Keeps
  BY DEF CallType, Keeps

\* Control::run ends.
LEMMA FinishStep ==
  ASSUME ClientInv, NEW to \in {"backoff", "exited"}, NEW class, Finish(to, class)
  PROVE  ClientInv'
<1>1. /\ phase' = to /\ link' = "none" /\ up' = <<>> /\ down' = <<>> /\ srv' = {} /\ cmds' = <<>> /\ slot' = None
      /\ call' = (IF slot = None THEN call ELSE [call EXCEPT ![slot].st = "err"])
      /\ UNCHANGED <<session, next, known, closed, late>>
  BY DEF Finish, proxyState
<1>2. CallType /\ slot \in DOMAIN Calls \cup {None} /\ session \in Nat /\ next \in Nat /\ late \in BOOLEAN
  BY DEF ClientInv, TypeInv
<1>3. CallType' /\ Keeps
  <2>1. CASE slot = None
    BY <1>1, <1>2, <2>1, CallSame
  <2>2. CASE slot # None
    BY <1>1, <1>2, <2>2, CallTo
  <2>. QED
    BY <2>1, <2>2
<1>4. up' \in Seq(Messages) /\ down' \in Seq(Messages) /\ cmds' \in Seq(DOMAIN Calls)
      /\ DOMAIN up' = {} /\ DOMAIN down' = {}
  BY <1>1
<1>5. TypeInv'
  BY <1>1, <1>2, <1>3, <1>4 DEF TypeInv
<1>6. WireInv'
  BY <1>1 DEF WireInv, Running
<1>7. AnswerIsOwn'
  BY <1>1, <1>3 DEF ClientInv, AnswerIsOwn, Keeps
<1>8. Orderly'
  BY <1>1, <1>4 DEF Orderly, Paired, Held, CloseNoted, Expected, NoneOf, OneOf
<1>. QED
  BY <1>5, <1>6, <1>7, <1>8 DEF ClientInv

-----------------------------------------------------------------------------
(***************************************************************************)
(* What reading and writing the connection does to Orderly.                *)
(***************************************************************************)

\* Nothing is read or written, and what was waited for still is.
LEMMA QuietOrderly ==
  ASSUME Orderly, UNCHANGED <<up, down, srv, known, closed>>, Awaited \subseteq Awaited'
  PROVE  Orderly'
<1>1. Paired'
  BY DEF Orderly, Paired, NoneOf, OneOf
<1>2. Held'
  BY DEF Orderly, Held, Accepted, Accepts, InFlight
<1>3. CloseNoted' /\ Expected'
  BY DEF Orderly, CloseNoted, Expected, Accepts
<1>. QED
  BY <1>1, <1>2, <1>3 DEF Orderly

\* The client reads a message.  An acceptance it reads makes the proxy known.
LEMMA PopDownOrderly ==
  ASSUME Orderly, Popped(down, down'), UNCHANGED <<up, srv, closed>>, known \subseteq known',
         Awaited \subseteq Awaited' \/ down[1].t = "NewProxyResp",
         \A n : Accepts(down[1], n) => n \in known'
  PROVE  Orderly'
<1>1. Paired /\ Held /\ CloseNoted /\ Expected /\ 1 \in DOMAIN down
  BY DEF Orderly, Popped
<1>2. Paired'
  <2>1. CASE down[1].t = "NewProxyResp"
    <3>1. NoneOf(up, "NewProxy") /\ NoneOf(down', "NewProxyResp")
      BY <1>1, <2>1, PopKinds DEF Paired, NoneOf
    <3>2. OneOf(up, "NewProxy") /\ OneOf(down', "NewProxyResp")
      BY <3>1 DEF NoneOf, OneOf
    <3>. QED
      BY <3>1, <3>2 DEF Paired, NoneOf, OneOf
  <2>2. CASE Awaited \subseteq Awaited'
    <3>1. OneOf(down', "NewProxyResp") /\ (NoneOf(down, "NewProxyResp") => NoneOf(down', "NewProxyResp"))
      BY <1>1, PopKinds DEF Paired
    <3>2. \A i \in DOMAIN down' : down'[i].t = "NewProxyResp" => down'[i].n \in Awaited'
      BY <1>1, <2>2, PopIndex DEF Paired
    <3>. QED
      BY <1>1, <2>2, <3>1, <3>2 DEF Paired, NoneOf, OneOf
  <2>. QED
    BY <2>1, <2>2
<1>3. Held'
  <2>1. ASSUME NEW n \in srv, Accepted(n) PROVE n \in known' \/ Accepted(n)'
    <3>1. PICK i \in DOMAIN down : Accepts(down[i], n)
      BY <2>1 DEF Accepted
    <3>2. CASE i = 1
      BY <3>1, <3>2
    <3>3. CASE i # 1
      <4>1. i - 1 \in DOMAIN down' /\ down'[i - 1] = down[i]
        BY <3>3, PopIndex
      <4>. QED
        BY <3>1, <4>1 DEF Accepted, Accepts
    <3>. QED
      BY <3>2, <3>3
  <2>. QED
    BY <1>1, <2>1 DEF Held, InFlight
<1>4. Expected'
  <2>1. ASSUME NEW i \in DOMAIN down', down'[i].t = "ReqWorkConn"
        PROVE  \/ down'[i].n \in known' \cup closed'
               \/ \E j \in DOMAIN down' : j < i /\ Accepts(down'[j], down'[i].n)
    <3>1. i \in Nat /\ i + 1 \in DOMAIN down /\ down'[i] = down[i + 1]
      BY PopIndex
    <3>2. CASE down[i + 1].n \in known \cup closed
      BY <3>1, <3>2
    <3>3. CASE \E j \in DOMAIN down : j < i + 1 /\ Accepts(down[j], down[i + 1].n)
      <4>1. PICK j \in DOMAIN down : j < i + 1 /\ Accepts(down[j], down[i + 1].n)
        BY <3>3
      <4>2. CASE j = 1
        BY <3>1, <4>1, <4>2
      <4>3. CASE j # 1
        <5>1. j \in Nat /\ j - 1 \in DOMAIN down' /\ down'[j - 1] = down[j]
          BY <4>3, PopIndex
        <5>2. j - 1 < i
          BY <3>1, <4>1, <5>1
        <5>. QED
          BY <3>1, <4>1, <5>1, <5>2
      <4>. QED
        BY <4>2, <4>3
    <3>. QED
      BY <1>1, <2>1, <3>1, <3>2, <3>3 DEF Expected
  <2>. QED
    BY <2>1 DEF Expected, Accepts
<1>5. CloseNoted'
  BY <1>1 DEF CloseNoted
<1>. QED
  BY <1>2, <1>3, <1>4, <1>5 DEF Orderly

\* The client asks for a proxy when no other request is under way.
LEMMA AskOrderly ==
  ASSUME Orderly, NEW m, Pushed(up, up', m), m.t = "NewProxy", Awaited = {}, m.n \in Awaited',
         UNCHANGED <<down, srv, known, closed>>
  PROVE  Orderly'
<1>1. Paired /\ Held /\ CloseNoted /\ Expected
  BY DEF Orderly
<1>2. NoneOf(up, "NewProxy") /\ NoneOf(down, "NewProxyResp")
  BY <1>1 DEF Paired, NoneOf
<1>3. Paired'
  <2>1. OneOf(up', "NewProxy")
    BY <1>2, PushKinds
  <2>2. \A i \in DOMAIN up' : up'[i].t = "NewProxy" => up'[i].n \in Awaited'
    BY <1>2, PushIndex DEF NoneOf
  <2>. QED
    BY <1>2, <2>1, <2>2 DEF Paired, NoneOf, OneOf
<1>4. Held'
  <2>1. \A n : InFlight(up, "CloseProxy", n) => InFlight(up', "CloseProxy", n)
    BY PushKinds
  <2>. QED
    BY <1>1, <2>1 DEF Held, Accepted, Accepts, InFlight
<1>5. CloseNoted'
  BY <1>1, PushIndex DEF CloseNoted
<1>6. Expected'
  BY <1>1 DEF Expected, Accepts
<1>. QED
  BY <1>3, <1>4, <1>5, <1>6 DEF Orderly

\* The client closes a proxy; without a connection the message is lost, but then
\* the server holds nothing.
LEMMA CloseOrderly ==
  ASSUME Orderly, NEW m, Pushed(up, up', m) \/ (up' = up /\ srv = {}), m.t = "CloseProxy",
         known' = known \ {m.n}, closed' = closed \cup {m.n}, UNCHANGED <<down, srv>>, Awaited' = Awaited
  PROVE  Orderly'
<1>1. Paired /\ Held /\ CloseNoted /\ Expected
  BY DEF Orderly
<1>2. Expected'
  BY <1>1 DEF Expected, Accepts
<1>3. CASE Pushed(up, up', m)
  <2>1. Paired'
    <3>1. OneOf(up', "NewProxy") /\ (NoneOf(up, "NewProxy") => NoneOf(up', "NewProxy"))
      BY <1>1, <1>3, PushKinds DEF Paired
    <3>2. \A i \in DOMAIN up' : up'[i].t = "NewProxy" => up'[i].n \in Awaited'
      BY <1>1, <1>3, PushIndex DEF Paired
    <3>. QED
      BY <1>1, <3>1, <3>2 DEF Paired, NoneOf, OneOf
  <2>2. Held'
    <3>1. \A n : InFlight(up, "CloseProxy", n) => InFlight(up', "CloseProxy", n)
      BY <1>3, PushKinds
    <3>2. InFlight(up', "CloseProxy", m.n)
      BY <1>3, PushKinds
    <3>. QED
      BY <1>1, <3>1, <3>2 DEF Held, Accepted, Accepts, InFlight
  <2>3. CloseNoted'
    BY <1>1, <1>3, PushIndex DEF CloseNoted
  <2>. QED
    BY <1>2, <2>1, <2>2, <2>3 DEF Orderly
<1>4. CASE up' = up /\ srv = {}
  <2>1. Paired'
    BY <1>1, <1>4 DEF Paired, NoneOf, OneOf
  <2>2. Held' /\ CloseNoted'
    BY <1>1, <1>4 DEF Held, CloseNoted
  <2>. QED
    BY <1>2, <2>1, <2>2 DEF Orderly
<1>. QED
  BY <1>3, <1>4

\* The server reads a message and answers.
LEMMA AnswerOrderly ==
  ASSUME Orderly, NEW m, Popped(up, up'), Pushed(down, down', m), UNCHANGED <<known, closed>>, Awaited' = Awaited,
         up[1].t # "CloseProxy", m.t # "ReqWorkConn",
         m.t = "NewProxyResp" => up[1].t = "NewProxy" /\ m.n = up[1].n,
         \A n \in srv' : n \in srv \/ Accepts(m, n)
  PROVE  Orderly'
<1>1. Paired /\ Held /\ CloseNoted /\ Expected /\ 1 \in DOMAIN up
  BY DEF Orderly, Popped
<1>2. Paired'
  <2>1. \A i \in DOMAIN up' : up'[i].t = "NewProxy" => up'[i].n \in Awaited'
    BY <1>1, PopIndex DEF Paired
  <2>2. \A i \in DOMAIN down' : down'[i].t = "NewProxyResp" => down'[i].n \in Awaited'
    BY <1>1, PushIndex DEF Paired
  <2>3. OneOf(up', "NewProxy")
    BY <1>1, PopKinds DEF Paired
  <2>4. CASE m.t = "NewProxyResp"
    <3>1. NoneOf(up', "NewProxy") /\ NoneOf(down, "NewProxyResp")
      BY <1>1, <2>4, PopKinds DEF Paired, NoneOf
    <3>2. OneOf(down', "NewProxyResp")
      BY <3>1, PushKinds
    <3>. QED
      BY <2>1, <2>2, <2>3, <3>1, <3>2 DEF Paired, NoneOf, OneOf
  <2>5. CASE m.t # "NewProxyResp"
    <3>1. OneOf(down', "NewProxyResp") /\ (NoneOf(down, "NewProxyResp") => NoneOf(down', "NewProxyResp"))
      BY <1>1, <2>5, PushKinds DEF Paired
    <3>2. NoneOf(up, "NewProxy") => NoneOf(up', "NewProxy")
      BY PopKinds
    <3>. QED
      BY <1>1, <2>1, <2>2, <2>3, <3>1, <3>2 DEF Paired, NoneOf, OneOf
  <2>. QED
    BY <2>4, <2>5
<1>3. Held'
  <2>1. \A n : InFlight(up, "CloseProxy", n) => InFlight(up', "CloseProxy", n)
    BY PopKinds
  <2>2. \A n : Accepted(n) \/ Accepts(m, n) => Accepted(n)'
    BY PushIndex DEF Accepted, Accepts
  <2>. QED
    BY <1>1, <2>1, <2>2 DEF Held, InFlight
<1>4. CloseNoted'
  BY <1>1, PopIndex DEF CloseNoted
<1>5. Expected'
  <2>1. ASSUME NEW i \in DOMAIN down', down'[i].t = "ReqWorkConn"
        PROVE  i \in DOMAIN down /\ down'[i] = down[i]
    BY <2>1, PushIndex
  <2>. QED
    BY <1>1, <2>1, PushIndex DEF Expected, Accepts
<1>. QED
  BY <1>2, <1>3, <1>4, <1>5 DEF Orderly

-----------------------------------------------------------------------------
(***************************************************************************)
(* One lemma per operation.                                                *)
(***************************************************************************)

\* Service::run, between two Controls.
LEMMA ServiceSteps ==
  ASSUME ClientInv, Connect \/ ConnectFails \/ ConnectHangs \/ Retry
  PROVE  ClientInv'
<1>1. /\ TypeInv /\ WireInv /\ AnswerIsOwn /\ phase \in {"connect", "backoff"}
      /\ UNCHANGED <<srv, cmds, slot, call, late>> /\ link = "none" /\ srv = {} /\ up = <<>> /\ down = <<>>
  BY Zenon DEF ClientInv, Connect, ConnectFails, ConnectHangs, Retry, admin, WireInv, Running
<1>2. AnswerIsOwn'
  BY <1>1 DEF AnswerIsOwn
<1>3. CASE Connect
  <2>1. /\ phase' = "login" /\ session' = session + 1 /\ link' = "up" /\ up' = <<Msg("Login", None, TRUE)>>
        /\ down' = <<>> /\ next' = 1 /\ closed' = {}
    BY <1>3 DEF Connect
  <2>2. Msg("Login", None, TRUE) \in Messages /\ Msg("Login", None, TRUE).t = "Login"
    BY DEF Msg, Messages
  <2>3. /\ up' \in Seq(Messages) /\ DOMAIN up' = {1} /\ up'[1].t = "Login"
        /\ down' \in Seq(Messages) /\ DOMAIN down' = {}
    <3>1. PICK m \in Messages : m = Msg("Login", None, TRUE) /\ m.t = "Login"
      BY <2>2, Zenon
    <3>2. <<m>> \in Seq(Messages) /\ DOMAIN <<m>> = {1} /\ <<m>>[1] = m
      OBVIOUS
    <3>3. <<>> \in Seq(Messages) /\ DOMAIN <<>> = {}
      OBVIOUS
    <3>. QED
      BY <2>1, <3>1, <3>2, <3>3, Zenon
  <2>4. TypeInv'
    <3>1. session' \in Nat /\ next' \in Nat
      BY <1>1, <2>1 DEF TypeInv
    <3>2. CallType' /\ UNCHANGED <<cmds, slot, late>>
      BY <1>1, CallSame DEF TypeInv
    <3>. QED
      BY <1>1, <2>3, <3>1, <3>2 DEF TypeInv
  <2>5. WireInv'
    BY <1>1, <2>1 DEF WireInv, Running
  <2>6. Orderly'
    BY <1>1, <2>3 DEF Orderly, Paired, Held, CloseNoted, Expected, NoneOf, OneOf
  <2>. QED
    BY <1>2, <2>4, <2>5, <2>6 DEF ClientInv
<1>4. CASE ConnectFails \/ ConnectHangs \/ Retry
  <2>1. /\ phase' \in {"connect", "backoff", "handshake", "exited"}
        /\ UNCHANGED <<session, link, up, down, next, known, closed>>
    BY <1>4 DEF ConnectFails, ConnectHangs, Retry, wire, proxyState
  <2>2. TypeInv' /\ WireInv'
    BY <1>1, <2>1, CallSame DEF TypeInv, WireInv, Running
  <2>3. Awaited \subseteq Awaited'
    BY <1>1 DEF Awaited
  <2>4. ~late' => Orderly'
    BY <1>1, <2>1, <2>3, QuietOrderly DEF ClientInv
  <2>. QED
    BY <1>2, <2>2, <2>4 DEF ClientInv
<1>. QED
  BY <1>3, <1>4, <1>1

\* The connection breaks or goes silent.
LEMMA FaultSteps ==
  ASSUME ClientInv, Break \/ Silence
  PROVE  ClientInv'
<1>1. /\ TypeInv /\ WireInv /\ AnswerIsOwn /\ link = "up" /\ link' \in {"closed", "silent"}
      /\ up' = <<>> /\ srv' = {} /\ down' \in {down, <<>>}
      /\ UNCHANGED <<phase, session, next, known, closed, cmds, slot, call, late>>
  BY DEF ClientInv, Break, Silence, service, proxyState, admin
<1>2. AnswerIsOwn'
  BY <1>1 DEF AnswerIsOwn
<1>3. TypeInv' /\ DOMAIN up' = {} /\ DOMAIN <<>> = {}
  <2>1. up' \in Seq(Messages) /\ down' \in Seq(Messages) /\ DOMAIN up' = {} /\ DOMAIN <<>> = {}
    <3>1. <<>> \in Seq(Messages) /\ DOMAIN <<>> = {}
      OBVIOUS
    <3>. QED
      BY <1>1, <3>1, Zenon DEF TypeInv
  <2>. QED
    BY <1>1, <2>1, CallSame DEF TypeInv
<1>4. WireInv'
  BY <1>1 DEF WireInv, Running
<1>5. ASSUME Orderly PROVE Orderly'
  <2>1. Awaited' = Awaited
    BY <1>1 DEF Awaited
  <2>2. Paired'
    <3>1. CASE down' = down
      BY <1>3, <1>5, <2>1, <3>1 DEF Orderly, Paired, NoneOf, OneOf
    <3>2. CASE down' = <<>>
      BY <1>3, <3>2 DEF Paired, NoneOf, OneOf
    <3>. QED
      BY <1>1, <3>1, <3>2
  <2>3. Held' /\ CloseNoted'
    BY <1>1, <1>3 DEF Held, CloseNoted
  <2>4. Expected'
    <3>1. CASE down' = down
      BY <1>1, <1>5, <3>1 DEF Orderly, Expected, Accepts
    <3>2. CASE down' = <<>>
      BY <1>3, <3>2 DEF Expected
    <3>. QED
      BY <1>1, <3>1, <3>2
  <2>. QED
    BY <2>2, <2>3, <2>4 DEF Orderly
<1>. QED
  BY <1>1, <1>2, <1>3, <1>4, <1>5 DEF ClientInv

\* The client takes a message from a connection it goes on with.
LEMMA TakesMessage ==
  ASSUME ClientInv, Running, Running', down # <<>>, down' = Tail(down), UNCHANGED <<link, up, srv, closed, late>>,
         TypeInv', AnswerIsOwn', known \subseteq known',
         Orderly => Awaited \subseteq Awaited' \/ down[1].t = "NewProxyResp",
         Orderly => \A n : Accepts(down[1], n) => n \in known'
  PROVE  ClientInv'
<1>1. TypeInv /\ WireInv /\ (~late => Orderly)
  BY DEF ClientInv
<1>2. Popped(down, down')
  BY <1>1, PopFacts DEF TypeInv
<1>3. WireInv'
  BY <1>1 DEF WireInv
<1>4. ~late' => Orderly'
  BY <1>1, <1>2, PopDownOrderly
<1>. QED
  BY <1>3, <1>4 DEF ClientInv

\* login() and register_proxies().
LEMMA RegisterSteps ==
  ASSUME ClientInv, RecvLoginResp \/ SendNewProxy \/ RecvNewProxyResp \/ EnterLoop
  PROVE  ClientInv'
<1>1. TypeInv /\ WireInv /\ AnswerIsOwn /\ (~late => Orderly)
  BY DEF ClientInv
<1>2. CASE Lost \/ Fatal("auth") \/ Fatal("rejected") \/ Fatal("protocol")
  BY <1>2, FinishStep DEF Lost, Fatal
<1>3. CASE RecvLoginResp /\ ~Fatal("auth")
  <2>1. /\ phase = "login" /\ phase' = "register" /\ down # <<>> /\ down' = Tail(down)
        /\ UNCHANGED <<session, link, up, next, known, closed, srv, cmds, slot, call, late>>
    BY <1>3 DEF RecvLoginResp, proxyState, admin
  <2>2. Tail(down) \in Seq(Messages) /\ 1 \in DOMAIN down
    BY <1>1, <2>1, PopFacts DEF TypeInv
  <2>3. TypeInv' /\ AnswerIsOwn' /\ Running /\ Running'
    BY <1>1, <2>1, <2>2, CallSame DEF TypeInv, AnswerIsOwn, Running
  <2>4. Awaited = {}
    BY <2>1 DEF Awaited
  <2>5. Orderly => \A n : ~Accepts(down[1], n)
    BY <2>2, <2>4 DEF Orderly, Paired, Accepts
  <2>. QED
    BY <2>1, <2>3, <2>4, <2>5, TakesMessage
<1>4. CASE SendNewProxy /\ ~Lost
  <2>1. /\ phase = "register" /\ phase' = "answer" /\ next \in DOMAIN Configured
        /\ up' = (IF link = "up" THEN Append(up, Msg("NewProxy", Configured[next], TRUE)) ELSE up)
        /\ UNCHANGED <<session, link, down, next, known, closed, srv, cmds, slot, call, late>>
    BY <1>4, Zenon DEF SendNewProxy, SendUp, proxyState, admin
  <2>2. Configured[next] \in Names
    BY <2>1 DEF Names
  <2>3. PICK m \in Messages : m = Msg("NewProxy", Configured[next], TRUE) /\ m.t = "NewProxy" /\ m.n = Configured[next]
    <3>1. /\ Msg("NewProxy", Configured[next], TRUE) \in Messages
          /\ Msg("NewProxy", Configured[next], TRUE).t = "NewProxy"
          /\ Msg("NewProxy", Configured[next], TRUE).n = Configured[next]
      BY <2>2 DEF Msg, Messages
    <3>. QED
      BY <3>1, Zenon
  <2>4. Append(up, m) \in Seq(Messages) /\ Pushed(up, Append(up, m), m)
    BY <1>1, PushFacts DEF TypeInv
  <2>5. TypeInv' /\ AnswerIsOwn' /\ WireInv'
    BY <1>1, <2>1, <2>3, <2>4, CallSame, Zenon DEF TypeInv, AnswerIsOwn, WireInv, Running
  <2>6. Awaited = {} /\ m.n \in Awaited'
    BY <2>1, <2>3, Zenon DEF Awaited
  <2>7. ASSUME Orderly PROVE Orderly'
    <3>1. CASE link = "up"
      <4>1. Pushed(up, up', m)
        BY <2>1, <2>3, <2>4, <3>1, Zenon
      <4>. QED
        BY <2>1, <2>3, <2>6, <2>7, <4>1, AskOrderly, Zenon
    <3>2. CASE link # "up"
      BY <2>1, <2>6, <2>7, <3>2, QuietOrderly
    <3>. QED
      BY <3>1, <3>2
  <2>. QED
    BY <1>1, <2>1, <2>5, <2>7 DEF ClientInv
<1>5. CASE RecvNewProxyResp /\ ~Fatal("rejected") /\ ~Fatal("protocol")
  <2>1. /\ phase = "answer" /\ phase' = "register" /\ down # <<>> /\ down' = Tail(down)
        /\ Head(down).t = "NewProxyResp" /\ known' = known \cup {Configured[next]} /\ next' = next + 1
        /\ UNCHANGED <<session, link, up, closed, srv, cmds, slot, call, late>>
    BY <1>5 DEF RecvNewProxyResp, admin
  <2>2. Tail(down) \in Seq(Messages) /\ 1 \in DOMAIN down /\ Head(down) = down[1]
    BY <1>1, <2>1, PopFacts DEF TypeInv
  <2>3. TypeInv' /\ AnswerIsOwn' /\ Running /\ Running'
    BY <1>1, <2>1, <2>2, CallSame DEF TypeInv, AnswerIsOwn, Running
  <2>4. Awaited = {Configured[next]}
    BY <2>1 DEF Awaited
  <2>5. Orderly => \A n : Accepts(down[1], n) => n \in known'
    BY <2>1, <2>2, <2>4 DEF Orderly, Paired, Accepts
  <2>. QED
    BY <2>1, <2>2, <2>3, <2>5, TakesMessage
<1>6. CASE EnterLoop
  <2>1. /\ phase = "register" /\ phase' = "loop"
        /\ UNCHANGED <<session, link, up, down, next, known, closed, srv, cmds, slot, call, late>>
    BY <1>6 DEF EnterLoop, wire, proxyState, admin
  <2>2. TypeInv' /\ AnswerIsOwn' /\ WireInv'
    BY <1>1, <2>1, CallSame DEF TypeInv, AnswerIsOwn, WireInv, Running
  <2>3. Awaited = {}
    BY <2>1 DEF Awaited
  <2>4. ~late' => Orderly'
    BY <1>1, <2>1, <2>3, QuietOrderly
  <2>. QED
    BY <2>2, <2>4 DEF ClientInv
<1>. QED
  BY <1>2, <1>3, <1>4, <1>5, <1>6

\* register_proxy_dynamic and close_proxy_dynamic, and their timeouts.  A call
\* that times out while its Control is serving is a late one.
LEMMA CallSteps ==
  ASSUME ClientInv, NEW c \in DOMAIN Calls, Call(c) \/ Send(c) \/ CallTimeout(c)
  PROVE  ClientInv'
<1>1. /\ TypeInv /\ WireInv /\ AnswerIsOwn /\ (~late => Orderly) /\ CallType
      /\ slot \in DOMAIN Calls \cup {None} /\ session \in Nat /\ late \in BOOLEAN
  BY DEF ClientInv, TypeInv
<1>2. UNCHANGED <<phase, session, link, up, down, next, known, closed, srv>>
  BY DEF Call, Send, CallTimeout, service, wire, proxyState
<1>3. CASE Call(c) \/ Send(c)
  <2>1. slot' = slot /\ late' = late
    BY <1>3 DEF Call, Send
  <2>2. CallType' /\ Keeps
    <3>1. CASE Call(c)
      <4>1. PICK ctl \in 1..session : call' = [call EXCEPT ![c].st = "send", ![c].ctl = ctl]
        BY <3>1, Zenon DEF Call
      <4>2. ctl \in Nat
        BY <1>1
      <4>. QED
        BY <1>1, <4>1, <4>2, Zenon DEF CallType, Keeps
    <3>2. CASE Send(c)
      BY <1>1, <3>2, CallTo DEF Send
    <3>. QED
      BY <1>3, <3>1, <3>2
  <2>3. cmds' \in Seq(DOMAIN Calls)
    <3>1. cmds \in Seq(DOMAIN Calls)
      BY <1>1 DEF TypeInv
    <3>2. Append(cmds, c) \in Seq(DOMAIN Calls)
      BY <3>1, PushFacts
    <3>3. cmds' = cmds \/ cmds' = Append(cmds, c)
      BY <1>3, Zenon DEF Call, Send
    <3>. QED
      BY <3>1, <3>2, <3>3, Zenon
  <2>4. TypeInv' /\ WireInv'
    BY <1>1, <1>2, <2>1, <2>2, <2>3 DEF TypeInv, WireInv, Running
  <2>5. AnswerIsOwn'
    BY <1>1, <2>1, <2>2 DEF AnswerIsOwn, Keeps
  <2>6. Awaited' = Awaited
    BY <1>2, <2>1 DEF Awaited
  <2>7. ~late' => Orderly'
    BY <1>1, <1>2, <2>1, <2>6, QuietOrderly
  <2>. QED
    BY <2>4, <2>5, <2>7 DEF ClientInv
<1>4. CASE CallTimeout(c)
  <2>. DEFINE steals == Calls[c].op = "register" /\ ~Ended(c) /\ slot /= None
  <2>1. /\ call' = [d \in DOMAIN call |->
                     IF d = c \/ (steals /\ d = slot /\ call[d].st = "queued")
                     THEN [call[d] EXCEPT !.st = "err"] ELSE call[d]]
        /\ slot' = (IF steals THEN None ELSE slot)
        /\ late' = (late \/ ~Ended(c)) /\ cmds' = cmds
    BY <1>4 DEF CallTimeout
  <2>2. CallType' /\ Keeps
    BY <1>1, <2>1 DEF CallType, Keeps
  <2>3. slot' \in DOMAIN Calls \cup {None} /\ late' \in BOOLEAN
    BY <1>1, <2>1
  <2>4. TypeInv' /\ WireInv'
    BY <1>1, <1>2, <2>1, <2>2, <2>3 DEF TypeInv, WireInv, Running
  <2>5. ~late' => ~late /\ slot' = slot
    BY <1>1, <2>1, Zenon
  <2>6. AnswerIsOwn'
    BY <1>1, <2>2, <2>5 DEF AnswerIsOwn, Keeps
  <2>7. ASSUME ~late' PROVE Orderly'
    <3>1. Awaited' = Awaited
      BY <1>2, <2>5, <2>7 DEF Awaited
    <3>. QED
      BY <1>1, <1>2, <2>5, <2>7, <3>1, QuietOrderly
  <2>. QED
    BY <2>4, <2>6, <2>7 DEF ClientInv
<1>. QED
  BY <1>3, <1>4

\* handle_control_command.
LEMMA HandleRegisterStep ==
  ASSUME ClientInv, HandleRegister
  PROVE  ClientInv'
<1>1. /\ TypeInv /\ WireInv /\ AnswerIsOwn /\ (~late => Orderly) /\ CallType
      /\ up \in Seq(Messages) /\ cmds \in Seq(DOMAIN Calls) /\ slot \in DOMAIN Calls \cup {None}
  BY DEF ClientInv, TypeInv
<1>2. PICK c : c = Head(cmds)
  OBVIOUS
<1>3. /\ phase = "loop" /\ cmds # <<>> /\ cmds' = Tail(cmds) /\ StartRegister(c)
      /\ UNCHANGED <<phase, session, next, known, closed, srv, late>>
  BY <1>2 DEF HandleRegister, service, proxyState
<1>4. c \in DOMAIN Calls /\ cmds' \in Seq(DOMAIN Calls) /\ c # None
  BY <1>1, <1>2, <1>3, PopFacts, CallAssumption
<1>5. CASE call' = [call EXCEPT ![c].st = "err"] /\ UNCHANGED <<slot, wire>>
  <2>1. CallType' /\ Keeps /\ UNCHANGED <<slot, link, up, down>>
    BY <1>1, <1>4, <1>5, CallTo, Zenon DEF wire
  <2>2. TypeInv' /\ WireInv'
    BY <1>1, <1>3, <1>4, <2>1 DEF TypeInv, WireInv, Running
  <2>3. AnswerIsOwn'
    BY <1>1, <1>3, <2>1, Zenon DEF AnswerIsOwn, Keeps
  <2>4. Awaited' = Awaited
    BY <1>3, <2>1 DEF Awaited
  <2>5. ~late' => Orderly'
    BY <1>1, <1>3, <2>1, <2>4, QuietOrderly
  <2>. QED
    BY <2>2, <2>3, <2>5 DEF ClientInv
<1>6. CASE slot = None /\ slot' = c /\ SendUp(Msg("NewProxy", Calls[c].n, TRUE)) /\ UNCHANGED <<call, link, down>>
  <2>1. Calls[c].n \in Names
    BY <1>4 DEF Names
  <2>2. PICK m \in Messages : m = Msg("NewProxy", Calls[c].n, TRUE) /\ m.t = "NewProxy" /\ m.n = Calls[c].n
    <3>1. /\ Msg("NewProxy", Calls[c].n, TRUE) \in Messages
          /\ Msg("NewProxy", Calls[c].n, TRUE).t = "NewProxy"
          /\ Msg("NewProxy", Calls[c].n, TRUE).n = Calls[c].n
      BY <2>1 DEF Msg, Messages
    <3>. QED
      BY <3>1, Zenon
  <2>3. up' = IF link = "up" THEN Append(up, m) ELSE up
    BY <1>6, <2>2 DEF SendUp
  <2>4. Append(up, m) \in Seq(Messages) /\ Pushed(up, Append(up, m), m)
    BY <1>1, PushFacts
  <2>5. CallType' /\ Keeps /\ UNCHANGED <<call, link, down>> /\ slot' \in DOMAIN Calls \cup {None}
    BY <1>1, <1>4, <1>6, CallSame
  <2>6. TypeInv' /\ WireInv'
    BY <1>1, <1>3, <1>4, <2>3, <2>4, <2>5, Zenon DEF TypeInv, WireInv, Running
  <2>7. AnswerIsOwn'
    BY <1>1, <1>3, <2>5 DEF AnswerIsOwn
  <2>8. Awaited = {} /\ m.n \in Awaited'
    BY <1>3, <1>4, <1>6, <2>2, Zenon DEF Awaited
  <2>9. ASSUME Orderly PROVE Orderly'
    <3>1. CASE link = "up"
      BY <1>3, <2>2, <2>3, <2>4, <2>5, <2>8, <2>9, <3>1, AskOrderly, Zenon
    <3>2. CASE link # "up"
      BY <1>3, <2>3, <2>5, <2>8, <2>9, <3>2, QuietOrderly
    <3>. QED
      BY <3>1, <3>2
  <2>. QED
    BY <1>1, <1>3, <2>6, <2>7, <2>9 DEF ClientInv
<1>. QED
  BY <1>3, <1>5, <1>6, Zenon DEF StartRegister

\* handle_close_proxy_cmd.
LEMMA HandleCloseStep ==
  ASSUME ClientInv, HandleClose
  PROVE  ClientInv'
<1>1. /\ TypeInv /\ WireInv /\ AnswerIsOwn /\ (~late => Orderly) /\ CallType
      /\ up \in Seq(Messages) /\ cmds \in Seq(DOMAIN Calls) /\ slot \in DOMAIN Calls \cup {None}
  BY DEF ClientInv, TypeInv
<1>2. PICK c : c = Head(cmds)
  OBVIOUS
<1>3. /\ phase = "loop" /\ cmds # <<>> /\ cmds' = Tail(cmds)
      /\ \/ /\ SendUp(Msg("CloseProxy", Calls[c].n, TRUE))
            /\ known' = known \ {Calls[c].n} /\ closed' = closed \cup {Calls[c].n}
            /\ call' = [call EXCEPT ![c].st = IF @ = "queued" THEN "ok" ELSE @]
         \/ /\ call' = [call EXCEPT ![c].st = "err"]
            /\ UNCHANGED <<up, known, closed>>
      /\ UNCHANGED <<phase, session, link, down, next, srv, slot, late>>
  BY <1>2, Zenon DEF HandleClose, service
<1>4. c \in DOMAIN Calls /\ cmds' \in Seq(DOMAIN Calls)
  BY <1>1, <1>2, <1>3, PopFacts
<1>5. Awaited' = Awaited
  BY <1>3 DEF Awaited
<1>6. CASE call' = [call EXCEPT ![c].st = "err"] /\ UNCHANGED <<up, known, closed>>
  <2>1. CallType' /\ Keeps
    BY <1>1, <1>4, <1>6, CallTo, Zenon
  <2>2. TypeInv' /\ WireInv'
    BY <1>1, <1>3, <1>4, <1>6, <2>1 DEF TypeInv, WireInv, Running
  <2>3. AnswerIsOwn'
    BY <1>1, <1>3, <2>1 DEF AnswerIsOwn, Keeps
  <2>4. ~late' => Orderly'
    BY <1>1, <1>3, <1>5, <1>6, QuietOrderly
  <2>. QED
    BY <2>2, <2>3, <2>4 DEF ClientInv
<1>7. CASE /\ SendUp(Msg("CloseProxy", Calls[c].n, TRUE))
           /\ known' = known \ {Calls[c].n} /\ closed' = closed \cup {Calls[c].n}
           /\ call' = [call EXCEPT ![c].st = IF @ = "queued" THEN "ok" ELSE @]
  <2>1. Calls[c].n \in Names
    BY <1>4, Zenon DEF Names
  <2>2. PICK m \in Messages : m = Msg("CloseProxy", Calls[c].n, TRUE) /\ m.t = "CloseProxy" /\ m.n = Calls[c].n
    <3>1. /\ Msg("CloseProxy", Calls[c].n, TRUE) \in Messages
          /\ Msg("CloseProxy", Calls[c].n, TRUE).t = "CloseProxy"
          /\ Msg("CloseProxy", Calls[c].n, TRUE).n = Calls[c].n
      BY <2>1 DEF Msg, Messages
    <3>. QED
      BY <3>1, Zenon
  <2>3. up' = IF link = "up" THEN Append(up, m) ELSE up
    BY <1>7, <2>2 DEF SendUp
  <2>4. Append(up, m) \in Seq(Messages) /\ Pushed(up, Append(up, m), m)
    BY <1>1, PushFacts
  <2>5. CallType' /\ Keeps
    <3>1. PICK s : s = IF call[c].st = "queued" THEN "ok" ELSE call[c].st
      BY Zenon
    <3>2. s \in {"idle", "send", "queued", "ok", "err"}
      BY <1>1, <1>4, <3>1 DEF CallType
    <3>3. call' = [call EXCEPT ![c].st = s]
      BY <1>7, <3>1
    <3>. QED
      BY <1>1, <1>4, <3>2, <3>3, CallTo, Zenon
  <2>6. TypeInv' /\ WireInv'
    BY <1>1, <1>3, <1>4, <2>3, <2>4, <2>5 DEF TypeInv, WireInv, Running
  <2>7. AnswerIsOwn'
    BY <1>1, <1>3, <2>5 DEF AnswerIsOwn, Keeps
  <2>8. Pushed(up, up', m) \/ (up' = up /\ srv = {})
    BY <1>1, <2>3, <2>4 DEF WireInv
  <2>9. ~late' => Orderly'
    BY <1>1, <1>3, <1>5, <1>7, <2>2, <2>8, CloseOrderly, Zenon
  <2>. QED
    BY <2>6, <2>7, <2>9 DEF ClientInv
<1>. QED
  BY <1>3, <1>6, <1>7, Zenon

\* The message loop's NewProxyResp and ReqWorkConn arms.
LEMMA HandleNewProxyRespStep ==
  ASSUME ClientInv, HandleNewProxyResp
  PROVE  ClientInv'
<1>1. /\ TypeInv /\ AnswerIsOwn /\ (~late => Orderly) /\ CallType
      /\ down \in Seq(Messages) /\ slot \in DOMAIN Calls \cup {None}
  BY DEF ClientInv, TypeInv
<1>2. PICK m : m = Head(down)
  OBVIOUS
<1>3. /\ phase = "loop" /\ down # <<>> /\ down' = Tail(down) /\ m.t = "NewProxyResp" /\ slot' = None
      /\ IF slot = None
         THEN UNCHANGED <<known, call>>
         ELSE /\ known' = IF m.ok THEN known \cup {Calls[slot].n} ELSE known
              /\ call' = [call EXCEPT ![slot] = IF @.st /= "queued" THEN @
                            ELSE IF m.ok THEN [@ EXCEPT !.st = "ok", !.addr = m.n]
                            ELSE [@ EXCEPT !.st = "err"]]
      /\ UNCHANGED <<phase, session, link, up, next, closed, srv, cmds, late>>
  BY <1>2 DEF HandleNewProxyResp, service
<1>4. Tail(down) \in Seq(Messages) /\ 1 \in DOMAIN down /\ m = down[1] /\ m \in Messages
  BY <1>1, <1>2, <1>3, PopFacts
<1>5. m.n \in Names \cup {None}
  BY <1>4 DEF Messages
<1>6. CallType'
  <2>1. CASE slot = None
    BY <1>1, <1>3, <2>1, CallSame
  <2>2. CASE slot # None
    <3>1. PICK v : v = IF call[slot].st /= "queued" THEN call[slot]
                       ELSE IF m.ok THEN [call[slot] EXCEPT !.st = "ok", !.addr = m.n]
                       ELSE [call[slot] EXCEPT !.st = "err"]
      BY Zenon
    <3>2. v \in [st : {"idle", "send", "queued", "ok", "err"}, addr : Names \cup {None}, ctl : Nat]
      BY <1>1, <1>5, <2>2, <3>1, Zenon DEF CallType
    <3>3. call' = [call EXCEPT ![slot] = v]
      BY <1>3, <2>2, <3>1
    <3>. QED
      BY <1>1, <2>2, <3>2, <3>3 DEF CallType
  <2>. QED
    BY <2>1, <2>2
<1>7. TypeInv' /\ Running /\ Running'
  BY <1>1, <1>3, <1>4, <1>6 DEF TypeInv, Running
<1>8. Orderly => slot # None /\ m.n = Calls[slot].n
  BY <1>3, <1>4 DEF Orderly, Paired, Awaited
<1>9. AnswerIsOwn'
  <2>1. ASSUME ~late, NEW c \in DOMAIN Calls PROVE call'[c].addr \in {None, Calls[c].n}
    <3>1. call[c].addr \in {None, Calls[c].n} /\ slot # None /\ m.n = Calls[slot].n
      BY <1>1, <1>8, <2>1 DEF AnswerIsOwn
    <3>2. CASE c = slot
      BY <1>1, <1>3, <3>1, <3>2, ZenonT(60) DEF CallType
    <3>3. CASE c # slot
      BY <1>1, <1>3, <3>1, <3>3 DEF CallType
    <3>. QED
      BY <3>2, <3>3
  <2>. QED
    BY <1>3, <2>1 DEF AnswerIsOwn
<1>10. known \subseteq known' /\ (Orderly => \A n : Accepts(down[1], n) => n \in known')
  BY <1>3, <1>4, <1>8 DEF Accepts
<1>. QED
  BY <1>3, <1>4, <1>7, <1>9, <1>10, TakesMessage

LEMMA HandleReqWorkConnStep ==
  ASSUME ClientInv, HandleReqWorkConn
  PROVE  ClientInv'
<1>1. TypeInv /\ AnswerIsOwn /\ CallType /\ down \in Seq(Messages)
  BY DEF ClientInv, TypeInv
<1>2. /\ phase = "loop" /\ down # <<>> /\ down' = Tail(down) /\ Head(down).t = "ReqWorkConn"
      /\ UNCHANGED <<phase, session, link, up, next, known, closed, srv, cmds, slot, call, late>>
  BY DEF HandleReqWorkConn, service, proxyState, admin
<1>3. Tail(down) \in Seq(Messages) /\ Head(down) = down[1]
  BY <1>1, <1>2, PopFacts
<1>4. TypeInv' /\ AnswerIsOwn' /\ Running /\ Running'
  BY <1>1, <1>2, <1>3, CallSame DEF TypeInv, AnswerIsOwn, Running
<1>5. Awaited' = Awaited
  BY <1>2 DEF Awaited
<1>6. \A n : ~Accepts(down[1], n)
  BY <1>2, <1>3 DEF Accepts
<1>. QED
  BY <1>2, <1>4, <1>5, <1>6, TakesMessage

\* The end of the message loop: recv reports it, or the heartbeat gave up.
LEMMA LostSteps ==
  ASSUME ClientInv, ConnectionClosed \/ HeartbeatTimeout
  PROVE  ClientInv'
  BY FinishStep DEF ConnectionClosed, HeartbeatTimeout, Lost

\* Steps of the server, or of its users, leave the client alone.
LEMMA ServerStep ==
  ASSUME ClientInv, link = "up", UNCHANGED <<service, link, proxyState, admin>>,
         up' \in Seq(Messages), down' \in Seq(Messages), Orderly => Orderly'
  PROVE  ClientInv'
<1>1. TypeInv /\ WireInv /\ AnswerIsOwn /\ (~late => Orderly) /\ CallType
  BY DEF ClientInv, TypeInv
<1>2. UNCHANGED <<phase, session, link, next, known, closed, cmds, slot, call, late>>
  BY DEF service, proxyState, admin
<1>3. TypeInv'
  BY <1>1, <1>2, CallSame DEF TypeInv
<1>4. WireInv'
  BY <1>1, <1>2 DEF WireInv, Running
<1>5. AnswerIsOwn'
  BY <1>1, <1>2 DEF AnswerIsOwn
<1>. QED
  BY <1>1, <1>2, <1>3, <1>4, <1>5 DEF ClientInv

\* handle_close_proxy of the server's Control: what it was about to forget.
LEMMA ForgetOrderly ==
  ASSUME Orderly, Popped(up, up'), up[1].t = "CloseProxy", srv' = srv \ {up[1].n},
         UNCHANGED <<down, known, closed>>, Awaited' = Awaited
  PROVE  Orderly'
<1>1. Paired'
  <2>1. \A i \in DOMAIN up' : up'[i].t = "NewProxy" => up'[i].n \in Awaited'
    BY PopIndex DEF Orderly, Paired
  <2>2. OneOf(up, "NewProxy") => OneOf(up', "NewProxy")
    BY PopKinds, Zenon
  <2>3. NoneOf(up, "NewProxy") => NoneOf(up', "NewProxy")
    BY PopKinds
  <2>. QED
    BY <2>1, <2>2, <2>3, Zenon DEF Orderly, Paired, OneOf, NoneOf
<1>2. Held'
  <2>1. ASSUME NEW n \in srv' PROVE n \in known' \/ Accepted(n)' \/ InFlight(up', "CloseProxy", n)
    <3>1. n \in known \/ Accepted(n) \/ InFlight(up, "CloseProxy", n)
      BY <2>1, Zenon DEF Orderly, Held
    <3>2. InFlight(up, "CloseProxy", n) => InFlight(up', "CloseProxy", n)
      BY <2>1, PopKinds, Zenon
    <3>. QED
      BY <3>1, <3>2, Zenon DEF Accepted
  <2>. QED
    BY <2>1, Zenon DEF Held
<1>3. CloseNoted'
  BY PopIndex DEF Orderly, CloseNoted
<1>4. Expected'
  BY DEF Orderly, Expected
<1>. QED
  BY <1>1, <1>2, <1>3, <1>4, Zenon DEF Orderly

\* handle_work_conn_request of the server's Control.
LEMMA RequestOrderly ==
  ASSUME Orderly, NEW m, Pushed(down, down', m), m.t = "ReqWorkConn", m.n \in srv,
         UNCHANGED <<up, srv, known, closed>>, Awaited' = Awaited
  PROVE  Orderly'
<1>1. Paired'
  <2>1. \A i \in DOMAIN down' : down'[i].t = "NewProxyResp" => down'[i].n \in Awaited'
    BY PushIndex DEF Orderly, Paired
  <2>2. OneOf(down, "NewProxyResp") => OneOf(down', "NewProxyResp")
    BY PushKinds
  <2>3. NoneOf(down, "NewProxyResp") => NoneOf(down', "NewProxyResp")
    BY PushKinds, Zenon
  <2>. QED
    BY <2>1, <2>2, <2>3, Zenon DEF Orderly, Paired, OneOf, NoneOf
<1>2. Held'
  <2>1. \A n : Accepted(n) => Accepted(n)'
    BY PushIndex DEF Accepted
  <2>. QED
    BY <2>1, Zenon DEF Orderly, Held, InFlight
<1>3. CloseNoted'
  BY Zenon DEF Orderly, CloseNoted
<1>4. Expected'
  <2>1. ASSUME NEW i \in DOMAIN down', down'[i].t = "ReqWorkConn"
        PROVE  \/ down'[i].n \in known \cup closed
               \/ \E j \in DOMAIN down' : j < i /\ Accepts(down'[j], down'[i].n)
    <3>1. CASE i \in DOMAIN down
      <4>1. down'[i] = down[i]
        BY <3>1, PushIndex
      <4>2. \/ down[i].n \in known \cup closed
            \/ \E j \in DOMAIN down : j < i /\ Accepts(down[j], down[i].n)
        BY <2>1, <3>1, <4>1, Zenon DEF Orderly, Expected
      <4>. QED
        BY <4>1, <4>2, PushIndex
    <3>2. CASE i \notin DOMAIN down
      <4>1. i = Len(down) + 1 /\ down'[i] = m
        BY <2>1, <3>2, PushIndex
      <4>2. m.n \in known \/ Accepted(m.n) \/ InFlight(up, "CloseProxy", m.n)
        BY DEF Orderly, Held
      <4>3. InFlight(up, "CloseProxy", m.n) => m.n \in closed
        BY Zenon DEF InFlight, Orderly, CloseNoted
      <4>4. Accepted(m.n) => \E j \in DOMAIN down' : j < i /\ Accepts(down'[j], m.n)
        BY <4>1, PushIndex DEF Accepted
      <4>. QED
        BY <4>1, <4>2, <4>3, <4>4, Zenon
    <3>. QED
      BY <3>1, <3>2, Zenon
  <2>. QED
    BY <2>1 DEF Expected
<1>. QED
  BY <1>1, <1>2, <1>3, <1>4, Zenon DEF Orderly

\* handle_login and handle_new_proxy: one answer for one message.
LEMMA AnswerSteps ==
  ASSUME ClientInv, ServerLogin \/ ServerNewProxy
  PROVE  ClientInv'
<1>1. up \in Seq(Messages) /\ down \in Seq(Messages)
  BY DEF ClientInv, TypeInv
<1>2. link = "up" /\ up # <<>> /\ up' = Tail(up) /\ UNCHANGED <<service, link, proxyState, admin>>
  BY Zenon DEF ServerLogin, ServerNewProxy
<1>3. /\ Popped(up, up') /\ up' \in Seq(Messages) /\ Head(up) = up[1] /\ up[1] \in Messages
  BY <1>1, <1>2, PopFacts
<1>4. \E m \in Messages : /\ down' = Append(down, m) /\ up[1].t # "CloseProxy" /\ m.t # "ReqWorkConn"
                          /\ m.t = "NewProxyResp" => up[1].t = "NewProxy" /\ m.n = up[1].n
                          /\ \A n \in srv' : n \in srv \/ Accepts(m, n)
  <2>1. CASE ServerLogin
    <3>1. PICK ok \in BOOLEAN : down' = Append(down, Msg("LoginResp", None, ok))
      BY <2>1, Zenon DEF ServerLogin, SendDown
    <3>2. PICK m : m = Msg("LoginResp", None, ok)
      OBVIOUS
    <3>3. m \in Messages /\ m.t = "LoginResp"
      BY <3>2 DEF Msg, Messages
    <3>4. srv' = srv /\ up[1].t = "Login"
      BY <1>3, <2>1, Zenon DEF ServerLogin
    <3>. QED
      BY <3>1, <3>2, <3>3, <3>4
  <2>2. CASE ServerNewProxy
    <3>1. PICK n : n = up[1].n
      BY Zenon
    <3>2. PICK ok \in BOOLEAN : /\ down' = Append(down, Msg("NewProxyResp", n, ok))
                                /\ srv' = IF ok THEN srv \cup {n} ELSE srv
      BY <1>3, <2>2, <3>1, Zenon DEF ServerNewProxy, SendDown
    <3>3. PICK m : m = Msg("NewProxyResp", n, ok)
      OBVIOUS
    <3>4. n \in Names \cup {None}
      BY <1>3, <3>1 DEF Messages
    <3>5. m \in Messages /\ m.t = "NewProxyResp" /\ m.n = n /\ m.ok = ok
      BY <3>3, <3>4 DEF Msg, Messages
    <3>6. up[1].t = "NewProxy"
      BY <1>3, <2>2, Zenon DEF ServerNewProxy
    <3>7. \A k \in srv' : k \in srv \/ Accepts(m, k)
      BY <3>2, <3>5 DEF Accepts
    <3>. QED
      BY <3>1, <3>2, <3>3, <3>5, <3>6, <3>7
  <2>. QED
    BY <2>1, <2>2, Zenon
<1>5. PICK m \in Messages : /\ down' = Append(down, m) /\ up[1].t # "CloseProxy" /\ m.t # "ReqWorkConn"
                            /\ m.t = "NewProxyResp" => up[1].t = "NewProxy" /\ m.n = up[1].n
                            /\ \A n \in srv' : n \in srv \/ Accepts(m, n)
  BY <1>4
<1>6. Pushed(down, down', m) /\ down' \in Seq(Messages)
  BY <1>1, <1>5, PushFacts, Zenon
<1>7. UNCHANGED <<known, closed>> /\ Awaited' = Awaited
  BY <1>2, SMTT(60) DEF Awaited, service, proxyState, admin
<1>8. Orderly => Orderly'
  BY <1>3, <1>5, <1>6, <1>7, AnswerOrderly
<1>. QED
  BY <1>2, <1>3, <1>6, <1>8, ServerStep

LEMMA ServerCloseProxyStep ==
  ASSUME ClientInv, ServerCloseProxy
  PROVE  ClientInv'
<1>1. up \in Seq(Messages) /\ down \in Seq(Messages)
  BY DEF ClientInv, TypeInv
<1>2. /\ link = "up" /\ up # <<>> /\ up' = Tail(up) /\ UNCHANGED <<service, link, proxyState, admin, down>>
      /\ Head(up).t = "CloseProxy" /\ srv' = srv \ {Head(up).n}
  BY DEF ServerCloseProxy
<1>3. Popped(up, up') /\ up' \in Seq(Messages) /\ Head(up) = up[1]
  BY <1>1, <1>2, PopFacts, Zenon
<1>4. UNCHANGED <<known, closed>> /\ Awaited' = Awaited
  BY <1>2 DEF Awaited, service, proxyState, admin
<1>5. Orderly => Orderly'
  BY <1>2, <1>3, <1>4, ForgetOrderly
<1>. QED
  BY <1>1, <1>2, <1>3, <1>5, ServerStep

LEMMA UserConnectsStep ==
  ASSUME ClientInv, Asked, UserConnects
  PROVE  ClientInv'
<1>1. up \in Seq(Messages) /\ down \in Seq(Messages)
  BY DEF ClientInv, TypeInv
<1>2. link = "up" /\ UNCHANGED <<service, link, proxyState, admin, up, srv>>
  BY DEF UserConnects
<1>3. PICK n \in srv : down' = Append(down, Msg("ReqWorkConn", n, TRUE))
  BY Zenon DEF UserConnects, SendDown
<1>4. PICK m : m = Msg("ReqWorkConn", n, TRUE)
  BY Zenon
<1>5. m \in Messages /\ m.t = "ReqWorkConn" /\ m.n = n
  BY <1>4 DEF Msg, Messages, Asked
<1>6. Pushed(down, down', m) /\ down' \in Seq(Messages)
  BY <1>1, <1>3, <1>4, <1>5, PushFacts, Zenon
<1>7. UNCHANGED <<known, closed>> /\ Awaited' = Awaited
  BY <1>2 DEF Awaited, service, proxyState, admin
<1>8. Orderly => Orderly'
  BY <1>2, <1>5, <1>6, <1>7, RequestOrderly
<1>. QED
  BY <1>1, <1>2, <1>6, <1>8, ServerStep

-----------------------------------------------------------------------------
(***************************************************************************)
(* The invariant, and what it says.                                        *)
(***************************************************************************)

LEMMA ClientStart == Init => ClientInv /\ Asked
<1>. SUFFICES ASSUME Init PROVE ClientInv /\ Asked
  OBVIOUS
<1>1. CallType
  BY DEF Init, CallType
<1>2. <<>> \in Seq(Messages) /\ <<>> \in Seq(DOMAIN Calls) /\ DOMAIN <<>> = {}
  OBVIOUS
<1>3. TypeInv /\ WireInv
  BY <1>1, <1>2, Zenon DEF Init, TypeInv, WireInv, Running
<1>4. AnswerIsOwn
  BY DEF Init, AnswerIsOwn
<1>5. Orderly
  BY <1>2, Zenon DEF Init, Orderly, Paired, Held, CloseNoted, Expected, NoneOf, OneOf
<1>. QED
  BY <1>3, <1>4, <1>5 DEF ClientInv, Asked, Init

LEMMA AskedStep ==
  ASSUME ClientInv, Asked, [Next]_vars
  PROVE  Asked'
<1>1. CASE srv' \subseteq srv
  BY <1>1 DEF Asked
<1>2. CASE ServerNewProxy
  <2>1. up \in Seq(Messages) /\ up # <<>>
    BY <1>2, Zenon DEF ClientInv, TypeInv, ServerNewProxy
  <2>2. Head(up) \in Messages
    BY <2>1, PopFacts
  <2>3. Head(up).n \in Names \cup {None}
    BY <2>2 DEF Messages
  <2>. QED
    BY <1>2, <2>3, Zenon DEF ServerNewProxy, Asked
<1>3. srv' \subseteq srv \/ ServerNewProxy
  <2>1. Next \/ srv' = srv
    BY DEF vars
  <2>. QED
    BY <2>1, Zenon DEF Next, Receive, Connect, ConnectFails, ConnectHangs, Retry, Break, Silence, HeartbeatTimeout, ConnectionClosed,
       RecvLoginResp, RecvNewProxyResp, HandleNewProxyResp, HandleReqWorkConn, SendNewProxy, EnterLoop,
       HandleRegister, HandleClose, Call, Send, CallTimeout, ServerLogin, ServerCloseProxy, UserConnects, Lost, Fatal, Finish
<1>. QED
  BY <1>1, <1>2, <1>3

LEMMA ClientStep ==
  ASSUME ClientInv, Asked, [Next]_vars
  PROVE  ClientInv'
<1>1. CASE Next
  <2>1. ASSUME NEW c \in DOMAIN Calls, Call(c) \/ Send(c) \/ CallTimeout(c) PROVE ClientInv'
    BY <2>1, CallSteps
  <2>. QED
    BY <1>1, <2>1, ServiceSteps, FaultSteps, LostSteps, RegisterSteps, HandleRegisterStep, HandleCloseStep,
       HandleNewProxyRespStep, HandleReqWorkConnStep, AnswerSteps, ServerCloseProxyStep, UserConnectsStep
    DEF Next, Receive
<1>2. CASE UNCHANGED vars
  <2>1. UNCHANGED <<phase, why, session, link, up, down, next, known, closed, srv, cmds, slot, call, late, users>>
    BY <1>2 DEF vars, service, wire, proxyState, admin
  <2>2. TypeInv'
    BY <2>1, CallSame DEF ClientInv, TypeInv
  <2>3. WireInv'
    BY <2>1 DEF ClientInv, WireInv, Running
  <2>4. AnswerIsOwn'
    BY <2>1 DEF ClientInv, AnswerIsOwn
  <2>5. Awaited' = Awaited
    BY <2>1 DEF Awaited
  <2>6. ~late' => Orderly'
    BY <2>1, <2>5, QuietOrderly DEF ClientInv
  <2>. QED
    BY <2>2, <2>3, <2>4, <2>6 DEF ClientInv
<1>. QED
  BY <1>1, <1>2

LEMMA ClientAlways == Spec => [](ClientInv /\ Asked)
<1>1. Init => ClientInv /\ Asked
  BY ClientStart
<1>2. ClientInv /\ Asked /\ [Next]_vars => (ClientInv /\ Asked)'
  BY ClientStep, AskedStep
<1>. QED
  BY <1>1, <1>2, PTL DEF Spec

\* Dynamic registrations, in whatever order they are queued behind each other,
\* behind closes and across reconnects, are given the address of their own
\* proxy, as long as none times out: the NewProxyResp arm of the message loop
\* compares no names, and needs none.
THEOREM AnswersSafe == Spec => []AnswerIsOwn
<1>1. ClientInv => AnswerIsOwn
  BY DEF ClientInv
<1>. QED
  BY <1>1, ClientAlways, PTL

\* As long as no call times out, every proxy the server holds for a connected
\* client is in the client's ProxyManager, or the answer that puts it there or
\* the CloseProxy that ends it is on its way.
THEOREM ProxiesSafe == Spec => []ServerProxiesKnown
<1>1. ClientInv => ServerProxiesKnown
  <2>1. ASSUME NEW n, Accepted(n) PROVE InFlight(down, "NewProxyResp", n)
    BY <2>1 DEF Accepted, Accepts, InFlight
  <2>. QED
    BY <2>1 DEF ClientInv, Orderly, Held, ServerProxiesKnown
<1>. QED
  BY <1>1, ClientAlways, PTL

\* As long as no call times out, the ReqWorkConn arm skips a request only when
\* this Control has itself closed the proxy: the acceptance of a proxy reaches
\* the client, and its ProxyManager, before the first request for it.
THEOREM SkipsSafe == Spec => SkippedOnlyAfterClose
<1>1. ClientInv /\ [Next]_vars => [HandleReqWorkConn /\ ~late => Head(down).n \in known \cup closed]_vars
  <2>. SUFFICES ASSUME ClientInv, HandleReqWorkConn, ~late PROVE Head(down).n \in known \cup closed
    OBVIOUS
  <2>1. down \in Seq(Messages) /\ down # <<>> /\ Head(down).t = "ReqWorkConn" /\ Orderly
    BY DEF ClientInv, TypeInv, HandleReqWorkConn
  <2>2. Popped(down, Tail(down)) /\ Head(down) = down[1] /\ 1 \in DOMAIN down
    BY <2>1, PopFacts
  <2>3. ~\E j \in DOMAIN down : j < 1
    BY <2>2 DEF Popped
  <2>. QED
    BY <2>1, <2>2, <2>3 DEF Orderly, Expected
<1>. QED
  BY <1>1, ClientAlways, PTL DEF Spec, SkippedOnlyAfterClose
=============================================================================
