--------------------------- MODULE WorkConnProofs ---------------------------
(***************************************************************************)
(* Proofs about WorkConn for every number of requests, connections and     *)
(* proxies, every fault set and every bound.                               *)
(***************************************************************************)
EXTENDS WorkConn, SequenceTheorems, FiniteSetTheorems, TLAPS

\* A connection in use is one of Conns, the control task holds a request exactly
\* while it handles one, and the request it has pushed stays at the back of
\* pending_work_conns until the send is over: nobody else pushes, and
\* handle_work_conn pops at the front.
ServedHolds == \A r \in Requests : req[r] = "served" => reply[r] \in Conns

HandHeld == /\ ctlPc = "select" => hand = None
            /\ ctlPc # "select" => hand \in Requests

BackIsHand == ctlPc = "send" /\ pending # <<>> => pending[Len(pending)] = hand

\* The inductive invariant.
IndInv == TypeOK /\ ConnOwnedOnce /\ ServedHolds /\ HandHeld /\ BackIsHand

-----------------------------------------------------------------------------
(***************************************************************************)
(* Sequences                                                               *)
(***************************************************************************)

\* What Vec::pop and VecDeque::pop_back leave, and what they return.
LEMMA FrontLast ==
    ASSUME NEW S, NEW s \in Seq(S), s # <<>>
    PROVE  /\ Len(s) \in Nat \ {0}
           /\ Front(s) \in Seq(S)
           /\ Len(Front(s)) = Len(s) - 1
           /\ \A i \in 1..Len(Front(s)) : Front(s)[i] = s[i]
           /\ Last(s) \in S
           /\ Last(s) = s[Len(s)]
<1>1. Len(s) \in Nat \ {0} /\ Last(s) = s[Len(s)] /\ Last(s) \in S
  BY DEF Last
<1>2. /\ Front(s) \in Seq(S)
      /\ Len(Front(s)) = Len(s) - 1
      /\ \A i \in 1..Len(s) - 1 : Front(s)[i] = s[i]
  <2>. DEFINE n == Len(s) - 1
              f == SubSeq(s, 1, n)
  <2>1. n \in Nat /\ \A i \in 1..n : s[i] \in S
    BY <1>1
  <2>2. /\ f \in Seq(S)
        /\ Len(f) = IF 1 <= n THEN n - 1 + 1 ELSE 0
        /\ \A i \in 1..n - 1 + 1 : f[i] = s[1 + i - 1]
    <3>. HIDE DEF n
    <3>. QED  BY <2>1, SubSeqProperties
  <2>3. Front(s) = f
    BY Zenon DEF Front
  <2>. HIDE DEF f, n
  <2>4. f \in Seq(S) /\ Len(f) = n /\ \A i \in 1..n : f[i] = s[i]
    BY <2>1, <2>2
  <2>. QED  BY <2>3, <2>4 DEF n
<1>. QED  BY <1>1, <1>2

\* What VecDeque::pop_front leaves, and what it returns.
LEMMA HeadTail ==
    ASSUME NEW S, NEW s \in Seq(S), s # <<>>
    PROVE  /\ Len(s) \in Nat \ {0}
           /\ Tail(s) \in Seq(S)
           /\ Len(Tail(s)) = Len(s) - 1
           /\ \A i \in 1..Len(Tail(s)) : Tail(s)[i] = s[i+1]
           /\ Head(s) \in S
           /\ Head(s) = s[1]
OBVIOUS

\* What push and push_back leave.
LEMMA AppendAt ==
    ASSUME NEW S, NEW s \in Seq(S), NEW e \in S
    PROVE  /\ Len(s) \in Nat
           /\ Append(s, e) \in Seq(S)
           /\ Len(Append(s, e)) = Len(s) + 1
           /\ \A i \in 1..Len(s) : Append(s, e)[i] = s[i]
           /\ Append(s, e)[Len(s) + 1] = e
OBVIOUS
-----------------------------------------------------------------------------
(***************************************************************************)
(* The inductive invariant                                                 *)
(***************************************************************************)

\* A Control as Control::new leaves it satisfies the invariant.
LEMMA InitInd == Init => IndInv
<1>. SUFFICES ASSUME Init PROVE IndInv
  OBVIOUS
<1>1. TypeOK
  BY DEF Init, TypeOK
<1>2. ConnOwnedOnce
  BY ReplyAssumption DEF Init, ConnOwnedOnce
<1>. QED  BY <1>1, <1>2 DEF Init, IndInv, ServedHolds, HandHeld, BackIsHand

\* reply_tx.send(c) of a connection nobody else refers to keeps every connection
\* with one owner.
LEMMA DeliverOwned ==
    ASSUME IndInv, NEW r \in Requests, NEW c \in Conns,
           Deliver(r, c), UNCHANGED req,
           \A i \in 1..Len(idle') : idle'[i] # c,
           \A i, j \in 1..Len(idle') : idle'[i] = idle'[j] => i = j,
           \A d \in Conns \ {c} : (\E i \in 1..Len(idle') : idle'[i] = d)
                                <=> (\E i \in 1..Len(idle) : idle[i] = d),
           conn[c] \in {"handler", "idle"}
    PROVE  /\ reply' \in [Requests -> Conns \cup {"empty", "closed"}]
           /\ conn' \in [Conns -> {"unused", "handler", "idle", "reply", "used"}]
           /\ pooled' \in SUBSET Conns
           /\ ConnOwnedOnce'
           /\ ServedHolds'
<1>. USE DEF IndInv
<1>1. CASE Receiving(r)
  <2>1. /\ reply' = [reply EXCEPT ![r] = c]
        /\ conn' = [conn EXCEPT ![c] = "reply"]
        /\ pooled' = pooled
    BY <1>1 DEF Deliver
  <2>2. /\ reply' \in [Requests -> Conns \cup {"empty", "closed"}]
        /\ conn' \in [Conns -> {"unused", "handler", "idle", "reply", "used"}]
        /\ pooled' \in SUBSET Conns
        /\ ServedHolds'
    BY <2>1 DEF TypeOK, ServedHolds
  <2>3. \A d \in Conns : conn'[d] = "idle" <=> \E i \in 1..Len(idle') : idle'[i] = d
    BY <2>1 DEF TypeOK, ConnOwnedOnce
  <2>4. \A s \in Requests : reply'[s] \in Conns => conn'[reply'[s]] \in {"reply", "used"}
    BY <2>1 DEF TypeOK, ConnOwnedOnce
  <2>5. \A s, t \in Requests : reply'[s] \in Conns /\ reply'[s] = reply'[t] => s = t
    BY <2>1, SMTT(60) DEF TypeOK, ConnOwnedOnce
  <2>. QED  BY <2>2, <2>3, <2>4, <2>5 DEF ConnOwnedOnce
<1>2. CASE ~Receiving(r)
  <2>1. /\ reply' = reply
        /\ conn' = [conn EXCEPT ![c] = "unused"]
        /\ pooled' = pooled \ {c}
    BY <1>2 DEF Deliver
  <2>2. /\ reply' \in [Requests -> Conns \cup {"empty", "closed"}]
        /\ conn' \in [Conns -> {"unused", "handler", "idle", "reply", "used"}]
        /\ pooled' \in SUBSET Conns
        /\ ServedHolds'
    BY <2>1 DEF TypeOK, ServedHolds
  <2>3. \A d \in Conns : conn'[d] = "idle" <=> \E i \in 1..Len(idle') : idle'[i] = d
    BY <2>1 DEF TypeOK, ConnOwnedOnce
  <2>4. \A s \in Requests : reply'[s] \in Conns => conn'[reply'[s]] \in {"reply", "used"}
    BY <2>1 DEF TypeOK, ConnOwnedOnce
  <2>5. \A s, t \in Requests : reply'[s] \in Conns /\ reply'[s] = reply'[t] => s = t
    BY <2>1 DEF TypeOK, ConnOwnedOnce
  <2>. QED  BY <2>2, <2>3, <2>4, <2>5 DEF ConnOwnedOnce
<1>. QED  BY <1>1, <1>2

\* A requester that lets go of its connection leaves no other reference to it.
LEMMA CloseOwned ==
    ASSUME IndInv, NEW r \in Requests, reply[r] \in Conns, CloseConn(reply[r]),
           reply' = [reply EXCEPT ![r] = "empty"],
           req' = [req EXCEPT ![r] = "idle"], UNCHANGED idle
    PROVE  /\ conn' \in [Conns -> {"unused", "handler", "idle", "reply", "used"}]
           /\ pooled' \in SUBSET Conns
           /\ ConnOwnedOnce'
           /\ ServedHolds'
<1>. USE DEF IndInv
<1>1. /\ conn' = [conn EXCEPT ![reply[r]] = "unused"]
      /\ pooled' = pooled \ {reply[r]}
  BY DEF CloseConn
<1>2. /\ conn' \in [Conns -> {"unused", "handler", "idle", "reply", "used"}]
      /\ pooled' \in SUBSET Conns
  BY <1>1 DEF TypeOK
<1>3. ServedHolds'
  BY <1>1 DEF TypeOK, ServedHolds
<1>4. \A d \in Conns : conn'[d] = "idle" <=> \E i \in 1..Len(idle') : idle'[i] = d
  <2>1. conn[reply[r]] # "idle"
    BY DEF ConnOwnedOnce
  <2>2. \A d \in Conns : conn'[d] = "idle" <=> conn[d] = "idle"
    BY <1>1, <2>1 DEF TypeOK
  <2>. QED  BY <2>2 DEF ConnOwnedOnce
<1>5. \A s \in Requests : reply'[s] \in Conns => conn'[reply'[s]] \in {"reply", "used"}
  BY <1>1, ReplyAssumption DEF TypeOK, ConnOwnedOnce
<1>6. \A s, t \in Requests : reply'[s] \in Conns /\ reply'[s] = reply'[t] => s = t
  BY <1>1, ReplyAssumption DEF TypeOK, ConnOwnedOnce
<1>. QED  BY <1>2, <1>3, <1>4, <1>5, <1>6, SMTT(60) DEF ConnOwnedOnce

\* A requester's step keeps the invariant.
LEMMA RequesterInd ==
    ASSUME IndInv, NEW r \in Requests, Requester(r)
    PROVE  IndInv'
<1>. USE DEF IndInv, ctlVars, queueVars, clientVars
<1>1. CASE RequestWorkConn(r)
  <2>1. chan' \in Seq(Requests)
    BY <1>1, AppendAt DEF RequestWorkConn, TypeOK
  <2>. QED  BY <1>1, <2>1 DEF RequestWorkConn, TypeOK, ConnOwnedOnce, ServedHolds, HandHeld, BackIsHand
<1>2. CASE RequestRefused(r)
  BY <1>2 DEF RequestRefused, vars, TypeOK, ConnOwnedOnce, ServedHolds, HandHeld, BackIsHand
<1>3. CASE Receive(r)
  <2>1. TypeOK' /\ ServedHolds' /\ HandHeld' /\ BackIsHand'
    BY <1>3 DEF Receive, TypeOK, ServedHolds, HandHeld, BackIsHand
  <2>2. ConnOwnedOnce'
    BY <1>3, SMTT(60) DEF Receive, TypeOK, ConnOwnedOnce
  <2>. QED  BY <2>1, <2>2
<1>4. CASE StartFails(r) \/ Finish(r)
  <2>1. /\ reply[r] \in Conns
        /\ CloseConn(reply[r])
        /\ reply' = [reply EXCEPT ![r] = "empty"]
        /\ req' = [req EXCEPT ![r] = "idle"]
        /\ UNCHANGED <<link, entry, ctlVars, queueVars, clientVars>>
    BY <1>4 DEF StartFails, Finish, ServedHolds
  <2>2. /\ conn' \in [Conns -> {"unused", "handler", "idle", "reply", "used"}]
        /\ pooled' \in SUBSET Conns
        /\ ConnOwnedOnce'
        /\ ServedHolds'
    BY <2>1, CloseOwned
  <2>3. TypeOK' /\ HandHeld' /\ BackIsHand'
    BY <2>1, <2>2 DEF TypeOK, HandHeld, BackIsHand
  <2>. QED  BY <2>2, <2>3
<1>5. CASE ChannelClosed(r)
  <2>1. TypeOK' /\ ServedHolds' /\ HandHeld' /\ BackIsHand'
    BY <1>5 DEF ChannelClosed, TypeOK, ServedHolds, HandHeld, BackIsHand
  <2>2. ConnOwnedOnce'
    BY <1>5, ReplyAssumption, SMTT(60) DEF ChannelClosed, TypeOK, ConnOwnedOnce
  <2>. QED  BY <2>1, <2>2
<1>6. CASE Expire(r)
  BY <1>6 DEF Expire, TypeOK, ConnOwnedOnce, ServedHolds, HandHeld, BackIsHand
<1>7. CASE DropReceiver(r)
  <2>1. CASE reply[r] \in Conns
    <3>1. /\ CloseConn(reply[r])
          /\ reply' = [reply EXCEPT ![r] = "empty"]
          /\ req' = [req EXCEPT ![r] = "idle"]
          /\ UNCHANGED <<link, entry, ctlVars, queueVars, clientVars>>
      BY <1>7, <2>1 DEF DropReceiver
    <3>2. /\ conn' \in [Conns -> {"unused", "handler", "idle", "reply", "used"}]
          /\ pooled' \in SUBSET Conns
          /\ ConnOwnedOnce'
          /\ ServedHolds'
      BY <2>1, <3>1, CloseOwned
    <3>3. TypeOK' /\ HandHeld' /\ BackIsHand'
      BY <3>1, <3>2 DEF TypeOK, HandHeld, BackIsHand
    <3>. QED  BY <3>2, <3>3
  <2>2. CASE reply[r] \notin Conns
    <3>1. TypeOK' /\ ServedHolds' /\ HandHeld' /\ BackIsHand'
      BY <1>7, <2>2 DEF DropReceiver, TypeOK, ServedHolds, HandHeld, BackIsHand
    <3>2. ConnOwnedOnce'
      BY <1>7, <2>2, ReplyAssumption DEF DropReceiver, TypeOK, ConnOwnedOnce
    <3>. QED  BY <3>1, <3>2
  <2>. QED  BY <2>1, <2>2, SMTT(60)
<1>. QED  BY <1>1, <1>2, <1>3, <1>4, <1>5, <1>6, <1>7, SMTT(60) DEF Requester

\* A step of the control task keeps the invariant.
LEMMA ControlTaskInd ==
    ASSUME IndInv, ControlTask
    PROVE  IndInv'
<1>. USE DEF IndInv, ctlVars, queueVars, clientVars
<1>1. CASE TakeIdle
  <2>. DEFINE r == Head(chan)
              c == Last(idle)
  <2>1. /\ r \in Requests /\ chan' \in Seq(Requests)
        /\ c \in Conns /\ idle' \in Seq(Conns)
        /\ c = idle[Len(idle)]
        /\ Len(idle) \in Nat \ {0}
        /\ Len(idle') = Len(idle) - 1
        /\ \A i \in 1..Len(idle') : idle'[i] = idle[i]
    BY <1>1, HeadTail, FrontLast, ZenonT(60) DEF TakeIdle, TypeOK
  <2>. HIDE DEF c, r
  <2>2. /\ Deliver(r, c)
        /\ UNCHANGED <<link, entry, ctlVars, pending, req, clientVars>>
    BY <1>1 DEF TakeIdle, c, r
  <2>3. \A i, j \in 1..Len(idle) : idle[i] = idle[j] => i = j
    BY DEF ConnOwnedOnce
  <2>4. conn[c] = "idle"
    BY <2>1 DEF ConnOwnedOnce
  <2>5. \A i \in 1..Len(idle') : idle'[i] # c
    BY <2>1, <2>3
  <2>6. \A i, j \in 1..Len(idle') : idle'[i] = idle'[j] => i = j
    BY <2>1, <2>3
  <2>7. \A d \in Conns \ {c} : (\E i \in 1..Len(idle') : idle'[i] = d)
                               <=> (\E i \in 1..Len(idle) : idle[i] = d)
    BY <2>1
  <2>8. /\ reply' \in [Requests -> Conns \cup {"empty", "closed"}]
        /\ conn' \in [Conns -> {"unused", "handler", "idle", "reply", "used"}]
        /\ pooled' \in SUBSET Conns
        /\ ConnOwnedOnce'
        /\ ServedHolds'
    BY <2>1, <2>2, <2>4, <2>5, <2>6, <2>7, DeliverOwned, SMTT(60)
  <2>9. TypeOK' /\ HandHeld' /\ BackIsHand'
    BY <2>1, <2>2, <2>8 DEF TypeOK, HandHeld, BackIsHand
  <2>. QED  BY <2>8, <2>9
<1>2. CASE FindNoIdle
  <2>1. Head(chan) \in Requests /\ chan' \in Seq(Requests)
    BY <1>2, HeadTail DEF FindNoIdle, TypeOK
  <2>. QED  BY <1>2, <2>1 DEF FindNoIdle, TypeOK, ConnOwnedOnce, ServedHolds, HandHeld, BackIsHand
<1>3. CASE PushPending
  <2>1. hand \in Requests
    BY <1>3 DEF PushPending, HandHeld
  <2>2. /\ pending' \in Seq(Requests)
        /\ pending'[Len(pending')] = hand
    BY <1>3, <2>1, AppendAt, SMTT(60) DEF PushPending, TypeOK
  <2>. QED  BY <1>3, <2>1, <2>2 DEF PushPending, TypeOK, ConnOwnedOnce, ServedHolds, HandHeld, BackIsHand
<1>4. CASE SendReqWorkConn
  <2>1. toClient' \in Seq(Proxies)
    <3>1. ProxyOf[hand] \in Proxies
      BY <1>4, ProxyAssumption DEF SendReqWorkConn, HandHeld
    <3>2. Append(toClient, ProxyOf[hand]) \in Seq(Proxies)
      BY <3>1, AppendAt DEF TypeOK
    <3>. QED  BY <1>4, <3>2 DEF SendReqWorkConn, TypeOK
  <2>. QED  BY <1>4, <2>1 DEF SendReqWorkConn, TypeOK, ConnOwnedOnce, ServedHolds, HandHeld, BackIsHand
<1>5. CASE SendFails
  <2>1. pending' \in Seq(Requests)
    <3>1. CASE pending = <<>>
      BY <1>5, <3>1, Zenon DEF SendFails, PopBack, TypeOK
    <3>2. CASE pending # <<>>
      <4>1. Front(pending) \in Seq(Requests)
        BY <3>2, FrontLast, Zenon DEF TypeOK
      <4>. QED  BY <1>5, <3>2, <4>1 DEF SendFails, PopBack
    <3>. QED  BY <3>1, <3>2
  <2>2. /\ reply' \in [Requests -> Conns \cup {"empty", "closed"}]
        /\ \A r \in Requests : reply'[r] = reply[r] \/ (reply'[r] = "closed" /\ req[r] # "served")
    BY <1>5, FrontLast, Zenon DEF SendFails, PopBack, TypeOK, Receiving
  <2>3. TypeOK' /\ HandHeld' /\ BackIsHand'
    BY <1>5, <2>1, <2>2, Zenon DEF SendFails, TypeOK, HandHeld, BackIsHand
  <2>4. ServedHolds'
    BY <1>5, <2>2, Zenon DEF SendFails, ServedHolds
  <2>5. ConnOwnedOnce'
    BY <1>5, <2>2, ReplyAssumption, SMTT(60) DEF SendFails, ConnOwnedOnce
  <2>. QED  BY <2>3, <2>4, <2>5
<1>6. CASE EndRun
  BY <1>6 DEF EndRun, TypeOK, ConnOwnedOnce, ServedHolds, HandHeld, BackIsHand
<1>. QED  BY <1>1, <1>2, <1>3, <1>4, <1>5, <1>6, SMTT(60) DEF ControlTask

\* A step of the Control's owners keeps the invariant.
LEMMA OwnersInd ==
    ASSUME IndInv, Owners
    PROVE  IndInv'
<1>. USE DEF IndInv, ctlVars, queueVars, clientVars
<1>1. CASE Supersede \/ RemoveControl \/ LinkDown
  BY <1>1, SMTT(60) DEF Supersede, RemoveControl, LinkDown, TypeOK, ConnOwnedOnce, ServedHolds, HandHeld, BackIsHand
<1>2. CASE DropControl
  <2>1. /\ chan' = <<>> /\ pending' = <<>> /\ idle' = <<>>
        /\ phase' = "dropped"
        /\ UNCHANGED <<link, entry, ctlPc, hand, req, clientVars>>
    BY <1>2 DEF DropControl
  <2>2. /\ reply' \in [Requests -> Conns \cup {"empty", "closed"}]
        /\ \A r \in Requests : reply'[r] = reply[r] \/ (reply'[r] = "closed" /\ req[r] # "served")
    BY <1>2, Zenon DEF DropControl, TypeOK, Receiving
  <2>3. /\ conn' \in [Conns -> {"unused", "handler", "idle", "reply", "used"}]
        /\ \A c \in Conns : conn'[c] # "idle" /\ (conn[c] # "idle" => conn'[c] = conn[c])
    BY <1>2, Zenon DEF DropControl, TypeOK
  <2>4. pooled' \in SUBSET Conns
    BY <1>2, Zenon DEF DropControl, TypeOK
  <2>5. TypeOK'
    BY <2>1, <2>2, <2>3, <2>4 DEF TypeOK
  <2>6. ServedHolds' /\ HandHeld' /\ BackIsHand'
    BY <2>1, <2>2, Zenon DEF ServedHolds, HandHeld, BackIsHand
  <2>7. ConnOwnedOnce'
    <3>1. /\ \A i, j \in 1..Len(idle') : idle'[i] = idle'[j] => i = j
          /\ \A c \in Conns : conn'[c] = "idle" <=> \E i \in 1..Len(idle') : idle'[i] = c
      BY <2>1, <2>3, SMTT(60)
    <3>2. /\ \A r \in Requests : reply'[r] \in Conns => conn'[reply'[r]] \in {"reply", "used"}
          /\ \A r, s \in Requests : reply'[r] \in Conns /\ reply'[r] = reply'[s] => r = s
      BY <2>2, <2>3, ReplyAssumption DEF ConnOwnedOnce
    <3>. QED  BY <3>1, <3>2 DEF ConnOwnedOnce
  <2>. QED  BY <2>5, <2>6, <2>7
<1>. QED  BY <1>1, <1>2, SMTT(60) DEF Owners

\* A step of the client keeps the invariant.
LEMMA ClientInd ==
    ASSUME IndInv, Client
    PROVE  IndInv'
<1>. USE DEF IndInv, ctlVars, queueVars, clientVars
<1>1. CASE ClientReqWorkConn
  <2>1. toClient' \in Seq(Proxies)
    BY <1>1, HeadTail, Zenon DEF ClientReqWorkConn, TypeOK
  <2>. QED  BY <1>1, <2>1 DEF ClientReqWorkConn, TypeOK, ConnOwnedOnce, ServedHolds, HandHeld, BackIsHand
<1>2. CASE OpenUnknownRun \/ OpenFails
  <2>1. /\ spawned' \in Nat
        /\ answered' \in {"all", "some"}
        /\ UNCHANGED <<link, entry, ctlVars, queueVars, req, reply, conn, pooled, toClient>>
    BY <1>2 DEF OpenUnknownRun, OpenFails, TypeOK
  <2>. QED  BY <2>1 DEF TypeOK, ConnOwnedOnce, ServedHolds, HandHeld, BackIsHand
<1>3. ASSUME NEW c \in Conns, OpenRequested(c) \/ OpenPooled(c)
      PROVE  IndInv'
  <2>1. /\ conn[c] = "unused"
        /\ conn' = [conn EXCEPT ![c] = "handler"]
        /\ UNCHANGED <<link, entry, ctlVars, queueVars, req, reply, toClient>>
        /\ pooled' \in SUBSET Conns
        /\ spawned' \in Nat
        /\ UNCHANGED answered
    BY <1>3 DEF OpenRequested, OpenPooled, Arrive, TypeOK
  <2>2. TypeOK' /\ ServedHolds' /\ HandHeld' /\ BackIsHand'
    BY <2>1, SMTT(60) DEF TypeOK, ServedHolds, HandHeld, BackIsHand
  <2>3. ConnOwnedOnce'
    <3>1. \A d \in Conns : conn'[d] = "idle" <=> conn[d] = "idle"
      BY <2>1, Zenon DEF TypeOK
    <3>2. \A r \in Requests : reply'[r] \in Conns => conn'[reply'[r]] \in {"reply", "used"}
      BY <2>1 DEF TypeOK, ConnOwnedOnce
    <3>. QED  BY <2>1, <3>1, <3>2 DEF ConnOwnedOnce
  <2>. QED  BY <2>2, <2>3, Zenon
<1>. QED  BY <1>1, <1>2, <1>3, Zenon DEF Client

\* The task of an arriving work connection keeps the invariant.
LEMMA HandleWorkConnInd ==
    ASSUME IndInv, NEW c \in Conns, HandleWorkConn(c)
    PROVE  IndInv'
<1>. USE DEF IndInv, ctlVars, queueVars, clientVars
<1>1. CASE pending = <<>>
  <2>1. /\ conn[c] = "handler"
        /\ conn' = [conn EXCEPT ![c] = "idle"]
        /\ UNCHANGED <<link, entry, ctlVars, chan, pending, req, reply, pooled, clientVars>>
    BY <1>1 DEF HandleWorkConn
  <2>2. /\ Len(idle) \in Nat
        /\ idle' \in Seq(Conns)
        /\ Len(idle') = Len(idle) + 1
        /\ \A i \in 1..Len(idle) : idle'[i] = idle[i]
        /\ idle'[Len(idle) + 1] = c
    <3>1. idle \in Seq(Conns) /\ idle' = Append(idle, c)
      BY <1>1, Zenon DEF HandleWorkConn, TypeOK
    <3>. QED  BY <3>1, AppendAt
  <2>3. TypeOK' /\ ServedHolds' /\ HandHeld' /\ BackIsHand'
    BY <2>1, <2>2 DEF TypeOK, ServedHolds, HandHeld, BackIsHand
  <2>4. \A i \in 1..Len(idle) : idle[i] # c
    BY <2>1, Zenon DEF ConnOwnedOnce
  <2>5. \A i, j \in 1..Len(idle') : idle'[i] = idle'[j] => i = j
    BY <2>2, <2>4 DEF ConnOwnedOnce
  <2>6. \A d \in Conns : conn'[d] = "idle" <=> \E i \in 1..Len(idle') : idle'[i] = d
    <3>1. \A d \in Conns \ {c} : (\E i \in 1..Len(idle') : idle'[i] = d)
                                 <=> (\E i \in 1..Len(idle) : idle[i] = d)
      BY <2>2
    <3>2. \E i \in 1..Len(idle') : idle'[i] = c
      BY <2>2
    <3>3. conn'[c] = "idle" /\ \A d \in Conns \ {c} : conn'[d] = conn[d]
      BY <2>1, Zenon DEF TypeOK
    <3>. QED  BY <3>1, <3>2, <3>3, Zenon DEF ConnOwnedOnce
  <2>7. \A r \in Requests : reply'[r] \in Conns => conn'[reply'[r]] \in {"reply", "used"}
    BY <2>1 DEF TypeOK, ConnOwnedOnce
  <2>8. ConnOwnedOnce'
    BY <2>1, <2>5, <2>6, <2>7 DEF ConnOwnedOnce
  <2>. QED  BY <2>3, <2>8
<1>2. CASE pending # <<>>
  <2>1. /\ conn[c] = "handler"
        /\ pending' = Tail(pending)
        /\ Deliver(Head(pending), c)
        /\ UNCHANGED <<link, entry, ctlVars, chan, idle, req, clientVars>>
    BY <1>2, Zenon DEF HandleWorkConn
  <2>2. /\ Head(pending) \in Requests
        /\ Len(pending) \in Nat \ {0}
        /\ pending' \in Seq(Requests)
        /\ Len(pending') = Len(pending) - 1
        /\ \A i \in 1..Len(pending') : pending'[i] = pending[i+1]
    BY <1>2, <2>1, HeadTail DEF TypeOK
  <2>3. \A i \in 1..Len(idle') : idle'[i] # c
    BY <2>1, Zenon DEF ConnOwnedOnce
  <2>4. /\ reply' \in [Requests -> Conns \cup {"empty", "closed"}]
        /\ conn' \in [Conns -> {"unused", "handler", "idle", "reply", "used"}]
        /\ pooled' \in SUBSET Conns
        /\ ConnOwnedOnce'
        /\ ServedHolds'
    <3>1. \A i, j \in 1..Len(idle') : idle'[i] = idle'[j] => i = j
      BY <2>1, ZenonT(60) DEF ConnOwnedOnce
    <3>. QED  BY <2>1, <2>2, <2>3, <3>1, DeliverOwned, Zenon
  <2>5. BackIsHand'
    <3>. SUFFICES ASSUME ctlPc' = "send", pending' # <<>>
                  PROVE  pending'[Len(pending')] = hand'
      BY DEF BackIsHand
    <3>1. Len(pending') \in 1..Len(pending') /\ Len(pending') + 1 = Len(pending)
      BY <2>2
    <3>. QED  BY <1>2, <2>1, <2>2, <3>1 DEF BackIsHand
  <2>6. TypeOK' /\ HandHeld'
    BY <2>1, <2>2, <2>4, Zenon DEF TypeOK, HandHeld
  <2>. QED  BY <2>4, <2>5, <2>6
<1>. QED  BY <1>1, <1>2, SMTT(60)

-----------------------------------------------------------------------------
(***************************************************************************)
(* Theorems                                                                *)
(***************************************************************************)

\* Every step of the requesters, the control task, its owners, the client and the
\* tasks of arriving connections keeps the invariant.
LEMMA NextInd == IndInv /\ [Next]_vars => IndInv'
<1>. SUFFICES ASSUME IndInv, [Next]_vars PROVE IndInv'
  OBVIOUS
<1>1. ASSUME NEW r \in Requests, Requester(r) PROVE IndInv'
  BY <1>1, RequesterInd
<1>2. CASE ControlTask
  BY <1>2, ControlTaskInd
<1>3. CASE Owners
  BY <1>3, OwnersInd, Zenon
<1>4. CASE Client
  BY <1>4, ClientInd
<1>5. ASSUME NEW c \in Conns, HandleWorkConn(c) PROVE IndInv'
  BY <1>5, HandleWorkConnInd
<1>6. CASE UNCHANGED vars
  BY <1>6 DEF vars, ctlVars, queueVars, clientVars, IndInv,
              TypeOK, ConnOwnedOnce, ServedHolds, HandHeld, BackIsHand
<1>. QED  BY <1>1, <1>2, <1>3, <1>4, <1>5, <1>6, SMTT(60) DEF Next

\* The inductive invariant holds in every reachable state.
THEOREM Invariance == Spec => []IndInv
<1>. QED  BY InitInd, NextInd, PTL DEF Spec

\* Control's queues, oneshots and connections keep their types.
THEOREM TypeCorrect == Spec => []TypeOK
<1>1. IndInv => TypeOK
  BY DEF IndInv
<1>. QED  BY <1>1, Invariance, PTL

\* handle_work_conn_request and handle_work_conn never give one work connection
\* to two requests, nor leave one in the idle list that a request holds.
THEOREM ConnOwnership == Spec => []ConnOwnedOnce
<1>1. IndInv => ConnOwnedOnce
  BY DEF IndInv
<1>. QED  BY <1>1, Invariance, PTL

\* The pop_back after a failed ReqWorkConn never drops another request.
THEOREM SendFailureIsLocal == Spec => OnlyOwnRequestDropped
<1>1. IndInv /\ [Next]_vars =>
        [\A r \in Requests :
            reply[r] = "empty" /\ reply'[r] = "closed" => phase' = "dropped" \/ r = hand]_vars
  <2>. SUFFICES ASSUME IndInv, Next, NEW r \in Requests,
                       reply[r] = "empty", reply'[r] = "closed", phase' # "dropped"
                PROVE  r = hand
    BY Zenon
  <2>. USE DEF IndInv
  <2>1. ASSUME NEW s \in Requests, Requester(s) PROVE FALSE
    BY <2>1, Zenon DEF Requester, RequestWorkConn, RequestRefused, Receive, StartFails, ChannelClosed,
                Expire, DropReceiver, Finish, vars, TypeOK
  <2>2. ASSUME NEW s \in Requests, NEW c \in Conns, Deliver(s, c) PROVE FALSE
    BY <2>2, ReplyAssumption DEF Deliver, TypeOK
  <2>3. CASE ControlTask
    <3>1. CASE TakeIdle
      BY <3>1, <2>2, HeadTail, FrontLast, Zenon DEF TakeIdle, TypeOK
    <3>2. CASE SendFails
      BY <3>2, FrontLast, ZenonT(60) DEF SendFails, PopBack, TypeOK, BackIsHand
    <3>. QED  BY <2>3, <3>1, <3>2, Zenon DEF ControlTask, FindNoIdle, PushPending, SendReqWorkConn, EndRun
  <2>4. CASE Owners
    BY <2>4, Zenon DEF Owners, Supersede, RemoveControl, DropControl, LinkDown
  <2>5. CASE Client
    BY <2>5, Zenon DEF Client, ClientReqWorkConn, OpenUnknownRun, OpenFails, OpenRequested, OpenPooled
  <2>6. ASSUME NEW c \in Conns, HandleWorkConn(c) PROVE FALSE
    BY <2>6, <2>2, HeadTail DEF HandleWorkConn, TypeOK
  <2>. QED  BY <2>1, <2>3, <2>4, <2>5, <2>6, Zenon DEF Next
<1>. QED  BY <1>1, Invariance, PTL DEF Spec, OnlyOwnRequestDropped
-----------------------------------------------------------------------------
(***************************************************************************)
(* No lost wakeup                                                          *)
(***************************************************************************)

\* The connections in the hands of handle_work_conn can be counted, and the
\* count follows the connections that come and go.
LEMMA HandlersCount ==
    ASSUME NEW n, n = Cardinality(Handlers)
    PROVE  /\ n \in Nat
           /\ Handlers' = Handlers => Cardinality(Handlers') = n
           /\ \A c \in Conns : c \notin Handlers /\ Handlers' = Handlers \cup {c} =>
                 Cardinality(Handlers') = n + 1
           /\ \A c \in Conns : c \in Handlers /\ Handlers' = Handlers \ {c} =>
                 n > 0 /\ Cardinality(Handlers') = n - 1
<1>1. IsFiniteSet(Handlers)
  BY ConnsAssumption, FS_Subset DEF Handlers
<1>2. Cardinality(Handlers) \in Nat
  BY <1>1, FS_CardinalityType
<1>3. \A c : c \notin Handlers => Cardinality(Handlers \cup {c}) = n + 1
  BY <1>1, FS_AddElement
<1>4. \A c : c \in Handlers => Cardinality(Handlers \ {c}) = n - 1
  BY <1>1, FS_RemoveElement
<1>5. \A c : c \in Handlers => Cardinality(Handlers \ {c}) \in Nat
  BY <1>1, FS_RemoveElement, FS_CardinalityType
<1>6. ASSUME NEW c \in Handlers PROVE n > 0
  <2>1. n - 1 \in Nat
    BY <1>4, <1>5, Zenon
  <2>. QED  BY <1>2, <2>1
<1>. QED  BY <1>2, <1>3, <1>4, <1>6

\* What a step may do to the pending requests and the connections under way,
\* on a live control connection of a listed run: both sides keep their balance.
LEMMA NextCovered ==
    ASSUME IndInv, PendingIsCovered, [Next]_vars
    PROVE  PendingIsCovered'
<1>. SUFFICES ASSUME answered' = "all", link' = "up", entry' = "listed"
              PROVE  Len(pending') <= Coming'
  BY Zenon DEF PendingIsCovered
<1>. USE DEF IndInv, ctlVars, queueVars, clientVars
<1>. DEFINE n == Cardinality(Handlers)
            m == Cardinality(Handlers')
<1>n. /\ n \in Nat
      /\ Handlers' = Handlers => m = n
      /\ \A c \in Conns : c \notin Handlers /\ Handlers' = Handlers \cup {c} => m = n + 1
      /\ \A c \in Conns : c \in Handlers /\ Handlers' = Handlers \ {c} => n > 0 /\ m = n - 1
  BY HandlersCount, Zenon
<1>c. /\ Coming = Len(toClient) + spawned + n + (IF ctlPc = "send" THEN 1 ELSE 0)
      /\ Coming' = Len(toClient') + spawned' + m + (IF ctlPc' = "send" THEN 1 ELSE 0)
  BY Zenon DEF Coming
<1>. HIDE DEF n, m
<1>t. /\ Len(toClient) \in Nat /\ spawned \in Nat /\ Len(pending) \in Nat
  BY DEF TypeOK
<1>s. ASSUME answered = "all", link = "up", entry = "listed", Handlers' = Handlers,
             UNCHANGED <<pending, toClient, spawned>>, ctlPc # "send", ctlPc' # "send"
      PROVE  Len(pending') <= Coming'
  BY <1>s, <1>n, <1>c, <1>t, Zenon DEF PendingIsCovered
<1>1. ASSUME NEW r \in Requests, Requester(r) PROVE Len(pending') <= Coming'
  <2>1. UNCHANGED <<link, entry, ctlPc, pending, clientVars>>
    BY <1>1, Zenon DEF Requester, RequestWorkConn, RequestRefused, Receive, StartFails, ChannelClosed,
                Expire, DropReceiver, Finish, vars
  <2>2. \/ UNCHANGED conn
        \/ /\ reply[r] \in Conns
           /\ \/ conn' = [conn EXCEPT ![reply[r]] = "used"]
              \/ conn' = [conn EXCEPT ![reply[r]] = "unused"]
    BY <1>1, Zenon DEF Requester, RequestWorkConn, RequestRefused, Receive, StartFails, ChannelClosed,
                Expire, DropReceiver, Finish, CloseConn, vars, ServedHolds
  <2>3. reply[r] \in Conns => conn[reply[r]] # "handler"
    BY Zenon DEF ConnOwnedOnce
  <2>4. Handlers' = Handlers
    BY <2>2, <2>3, Zenon DEF Handlers, TypeOK
  <2>. QED  BY <2>1, <2>4, <1>n, <1>c, <1>t, Zenon DEF PendingIsCovered
<1>2. CASE ControlTask
  <2>1. CASE TakeIdle
    <3>1. /\ Head(chan) \in Requests
          /\ Last(idle) \in Conns /\ Last(idle) = idle[Len(idle)] /\ Len(idle) \in Nat \ {0}
      BY <2>1, HeadTail, FrontLast, Zenon DEF TakeIdle, TypeOK
    <3>2. conn[Last(idle)] = "idle"
      BY <3>1 DEF ConnOwnedOnce
    <3>3. \/ conn' = [conn EXCEPT ![Last(idle)] = "reply"]
          \/ conn' = [conn EXCEPT ![Last(idle)] = "unused"]
      BY <2>1, Zenon DEF TakeIdle, Deliver
    <3>4. Handlers' = Handlers
      BY <3>1, <3>2, <3>3, Zenon DEF Handlers, TypeOK
    <3>. QED  BY <2>1, <3>4, <1>s, Zenon DEF TakeIdle
  <2>2. CASE FindNoIdle
    BY <2>2, <1>s, Zenon DEF FindNoIdle, Handlers
  <2>3. CASE PushPending
    <3>1. Len(pending') = Len(pending) + 1
      BY <2>3, AppendAt DEF PushPending, TypeOK, HandHeld
    <3>2. Handlers' = Handlers /\ ctlPc # "send" /\ ctlPc' = "send"
          /\ UNCHANGED <<link, entry, clientVars>>
      BY <2>3, Zenon DEF PushPending, Handlers
    <3>. QED  BY <3>1, <3>2, <1>n, <1>c, <1>t, SMTT(60) DEF PendingIsCovered
  <2>4. CASE SendReqWorkConn
    <3>1. ProxyOf[hand] \in Proxies
      BY <2>4, ProxyAssumption, Zenon DEF SendReqWorkConn, HandHeld
    <3>2. toClient' = Append(toClient, ProxyOf[hand])
      BY <2>4, Zenon DEF SendReqWorkConn
    <3>3. Len(toClient') = Len(toClient) + 1
      BY <3>1, <3>2, AppendAt DEF TypeOK
    <3>4. Handlers' = Handlers /\ ctlPc = "send" /\ ctlPc' # "send"
          /\ UNCHANGED <<link, entry, pending, spawned, answered>>
      BY <2>4, Zenon DEF SendReqWorkConn, Handlers
    <3>. QED  BY <3>3, <3>4, <1>n, <1>c, <1>t, SMTT(60) DEF PendingIsCovered
  <2>. QED  BY <1>2, <2>1, <2>2, <2>3, <2>4, Zenon DEF ControlTask, SendFails, EndRun
<1>3. ~Owners
  BY Zenon DEF Owners, Supersede, RemoveControl, DropControl, LinkDown
<1>4. CASE Client
  <2>1. CASE ClientReqWorkConn
    <3>1. Len(toClient') = Len(toClient) - 1
      BY <2>1, HeadTail, Zenon DEF ClientReqWorkConn, TypeOK
    <3>2. spawned' = spawned + 1
      BY <2>1, Zenon DEF ClientReqWorkConn
    <3>3. Handlers' = Handlers /\ UNCHANGED <<link, entry, ctlPc, pending, answered>>
      BY <2>1, Zenon DEF ClientReqWorkConn, Handlers
    <3>. QED  BY <3>1, <3>2, <3>3, <1>n, <1>c, <1>t, SMTT(60) DEF PendingIsCovered
  <2>2. ASSUME NEW c \in Conns, OpenRequested(c) \/ OpenPooled(c) PROVE Len(pending') <= Coming'
    <3>1. /\ conn[c] = "unused"
          /\ conn' = [conn EXCEPT ![c] = "handler"]
          /\ UNCHANGED <<link, entry, ctlPc, pending, toClient, answered>>
          /\ spawned' \in {spawned, spawned - 1}
      BY <2>2, Zenon DEF OpenRequested, OpenPooled, Arrive
    <3>2. c \notin Handlers /\ Handlers' = Handlers \cup {c}
      BY <3>1, Zenon DEF Handlers, TypeOK
    <3>. QED  BY <3>1, <3>2, <1>n, <1>c, <1>t, SMTT(60) DEF PendingIsCovered
  <2>. QED  BY <1>4, <2>1, <2>2, Zenon DEF Client, OpenUnknownRun, OpenFails
<1>5. ASSUME NEW c \in Conns, HandleWorkConn(c) PROVE Len(pending') <= Coming'
  <2>0. conn[c] = "handler" /\ UNCHANGED <<link, entry, ctlPc, toClient, spawned, answered>>
    BY <1>5, Zenon DEF HandleWorkConn
  <2>1. /\ \E s \in {"idle", "reply", "unused"} : conn' = [conn EXCEPT ![c] = s]
        /\ pending' = IF pending = <<>> THEN pending ELSE Tail(pending)
    BY <1>5, Zenon DEF HandleWorkConn, Deliver
  <2>2. c \in Handlers /\ Handlers' = Handlers \ {c}
    BY <2>0, <2>1, Zenon DEF Handlers, TypeOK
  <2>3. m \in Nat
    BY <2>2, <1>n
  <2>4. CASE pending = <<>>
    BY <2>0, <2>1, <2>3, <2>4, <1>c, <1>t, SMTT(60)
  <2>5. CASE pending # <<>>
    <3>1. Len(pending') = Len(pending) - 1
      BY <2>1, <2>5, HeadTail, Zenon DEF TypeOK
    <3>. QED  BY <2>0, <2>2, <3>1, <1>n, <1>c, <1>t, SMTT(60) DEF PendingIsCovered
  <2>. QED  BY <2>4, <2>5, Zenon
<1>6. CASE UNCHANGED vars
  BY <1>6, <1>n, <1>c, <1>t, SMTT(60) DEF vars, Handlers, PendingIsCovered
<1>. QED  BY <1>1, <1>2, <1>3, <1>4, <1>5, <1>6, SMTT(60) DEF Next

\* handle_work_conn_request and handle_work_conn lose no wakeup: as long as a
\* connection comes for every ReqWorkConn, no pending request is left without
\* one, whatever timed out or slipped into the idle list before.
THEOREM NoLostWakeup == Spec => []PendingIsCovered
<1>1. Init => PendingIsCovered
  <2>. SUFFICES ASSUME Init PROVE PendingIsCovered
    OBVIOUS
  <2>1. Cardinality(Handlers) = 0
    <3>1. Handlers = {}
      BY DEF Init, Handlers
    <3>. QED  BY <3>1, FS_EmptySet
  <2>2. Len(pending) = 0 /\ Len(toClient) = 0 /\ spawned = 0
    BY DEF Init
  <2>3. Coming = IF ctlPc = "send" THEN 1 ELSE 0
    BY <2>1, <2>2 DEF Coming
  <2>. QED  BY <2>2, <2>3 DEF PendingIsCovered
<1>. QED  BY <1>1, NextCovered, Invariance, PTL DEF Spec

-----------------------------------------------------------------------------
(***************************************************************************)
(* No request is lost, and the dispatch implements Rendezvous.  Beyond     *)
(* IndInv this needs to know that no request is queued twice: a second     *)
(* sender would find a slot that is already full.                          *)
(***************************************************************************)

\* No request is in s twice.
NoDup(s) == \A i, j \in 1..Len(s) : s[i] = s[j] => i = j

\* The requests whose sender is in a queue, or on its way from one to the other.
Queued == Range(chan) \cup Range(pending)
Tracked == Queued \cup {r \in {hand} : ctlPc = "push"}

QueueInv ==
    /\ NoDup(chan) /\ NoDup(pending) /\ Range(chan) \cap Range(pending) = {}
    /\ ctlPc # "select" => hand \notin Range(chan)
    /\ ctlPc = "push" => hand \notin Range(pending)
    /\ phase # "running" => ctlPc = "select"
    /\ \A r \in Tracked : reply[r] = "empty"
    /\ \A r \in Requests : req[r] = "idle" => reply[r] = "empty"
    /\ \A r \in Requests : req[r] = "waiting" /\ reply[r] = "empty" => r \in Tracked

-----------------------------------------------------------------------------
(***************************************************************************)
(* Sequences as sets                                                       *)
(***************************************************************************)

\* push
LEMMA AppendSet ==
  ASSUME NEW S, NEW s \in Seq(S), NEW e \in S
  PROVE  /\ Append(s, e) \in Seq(S)
         /\ Range(Append(s, e)) = Range(s) \cup {e}
         /\ NoDup(s) /\ e \notin Range(s) => NoDup(Append(s, e))
<1>1. /\ Append(s, e) \in Seq(S) /\ Len(s) \in Nat /\ Len(Append(s, e)) = Len(s) + 1
      /\ \A i \in 1..Len(s) : Append(s, e)[i] = s[i]
      /\ Append(s, e)[Len(s) + 1] = e
  BY AppendAt
<1>2. DOMAIN s = 1..Len(s) /\ DOMAIN Append(s, e) = 1..Len(s) + 1
  BY <1>1
<1>3. Range(Append(s, e)) = Range(s) \cup {e}
  BY <1>1, <1>2 DEF Range
<1>4. ASSUME NoDup(s), e \notin Range(s) PROVE NoDup(Append(s, e))
  BY <1>1, <1>2, <1>4 DEF NoDup, Range
<1>. QED
  BY <1>1, <1>3, <1>4, Zenon

\* pop_front
LEMMA TailSet ==
  ASSUME NEW S, NEW s \in Seq(S), s # <<>>
  PROVE  /\ Head(s) \in S /\ Tail(s) \in Seq(S)
         /\ Range(s) = Range(Tail(s)) \cup {Head(s)}
         /\ NoDup(s) => NoDup(Tail(s)) /\ Head(s) \notin Range(Tail(s))
<1>1. /\ Len(s) \in Nat \ {0} /\ Tail(s) \in Seq(S) /\ Len(Tail(s)) = Len(s) - 1
      /\ \A i \in 1..Len(s) - 1 : Tail(s)[i] = s[i+1]
      /\ Head(s) \in S /\ Head(s) = s[1]
  BY HeadTail, Zenon
<1>2. DOMAIN s = 1..Len(s) /\ DOMAIN Tail(s) = 1..Len(s) - 1
  BY <1>1
<1>3. Range(s) = Range(Tail(s)) \cup {Head(s)}
  <2>1. ASSUME NEW i \in 1..Len(s) PROVE s[i] \in Range(Tail(s)) \cup {Head(s)}
    <3>1. CASE i = 1
      BY <1>1, <3>1, Zenon
    <3>2. CASE i # 1
      <4>1. i - 1 \in 1..Len(s) - 1 /\ Tail(s)[i - 1] = s[i]
        BY <1>1, <3>2
      <4>. QED
        BY <1>2, <4>1, Zenon DEF Range
    <3>. QED
      BY <3>1, <3>2, Zenon
  <2>2. ASSUME NEW i \in 1..Len(s) - 1 PROVE Tail(s)[i] \in Range(s)
    BY <1>1, <1>2 DEF Range
  <2>3. Head(s) \in Range(s)
    BY <1>1, <1>2 DEF Range
  <2>. QED
    BY <1>2, <2>1, <2>2, <2>3, Zenon DEF Range
<1>4. ASSUME NoDup(s) PROVE NoDup(Tail(s)) /\ Head(s) \notin Range(Tail(s))
  BY <1>1, <1>2, <1>4 DEF NoDup, Range
<1>. QED
  BY <1>1, <1>3, <1>4, Zenon

\* pop_back
LEMMA FrontSet ==
  ASSUME NEW S, NEW s \in Seq(S), s # <<>>
  PROVE  /\ Last(s) \in S /\ Front(s) \in Seq(S)
         /\ Range(s) = Range(Front(s)) \cup {Last(s)}
         /\ NoDup(s) => NoDup(Front(s)) /\ Last(s) \notin Range(Front(s))
<1>1. /\ Len(s) \in Nat \ {0} /\ Front(s) \in Seq(S) /\ Len(Front(s)) = Len(s) - 1
      /\ \A i \in 1..Len(s) - 1 : Front(s)[i] = s[i]
      /\ Last(s) \in S /\ Last(s) = s[Len(s)]
  BY FrontLast, Zenon
<1>2. DOMAIN s = 1..Len(s) /\ DOMAIN Front(s) = 1..Len(s) - 1
  BY <1>1
<1>3. Range(s) = Range(Front(s)) \cup {Last(s)}
  <2>1. ASSUME NEW i \in 1..Len(s) PROVE s[i] \in Range(Front(s)) \cup {Last(s)}
    <3>1. CASE i = Len(s)
      BY <1>1, <3>1, Zenon
    <3>2. CASE i # Len(s)
      <4>1. i \in 1..Len(s) - 1 /\ Front(s)[i] = s[i]
        BY <1>1, <3>2
      <4>. QED
        BY <1>2, <4>1, Zenon DEF Range
    <3>. QED
      BY <3>1, <3>2, Zenon
  <2>2. ASSUME NEW i \in 1..Len(s) - 1 PROVE Front(s)[i] \in Range(s)
    BY <1>1, <1>2, SMTT(60) DEF Range
  <2>3. Last(s) \in Range(s)
    BY <1>1, <1>2 DEF Range
  <2>. QED
    BY <1>2, <2>1, <2>2, <2>3, Zenon DEF Range
<1>4. ASSUME NoDup(s) PROVE NoDup(Front(s)) /\ Last(s) \notin Range(Front(s))
  BY <1>1, <1>2, <1>4, SMTT(60) DEF NoDup, Range
<1>. QED
  BY <1>1, <1>3, <1>4, Zenon

\* clear
LEMMA EmptySet == Range(<<>>) = {} /\ NoDup(<<>>)
  BY DEF Range, NoDup

-----------------------------------------------------------------------------
(***************************************************************************)
(* No request is queued twice, and none that waits is forgotten            *)
(***************************************************************************)

\* The queues hold requests.
LEMMA QueuedRequests == IndInv => Range(chan) \subseteq Requests /\ Range(pending) \subseteq Requests
  BY DEF IndInv, TypeOK, Range

\* A requesting task queues itself once, and only its own slot changes.
LEMMA RequesterQueue ==
  ASSUME IndInv, QueueInv, NEW r \in Requests, Requester(r) PROVE QueueInv'
<1>1. CASE RequestWorkConn(r)
  <2>1. /\ req[r] = "idle" /\ r \notin Range(chan) \cup Range(pending) \cup {hand}
        /\ chan' = Append(chan, r) /\ req' = [req EXCEPT ![r] = "waiting"]
        /\ UNCHANGED <<phase, ctlPc, hand, pending, reply>>
    BY <1>1, Zenon DEF RequestWorkConn, Referenced, ctlVars
  <2>2. Range(chan') = Range(chan) \cup {r} /\ NoDup(chan')
    BY <2>1, AppendSet DEF IndInv, TypeOK, QueueInv
  <2>3. Tracked' = Tracked \cup {r}
    BY <2>1, <2>2, SMTT(30) DEF Tracked, Queued
  <2>4. reply[r] = "empty"
    BY <2>1, Zenon DEF QueueInv
  <2>5. \A q \in Requests : req'[q] = IF q = r THEN "waiting" ELSE req[q]
    BY <2>1, Zenon DEF IndInv, TypeOK
  <2>. QED
    BY <2>1, <2>2, <2>3, <2>4, <2>5, Zenon DEF QueueInv
<1>2. CASE RequestRefused(r)
  BY <1>2, Zenon DEF RequestRefused, vars, ctlVars, queueVars, QueueInv, Tracked, Queued
<1>3. CASE \/ Receive(r) \/ StartFails(r) \/ ChannelClosed(r) \/ Expire(r) \/ DropReceiver(r) \/ Finish(r)
  <2>1. UNCHANGED <<phase, ctlPc, hand, chan, pending>>
    BY <1>3, Zenon DEF Receive, StartFails, ChannelClosed, Expire, DropReceiver, Finish, ctlVars, queueVars
  <2>2. Tracked' = Tracked
    BY <2>1, Zenon DEF Tracked, Queued
  <2>3. \E l \in {"served", "expired", "idle"} :
           /\ req' = [req EXCEPT ![r] = l]
           /\ reply' = IF l = "idle" THEN [reply EXCEPT ![r] = "empty"] ELSE reply
    BY <1>3, Zenon DEF Receive, StartFails, ChannelClosed, Expire, DropReceiver, Finish
  <2>4. PICK l \in {"served", "expired", "idle"} :
           /\ \A q \in Requests : req'[q] = IF q = r THEN l ELSE req[q]
           /\ \A q \in Requests : reply'[q] = IF q = r /\ l = "idle" THEN "empty" ELSE reply[q]
    BY <2>3, Zenon DEF IndInv, TypeOK
  <2>5. \A q \in Tracked : reply'[q] = "empty"
    <3>1. Tracked \subseteq Requests
      BY QueuedRequests, Zenon DEF Tracked, Queued, IndInv, HandHeld
    <3>. QED
      BY <2>4, <3>1, Zenon DEF QueueInv
  <2>. QED
    BY <2>1, <2>2, <2>4, <2>5, Zenon DEF QueueInv
<1>. QED
  BY <1>1, <1>2, <1>3, Zenon DEF Requester

\* A sender is used up, or dropped, when it leaves the queues.
LEMMA Leaves ==
  ASSUME IndInv, QueueInv, NEW r \in Requests, r \notin Tracked', Tracked = Tracked' \cup {r},
         UNCHANGED req,
         \/ Receiving(r) /\ (\E x \in Conns \cup {"closed"} : reply' = [reply EXCEPT ![r] = x])
         \/ ~Receiving(r) /\ reply' = reply
  PROVE  /\ \A q \in Tracked' : reply'[q] = "empty"
         /\ \A q \in Requests : req'[q] = "idle" => reply'[q] = "empty"
         /\ \A q \in Requests : req'[q] = "waiting" /\ reply'[q] = "empty" => q \in Tracked'
<1>1. CASE ~Receiving(r) /\ reply' = reply
  BY <1>1, Zenon DEF QueueInv, Receiving
<1>2. ASSUME NEW x \in Conns \cup {"closed"}, Receiving(r), reply' = [reply EXCEPT ![r] = x]
      PROVE  /\ \A q \in Tracked' : reply'[q] = "empty"
             /\ \A q \in Requests : req'[q] = "idle" => reply'[q] = "empty"
             /\ \A q \in Requests : req'[q] = "waiting" /\ reply'[q] = "empty" => q \in Tracked'
  <2>1. x # "empty" /\ req[r] # "idle"
    BY <1>2, ReplyAssumption, Zenon DEF Receiving
  <2>2. \A q \in Requests : reply'[q] = IF q = r THEN x ELSE reply[q]
    BY <1>2, Zenon DEF IndInv, TypeOK
  <2>3. Tracked \subseteq Requests
    BY QueuedRequests, Zenon DEF Tracked, Queued, IndInv, HandHeld
  <2>. QED
    BY <2>1, <2>2, <2>3, Zenon DEF QueueInv
<1>. QED
  BY <1>1, <1>2, Zenon

\* The control task moves senders from the channel to pending_work_conns.
LEMMA ControlTaskQueue ==
  ASSUME IndInv, QueueInv, ControlTask PROVE QueueInv'
<1>1. CASE TakeIdle
  <2>1. /\ ctlPc = "select" /\ chan # <<>> /\ chan' = Tail(chan) /\ Deliver(Head(chan), Last(idle))
        /\ idle # <<>> /\ UNCHANGED <<phase, ctlPc, hand, pending, req>>
    BY <1>1, Zenon DEF TakeIdle, ctlVars
  <2>2. /\ Head(chan) \in Requests /\ Range(chan) = Range(chan') \cup {Head(chan)}
        /\ NoDup(chan') /\ Head(chan) \notin Range(chan')
    BY <2>1, TailSet, Zenon DEF IndInv, TypeOK, QueueInv
  <2>3. Last(idle) \in Conns
    BY <2>1, FrontLast, Zenon DEF IndInv, TypeOK
  <2>4. Tracked = Tracked' \cup {Head(chan)} /\ Head(chan) \notin Tracked'
    BY <2>1, <2>2, Zenon DEF Tracked, Queued, QueueInv
  <2>5. \/ Receiving(Head(chan)) /\ reply' = [reply EXCEPT ![Head(chan)] = Last(idle)]
        \/ ~Receiving(Head(chan)) /\ reply' = reply
    BY <2>1, Zenon DEF Deliver
  <2>6. /\ \A q \in Tracked' : reply'[q] = "empty"
        /\ \A q \in Requests : req'[q] = "idle" => reply'[q] = "empty"
        /\ \A q \in Requests : req'[q] = "waiting" /\ reply'[q] = "empty" => q \in Tracked'
    BY <2>1, <2>2, <2>3, <2>4, <2>5, Leaves, Zenon
  <2>. QED
    BY <2>1, <2>2, <2>6, Zenon DEF QueueInv
<1>2. CASE FindNoIdle
  <2>1. /\ ctlPc = "select" /\ phase = "running" /\ chan # <<>> /\ chan' = Tail(chan)
        /\ hand' = Head(chan) /\ ctlPc' = "push"
        /\ UNCHANGED <<phase, pending, req, reply>>
    BY <1>2, Zenon DEF FindNoIdle
  <2>2. /\ Range(chan) = Range(chan') \cup {Head(chan)}
        /\ NoDup(chan') /\ Head(chan) \notin Range(chan')
    BY <2>1, TailSet, Zenon DEF IndInv, TypeOK, QueueInv
  <2>3. Tracked' = Tracked
    BY <2>1, <2>2, SMTT(30) DEF Tracked, Queued
  <2>. QED
    BY <2>1, <2>2, <2>3, Zenon DEF QueueInv
<1>3. CASE PushPending
  <2>1. /\ ctlPc = "push" /\ ctlPc' = "send" /\ pending' = Append(pending, hand)
        /\ UNCHANGED <<phase, hand, chan, req, reply>>
    BY <1>3, Zenon DEF PushPending
  <2>2. Range(pending') = Range(pending) \cup {hand} /\ NoDup(pending')
    BY <2>1, AppendSet DEF IndInv, TypeOK, HandHeld, QueueInv
  <2>3. Tracked' = Tracked
    BY <2>1, <2>2, SMTT(30) DEF Tracked, Queued
  <2>. QED
    BY <2>1, <2>2, <2>3, Zenon DEF QueueInv
<1>4. CASE SendReqWorkConn
  <2>1. ctlPc = "send" /\ ctlPc' = "select" /\ UNCHANGED <<phase, chan, pending, req, reply>>
    BY <1>4, Zenon DEF SendReqWorkConn, queueVars
  <2>2. Tracked' = Tracked
    BY <2>1, Zenon DEF Tracked, Queued
  <2>. QED
    BY <2>1, <2>2, Zenon DEF QueueInv
<1>5. CASE SendFails
  <2>1. ctlPc = "send" /\ ctlPc' = "select" /\ PopBack /\ UNCHANGED <<phase, chan, req>>
    BY <1>5, Zenon DEF SendFails
  <2>2. CASE pending = <<>>
    <3>1. UNCHANGED <<pending, reply>>
      BY <2>1, <2>2, Zenon DEF PopBack
    <3>2. Tracked' = Tracked
      BY <2>1, <3>1, Zenon DEF Tracked, Queued
    <3>. QED
      BY <2>1, <3>1, <3>2, Zenon DEF QueueInv
  <2>3. CASE pending # <<>>
    <3>1. /\ pending' = Front(pending)
          /\ \/ Receiving(Last(pending)) /\ reply' = [reply EXCEPT ![Last(pending)] = "closed"]
             \/ ~Receiving(Last(pending)) /\ reply' = reply
      BY <2>1, <2>3, Zenon DEF PopBack
    <3>2. /\ Last(pending) \in Requests /\ Range(pending) = Range(pending') \cup {Last(pending)}
          /\ NoDup(pending') /\ Last(pending) \notin Range(pending')
      BY <2>3, <3>1, FrontSet, Zenon DEF IndInv, TypeOK, QueueInv
    <3>3. Tracked = Tracked' \cup {Last(pending)} /\ Last(pending) \notin Tracked'
      BY <2>1, <3>2, Zenon DEF Tracked, Queued, QueueInv
    <3>4. /\ \A q \in Tracked' : reply'[q] = "empty"
          /\ \A q \in Requests : req'[q] = "idle" => reply'[q] = "empty"
          /\ \A q \in Requests : req'[q] = "waiting" /\ reply'[q] = "empty" => q \in Tracked'
      BY <2>1, <3>1, <3>2, <3>3, Leaves, SMTT(30)
    <3>. QED
      BY <2>1, <3>2, <3>4, Zenon DEF QueueInv
  <2>. QED
    BY <2>2, <2>3, Zenon
<1>6. CASE EndRun
  BY <1>6, Zenon DEF EndRun, queueVars, QueueInv, Tracked, Queued
<1>. QED
  BY <1>1, <1>2, <1>3, <1>4, <1>5, <1>6, Zenon DEF ControlTask

\* A connection takes the oldest sender.
LEMMA HandleWorkConnQueue ==
  ASSUME IndInv, QueueInv, NEW c \in Conns, HandleWorkConn(c) PROVE QueueInv'
<1>1. UNCHANGED <<phase, ctlPc, hand, chan, req>>
  BY Zenon DEF HandleWorkConn, ctlVars
<1>2. CASE pending = <<>>
  <2>1. UNCHANGED <<pending, reply>>
    BY <1>2, Zenon DEF HandleWorkConn
  <2>. QED
    BY <1>1, <2>1, Zenon DEF QueueInv, Tracked, Queued
<1>3. CASE pending # <<>>
  <2>1. pending' = Tail(pending) /\ Deliver(Head(pending), c)
    BY <1>3, Zenon DEF HandleWorkConn
  <2>2. /\ Head(pending) \in Requests /\ Range(pending) = Range(pending') \cup {Head(pending)}
        /\ NoDup(pending') /\ Head(pending) \notin Range(pending')
    BY <1>3, <2>1, TailSet, Zenon DEF IndInv, TypeOK, QueueInv
  <2>3. Tracked = Tracked' \cup {Head(pending)} /\ Head(pending) \notin Tracked'
    BY <1>1, <2>2, Zenon DEF Tracked, Queued, QueueInv
  <2>4. \/ Receiving(Head(pending)) /\ reply' = [reply EXCEPT ![Head(pending)] = c]
        \/ ~Receiving(Head(pending)) /\ reply' = reply
    BY <2>1, Zenon DEF Deliver
  <2>5. /\ \A q \in Tracked' : reply'[q] = "empty"
        /\ \A q \in Requests : req'[q] = "idle" => reply'[q] = "empty"
        /\ \A q \in Requests : req'[q] = "waiting" /\ reply'[q] = "empty" => q \in Tracked'
    BY <1>1, <2>2, <2>3, <2>4, Leaves, Zenon
  <2>. QED
    BY <1>1, <2>2, <2>5, Zenon DEF QueueInv
<1>. QED
  BY <1>2, <1>3, Zenon

\* The end of a Control closes every sender it still has.
LEMMA OwnersQueue ==
  ASSUME IndInv, QueueInv, Owners PROVE QueueInv'
<1>1. CASE Supersede \/ RemoveControl \/ LinkDown
  BY <1>1, SMTT(30) DEF Supersede, RemoveControl, LinkDown, ctlVars, queueVars, QueueInv, Tracked, Queued
<1>2. CASE DropControl
  <2>1. /\ phase = "ended" /\ chan' = <<>> /\ pending' = <<>> /\ UNCHANGED <<ctlPc, hand, req>>
        /\ reply' = [r \in Requests |-> IF r \in Queued /\ Receiving(r) THEN "closed" ELSE reply[r]]
    BY <1>2, Zenon DEF DropControl, Queued
  <2>2. ctlPc = "select"
    BY <2>1, Zenon DEF QueueInv
  <2>3. Tracked = Queued /\ Tracked' = {}
    BY <2>1, <2>2, EmptySet, Zenon DEF Tracked, Queued
  <2>4. \A r \in Requests : req[r] = "idle" => reply'[r] = "empty"
    BY <2>1, Zenon DEF QueueInv, Receiving
  <2>5. \A r \in Requests : ~(req[r] = "waiting" /\ reply'[r] = "empty")
    BY <2>1, <2>3, Zenon DEF QueueInv, Receiving
  <2>. QED
    BY <2>1, <2>2, <2>3, <2>4, <2>5, EmptySet, Zenon DEF QueueInv
<1>. QED
  BY <1>1, <1>2, ZenonT(60) DEF Owners

\* Every step keeps each sender in one place.
LEMMA QueueStep == IndInv /\ QueueInv /\ [Next]_vars => QueueInv'
<1>. SUFFICES ASSUME IndInv, QueueInv, [Next]_vars PROVE QueueInv'
  BY Zenon
<1>1. CASE Client \/ UNCHANGED vars
  <2>1. UNCHANGED <<phase, ctlPc, hand, chan, pending, req, reply>>
    BY <1>1 DEF Client, ClientReqWorkConn, OpenUnknownRun, OpenFails, OpenRequested, OpenPooled,
                vars, ctlVars, queueVars
  <2>. QED
    BY <2>1, Zenon DEF QueueInv, Tracked, Queued
<1>. QED
  BY <1>1, RequesterQueue, ControlTaskQueue, OwnersQueue, HandleWorkConnQueue, SMTT(60) DEF Next

\* Both invariants hold in every reachable state.
LEMMA QueueInvariance == Spec => [](IndInv /\ QueueInv)
<1>1. Init => QueueInv
  BY EmptySet DEF Init, QueueInv, Tracked, Queued
<1>. QED
  BY <1>1, InitInd, NextInd, QueueStep, PTL DEF Spec

\* A request that waits with an empty slot has exactly one sender, in the
\* channel, in the control task's hand or in pending_work_conns.
THEOREM NoneForgotten == Spec => []WaitingIsTracked
<1>1. ASSUME IndInv, QueueInv, NEW r \in Requests, req[r] = "waiting", reply[r] = "empty"
      PROVE  \E x \in Senders(r) : Senders(r) = {x}
  <2>1. r \in Tracked
    BY <1>1, Zenon DEF QueueInv
  <2>2. /\ DOMAIN chan = 1..Len(chan) /\ DOMAIN pending = 1..Len(pending)
    BY <1>1 DEF IndInv, TypeOK
  <2>3. CASE r \in Range(chan)
    <3>1. PICK i \in 1..Len(chan) : chan[i] = r
      BY <2>2, <2>3, Zenon DEF Range
    <3>2. {j \in 1..Len(chan) : chan[j] = r} = {i}
      BY <1>1, <3>1, Zenon DEF QueueInv, NoDup
    <3>3. {j \in 1..Len(pending) : pending[j] = r} = {}
      BY <1>1, <2>2, <2>3, Zenon DEF QueueInv, Range
    <3>4. {y \in {hand} : y = r /\ ctlPc = "push"} = {}
      BY <1>1, <2>3 DEF QueueInv
    <3>5. Senders(r) = {<<"chan", i>>}
      BY <3>2, <3>3, <3>4, Zenon DEF Senders
    <3>. QED
      BY <3>5, Zenon
  <2>4. CASE r \in Range(pending)
    <3>1. PICK i \in 1..Len(pending) : pending[i] = r
      BY <2>2, <2>4, Zenon DEF Range
    <3>2. {j \in 1..Len(pending) : pending[j] = r} = {i}
      BY <1>1, <3>1, Zenon DEF QueueInv, NoDup
    <3>3. {j \in 1..Len(chan) : chan[j] = r} = {}
      BY <1>1, <2>2, <2>4, Zenon DEF QueueInv, Range
    <3>4. {y \in {hand} : y = r /\ ctlPc = "push"} = {}
      BY <1>1, <2>4 DEF QueueInv
    <3>5. Senders(r) = {<<"pending", i>>}
      BY <3>2, <3>3, <3>4, Zenon DEF Senders
    <3>. QED
      BY <3>5, Zenon
  <2>5. CASE r = hand /\ ctlPc = "push"
    <3>1. {j \in 1..Len(chan) : chan[j] = r} = {} /\ {j \in 1..Len(pending) : pending[j] = r} = {}
      BY <1>1, <2>2, <2>5, SMTT(60) DEF QueueInv, Range
    <3>2. {y \in {hand} : y = r /\ ctlPc = "push"} = {hand}
      BY <2>5
    <3>3. Senders(r) = {<<"hand", 0>>}
      BY <3>1, <3>2, Zenon DEF Senders
    <3>. QED
      BY <3>3, Zenon
  <2>. QED
    BY <2>1, <2>3, <2>4, <2>5, Zenon DEF Tracked, Queued
<1>2. IndInv /\ QueueInv => WaitingIsTracked
  BY <1>1, Zenon DEF WaitingIsTracked
<1>. QED
  BY <1>2, QueueInvariance, PTL

-----------------------------------------------------------------------------
(***************************************************************************)
(* The refinement                                                          *)
(***************************************************************************)

\* The three sets of Rendezvous, as Abstract maps them.
Want == {r \in Requests : Receiving(r) /\ reply[r] = "empty"}
OnOffer == {c \in Conns : conn[c] \in {"handler", "idle"}}
Pairing == {p \in Requests \X Conns : reply[p[1]] = p[2]}

\* The steps of Rendezvous, on those sets.
Asks(r) == /\ r \notin Want /\ reply[r] \notin Conns
           /\ Want' = Want \cup {r} /\ UNCHANGED <<OnOffer, Pairing>>
Offers(c) == /\ c \notin OnOffer
             /\ \A r \in Requests : reply[r] # c
             /\ OnOffer' = OnOffer \cup {c} /\ UNCHANGED <<Want, Pairing>>
Meets(r, c) == /\ r \in Want /\ c \in OnOffer
               /\ Want' = Want \ {r} /\ OnOffer' = OnOffer \ {c}
               /\ Pairing' = Pairing \cup {<<r, c>>}
Parts(r, c) == /\ <<r, c>> \in Pairing
               /\ Pairing' = Pairing \ {<<r, c>>} /\ UNCHANGED <<Want, OnOffer>>
Withdraws == Want' \subseteq Want /\ OnOffer' \subseteq OnOffer /\ UNCHANGED Pairing

AbstractStep ==
    \/ Withdraws
    \/ \E r \in Requests : Asks(r)
    \/ \E c \in Conns : Offers(c)
    \/ \E r \in Requests, c \in Conns : Meets(r, c) \/ Parts(r, c)

\* They are the steps of the instance.
LEMMA AbstractNext == AbstractStep => Abstract!Next
<1>. USE DEF Want, OnOffer, Pairing
<1>1. ASSUME NEW r \in Requests, Asks(r) PROVE Abstract!Ask(r)
  <2>1. ~Abstract!Paired(r)
    BY <1>1, Zenon DEF Asks, Abstract!Paired
  <2>. QED
    BY <1>1, <2>1, Zenon DEF Asks, Abstract!Ask
<1>2. ASSUME NEW c \in Conns, Offers(c) PROVE Abstract!Offer(c)
  <2>1. ~Abstract!Taken(c)
    BY <1>2, Zenon DEF Offers, Abstract!Taken
  <2>. QED
    BY <1>2, <2>1, Zenon DEF Offers, Abstract!Offer
<1>3. ASSUME NEW r \in Requests, NEW c \in Conns, Meets(r, c) PROVE Abstract!Meet(r, c)
  BY <1>3, Zenon DEF Meets, Abstract!Meet
<1>4. ASSUME NEW r \in Requests, NEW c \in Conns, Parts(r, c) PROVE Abstract!Part(r, c)
  BY <1>4, Zenon DEF Parts, Abstract!Part
<1>5. Withdraws => Abstract!Withdraw
  BY Zenon DEF Withdraws, Abstract!Withdraw
<1>. HIDE DEF Want, OnOffer, Pairing
<1>. QED
  BY <1>1, <1>2, <1>3, <1>4, <1>5, SMTT(60) DEF AbstractStep, Abstract!Next

\* Requesting tasks ask, part with their connection, or give up.
LEMMA RequesterRefines ==
  ASSUME IndInv, QueueInv, NEW r \in Requests, Requester(r) PROVE AbstractStep
<1>1. CASE RequestWorkConn(r)
  <2>1. req[r] = "idle" /\ req' = [req EXCEPT ![r] = "waiting"] /\ UNCHANGED <<reply, conn>>
    BY <1>1, Zenon DEF RequestWorkConn
  <2>2. reply[r] = "empty"
    BY <2>1, Zenon DEF QueueInv
  <2>3. r \notin Want /\ reply[r] \notin Conns
    BY <2>1, <2>2, ReplyAssumption, Zenon DEF Want, Receiving
  <2>4. Want' = Want \cup {r}
    BY <2>1, <2>2, Zenon DEF Want, Receiving, IndInv, TypeOK
  <2>5. UNCHANGED <<OnOffer, Pairing>>
    BY <2>1, Zenon DEF OnOffer, Pairing
  <2>. QED
    BY <2>3, <2>4, <2>5, Zenon DEF Asks, AbstractStep
<1>2. CASE RequestRefused(r)
  BY <1>2, Zenon DEF RequestRefused, vars, Want, OnOffer, Pairing, Receiving, Withdraws, AbstractStep
<1>3. CASE Receive(r) \/ Expire(r) \/ ChannelClosed(r) \/ (DropReceiver(r) /\ reply[r] \notin Conns)
  <2>1. /\ \A q \in Requests \ {r} : req'[q] = req[q] /\ reply'[q] = reply[q]
        /\ (reply'[r] \notin Conns /\ reply[r] \notin Conns) \/ reply'[r] = reply[r]
    BY <1>3, ReplyAssumption, Zenon DEF Receive, Expire, ChannelClosed, DropReceiver, IndInv, TypeOK
  <2>2. Pairing' = Pairing
    BY <2>1, Zenon DEF Pairing
  <2>3. r \in Want' => r \in Want
    BY <1>3, ReplyAssumption, Zenon DEF Want, Receiving, Receive, Expire, ChannelClosed, DropReceiver,
                                 IndInv, TypeOK
  <2>4. Want' \subseteq Want
    BY <2>1, <2>3, Zenon DEF Want, Receiving
  <2>5. OnOffer' = OnOffer
    BY <1>3, ZenonT(60) DEF OnOffer, Receive, Expire, ChannelClosed, DropReceiver, IndInv, TypeOK, ConnOwnedOnce
  <2>. QED
    BY <2>2, <2>4, <2>5, Zenon DEF Withdraws, AbstractStep
<1>4. CASE StartFails(r) \/ Finish(r) \/ (DropReceiver(r) /\ reply[r] \in Conns)
  <2>. DEFINE c == reply[r]
  <2>1. /\ c \in Conns /\ conn[c] \in {"reply", "used"}
        /\ req' = [req EXCEPT ![r] = "idle"] /\ reply' = [reply EXCEPT ![r] = "empty"]
        /\ conn' = [conn EXCEPT ![c] = "unused"]
    BY <1>4, Zenon DEF StartFails, Finish, DropReceiver, CloseConn, IndInv, ServedHolds, ConnOwnedOnce
  <2>2. Want' = Want
    BY <2>1, ReplyAssumption, Zenon DEF Want, Receiving, IndInv, TypeOK
  <2>3. OnOffer' = OnOffer
    BY <2>1, Zenon DEF OnOffer, IndInv, TypeOK
  <2>4. <<r, c>> \in Pairing /\ Pairing' = Pairing \ {<<r, c>>}
    BY <2>1, ReplyAssumption DEF Pairing, IndInv, TypeOK
  <2>. QED
    BY <2>1, <2>2, <2>3, <2>4, Zenon DEF Parts, AbstractStep
<1>. QED
  BY <1>1, <1>2, <1>3, <1>4, Zenon DEF Requester

\* A connection on offer is handed to a tracked request, which wants it or is gone.
LEMMA DeliverRefines ==
  ASSUME IndInv, QueueInv, NEW r \in Requests, NEW c \in Conns, r \in Tracked, c \in OnOffer,
         Deliver(r, c), UNCHANGED req
  PROVE  AbstractStep
<1>0. reply[r] = "empty"
  BY Zenon DEF QueueInv
<1>1. CASE Receiving(r)
  <2>1. reply' = [reply EXCEPT ![r] = c] /\ conn' = [conn EXCEPT ![c] = "reply"]
    BY <1>1, Zenon DEF Deliver
  <2>2. r \in Want /\ Want' = Want \ {r}
    BY <1>0, <1>1, <2>1, ReplyAssumption, Zenon DEF Want, Receiving, IndInv, TypeOK
  <2>3. OnOffer' = OnOffer \ {c}
    BY <2>1, Zenon DEF OnOffer, IndInv, TypeOK
  <2>4. Pairing' = Pairing \cup {<<r, c>>}
    BY <1>0, <2>1, ReplyAssumption DEF Pairing, IndInv, TypeOK
  <2>. QED
    BY <2>2, <2>3, <2>4, Zenon DEF Meets, AbstractStep
<1>2. CASE ~Receiving(r)
  <2>1. reply' = reply /\ conn' = [conn EXCEPT ![c] = "unused"]
    BY <1>2, Zenon DEF Deliver
  <2>2. UNCHANGED <<Want, Pairing>>
    BY <2>1, Zenon DEF Want, Receiving, Pairing
  <2>3. OnOffer' \subseteq OnOffer
    BY <2>1 DEF OnOffer, IndInv, TypeOK
  <2>. QED
    BY <2>2, <2>3, Zenon DEF Withdraws, AbstractStep
<1>. QED
  BY <1>1, <1>2, SMTT(30)

\* The control task hands out idle connections, and closes what it cannot ask for.
LEMMA ControlTaskRefines ==
  ASSUME IndInv, QueueInv, ControlTask PROVE AbstractStep
<1>1. CASE TakeIdle
  <2>1. chan # <<>> /\ idle # <<>> /\ Deliver(Head(chan), Last(idle)) /\ UNCHANGED req
    BY <1>1, Zenon DEF TakeIdle
  <2>2. Head(chan) \in Requests /\ Head(chan) \in Tracked
    BY <2>1, TailSet DEF IndInv, TypeOK, Tracked, Queued
  <2>3. Last(idle) \in Conns /\ Last(idle) = idle[Len(idle)] /\ Len(idle) \in Nat \ {0}
    BY <2>1, FrontLast, Zenon DEF IndInv, TypeOK
  <2>4. Last(idle) \in OnOffer
    BY <2>3 DEF IndInv, ConnOwnedOnce, OnOffer
  <2>. QED
    BY <2>1, <2>2, <2>3, <2>4, DeliverRefines, Zenon
<1>2. CASE FindNoIdle \/ PushPending \/ SendReqWorkConn \/ EndRun
  <2>1. UNCHANGED <<req, reply, conn>>
    BY <1>2 DEF FindNoIdle, PushPending, SendReqWorkConn, EndRun
  <2>. QED
    BY <2>1, Zenon DEF Want, Receiving, OnOffer, Pairing, Withdraws, AbstractStep
<1>3. CASE SendFails
  <2>1. PopBack /\ UNCHANGED <<req, conn>>
    BY <1>3, Zenon DEF SendFails
  <2>2. CASE pending = <<>>
    BY <2>1, <2>2, Zenon DEF PopBack, Want, Receiving, OnOffer, Pairing, Withdraws, AbstractStep
  <2>3. CASE pending # <<>>
    <3>1. reply' = reply \/ reply' = [reply EXCEPT ![Last(pending)] = "closed"]
      BY <2>1, <2>3, Zenon DEF PopBack
    <3>2. Last(pending) \in Requests /\ reply[Last(pending)] = "empty"
      <4>1. pending \in Seq(Requests)
        BY DEF IndInv, TypeOK
      <4>2. Last(pending) \in Requests /\ Range(pending) = Range(Front(pending)) \cup {Last(pending)}
        BY <2>3, <4>1, FrontSet, Zenon
      <4>3. Last(pending) \in Tracked
        BY <4>2, Zenon DEF Tracked, Queued
      <4>. QED
        BY <4>2, <4>3, Zenon DEF QueueInv
    <3>3. Want' \subseteq Want /\ OnOffer' = OnOffer
      BY <2>1, <3>1, <3>2, Zenon DEF Want, Receiving, OnOffer, IndInv, TypeOK
    <3>4. Pairing' = Pairing
      BY <3>1, <3>2, ReplyAssumption DEF Pairing, IndInv, TypeOK
    <3>. QED
      BY <3>3, <3>4, Zenon DEF Withdraws, AbstractStep
  <2>. QED
    BY <2>2, <2>3, Zenon
<1>. QED
  BY <1>1, <1>2, <1>3, Zenon DEF ControlTask

\* The end of a Control withdraws its requests and its idle connections.
LEMMA OwnersRefines ==
  ASSUME IndInv, QueueInv, Owners PROVE AbstractStep
<1>1. CASE Supersede \/ RemoveControl \/ LinkDown
  BY <1>1, Zenon DEF Supersede, RemoveControl, LinkDown, Want, Receiving, OnOffer, Pairing, Withdraws,
              AbstractStep
<1>2. CASE DropControl
  <2>1. /\ UNCHANGED req
        /\ reply' = [r \in Requests |-> IF r \in Queued /\ Receiving(r) THEN "closed" ELSE reply[r]]
        /\ conn' = [c \in Conns |-> IF conn[c] = "idle" THEN "unused" ELSE conn[c]]
    BY <1>2, Zenon DEF DropControl, Queued
  <2>2. \A r \in Requests : reply'[r] = reply[r] \/ (reply[r] = "empty" /\ reply'[r] = "closed")
    BY <2>1, Zenon DEF QueueInv, Tracked
  <2>3. Want' \subseteq Want
    BY <2>1, <2>2, Zenon DEF Want, Receiving
  <2>4. OnOffer' \subseteq OnOffer
    BY <2>1, Zenon DEF OnOffer
  <2>5. Pairing' = Pairing
    BY <2>2, ReplyAssumption, Zenon DEF Pairing
  <2>. QED
    BY <2>3, <2>4, <2>5, Zenon DEF Withdraws, AbstractStep
<1>. QED
  BY <1>1, <1>2, Zenon DEF Owners

\* Arriving connections are offered.
LEMMA ClientRefines ==
  ASSUME IndInv, QueueInv, Client PROVE AbstractStep
<1>1. ASSUME NEW c \in Conns, OpenRequested(c) \/ OpenPooled(c) PROVE AbstractStep
  <2>1. conn[c] = "unused" /\ conn' = [conn EXCEPT ![c] = "handler"] /\ UNCHANGED <<req, reply>>
    BY <1>1, Zenon DEF OpenRequested, OpenPooled, Arrive
  <2>2. c \notin OnOffer /\ OnOffer' = OnOffer \cup {c}
    BY <2>1, SMTT(30) DEF OnOffer, IndInv, TypeOK
  <2>3. \A r \in Requests : reply[r] # c
    BY <2>1, Zenon DEF IndInv, ConnOwnedOnce
  <2>4. UNCHANGED <<Want, Pairing>>
    BY <2>1, Zenon DEF Want, Receiving, Pairing
  <2>. QED
    BY <2>2, <2>3, <2>4, Zenon DEF Offers, AbstractStep
<1>2. CASE ClientReqWorkConn \/ OpenUnknownRun \/ OpenFails
  BY <1>2, Zenon DEF ClientReqWorkConn, OpenUnknownRun, OpenFails, Want, Receiving, OnOffer, Pairing,
              Withdraws, AbstractStep
<1>. QED
  BY <1>1, <1>2, Zenon DEF Client

\* handle_work_conn gives a connection to the oldest request, or keeps it on offer.
LEMMA HandleWorkConnRefines ==
  ASSUME IndInv, QueueInv, NEW c \in Conns, HandleWorkConn(c) PROVE AbstractStep
<1>0. conn[c] = "handler" /\ UNCHANGED req
  BY Zenon DEF HandleWorkConn
<1>1. CASE pending = <<>>
  <2>1. conn' = [conn EXCEPT ![c] = "idle"] /\ UNCHANGED reply
    BY <1>1, Zenon DEF HandleWorkConn
  <2>2. OnOffer' = OnOffer
    BY <1>0, <2>1, Zenon DEF OnOffer, IndInv, TypeOK
  <2>3. UNCHANGED <<Want, Pairing>>
    BY <1>0, <2>1, Zenon DEF Want, Receiving, Pairing
  <2>. QED
    BY <2>2, <2>3, Zenon DEF Withdraws, AbstractStep
<1>2. CASE pending # <<>>
  <2>1. Deliver(Head(pending), c)
    BY <1>2, Zenon DEF HandleWorkConn
  <2>2. Head(pending) \in Requests /\ Head(pending) \in Tracked
    BY <1>2, TailSet DEF IndInv, TypeOK, Tracked, Queued
  <2>3. c \in OnOffer
    BY <1>0 DEF OnOffer
  <2>. QED
    BY <1>0, <2>1, <2>2, <2>3, DeliverRefines, Zenon
<1>. QED
  BY <1>1, <1>2, Zenon

\* Every step of a Control is a step of Rendezvous, or changes nothing there:
\* a connection goes to one request, a request gets one connection, only a
\* request that waits is served and only with a connection the server holds.
THEOREM Refinement == Spec => ImplementsRendezvous
<1>1. Init => Abstract!Init
  BY ReplyAssumption DEF Init, Abstract!Init, Receiving
<1>2. IndInv /\ QueueInv /\ [Next]_vars => [Abstract!Next]_(Abstract!rvars)
  <2>. SUFFICES ASSUME IndInv, QueueInv, [Next]_vars PROVE [Abstract!Next]_(Abstract!rvars)
    OBVIOUS
  <2>1. CASE UNCHANGED vars
    BY <2>1, Zenon DEF vars, Receiving, Abstract!rvars
  <2>2. Next => AbstractStep
    BY RequesterRefines, ControlTaskRefines, OwnersRefines, ClientRefines, HandleWorkConnRefines, SMTT(60)
       DEF Next
  <2>. QED
    BY <2>1, <2>2, AbstractNext
<1>. QED
  BY <1>1, <1>2, QueueInvariance, PTL DEF Spec, ImplementsRendezvous, Abstract!Spec
=============================================================================
