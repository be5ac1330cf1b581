----------------------------- MODULE XTcpProofs -----------------------------
(***************************************************************************)
(* The server's pending map and the visitor's pending_xtcp slot, for any   *)
(* number of user connections.  An answer is handed to whoever is in the   *)
(* slot; what makes it the right one is that the slot admits one request   *)
(* at a time and stays taken until its answer has come back, so at most    *)
(* one message of all requests is under way.                               *)
(***************************************************************************)
EXTENDS XTcp, TLAPS

-----------------------------------------------------------------------------
(***************************************************************************)
(* The pending map                                                         *)
(***************************************************************************)

\* Every step leaves an entry with the message that will remove it.
LEMMA PendingStep == PendingIsAnswered /\ [Next]_vars => PendingIsAnswered'
<1>. SUFFICES ASSUME PendingIsAnswered, [Next]_vars PROVE PendingIsAnswered'
  OBVIOUS
<1>1. ASSUME UNCHANGED <<pending, toOwner, fromOwner, gone>> PROVE PendingIsAnswered'
  BY <1>1 DEF PendingIsAnswered
<1>2. CASE OpenXtcp \/ ControlLost \/ HandleNatHoleResp \/ UNCHANGED vars
  BY <1>1, <1>2 DEF OpenXtcp, ControlLost, HandleNatHoleResp, vars, wires
<1>3. ASSUME NEW v \in Visitors,
             \/ Accept(v) \/ RequestTimeout(v)
             \/ OwnerDials(v) \/ VisitorDials(v) \/ OwnerDecides(v) \/ VisitorDecides(v)
      PROVE  PendingIsAnswered'
  BY <1>1, <1>3 DEF Accept, RequestTimeout, OwnerDials, VisitorDials, OwnerDecides, VisitorDecides, wires
<1>4. CASE HandleVisitor
  BY <1>4 DEF HandleVisitor, PendingIsAnswered
<1>5. ASSUME NEW v \in Visitors, OwnerLost(v) PROVE PendingIsAnswered'
  BY <1>5 DEF OwnerLost, PendingIsAnswered
<1>6. ASSUME NEW v \in Visitors, HandleNatHoleClient(v) PROVE PendingIsAnswered'
  <2>1. PICK ok \in BOOLEAN : fromOwner' = fromOwner \cup {[v |-> v, ok |-> ok]}
    BY <1>6 DEF HandleNatHoleClient
  <2>2. [v |-> v, ok |-> ok].v = v
    OBVIOUS
  <2>3. UNCHANGED <<pending, gone>> /\ toOwner' = toOwner \ {v}
    BY <1>6 DEF HandleNatHoleClient
  <2>. QED
    BY <2>1, <2>2, <2>3, Zenon DEF PendingIsAnswered
<1>7. ASSUME NEW m \in fromOwner, HandleClientResp(m) PROVE PendingIsAnswered'
  BY <1>7 DEF HandleClientResp, PendingIsAnswered
<1>. QED
  BY <1>2, <1>3, <1>4, <1>5, <1>6, <1>7 DEF Next

\* An entry of NatHoleController::pending is about to be answered, or its owner
\* is gone.
THEOREM PendingSafe == Spec => []PendingIsAnswered
<1>1. Init => PendingIsAnswered
  BY DEF Init, PendingIsAnswered
<1>. QED
  BY <1>1, PendingStep, PTL DEF Spec

-----------------------------------------------------------------------------
(***************************************************************************)
(* The slot                                                                *)
(***************************************************************************)

\* Where the one message of the request in the slot is.
Asked == toSrv = <<slot>> /\ fromSrv = <<>> /\ toOwner = {} /\ fromOwner = {}
Passed == toSrv = <<>> /\ fromSrv = <<>> /\ toOwner = {slot} /\ fromOwner = {}
Answered == toSrv = <<>> /\ fromSrv = <<>> /\ toOwner = {} /\ \E m : fromOwner = {m} /\ m.v = slot
Returned == toSrv = <<>> /\ toOwner = {} /\ fromOwner = {} /\ \E m : fromSrv = <<m>> /\ m.v = slot
Lost == toSrv = <<>> /\ fromSrv = <<>> /\ toOwner = {} /\ fromOwner = {}

\* Nothing is under way for an empty slot.
SlotInv == \/ slot = None /\ Lost
           \/ slot \in Visitors /\ (Asked \/ Passed \/ Answered \/ Returned \/ Lost)

PeerInv ==
    /\ cmds \in Seq(Visitors)
    /\ DOMAIN peer = Visitors
    /\ ~late => /\ \A v \in Visitors : peer[v] \in {None, v}
                /\ control => SlotInv

\* Every step keeps the slot and the messages together, until one is late.
LEMMA PeerStep == PeerInv /\ [Next]_vars => PeerInv'
<1>. SUFFICES ASSUME PeerInv, [Next]_vars PROVE PeerInv'
  OBVIOUS
<1>. USE DEF PeerInv
<1>1. ASSUME UNCHANGED <<cmds, slot, control, late, toSrv, fromSrv, toOwner, fromOwner, peer>>
      PROVE  PeerInv'
  BY <1>1 DEF SlotInv, Asked, Passed, Answered, Returned, Lost
<1>2. ASSUME NEW v \in Visitors,
             OwnerDials(v) \/ VisitorDials(v) \/ OwnerDecides(v) \/ VisitorDecides(v)
      PROVE  PeerInv'
  BY <1>1, <1>2 DEF OwnerDials, VisitorDials, OwnerDecides, VisitorDecides, asking, wires, racing
<1>3. CASE UNCHANGED vars
  BY <1>1, <1>3 DEF vars, asking, wires, racing
<1>4. ASSUME NEW v \in Visitors, Accept(v) PROVE PeerInv'
  <2>1. UNCHANGED <<slot, control, late, toSrv, fromSrv, toOwner, fromOwner, peer>>
    BY <1>4 DEF Accept, wires, racing
  <2>2. cmds' \in Seq(Visitors)
    BY <1>4 DEF Accept
  <2>. QED
    BY <2>1, <2>2 DEF SlotInv, Asked, Passed, Answered, Returned, Lost
<1>5. CASE OpenXtcp
  <2>1. Head(cmds) \in Visitors /\ cmds' \in Seq(Visitors)
    BY <1>5 DEF OpenXtcp
  <2>2. UNCHANGED <<control, late, fromSrv, toOwner, fromOwner, peer>>
    BY <1>5 DEF OpenXtcp, racing
  <2>3. CASE slot /= None
    <3>1. UNCHANGED <<slot, toSrv>>
      BY <1>5, <2>3 DEF OpenXtcp
    <3>. QED
      BY <2>1, <2>2, <3>1 DEF SlotInv, Asked, Passed, Answered, Returned, Lost
  <2>4. CASE slot = None
    <3>1. slot' = Head(cmds) /\ toSrv' = Append(toSrv, Head(cmds))
      BY <1>5, <2>4 DEF OpenXtcp
    <3>2. ASSUME ~late, control PROVE SlotInv'
      <4>1. Lost
        BY <2>4, <3>2, NoneAssumption DEF SlotInv
      <4>2. toSrv' = <<slot'>>
        BY <3>1, <4>1 DEF Lost
      <4>. QED
        BY <2>1, <2>2, <3>1, <4>1, <4>2 DEF SlotInv, Asked, Lost
    <3>. QED
      BY <2>1, <2>2, <3>2
  <2>. QED
    BY <2>3, <2>4
<1>6. ASSUME NEW v \in Visitors, RequestTimeout(v) PROVE PeerInv'
  <2>1. UNCHANGED <<cmds, control, peer>> /\ late' = (late \/ control)
    BY <1>6 DEF RequestTimeout, racing
  <2>2. ~late' => ~late /\ ~control
    BY <2>1
  <2>. QED
    BY <2>1, <2>2
<1>7. CASE ControlLost
  BY <1>7 DEF ControlLost, racing
<1>8. CASE HandleVisitor
  <2>1. UNCHANGED <<cmds, slot, control, late, peer, fromOwner>> /\ toSrv /= <<>> /\ toSrv' = Tail(toSrv)
    BY <1>8 DEF HandleVisitor, asking, racing
  <2>2. ASSUME ~late, control PROVE SlotInv'
    <3>1. slot \in Visitors /\ Asked
      BY <2>1, <2>2 DEF SlotInv, Asked, Passed, Answered, Returned, Lost
    <3>2. Head(toSrv) = slot /\ toSrv' = <<>>
      BY <2>1, <3>1 DEF Asked
    <3>3. CASE fromSrv' = Append(fromSrv, [v |-> slot, ok |-> FALSE]) /\ UNCHANGED toOwner
      <4>1. fromSrv' = <<[v |-> slot, ok |-> FALSE]>> /\ [v |-> slot, ok |-> FALSE].v = slot'
        BY <2>1, <3>1, <3>3 DEF Asked
      <4>2. Returned'
        BY <2>1, <3>1, <3>2, <3>3, <4>1 DEF Asked, Returned
      <4>. QED
        BY <2>1, <3>1, <4>2 DEF SlotInv
    <3>4. CASE toOwner' = toOwner \cup {slot} /\ UNCHANGED fromSrv
      <4>1. Passed'
        BY <2>1, <3>1, <3>2, <3>4 DEF Asked, Passed
      <4>. QED
        BY <2>1, <3>1, <4>1 DEF SlotInv
    <3>. QED
      BY <1>8, <3>2, <3>3, <3>4 DEF HandleVisitor
  <2>. QED
    BY <2>1, <2>2
<1>9. ASSUME NEW v \in Visitors, OwnerLost(v) PROVE PeerInv'
  <2>1. /\ UNCHANGED <<cmds, slot, control, late, peer, toSrv, fromSrv>>
        /\ toOwner' = toOwner \ {v} /\ fromOwner' = {m \in fromOwner : m.v /= v}
    BY <1>9 DEF OwnerLost, asking, racing
  <2>2. ASSUME ~late, control PROVE SlotInv'
    <3>1. slot \in Visitors /\ (Passed \/ Answered)
      BY <1>9, <2>2 DEF OwnerLost, SlotInv, Asked, Passed, Answered, Returned, Lost
    <3>2. Lost'
      BY <1>9, <2>1, <3>1 DEF OwnerLost, Passed, Answered, Lost
    <3>. QED
      BY <2>1, <3>1, <3>2 DEF SlotInv
  <2>. QED
    BY <2>1, <2>2
<1>10. ASSUME NEW v \in Visitors, HandleNatHoleClient(v) PROVE PeerInv'
  <2>1. UNCHANGED <<cmds, slot, control, late, peer, toSrv, fromSrv>> /\ toOwner' = toOwner \ {v}
    BY <1>10 DEF HandleNatHoleClient, asking
  <2>2. PICK ok \in BOOLEAN : fromOwner' = fromOwner \cup {[v |-> v, ok |-> ok]}
    BY <1>10 DEF HandleNatHoleClient
  <2>3. ASSUME ~late, control PROVE SlotInv'
    <3>1. slot \in Visitors /\ Passed /\ v = slot
      BY <1>10, <2>3 DEF HandleNatHoleClient, SlotInv, Asked, Passed, Answered, Returned, Lost
    <3>2. fromOwner' = {[v |-> v, ok |-> ok]} /\ [v |-> v, ok |-> ok].v = slot'
      BY <2>1, <2>2, <3>1 DEF Passed
    <3>3. Answered'
      BY <2>1, <3>1, <3>2 DEF Passed, Answered
    <3>. QED
      BY <2>1, <3>1, <3>3 DEF SlotInv
  <2>. QED
    BY <2>1, <2>3
<1>11. ASSUME NEW m \in fromOwner, HandleClientResp(m) PROVE PeerInv'
  <2>1. /\ UNCHANGED <<cmds, slot, control, late, peer, toSrv, toOwner>>
        /\ fromOwner' = fromOwner \ {m} /\ (fromSrv' = Append(fromSrv, m) \/ fromSrv' = fromSrv)
    BY <1>11 DEF HandleClientResp, asking, racing
  <2>2. ASSUME ~late, control PROVE SlotInv'
    <3>1. slot \in Visitors /\ Answered
      BY <1>11, <2>2 DEF SlotInv, Asked, Passed, Answered, Returned, Lost
    <3>2. fromOwner = {m} /\ m.v = slot /\ fromOwner' = {}
      BY <1>11, <2>1, <3>1 DEF Answered
    <3>3. CASE fromSrv' = Append(fromSrv, m)
      <4>1. fromSrv' = <<m>>
        BY <3>1, <3>3 DEF Answered
      <4>2. Returned'
        BY <2>1, <3>1, <3>2, <4>1 DEF Answered, Returned
      <4>. QED
        BY <2>1, <3>1, <4>2 DEF SlotInv
    <3>4. CASE fromSrv' = fromSrv
      BY <2>1, <3>1, <3>2, <3>4 DEF Answered, Lost, SlotInv
    <3>. QED
      BY <2>1, <3>3, <3>4
  <2>. QED
    BY <2>1, <2>2
<1>12. CASE HandleNatHoleResp
  <2>1. /\ UNCHANGED <<cmds, control, late, toSrv, toOwner, fromOwner>>
        /\ control /\ fromSrv /= <<>> /\ fromSrv' = Tail(fromSrv) /\ slot' = None
    BY <1>12 DEF HandleNatHoleResp
  <2>2. peer' = peer \/ peer' = [peer EXCEPT ![slot] = Head(fromSrv).v]
    BY <1>12 DEF HandleNatHoleResp
  <2>3. DOMAIN peer' = Visitors
    BY <2>2
  <2>4. ASSUME ~late, control
        PROVE  SlotInv' /\ \A v \in Visitors : peer'[v] \in {None, v}
    <3>1. slot \in Visitors /\ Returned
      BY <2>1, <2>4 DEF SlotInv, Asked, Passed, Answered, Returned, Lost
    <3>2. Head(fromSrv).v = slot /\ fromSrv' = <<>>
      BY <2>1, <3>1 DEF Returned
    <3>. QED
      BY <2>1, <2>2, <2>4, <3>1, <3>2 DEF Returned, Lost, SlotInv
  <2>. QED
    BY <2>1, <2>3, <2>4
<1>. QED
  BY <1>2, <1>3, <1>4, <1>5, <1>6, <1>7, <1>8, <1>9, <1>10, <1>11, <1>12 DEF Next

\* As long as no request times out, a visitor is given the address of the
\* provider it asked for (handle_nathole_response).
THEOREM PeerSafe == Spec => []PeerIsOwn
<1>1. Init => PeerInv
  BY DEF Init, PeerInv, SlotInv, Lost
<1>2. PeerInv => PeerIsOwn
  BY DEF PeerInv, PeerIsOwn
<1>. QED
  BY <1>1, <1>2, PeerStep, PTL DEF Spec
=============================================================================
