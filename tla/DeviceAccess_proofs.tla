------------------------- MODULE DeviceAccess_proofs -------------------------
(***************************************************************************)
(* Proofs about DeviceAccess, for every number of members, services,       *)
(* devices and requests and every limit.  IInv is inductive: the types,    *)
(* the terms of destinations and of open decision forms (Terms), what      *)
(* retired devices hold, and the history.  The limit on the policy needs   *)
(* Capacity, which is inductive relative to IInv.                          *)
(***************************************************************************)
EXTENDS DeviceAccess, FiniteSetTheorems, TLAPS

(* A destination that may be requested is one; a form shows a destination that
   its version stands for, so an unchanged version means an unchanged one. *)
FormTrue ==
    review # None =>
        LET t == target[TargetOf[review.grant]] IN
        /\ review.grant \in Grant
        /\ review.targetVersion \in Nat /\ review.targetVersion <= t.version
        /\ review.targetVersion = t.version => review.dest = t.dest
Terms ==
    /\ \A t \in Target : target[t].enabled => target[t].dest \in Dest
    /\ FormTrue

IInv == TypeOK /\ Terms /\ RetiredHoldNothing /\ HistoryIsComplete

-----------------------------------------------------------------------------
LEMMA RowMoves ==
    ASSUME NEW S, NEW D, NEW s \in S, NEW v \in Nat,
           NEW r \in [state : S, version : Nat, dest : D, expires : Nat]
    PROVE  [r EXCEPT !.state = s, !.version = v] \in [state : S, version : Nat, dest : D, expires : Nat]
  OBVIOUS

(* The handlers that move many rows at once map rows to rows. *)
LEMMA MassMoves ==
    ASSUME TypeOK, NEW D \in SUBSET Device
    PROVE  /\ ExpiredGrants \in [Grant -> [state : GrantState, version : Nat, dest : Dest \cup {None}, expires : Nat]]
           /\ RevokedGrants(D) \in [Grant -> [state : GrantState, version : Nat, dest : Dest \cup {None}, expires : Nat]]
           /\ ExpiredTrail \in [Grant -> GrantState] /\ RevokedTrail(D) \in [Grant -> GrantState]
           /\ RevokedDevices(D) \in [Device -> {"none", "requested", "approved", "revoked"}]
           /\ Erased(D) \in [Device -> [state : {"none", "sealed", "erased", "consumed"}, expires : Nat]]
<1>1. /\ ExpiredGrants \in [Grant -> [state : GrantState, version : Nat, dest : Dest \cup {None}, expires : Nat]]
      /\ RevokedGrants(D) \in [Grant -> [state : GrantState, version : Nat, dest : Dest \cup {None}, expires : Nat]]
  <2>1. \A g \in Grant, s \in GrantState :
          Moved(g, s) \in [state : GrantState, version : Nat, dest : Dest \cup {None}, expires : Nat]
    <3> SUFFICES ASSUME NEW g \in Grant, NEW s \in GrantState
                 PROVE  Moved(g, s) \in [state : GrantState, version : Nat, dest : Dest \cup {None}, expires : Nat]
      OBVIOUS
    <3>1. /\ grant[g] \in [state : GrantState, version : Nat, dest : Dest \cup {None}, expires : Nat]
          /\ grant[g].version + 1 \in Nat
      BY DEF TypeOK
    <3> QED
      BY <3>1, RowMoves DEF Moved
  <2>2. "Expired" \in GrantState /\ "Revoked" \in GrantState
    BY DEF GrantState
  <2> QED
    BY <2>1, <2>2 DEF TypeOK, ExpiredGrants, RevokedGrants
<1>2. ExpiredTrail \in [Grant -> GrantState] /\ RevokedTrail(D) \in [Grant -> GrantState]
  BY DEF TypeOK, ExpiredTrail, RevokedTrail, GrantState
<1>3. RevokedDevices(D) \in [Device -> {"none", "requested", "approved", "revoked"}]
  BY DEF TypeOK, RevokedDevices
<1>4. Erased(D) \in [Device -> [state : {"none", "sealed", "erased", "consumed"}, expires : Nat]]
  BY DEF TypeOK, Erased
<1> QED
  BY <1>1, <1>2, <1>3, <1>4

LEMMA TypeStep == TypeOK /\ Next => TypeOK'
<1> SUFFICES ASSUME TypeOK, Next PROVE TypeOK'
  OBVIOUS
<1> USE ColumnAssumption, LimitAssumption
<1>1. ASSUME NEW d \in Device, EnrollDevice(d) PROVE TypeOK'
  BY <1>1 DEF TypeOK, EnrollDevice
<1>2. ASSUME NEW d \in Device, RevokeDevice(d) PROVE TypeOK'
  BY <1>2, MassMoves DEF TypeOK, RevokeDevice
<1>3. ASSUME NEW d \in Device, ConsumePack(d) PROVE TypeOK'
  BY <1>3 DEF TypeOK, ConsumePack
<1>4. ASSUME NEW g \in Grant, CheckOffering(g) PROVE TypeOK'
  BY <1>4 DEF TypeOK, CheckOffering, desk
<1>5. CASE RequestNetwork
  <2>1. ExpiredDeliveries \in [Device -> [state : {"none", "sealed", "erased", "consumed"}, expires : Nat]]
    BY MassMoves DEF ExpiredDeliveries
  <2> QED
    <3>1. grant' \in [Grant -> [state : GrantState, version : Nat, dest : Dest \cup {None}, expires : Nat]]
      BY <1>5, MassMoves DEF RequestNetwork, NewRequest, GrantState
    <3>2. trail' \in [Grant -> GrantState]
      BY <1>5, MassMoves DEF RequestNetwork, GrantState
    <3> QED
      BY <1>5, <2>1, <3>1, <3>2 DEF TypeOK, RequestNetwork
<1>6. CASE RequestFails
  BY <1>6 DEF TypeOK, RequestFails, desk
<1>7. ASSUME NEW g \in Grant, NEW replaced \in {{}} \cup {{d} : d \in Device}, CreatePack(g, replaced)
      PROVE TypeOK'
  <2>1. replaced \in SUBSET Device /\ DeviceOf[g] \in Device
    OBVIOUS
  <2> QED
    BY <1>7, <2>1, MassMoves DEF TypeOK, CreatePack, NewRequest, GrantState
<1>8. ASSUME NEW g \in Grant, OpenReview(g) PROVE TypeOK'
  BY <1>8 DEF TypeOK, OpenReview, desk
<1>9. ASSUME NEW g \in Grant, NEW e \in 1..(MaxTime + MaxLife), Approve(g, e) PROVE TypeOK'
  BY <1>9 DEF TypeOK, Approve, GrantState
<1>10. ASSUME NEW g \in Grant, NEW s \in {"Denied", "Revoked"}, Withdraw(g, s) PROVE TypeOK'
  BY <1>10 DEF TypeOK, Withdraw, GrantState
<1>11. ASSUME NEW t \in Target, NEW on \in BOOLEAN, NEW x \in Dest, SaveTarget(t, on, x) PROVE TypeOK'
  BY <1>11 DEF TypeOK, SaveTarget
<1>12. ASSUME NEW s \in Service, NEW l \in {"published", "hidden", "archived"}, SetService(s, l) PROVE TypeOK'
  BY <1>12 DEF TypeOK, SetService
<1>13. ASSUME NEW s \in Service, NEW A \in Audience, SetAudience(s, A) PROVE TypeOK'
  BY <1>13 DEF TypeOK, SetAudience
<1>14. ASSUME NEW m \in Member, NEW on \in BOOLEAN, SetMember(m, on) PROVE TypeOK'
  <2>1. (IF on THEN {} ELSE DevicesOf(m)) \in SUBSET Device
    BY DEF DevicesOf
  <2> QED
    BY <1>14, <2>1, MassMoves DEF TypeOK, SetMember
<1>15. CASE Reconcile
  <2>1. ExpiredDeliveries \in [Device -> [state : {"none", "sealed", "erased", "consumed"}, expires : Nat]]
    BY MassMoves DEF ExpiredDeliveries
  <2> QED
    BY <1>15, <2>1, MassMoves DEF TypeOK, Reconcile
<1>16. CASE RecordAck \/ Restart \/ CheckAck(Snapshot) \/ Clock
  BY <1>16 DEF TypeOK, RecordAck, Restart, CheckAck, Clock, portal, desk
<1> QED
  BY <1>1, <1>2, <1>3, <1>4, <1>5, <1>6, <1>7, <1>8, <1>9, <1>10, <1>11, <1>12, <1>13,
     <1>14, <1>15, <1>16 DEF Next, Local, MemberStep, AdminStep

-----------------------------------------------------------------------------
(* What the mass moves do to the states. *)
LEMMA MovedState ==
    ASSUME TypeOK, NEW g \in Grant, NEW s
    PROVE  Moved(g, s).state = s /\ Moved(g, s).version = grant[g].version + 1
<1>1. grant[g] \in [state : GrantState, version : Nat, dest : Dest \cup {None}, expires : Nat]
  BY DEF TypeOK
<1>2. ASSUME NEW v PROVE [grant[g] EXCEPT !.state = s, !.version = v].state = s
                         /\ [grant[g] EXCEPT !.state = s, !.version = v].version = v
  BY <1>1
<1> QED
  BY <1>2 DEF Moved

LEMMA MassStates ==
    ASSUME TypeOK, NEW D \in SUBSET Device
    PROVE  /\ \A g \in Grant :
                /\ ExpiredGrants[g].state = IF Lapsed(g) THEN "Expired" ELSE grant[g].state
                /\ RevokedGrants(D)[g].state = IF EndedBy(g, D) THEN "Revoked" ELSE grant[g].state
           /\ \A d \in Device :
                /\ RevokedDevices(D)[d] = IF d \in D /\ Current(d) THEN "revoked" ELSE device[d]
                /\ Erased(D)[d].state = IF d \in D /\ delivery[d].state = "sealed"
                                        THEN "erased" ELSE delivery[d].state
<1>1. ASSUME NEW g \in Grant
      PROVE  /\ ExpiredGrants[g].state = IF Lapsed(g) THEN "Expired" ELSE grant[g].state
             /\ RevokedGrants(D)[g].state = IF EndedBy(g, D) THEN "Revoked" ELSE grant[g].state
  BY MovedState DEF ExpiredGrants, RevokedGrants
<1>2. ASSUME NEW d \in Device
      PROVE  /\ RevokedDevices(D)[d] = IF d \in D /\ Current(d) THEN "revoked" ELSE device[d]
             /\ Erased(D)[d].state = IF d \in D /\ delivery[d].state = "sealed"
                                     THEN "erased" ELSE delivery[d].state
  BY DEF TypeOK, RevokedDevices, Erased
<1> QED
  BY <1>1, <1>2

LEMMA HistoryStep == TypeOK /\ HistoryIsComplete /\ Next => HistoryIsComplete'
<1> SUFFICES ASSUME TypeOK, HistoryIsComplete, Next PROVE HistoryIsComplete'
  OBVIOUS
<1> USE ColumnAssumption
<1>1. /\ \A g \in Grant : ExpiredTrail[g] = ExpiredGrants[g].state
      /\ \A D \in SUBSET Device, g \in Grant : RevokedTrail(D)[g] = RevokedGrants(D)[g].state
  BY MassStates DEF HistoryIsComplete, ExpiredTrail, RevokedTrail
<1>2. ASSUME NEW D \in SUBSET Device, grant' = RevokedGrants(D), trail' = RevokedTrail(D)
      PROVE  HistoryIsComplete'
  BY <1>1, <1>2 DEF HistoryIsComplete
<1>3. ASSUME NEW d \in Device, RevokeDevice(d) PROVE HistoryIsComplete'
  BY <1>2, <1>3 DEF RevokeDevice
<1>4. ASSUME NEW m \in Member, NEW on \in BOOLEAN, SetMember(m, on) PROVE HistoryIsComplete'
  BY <1>2, <1>4 DEF SetMember, DevicesOf
<1>5. CASE RequestNetwork
  <2>1. PICK g \in Grant : /\ grant' = [ExpiredGrants EXCEPT ![g] = NewRequest]
                           /\ trail' = [ExpiredTrail EXCEPT ![g] = "Pending"]
    BY <1>5 DEF RequestNetwork
  <2> QED
    BY <1>1, <2>1, MassMoves DEF NewRequest, HistoryIsComplete
<1>6. CASE Reconcile
  BY <1>1, <1>6 DEF Reconcile, HistoryIsComplete
<1>7. ASSUME NEW g \in Grant, NEW replaced \in SUBSET Device, CreatePack(g, replaced)
      PROVE  HistoryIsComplete'
  BY <1>1, <1>7, MassMoves DEF CreatePack, NewRequest, HistoryIsComplete
<1>8. ASSUME NEW g \in Grant, NEW e, Approve(g, e) PROVE HistoryIsComplete'
  BY <1>8 DEF Approve, HistoryIsComplete, TypeOK
<1>9. ASSUME NEW g \in Grant, NEW s, Withdraw(g, s) PROVE HistoryIsComplete'
  BY <1>9 DEF Withdraw, HistoryIsComplete, TypeOK
<1>10. CASE UNCHANGED <<grant, trail>>
  BY <1>10 DEF HistoryIsComplete
<1> QED
  BY <1>3, <1>4, <1>5, <1>6, <1>7, <1>8, <1>9, <1>10
     DEF Next, Local, MemberStep, AdminStep, EnrollDevice, ConsumePack, CheckOffering, RequestFails,
         OpenReview, SaveTarget, SetService, SetAudience, RecordAck, Restart, CheckAck, Clock, portal, desk

LEMMA RetiredStep == TypeOK /\ RetiredHoldNothing /\ Next => RetiredHoldNothing'
<1> SUFFICES ASSUME TypeOK, RetiredHoldNothing, Next PROVE RetiredHoldNothing'
  OBVIOUS
<1> USE ColumnAssumption
<1>1. ASSUME NEW d \in Device, EnrollDevice(d) PROVE RetiredHoldNothing'
  BY <1>1 DEF EnrollDevice, Enrollable, RetiredHoldNothing, Current, Open, OwnerEnabled, TypeOK
<1>2. ASSUME NEW D \in SUBSET Device, device' = RevokedDevices(D), grant' = RevokedGrants(D),
             delivery' = Erased(D), \A d \in Device \ D : enabled[OwnerOf[d]] => enabled'[OwnerOf[d]]
      PROVE  RetiredHoldNothing'
  <2>1. ASSUME NEW d \in Device, Current(d)' PROVE OwnerEnabled(d)'
    <3>1. Current(d) /\ d \notin D
      BY <1>2, <2>1, MassStates DEF Current
    <3> QED
      BY <1>2, <3>1 DEF RetiredHoldNothing, OwnerEnabled
  <2>2. ASSUME NEW d \in Device, device'[d] = "revoked" PROVE delivery'[d].state # "sealed"
    BY <1>2, <2>2, MassStates DEF RetiredHoldNothing, Current
  <2>3. ASSUME NEW d \in Device, device'[d] = "revoked", NEW g \in Grant, DeviceOf[g] = d
        PROVE  ~Open(g)'
    <3>1. grant'[g].state = IF EndedBy(g, D) THEN "Revoked" ELSE grant[g].state
      BY <1>2, MassStates
    <3>2. device[d] = "revoked" \/ d \in D
      BY <1>2, <2>3, MassStates
    <3> QED
      BY <2>3, <3>1, <3>2 DEF RetiredHoldNothing, Open, EndedBy
  <2> QED
    BY <2>1, <2>2, <2>3 DEF RetiredHoldNothing
<1>3. ASSUME NEW d \in Device, RevokeDevice(d) PROVE RetiredHoldNothing'
  BY <1>2, <1>3 DEF RevokeDevice
<1>4. ASSUME NEW m \in Member, NEW on \in BOOLEAN, SetMember(m, on) PROVE RetiredHoldNothing'
  <2>1. CASE on
    <3>1. /\ device' = RevokedDevices({}) /\ grant' = RevokedGrants({}) /\ delivery' = Erased({})
          /\ \A n \in Member : enabled[n] => enabled'[n]
      BY <1>4, <2>1 DEF SetMember, TypeOK
    <3> QED
      BY <1>2, <3>1
  <2>2. CASE ~on
    BY <1>2, <1>4, <2>2 DEF SetMember, DevicesOf, TypeOK
  <2> QED
    BY <2>1, <2>2
<1>5. /\ \A g \in Grant : ExpiredGrants[g].state \in {"Pending", "Approved"} => Open(g)
      /\ \A d \in Device : ExpiredDeliveries[d].state = "sealed" => delivery[d].state = "sealed"
  BY MassStates DEF Open, ExpiredDeliveries
<1>6. CASE Reconcile
  BY <1>5, <1>6 DEF Reconcile, RetiredHoldNothing, Current, Open, OwnerEnabled
<1>7. CASE RequestNetwork
  <2>1. PICK g \in Grant : /\ grant' = [ExpiredGrants EXCEPT ![g] = NewRequest]
                           /\ Current(DeviceOf[g])
                           /\ delivery' = ExpiredDeliveries /\ UNCHANGED <<device, enabled>>
    BY <1>7 DEF RequestNetwork
  <2>2. \A h \in Grant \ {g} : grant'[h] = ExpiredGrants[h]
    BY <2>1, MassMoves
  <2>3. \A d \in Device : device'[d] = "revoked" => d # DeviceOf[g]
    BY <2>1 DEF Current
  <2> QED
    BY <1>5, <2>1, <2>2, <2>3 DEF RetiredHoldNothing, Current, Open, OwnerEnabled
<1>8. ASSUME NEW g \in Grant, NEW replaced \in SUBSET Device, CreatePack(g, replaced)
      PROVE  RetiredHoldNothing'
  <2> DEFINE d == DeviceOf[g]
  <2>1. d \in Device /\ d \notin replaced /\ OwnerEnabled(d)
    BY <1>8, MassStates DEF CreatePack, Enrollable
  <2>2. /\ device' = [RevokedDevices(replaced) EXCEPT ![d] = "requested"] /\ enabled' = enabled
        /\ grant' = [RevokedGrants(replaced) EXCEPT ![g] = NewRequest]
        /\ delivery' = [Erased(replaced) EXCEPT ![d] = [state |-> "sealed", expires |-> now + PackLife]]
    BY <1>8 DEF CreatePack
  <2>3. /\ device'[d] = "requested"
        /\ \A c \in Device \ {d} : /\ device'[c] = RevokedDevices(replaced)[c]
                                   /\ delivery'[c] = Erased(replaced)[c]
        /\ \A h \in Grant \ {g} : grant'[h] = RevokedGrants(replaced)[h]
    BY <2>1, <2>2, MassMoves
  <2> HIDE DEF d
  <2>4. ASSUME NEW c \in Device \ {d}, device'[c] = "revoked"
        PROVE  delivery'[c].state # "sealed" /\ \A h \in Grant : DeviceOf[h] = c => ~Open(h)'
    <3>1. c # DeviceOf[g]
      BY DEF d
    <3> QED
      BY <2>3, <2>4, <3>1, MassStates DEF RetiredHoldNothing, Open, EndedBy, Current
  <2>5. ASSUME NEW c \in Device, Current(c)' PROVE OwnerEnabled(c)'
    BY <2>1, <2>2, <2>3, <2>5, MassStates DEF RetiredHoldNothing, Current, OwnerEnabled
  <2> QED
    BY <2>3, <2>4, <2>5 DEF RetiredHoldNothing
<1>9. ASSUME NEW g \in Grant, NEW e, Approve(g, e) PROVE RetiredHoldNothing'
  BY <1>9 DEF Approve, Approvable, RetiredHoldNothing, Current, Open, OwnerEnabled, TypeOK
<1>10. ASSUME NEW g \in Grant, NEW s \in {"Denied", "Revoked"}, Withdraw(g, s) PROVE RetiredHoldNothing'
  BY <1>10 DEF Withdraw, RetiredHoldNothing, Current, Open, OwnerEnabled, TypeOK
<1>11. ASSUME NEW d \in Device, ConsumePack(d) PROVE RetiredHoldNothing'
  BY <1>11 DEF ConsumePack, Deliverable, RetiredHoldNothing, Current, Open, OwnerEnabled, TypeOK
<1>12. CASE UNCHANGED <<enabled, device, grant, delivery>>
  BY <1>12 DEF RetiredHoldNothing, Current, Open, OwnerEnabled
<1> QED
  BY <1>1, <1>3, <1>4, <1>6, <1>7, <1>8, <1>9, <1>10, <1>11, <1>12
     DEF Next, Local, MemberStep, AdminStep, CheckOffering, RequestFails, OpenReview,
         SaveTarget, SetService, SetAudience, RecordAck, Restart, CheckAck, Clock, portal, desk

(* Only edits move a destination's version, and they move it up. *)
LEMMA TermsStep == TypeOK /\ Terms /\ Next => Terms'
<1> SUFFICES ASSUME TypeOK, Terms, Next PROVE Terms'
  OBVIOUS
<1> USE ColumnAssumption
<1>1. ASSUME NEW g \in Grant, OpenReview(g) PROVE Terms'
  <2>1. review' = [grant |-> g, version |-> grant[g].version,
                   targetVersion |-> target[TargetOf[g]].version, dest |-> target[TargetOf[g]].dest]
        /\ target' = target
    BY <1>1 DEF OpenReview, desk
  <2>2. TargetOf[g] \in Target /\ target[TargetOf[g]].version \in Nat
    BY DEF TypeOK
  <2> QED
    BY <2>1, <2>2 DEF Terms, FormTrue
<1>2. ASSUME NEW t \in Target, NEW on \in BOOLEAN, NEW x \in Dest, SaveTarget(t, on, x) PROVE Terms'
  <2>1. /\ review' = review /\ target[t].version \in Nat
        /\ target'[t] = [enabled |-> on, version |-> target[t].version + 1, dest |-> x]
        /\ \A u \in Target \ {t} : target'[u] = target[u]
    BY <1>2 DEF SaveTarget, TypeOK
  <2>2. ASSUME review # None PROVE TargetOf[review.grant] \in Target
    BY <2>2 DEF Terms, FormTrue
  <2>3. FormTrue'
    <3>1. CASE review # None /\ TargetOf[review.grant] = t
      BY <2>1, <3>1 DEF Terms, FormTrue
    <3>2. CASE review = None \/ TargetOf[review.grant] # t
      BY <2>1, <2>2, <3>2 DEF Terms, FormTrue
    <3> QED
      BY <3>1, <3>2
  <2> QED
    BY <2>1, <2>3 DEF Terms
<1>3. CASE UNCHANGED <<target, review>>
  BY <1>3 DEF Terms, FormTrue
<1> QED
  BY <1>1, <1>2, <1>3
     DEF Next, Local, MemberStep, AdminStep, EnrollDevice, RevokeDevice, ConsumePack, CheckOffering,
         RequestNetwork, RequestFails, CreatePack, Approve, Withdraw, SetService, SetAudience,
         SetMember, Reconcile, RecordAck, Restart, CheckAck, Clock, portal, desk

LEMMA InitIInv == Init => IInv
<1> SUFFICES ASSUME Init PROVE IInv
  OBVIOUS
<1>1. TypeOK
  BY DEF Init, TypeOK, GrantState
<1>2. Terms
  BY DEF Init, Terms, FormTrue
<1>3. RetiredHoldNothing
  BY ColumnAssumption DEF Init, RetiredHoldNothing, Current, OwnerEnabled
<1>4. HistoryIsComplete
  BY DEF Init, HistoryIsComplete
<1> QED
  BY <1>1, <1>2, <1>3, <1>4 DEF IInv

LEMMA NextIInv == IInv /\ [Next]_vars => IInv'
<1>1. IInv /\ Next => IInv'
  BY TypeStep, TermsStep, RetiredStep, HistoryStep DEF IInv
<1>2. IInv /\ UNCHANGED vars => IInv'
  BY DEF IInv, TypeOK, Terms, FormTrue, RetiredHoldNothing, Current, Open, OwnerEnabled,
         HistoryIsComplete, vars, portal, desk
<1> QED
  BY <1>1, <1>2

(* The inductive invariant holds of every state of the desk. *)
THEOREM Invariance == Spec => []IInv
  BY InitIInv, NextIInv, PTL DEF Spec

(* TypeOK: every column keeps the values its CHECK constraints name. *)
THEOREM TypeCorrect == Spec => []TypeOK
  BY Invariance, PTL DEF IInv

(* RetiredHoldNothing: however many devices a member has and whatever a handler
   revokes at once, no open request and no key outlives its device. *)
THEOREM RetirementComplete == Spec => []RetiredHoldNothing
  BY Invariance, PTL DEF IInv

(* HistoryIsComplete: every handler records every move it makes. *)
THEOREM HistoryComplete == Spec => []HistoryIsComplete
  BY Invariance, PTL DEF IInv

-----------------------------------------------------------------------------
(* ApprovedAsReviewed, from FormTrue: equal versions mean equal destinations. *)
LEMMA OnlyApproveApproves ==
    ASSUME IInv, Next, NEW g \in Grant, grant[g].state # "Approved", grant'[g].state = "Approved"
    PROVE  \E e \in 1..(MaxTime + MaxLife) : Approve(g, e)
<1> USE ColumnAssumption DEF IInv
<1>1. ASSUME NEW h \in Grant, NEW e \in 1..(MaxTime + MaxLife), Approve(h, e) PROVE h = g
  BY <1>1 DEF Approve, TypeOK
<1>2. ASSUME NEW h \in Grant, NEW s \in {"Denied", "Revoked"}, Withdraw(h, s) PROVE FALSE
  BY <1>2 DEF Withdraw, TypeOK
<1>3. ASSUME NEW D \in SUBSET Device, grant' = RevokedGrants(D) PROVE FALSE
  BY <1>3, MassStates
<1>4. ASSUME NEW h \in Grant, NEW D \in SUBSET Device,
             grant' = [RevokedGrants(D) EXCEPT ![h] = NewRequest] PROVE FALSE
  BY <1>4, MassStates, MassMoves DEF NewRequest
<1>5. ASSUME NEW h \in Grant, grant' = [ExpiredGrants EXCEPT ![h] = NewRequest] PROVE FALSE
  BY <1>5, MassStates, MassMoves DEF NewRequest
<1>6. CASE grant' = ExpiredGrants
  BY <1>6, MassStates
<1>7. CASE grant' = grant
  BY <1>7
<1>8. ASSUME NEW d \in Device, RevokeDevice(d) PROVE FALSE
  BY <1>3, <1>8 DEF RevokeDevice
<1>9. ASSUME NEW m \in Member, NEW on \in BOOLEAN, SetMember(m, on) PROVE FALSE
  BY <1>3, <1>9 DEF SetMember, DevicesOf
<1>10. ASSUME NEW h \in Grant, NEW replaced \in SUBSET Device, CreatePack(h, replaced) PROVE FALSE
  BY <1>4, <1>10 DEF CreatePack
<1>11. ~RequestNetwork
  BY <1>5 DEF RequestNetwork
<1> QED
  BY <1>1, <1>2, <1>6, <1>7, <1>8, <1>9, <1>10, <1>11
     DEF Next, Local, MemberStep, AdminStep, EnrollDevice, ConsumePack, CheckOffering, RequestFails,
         OpenReview, SaveTarget, SetService, SetAudience, Reconcile, RecordAck, Restart, CheckAck,
         Clock, portal, desk

LEMMA ApprovalStep ==
    ASSUME IInv, Next, NEW g \in Grant, grant[g].state # "Approved", grant'[g].state = "Approved"
    PROVE  review.grant = g /\ grant'[g].dest = review.dest
<1>1. PICK e \in 1..(MaxTime + MaxLife) : Approve(g, e)
  BY OnlyApproveApproves
<1> QED
  BY <1>1, ColumnAssumption DEF IInv, Approve, Reviewed, Unchanged, Terms, FormTrue, TypeOK

(* ApprovedAsReviewed: the version check of DecideNetwork makes an administrator
   approve what the form showed, for any number of edits and repeated posts. *)
THEOREM ReviewedApprovals == Spec => ApprovedAsReviewed
<1>1. IInv /\ [Next]_vars =>
        [\A g \in Grant : grant[g].state # "Approved" /\ grant'[g].state = "Approved"
            => review.grant = g /\ grant'[g].dest = review.dest]_vars
  BY ApprovalStep
<1> QED
  BY <1>1, Invariance, PTL DEF Spec, ApprovedAsReviewed

-----------------------------------------------------------------------------
(* Refinement: each request a step moves, it moves as Permission allows. *)
MovesLawfully(g) ==
    grant'[g] = grant[g] \/ P!Requested(g) \/ P!Approved(g) \/ P!Denied(g) \/ P!Revoked(g) \/ P!Expired(g)

LEMMA ExpiryIsLawful ==
    ASSUME TypeOK, NEW g \in Grant, grant'[g] = ExpiredGrants[g]
    PROVE  MovesLawfully(g)
<1>1. grant'[g] = IF Lapsed(g) THEN Moved(g, "Expired") ELSE grant[g]
  BY DEF ExpiredGrants
<1> QED
  BY <1>1, MovedState DEF Lapsed, MovesLawfully, P!Expired, P!State, P!Moves

LEMMA RevocationIsLawful ==
    ASSUME TypeOK, NEW D \in SUBSET Device, NEW g \in Grant, grant'[g] = RevokedGrants(D)[g]
    PROVE  MovesLawfully(g)
<1>1. grant'[g] = IF EndedBy(g, D) THEN Moved(g, "Revoked") ELSE grant[g]
  BY DEF RevokedGrants
<1> QED
  BY <1>1, MovedState DEF EndedBy, Open, MovesLawfully, P!Revoked, P!State, P!Moves

LEMMA StepIsLawful == ASSUME IInv, Next PROVE \A g \in Grant : MovesLawfully(g)
<1> USE ColumnAssumption, LimitAssumption DEF IInv
<1>1. ASSUME NEW h \in Grant, NEW e \in 1..(MaxTime + MaxLife), Approve(h, e)
      PROVE  \A g \in Grant : MovesLawfully(g)
  <2>1. /\ grant[h].state = "Pending" /\ target[TargetOf[h]].dest \in Dest
        /\ e \in now..(now + MaxLife)
        /\ grant'[h] = [state |-> "Approved", version |-> grant[h].version + 1,
                        dest |-> target[TargetOf[h]].dest, expires |-> e]
        /\ \A g \in Grant \ {h} : grant'[g] = grant[g]
    BY <1>1 DEF Approve, Approvable, Terms, TypeOK
  <2>2. P!Approved(h)
    BY <2>1 DEF P!Approved, P!State, P!Moves
  <2> QED
    BY <2>1, <2>2 DEF MovesLawfully
<1>2. ASSUME NEW h \in Grant, NEW s \in {"Denied", "Revoked"}, Withdraw(h, s)
      PROVE  \A g \in Grant : MovesLawfully(g)
  BY <1>2 DEF Withdraw, Decision, TypeOK, MovesLawfully, P!Denied, P!Revoked, P!State, P!Moves
<1>3. ASSUME NEW d \in Device, RevokeDevice(d) PROVE \A g \in Grant : MovesLawfully(g)
  BY <1>3, RevocationIsLawful DEF RevokeDevice
<1>4. ASSUME NEW m \in Member, NEW on \in BOOLEAN, SetMember(m, on)
      PROVE  \A g \in Grant : MovesLawfully(g)
  <2>1. (IF on THEN {} ELSE DevicesOf(m)) \in SUBSET Device
    BY DEF DevicesOf
  <2> QED
    BY <1>4, <2>1, RevocationIsLawful DEF SetMember
<1>5. ASSUME NEW h \in Grant, NEW replaced \in SUBSET Device, CreatePack(h, replaced)
      PROVE  \A g \in Grant : MovesLawfully(g)
  <2>1. /\ grant[h].state = "none" /\ grant'[h] = NewRequest
        /\ \A g \in Grant \ {h} : grant'[g] = RevokedGrants(replaced)[g]
    BY <1>5, MassMoves DEF CreatePack
  <2>2. MovesLawfully(h)
    BY <2>1 DEF MovesLawfully, NewRequest, P!Requested, P!State
  <2> QED
    BY <2>1, <2>2, RevocationIsLawful
<1>6. CASE RequestNetwork
  <2>1. PICK h \in Grant : /\ grant[h].state = "none" /\ grant'[h] = NewRequest
                           /\ \A g \in Grant \ {h} : grant'[g] = ExpiredGrants[g]
    BY <1>6, MassMoves DEF RequestNetwork
  <2>2. MovesLawfully(h)
    BY <2>1 DEF MovesLawfully, NewRequest, P!Requested, P!State
  <2> QED
    BY <2>1, <2>2, ExpiryIsLawful
<1>7. CASE Reconcile
  BY <1>7, ExpiryIsLawful DEF Reconcile
<1>8. CASE grant' = grant
  BY <1>8 DEF MovesLawfully
<1> QED
  BY <1>1, <1>2, <1>3, <1>4, <1>5, <1>6, <1>7, <1>8
     DEF Next, Local, MemberStep, AdminStep, EnrollDevice, ConsumePack, CheckOffering, RequestFails,
         OpenReview, SaveTarget, SetService, SetAudience, RecordAck, Restart, CheckAck,
         Clock, portal, desk

LEMMA TimeForward == IInv /\ Next => now' >= now
<1> SUFFICES ASSUME IInv, Next PROVE now' >= now
  OBVIOUS
<1>1. now \in Nat /\ (now' = now \/ now' = now + 1)
  BY DEF IInv, TypeOK, Next, Local, MemberStep, AdminStep, EnrollDevice, RevokeDevice, ConsumePack,
         CheckOffering, RequestNetwork, RequestFails, CreatePack, OpenReview, Approve, Withdraw,
         SaveTarget, SetService, SetAudience, SetMember, Reconcile, RecordAck, Restart, CheckAck, Clock
<1> QED
  BY <1>1

(* PermissionLifecycle: the desk implements Permission; whichever handlers run,
   requests are approved once, on frozen terms, and never come back. *)
THEOREM LifecycleImplemented == Spec => PermissionLifecycle
<1>1. Init => P!Init
  BY DEF Init, P!Init
<1>2. IInv /\ [Next]_vars => [P!Next]_(P!vars)
  <2>1. IInv /\ Next => P!Next
    BY StepIsLawful, TimeForward DEF MovesLawfully, P!Next
  <2>2. UNCHANGED vars => UNCHANGED P!vars
    BY DEF vars, portal, desk, P!vars
  <2> QED
    BY <2>1, <2>2
<1> QED
  BY <1>1, <1>2, Invariance, PTL DEF Spec, PermissionLifecycle, P!Spec

-----------------------------------------------------------------------------
(* PolicyServable is not inductive: a service that returns from hidden brings
   rules back.  Capacity, which counts them while they are hidden, is. *)
Capacity == Cardinality(Unexpired) <= MaxActive

LEMMA UnexpiredIsFinite == IsFiniteSet(Unexpired) /\ Cardinality(Unexpired) \in Nat
  BY FiniteAssumption, FS_Subset, FS_CardinalityType DEF Unexpired

LEMMA Fewer ==
    ASSUME Capacity, Unexpired' \subseteq Unexpired
    PROVE  Capacity'
<1>1. /\ IsFiniteSet(Unexpired') /\ Cardinality(Unexpired') \in Nat
      /\ Cardinality(Unexpired') <= Cardinality(Unexpired)
  BY UnexpiredIsFinite, FS_Subset, FS_CardinalityType
<1> QED
  BY <1>1, UnexpiredIsFinite, LimitAssumption DEF Capacity

(* Only an approval of the desk adds an unexpired one, and it counts them first. *)
LEMMA CapacityStep == IInv /\ Capacity /\ Next => Capacity'
<1> SUFFICES ASSUME IInv, Capacity, Next PROVE Capacity'
  OBVIOUS
<1> USE ColumnAssumption, LimitAssumption DEF IInv
<1>1. ASSUME NEW g \in Grant, NEW e \in 1..(MaxTime + MaxLife), Approve(g, e) PROVE Capacity'
  <2>1. Unexpired' \subseteq Unexpired \cup {g}
    BY <1>1 DEF Approve, Unexpired, TypeOK
  <2>2. /\ IsFiniteSet(Unexpired \cup {g})
        /\ Cardinality(Unexpired \cup {g}) \in Nat
        /\ Cardinality(Unexpired \cup {g}) <= Cardinality(Unexpired) + 1
    <3>1. /\ IsFiniteSet(Unexpired \cup {g})
          /\ Cardinality(Unexpired \cup {g}) =
                IF g \in Unexpired THEN Cardinality(Unexpired) ELSE Cardinality(Unexpired) + 1
      BY UnexpiredIsFinite, FS_AddElement, Zenon
    <3> QED
      BY <3>1, UnexpiredIsFinite
  <2>3. Cardinality(Unexpired') \in Nat /\ Cardinality(Unexpired') <= Cardinality(Unexpired \cup {g})
    BY <2>1, <2>2, FS_Subset, FS_CardinalityType
  <2>4. Cardinality(Unexpired) < MaxActive
    BY <1>1 DEF Approve
  <2> QED
    BY <2>2, <2>3, <2>4, UnexpiredIsFinite DEF Capacity
<1>2. ASSUME \A g \in Grant : grant'[g].state = "Approved" => grant'[g] = grant[g],
             now \in Nat, now' \in Nat, now' >= now
      PROVE  Capacity'
  <2>1. Unexpired' \subseteq Unexpired
    BY <1>2 DEF Unexpired, TypeOK
  <2> QED
    BY <2>1, Fewer
<1>3. now \in Nat /\ now' \in Nat /\ now' >= now
  BY TypeStep, TimeForward DEF TypeOK
<1>4. CASE \E g \in Grant, e \in 1..(MaxTime + MaxLife) : Approve(g, e)
  BY <1>1, <1>4
<1>5. CASE ~ \E g \in Grant, e \in 1..(MaxTime + MaxLife) : Approve(g, e)
  <2>1. \A g \in Grant : MovesLawfully(g)
    BY StepIsLawful
  <2>2. ASSUME NEW g \in Grant, grant'[g].state = "Approved", grant'[g] # grant[g]
        PROVE  P!Approved(g)
    BY <2>1, <2>2 DEF MovesLawfully, P!Requested, P!Denied, P!Revoked, P!Expired, P!Moves
  <2>3. ASSUME NEW g \in Grant, P!Approved(g) PROVE FALSE
    <3>1. grant[g].state = "Pending" /\ grant'[g].state = "Approved"
      BY <2>3 DEF P!Approved, P!State, P!Moves
    <3> QED
      BY <1>5, <3>1, OnlyApproveApproves
  <2> QED
    BY <1>2, <1>3, <2>2, <2>3
<1> QED
  BY <1>4, <1>5

(* A policy is an image of some of the unexpired approvals. *)
LEMMA CapacityServes == Capacity => PolicyServable
<1> DEFINE S == {g \in Grant : InPolicy(g)}
           f == [g \in S |-> RuleOf(g)]
<1>1. S \subseteq Unexpired
  BY DEF InPolicy, Unexpired
<1>2. IsFiniteSet(S) /\ Cardinality(S) \in Nat /\ Cardinality(S) <= Cardinality(Unexpired)
  BY <1>1, UnexpiredIsFinite, FS_Subset, FS_CardinalityType
<1>3. f \in Surjection(S, Snapshot)
  BY DEF Snapshot, Surjection
<1>4. IsFiniteSet(Snapshot) /\ Cardinality(Snapshot) <= Cardinality(S)
  BY <1>2, <1>3, FS_Surjection
<1>5. Cardinality(Snapshot) \in Nat
  BY <1>4, FS_CardinalityType
<1> QED
  BY <1>2, <1>4, <1>5, UnexpiredIsFinite, LimitAssumption DEF Capacity, PolicyServable

(* PolicyServable: whatever comes back from hidden or disabled, the gateway is
   never handed a policy it refuses for its size. *)
THEOREM PolicyFits == Spec => []PolicyServable
<1>1. Init => Capacity
  <2>1. Init => Unexpired = {}
    BY DEF Init, Unexpired
  <2> QED
    BY <2>1, FS_EmptySet, LimitAssumption DEF Capacity
<1>2. IInv /\ Capacity /\ [Next]_vars => Capacity'
  <2>1. UNCHANGED vars /\ Capacity => Capacity'
    BY DEF vars, portal, desk, Capacity, Unexpired
  <2> QED
    BY <2>1, CapacityStep
<1> QED
  BY <1>1, <1>2, CapacityServes, Invariance, PTL DEF Spec

=============================================================================
