---------------------------- MODULE DeviceAccess ----------------------------
(***************************************************************************)
(* The portal's device and network-permission desk (internal/portal/vpn.go *)
(* and packs.go, and the parts of saveMember, saveService, destroyService  *)
(* and Reconcile that write its tables).                                   *)
(*                                                                         *)
(* Store.Write runs each change as one transaction on the only connection, *)
(* so a transaction is one action.  What a handler reads before its        *)
(* transaction is an action of its own: CheckOffering, OpenReview,         *)
(* CheckAck.  A form that carries the version of a single row does nothing *)
(* when the row has changed; only the accepted call is an action.          *)
(*                                                                         *)
(* Rows are never deleted, and the columns that no statement updates are   *)
(* constants: who owns a device row, which device and destination a        *)
(* request names, which service a destination belongs to.                  *)
(***************************************************************************)
EXTENDS Naturals, FiniteSets

CONSTANTS Member, Service, Target, Device, Grant,  \* identities of the rows
          Admin,       \* the members who are administrators
          Audience,    \* sets of members that settings of a service can admit
          Dest,        \* what a destination can be: CIDR, protocol and ports
          OwnerOf, DeviceOf, TargetOf, ServiceOf,  \* columns never updated
          NoRule,      \* makes up NoPolicy, the revision no policy has
          None,        \* no row, form or call
          MaxDevices,  \* current devices per member (10)
          MaxActive,   \* rules a policy may hold (1024)
          PackLife,    \* life of an undelivered pack (30 days)
          MaxLife,     \* longest approval (365 days)
          Fresh,       \* age at which an acknowledgment goes stale (20 s)
          MaxTime, MaxTargetVersion  \* bounds on the clock and on edits

ASSUME ColumnAssumption ==
    /\ Admin \subseteq Member /\ Audience \subseteq SUBSET Member
    /\ OwnerOf \in [Device -> Member] /\ ServiceOf \in [Target -> Service]
    /\ DeviceOf \in [Grant -> Device] /\ TargetOf \in [Grant -> Target]
ASSUME LimitAssumption ==
    /\ MaxDevices \in Nat /\ MaxActive \in Nat /\ PackLife \in Nat /\ MaxLife \in Nat
    /\ Fresh \in Nat /\ MaxTime \in Nat /\ MaxTargetVersion \in Nat
ASSUME FiniteAssumption == IsFiniteSet(Grant) /\ IsFiniteSet(Device)
ASSUME NoneAssumption == None \notin Grant /\ None \notin Dest /\ None \notin Device

VARIABLES
    now,       \* wall clock
    enabled,   \* users.enabled
    live,      \* services: published, hidden or archived
    audience,  \* services: the members its audience and category admit
    target,    \* vpn_targets rows; version 0 before the insert
    device,    \* vpn_devices.state; "none" before the insert
    grant,     \* vpn_grants rows; state "none" before the insert
    trail,     \* the last state vpn_history records of a grant
    delivery,  \* vpn_deliveries rows; state "none" before the insert
    status,    \* the one vpn_status row
    call,      \* a RequestNetwork that passed its checks and has not written
    review,    \* the decision form an administrator has open
    ack        \* an acknowledgment that passed the check and is not recorded

desk == <<enabled, live, audience, target, device, grant, trail, delivery>>
portal == <<desk, status, call, review, ack>>
vars == <<now, portal>>

GrantState == {"none", "Pending", "Approved", "Denied", "Revoked", "Expired"}
NoPolicy == {NoRule}

-----------------------------------------------------------------------------
Open(g) == grant[g].state \in {"Pending", "Approved"}
Current(d) == device[d] \in {"requested", "approved"}
DevicesOf(m) == {d \in Device : OwnerOf[d] = m}
OwnerEnabled(d) == enabled[OwnerOf[d]]
Published(t) == live[ServiceOf[t]] = "published"
(* packServiceAllowed, and discover, which shows administrators everything. *)
Visible(m, t) == Published(t) /\ m \in Admin \cup audience[ServiceOf[t]]
Discovers(m, t) == m \in Admin \/ Visible(m, t)

(* vpnSnapshot: the rules the gateway is to enforce; its hash is the revision. *)
InPolicy(g) ==
    /\ grant[g].state = "Approved" /\ grant[g].expires > now
    /\ device[DeviceOf[g]] = "approved" /\ OwnerEnabled(DeviceOf[g])
    /\ target[TargetOf[g]].enabled /\ Published(TargetOf[g])
RuleOf(g) == [grant |-> g, device |-> DeviceOf[g],
            dest |-> grant[g].dest, expires |-> grant[g].expires]
Snapshot == {RuleOf(g) : g \in {h \in Grant : InPolicy(h)}}

(* expireVPN: approvals whose time is over, packs that may not be delivered. *)
Lapsed(g) == grant[g].state = "Approved" /\ grant[g].expires <= now
Moved(g, s) == [grant[g] EXCEPT !.state = s, !.version = @ + 1]
ExpiredGrants == [g \in Grant |-> IF Lapsed(g) THEN Moved(g, "Expired") ELSE grant[g]]
ExpiredTrail_NotWritten == trail
ExpiredTrail == [g \in Grant |-> IF Lapsed(g) THEN "Expired" ELSE trail[g]]
Erased(D) == [d \in Device |->
    IF d \in D /\ delivery[d].state = "sealed"
    THEN [delivery[d] EXCEPT !.state = "erased"] ELSE delivery[d]]
ExpiredDeliveries_RetiredOnly ==
    Erased({d \in Device : device[d] = "revoked" \/ ~OwnerEnabled(d)})
ExpiredDeliveries ==
    Erased({d \in Device : delivery[d].expires <= now \/ device[d] = "revoked" \/ ~OwnerEnabled(d)})

(* Devices D are revoked with their open requests and undelivered packs. *)
EndedBy_ApprovedOnly(g, D) == DeviceOf[g] \in D /\ grant[g].state = "Approved"
EndedBy(g, D) == DeviceOf[g] \in D /\ Open(g)
RevokedGrants(D) == [g \in Grant |-> IF EndedBy(g, D) THEN Moved(g, "Revoked") ELSE grant[g]]
RevokedTrail(D) == [g \in Grant |-> IF EndedBy(g, D) THEN "Revoked" ELSE trail[g]]
RevokedDevices_Capital(D) ==
    [d \in Device |-> IF d \in D /\ Current(d) THEN "Revoked" ELSE device[d]]
RevokedDevices(D) == [d \in Device |-> IF d \in D /\ Current(d) THEN "revoked" ELSE device[d]]

Init ==
    /\ now = 0 /\ enabled = [m \in Member |-> TRUE]
    /\ live = [s \in Service |-> "published"] /\ audience = [s \in Service |-> Member]
    /\ target = [t \in Target |-> [enabled |-> FALSE, version |-> 0, dest |-> None]]
    /\ device = [d \in Device |-> "none"]
    /\ grant = [g \in Grant |-> [state |-> "none", version |-> 0, dest |-> None, expires |-> 0]]
    /\ trail = [g \in Grant |-> "none"]
    /\ delivery = [d \in Device |-> [state |-> "none", expires |-> 0]]
    /\ status = [revision |-> NoPolicy, seen |-> 0]
    /\ call = None /\ review = None /\ ack = None

-----------------------------------------------------------------------------
(* enrollDevice: the row, and with it the next address of the pool. *)
Enrollable(d, devices) ==
    /\ OwnerEnabled(d) /\ devices[d] = "none"
    /\ Cardinality({c \in DevicesOf(OwnerOf[d]) : devices[c] # "none" /\ devices[c] # "revoked"}) < MaxDevices
EnrollDevice(d) ==
    /\ Enrollable(d, device) /\ device' = [device EXCEPT ![d] = "requested"]
    /\ UNCHANGED <<now, enabled, live, audience, target, grant, trail, delivery, status, call, review, ack>>

(* RequestNetwork looks at destination and service before its transaction... *)
CheckOffering(g) ==
    LET m == OwnerOf[DeviceOf[g]] IN
    /\ call = None /\ grant[g].state = "none"
    /\ enabled[m] /\ target[TargetOf[g]].enabled /\ Discovers(m, TargetOf[g])
    /\ call' = g
    /\ UNCHANGED <<now, desk, status, review, ack>>

NewRequest == [state |-> "Pending", version |-> 1, dest |-> None, expires |-> 0]
(* The partial unique index vpn_active_grant. *)
NoTwin(g, grants) ==
    \A h \in Grant \ {g} :
        DeviceOf[h] = DeviceOf[g] /\ TargetOf[h] = TargetOf[g]
            => grants[h].state \notin {"Pending", "Approved"}
(* ...and only at device and owner inside it. *)
RequestNetwork ==
    \E g \in Grant :
        /\ call = g /\ call' = None
        /\ Current(DeviceOf[g]) /\ OwnerEnabled(DeviceOf[g])
        /\ grant[g].state = "none" /\ NoTwin(g, ExpiredGrants)
        /\ grant' = [ExpiredGrants EXCEPT ![g] = NewRequest]
        /\ trail' = [ExpiredTrail EXCEPT ![g] = "Pending"]
        /\ delivery' = ExpiredDeliveries
        /\ UNCHANGED <<now, enabled, live, audience, target, device, status, review, ack>>
RequestFails == call # None /\ call' = None /\ UNCHANGED <<now, desk, status, review, ack>>

(* The administrator's page shows a request with its destination as it now is. *)
OpenReview(g) ==
    LET t == target[TargetOf[g]] IN
    /\ grant[g].state = "Pending"
    /\ review' = [grant |-> g, version |-> grant[g].version, targetVersion |-> t.version, dest |-> t.dest]
    /\ UNCHANGED <<now, desk, status, call, ack>>

Reviewed(g) == review # None /\ review.grant = g
Unchanged_GrantOnly(g) == review.version = grant[g].version
Unchanged(g) ==
    /\ review.version = grant[g].version
    /\ review.targetVersion = target[TargetOf[g]].version
Approvable(g) ==
    /\ enabled[OwnerOf[DeviceOf[g]]] /\ Published(TargetOf[g])
    /\ target[TargetOf[g]].enabled /\ device[DeviceOf[g]] # "revoked"
Unexpired_InPolicy == {h \in Grant : InPolicy(h)}
Unexpired == {h \in Grant : grant[h].state = "Approved" /\ grant[h].expires > now}
(* DecideNetwork, decision Approved: the form may be posted late, or twice.  The
   expiry was checked before the transaction; the clock may have reached it. *)
Approve(g, expires) ==
    /\ Reviewed(g) /\ Unchanged(g) /\ grant[g].state = "Pending"
    /\ expires >= now /\ expires <= now + MaxLife
    /\ Cardinality(Unexpired) < MaxActive /\ Approvable(g)
    /\ device' = [device EXCEPT ![DeviceOf[g]] = "approved"]
    /\ grant' = [grant EXCEPT ![g] = [state |-> "Approved", version |-> @.version + 1,
                                      dest |-> target[TargetOf[g]].dest, expires |-> expires]]
    /\ trail' = [trail EXCEPT ![g] = "Approved"]
    /\ UNCHANGED <<now, enabled, live, audience, target, delivery, status, call, review, ack>>

(* DecideNetwork, decisions Denied and Revoked: the snapshot is cleared. *)
Decision_FromAnyOpen(old, new) == old \in {"Pending", "Approved"} /\ new \in {"Denied", "Revoked"}
Decision(old, new) == <<old, new>> \in {<<"Pending", "Denied">>, <<"Approved", "Revoked">>}
Withdraw(g, s) ==
    /\ Decision(grant[g].state, s)
    /\ grant' = [grant EXCEPT ![g] = [state |-> s, version |-> @.version + 1, dest |-> None, expires |-> 0]]
    /\ trail' = [trail EXCEPT ![g] = s]
    /\ UNCHANGED <<now, enabled, live, audience, target, device, delivery, status, call, review, ack>>

(* RevokeDevice, by its owner or by an administrator. *)
RevokeDevice(d) ==
    /\ Current(d)
    /\ device' = RevokedDevices({d}) /\ grant' = RevokedGrants({d})
    /\ trail' = RevokedTrail({d}) /\ delivery' = Erased({d})
    /\ UNCHANGED <<now, enabled, live, audience, target, status, call, review, ack>>

(* SaveNetworkTarget inserts or edits; approved grants keep their own snapshot. *)
SaveTarget_FollowedByGrants(t, on, x) ==
    /\ live[ServiceOf[t]] # "archived" /\ target[t].version < MaxTargetVersion
    /\ target' = [target EXCEPT ![t] = [enabled |-> on, version |-> @.version + 1, dest |-> x]]
    /\ grant' = [g \in Grant |-> IF TargetOf[g] = t /\ grant[g].state = "Approved"
                                 THEN [grant[g] EXCEPT !.dest = x] ELSE grant[g]]
    /\ UNCHANGED <<now, enabled, live, audience, device, trail, delivery, status, call, review, ack>>
SaveTarget(t, on, x) ==
    /\ live[ServiceOf[t]] # "archived" /\ target[t].version < MaxTargetVersion
    /\ target' = [target EXCEPT ![t] = [enabled |-> on, version |-> @.version + 1, dest |-> x]]
    /\ UNCHANGED <<now, enabled, live, audience, device, grant, trail, delivery, status, call, review, ack>>

(* saveService and destroyService: archiving is final. *)
SetService(s, l) ==
    /\ live[s] # "archived" /\ live' = [live EXCEPT ![s] = l]
    /\ UNCHANGED <<now, enabled, audience, target, device, grant, trail, delivery, status, call, review, ack>>
(* Edits of audience, category and access records change who sees a service. *)
SetAudience(s, A) ==
    /\ audience' = [audience EXCEPT ![s] = A]
    /\ UNCHANGED <<now, enabled, live, target, device, grant, trail, delivery, status, call, review, ack>>

(* saveMember: disabling retires every device of the member for good. *)
SetMember(m, on) ==
    LET D == IF on THEN {} ELSE DevicesOf(m) IN
    /\ enabled' = [enabled EXCEPT ![m] = on]
    /\ device' = RevokedDevices(D) /\ grant' = RevokedGrants(D)
    /\ trail' = RevokedTrail(D) /\ delivery' = Erased(D)
    /\ UNCHANGED <<now, live, audience, target, status, call, review, ack>>

(* createPackDevice: retire the replaced device, enroll the new one, seal its
   key and submit its request, or do none of it. *)
CreatePack(g, replaced) ==
    LET d == DeviceOf[g] IN
    /\ OwnerEnabled(d) /\ target[TargetOf[g]].enabled /\ Visible(OwnerOf[d], TargetOf[g])
    /\ \A old \in replaced : Current(old) /\ OwnerOf[old] = OwnerOf[d]
    /\ grant[g].state = "none" /\ Enrollable(d, RevokedDevices(replaced))
    /\ device' = [RevokedDevices(replaced) EXCEPT ![d] = "requested"]
    /\ grant' = [RevokedGrants(replaced) EXCEPT ![g] = NewRequest]
    /\ trail' = [RevokedTrail(replaced) EXCEPT ![g] = "Pending"]
    /\ delivery' = [Erased(replaced) EXCEPT ![d] = [state |-> "sealed", expires |-> now + PackLife]]
    /\ UNCHANGED <<now, enabled, live, audience, target, status, call, review, ack>>

Deliverable(d) == delivery[d].state = "sealed" /\ delivery[d].expires > now /\ device[d] = "approved"
Confirmed == status.revision = Snapshot /\ now - status.seen <= Fresh
(* consumePack: the download of the one copy of the device's key. *)
ConsumePack(d) ==
    /\ OwnerEnabled(d) /\ Deliverable(d) /\ Confirmed
    /\ \E g \in Grant : DeviceOf[g] = d /\ InPolicy(g) /\ Visible(OwnerOf[d], TargetOf[g])
    /\ delivery' = [delivery EXCEPT ![d].state = "consumed"]
    /\ UNCHANGED <<now, enabled, live, audience, target, device, grant, trail, status, call, review, ack>>

(* Reconcile, once a minute, and the first thing a started portal does. *)
Reconcile ==
    /\ grant' = ExpiredGrants /\ trail' = ExpiredTrail /\ delivery' = ExpiredDeliveries
    /\ UNCHANGED <<now, enabled, live, audience, target, device, status, call, review, ack>>

(* POST /v1/applied compares the revision outside the transaction... *)
CheckAck(revision) ==
    /\ ack = None /\ revision = Snapshot /\ ack' = [revision |-> revision]
    /\ UNCHANGED <<now, desk, status, call, review>>
(* ...that records it. *)
RecordAck_CurrentPolicy ==
    /\ ack # None /\ ack' = None
    /\ status' = [revision |-> Snapshot, seen |-> now]
    /\ UNCHANGED <<now, desk, call, review>>
RecordAck ==
    /\ ack # None /\ ack' = None
    /\ status' = [revision |-> ack.revision, seen |-> now]
    /\ UNCHANGED <<now, desk, call, review>>

(* The portal process restarts: calls in progress are gone, the tables stay. *)
Restart == call' = None /\ ack' = None /\ UNCHANGED <<now, desk, status, review>>

Clock == now < MaxTime /\ now' = now + 1 /\ UNCHANGED portal

-----------------------------------------------------------------------------
MemberStep ==
    \/ \E d \in Device : EnrollDevice(d) \/ RevokeDevice(d) \/ ConsumePack(d)
    \/ \E g \in Grant : CheckOffering(g)
    \/ RequestNetwork \/ RequestFails
    \/ \E g \in Grant, replaced \in {{}} \cup {{d} : d \in Device} : CreatePack(g, replaced)
AdminStep ==
    \/ \E g \in Grant : OpenReview(g)
    \/ \E g \in Grant, e \in 1..(MaxTime + MaxLife) : Approve(g, e)
    \/ \E g \in Grant, s \in {"Denied", "Revoked"} : Withdraw(g, s)
    \/ \E t \in Target, on \in BOOLEAN, x \in Dest : SaveTarget(t, on, x)
    \/ \E s \in Service, l \in {"published", "hidden", "archived"} : SetService(s, l)
    \/ \E s \in Service, A \in Audience : SetAudience(s, A)
    \/ \E m \in Member, on \in BOOLEAN : SetMember(m, on)
Local == MemberStep \/ AdminStep \/ Reconcile \/ RecordAck \/ Restart

Next == Local \/ CheckAck(Snapshot) \/ Clock

Spec == Init /\ [][Next]_vars

-----------------------------------------------------------------------------
TypeOK ==
    /\ now \in Nat
    /\ enabled \in [Member -> BOOLEAN]
    /\ live \in [Service -> {"published", "hidden", "archived"}]
    /\ audience \in [Service -> SUBSET Member]
    /\ target \in [Target -> [enabled : BOOLEAN, version : Nat, dest : Dest \cup {None}]]
    /\ device \in [Device -> {"none", "requested", "approved", "revoked"}]
    /\ grant \in [Grant -> [state : GrantState, version : Nat, dest : Dest \cup {None}, expires : Nat]]
    /\ trail \in [Grant -> GrantState]
    /\ delivery \in [Device -> [state : {"none", "sealed", "erased", "consumed"}, expires : Nat]]
    /\ status.seen \in 0..now
    /\ call \in Grant \cup {None}

(* Whatever was in progress when a device was revoked or its owner disabled, a
   retired device keeps no open request and no undelivered key, and a disabled
   member has no current device (admin.go:714-726, vpn.go:368-386, packs.go:139-156). *)
RetiredHoldNothing ==
    \A d \in Device :
        /\ Current(d) => OwnerEnabled(d)
        /\ device[d] = "revoked" => delivery[d].state # "sealed"
                                   /\ \A g \in Grant : DeviceOf[g] = d => ~Open(g)

(* The last entry of the permission history is the permission's state, through
   every handler that moves one or many of them at once (vpn.go:169-185, 347-359,
   378, packs.go:145, admin.go:718). *)
HistoryIsComplete == \A g \in Grant : trail[g] = grant[g].state

(* No sequence of approvals, expiries and returns of hidden services or disabled
   destinations makes a policy too large to serve: Validate would refuse it and
   the gateway could learn of no revocation any more (vpn.go:326-333, policy.go:119). *)
PolicyServable == Cardinality(Snapshot) <= MaxActive

(* An administrator approves the destination the form showed, even when the
   destination is edited, or the form posted again, in between (vpn.go:315-340). *)
ApprovedAsReviewed ==
    [][\A g \in Grant :
        grant[g].state # "Approved" /\ grant'[g].state = "Approved"
            => review.grant = g /\ grant'[g].dest = review.dest]_vars

(* Requests and permissions obey the documented lifecycle, with terms frozen at
   approval, under every handler that touches them (docs/vpn.md:43). *)
P == INSTANCE Permission WITH permission <- grant
PermissionLifecycle == P!Spec

(* Again and again nothing is overdue: approvals whose time is over get recorded
   as expired, and the keys of packs whose time is over leave the database,
   without anyone's call (vpn.go:169-185). *)
LapseIsRecorded ==
    []<>(/\ \A g \in Grant : Lapsed(g) => grant[g].state # "Approved"
         /\ \A d \in Device : delivery[d].state = "sealed" => delivery[d].expires > now)

=============================================================================
