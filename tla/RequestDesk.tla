----------------------------- MODULE RequestDesk -----------------------------
(***************************************************************************)
(* Requests, the access records they lead to, and the follow-ups that      *)
(* remind an administrator to remove external permissions                  *)
(* (internal/portal/requests.go and the handlers of admin.go that write    *)
(* these tables).                                                          *)
(*                                                                         *)
(* Reply and Transition work in three moments: a page shows a version of   *)
(* the request, the posted handler reads the request, and a transaction    *)
(* writes it.  Any number of such calls are in progress; each one is a     *)
(* member of Call.  Everything else reads and writes in one transaction.   *)
(***************************************************************************)
EXTENDS Naturals

CONSTANTS Member, Service, Request,  \* identities of the rows
          UserOf, ServiceOf, KindOf, \* columns of a request, never updated
          Call,                      \* calls that can be in progress at a time
          None,                      \* no end date
          EndDates,                  \* the end dates administrators choose from
          MaxTime, MaxVersion        \* bounds on the clock and on a request's edits

ASSUME ColumnAssumption ==
    /\ UserOf \in [Request -> Member] /\ ServiceOf \in [Request -> Service]
    /\ KindOf \in [Request -> {"access", "support"}]
ASSUME BoundAssumption == MaxTime \in Nat /\ MaxVersion \in Nat
ASSUME EndDateAssumption == None \notin Nat /\ EndDates \subseteq Nat \cup {None}

VARIABLES
    now,       \* wall clock
    enabled,   \* users.enabled
    live,      \* services: published, hidden or archived
    request,   \* requests rows; state "none" before the insert
    log,       \* the last row of transitions for a request
    access,    \* access_records, one per member and service
    ledger,    \* the last state access_history records
    followup,  \* followups of an access record: none, open or completed
    owed,      \* history: access ended and nobody has confirmed its removal since
    call       \* Reply and Transition calls in progress

tables == <<enabled, live, request, log, access, ledger, followup>>
vars == <<now, tables, owed, call>>

AccessState == {"Pending", "Needs Information", "Approved", "Fulfilled", "Denied", "Cancelled"}
SupportState == {"Open", "Waiting for Member", "Resolved", "Cancelled"}
State == AccessState \cup SupportState
Holding == Member \X Service

-----------------------------------------------------------------------------
(* "Approved" is short for the code's "Approved - Setup Pending". *)
Active(state) == state \in {"Pending", "Needs Information", "Approved", "Open", "Waiting for Member"}

(* actions: where a member, and where an administrator may move a request. *)
Review ==
    ({"Pending"} \X {"Needs Information", "Approved", "Denied"})
    \cup ({"Needs Information"} \X {"Pending", "Approved", "Denied"})
    \cup ({"Approved"} \X {"Needs Information", "Fulfilled", "Denied"})
    \cup ({"Open"} \X {"Waiting for Member", "Resolved"})
    \cup ({"Waiting for Member"} \X {"Open", "Resolved"})
Targets(state, admin) ==
    {t \in State : Active(state) /\ (t = "Cancelled" \/ (admin /\ <<state, t>> \in Review))}

(* Where a member's reply moves a request. *)
Answered(state) ==
    CASE state = "Needs Information" -> "Pending"
      [] state = "Waiting for Member" -> "Open"
      [] OTHER -> state

Idle == [step |-> "idle"]
Key(r) == <<UserOf[r], ServiceOf[r]>>
(* Checked before the transaction; the clock may reach the date meanwhile. *)
NotPast(e) == e # None => e >= now
Grantable_PublishedOnly(k) == live[k[2]] = "published"
Grantable(k) == enabled[k[1]] /\ live[k[2]] = "published"

Granted(k, e) == [access EXCEPT ![k] = [state |-> "active", expires |-> e, version |-> @.version + 1]]
(* Access records K end in state s: expired or revoked. *)
EndedAccess(K, s) ==
    [k \in Holding |-> IF k \in K THEN [access[k] EXCEPT !.state = s, !.version = @ + 1] ELSE access[k]]
EndedLedger_Expired(K, s) ==
    [k \in Holding |-> IF k \in K /\ s = "expired" THEN s ELSE ledger[k]]
EndedLedger(K, s) == [k \in Holding |-> IF k \in K THEN s ELSE ledger[k]]
Reminded_NotTwice(K) == [k \in Holding |-> IF k \in K /\ followup[k] = "none" THEN "open" ELSE followup[k]]
(* INSERT OR IGNORE: a follow-up still open stands for the new end, too. *)
Reminded(K) == [k \in Holding |-> IF k \in K THEN "open" ELSE followup[k]]
EndAll(K, s) ==
    /\ access' = EndedAccess(K, s) /\ ledger' = EndedLedger(K, s) /\ followup' = Reminded(K)
    /\ owed' = [k \in Holding |-> owed[k] \/ k \in K]
ActiveOf(m) == {k \in Holding : k[1] = m /\ access[k].state = "active"}
Lapsed(k) == access[k].state = "active" /\ access[k].expires # None /\ access[k].expires <= now

Init ==
    /\ now = 0 /\ enabled = [m \in Member |-> TRUE] /\ live = [s \in Service |-> "published"]
    /\ request = [r \in Request |-> [state |-> "none", version |-> 0]]
    /\ log = [r \in Request |-> [from |-> "none", to |-> "none"]]
    /\ access = [k \in Holding |-> [state |-> "none", expires |-> None, version |-> 0]]
    /\ ledger = [k \in Holding |-> "none"] /\ followup = [k \in Holding |-> "none"]
    /\ owed = [k \in Holding |-> FALSE] /\ call = [c \in Call |-> Idle]

-----------------------------------------------------------------------------
(* Submit: what it checks before its transaction (who sees the service, access
   already held) decides only whether it is tried at all. *)
FirstState_Pending(r) == "Pending"
FirstState(r) == IF KindOf[r] = "access" THEN "Pending" ELSE "Open"
OneActive(r) ==  \* the partial unique index one_active_request
    KindOf[r] = "access" =>
        \A q \in Request \ {r} : KindOf[q] = "access" /\ Key(q) = Key(r) => ~Active(request[q].state)
Submit(r) ==
    /\ request[r].state = "none" /\ live[ServiceOf[r]] = "published" /\ OneActive(r)
    /\ request' = [request EXCEPT ![r] = [state |-> FirstState(r), version |-> 1]]
    /\ log' = [log EXCEPT ![r] = [from |-> "", to |-> FirstState(r)]]
    /\ UNCHANGED <<now, enabled, live, access, ledger, followup, owed, call>>

(* A page with the request and its version; a stale one can be posted. *)
OpenPage(c, r, admin) ==
    /\ call[c] = Idle /\ request[r].state # "none"
    /\ call' = [call EXCEPT ![c] = [step |-> "page", request |-> r, admin |-> admin,
                                    version |-> request[r].version]]
    /\ UNCHANGED <<now, tables, owed>>

(* The handler reads the request and checks what it read. *)
Posted(c, step, target) ==
    LET r == call[c].request IN
    call' = [call EXCEPT ![c] = [step |-> step, request |-> r, admin |-> @.admin, version |-> @.version,
                                 read |-> request[r].state, target |-> target]]
PostReply(c) ==
    /\ call[c].step = "page" /\ Active(request[call[c].request].state)
    /\ Posted(c, "reply", "none") /\ UNCHANGED <<now, tables, owed>>
PostNote(c) ==
    /\ call[c].step = "page" /\ call[c].admin
    /\ Posted(c, "note", "none") /\ UNCHANGED <<now, tables, owed>>
PostTransition(c, target) ==
    LET r == call[c].request IN
    /\ call[c].step = "page" /\ target \in Targets(request[r].state, call[c].admin)
    /\ Posted(c, "transition", target) /\ UNCHANGED <<now, tables, owed>>

SameVersion_AnyVersion(c) == request[call[c].request].version >= call[c].version
SameVersion(c) == request[call[c].request].version = call[c].version
Done(c) == call' = [call EXCEPT ![c] = Idle]
Logged_OldStart(r, from, to) == [log EXCEPT ![r].to = to]
Logged(r, from, to) == [log EXCEPT ![r] = [from |-> from, to |-> to]]
Edited(r, s) == [request EXCEPT ![r] = [state |-> s, version |-> @.version + 1]]
WithinBound(c) == call[c].version < MaxVersion

(* Reply's transaction trusts the state read before it. *)
CommitReply(c) ==
    LET r == call[c].request
        moved == ~call[c].admin /\ Answered(call[c].read) # call[c].read
        s == IF moved THEN Answered(call[c].read) ELSE request[r].state IN
    /\ call[c].step = "reply" /\ WithinBound(c) /\ SameVersion(c) /\ Done(c)
    /\ request' = Edited(r, s)
    /\ log' = IF moved THEN Logged(r, call[c].read, s) ELSE log
    /\ UNCHANGED <<now, enabled, live, access, ledger, followup, owed>>
CommitNote(c) ==
    /\ call[c].step = "note" /\ WithinBound(c) /\ SameVersion(c) /\ Done(c)
    /\ request' = Edited(call[c].request, request[call[c].request].state)
    /\ UNCHANGED <<now, enabled, live, log, access, ledger, followup, owed>>

CommitTransition(c) ==
    LET r == call[c].request  target == call[c].target IN
    /\ call[c].step = "transition" /\ WithinBound(c)
    /\ SameVersion(c) /\ request[r].state = call[c].read /\ Done(c)
    /\ request' = Edited(r, target)
    /\ log' = Logged(r, call[c].read, target)
    /\ IF target = "Fulfilled"
       THEN /\ Grantable(Key(r))
            /\ \E e \in EndDates : NotPast(e) /\ access' = Granted(Key(r), e)
            /\ ledger' = [ledger EXCEPT ![Key(r)] = "active"]
       ELSE UNCHANGED <<access, ledger>>
    /\ UNCHANGED <<now, enabled, live, followup, owed>>

(* A check failed, a version changed, the grant was refused: all rolled back. *)
CallFails(c) == call[c].step \in {"reply", "note", "transition"} /\ Done(c) /\ UNCHANGED <<now, tables, owed>>

-----------------------------------------------------------------------------
(* saveAccess; its forms carry the record's version, so a stale one does nothing. *)
GrantAccess(k, e) ==
    /\ access[k].version < MaxVersion /\ NotPast(e) /\ Grantable(k)
    /\ access' = Granted(k, e) /\ ledger' = [ledger EXCEPT ![k] = "active"]
    /\ UNCHANGED <<now, enabled, live, request, log, followup, owed, call>>
EndAccess(k, s) ==
    /\ access[k].state = "active" /\ EndAll({k}, s)
    /\ UNCHANGED <<now, enabled, live, request, log, call>>

(* saveMember, and the services' publication as in DeviceAccess. *)
SetMember(m, on) ==
    /\ enabled' = [enabled EXCEPT ![m] = on]
    /\ EndAll(IF on THEN {} ELSE ActiveOf(m), "revoked")
    /\ UNCHANGED <<now, live, request, log, call>>
SetService(s, l) ==
    /\ live[s] # "archived" /\ live' = [live EXCEPT ![s] = l]
    /\ UNCHANGED <<now, enabled, request, log, access, ledger, followup, owed, call>>

(* An administrator confirms the external removal. *)
CompleteFollowup(k) ==
    /\ followup[k] = "open" /\ followup' = [followup EXCEPT ![k] = "completed"]
    /\ owed' = [owed EXCEPT ![k] = FALSE]
    /\ UNCHANGED <<now, enabled, live, request, log, access, ledger, call>>

Reconcile_PublishedOnly ==
    /\ EndAll({k \in Holding : Lapsed(k) /\ live[k[2]] = "published"}, "expired")
    /\ UNCHANGED <<now, enabled, live, request, log, call>>
Reconcile ==
    /\ EndAll({k \in Holding : Lapsed(k)}, "expired")
    /\ UNCHANGED <<now, enabled, live, request, log, call>>

(* The process restarts: no call survives; pages stay open in browsers. *)
Restart ==
    /\ call' = [c \in Call |-> IF call[c].step = "page" THEN call[c] ELSE Idle]
    /\ UNCHANGED <<now, tables, owed>>

Clock == now < MaxTime /\ now' = now + 1 /\ UNCHANGED <<tables, owed, call>>

-----------------------------------------------------------------------------
CallStep(c) ==
    \/ \E r \in Request, admin \in BOOLEAN : OpenPage(c, r, admin)
    \/ PostReply(c) \/ PostNote(c) \/ \E s \in State : PostTransition(c, s)
    \/ CommitReply(c) \/ CommitNote(c) \/ CommitTransition(c) \/ CallFails(c)
AdminStep ==
    \/ \E k \in Holding, e \in EndDates : GrantAccess(k, e)
    \/ \E k \in Holding, s \in {"expired", "revoked"} : EndAccess(k, s)
    \/ \E k \in Holding : CompleteFollowup(k)
    \/ \E m \in Member, on \in BOOLEAN : SetMember(m, on)
    \/ \E s \in Service, l \in {"published", "hidden", "archived"} : SetService(s, l)

Next ==
    \/ \E r \in Request : Submit(r)
    \/ \E c \in Call : CallStep(c)
    \/ AdminStep \/ Reconcile \/ Restart \/ Clock

Spec == Init /\ [][Next]_vars
FairSpec == Spec /\ WF_vars(Reconcile)

-----------------------------------------------------------------------------
TypeOK ==
    /\ now \in Nat /\ enabled \in [Member -> BOOLEAN]
    /\ live \in [Service -> {"published", "hidden", "archived"}]
    /\ request \in [Request -> [state : State \cup {"none"}, version : Nat]]
    /\ \A r \in Request :
        request[r].state \in IF KindOf[r] = "access" THEN AccessState \cup {"none"} ELSE SupportState \cup {"none"}
    /\ access \in [Holding -> [state : {"none", "active", "expired", "revoked"},
                              expires : Nat \cup {None}, version : Nat]]
    /\ ledger \in [Holding -> {"none", "active", "expired", "revoked"}]
    /\ followup \in [Holding -> {"none", "open", "completed"}] /\ owed \in [Holding -> BOOLEAN]

(* Two administrators and a member may decide on and answer one request at once,
   each from what they read before: it still moves only along the documented
   lifecycle, a closed one never moves, and each move is logged as starting where
   the request really was (docs/operations.md:25-27; requests.go:217, 232-264, 281,
   302-313). *)
MovesAreLegal ==
    [][\A r \in Request :
        request'[r].state # request[r].state /\ request[r].state # "none" =>
            /\ request'[r].state \in Targets(request[r].state, TRUE)
            /\ log'[r].from = request[r].state]_vars

(* The last entries of the transition log and of the access history are the states
   themselves, whichever of the six handlers moved them (requests.go:199, 262, 316,
   352, 421; admin.go:736, 798). *)
LogsAreComplete ==
    /\ \A r \in Request : log[r].to = request[r].state
    /\ \A k \in Holding : ledger[k] = access[k].state

(* Access that ended, in whatever way and however often, has an open reminder to
   remove external permissions until an administrator confirms a removal made after
   the end; regranting does not dismiss it (docs/security.md:41; requests.go:413,
   admin.go:733, 790). *)
EndedAccessIsReminded == \A k \in Holding : owed[k] => followup[k] = "open"

(* A disabled member holds no access, even when a fulfillment was in progress or a
   manual grant was prepared before (requests.go:335, admin.go:733-741). *)
DisabledHoldNoAccess == \A k \in Holding : access[k].state = "active" => enabled[k[1]]

(* An end date that is over gets recorded without anybody's call (requests.go:393-425). *)
LapseIsRecorded == \A k \in Holding : Lapsed(k) ~> ~Lapsed(k)

=============================================================================
