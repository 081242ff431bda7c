-------------------------- MODULE RequestDesk_proofs --------------------------
(***************************************************************************)
(* Proofs about RequestDesk, for any number of members, services, requests *)
(* and calls in progress.  The tables need only their own facts to be      *)
(* right; that requests move legally needs ReadsAreTrue, which says what a *)
(* call in progress may still rely on of what it read.                     *)
(***************************************************************************)
EXTENDS RequestDesk, TLAPS

Page == [step : {"page"}, request : Request, admin : BOOLEAN, version : Nat]
Post == [step : {"reply", "note", "transition"}, request : Request, admin : BOOLEAN,
         version : Nat, read : State, target : State \cup {"none"}]
(* What TypeOK leaves open: the log and the calls. *)
CallsAndLogs ==
    /\ log \in [Request -> [from : State \cup {"none", ""}, to : State \cup {"none"}]]
    /\ call \in [Call -> Page \cup Post \cup {Idle}]

(* A call's version is one its request has had; while it is the current one, the
   request is in the state that was read, and the move that was checked is legal. *)
ReadIsTrue(c) ==
    LET r == call[c].request IN
    /\ call[c].step # "idle" => request[r].state # "none" /\ call[c].version <= request[r].version
    /\ call[c].step \in {"reply", "note", "transition"} =>
        /\ call[c].version = request[r].version => call[c].read = request[r].state
        /\ call[c].step = "reply" => Active(call[c].read)
        /\ call[c].step = "transition" => call[c].target \in Targets(call[c].read, call[c].admin)
ReadsAreTrue == \A c \in Call : ReadIsTrue(c)

IInv ==
    /\ TypeOK /\ CallsAndLogs /\ ReadsAreTrue
    /\ LogsAreComplete /\ EndedAccessIsReminded /\ DisabledHoldNoAccess

-----------------------------------------------------------------------------
LEMMA StateFacts ==
    /\ \A s, t : t \in Targets(s, TRUE) \/ t \in Targets(s, FALSE) => Active(s) /\ t \in State
    /\ \A s \in AccessState, admin \in BOOLEAN : Targets(s, admin) \subseteq AccessState
    /\ \A s \in SupportState, admin \in BOOLEAN : Targets(s, admin) \subseteq SupportState
    /\ \A s : Targets(s, FALSE) \subseteq Targets(s, TRUE)
    /\ \A s \in State : Answered(s) # s => Answered(s) \in Targets(s, TRUE)
<1> USE DEF Targets, Active, Review, State, AccessState, SupportState
<1>1. \A s, t : t \in Targets(s, TRUE) \/ t \in Targets(s, FALSE) => Active(s) /\ t \in State
  OBVIOUS
<1>2. /\ \A s \in AccessState, admin \in BOOLEAN : Targets(s, admin) \subseteq AccessState
      /\ \A s \in SupportState, admin \in BOOLEAN : Targets(s, admin) \subseteq SupportState
  OBVIOUS
<1>3. \A s : Targets(s, FALSE) \subseteq Targets(s, TRUE)
  OBVIOUS
<1>4. \A s \in State : Answered(s) # s => Answered(s) \in Targets(s, TRUE)
  BY DEF Answered
<1> QED
  BY <1>1, <1>2, <1>3, <1>4

(* What the handlers that end many access records at once write. *)
LEMMA MassEnds ==
    ASSUME TypeOK, NEW K \in SUBSET Holding, NEW s \in {"expired", "revoked"}, EndAll(K, s)
    PROVE  /\ access' \in [Holding -> [state : {"none", "active", "expired", "revoked"},
                                       expires : Nat \cup {None}, version : Nat]]
           /\ ledger' \in [Holding -> {"none", "active", "expired", "revoked"}]
           /\ followup' \in [Holding -> {"none", "open", "completed"}] /\ owed' \in [Holding -> BOOLEAN]
           /\ \A k \in Holding :
                /\ access'[k].state = IF k \in K THEN s ELSE access[k].state
                /\ ledger'[k] = IF k \in K THEN s ELSE ledger[k]
                /\ followup'[k] = IF k \in K THEN "open" ELSE followup[k]
                /\ owed'[k] <=> (owed[k] \/ k \in K)
<1>1. /\ ledger' \in [Holding -> {"none", "active", "expired", "revoked"}]
      /\ followup' \in [Holding -> {"none", "open", "completed"}] /\ owed' \in [Holding -> BOOLEAN]
      /\ \A k \in Holding :
            /\ ledger'[k] = IF k \in K THEN s ELSE ledger[k]
            /\ followup'[k] = IF k \in K THEN "open" ELSE followup[k]
            /\ owed'[k] <=> (owed[k] \/ k \in K)
  BY DEF EndAll, EndedLedger, Reminded, TypeOK
<1>2. ASSUME NEW k \in Holding
      PROVE  /\ EndedAccess(K, s)[k].state = IF k \in K THEN s ELSE access[k].state
             /\ EndedAccess(K, s)[k] \in [state : {"none", "active", "expired", "revoked"},
                                         expires : Nat \cup {None}, version : Nat]
  <2>1. /\ access[k] \in [state : {"none", "active", "expired", "revoked"},
                          expires : Nat \cup {None}, version : Nat]
        /\ access[k].version + 1 \in Nat
    BY DEF TypeOK
  <2> QED
    BY <2>1 DEF EndedAccess
<1>3. access' = EndedAccess(K, s)
  BY DEF EndAll
<1>4. access' \in [Holding -> [state : {"none", "active", "expired", "revoked"},
                             expires : Nat \cup {None}, version : Nat]]
  BY <1>2, <1>3 DEF EndedAccess
<1> QED
  BY <1>1, <1>2, <1>3, <1>4

LEMMA MassSets ==
    /\ {k \in Holding : Lapsed(k)} \in SUBSET Holding
    /\ \A m \in Member : ActiveOf(m) \in SUBSET Holding
    /\ \A r \in Request : Key(r) \in Holding
  BY ColumnAssumption DEF ActiveOf, Key, Holding

-----------------------------------------------------------------------------
(* What each step of a call does to its request and to itself. *)
LEMMA Committed ==
    ASSUME IInv, NEW c \in Call, CommitReply(c) \/ CommitNote(c) \/ CommitTransition(c)
    PROVE  LET r == call[c].request IN
           /\ r \in Request /\ request[r].state # "none"
           /\ request' = Edited(r, request'[r].state)
           /\ \/ request'[r].state = request[r].state /\ log' = log
              \/ /\ request'[r].state \in Targets(request[r].state, TRUE)
                 /\ log' = Logged(r, request[r].state, request'[r].state)
           /\ call' = [call EXCEPT ![c] = Idle]
<1> DEFINE r == call[c].request
<1>1. /\ call[c] \in Post /\ r \in Request /\ call[c].version = request[r].version
      /\ call[c].read = request[r].state /\ call[c].read \in State
      /\ request[r] \in [state : State \cup {"none"}, version : Nat] /\ request[r].state # "none"
  <2>1. call[c] \in Page \cup Post \cup {Idle} /\ ReadIsTrue(c)
    BY DEF IInv, CallsAndLogs, ReadsAreTrue
  <2>2. call[c].step \in {"reply", "note", "transition"} /\ SameVersion(c)
    BY DEF CommitReply, CommitNote, CommitTransition
  <2>3. call[c] \in Post
    BY <2>1, <2>2 DEF Page, Post, Idle
  <2>4. r \in Request /\ call[c].read \in State
    BY <2>3 DEF Post
  <2>5. request[r] \in [state : State \cup {"none"}, version : Nat]
    BY <2>4 DEF IInv, TypeOK
  <2> QED
    BY <2>1, <2>2, <2>3, <2>4, <2>5 DEF ReadIsTrue, SameVersion
<1>2. call' = [call EXCEPT ![c] = Idle]
  BY DEF CommitReply, CommitNote, CommitTransition, Done
<1>3. ASSUME NEW s, request' = Edited(r, s) PROVE request'[r].state = s
  BY <1>1, <1>3 DEF Edited, IInv, TypeOK
<1>4. CASE CommitReply(c)
  <2>1. CASE ~call[c].admin /\ Answered(call[c].read) # call[c].read
    BY <1>1, <1>2, <1>3, <1>4, <2>1, StateFacts DEF CommitReply
  <2>2. CASE ~(~call[c].admin /\ Answered(call[c].read) # call[c].read)
    BY <1>1, <1>2, <1>3, <1>4, <2>2 DEF CommitReply
  <2> QED
    BY <2>1, <2>2
<1>5. CASE CommitNote(c)
  BY <1>1, <1>2, <1>3, <1>5 DEF CommitNote
<1>6. CASE CommitTransition(c)
  <2>1. call[c].target \in Targets(call[c].read, TRUE)
    <3>1. call[c].target \in Targets(call[c].read, call[c].admin) /\ call[c].admin \in BOOLEAN
      BY <1>1, <1>6 DEF IInv, ReadsAreTrue, ReadIsTrue, CommitTransition, Post
    <3> QED
      BY <3>1, StateFacts
  <2> QED
    BY <1>1, <1>2, <1>3, <1>6, <2>1 DEF CommitTransition
<1> QED
  BY <1>1, <1>2, <1>4, <1>5, <1>6

(* Every step leaves a request alone, submits one, or commits a call on it. *)
LEMMA RequestMoves ==
    ASSUME IInv, Next
    PROVE  \/ UNCHANGED <<request, log>>
           \/ \E r \in Request : Submit(r)
           \/ \E c \in Call : CommitReply(c) \/ CommitNote(c) \/ CommitTransition(c)
  BY DEF Next, CallStep, AdminStep, OpenPage, PostReply, PostNote, PostTransition, CallFails, GrantAccess,
         EndAccess, CompleteFollowup, SetMember, SetService, Reconcile, Restart, Clock, tables

(* Every step leaves the access records alone, ends some, grants one to an enabled
   member, or closes a follow-up; only SetMember changes who is enabled. *)
AccessStands == UNCHANGED <<access, ledger, followup, owed>>
AccessEnds == \E K \in SUBSET Holding, s \in {"expired", "revoked"} : EndAll(K, s)
AccessGranted ==
    \E k \in Holding, e \in EndDates :
        /\ Grantable(k) /\ access' = Granted(k, e) /\ ledger' = [ledger EXCEPT ![k] = "active"]
        /\ UNCHANGED <<followup, owed>>
AccessMoves ==
    \/ enabled' = enabled /\ (AccessStands \/ AccessEnds \/ AccessGranted)
    \/ \E k \in Holding : CompleteFollowup(k)
    \/ \E m \in Member, on \in BOOLEAN : SetMember(m, on)

LEMMA AccessMovesSo == ASSUME IInv, Next PROVE AccessMoves
<1>1. ASSUME NEW c \in Call, CommitTransition(c) PROVE AccessMoves
  <2> DEFINE r == call[c].request
  <2>1. enabled' = enabled /\ UNCHANGED <<followup, owed>>
    BY <1>1 DEF CommitTransition
  <2>2. Key(r) \in Holding
    BY <1>1, Committed, MassSets
  <2>3. CASE call[c].target = "Fulfilled"
    BY <1>1, <2>1, <2>2, <2>3 DEF CommitTransition, AccessMoves, AccessGranted
  <2>4. CASE call[c].target # "Fulfilled"
    BY <1>1, <2>1, <2>4 DEF CommitTransition, AccessMoves, AccessStands
  <2> QED
    BY <2>3, <2>4
<1>2. ASSUME NEW k \in Holding, NEW e \in EndDates, GrantAccess(k, e) PROVE AccessMoves
  BY <1>2 DEF GrantAccess, AccessMoves, AccessGranted
<1>3. ASSUME NEW k \in Holding, NEW s \in {"expired", "revoked"}, EndAccess(k, s) PROVE AccessMoves
  BY <1>3 DEF EndAccess, AccessMoves, AccessEnds
<1>4. CASE Reconcile
  BY <1>4, MassSets DEF Reconcile, AccessMoves, AccessEnds
<1>5. CASE enabled' = enabled /\ AccessStands
  BY <1>5 DEF AccessMoves
<1> QED
  BY <1>1, <1>2, <1>3, <1>4, <1>5
     DEF Next, CallStep, AdminStep, Submit, OpenPage, PostReply, PostNote, PostTransition, CommitReply,
         CommitNote, CallFails, SetService, Restart, Clock, tables, AccessMoves, AccessStands

-----------------------------------------------------------------------------
(* A request and the log of its moves are of their types and agree. *)
RequestTable(requests, logs) ==
    /\ requests \in [Request -> [state : State \cup {"none"}, version : Nat]]
    /\ \A r \in Request : requests[r].state \in
            IF KindOf[r] = "access" THEN AccessState \cup {"none"} ELSE SupportState \cup {"none"}
    /\ logs \in [Request -> [from : State \cup {"none", ""}, to : State \cup {"none"}]]
    /\ \A r \in Request : logs[r].to = requests[r].state

LEMMA TableHolds == IInv => RequestTable(request, log)
  BY DEF IInv, TypeOK, CallsAndLogs, LogsAreComplete, RequestTable

LEMMA RowWritten ==
    ASSUME RequestTable(request, log), NEW r \in Request, NEW s \in State,
           NEW v \in Nat, NEW from \in State \cup {"none", ""},
           s \in IF KindOf[r] = "access" THEN AccessState ELSE SupportState,
           request' = [request EXCEPT ![r] = [state |-> s, version |-> v]],
           \/ log' = [log EXCEPT ![r] = [from |-> from, to |-> s]]
           \/ log' = log /\ s = request[r].state
    PROVE  RequestTable(request', log')
<1>1. /\ request' \in [Request -> [state : State \cup {"none"}, version : Nat]]
      /\ request'[r].state = s /\ \A q \in Request \ {r} : request'[q] = request[q]
  BY DEF RequestTable
<1>2. /\ log' \in [Request -> [from : State \cup {"none", ""}, to : State \cup {"none"}]]
      /\ log'[r].to = s /\ \A q \in Request \ {r} : log'[q] = log[q]
  <2>1. log \in [Request -> [from : State \cup {"none", ""}, to : State \cup {"none"}]]
        /\ log[r].to = request[r].state
    BY DEF RequestTable
  <2>2. [from |-> from, to |-> s] \in [from : State \cup {"none", ""}, to : State \cup {"none"}]
    OBVIOUS
  <2>3. CASE log' = [log EXCEPT ![r] = [from |-> from, to |-> s]]
    BY <2>1, <2>2, <2>3
  <2>4. CASE log' = log /\ s = request[r].state
    BY <2>1, <2>4
  <2> QED
    BY <2>3, <2>4
<1> QED
  BY <1>1, <1>2 DEF RequestTable

LEMMA RequestTypes == ASSUME IInv, Next PROVE RequestTable(request', log')
<1>1. RequestTable(request, log)
  BY TableHolds
<1>2. ASSUME NEW r \in Request, Submit(r) PROVE RequestTable(request', log')
  <2>1. FirstState(r) \in State /\ FirstState(r) \in IF KindOf[r] = "access" THEN AccessState ELSE SupportState
    BY DEF FirstState, AccessState, SupportState, State
  <2> QED
    BY <1>1, <1>2, <2>1, RowWritten DEF Submit
<1>3. ASSUME NEW c \in Call, CommitReply(c) \/ CommitNote(c) \/ CommitTransition(c)
      PROVE  RequestTable(request', log')
  <2> DEFINE r == call[c].request  s == request'[r].state
  <2>1. /\ r \in Request /\ request[r].state # "none" /\ request' = Edited(r, s)
        /\ \/ s = request[r].state /\ log' = log
           \/ s \in Targets(request[r].state, TRUE) /\ log' = Logged(r, request[r].state, s)
    BY <1>3, Committed
  <2> HIDE DEF r, s
  <2>2. /\ request[r].state \in State /\ request[r].version + 1 \in Nat
        /\ request[r].state \in IF KindOf[r] = "access" THEN AccessState ELSE SupportState
    <3>1. request[r] \in [state : State \cup {"none"}, version : Nat]
      BY <1>1, <2>1 DEF RequestTable
    <3>2. request[r].state \in IF KindOf[r] = "access" THEN AccessState \cup {"none"} ELSE SupportState \cup {"none"}
      BY <1>1, <2>1 DEF RequestTable
    <3> QED
      BY <2>1, <3>1, <3>2
  <2>3. s \in State /\ s \in IF KindOf[r] = "access" THEN AccessState ELSE SupportState
    BY <2>1, <2>2, StateFacts
  <2>4. request' = [request EXCEPT ![r] = [state |-> s, version |-> request[r].version + 1]]
    BY <2>1 DEF Edited
  <2>5. \/ log' = [log EXCEPT ![r] = [from |-> request[r].state, to |-> s]]
        \/ log' = log /\ s = request[r].state
    BY <2>1 DEF Logged
  <2>6. request[r].state \in State \cup {"none", ""}
    BY <2>2
  <2> QED
    BY <1>1, <2>1, <2>2, <2>3, <2>4, <2>5, <2>6, RowWritten
<1> QED
  BY <1>1, <1>2, <1>3, RequestMoves

LEMMA AccessTypes ==
    ASSUME IInv, Next
    PROVE  /\ enabled' \in [Member -> BOOLEAN]
           /\ access' \in [Holding -> [state : {"none", "active", "expired", "revoked"},
                                       expires : Nat \cup {None}, version : Nat]]
           /\ ledger' \in [Holding -> {"none", "active", "expired", "revoked"}]
           /\ followup' \in [Holding -> {"none", "open", "completed"}] /\ owed' \in [Holding -> BOOLEAN]
           /\ \A k \in Holding : ledger'[k] = access'[k].state
           /\ EndedAccessIsReminded' /\ DisabledHoldNoAccess'
<1> USE DEF IInv
<1>1. CASE enabled' = enabled /\ AccessStands
  BY <1>1 DEF AccessStands, TypeOK, LogsAreComplete, EndedAccessIsReminded, DisabledHoldNoAccess
<1>2. ASSUME NEW K \in SUBSET Holding, NEW s \in {"expired", "revoked"}, EndAll(K, s),
             enabled' \in [Member -> BOOLEAN],
             \A k \in Holding \ K : access[k].state = "active" => enabled'[k[1]]
      PROVE  /\ \A k \in Holding : ledger'[k] = access'[k].state
             /\ EndedAccessIsReminded' /\ DisabledHoldNoAccess'
  BY <1>2, MassEnds DEF LogsAreComplete, EndedAccessIsReminded, DisabledHoldNoAccess
<1>3. CASE enabled' = enabled /\ AccessEnds
  <2>1. PICK K \in SUBSET Holding, s \in {"expired", "revoked"} : EndAll(K, s)
    BY <1>3 DEF AccessEnds
  <2>2. enabled' \in [Member -> BOOLEAN] /\ \A k \in Holding : access[k].state = "active" => enabled'[k[1]]
    BY <1>3 DEF TypeOK, DisabledHoldNoAccess
  <2> QED
    BY <1>2, <2>1, <2>2, MassEnds
<1>4. CASE enabled' = enabled /\ AccessGranted
  <2>1. PICK k \in Holding, e \in EndDates :
            /\ Grantable(k) /\ access' = Granted(k, e) /\ ledger' = [ledger EXCEPT ![k] = "active"]
            /\ UNCHANGED <<followup, owed>>
    BY <1>4 DEF AccessGranted
  <2>2. access[k].version + 1 \in Nat /\ e \in Nat \cup {None}
    BY EndDateAssumption DEF TypeOK
  <2>3. access' = [access EXCEPT ![k] = [state |-> "active", expires |-> e, version |-> access[k].version + 1]]
    BY <2>1 DEF Granted
  <2> QED
    BY <1>4, <2>1, <2>2, <2>3
       DEF Grantable, TypeOK, LogsAreComplete, EndedAccessIsReminded, DisabledHoldNoAccess
<1>5. ASSUME NEW k \in Holding, CompleteFollowup(k)
      PROVE  /\ enabled' = enabled /\ UNCHANGED <<access, ledger>>
             /\ followup' \in [Holding -> {"none", "open", "completed"}] /\ owed' \in [Holding -> BOOLEAN]
             /\ EndedAccessIsReminded'
  BY <1>5 DEF CompleteFollowup, TypeOK, EndedAccessIsReminded
<1>6. ASSUME NEW m \in Member, NEW on \in BOOLEAN, SetMember(m, on)
      PROVE  \E K \in SUBSET Holding :
                /\ EndAll(K, "revoked") /\ enabled' \in [Member -> BOOLEAN]
                /\ \A k \in Holding \ K : access[k].state = "active" => enabled'[k[1]]
  <2>1. enabled' = [enabled EXCEPT ![m] = on] /\ \A k \in Holding : k[1] \in Member
    BY <1>6 DEF SetMember, Holding
  <2>2. CASE on
    BY <1>6, <2>1, <2>2 DEF SetMember, TypeOK, DisabledHoldNoAccess
  <2>3. CASE ~on
    BY <1>6, <2>1, <2>3, MassSets DEF SetMember, TypeOK, DisabledHoldNoAccess, ActiveOf
  <2> QED
    BY <2>2, <2>3
<1>7. CASE \E k \in Holding : CompleteFollowup(k)
  BY <1>5, <1>7 DEF TypeOK, LogsAreComplete, DisabledHoldNoAccess
<1>8. CASE \E m \in Member, on \in BOOLEAN : SetMember(m, on)
  BY <1>2, <1>6, <1>8, MassEnds
<1> QED
  BY <1>1, <1>3, <1>4, <1>7, <1>8, AccessMovesSo DEF AccessMoves

-----------------------------------------------------------------------------
(* A request once made stays; whatever happens to it raises its version. *)
Forward(r) ==
    /\ request'[r].state # "none" /\ request[r].version <= request'[r].version
    /\ request'[r].version = request[r].version => request'[r].state = request[r].state

LEMMA RequestsGoForward ==
    ASSUME IInv, Next, NEW r \in Request, request[r].state # "none"
    PROVE  Forward(r)
<1>1. /\ request \in [Request -> [state : State \cup {"none"}, version : Nat]]
      /\ \A q \in Request : request[q].version \in Nat
  BY DEF IInv, TypeOK
<1>5. ASSUME request'[r] = request[r] PROVE Forward(r)
  BY <1>1, <1>5 DEF Forward
<1>2. CASE UNCHANGED <<request, log>>
  BY <1>2, <1>5
<1>3. ASSUME NEW q \in Request, Submit(q) PROVE Forward(r)
  <2>1. q # r /\ request' = [request EXCEPT ![q] = [state |-> FirstState(q), version |-> 1]]
    BY <1>3 DEF Submit
  <2> QED
    BY <1>1, <1>5, <2>1
<1>4. ASSUME NEW c \in Call, CommitReply(c) \/ CommitNote(c) \/ CommitTransition(c) PROVE Forward(r)
  <2> DEFINE q == call[c].request
  <2>1. /\ q \in Request /\ request[q].state # "none" /\ request' = Edited(q, request'[q].state)
        /\ \/ request'[q].state = request[q].state
           \/ request'[q].state \in Targets(request[q].state, TRUE)
    BY <1>4, Committed
  <2> HIDE DEF q
  <2>2. request'[q].state # "none"
    BY <2>1 DEF Targets, State, AccessState, SupportState
  <2>3. CASE q = r
    BY <1>1, <2>1, <2>2, <2>3 DEF Edited, Forward
  <2>4. CASE q # r
    BY <1>1, <1>5, <2>1, <2>4 DEF Edited
  <2> QED
    BY <2>3, <2>4
<1> QED
  BY <1>2, <1>3, <1>4, RequestMoves

LEMMA CallKept ==
    ASSUME IInv, Next, NEW c \in Call, call'[c] = call[c]
    PROVE  ReadIsTrue(c)'
<1>1. ReadIsTrue(c) /\ call[c] \in Page \cup Post \cup {Idle}
  BY DEF IInv, ReadsAreTrue, CallsAndLogs
<1>2. CASE call[c].step = "idle"
  BY <1>2 DEF ReadIsTrue
<1>3. CASE call[c].step # "idle"
  <2> DEFINE r == call[c].request
  <2>1. call[c] \in Page \cup Post
    BY <1>1, <1>3 DEF Idle
  <2>2. r \in Request /\ call[c].version \in Nat
    BY <2>1 DEF Page, Post
  <2>3. request[r].state # "none"
    BY <1>1, <1>3 DEF ReadIsTrue
  <2>4. request[r].version \in Nat /\ request'[r].version \in Nat
    BY <2>2, TableHolds, RequestTypes DEF RequestTable
  <2>5. Forward(r)
    BY <2>2, <2>3, RequestsGoForward
  <2> QED
    BY <1>1, <1>3, <2>2, <2>4, <2>5 DEF ReadIsTrue, Forward
<1> QED
  BY <1>2, <1>3

LEMMA CallsStep ==
    ASSUME IInv, Next
    PROVE  call' \in [Call -> Page \cup Post \cup {Idle}] /\ ReadsAreTrue'
<1>1. call \in [Call -> Page \cup Post \cup {Idle}] /\ ReadsAreTrue /\ RequestTable(request, log)
  BY TableHolds DEF IInv, CallsAndLogs
<1>2. ASSUME NEW c \in Call, NEW new \in Page \cup Post \cup {Idle}, call' = [call EXCEPT ![c] = new],
             ReadIsTrue(c)'
      PROVE  call' \in [Call -> Page \cup Post \cup {Idle}] /\ ReadsAreTrue'
  BY <1>1, <1>2, CallKept DEF ReadsAreTrue
<1>3. ASSUME NEW c \in Call, NEW r \in Request, NEW admin \in BOOLEAN, OpenPage(c, r, admin)
      PROVE  call' \in [Call -> Page \cup Post \cup {Idle}] /\ ReadsAreTrue'
  <2> DEFINE new == [step |-> "page", request |-> r, admin |-> admin, version |-> request[r].version]
  <2>1. request[r] \in [state : State \cup {"none"}, version : Nat]
    BY <1>1 DEF RequestTable
  <2>2. new \in Page
    BY <2>1 DEF Page
  <2>3. call' = [call EXCEPT ![c] = new] /\ request' = request /\ request[r].state # "none"
    BY <1>3 DEF OpenPage, tables
  <2>4. ReadIsTrue(c)'
    BY <1>1, <2>1, <2>3 DEF ReadIsTrue
  <2> QED
    BY <1>2, <2>2, <2>3, <2>4
<1>4. ASSUME NEW c \in Call, NEW step \in {"reply", "note", "transition"}, NEW t \in State \cup {"none"},
             call[c].step = "page", Posted(c, step, t), request' = request,
             step = "reply" => Active(request[call[c].request].state),
             step = "transition" => t \in Targets(request[call[c].request].state, call[c].admin)
      PROVE  call' \in [Call -> Page \cup Post \cup {Idle}] /\ ReadsAreTrue'
  <2> DEFINE r == call[c].request
             new == [step |-> step, request |-> r, admin |-> call[c].admin, version |-> call[c].version,
                     read |-> request[r].state, target |-> t]
  <2>1. call[c] \in Page /\ ReadIsTrue(c)
    BY <1>1, <1>4 DEF ReadsAreTrue, Page, Post, Idle
  <2>2. r \in Request /\ call[c].admin \in BOOLEAN /\ call[c].version \in Nat
    BY <2>1 DEF Page
  <2>3. request[r] \in [state : State \cup {"none"}, version : Nat] /\ request[r].state # "none"
        /\ call[c].version <= request[r].version
    BY <1>1, <1>4, <2>1, <2>2 DEF RequestTable, ReadIsTrue
  <2>4. new \in Post
    BY <2>2, <2>3 DEF Post
  <2>5. call' = [call EXCEPT ![c] = new]
    BY <1>4 DEF Posted
  <2>6. call'[c] = new
    BY <1>1, <2>5
  <2>7. ReadIsTrue(c)'
    BY <1>4, <2>3, <2>6 DEF ReadIsTrue
  <2> QED
    BY <1>2, <2>4, <2>5, <2>7
<1>5. ASSUME NEW c \in Call, Done(c)
      PROVE  call' \in [Call -> Page \cup Post \cup {Idle}] /\ ReadsAreTrue'
  <2>1. ReadIsTrue(c)'
    BY <1>1, <1>5 DEF Done, ReadIsTrue, Idle
  <2> QED
    BY <1>2, <1>5, <2>1 DEF Done
<1>6. CASE Restart
  <2>1. ASSUME NEW c \in Call PROVE ReadIsTrue(c)'
    <3>1. CASE call'[c] = call[c]
      BY <3>1, CallKept
    <3>2. CASE call'[c] = Idle
      BY <3>2 DEF ReadIsTrue, Idle
    <3> QED
      BY <1>6, <3>1, <3>2 DEF Restart
  <2> QED
    BY <1>1, <1>6, <2>1 DEF Restart, ReadsAreTrue
<1>7. CASE call' = call
  BY <1>1, <1>7, CallKept DEF ReadsAreTrue
<1>8. ASSUME NEW c \in Call, PostReply(c) \/ PostNote(c) \/ \E s \in State : PostTransition(c, s)
      PROVE  call' \in [Call -> Page \cup Post \cup {Idle}] /\ ReadsAreTrue'
  BY <1>4, <1>8 DEF PostReply, PostNote, PostTransition, tables
<1>9. ASSUME NEW c \in Call, CommitReply(c) \/ CommitNote(c) \/ CommitTransition(c) \/ CallFails(c)
      PROVE  call' \in [Call -> Page \cup Post \cup {Idle}] /\ ReadsAreTrue'
  BY <1>5, <1>9 DEF CommitReply, CommitNote, CommitTransition, CallFails
<1> QED
  BY <1>3, <1>6, <1>7, <1>8, <1>9
     DEF Next, CallStep, AdminStep, Submit, GrantAccess, EndAccess, CompleteFollowup, SetMember,
         SetService, Reconcile, Clock, tables

-----------------------------------------------------------------------------
LEMMA InitIInv == Init => IInv
<1> SUFFICES ASSUME Init PROVE IInv
  OBVIOUS
<1>1. TypeOK
  BY EndDateAssumption DEF Init, TypeOK
<1>2. CallsAndLogs /\ ReadsAreTrue
  BY DEF Init, CallsAndLogs, ReadsAreTrue, ReadIsTrue, Idle
<1>3. LogsAreComplete /\ EndedAccessIsReminded /\ DisabledHoldNoAccess
  BY DEF Init, LogsAreComplete, EndedAccessIsReminded, DisabledHoldNoAccess
<1> QED
  BY <1>1, <1>2, <1>3 DEF IInv

LEMMA NextIInv == IInv /\ [Next]_vars => IInv'
<1>1. IInv /\ Next => IInv'
  <2> SUFFICES ASSUME IInv, Next PROVE IInv'
    OBVIOUS
  <2>1. now' \in Nat /\ live' \in [Service -> {"published", "hidden", "archived"}]
    <3>1. now \in Nat /\ live \in [Service -> {"published", "hidden", "archived"}]
      BY DEF IInv, TypeOK
    <3>2. CASE Clock
      BY <3>1, <3>2 DEF Clock, tables
    <3>3. CASE \E s \in Service, l \in {"published", "hidden", "archived"} : SetService(s, l)
      BY <3>1, <3>3 DEF SetService
    <3>4. CASE UNCHANGED <<now, live>>
      BY <3>1, <3>4
    <3> QED
      BY <3>2, <3>3, <3>4
         DEF Next, CallStep, AdminStep, Submit, OpenPage, PostReply, PostNote, PostTransition,
             CommitReply, CommitNote, CommitTransition, CallFails, GrantAccess, EndAccess,
             CompleteFollowup, SetMember, Reconcile, Restart, tables
  <2>2. TypeOK'
    BY <2>1, RequestTypes, AccessTypes DEF TypeOK, RequestTable
  <2>3. CallsAndLogs' /\ ReadsAreTrue' /\ LogsAreComplete'
    BY RequestTypes, AccessTypes, CallsStep DEF CallsAndLogs, RequestTable, LogsAreComplete
  <2> QED
    BY <2>2, <2>3, AccessTypes DEF IInv
<1>2. IInv /\ UNCHANGED vars => IInv'
  <2> SUFFICES ASSUME IInv, UNCHANGED vars PROVE IInv'
    OBVIOUS
  <2> USE DEF vars, tables
  <2>1. TypeOK'
    BY DEF IInv, TypeOK
  <2>2. CallsAndLogs' /\ ReadsAreTrue'
    BY DEF IInv, CallsAndLogs, ReadsAreTrue, ReadIsTrue
  <2>3. LogsAreComplete' /\ EndedAccessIsReminded' /\ DisabledHoldNoAccess'
    BY DEF IInv, LogsAreComplete, EndedAccessIsReminded, DisabledHoldNoAccess
  <2> QED
    BY <2>1, <2>2, <2>3 DEF IInv
<1> QED
  BY <1>1, <1>2

(* The inductive invariant holds of every state of the desk. *)
THEOREM Invariance == Spec => []IInv
  BY InitIInv, NextIInv, PTL DEF Spec

(* TypeOK: requests keep to the states of their kind, whoever moves them. *)
THEOREM TypeCorrect == Spec => []TypeOK
  BY Invariance, PTL DEF IInv

(* LogsAreComplete: every handler logs what it moves. *)
THEOREM LogsComplete == Spec => []LogsAreComplete
  BY Invariance, PTL DEF IInv

(* EndedAccessIsReminded: no regrant and no second end dismisses a reminder. *)
THEOREM EndsReminded == Spec => []EndedAccessIsReminded
  BY Invariance, PTL DEF IInv

(* DisabledHoldNoAccess: both ways to grant access look at the account within the
   transaction that writes the grant, and a disabling ends all that were granted. *)
THEOREM DisabledHoldNone == Spec => []DisabledHoldNoAccess
  BY Invariance, PTL DEF IInv

(* MovesAreLegal, from ReadsAreTrue: the version check makes what a handler read
   before its transaction what its transaction writes from, for any number of
   calls in progress. *)
LEMMA MoveIsLegal ==
    ASSUME IInv, Next, NEW r \in Request, request'[r].state # request[r].state, request[r].state # "none"
    PROVE  request'[r].state \in Targets(request[r].state, TRUE) /\ log'[r].from = request[r].state
<1>1. RequestTable(request, log)
  BY TableHolds
<1>2. ASSUME NEW q \in Request, Submit(q) PROVE FALSE
  BY <1>1, <1>2 DEF Submit, RequestTable
<1>3. PICK c \in Call : CommitReply(c) \/ CommitNote(c) \/ CommitTransition(c)
  BY <1>2, RequestMoves
<1> DEFINE q == call[c].request
<1>4. /\ q \in Request /\ request' = Edited(q, request'[q].state)
      /\ \/ request'[q].state = request[q].state /\ log' = log
         \/ /\ request'[q].state \in Targets(request[q].state, TRUE)
            /\ log' = Logged(q, request[q].state, request'[q].state)
  BY <1>3, Committed
<1> HIDE DEF q
<1>5. q = r
  BY <1>1, <1>4 DEF Edited, RequestTable
<1>6. log' = Logged(r, request[r].state, request'[r].state)
      /\ request'[r].state \in Targets(request[r].state, TRUE)
  BY <1>4, <1>5
<1> QED
  BY <1>1, <1>6 DEF Logged, RequestTable

(* MovesAreLegal: every move of a request is one that the person who makes it may
   make from the state it is in, and is logged by the same step, whatever else was
   posted between the form and the transaction. *)
THEOREM LegalMoves == Spec => MovesAreLegal
<1>1. IInv /\ [Next]_vars =>
        [\A r \in Request :
            request'[r].state # request[r].state /\ request[r].state # "none" =>
                /\ request'[r].state \in Targets(request[r].state, TRUE)
                /\ log'[r].from = request[r].state]_vars
  BY MoveIsLegal
<1> QED
  BY <1>1, Invariance, PTL DEF Spec, MovesAreLegal
=============================================================================
