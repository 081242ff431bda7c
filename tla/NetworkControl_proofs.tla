------------------------ MODULE NetworkControl_proofs ------------------------
(***************************************************************************)
(* Proofs about portal and gateway together, for every number of members,  *)
(* requests, faults and lost calls.                                        *)
(***************************************************************************)
EXTENDS NetworkControl, DeviceAccess_proofs

GWP == INSTANCE Gateway_proofs WITH Rule <- Rules

(* What an approval makes of a request can be a rule. *)
ApprovedTerms == \A g \in Grant : grant[g].state = "Approved" => RuleOf(g) \in Rules

(* Every copy of a rule between the portal's tables and the kernel was approved
   as it is; reply is the copy on its way. *)
WasApproved(r) ==
    /\ grant[r.grant].state \in {"Approved", "Revoked", "Expired"}
    /\ grant[r.grant].state = "Approved" => r = RuleOf(r.grant)
Held == (nft \cup active \cup disk \cup desired \cup applied) \ {NoRule}
Backing ==
    /\ \A r \in Held : WasApproved(r)
    /\ reply # None => reply.revision \in SUBSET Rules /\ \A r \in reply.revision : WasApproved(r)

(* A revision that went from the agent to the portal, wherever it is by now,
   stands for rules that the gateway has installed, but for expired ones. *)
Arrived(p) == \A r \in p \ {NoRule} : r \in Rules /\ (r.expires > now => r \in installed)
Receipts ==
    /\ nft \subseteq installed
    /\ post # None => Arrived(post.revision)
    /\ ack # None => Arrived(ack.revision)
    /\ Arrived(status.revision)

NetInv == IInv /\ GWP!IInv /\ ApprovedTerms /\ Backing /\ Receipts
-----------------------------------------------------------------------------
(* GW, of the model, and GWP, of the theorems, are the same gateway. *)
LEMMA GatewayAssumptions == GWP!RuleAssumption /\ GWP!NoRuleAssumption /\ GWP!BoundAssumption
  BY GatewayAssumption, LimitAssumption
     DEF Rules, GWP!RuleAssumption, GWP!NoRuleAssumption, GWP!BoundAssumption

LEMMA SameWork == GW!Work <=> GWP!Work
  BY DEF GW!Work, GW!Start, GW!InitDeny, GW!TickBegins, GW!Persist, GW!Deny, GW!Sync, GW!Install,
         GW!AckReturns, GW!Ruleset, GW!Active, GW!Devices, GW!UntilPassed, GW!NoPolicy, GW!kernel,
         GWP!Work, GWP!Start, GWP!InitDeny, GWP!TickBegins, GWP!Persist, GWP!Deny, GWP!Sync,
         GWP!Install, GWP!AckReturns, GWP!Ruleset, GWP!Active, GWP!Devices, GWP!UntilPassed,
         GWP!NoPolicy, GWP!kernel

LEMMA SameFailure == GW!Failure <=> GWP!Failure
  BY DEF GW!Failure, GW!InitFails, GW!PersistFails, GW!DenyFails, GW!SyncFails, GW!InstallFails,
         GW!Crash, GW!Fault, GW!DenyAttempted, GW!Stop, GW!Error, GW!Ruleset, GW!Active, GW!Devices,
         GW!NoPolicy, GW!kernel,
         GWP!Failure, GWP!InitFails, GWP!PersistFails, GWP!DenyFails, GWP!SyncFails,
         GWP!InstallFails, GWP!Crash, GWP!Fault, GWP!DenyAttempted, GWP!Stop, GWP!Error,
         GWP!Ruleset, GWP!Active, GWP!Devices, GWP!NoPolicy, GWP!kernel

LEMMA SamePoll == /\ GW!PollFails <=> GWP!PollFails
                  /\ \A p : GW!Receive(p) <=> GWP!Receive(p)
                  /\ GW!PollReturns <=> GWP!PollReturns
  BY DEF GW!PollReturns, GW!PollFails, GW!Receive, GW!Policy, GW!NoPolicy, GW!kernel,
         GWP!PollReturns, GWP!PollFails, GWP!Receive, GWP!Policy, GWP!NoPolicy, GWP!kernel

LEMMA SameClock == GW!Clock <=> GWP!Clock
  BY DEF GW!Clock, GW!kernel, GW!agent, GWP!Clock, GWP!kernel, GWP!agent

LEMMA SameStep == [GW!Next]_(GW!vars) <=> [GWP!Next]_(GWP!vars)
  BY SameWork, SameFailure, SamePoll, SameClock
     DEF GW!Next, GW!vars, GW!kernel, GW!agent, GWP!Next, GWP!vars, GWP!kernel, GWP!agent

(* What the agent's own steps leave alone, and what they make of the rules held. *)
LEMMA AgentMoves ==
    ASSUME GW!Work \/ GW!Failure \/ GW!PollFails
    PROVE  now' = now /\ Held' \subseteq Held
<1> USE DEF GW!kernel, Held
<1>1. CASE GW!Work
  <2> USE DEF GW!NoPolicy
  <2>1. CASE GW!Start BY <2>1 DEF GW!Start
  <2>2. CASE GW!InitDeny BY <2>2 DEF GW!InitDeny
  <2>3. CASE GW!TickBegins BY <2>3 DEF GW!TickBegins
  <2>4. CASE GW!Persist BY <2>4 DEF GW!Persist
  <2>5. CASE GW!Deny BY <2>5 DEF GW!Deny, GW!Active
  <2>6. CASE GW!Sync BY <2>6 DEF GW!Sync
  <2>7. CASE GW!Install BY <2>7 DEF GW!Install, GW!Ruleset, GW!Active
  <2>8. CASE GW!AckReturns BY <2>8 DEF GW!AckReturns
  <2> QED
    BY <1>1, <2>1, <2>2, <2>3, <2>4, <2>5, <2>6, <2>7, <2>8 DEF GW!Work
<1>2. CASE GW!Failure
  <2> USE DEF GW!NoPolicy, GW!Stop, GW!Error, GW!DenyAttempted
  <2>1. CASE GW!InitFails BY <2>1 DEF GW!InitFails
  <2>2. CASE GW!PersistFails BY <2>2 DEF GW!PersistFails
  <2>3. CASE GW!DenyFails BY <2>3 DEF GW!DenyFails
  <2>4. CASE GW!SyncFails BY <2>4 DEF GW!SyncFails
  <2>5. CASE GW!InstallFails BY <2>5 DEF GW!InstallFails, GW!Ruleset, GW!Active
  <2>6. CASE GW!Crash BY <2>6 DEF GW!Crash
  <2> QED
    BY <1>2, <2>1, <2>2, <2>3, <2>4, <2>5, <2>6 DEF GW!Failure
<1>3. CASE GW!PollFails
  BY <1>3 DEF GW!PollFails
<1> QED
  BY <1>1, <1>2, <1>3

(* Of the gateway's state the clock and a poll's answer move nothing that is
   forwarded; an answer is held from then on. *)
LEMMA ReceiveMoves ==
    ASSUME NEW p, GW!Receive(p)
    PROVE  now' = now /\ nft' = nft /\ applied' = applied /\ Held' \subseteq Held \cup p
  BY DEF GW!Receive, GW!kernel, Held

-----------------------------------------------------------------------------
(* Refinement: to the desk a step of the whole is a step of its own or none. *)
LEMMA DeskStep == NetNext => [Next]_vars
<1> SUFFICES ASSUME NetNext PROVE [Next]_vars
  OBVIOUS
<1>1. CASE Serve BY <1>1 DEF Serve
<1>2. CASE Deliver
  BY <1>2, ReceiveMoves DEF Deliver, vars
<1>3. CASE AgentStep
  BY <1>3, AgentMoves DEF AgentStep, vars
<1>4. CASE AckHandled
  BY <1>4 DEF AckHandled, CheckAck, Next
<1>5. CASE AckDropped BY <1>5 DEF AckDropped
<1>6. CASE PortalStep BY <1>6 DEF PortalStep, Next
<1>7. CASE Tick BY <1>7 DEF Tick, Next
<1> QED
  BY <1>1, <1>2, <1>3, <1>4, <1>5, <1>6, <1>7 DEF NetNext

(* The desk of the whole is the desk alone, so what is proved of it holds here. *)
THEOREM DeskImplemented == NetSpec => Spec
<1>1. NetInit => Init
  BY DEF NetInit
<1>2. [NetNext]_system => [Next]_vars
  BY DeskStep DEF system
<1> QED
  BY <1>1, <1>2, PTL DEF NetSpec, Spec

(* To the gateway too: what the portal serves is a set of rules. *)
LEMMA GatewayStep == Backing /\ NetNext => [GW!Next]_(GW!vars)
<1> SUFFICES ASSUME Backing, NetNext PROVE [GW!Next]_(GW!vars)
  OBVIOUS
<1> USE DEF GW!vars, GW!kernel, GW!agent, gateway
<1>1. CASE Serve BY <1>1 DEF Serve, vars
<1>2. CASE Deliver
  BY <1>2 DEF Deliver, Backing, GW!Next, GW!PollReturns, GW!Policy
<1>3. CASE AgentStep
  BY <1>3 DEF AgentStep, GW!Next, GW!PollReturns
<1>4. CASE AckHandled BY <1>4 DEF AckHandled, CheckAck
<1>5. CASE AckDropped BY <1>5 DEF AckDropped, vars
<1>6. CASE PortalStep
  BY <1>6 DEF PortalStep, Local, MemberStep, AdminStep, EnrollDevice, RevokeDevice, ConsumePack,
         CheckOffering, RequestNetwork, RequestFails, CreatePack, OpenReview, Approve, Withdraw,
         SaveTarget, SetService, SetAudience, SetMember, Reconcile, RecordAck, Restart
<1>7. CASE Tick BY <1>7 DEF Tick, GW!Next
<1> QED
  BY <1>1, <1>2, <1>3, <1>4, <1>5, <1>6, <1>7 DEF NetNext

-----------------------------------------------------------------------------
LEMMA TermsOfApprovalStep == IInv /\ ApprovedTerms /\ Next => ApprovedTerms'
<1> SUFFICES ASSUME IInv, ApprovedTerms, Next, NEW g \in Grant, grant'[g].state = "Approved"
             PROVE  RuleOf(g)' \in Rules
  BY DEF ApprovedTerms, Rules
<1>1. CASE grant[g].state = "Approved"
  <2>1. MovesLawfully(g)
    BY StepIsLawful
  <2>2. grant'[g] = grant[g]
    BY <1>1, <2>1 DEF MovesLawfully, P!Requested, P!Approved, P!Denied, P!Revoked, P!Expired, P!State, P!Moves
  <2> QED
    BY <1>1, <2>2 DEF ApprovedTerms, RuleOf
<1>2. CASE grant[g].state # "Approved"
  <2>1. PICK e \in 1..(MaxTime + MaxLife) : Approve(g, e)
    BY <1>2, OnlyApproveApproves
  <2>2. /\ grant'[g].dest = target[TargetOf[g]].dest /\ grant'[g].expires = e
        /\ target[TargetOf[g]].dest \in Dest
    BY <2>1, ColumnAssumption DEF Approve, Approvable, IInv, Terms, TypeOK
  <2>3. DeviceOf[g] \in Device /\ e \in 0..(MaxTime + MaxLife)
    BY ColumnAssumption, LimitAssumption
  <2> QED
    BY <2>2, <2>3 DEF RuleOf, Rules
<1> QED
  BY <1>1, <1>2

(* An approval is never undone: it is in force, or over. *)
LEMMA ApprovalStands ==
    ASSUME IInv, [Next]_vars, NEW r, r.grant \in Grant, WasApproved(r)
    PROVE  WasApproved(r)'
<1>1. CASE UNCHANGED vars
  BY <1>1 DEF vars, portal, desk, WasApproved, RuleOf
<1>2. CASE Next
  <2>1. MovesLawfully(r.grant)
    BY <1>2, StepIsLawful
  <2>2. \/ grant'[r.grant] = grant[r.grant]
        \/ grant'[r.grant].state \in {"Revoked", "Expired"}
    BY <2>1 DEF WasApproved, MovesLawfully, P!Requested, P!Approved, P!Denied, P!Revoked, P!Expired, P!State, P!Moves
  <2> QED
    BY <2>2 DEF WasApproved, RuleOf
<1> QED
  BY <1>1, <1>2

LEMMA SnapshotIsApproved ==
    ASSUME ApprovedTerms
    PROVE  Snapshot \in SUBSET Rules /\ \A r \in Snapshot : WasApproved(r)
<1>1. ASSUME NEW g \in Grant, InPolicy(g) PROVE RuleOf(g) \in Rules /\ WasApproved(RuleOf(g))
  BY <1>1 DEF InPolicy, ApprovedTerms, WasApproved, RuleOf
<1> QED
  BY <1>1 DEF Snapshot

LEMMA HeldAreRules == GWP!TypeOK => Held \subseteq Rules
  BY DEF GWP!TypeOK, GWP!Stored, GWP!Policy, GWP!NoPolicy, Held

LEMMA BackingStep ==
    ASSUME NetInv, [NetNext]_system
    PROVE  Backing'
<1>1. [Next]_vars
  BY DeskStep DEF system
<1>2. \A r \in Rules : WasApproved(r) => WasApproved(r)'
  BY <1>1, ApprovalStands DEF NetInv, Rules
<1>3. Held \subseteq Rules
  BY HeldAreRules DEF NetInv, GWP!IInv
<1>4. ASSUME Held' \subseteq Held, reply' \in {reply, None} PROVE Backing'
  BY <1>2, <1>3, <1>4 DEF NetInv, Backing
<1> USE DEF Held, gateway
<1>5. CASE Serve
  <2>1. reply' = [revision |-> Snapshot] /\ Held' = Held
    BY <1>5 DEF Serve, Message
  <2>2. Snapshot \in SUBSET Rules /\ \A r \in Snapshot : WasApproved(r)'
    BY <1>2, SnapshotIsApproved DEF NetInv
  <2> QED
    BY <1>2, <1>3, <2>1, <2>2 DEF NetInv, Backing
<1>6. CASE Deliver
  <2>1. reply # None /\ reply' = None /\ GW!Receive(reply.revision)
    BY <1>6 DEF Deliver
  <2>2. Held' \subseteq Held \cup reply.revision
    BY <2>1, ReceiveMoves
  <2>3. \A r \in Held \cup reply.revision : WasApproved(r)'
    BY <1>2, <1>3, <2>1 DEF NetInv, Backing
  <2> HIDE DEF Held
  <2> QED
    BY <2>1, <2>2, <2>3 DEF Backing
<1>7. CASE AgentStep
  BY <1>4, <1>7, AgentMoves DEF AgentStep
<1>8. CASE AckHandled \/ AckDropped \/ PortalStep
  BY <1>4, <1>8 DEF AckHandled, AckDropped, PortalStep
<1>9. CASE Tick
  BY <1>4, <1>9 DEF Tick, GW!Clock, GW!kernel, GW!agent
<1>10. CASE UNCHANGED system
  BY <1>4, <1>10 DEF system
<1> QED
  BY <1>5, <1>6, <1>7, <1>8, <1>9, <1>10 DEF NetNext

LEMMA InstalledGrows ==
    ASSUME NetInv, [NetNext]_system
    PROVE  /\ installed \subseteq installed' /\ nft' \subseteq installed'
           /\ now \in Nat /\ now' \in Nat /\ now' >= now
<1>1. now \in Nat /\ now' \in Nat /\ now' >= now
  <2>1. [Next]_vars
    BY DeskStep DEF system
  <2>2. CASE Next
    BY <2>2, NextIInv, TimeForward DEF NetInv, IInv, TypeOK
  <2>3. CASE UNCHANGED vars
    BY <2>3 DEF vars, NetInv, IInv, TypeOK
  <2> QED
    BY <2>1, <2>2, <2>3
<1>2. installed \subseteq installed' /\ nft' \subseteq installed'
  <2> USE DEF NetInv, Receipts, gateway
  <2>1. CASE Deliver
    BY <2>1, ReceiveMoves DEF Deliver
  <2>2. CASE Tick
    BY <2>2 DEF Tick, GW!Clock, GW!kernel
  <2>3. CASE AgentStep BY <2>3 DEF AgentStep
  <2> QED
    BY <2>1, <2>2, <2>3 DEF NetNext, Serve, AckHandled, AckDropped, PortalStep, system
<1> QED
  BY <1>1, <1>2

LEMMA ReceiptsStep ==
    ASSUME NetInv, GWP!IInv', [NetNext]_system
    PROVE  Receipts'
<1> DEFINE Holds(p) == \A r \in p \ {NoRule} : r \in Rules /\ (r.expires > now' => r \in installed')
<1>1. \A p : Arrived(p) => Holds(p)
  BY InstalledGrows, LimitAssumption DEF Arrived, Rules
<1>2. Holds(applied')
  BY InstalledGrows DEF GWP!IInv, GWP!TypeOK, GWP!Enforcement, GWP!Stored, GWP!Policy, GWP!NoPolicy
<1>3. nft' \subseteq installed'
  BY InstalledGrows
<1> HIDE DEF Holds
<1>4. SUFFICES /\ post' # None => Holds(post'.revision)
               /\ ack' # None => Holds(ack'.revision)
               /\ Holds(status'.revision)
  BY <1>3 DEF Receipts, Arrived, Holds
<1>5. /\ post # None => Holds(post.revision)
      /\ ack # None => Holds(ack.revision)
      /\ Holds(status.revision)
  BY <1>1 DEF NetInv, Receipts
<1>6. CASE UNCHANGED <<post, ack, status>>
  BY <1>5, <1>6
<1>7. CASE Deliver
  <2>1. UNCHANGED <<ack, status, applied>>
    BY <1>7, ReceiveMoves DEF Deliver, portal
  <2>2. post' \in {post, Message(applied')}
    BY <1>7, <2>1 DEF Deliver
  <2> QED
    BY <1>2, <1>5, <2>1, <2>2 DEF Message
<1>8. CASE AgentStep
  BY <1>2, <1>5, <1>8 DEF AgentStep, Message, portal
<1>9. CASE AckHandled
  BY <1>5, <1>9 DEF AckHandled, CheckAck
<1>10. CASE AckDropped
  BY <1>5, <1>10 DEF AckDropped, vars, portal
<1>11. CASE RecordAck /\ post' = post
  BY <1>5, <1>11 DEF RecordAck
<1>12. CASE Restart /\ post' = post
  BY <1>5, <1>12 DEF Restart
<1> QED
  BY <1>6, <1>7, <1>8, <1>9, <1>10, <1>11, <1>12
     DEF NetNext, Serve, PortalStep, Tick, Clock, system, vars, portal, Local, MemberStep, AdminStep,
         EnrollDevice, RevokeDevice, ConsumePack, CheckOffering, RequestNetwork, RequestFails,
         CreatePack, OpenReview, Approve, Withdraw, SaveTarget, SetService, SetAudience, SetMember,
         Reconcile

-----------------------------------------------------------------------------
LEMMA NetInitInv == NetInit => NetInv
<1> SUFFICES ASSUME NetInit PROVE NetInv
  OBVIOUS
<1>1. IInv /\ status.revision = {NoRule} /\ ack = None
  BY InitIInv DEF NetInit, Init, NoPolicy
<1>2. GWP!IInv
  <2>1. GWP!Init
    BY DEF NetInit, GW!Init, GW!NoPolicy, GWP!Init, GWP!NoPolicy
  <2> QED
    BY <2>1, GWP!InitIInv, GatewayAssumptions DEF GWP!InitIInv
<1>3. ApprovedTerms
  BY DEF NetInit, Init, ApprovedTerms
<1>4. Backing
  BY DEF NetInit, GW!Init, GW!NoPolicy, Backing, Held
<1>5. Receipts
  BY <1>1 DEF NetInit, GW!Init, Receipts, Arrived
<1> QED
  BY <1>1, <1>2, <1>3, <1>4, <1>5 DEF NetInv

LEMMA NetStep == NetInv /\ [NetNext]_system => NetInv'
<1> SUFFICES ASSUME NetInv, [NetNext]_system PROVE NetInv'
  OBVIOUS
<1>1. [Next]_vars /\ [GW!Next]_(GW!vars)
  BY DeskStep, GatewayStep DEF NetInv, system, gateway, vars, GW!vars, GW!kernel, GW!agent
<1>2. IInv'
  BY <1>1, NextIInv DEF NetInv
<1>3. GWP!IInv'
  BY <1>1, SameStep, GWP!NextIInv, GatewayAssumptions DEF NetInv, GWP!NextIInv
<1>4. ApprovedTerms'
  BY <1>1, TermsOfApprovalStep DEF NetInv, vars, portal, desk, ApprovedTerms, RuleOf
<1>5. Backing'
  BY BackingStep
<1>6. Receipts'
  BY <1>3, ReceiptsStep
<1> QED
  BY <1>2, <1>3, <1>4, <1>5, <1>6 DEF NetInv

(* The invariant holds through every lost call, fault, crash and restart. *)
THEOREM NetInvariance == NetSpec => []NetInv
  BY NetInitInv, NetStep, PTL DEF NetSpec

(* The gateway of the whole is the gateway alone, whose portal answers with any
   policy: what is proved of it holds here. *)
THEOREM GatewayImplemented == NetSpec => GW!Spec
<1>1. NetInit => GW!Init
  BY DEF NetInit
<1>2. NetInv /\ [NetNext]_system => [GW!Next]_(GW!vars)
  BY GatewayStep DEF NetInv, system, gateway, vars, GW!vars, GW!kernel, GW!agent
<1> QED
  BY <1>1, <1>2, NetInvariance, PTL DEF NetSpec, GW!Spec

(* OnlyApprovedIsForwarded: no delay and no restart of either side, from a policy
   on disk or in flight, makes the kernel forward what was not approved as it is. *)
THEOREM OnlyApproved == NetSpec => []OnlyApprovedIsForwarded
<1>1. NetInv => OnlyApprovedIsForwarded
  <2>1. NetInv => \A r \in nft : r \in Held
    BY GatewayAssumption DEF NetInv, GWP!IInv, GWP!TypeOK, GWP!Policy, Held
  <2> QED
    BY <2>1 DEF NetInv, Backing, WasApproved, OnlyApprovedIsForwarded, InForce, GW!Forwarded
<1> QED
  BY <1>1, NetInvariance, PTL

(* PackMeansConnected: the acknowledgment that a download waits for was sent, at
   whatever time it got through, for rules the gateway had installed. *)
THEOREM PacksConnect == NetSpec => PackMeansConnected
<1>1. ASSUME NetInv, NetNext, NEW d \in Device,
             delivery[d].state = "sealed", delivery'[d].state = "consumed"
      PROVE  \E r \in installed : r.device = d /\ r.expires > now
  <2> USE ColumnAssumption DEF NetInv, IInv
  <2>1. ASSUME NEW D \in SUBSET Device, delivery' = Erased(D) PROVE FALSE
    BY <1>1, <2>1, MassStates
  <2>2. ASSUME NEW c \in Device, ConsumePack(c) PROVE c = d
    BY <1>1, <2>2 DEF ConsumePack, TypeOK
  <2>3. ASSUME NEW h \in Grant, NEW replaced \in SUBSET Device, CreatePack(h, replaced) PROVE FALSE
    BY <1>1, <2>3, MassStates, MassMoves DEF CreatePack
  <2>4. ASSUME delivery' = ExpiredDeliveries PROVE FALSE
    BY <2>1, <2>4 DEF ExpiredDeliveries
  <2>5. ASSUME NEW m \in Member, NEW on \in BOOLEAN, SetMember(m, on) PROVE FALSE
    BY <2>1, <2>5 DEF SetMember, DevicesOf
  <2>6. delivery' # delivery
    BY <1>1
  <2>7. ConsumePack(d)
    BY <1>1, <2>1, <2>2, <2>3, <2>4, <2>5, <2>6, DeskStep
       DEF Next, Local, MemberStep, AdminStep, EnrollDevice, RevokeDevice, CheckOffering,
           RequestNetwork, RequestFails, OpenReview, Approve, Withdraw, SaveTarget, SetService,
           SetAudience, Reconcile, RecordAck, Restart, CheckAck, Clock, vars, portal, desk
  <2>8. PICK g \in Grant : DeviceOf[g] = d /\ InPolicy(g) /\ status.revision = Snapshot
    BY <2>7 DEF ConsumePack, Confirmed
  <2>9. /\ RuleOf(g) \in status.revision /\ RuleOf(g) \in Rules
        /\ RuleOf(g).device = d /\ RuleOf(g).expires > now
    BY <1>1, <2>8 DEF Snapshot, InPolicy, RuleOf, ApprovedTerms
  <2>10. Arrived(status.revision) /\ RuleOf(g) # NoRule
    BY <1>1, <2>9, GatewayAssumption DEF Receipts
  <2>11. RuleOf(g) \in installed
    BY <2>9, <2>10 DEF Arrived
  <2> QED
    BY <2>9, <2>11
<1>2. NetInv /\ [NetNext]_system =>
        [\A d \in Device :
            delivery[d].state = "sealed" /\ delivery'[d].state = "consumed"
                => \E r \in installed : r.device = d /\ r.expires > now]_system
  BY <1>1
<1> QED
  BY <1>2, NetInvariance, PTL DEF NetSpec, PackMeansConnected

=============================================================================
