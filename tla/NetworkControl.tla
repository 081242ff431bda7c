--------------------------- MODULE NetworkControl ---------------------------
(***************************************************************************)
(* Portal and gateway together (internal/portal/vpn.go StartVPNControl and *)
(* VPNControlHandler, internal/vpn/gateway.go Tick).  They share nothing   *)
(* but two calls over a Unix socket that the agent makes: GET /v1/policy   *)
(* and POST /v1/applied.  A call may be lost, answered after the portal's  *)
(* tables have moved on, or handled after the agent gave up on it.         *)
(***************************************************************************)
EXTENDS DeviceAccess

CONSTANTS CmdTimeout, MaxFaults  \* as in Gateway

VARIABLES disk, nft, lag, wg, phase, cause, desired, applied, active, at,
          faults,
          reply,     \* the policy on its way to the agent, or None
          post,      \* the revision on its way to the portal, or None
          installed  \* history: every rule the gateway has ever installed

Rules == [grant : Grant, device : Device, dest : Dest, expires : 0..(MaxTime + MaxLife)]
GW == INSTANCE Gateway WITH Rule <- Rules
ASSUME GatewayAssumption == CmdTimeout \in Nat /\ MaxFaults \in Nat /\ NoRule \notin Rules

gateway == <<disk, nft, lag, wg, phase, cause, desired, applied, active, at, faults>>
system == <<vars, gateway, reply, post, installed>>

NetInit == Init /\ GW!Init /\ reply = None /\ post = None /\ installed = {}

-----------------------------------------------------------------------------
(* A message carries a policy; None is no message. *)
Message(p) == [revision |-> p]

(* GET /v1/policy: the portal reads its tables while the agent waits. *)
Serve ==
    /\ phase = "poll" /\ reply = None /\ Cardinality(Snapshot) <= MaxActive
    /\ reply' = Message(Snapshot)
    /\ UNCHANGED <<vars, gateway, post, installed>>
(* The agent decodes the answer, whatever the portal has done since. *)
Deliver ==
    /\ reply # None /\ reply' = None /\ GW!Receive(reply.revision)
    /\ post' = IF phase' = "ack" THEN Message(applied) ELSE post
    /\ UNCHANGED <<portal, installed>>

(* The agent's other steps: giving up on a poll drops its answer, reaching the
   acknowledgment sends it. *)
AgentStep ==
    /\ GW!Work \/ GW!Failure \/ GW!PollFails
    /\ reply' = IF phase' = "poll" THEN reply ELSE None
    /\ post' = IF phase' = "ack" /\ phase # "ack" THEN Message(applied') ELSE post
    /\ installed' = installed \cup nft'
    /\ UNCHANGED portal

(* POST /v1/applied, perhaps after the agent stopped waiting for the answer. *)
AckHandled ==
    /\ post # None /\ post' = None /\ CheckAck(post.revision)
    /\ UNCHANGED <<gateway, reply, installed>>
(* The call does not arrive, or 409: the policy has changed since. *)
AckDropped == post # None /\ post' = None /\ UNCHANGED <<vars, gateway, reply, installed>>

PortalStep == Local /\ UNCHANGED <<gateway, reply, post, installed>>
Minutely == Reconcile /\ UNCHANGED <<gateway, reply, post, installed>>   \* one of them
Tick == Clock /\ GW!Clock /\ UNCHANGED <<reply, post, installed>>

NetNext == Serve \/ Deliver \/ AgentStep \/ AckHandled \/ AckDropped \/ PortalStep \/ Tick

NetSpec == NetInit /\ [][NetNext]_system
(* The agent keeps running (as in Gateway) and an answer gets through again and
   again: docs/vpn.md:55 promises nothing about a gateway that is cut off.  The
   portal's ticker reconciles every minute. *)
NetFairness ==
    /\ WF_system(AgentStep) /\ SF_system(Serve) /\ SF_system(Deliver) /\ WF_system(Minutely)
NetFairSpec == NetSpec /\ NetFairness

-----------------------------------------------------------------------------
InForce == GW!Forwarded

(* Through every delay, crash and restart, what the gateway forwards was approved
   as it is: never a request pending or denied, and never a destination or an expiry
   other than the approved one (vpn.go:141-168, gateway.go:136-145, 245-252). *)
OnlyApprovedIsForwarded ==
    \A r \in InForce :
        /\ grant[r.grant].state \in {"Approved", "Revoked", "Expired"}
        /\ grant[r.grant].state = "Approved" => r = RuleOf(r.grant)

(* An acknowledged policy was really installed, so a pack is handed out only when
   the gateway has had the connection it is for (packs.go:206-230, vpn.go:647-652). *)
PackMeansConnected ==
    [][\A d \in Device :
        delivery[d].state = "sealed" /\ delivery'[d].state = "consumed"
            => \E r \in installed : r.device = d /\ r.expires > now]_system

(* A rule the portal no longer serves stops being forwarded (gateway.go:228-251),
   provided that the portal can be reached. *)
WithdrawalArrives ==
    \A g \in Grant : (\E r \in InForce : r.grant = g /\ r \notin Snapshot)
                        ~> ((\A r \in InForce : r.grant # g) \/ InPolicy(g))

(* What docs/security.md:47 and the page's "Gateway confirmed the current policy."
   say: while it is shown, no revocation is outstanding. *)
ConfirmedMeansRemoved == Confirmed => InForce \subseteq Snapshot

=============================================================================
