------------------------------- MODULE Gateway -------------------------------
(***************************************************************************)
(* The gateway agent (internal/vpn/gateway.go, cmd/gateway/main.go): one   *)
(* process that polls the portal, keeps the last policy in policy.json and *)
(* programs two kernel objects, the nftables table and the WireGuard peer  *)
(* list.  Every command, file write and HTTP call of Init, Apply and Tick  *)
(* is a step of its own, may fail, and may be cut by a crash.              *)
(*                                                                         *)
(* A policy is the set of its rules; its revision is the hash of exactly   *)
(* that set, so the policy itself stands for the revision.  NoPolicy, a    *)
(* set that is no policy, is the empty revision and the missing file.      *)
(***************************************************************************)
EXTENDS Naturals

CONSTANTS Rule,        \* permissions: records with fields device and expires
          NoRule,      \* anything that is not a rule; it makes up NoPolicy
          CmdTimeout,  \* bound of one command (5 s in the code), in clock units
          MaxTime,     \* bound on the clock
          MaxFaults    \* bound on failures and crashes together

ASSUME RuleAssumption == \A r \in Rule : r.expires \in Nat
ASSUME NoRuleAssumption == NoRule \notin Rule
ASSUME BoundAssumption == CmdTimeout \in Nat /\ MaxTime \in Nat /\ MaxFaults \in Nat

VARIABLES
    now,      \* wall clock
    disk,     \* policy.json
    nft,      \* rules the kernel's firewall table accepts
    lag,      \* how far the table's timers run past the recorded expiries
    wg,       \* devices configured as WireGuard peers
    phase,    \* where the agent is; "down" when no process runs
    cause,    \* who called Apply: Init, the retry of Tick, or a new policy
    desired,  \* g.desired, NoPolicy while g.hasPolicy is false
    applied,  \* g.applied
    active,   \* the unexpired rules of the last Apply; they give appliedUntil
    at,       \* when the timers of the table being installed were computed
    faults    \* failures and crashes so far

agent == <<phase, cause, desired, applied, active, at>>
kernel == <<nft, lag, wg>>
vars == <<now, disk, kernel, agent, faults>>

Policy == SUBSET Rule
NoPolicy == {NoRule}
Stored == Policy \cup {NoPolicy}
Phase == {"down", "init", "idle", "persist", "deny", "sync", "install", "poll", "ack"}

TypeOK ==
    /\ now \in Nat /\ lag \in Nat /\ at \in Nat /\ faults \in Nat
    /\ nft \in Policy /\ active \in Policy
    /\ disk \in Stored
    /\ desired \in Stored
    /\ applied \in Stored
    /\ wg \subseteq {r.device : r \in Rule}
    /\ phase \in Phase /\ cause \in {"init", "retry", "update"}

Init ==
    /\ now = 0 /\ disk = NoPolicy /\ faults = 0
    /\ nft = {} /\ lag = 0 /\ wg = {}
    /\ phase = "down" /\ cause = "init" /\ at = 0
    /\ desired = NoPolicy /\ applied = NoPolicy /\ active = {}

-----------------------------------------------------------------------------
Active(p, t) == {r \in p : r.expires > t}
Devices_Rules(p) == p
Devices(p) == {r.device : r \in p}

(* The table's timers were computed at time at and started at now. *)
Forwards(r) == r \in nft /\ r.device \in wg /\ now < r.expires + lag
UntilPassed_Last == active # {} /\ \A r \in active : r.expires <= now
UntilPassed == \E r \in active : r.expires <= now

(* The process is gone and with it everything it held in memory. *)
Stop == phase' = "down" /\ desired' = NoPolicy /\ applied' = NoPolicy /\ active' = {}

(* An error of Apply: Init's makes the process exit, Tick's waits for the next tick. *)
Error_KeepsApplied ==
    IF cause = "init" THEN Stop
    ELSE phase' = "idle" /\ UNCHANGED <<desired, applied, active>>
Error ==
    IF cause = "init" THEN Stop
    ELSE phase' = "idle" /\ applied' = NoPolicy /\ UNCHANGED <<desired, active>>

Fault == faults < MaxFaults /\ faults' = faults + 1
(* A command that failed, or was killed at its timeout, may have taken effect. *)
DenyAttempted == nft' \in {nft, {}} /\ UNCHANGED <<lag, wg>>

-----------------------------------------------------------------------------
Start == phase = "down" /\ phase' = "init"
         /\ UNCHANGED <<now, disk, kernel, cause, desired, applied, active, at, faults>>

(* Init denies all forwarding, prepares key and interface, loads policy.json. *)
InitDeny ==
    /\ phase = "init"
    /\ nft' = {} /\ desired' = disk /\ cause' = "init"
    /\ phase' = IF disk = NoPolicy THEN "idle" ELSE "persist"
    /\ UNCHANGED <<now, disk, lag, wg, applied, active, at, faults>>
InitFails == phase = "init" /\ Fault /\ DenyAttempted /\ Stop
             /\ UNCHANGED <<now, disk, cause, at>>

(* The start of Tick: local repair and removal of expired peers come first. *)
TickBegins_NoRepair ==
    /\ phase = "idle"
    /\ IF desired # NoPolicy /\ UntilPassed
       THEN phase' = "persist" /\ cause' = "retry"
       ELSE phase' = "poll" /\ UNCHANGED cause
    /\ UNCHANGED <<now, disk, kernel, desired, applied, active, at, faults>>
TickBegins ==
    /\ phase = "idle"
    /\ IF desired # NoPolicy /\ (applied = NoPolicy \/ UntilPassed)
       THEN phase' = "persist" /\ cause' = "retry"
       ELSE phase' = "poll" /\ UNCHANGED cause
    /\ UNCHANGED <<now, disk, kernel, desired, applied, active, at, faults>>

Persist_NotWritten ==
    phase = "persist" /\ phase' = "deny"
    /\ UNCHANGED <<now, disk, kernel, cause, desired, applied, active, at, faults>>
Persist == phase = "persist" /\ disk' = desired /\ phase' = "deny"
           /\ UNCHANGED <<now, kernel, cause, desired, applied, active, at, faults>>
(* atomicFile failed, before its rename or after it; Apply still denies. *)
PersistFails == phase = "persist" /\ Fault /\ disk' \in {disk, desired} /\ DenyAttempted /\ Error
                /\ UNCHANGED <<now, cause, at>>

Deny_Skipped ==
    /\ phase = "deny"
    /\ applied' = NoPolicy
    /\ active' = Active(desired, now) /\ phase' = "sync"
    /\ UNCHANGED <<now, disk, nft, lag, wg, cause, desired, at, faults>>
Deny ==
    /\ phase = "deny"
    /\ nft' = {} /\ applied' = NoPolicy
    /\ active' = Active(desired, now) /\ phase' = "sync"
    /\ UNCHANGED <<now, disk, lag, wg, cause, desired, at, faults>>
DenyFails == phase = "deny" /\ Fault /\ DenyAttempted /\ Error
             /\ UNCHANGED <<now, disk, cause, at>>

Sync_OldClock ==
    /\ phase = "sync"
    /\ wg' = Devices(active) /\ phase' = "install"
    /\ UNCHANGED <<now, disk, nft, lag, cause, desired, applied, active, at, faults>>
Sync ==
    /\ phase = "sync"
    /\ wg' = Devices(active) /\ at' = now /\ phase' = "install"
    /\ UNCHANGED <<now, disk, nft, lag, cause, desired, applied, active, faults>>
SyncFails == phase = "sync" /\ Fault /\ wg' \in {wg, Devices(active)} /\ Error
             /\ UNCHANGED <<now, disk, nft, lag, cause, at>>

Ruleset == nft' = Active(active, at) /\ lag' = now - at
Install ==
    /\ phase = "install"
    /\ Ruleset /\ applied' = desired
    /\ phase' = CASE cause = "init" -> "idle" [] cause = "retry" -> "poll" [] OTHER -> "ack"
    /\ UNCHANGED <<now, disk, wg, cause, desired, active, at, faults>>
InstallFails == phase = "install" /\ Fault /\ (Ruleset \/ UNCHANGED <<nft, lag>>) /\ Error
                /\ UNCHANGED <<now, disk, wg, cause, at>>

(* The portal answered the poll with policy p. *)
Receive_OnceOnly(p) ==
    /\ phase = "poll"
    /\ IF desired = NoPolicy \/ applied = NoPolicy
       THEN desired' = p /\ phase' = "persist" /\ cause' = "update"
       ELSE phase' = "ack" /\ UNCHANGED <<desired, cause>>
    /\ UNCHANGED <<now, disk, kernel, applied, active, at, faults>>
Receive(p) ==
    /\ phase = "poll"
    /\ IF desired = NoPolicy \/ p # applied
       THEN desired' = p /\ phase' = "persist" /\ cause' = "update"
       ELSE phase' = "ack" /\ UNCHANGED <<desired, cause>>
    /\ UNCHANGED <<now, disk, kernel, applied, active, at, faults>>
(* No portal, no answer before the client's timeout, or an invalid one. *)
PollFails == phase = "poll" /\ phase' = "idle"
             /\ UNCHANGED <<now, disk, kernel, cause, desired, applied, active, at, faults>>

(* The acknowledgment of applied was accepted, was rejected, or got no answer. *)
AckReturns == phase = "ack" /\ phase' = "idle"
              /\ UNCHANGED <<now, disk, kernel, cause, desired, applied, active, at, faults>>

(* The process dies; with its container, the kernel objects go too. *)
Crash ==
    /\ phase # "down" /\ Fault /\ Stop
    /\ UNCHANGED kernel \/ (nft' = {} /\ wg' = {} /\ UNCHANGED lag)
    /\ UNCHANGED <<now, disk, cause, at>>

(* Time passes; a firewall command outlives CmdTimeout only by failing. *)
Clock == now < MaxTime /\ (phase = "install" => now < at + CmdTimeout) /\ now' = now + 1
         /\ UNCHANGED <<disk, kernel, agent, faults>>

-----------------------------------------------------------------------------
Work == Start \/ InitDeny \/ TickBegins \/ Persist \/ Deny \/ Sync \/ Install \/ AckReturns
PollReturns == PollFails \/ \E p \in Policy : Receive(p)
Failure == InitFails \/ PersistFails \/ DenyFails \/ SyncFails \/ InstallFails \/ Crash

Next == Work \/ PollReturns \/ Failure \/ Clock

Spec == Init /\ [][Next]_vars
(* The loop of main, its supervisor (restart: unless-stopped) and the client's
   timeout keep the agent moving; that the portal ever answers is not assumed. *)
FairSpec == Spec /\ WF_vars(Work) /\ WF_vars(PollReturns)

-----------------------------------------------------------------------------
Forwarded == {r \in nft : Forwards(r)}

(* What the agent believes applied, and will acknowledge, is what the kernel does:
   of the rules not yet expired it forwards exactly those of the applied policy,
   whatever commands failed or took effect late on the way there (gateway.go:152-202). *)
AppliedIsEnforced ==
    applied # NoPolicy => Active(Forwarded, now) = Active(applied, now)

(* A rule starts being forwarded only if the policy on disk has it, so a restart
   finds no policy older than the one in force (gateway.go:159-165). *)
OnlyPersistedIsInstalled == [][nft' \ nft \subseteq disk]_vars

(* A new peer list never meets an old firewall table: peers change only while
   all forwarding is denied, or because the whole container went (gateway.go:166-188). *)
PeersChangeUnderDeny == [][wg' # wg => nft' = {}]_vars

(* Whatever happens to portal and agent, no packet is forwarded later than one
   command timeout after its rule's recorded expiry (policy.go:155-171, gateway.go:187). *)
ExpiryIsEnforced == \A r \in Forwarded : now < r.expires + CmdTimeout

(* An agent that holds a policy gets it applied, unless it dies, and drops peers
   without unexpired rules: with or without a portal (gateway.go:220-227). *)
LocalRepair ==
    /\ desired # NoPolicy ~> (applied # NoPolicy \/ phase = "down")
    /\ \A d \in Devices(Rule) :
        (d \in wg /\ phase # "down" /\ \A r \in Rule : r.device = d => r.expires <= now)
            ~> (d \notin wg \/ phase = "down")

=============================================================================
