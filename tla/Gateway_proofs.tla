--------------------------- MODULE Gateway_proofs ---------------------------
(***************************************************************************)
(* The safety properties of the gateway agent hold for every set of rules, *)
(* every command timeout and any number of failures and crashes.  They     *)
(* follow from one inductive invariant, IInv.                              *)
(***************************************************************************)
EXTENDS Gateway, TLAPS

(* The timers of a table run at most one command timeout past the expiries. *)
Timing ==
    /\ at <= now /\ lag <= CmdTimeout
    /\ phase = "install" => now <= at + CmdTimeout

(* What each stage of Apply has established, and the stages before it. *)
Stages ==
    /\ phase \in {"down", "init"} => applied = NoPolicy
    /\ phase \in {"persist", "deny", "sync", "install"} => desired \in Policy
    /\ phase \in {"deny", "sync", "install"} => disk = desired
    /\ phase \in {"sync", "install"} =>
        /\ nft = {} /\ applied = NoPolicy /\ active \subseteq desired
    /\ phase = "sync" => \A r \in desired : r.expires > now => r \in active
    /\ phase = "install" =>
        /\ wg = Devices(active)
        /\ \A r \in desired : r.expires > at => r \in active

(* An applied policy is in the kernel, but for what has expired. *)
Enforcement ==
    applied # NoPolicy =>
        /\ nft \subseteq applied
        /\ \A r \in applied : r.expires > now => r \in nft /\ r.device \in wg

IInv == TypeOK /\ Timing /\ Stages /\ Enforcement

-----------------------------------------------------------------------------
(* The empty revision is the revision of no policy. *)
LEMMA NoPolicyIsNone == NoPolicy \notin Policy
BY NoRuleAssumption DEF NoPolicy, Policy

LEMMA InitIInv == Init => IInv
BY RuleAssumption, BoundAssumption, NoPolicyIsNone
   DEF Init, IInv, TypeOK, Timing, Stages, Enforcement, Stored, Policy, Phase, Devices

(* Each step of the agent, each failure and the clock preserve IInv. *)
LEMMA NextIInv == IInv /\ [Next]_vars => IInv'
<1> SUFFICES ASSUME IInv, [Next]_vars PROVE IInv'
  OBVIOUS
<1> USE RuleAssumption, BoundAssumption, NoPolicyIsNone
    DEF IInv, TypeOK, Timing, Stages, Enforcement, Stored, Phase, kernel, agent
<1>1. CASE Start BY <1>1 DEF Start
<1>2. CASE InitDeny BY <1>2 DEF InitDeny, Policy
<1>3. CASE TickBegins BY <1>3 DEF TickBegins
<1>4. CASE Persist BY <1>4 DEF Persist
<1>5. CASE Deny BY <1>5 DEF Deny, Active, Policy
<1>6. CASE Sync BY <1>6 DEF Sync, Devices, Policy
<1>7. CASE Install BY <1>7 DEF Install, Ruleset, Active, Devices, Policy
<1>8. CASE AckReturns BY <1>8 DEF AckReturns
<1>9. CASE PollFails BY <1>9 DEF PollFails
<1>10. ASSUME NEW p \in Policy, Receive(p) PROVE IInv' BY <1>10 DEF Receive
<1>11. CASE InitFails BY <1>11 DEF InitFails, Fault, DenyAttempted, Stop, Policy
<1>12. CASE PersistFails BY <1>12 DEF PersistFails, Fault, DenyAttempted, Error, Stop, Policy
<1>13. CASE DenyFails BY <1>13 DEF DenyFails, Fault, DenyAttempted, Error, Stop, Policy
<1>14. CASE SyncFails BY <1>14 DEF SyncFails, Fault, Error, Stop, Devices, Policy
<1>15. CASE InstallFails BY <1>15 DEF InstallFails, Fault, Ruleset, Error, Stop, Active, Policy
<1>16. CASE Crash BY <1>16 DEF Crash, Fault, Stop, Policy
<1>17. CASE Clock BY <1>17 DEF Clock, Policy, Devices
<1>18. CASE UNCHANGED vars BY <1>18 DEF vars
<1>19. QED
  BY <1>1, <1>2, <1>3, <1>4, <1>5, <1>6, <1>7, <1>8, <1>9, <1>10, <1>11, <1>12, <1>13,
     <1>14, <1>15, <1>16, <1>17, <1>18 DEF Next, Work, PollReturns, Failure

(* IInv holds throughout every execution of the agent. *)
THEOREM Invariance == Spec => []IInv
BY InitIInv, NextIInv, PTL DEF Spec

(* Every variable keeps its type. *)
THEOREM TypeCorrect == Spec => []TypeOK
BY Invariance, PTL DEF IInv

(* What the agent will acknowledge is what the kernel forwards, however many
   commands failed, were killed, or took effect although they failed. *)
THEOREM AppliedEnforced == Spec => []AppliedIsEnforced
<1>1. IInv => AppliedIsEnforced
  <2> SUFFICES ASSUME IInv, applied # NoPolicy, NEW r \in Rule, r.expires > now
               PROVE  r \in Forwarded <=> r \in applied
    BY RuleAssumption DEF IInv, TypeOK, Stored, Policy, AppliedIsEnforced, Active, Forwarded
  <2>1. CASE r \in applied
    BY <2>1, RuleAssumption DEF IInv, TypeOK, Enforcement, Forwarded, Forwards
  <2>2. CASE r \notin applied
    BY <2>2 DEF IInv, Enforcement, Forwarded
  <2>3. QED BY <2>1, <2>2
<1>2. QED BY <1>1, Invariance, PTL

(* No packet is forwarded later than one command timeout after its rule's expiry. *)
THEOREM ExpiryEnforced == Spec => []ExpiryIsEnforced
<1>1. IInv => ExpiryIsEnforced
  <2> SUFFICES ASSUME IInv, NEW r \in nft, now < r.expires + lag
               PROVE  now < r.expires + CmdTimeout
    BY DEF ExpiryIsEnforced, Forwarded, Forwards
  <2>1. r.expires \in Nat
    BY RuleAssumption DEF IInv, TypeOK, Policy
  <2>2. QED BY <2>1, BoundAssumption DEF IInv, TypeOK, Timing
<1>2. QED BY <1>1, Invariance, PTL

(* A rule that starts being forwarded is in the policy on disk. *)
THEOREM PersistedFirst == Spec => OnlyPersistedIsInstalled
<1>1. IInv /\ [Next]_vars => [nft' \ nft \subseteq disk]_vars
  <2> SUFFICES ASSUME IInv, Next PROVE nft' \ nft \subseteq disk
    OBVIOUS
  <2> USE DEF kernel
  <2>1. CASE Install \/ InstallFails
    BY <2>1 DEF Install, InstallFails, Ruleset, Active, IInv, Stages
  <2>2. CASE Failure
    BY <2>1, <2>2 DEF Failure, InitFails, PersistFails, DenyFails, SyncFails, Crash, DenyAttempted
  <2>3. CASE Work
    BY <2>1, <2>3 DEF Work, Start, InitDeny, TickBegins, Persist, Deny, Sync, AckReturns
  <2>4. CASE PollReturns BY <2>4 DEF PollReturns, PollFails, Receive
  <2>5. CASE Clock BY <2>5 DEF Clock
  <2>6. QED BY <2>2, <2>3, <2>4, <2>5 DEF Next
<1>2. QED BY <1>1, Invariance, PTL DEF Spec, OnlyPersistedIsInstalled

(* The peer list changes only while no packet is forwarded. *)
THEOREM PeersUnderDeny == Spec => PeersChangeUnderDeny
<1>1. IInv /\ [Next]_vars => [wg' # wg => nft' = {}]_vars
  <2> SUFFICES ASSUME IInv, Next, wg' # wg PROVE nft' = {}
    BY DEF vars, kernel
  <2> USE DEF kernel
  <2>1. CASE Sync \/ SyncFails BY <2>1 DEF Sync, SyncFails, IInv, Stages
  <2>2. CASE Crash BY <2>2 DEF Crash
  <2>3. CASE Work
    BY <2>1, <2>3 DEF Work, Start, InitDeny, TickBegins, Persist, Deny, Install, AckReturns
  <2>4. CASE Failure
    BY <2>1, <2>2, <2>4
       DEF Failure, InitFails, PersistFails, DenyFails, InstallFails, DenyAttempted
  <2>5. CASE PollReturns BY <2>5 DEF PollReturns, PollFails, Receive
  <2>6. CASE Clock BY <2>6 DEF Clock
  <2>7. QED BY <2>3, <2>4, <2>5, <2>6 DEF Next
<1>2. QED BY <1>1, Invariance, PTL DEF Spec, PeersChangeUnderDeny

=============================================================================
