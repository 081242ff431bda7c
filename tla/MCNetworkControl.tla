--------------------------- MODULE MCNetworkControl ---------------------------
(* One member, one device, one destination, requests g1 and perhaps g2. *)
EXTENDS NetworkControl

CONSTANTS m1, s1, t1, a1, g1, g2

MCOwnerOf == [d \in Device |-> m1]
MCDeviceOf == [g \in Grant |-> a1]
MCTargetOf == [g \in Grant |-> t1]
MCServiceOf == [t \in Target |-> s1]

(* An archived service is one that stays hidden: those states are not expanded. *)
NotArchived == \A s \in Service : live[s] # "archived"

(* The same for liveness, where a constraint would cut behaviours short: the   *)
(* behaviours of NetFairSpec that archive nothing.  No fair action archives.   *)
UnarchivedFairSpec == NetInit /\ [][NetNext /\ NotArchived']_system /\ NetFairness
=============================================================================
