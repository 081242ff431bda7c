---------------------------- MODULE MCDeviceAccess ----------------------------
(* Two devices of one member; requests g1 for destination t1 of service s1 and *)
(* g2 for destination t2 of service s2, both from device a1.                   *)
EXTENDS DeviceAccess

CONSTANTS m1, s1, s2, t1, t2, a1, a2, g1, g2, x1, x2

MCOwnerOf == [d \in Device |-> m1]
MCDeviceOf == [g \in Grant |-> a1]
MCTargetOf == [g \in Grant |-> IF g = g2 THEN t2 ELSE t1]
MCServiceOf == [t \in Target |-> IF t = t2 THEN s2 ELSE s1]

(* Only destination t1 is edited or disabled after it was defined, and only    *)
(* service s1 is hidden, or, while t1 is unedited, withheld from the member;   *)
(* none is archived, and acknowledgments are handled while no request is in    *)
(* progress and no form awaits a decision: other states are not expanded.      *)
OneIsEdited ==
    /\ target[t2].version <= 1 /\ (target[t2].version = 1 => target[t2].enabled /\ target[t2].dest = x1)
    /\ live[s1] # "archived" /\ live[s2] = "published" /\ audience[s2] = {m1}
    /\ audience[s1] = {} => live[s1] = "published" /\ target[t1].version <= 1
    /\ ack # None => call = None /\ (review # None => grant[review.grant].state # "Pending")
=============================================================================
