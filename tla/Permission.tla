------------------------------ MODULE Permission ------------------------------
(***************************************************************************)
(* What the portal promises of a network permission, whatever handler moves *)
(* it (docs/vpn.md, "The network request lifecycle"): it is requested once, *)
(* approved or denied once, its approved terms never change while it is     *)
(* approved, it expires only when its time is over, an ended permission     *)
(* never comes back, and every move counts its version up by one.  One step *)
(* may move any number of permissions.                                      *)
(***************************************************************************)
EXTENDS Naturals

CONSTANTS Grant, Dest, None, MaxLife

VARIABLES now, permission

vars == <<now, permission>>

State(g) == permission[g].state
Ended == {"Denied", "Revoked", "Expired"}

Init ==
    /\ now = 0
    /\ permission = [g \in Grant |-> [state |-> "none", version |-> 0, dest |-> None, expires |-> 0]]

Requested(g) ==
    /\ State(g) = "none"
    /\ permission'[g] = [state |-> "Pending", version |-> 1, dest |-> None, expires |-> 0]

Moves(g, s) ==
    /\ permission'[g].state = s
    /\ permission'[g].version = permission[g].version + 1

Approved(g) ==
    /\ State(g) = "Pending" /\ Moves(g, "Approved")
    /\ permission'[g].dest \in Dest
    /\ permission'[g].expires \in now..(now + MaxLife)
Denied(g) == State(g) = "Pending" /\ Moves(g, "Denied")
(* A revoked device takes requests still pending with it. *)
Revoked(g) == State(g) \in {"Pending", "Approved"} /\ Moves(g, "Revoked")
Expired(g) == State(g) = "Approved" /\ permission[g].expires <= now /\ Moves(g, "Expired")

Next ==
    /\ now' >= now
    /\ \A g \in Grant :
        \/ permission'[g] = permission[g]
        \/ Requested(g) \/ Approved(g) \/ Denied(g) \/ Revoked(g) \/ Expired(g)

Spec == Init /\ [][Next]_vars
=============================================================================
