---------------------------- MODULE MCMailOutbox ----------------------------
(* An invitation, which carries a link, and a notification behind it. *)
EXTENDS MailOutbox

MCKindOf == [m \in Message |-> IF m = 1 THEN "invite" ELSE "notification"]
=============================================================================
