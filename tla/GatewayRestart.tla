--------------------------- MODULE GatewayRestart ---------------------------
(* The gateway agent with a history variable, to check what its comments say of *)
(* policies received before a restart.                                          *)
EXTENDS Gateway

VARIABLE received  \* history: the last policy decoded from the portal

RInit == Init /\ received = NoPolicy
(* Receive(p) leaves p in desired, whether or not it has to be applied. *)
Decoded == phase = "poll" /\ phase' \in {"persist", "ack"}
RNext == Next /\ received' = IF Decoded THEN desired' ELSE received
RSpec == RInit /\ [][RNext]_<<vars, received>>

(* The claim of gateway.go:159-160 and docs/vpn.md:55: once the agent has received
   a policy, a rule the policy lacks does not start being forwarded. *)
ReceivedRevocationHolds ==
    [][received # NoPolicy => nft' \ nft \subseteq received]_<<vars, received>>

=============================================================================
