-------------------------- MODULE MCGatewayRestart --------------------------
EXTENDS GatewayRestart

CONSTANTS d1, d2

MCRule == {[grant |-> 1, device |-> d1, expires |-> 2],
           [grant |-> 2, device |-> d2, expires |-> 1]}
=============================================================================
