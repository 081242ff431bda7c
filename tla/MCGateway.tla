------------------------------ MODULE MCGateway ------------------------------
(* Two devices, three permissions: two of one device that expire one after the *)
(* other, and one of the other device.                                         *)
EXTENDS Gateway

CONSTANTS d1, d2

MCRule == {[grant |-> 1, device |-> d1, expires |-> 2],
           [grant |-> 2, device |-> d1, expires |-> 3],
           [grant |-> 3, device |-> d2, expires |-> 2]}
=============================================================================
