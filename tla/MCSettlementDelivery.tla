------------------------ MODULE MCSettlementDelivery ------------------------
(* Instances of SettlementDelivery for TLC: tasks are model values.        *)
EXTENDS SettlementDelivery
=============================================================================
