--------------------------- MODULE MCDeliveryQueue ---------------------------
(***************************************************************************)
(* Two deliveries, of which "b" is best effort.                             *)
(***************************************************************************)
EXTENDS DeliveryQueue, TLC

TwoDeliveries == {"a", "b"}
OnlyB == {"b"}
=============================================================================
