--------------------------- MODULE MCAlertDelivery ----------------------------
(***************************************************************************)
(* Instances of AlertDelivery for TLC (a pair cannot be written in a cfg). *)
(***************************************************************************)
EXTENDS AlertDelivery, TLC

CONSTANTS a1, a2, r1, r2

OneAlert == {a1}
TwoAlerts == {a1, a2}
OneRecipient == {r1}
TwoRecipients == {r1, r2}
OneDelivery == {a1} \X {r1}
FourDeliveries == {a1, a2} \X {r1, r2}
===============================================================================
