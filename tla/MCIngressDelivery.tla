-------------------------- MODULE MCIngressDelivery --------------------------
(***************************************************************************)
(* Instances of IngressDelivery for TLC.                                   *)
(***************************************************************************)
EXTENDS IngressDelivery, TLC

CONSTANTS i1, i2, d1, d2

OneInstance   == {i1}
TwoInstances  == {i1, i2}
OneDelivery   == {d1}
TwoDeliveries == {d1, d2}
OneEarlier    == {<<i2, d1>>}
=============================================================================
