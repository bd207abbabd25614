----------------------------- MODULE MCDelivery -----------------------------
(* Instances of Delivery for TLC.                                          *)
EXTENDS Delivery, TLC

CONSTANTS m1, m2, k1, k2

(* Each message carries an id of its own.                                  *)
DistinctKeys == m1 :> k1 @@ m2 :> k2
=============================================================================
