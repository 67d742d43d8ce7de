-------------------------- MODULE MCRadioDelivery --------------------------
(* Instances of RadioDelivery for TLC.                                     *)
EXTENDS RadioDelivery, TLC

CONSTANTS a1, a2, u1, u2

\* The older attempt is the less important one.
TwoImportances == a1 :> 0 @@ a2 :> 1
TwoAges == a1 :> 0 @@ a2 :> 1

\* A user joins and leaves the operation.
OneJoins == {{u1}, {u1, u2}}
=============================================================================
