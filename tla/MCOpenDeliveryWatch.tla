------------------------ MODULE MCOpenDeliveryWatch ------------------------
(* Instances of OpenDeliveryWatch for TLC.                                 *)
EXTENDS OpenDeliveryWatch, TLC

Symmetric == Permutations(Listeners) \cup Permutations(Watchers)
=============================================================================
