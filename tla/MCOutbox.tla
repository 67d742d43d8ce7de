------------------------------ MODULE MCOutbox ------------------------------
(* An instance of Outbox for TLC: two entities, on two topics.             *)
EXTENDS Outbox, TLC

CONSTANTS s1, s2, t1, t2

TwoTopics == s1 :> t1 @@ s2 :> t2
=============================================================================
