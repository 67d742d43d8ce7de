------------------------------- MODULE MCInbox -------------------------------
(* An instance of Inbox for TLC: two entities on one topic.                *)
EXTENDS Inbox, TLC

CONSTANTS s1, s2, t1

OneTopic == s1 :> t1 @@ s2 :> t1
NoNeeds == [s \in Segments |-> {}]
=============================================================================
