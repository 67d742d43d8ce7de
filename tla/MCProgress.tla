----------------------------- MODULE MCProgress -----------------------------
(* Instances for TLC of what has to go on for ever: the inbox and the      *)
(* notifications within the app.  They share no state; a behaviour belongs *)
(* to one of them, its part.                                               *)
EXTENDS Inbox, InAppNotifier, TLC

CONSTANTS s1, s2, s3, t1, t2, p1, w1, w2, n1, c1, u1

VARIABLE part

vars == <<part, inboxVars, inAppVars>>

\* s1 and s2 share a topic, s3 has its own.
TwoTopics == s1 :> t1 @@ s2 :> t1 @@ s3 :> t2
\* Events about s2 refer to the entity of s3, which another service owns.
CrossTopicNeeds == [s \in Segments |-> IF s = s2 THEN {s3} ELSE {}]
OneNote == n1 :> 1
OneConn == c1 :> u1

OfInbox(A) == part = "inbox" /\ A /\ UNCHANGED <<part, inAppVars>>
OfApp(A) == part = "app" /\ A /\ UNCHANGED <<part, inboxVars>>

Init == part \in {"inbox", "app"} /\ InboxInit /\ InAppInit
Next == OfInbox(InboxNext) \/ OfApp(InAppNext)

\* ConsumerFairness and InAppFairness: as a behaviour keeps to its part, the fairness of an action
\* of one part can be stated together with that of an action of the other.
Fairness ==
    /\ WF_vars(OfInbox(Read) \/ OfApp(RequestPeriodic \/ EndPeriodic))
    /\ WF_vars(OfInbox(ProcessIncoming(p1)) \/ OfApp(TakeRequest(w1) \/ LookUp(w1)))
    /\ WF_vars(OfApp(TakeRequest(w2) \/ LookUp(w2)))
    /\ WF_vars(OfApp(AcceptNewConnection(c1) \/ removeConnWhenDone(c1)))
    /\ SF_vars(OfInbox(FetchMessage(t1)) \/ OfApp(StartPeriodic))
    /\ SF_vars(OfInbox(FetchMessage(t2)) \/ OfApp(LockConnections(w1)))
    /\ SF_vars(OfInbox(QueryRandomNext(p1, s1)) \/ OfApp(LockConnections(w2)))
    /\ SF_vars(OfInbox(QueryRandomNext(p1, s2)) \/ OfApp(RecordSent(w1)))
    /\ SF_vars(OfInbox(QueryRandomNext(p1, s3)) \/ OfApp(RecordSent(w2)))

Spec == Init /\ [][Next]_vars /\ Fairness
=============================================================================
