---------------------------- MODULE MCConnections ----------------------------
(* Instances for TLC of what runs while clients are connected: the watch   *)
(* over open deliveries, the subscriptions of a connection, and a session  *)
(* of the hub.  They share no state; a behaviour belongs to one of them,   *)
(* its part.                                                               *)
EXTENDS OpenDeliveryWatch, Subscriptions, HubSession, TLC

CONSTANTS l1, l2, l3, w1, c1, c2

VARIABLE part

vars == <<part, watchVars, subVars, hubVars>>

OfWatch(A) == part = "watch" /\ A /\ UNCHANGED <<part, subVars, hubVars>>
OfSubs(A) == part = "subs" /\ A /\ UNCHANGED <<part, watchVars, hubVars>>
OfHub(A) == part = "hub" /\ A /\ UNCHANGED <<part, watchVars, subVars>>

Init == part \in {"watch", "subs", "hub"} /\ WatchInit /\ SubInit /\ HubInit
Next == OfWatch(WatchNext) \/ OfSubs(SubNext) \/ OfHub(HubNext)

\* WatchFairness, SubFairness and HubFairness: as a behaviour keeps to its part, the fairness of an
\* action of one part can be stated together with that of actions of the others.
Fairness ==
    /\ WF_vars(OfWatch(NotifyIntelDeliveryChanged) \/ OfSubs(Close) \/ OfHub(HubServe))
    /\ WF_vars(OfWatch(WatcherNext(w1)) \/ OfSubs(LoopNext) \/ OfHub(HubClient))
    /\ WF_vars(OfWatch(Tick(w1)) \/ OfSubs(SubscriptionNext(1)) \/ OfHub(HubToChannel))
    /\ WF_vars(OfWatch(ListenerNext(l1)) \/ OfSubs(SubscriptionNext(2)) \/ OfHub(HubLink(c1)))
    /\ WF_vars(OfWatch(ListenerNext(l2)) \/ OfSubs(SubscriptionNext(3)) \/ OfHub(HubLink(c2)))
    /\ WF_vars(OfWatch(ListenerNext(l3)) \/ OfHub(HubToClient(c1)))
    /\ WF_vars(OfHub(HubToClient(c2)))

Spec == Init /\ [][Next]_vars /\ Fairness

TypesOK == WatchTypeOK /\ SubTypeOK /\ HubTypeOK

\* A connection that has ended ends everything that belongs to it.
ConnectionsEnd == SubscriptionsEnd /\ SessionsEndTogether
=============================================================================
