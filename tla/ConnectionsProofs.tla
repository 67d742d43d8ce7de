----------------------- MODULE ConnectionsProofs -----------------------
(***************************************************************************)
(* Proofs about what runs while clients are connected, for any number of  *)
(* listeners, watchers, operations, messages, channels and faults: no      *)
(* change is lost between the database and the listeners, and a client     *)
(* that is left alone knows its subscriptions.                             *)
(***************************************************************************)
EXTENDS MCConnections, FiniteSetTheorems, SequenceTheorems, TLAPS

\* Watchers stay as WatcherInv says.
LEMMA WatcherStep ==
  ASSUME OpenDeliveryWatchAssumption, WatchTypeOK, WatcherInv, ListenerInv, WatchNext
  PROVE  WatcherInv'
  <1>1. ASSUME ChangeDeliveries PROVE WatcherInv'
    BY <1>1 DEF ChangeDeliveries, WatcherInv, ListenerInv, WatchTypeOK, Versions, watcherVars, listenerVars
  <1>2. ASSUME NotifyIntelDeliveryChanged PROVE WatcherInv'
    BY <1>2 DEF NotifyIntelDeliveryChanged, WakeWatcher, WatcherInv, ListenerInv, WatchTypeOK, Versions, watcherVars, listenerVars
  <1>3. ASSUME NEW w \in Watchers, Tick(w) PROVE WatcherInv'
    BY <1>3 DEF Tick, WakeWatcher, WatcherInv, ListenerInv, WatchTypeOK, Versions, watcherVars, listenerVars
  <1>4. ASSUME NEW w \in Watchers, AwaitNotify(w) PROVE WatcherInv'
    BY <1>4 DEF AwaitNotify, MoveWatcher, WatcherInv, ListenerInv, WatchTypeOK, Versions, watcherVars, listenerVars
  <1>5. ASSUME NEW w \in Watchers, ResetNotify(w) PROVE WatcherInv'
    BY <1>5 DEF ResetNotify, MoveWatcher, WatcherInv, ListenerInv, WatchTypeOK, Versions, watcherVars, listenerVars
  <1>6. ASSUME NEW w \in Watchers, Retrieve(w) PROVE WatcherInv'
    BY <1>6 DEF Retrieve, MoveWatcher, WatcherInv, ListenerInv, WatchTypeOK, Versions, watcherVars, listenerVars
  <1>7. ASSUME NEW w \in Watchers, RetrieveFails(w) PROVE WatcherInv'
    BY <1>7 DEF RetrieveFails, MoveWatcher, WatcherInv, ListenerInv, WatchTypeOK, Versions, watcherVars, listenerVars
  <1>8. ASSUME NEW w \in Watchers, Feed(w) PROVE WatcherInv'
    BY <1>8 DEF Feed, MoveWatcher, WatcherInv, ListenerInv, WatchTypeOK, Versions, watcherVars, listenerVars
  <1>9. ASSUME NEW l \in Listeners, Serve(l) PROVE WatcherInv'
    <2>1. CASE registered # NoWatcher
      BY <1>9, <2>1 DEF Serve, Register, WatcherInv, WatchTypeOK, watcherVars, listenerVars
    <2>2. CASE registered = NoWatcher
      <3>1. PICK w \in NewWatchers :
               /\ Register(l, w)
               /\ running' = [running EXCEPT ![w] = TRUE]
               /\ doNotify' = [doNotify EXCEPT ![w] = TRUE]
               /\ watcherPC' = [watcherPC EXCEPT ![w] = "check"]
        BY <1>9, <2>2 DEF Serve
      <3>2. w \in Watchers /\ registered' = w /\ UNCHANGED <<version, retrieved, current>>
        BY <3>1 DEF Register, NewWatchers
      <3> QED
        BY <3>1, <3>2 DEF WatcherInv, WatchTypeOK
    <2> QED
      BY <2>1, <2>2
  <1>10. ASSUME NEW l \in Listeners, Leave(l) PROVE WatcherInv'
    BY <1>10 DEF Leave, WatcherInv, ListenerInv, WatchTypeOK, Versions, watcherVars, listenerVars
  <1>11. ASSUME NEW l \in Listeners, AwaitUpdate(l) PROVE WatcherInv'
    BY <1>11 DEF AwaitUpdate, Cancelled, WatcherInv, ListenerInv, WatchTypeOK, Versions, watcherVars, listenerVars
  <1>12. ASSUME NEW l \in Listeners, SendOpenIntelDeliveries(l) PROVE WatcherInv'
    BY <1>12 DEF SendOpenIntelDeliveries, Cancelled, WatcherInv, ListenerInv, WatchTypeOK, Versions, watcherVars, listenerVars
  <1>13. ASSUME NEW l \in Listeners, SendFails(l) PROVE WatcherInv'
    BY <1>13 DEF SendFails, WatcherInv, ListenerInv, WatchTypeOK, Versions, watcherVars, listenerVars
  <1> QED
    BY <1>1, <1>2, <1>3, <1>4, <1>5, <1>6, <1>7, <1>8, <1>9, <1>10, <1>11, <1>12, <1>13
       DEF WatchNext, WatcherNext, ListenerNext

\* Listeners stay as ListenerInv says.
LEMMA ListenerStep ==
  ASSUME OpenDeliveryWatchAssumption, WatchTypeOK, WatcherInv, ListenerInv, WatchNext
  PROVE  ListenerInv'
  <1>1. ASSUME ChangeDeliveries PROVE ListenerInv'
    BY <1>1 DEF ChangeDeliveries, WatcherInv, ListenerInv, WatchTypeOK, Versions, OpenDeliveryWatchAssumption, watcherVars, listenerVars
  <1>2. ASSUME NotifyIntelDeliveryChanged PROVE ListenerInv'
    BY <1>2 DEF NotifyIntelDeliveryChanged, WakeWatcher, WatcherInv, ListenerInv, WatchTypeOK, Versions, OpenDeliveryWatchAssumption, watcherVars, listenerVars
  <1>3. ASSUME NEW w \in Watchers, Tick(w) PROVE ListenerInv'
    BY <1>3 DEF Tick, WakeWatcher, WatcherInv, ListenerInv, WatchTypeOK, Versions, OpenDeliveryWatchAssumption, watcherVars, listenerVars
  <1>4. ASSUME NEW w \in Watchers, AwaitNotify(w) PROVE ListenerInv'
    BY <1>4 DEF AwaitNotify, MoveWatcher, WatcherInv, ListenerInv, WatchTypeOK, Versions, OpenDeliveryWatchAssumption, watcherVars, listenerVars
  <1>5. ASSUME NEW w \in Watchers, ResetNotify(w) PROVE ListenerInv'
    BY <1>5 DEF ResetNotify, MoveWatcher, WatcherInv, ListenerInv, WatchTypeOK, Versions, OpenDeliveryWatchAssumption, watcherVars, listenerVars
  <1>6. ASSUME NEW w \in Watchers, Retrieve(w) PROVE ListenerInv'
    BY <1>6 DEF Retrieve, MoveWatcher, WatcherInv, ListenerInv, WatchTypeOK, Versions, OpenDeliveryWatchAssumption, watcherVars, listenerVars
  <1>7. ASSUME NEW w \in Watchers, RetrieveFails(w) PROVE ListenerInv'
    BY <1>7 DEF RetrieveFails, MoveWatcher, WatcherInv, ListenerInv, WatchTypeOK, Versions, OpenDeliveryWatchAssumption, watcherVars, listenerVars
  <1>8. ASSUME NEW w \in Watchers, Feed(w) PROVE ListenerInv'
    BY <1>8 DEF Feed, MoveWatcher, WatcherInv, ListenerInv, WatchTypeOK, Versions, OpenDeliveryWatchAssumption, watcherVars, listenerVars
  <1>9. ASSUME NEW l \in Listeners, Serve(l) PROVE ListenerInv'
    BY <1>9 DEF Serve, Register, NewWatchers, WatcherInv, ListenerInv, WatchTypeOK, Versions, OpenDeliveryWatchAssumption, watcherVars, listenerVars
  <1>10. ASSUME NEW l \in Listeners, Leave(l) PROVE ListenerInv'
    BY <1>10 DEF Leave, WatcherInv, ListenerInv, WatchTypeOK, Versions, OpenDeliveryWatchAssumption, watcherVars, listenerVars
  <1>11. ASSUME NEW l \in Listeners, AwaitUpdate(l) PROVE ListenerInv'
    BY <1>11 DEF AwaitUpdate, Cancelled, WatcherInv, ListenerInv, WatchTypeOK, Versions, OpenDeliveryWatchAssumption, watcherVars, listenerVars
  <1>12. ASSUME NEW l \in Listeners, SendOpenIntelDeliveries(l) PROVE ListenerInv'
    BY <1>12 DEF SendOpenIntelDeliveries, Cancelled, WatcherInv, ListenerInv, WatchTypeOK, Versions, OpenDeliveryWatchAssumption, watcherVars, listenerVars
  <1>13. ASSUME NEW l \in Listeners, SendFails(l) PROVE ListenerInv'
    BY <1>13 DEF SendFails, WatcherInv, ListenerInv, WatchTypeOK, Versions, OpenDeliveryWatchAssumption, watcherVars, listenerVars
  <1> QED
    BY <1>1, <1>2, <1>3, <1>4, <1>5, <1>6, <1>7, <1>8, <1>9, <1>10, <1>11, <1>12, <1>13
       DEF WatchNext, WatcherNext, ListenerNext

\* No step loses a change.
LEMMA ChangeStep ==
  ASSUME OpenDeliveryWatchAssumption, WatchTypeOK, WatcherInv, ListenerInv, NoLostChange, WatchNext
  PROVE  NoLostChange'
  <1>1. ASSUME ChangeDeliveries PROVE NoLostChange'
    BY <1>1 DEF ChangeDeliveries, WatcherInv, NoLostChange, WatchTypeOK, Versions, watcherVars, listenerVars
  <1>2. ASSUME NotifyIntelDeliveryChanged PROVE NoLostChange'
    BY <1>2 DEF NotifyIntelDeliveryChanged, WakeWatcher, WatcherInv, NoLostChange, WatchTypeOK, Versions, watcherVars, listenerVars
  <1>3. ASSUME NEW w \in Watchers, Tick(w) PROVE NoLostChange'
    BY <1>3 DEF Tick, WakeWatcher, WatcherInv, NoLostChange, WatchTypeOK, Versions, watcherVars, listenerVars
  <1>4. ASSUME NEW w \in Watchers, AwaitNotify(w) PROVE NoLostChange'
    BY <1>4 DEF AwaitNotify, MoveWatcher, WatcherInv, NoLostChange, WatchTypeOK, Versions, watcherVars, listenerVars
  <1>5. ASSUME NEW w \in Watchers, ResetNotify(w) PROVE NoLostChange'
    BY <1>5 DEF ResetNotify, MoveWatcher, WatcherInv, NoLostChange, WatchTypeOK, Versions, watcherVars, listenerVars
  <1>6. ASSUME NEW w \in Watchers, Retrieve(w) PROVE NoLostChange'
    BY <1>6 DEF Retrieve, MoveWatcher, WatcherInv, NoLostChange, WatchTypeOK, Versions, watcherVars, listenerVars
  <1>7. ASSUME NEW w \in Watchers, RetrieveFails(w) PROVE NoLostChange'
    BY <1>7 DEF RetrieveFails, MoveWatcher, WatcherInv, NoLostChange, WatchTypeOK, Versions, watcherVars, listenerVars
  <1>8. ASSUME NEW w \in Watchers, Feed(w) PROVE NoLostChange'
    BY <1>8 DEF Feed, MoveWatcher, WatcherInv, NoLostChange, WatchTypeOK, Versions, watcherVars, listenerVars
  <1>9. ASSUME NEW l \in Listeners, Serve(l) PROVE NoLostChange'
    BY <1>9, ZenonT(60) DEF Serve, Register, NewWatchers, WatcherInv, NoLostChange, WatchTypeOK, Versions, watcherVars, listenerVars
  <1>10. ASSUME NEW l \in Listeners, Leave(l) PROVE NoLostChange'
    BY <1>10 DEF Leave, WatcherInv, NoLostChange, WatchTypeOK, Versions, watcherVars, listenerVars
  <1>11. ASSUME NEW l \in Listeners, AwaitUpdate(l) PROVE NoLostChange'
    BY <1>11 DEF AwaitUpdate, Cancelled, WatcherInv, NoLostChange, WatchTypeOK, Versions, watcherVars, listenerVars
  <1>12. ASSUME NEW l \in Listeners, SendOpenIntelDeliveries(l) PROVE NoLostChange'
    BY <1>12 DEF SendOpenIntelDeliveries, Cancelled, WatcherInv, NoLostChange, WatchTypeOK, Versions, watcherVars, listenerVars
  <1>13. ASSUME NEW l \in Listeners, SendFails(l) PROVE NoLostChange'
    BY <1>13 DEF SendFails, WatcherInv, NoLostChange, WatchTypeOK, Versions, watcherVars, listenerVars
  <1> QED
    BY <1>1, <1>2, <1>3, <1>4, <1>5, <1>6, <1>7, <1>8, <1>9, <1>10, <1>11, <1>12, <1>13
       DEF WatchNext, WatcherNext, ListenerNext

\* No step loses a list.
LEMMA ListStep ==
  ASSUME OpenDeliveryWatchAssumption, WatchTypeOK, WatcherInv, ListenerInv, NoLostList, WatchNext
  PROVE  NoLostList'
  <1>1. ASSUME ChangeDeliveries PROVE NoLostList'
    BY <1>1 DEF ChangeDeliveries, NoLostList, ListenerInv, WatchTypeOK, watcherVars, listenerVars
  <1>2. ASSUME NotifyIntelDeliveryChanged PROVE NoLostList'
    BY <1>2 DEF NotifyIntelDeliveryChanged, WakeWatcher, NoLostList, ListenerInv, WatchTypeOK, watcherVars, listenerVars
  <1>3. ASSUME NEW w \in Watchers, Tick(w) PROVE NoLostList'
    BY <1>3 DEF Tick, WakeWatcher, NoLostList, ListenerInv, WatchTypeOK, watcherVars, listenerVars
  <1>4. ASSUME NEW w \in Watchers, AwaitNotify(w) PROVE NoLostList'
    BY <1>4 DEF AwaitNotify, MoveWatcher, NoLostList, ListenerInv, WatchTypeOK, watcherVars, listenerVars
  <1>5. ASSUME NEW w \in Watchers, ResetNotify(w) PROVE NoLostList'
    BY <1>5 DEF ResetNotify, MoveWatcher, NoLostList, ListenerInv, WatchTypeOK, watcherVars, listenerVars
  <1>6. ASSUME NEW w \in Watchers, Retrieve(w) PROVE NoLostList'
    BY <1>6 DEF Retrieve, MoveWatcher, NoLostList, ListenerInv, WatchTypeOK, watcherVars, listenerVars
  <1>7. ASSUME NEW w \in Watchers, RetrieveFails(w) PROVE NoLostList'
    BY <1>7 DEF RetrieveFails, MoveWatcher, NoLostList, ListenerInv, WatchTypeOK, watcherVars, listenerVars
  <1>8. ASSUME NEW w \in Watchers, Feed(w) PROVE NoLostList'
    BY <1>8 DEF Feed, MoveWatcher, NoLostList, ListenerInv, WatchTypeOK, watcherVars, listenerVars
  <1>9. ASSUME NEW l \in Listeners, Serve(l) PROVE NoLostList'
    BY <1>9 DEF Serve, Register, NewWatchers, NoLostList, ListenerInv, WatchTypeOK, watcherVars, listenerVars
  <1>10. ASSUME NEW l \in Listeners, Leave(l) PROVE NoLostList'
    BY <1>10 DEF Leave, NoLostList, ListenerInv, WatchTypeOK, watcherVars, listenerVars
  <1>11. ASSUME NEW l \in Listeners, AwaitUpdate(l) PROVE NoLostList'
    BY <1>11 DEF AwaitUpdate, Cancelled, NoLostList, ListenerInv, WatchTypeOK, watcherVars, listenerVars
  <1>12. ASSUME NEW l \in Listeners, SendOpenIntelDeliveries(l) PROVE NoLostList'
    BY <1>12 DEF SendOpenIntelDeliveries, Cancelled, NoLostList, ListenerInv, WatchTypeOK, watcherVars, listenerVars
  <1>13. ASSUME NEW l \in Listeners, SendFails(l) PROVE NoLostList'
    BY <1>13 DEF SendFails, NoLostList, ListenerInv, WatchTypeOK, watcherVars, listenerVars
  <1> QED
    BY <1>1, <1>2, <1>3, <1>4, <1>5, <1>6, <1>7, <1>8, <1>9, <1>10, <1>11, <1>12, <1>13
       DEF WatchNext, WatcherNext, ListenerNext

PCs == {"none", "check", "parked", "delay", "retrieve", "feed", "ended"}

\* Serving is registering at a watcher, an old or a new one.
LEMMA ServeRegisters ==
  ASSUME OpenDeliveryWatchAssumption, WatchTypeOK, NEW l \in Listeners, Serve(l)
  PROVE  \E w \in Watchers :
            /\ Register(l, w)
            /\ running' \in [Watchers -> BOOLEAN] /\ doNotify' \in [Watchers -> BOOLEAN]
            /\ watcherPC' \in [Watchers -> PCs]
  <1>1. CASE registered # NoWatcher
    BY <1>1 DEF Serve, WatchTypeOK, PCs
  <1>2. CASE registered = NoWatcher
    <2>1. PICK w \in NewWatchers :
             /\ Register(l, w)
             /\ running' = [running EXCEPT ![w] = TRUE]
             /\ doNotify' = [doNotify EXCEPT ![w] = TRUE]
             /\ watcherPC' = [watcherPC EXCEPT ![w] = "check"]
      BY <1>2 DEF Serve
    <2>2. w \in Watchers
      BY DEF NewWatchers
    <2>3. running' \in [Watchers -> BOOLEAN] /\ doNotify' \in [Watchers -> BOOLEAN]
      BY <2>1 DEF WatchTypeOK
    <2>4. watcherPC' \in [Watchers -> PCs]
      BY <2>1 DEF WatchTypeOK, PCs
    <2> QED
      BY <2>1, <2>2, <2>3, <2>4
  <1> QED
    BY <1>1, <1>2

\* Who is served is registered at a watcher whose count includes it.
LEMMA ServedIsCounted ==
  ASSUME OpenDeliveryWatchAssumption, WatchTypeOK, ListenerInv, CountInv,
         NEW l \in Listeners, serverPC[l] = "serving"
  PROVE  watcherOf[l] \in Watchers /\ listeners[watcherOf[l]] \in Nat \ {0}
  <1>1. watcherOf[l] \in Watchers
    BY DEF ListenerInv, WatchTypeOK
  <1>2. Served(watcherOf[l]) \in SUBSET Listeners /\ l \in Served(watcherOf[l])
    BY DEF Served
  <1>3. IsFiniteSet(Served(watcherOf[l]))
    BY <1>2, FS_Subset DEF OpenDeliveryWatchAssumption
  <1>4. Cardinality(Served(watcherOf[l])) \in Nat /\ Cardinality(Served(watcherOf[l])) # 0
    BY <1>2, <1>3, FS_CardinalityType, FS_EmptySet
  <1> QED
    BY <1>1, <1>4 DEF CountInv

\* All variables keep their types.
LEMMA TypeStep ==
  ASSUME OpenDeliveryWatchAssumption, WatchTypeOK, WatcherInv, ListenerInv, CountInv, WatchNext
  PROVE  WatchTypeOK'
  <1>1. ASSUME ChangeDeliveries PROVE WatchTypeOK'
    BY <1>1 DEF ChangeDeliveries, WatchTypeOK, Versions, ListenerInv, OpenDeliveryWatchAssumption, watcherVars, listenerVars
  <1>2. ASSUME NotifyIntelDeliveryChanged PROVE WatchTypeOK'
    BY <1>2, ZenonT(60) DEF NotifyIntelDeliveryChanged, WakeWatcher, WatchTypeOK, Versions, ListenerInv, OpenDeliveryWatchAssumption, watcherVars, listenerVars
  <1>3. ASSUME NEW w \in Watchers, Tick(w) PROVE WatchTypeOK'
    BY <1>3 DEF Tick, WakeWatcher, WatchTypeOK, Versions, ListenerInv, OpenDeliveryWatchAssumption, watcherVars, listenerVars
  <1>4. ASSUME NEW w \in Watchers, AwaitNotify(w) PROVE WatchTypeOK'
    BY <1>4 DEF AwaitNotify, MoveWatcher, WatchTypeOK, Versions, ListenerInv, OpenDeliveryWatchAssumption, watcherVars, listenerVars
  <1>5. ASSUME NEW w \in Watchers, ResetNotify(w) PROVE WatchTypeOK'
    BY <1>5 DEF ResetNotify, MoveWatcher, WatchTypeOK, Versions, ListenerInv, OpenDeliveryWatchAssumption, watcherVars, listenerVars
  <1>6. ASSUME NEW w \in Watchers, Retrieve(w) PROVE WatchTypeOK'
    BY <1>6 DEF Retrieve, MoveWatcher, WatchTypeOK, Versions, ListenerInv, OpenDeliveryWatchAssumption, watcherVars, listenerVars
  <1>7. ASSUME NEW w \in Watchers, RetrieveFails(w) PROVE WatchTypeOK'
    BY <1>7 DEF RetrieveFails, MoveWatcher, WatchTypeOK, Versions, ListenerInv, OpenDeliveryWatchAssumption, watcherVars, listenerVars
  <1>8. ASSUME NEW w \in Watchers, Feed(w) PROVE WatchTypeOK'
    BY <1>8 DEF Feed, MoveWatcher, WatchTypeOK, Versions, ListenerInv, OpenDeliveryWatchAssumption, watcherVars, listenerVars
  <1>9. ASSUME NEW l \in Listeners, Serve(l) PROVE WatchTypeOK'
    <2>1. PICK w \in Watchers :
             /\ Register(l, w)
             /\ running' \in [Watchers -> BOOLEAN] /\ doNotify' \in [Watchers -> BOOLEAN]
             /\ watcherPC' \in [Watchers -> PCs]
      BY <1>9, ServeRegisters
    <2>2. listeners' \in [Watchers -> Nat]
      BY <2>1 DEF Register, WatchTypeOK
    <2>3. watcherOf' \in [Listeners -> Watchers \cup {NoWatcher}]
      BY <2>1 DEF Register, WatchTypeOK
    <2> QED
      BY <2>1, <2>2, <2>3 DEF Register, WatchTypeOK, Versions, PCs
  <1>10. ASSUME NEW l \in Listeners, Leave(l) PROVE WatchTypeOK'
    <2>1. watcherOf[l] \in Watchers /\ listeners[watcherOf[l]] \in Nat \ {0}
      BY <1>10, ServedIsCounted DEF Leave
    <2>2. listeners' \in [Watchers -> Nat]
      BY <1>10, <2>1 DEF Leave, WatchTypeOK
    <2>3. running' \in [Watchers -> BOOLEAN] /\ registered' \in Watchers \cup {NoWatcher}
      BY <1>10, <2>1 DEF Leave, WatchTypeOK
    <2>4. serverPC' \in [Listeners -> {"idle", "serving", "left"}] /\ told' \in [Listeners -> Versions]
      BY <1>10 DEF Leave, WatchTypeOK, Versions, OpenDeliveryWatchAssumption
    <2> QED
      BY <1>10, <2>2, <2>3, <2>4 DEF Leave, WatchTypeOK
  <1>11. ASSUME NEW l \in Listeners, AwaitUpdate(l) PROVE WatchTypeOK'
    <2>1. current[watcherOf[l]] \in Versions
      BY <1>11 DEF AwaitUpdate, ListenerInv, WatchTypeOK
    <2>2. copied' \in [Listeners -> Versions]
      BY <1>11, <2>1 DEF AwaitUpdate, WatchTypeOK
    <2> QED
      BY <1>11, <2>2 DEF AwaitUpdate, WatchTypeOK, watcherVars
  <1>12. ASSUME NEW l \in Listeners, SendOpenIntelDeliveries(l) PROVE WatchTypeOK'
    BY <1>12 DEF SendOpenIntelDeliveries, Cancelled, WatchTypeOK, Versions, ListenerInv, OpenDeliveryWatchAssumption, watcherVars, listenerVars
  <1>13. ASSUME NEW l \in Listeners, SendFails(l) PROVE WatchTypeOK'
    BY <1>13 DEF SendFails, WatchTypeOK, Versions, ListenerInv, OpenDeliveryWatchAssumption, watcherVars, listenerVars
  <1> QED
    BY <1>1, <1>2, <1>3, <1>4, <1>5, <1>6, <1>7, <1>8, <1>9, <1>10, <1>11, <1>12, <1>13
       DEF WatchNext, WatcherNext, ListenerNext

\* Hubs count those they serve.
LEMMA CountStep ==
  ASSUME OpenDeliveryWatchAssumption, WatchTypeOK, WatcherInv, ListenerInv, CountInv, WatchNext
  PROVE  CountInv'
  <1>1. ASSUME ChangeDeliveries PROVE CountInv'
    BY <1>1 DEF ChangeDeliveries, CountInv, Served, WatchTypeOK, watcherVars, listenerVars
  <1>2. ASSUME NotifyIntelDeliveryChanged PROVE CountInv'
    BY <1>2 DEF NotifyIntelDeliveryChanged, WakeWatcher, CountInv, Served, WatchTypeOK, watcherVars, listenerVars
  <1>3. ASSUME NEW w \in Watchers, Tick(w) PROVE CountInv'
    BY <1>3 DEF Tick, WakeWatcher, CountInv, Served, WatchTypeOK, watcherVars, listenerVars
  <1>4. ASSUME NEW w \in Watchers, AwaitNotify(w) PROVE CountInv'
    BY <1>4 DEF AwaitNotify, MoveWatcher, CountInv, Served, WatchTypeOK, watcherVars, listenerVars
  <1>5. ASSUME NEW w \in Watchers, ResetNotify(w) PROVE CountInv'
    BY <1>5 DEF ResetNotify, MoveWatcher, CountInv, Served, WatchTypeOK, watcherVars, listenerVars
  <1>6. ASSUME NEW w \in Watchers, Retrieve(w) PROVE CountInv'
    BY <1>6 DEF Retrieve, MoveWatcher, CountInv, Served, WatchTypeOK, watcherVars, listenerVars
  <1>7. ASSUME NEW w \in Watchers, RetrieveFails(w) PROVE CountInv'
    BY <1>7 DEF RetrieveFails, MoveWatcher, CountInv, Served, WatchTypeOK, watcherVars, listenerVars
  <1>8. ASSUME NEW w \in Watchers, Feed(w) PROVE CountInv'
    BY <1>8 DEF Feed, MoveWatcher, CountInv, Served, WatchTypeOK, watcherVars, listenerVars
  <1>9. ASSUME NEW l \in Listeners, Serve(l) PROVE CountInv'
    <2>1. PICK w \in Watchers : Register(l, w)
      BY <1>9, ServeRegisters
    <2> SUFFICES ASSUME NEW x \in Watchers PROVE listeners'[x] = Cardinality(Served(x)')
      BY DEF CountInv
    <2>2. Served(x) \in SUBSET Listeners /\ l \notin Served(x)
      BY <2>1 DEF Served, Register
    <2>3. IsFiniteSet(Served(x))
      BY <2>2, FS_Subset DEF OpenDeliveryWatchAssumption
    <2>4. CASE x = w
      <3>1. Served(x)' = Served(x) \cup {l}
        BY <2>1, <2>4 DEF Served, Register, WatchTypeOK
      <3>2. Cardinality(Served(x) \cup {l}) = Cardinality(Served(x)) + 1
        BY ONLY <2>2, <2>3, FS_AddElement
      <3>3. listeners'[x] = listeners[x] + 1 /\ listeners[x] = Cardinality(Served(x))
        BY <2>1, <2>4 DEF CountInv, Register, WatchTypeOK
      <3> QED
        BY <3>1, <3>2, <3>3
    <2>5. CASE x # w
      <3>1. Served(x)' = Served(x)
        BY <2>1, <2>5 DEF Served, Register, WatchTypeOK
      <3> QED
        BY <2>1, <2>5, <3>1 DEF CountInv, Register, WatchTypeOK
    <2> QED
      BY <2>4, <2>5
  <1>10. ASSUME NEW l \in Listeners, Leave(l) PROVE CountInv'
    <2> DEFINE w == watcherOf[l]
    <2>1. w \in Watchers
      BY <1>10, ServedIsCounted DEF Leave
    <2> SUFFICES ASSUME NEW x \in Watchers PROVE listeners'[x] = Cardinality(Served(x)')
      BY DEF CountInv
    <2>2. Served(x) \in SUBSET Listeners
      BY DEF Served
    <2>3. IsFiniteSet(Served(x))
      BY <2>2, FS_Subset DEF OpenDeliveryWatchAssumption
    <2>4. CASE x = w
      <3>1. Served(x)' = Served(x) \ {l} /\ l \in Served(x)
        BY <1>10, <2>4 DEF Served, Leave, WatchTypeOK
      <3>2. Cardinality(Served(x) \ {l}) = Cardinality(Served(x)) - 1
        BY ONLY <2>3, <3>1, FS_RemoveElement
      <3>3. listeners'[x] = listeners[x] - 1 /\ listeners[x] = Cardinality(Served(x))
        BY <1>10, <2>4 DEF CountInv, Leave, WatchTypeOK
      <3> QED
        BY <3>1, <3>2, <3>3
    <2>5. CASE x # w
      <3>1. Served(x)' = Served(x)
        BY <1>10, <2>5 DEF Served, Leave, WatchTypeOK
      <3> QED
        BY <1>10, <2>5, <3>1 DEF CountInv, Leave, WatchTypeOK
    <2> QED
      BY <2>4, <2>5
  <1>11. ASSUME NEW l \in Listeners, AwaitUpdate(l) PROVE CountInv'
    BY <1>11 DEF AwaitUpdate, Cancelled, CountInv, Served, WatchTypeOK, watcherVars, listenerVars
  <1>12. ASSUME NEW l \in Listeners, SendOpenIntelDeliveries(l) PROVE CountInv'
    BY <1>12 DEF SendOpenIntelDeliveries, Cancelled, CountInv, Served, WatchTypeOK, watcherVars, listenerVars
  <1>13. ASSUME NEW l \in Listeners, SendFails(l) PROVE CountInv'
    BY <1>13 DEF SendFails, CountInv, Served, WatchTypeOK, watcherVars, listenerVars
  <1> QED
    BY <1>1, <1>2, <1>3, <1>4, <1>5, <1>6, <1>7, <1>8, <1>9, <1>10, <1>11, <1>12, <1>13
       DEF WatchNext, WatcherNext, ListenerNext

-----------------------------------------------------------------------------
(* Theorems.                                                               *)

\* The inductive invariant holds of the initial states and is kept by every step.
LEMMA WatchInvInit == WatchInit => WatchTypeOK /\ WatchInv
  <1> SUFFICES ASSUME WatchInit PROVE WatchTypeOK /\ WatchInv
    OBVIOUS
  <1>1. WatchTypeOK
    <2>1. 0 \in Versions /\ 0 \in 0..MaxFaults
      BY OpenDeliveryWatchAssumption DEF Versions, OpenDeliveryWatchAssumption
    <2> QED
      BY <2>1 DEF WatchInit, WatchTypeOK
  <1>2. CountInv
    <2> SUFFICES ASSUME NEW w \in Watchers PROVE listeners[w] = Cardinality(Served(w))
      BY DEF CountInv
    <2>1. Served(w) = {}
      BY DEF WatchInit, Served
    <2> QED
      BY <2>1, FS_EmptySet DEF WatchInit
  <1>3. WatcherInv /\ ListenerInv /\ NoLostChange /\ NoLostList
    BY OpenDeliveryWatchAssumption
       DEF WatchInit, WatcherInv, ListenerInv, NoLostChange, NoLostList, OpenDeliveryWatchAssumption
  <1> QED
    BY <1>1, <1>2, <1>3 DEF WatchInv

LEMMA WatchInvNext == WatchTypeOK /\ WatchInv /\ [WatchNext]_watchVars => (WatchTypeOK /\ WatchInv)'
  <1> SUFFICES ASSUME WatchTypeOK, WatchInv, [WatchNext]_watchVars PROVE (WatchTypeOK /\ WatchInv)'
    OBVIOUS
  <1>1. CASE WatchNext
    <2>1. WatchTypeOK'
      BY <1>1, OpenDeliveryWatchAssumption, TypeStep DEF WatchInv
    <2>2. WatcherInv' /\ ListenerInv'
      BY <1>1, OpenDeliveryWatchAssumption, WatcherStep, ListenerStep DEF WatchInv
    <2>3. NoLostChange' /\ NoLostList'
      BY <1>1, OpenDeliveryWatchAssumption, ChangeStep, ListStep DEF WatchInv
    <2>4. CountInv'
      BY <1>1, OpenDeliveryWatchAssumption, CountStep DEF WatchInv
    <2> QED
      BY <2>1, <2>2, <2>3, <2>4 DEF WatchInv
  <1>2. CASE UNCHANGED watchVars
    BY <1>2 DEF watchVars, watcherVars, listenerVars, WatchTypeOK, WatchInv, WatcherInv, ListenerInv,
                CountInv, Served, NoLostChange, NoLostList
  <1> QED
    BY <1>1, <1>2

LEMMA InvInductive == WatchSpec => [](WatchTypeOK /\ WatchInv)
  BY WatchInvInit, WatchInvNext, PTL DEF WatchSpec

\* Watchers, listeners and hubs stay well typed; in particular no count falls below zero.
THEOREM WatchTypeCorrect == WatchSpec => []WatchTypeOK
  BY InvInductive, PTL

\* What ties watchers, their flags, their hubs, the counts and the listeners together always holds.
THEOREM WatchInvariant == WatchSpec => []WatchInv
  BY InvInductive, PTL

\* The watcher of the map never sleeps through a change.
THEOREM NoLostChangeCorrect == WatchSpec => []NoLostChange
  BY InvInductive, PTL DEF WatchInv

\* No list is lost between the hub and a client, though sends fail.
THEOREM NoLostListCorrect == WatchSpec => []NoLostList
  BY InvInductive, PTL DEF WatchInv
-----------------------------------------------------------------------------
(* The subscriptions of a connection.                                      *)

\* The messages of the client that nobody has handled yet, and the subscriptions that there are, are not more
\* than the messages sent.
Used(s) == sub[s].server # "off"
Handling == IF loop.pc = "subscribe" THEN 1 ELSE 0
Numbered == \E n \in 0..MaxAsks : /\ \A s \in Subs : Used(s) <=> s <= n
                                  /\ n + asksLeft + Len(asks) + Handling <= MaxAsks

\* A subscription is in the map for its operation until it is canceled.  What is in the map is canceled only
\* at the end of the connection.
MapOK == /\ \A o \in SubOps : subscribed[o] # NoSub => /\ Used(subscribed[o]) /\ sub[subscribed[o]].op = o
                                                       /\ conn # "closed" => ~sub[subscribed[o]].canceled
         /\ \A s \in Subs : Used(s) /\ ~sub[s].canceled => subscribed[sub[s].op] = s
         /\ \A s \in Subs : IF Used(s) THEN /\ sub[s].op \in SubOps /\ sub[s].watcher # "off"
                                            /\ ~sub[s].canceled => sub[s].watcher = "waiting"
                                       ELSE sub[s].watcher = "off"

\* A goroutine that is going to send the list, which no end of a subscription keeps it from.
Teller(s) == \/ sub[s].server \in {"list", "sending"} /\ ~sub[s].canceled
             \/ sub[s].watcher \in {"unsubscribe", "list", "sending"}
             \/ sub[s].watcher = "waiting" /\ sub[s].canceled
ListOK == conn = "up" => listed = Subscribed \/ \E s \in Subs : Teller(s)

\* A watcher that is still to remove another subscription than its own is known.
AgainOK == conn # "closed" =>
              \A s \in Subs : sub[s].canceled /\ sub[s].watcher \in {"waiting", "unsubscribe"}
                                 => sub[s].op \in again \/ sub[s].op \notin Subscribed

\* What the client asks for is what it has said last of an operation.
Unhandled(o) == \E n \in 1..Len(asks) : asks[n].op = o
LastSaid(o, n) == asks[n].op = o /\ \A m \in 1..Len(asks) : m > n => asks[m].op # o
HandlingOf(o) == loop.pc \in {"subscribe", "unsubscribe"} /\ loop.op = o
AskedOK == \A o \in SubOps :
              /\ \A n \in 1..Len(asks) : LastSaid(o, n) => (asks[n].type = "subscribe" <=> o \in asked)
              /\ ~Unhandled(o) /\ HandlingOf(o) => (loop.pc = "subscribe" <=> o \in asked)
              /\ ~Unhandled(o) /\ ~HandlingOf(o) /\ o \notin again => (o \in Subscribed <=> o \in asked)

SubLoopOK == /\ loop.pc \in {"subscribe", "unsubscribe"} => loop.op \in SubOps
             /\ conn = "up" => /\ loop.pc \in {"receive", "subscribe", "unsubscribe", "refused"}
                               /\ AskedOK

SubInv == SubTypeOK /\ Numbered /\ MapOK /\ ListOK /\ AgainOK /\ SubLoopOK

\* Subscribed is a set of operations.
LEMMA SubscribedDef == \A o \in SubOps : o \in Subscribed <=> subscribed[o] # NoSub
  BY DEF Subscribed

-----------------------------------------------------------------------------
\* The number that the next subscription gets.
NewNumber == CHOOSE i \in Subs : sub[i].server = "off" /\ \A j \in 1..(i - 1) : sub[j].server # "off"

LEMMA NewNumberIsNext ==
  ASSUME SubTypeOK, Numbered, loop.pc = "subscribe"
  PROVE  /\ NewNumber \in Subs /\ ~Used(NewNumber)
         /\ NewNumber + asksLeft + Len(asks) <= MaxAsks
         /\ \A s \in Subs : Used(s) <=> s < NewNumber
  <1>1. PICK n \in 0..MaxAsks : /\ \A s \in Subs : Used(s) <=> s <= n
                                /\ n + asksLeft + Len(asks) + 1 <= MaxAsks
    BY DEF Numbered, Handling
  <1>2. asksLeft \in Nat /\ Len(asks) \in Nat /\ MaxAsks \in Nat
    BY SubConstants, LenProperties DEF SubTypeOK
  <1>3. n + 1 \in Subs /\ ~Used(n + 1) /\ \A j \in 1..n : Used(j)
    BY <1>1, <1>2 DEF Subs
  <1>4. \E i \in Subs : sub[i].server = "off" /\ \A j \in 1..(i - 1) : sub[j].server # "off"
    BY <1>2, <1>3 DEF Used
  <1>5. NewNumber \in Subs /\ sub[NewNumber].server = "off"
        /\ \A j \in 1..(NewNumber - 1) : sub[j].server # "off"
    BY <1>4 DEF NewNumber
  <1>6. NewNumber = n + 1
    <2>1. PICK k : k = NewNumber
      OBVIOUS
    <2>2. k \in 1..MaxAsks /\ ~(k <= n)
      BY <1>1, <1>5, <2>1 DEF Subs, Used
    <2>3. ~(n + 1 < k)
      BY <1>2, <1>3, <1>5, <2>1, <2>2 DEF Used
    <2> QED
      BY <1>2, <2>1, <2>2, <2>3
  <1> QED
    BY <1>1, <1>2, <1>3, <1>6 DEF Subs

\* What subscribing does.
LEMMA SubscribeStep ==
  ASSUME SubTypeOK, Numbered, MapOK, SubLoopOK, subscribeOpenIntelDeliveries, loop.op \notin Subscribed
  PROVE  \E s \in Subs : /\ ~Used(s) /\ s + asksLeft + Len(asks) <= MaxAsks
                         /\ \A i \in Subs : Used(i) <=> i < s
                         /\ loop.op \in SubOps
                         /\ subscribed' = [subscribed EXCEPT ![loop.op] = s]
                         /\ sub' = [sub EXCEPT ![s] = NewSub(loop.op)]
                         /\ again' = IF StillEnding(loop.op) THEN again \cup {loop.op} ELSE again \ {loop.op}
  <1>1. loop.pc = "subscribe" /\ loop.op \in SubOps
    BY DEF subscribeOpenIntelDeliveries, SubLoopOK
  <1> QED
    BY <1>1, NewNumberIsNext DEF subscribeOpenIntelDeliveries, NewNumber

\* Steps that touch neither the subscriptions nor what is told of them.
Quiet == /\ UNCHANGED <<subscribed, sub, listed, again>>
         /\ conn' = "up" => conn = "up"
         /\ conn' # "closed" => conn # "closed"

LEMMA QuietSteps ==
  ASSUME \/ \E ask \in Ask : SendAsk(ask)
         \/ EndPumps \/ Close \/ Receive \/ SendErr \/ EndReceive \/ GatherSubscriptions \/ WaitForServers
         \/ UNCHANGED subVars
  PROVE  Quiet
  BY DEF SendAsk, EndPumps, Close, Receive, SendErr, EndReceive, GatherSubscriptions, WaitForServers, subVars, Quiet

\* A goroutine of a subscription takes a step that leaves the map alone.
Goroutine(s) == LockForList(s) \/ SendList(s) \/ DropList(s) \/ EndServing(s) \/ SeeEnd(s)

SplitNext == \/ \E ask \in Ask : SendAsk(ask)
             \/ EndPumps \/ Close \/ Receive \/ SendErr \/ EndReceive \/ GatherSubscriptions \/ WaitForServers
             \/ UNCHANGED subVars
             \/ subscribeOpenIntelDeliveries
             \/ unsubscribeOpenIntelDeliveries
             \/ UnsubscribeEach
             \/ \E s \in Subs : Goroutine(s)
             \/ \E s \in Subs : UnsubscribeEnded(s)

LEMMA NextSplits == [SubNext]_subVars => SplitNext
  BY DEF SubNext, LoopNext, SubscriptionNext, Goroutine, SplitNext

-----------------------------------------------------------------------------
\* What a step of a goroutine does to its subscription.
LEMMA GoroutineStep ==
  ASSUME SubTypeOK, NEW s \in Subs, Goroutine(s)
  PROVE  /\ OthersKept
         /\ sub' \in [Subs -> Sub]
         /\ \A i \in Subs : i # s => sub'[i] = sub[i]
         /\ sub'[s].op = sub[s].op
         /\ sub'[s].server = "off" <=> sub[s].server = "off"
         /\ sub'[s].watcher = "off" <=> sub[s].watcher = "off"
         /\ sub[s].canceled => sub'[s].canceled
  <1> USE DEF ServerAt, WatcherAt, SubTypeOK, Sub
  <1>1. CASE LockForList(s)
    <2>1. \/ sub' = [sub EXCEPT ![s].server = "sending"] /\ sub[s].server = "list"
          \/ sub' = [sub EXCEPT ![s].watcher = "sending"] /\ sub[s].watcher = "list"
      BY <1>1 DEF LockForList
    <2> QED
      BY <1>1, <2>1, SMTT(30) DEF LockForList
  <1>2. CASE SendList(s)
    BY <1>2 DEF SendList
  <1>3. CASE DropList(s)
    <2>1. \/ sub' = [sub EXCEPT ![s].server = "serving"] /\ sub[s].server = "sending"
          \/ sub' = [sub EXCEPT ![s].watcher = "ended"] /\ sub[s].watcher = "sending"
      BY <1>3 DEF DropList
    <2>2. OthersKept
      BY <1>3 DEF DropList
    <2> QED
      BY <2>1, <2>2
  <1>4. CASE EndServing(s)
    BY <1>4 DEF EndServing
  <1>5. CASE SeeEnd(s)
    BY <1>5 DEF SeeEnd
  <1> QED
    BY <1>1, <1>2, <1>3, <1>4, <1>5 DEF Goroutine

LEMMA SubTypeNext == ASSUME SubInv, SplitNext PROVE SubTypeOK'
  <1> USE DEF SubInv
  <1>1. ASSUME NEW ask \in Ask, SendAsk(ask) PROVE SubTypeOK'
    <2>1. ask.type = "subscribe" => ask.op \in SubOps
      BY DEF Ask
    <2> QED
      BY <1>1, <2>1, SubConstants, AppendProperties DEF SendAsk, SubTypeOK
  <1>2. CASE EndPumps \/ SendErr \/ EndReceive \/ GatherSubscriptions \/ WaitForServers
    <2>1. loop' \in Loop /\ conn' \in {"up", "ending", "closed"}
      <3>1. CASE EndPumps
        BY <3>1 DEF EndPumps, SubTypeOK
      <3>2. CASE GatherSubscriptions
        BY <3>2 DEF GatherSubscriptions, SubTypeOK, Loop, Subscribed
      <3>3. CASE SendErr \/ EndReceive \/ WaitForServers
        BY <3>3 DEF SendErr, EndReceive, WaitForServers, GoTo, SubTypeOK, Loop
      <3> QED
        BY <1>2, <3>1, <3>2, <3>3
    <2>2. UNCHANGED <<asks, asked, asksLeft, subscribed, sub, listed, again>>
      BY <1>2 DEF EndPumps, SendErr, EndReceive, GatherSubscriptions, WaitForServers
    <2> QED
      BY <2>1, <2>2 DEF SubTypeOK
  <1>3. CASE Close
    <2>1. asks # <<>> => Head(asks) \in Ask
      BY HeadTailProperties DEF SubTypeOK
    <2>2. <<>> \in Seq(Ask) /\ (asks # <<>> => <<Head(asks)>> \in Seq(Ask))
      BY <2>1
    <2> QED
      BY <1>3, <2>2 DEF Close, SubTypeOK
  <1>4. CASE Receive
    <2>1. Head(asks) \in Ask /\ Tail(asks) \in Seq(Ask)
      BY <1>4, HeadTailProperties DEF Receive, SubTypeOK
    <2> QED
      BY <1>4, <2>1 DEF Receive, SubTypeOK, Loop, Ask
  <1>5. CASE UNCHANGED subVars
    BY <1>5 DEF subVars, SubTypeOK
  <1>6. CASE subscribeOpenIntelDeliveries
    <2>1. again' \subseteq SubOps /\ subscribed' \in [SubOps -> Subs \cup {NoSub}] /\ sub' \in [Subs -> Sub]
      <3>1. CASE loop.op \in Subscribed
        BY <1>6, <3>1 DEF subscribeOpenIntelDeliveries, SubTypeOK
      <3>2. CASE loop.op \notin Subscribed
        <4>1. PICK s \in Subs : /\ loop.op \in SubOps
                                /\ subscribed' = [subscribed EXCEPT ![loop.op] = s]
                                /\ sub' = [sub EXCEPT ![s] = NewSub(loop.op)]
                                /\ again' \in {again \cup {loop.op}, again \ {loop.op}}
          BY <1>6, <3>2, SubscribeStep
        <4>2. NewSub(loop.op) \in Sub
          BY <4>1 DEF NewSub, Sub
        <4> QED
          BY <4>1, <4>2 DEF SubTypeOK
      <3> QED
        BY <3>1, <3>2
    <2> QED
      BY <1>6, <2>1 DEF subscribeOpenIntelDeliveries, GoTo, SubTypeOK, Loop
  <1>7. ASSUME NEW o PROVE /\ Removed(o) \in [SubOps -> Subs \cup {NoSub}]
                           /\ Canceled(o) \in [Subs -> Sub]
    BY DEF SubTypeOK, Removed, Canceled, Sub
  <1>8. CASE unsubscribeOpenIntelDeliveries
    BY <1>7, <1>8 DEF unsubscribeOpenIntelDeliveries, GoTo, SubTypeOK, Loop
  <1>9. CASE UnsubscribeEach
    BY <1>7, <1>9 DEF UnsubscribeEach, SubTypeOK, Loop
  <1>10. ASSUME NEW s \in Subs, Goroutine(s) PROVE SubTypeOK'
    <2>1. listed' \subseteq SubOps
      BY <1>10 DEF Goroutine, LockForList, SendList, DropList, EndServing, SeeEnd, TellList, Subscribed, SubTypeOK
    <2> QED
      BY <1>10, <2>1, GoroutineStep DEF OthersKept, SubTypeOK
  <1>11. ASSUME NEW s \in Subs, UnsubscribeEnded(s) PROVE SubTypeOK'
    <2>1. sub' \in [Subs -> Sub]
      BY <1>7, <1>11 DEF UnsubscribeEnded, Sub
    <2> QED
      BY <1>7, <1>11, <2>1 DEF UnsubscribeEnded, SubTypeOK
  <1> QED
    BY <1>1, <1>2, <1>3, <1>4, <1>5, <1>6, <1>8, <1>9, <1>10, <1>11 DEF SplitNext

\* The subscription of an operation is canceled and removed from the map.
Removes(o) ==
    /\ o \in SubOps
    /\ subscribed' = Removed(o)
    /\ UNCHANGED <<conn, asks, asked, asksLeft, listed, again>>
    /\ \A i \in Subs : /\ sub'[i].op = sub[i].op /\ sub'[i].server = sub[i].server
                       /\ sub'[i].canceled <=> sub[i].canceled \/ subscribed[o] = i
                       /\ \/ sub'[i].watcher = sub[i].watcher
                          \/ sub[i].watcher = "unsubscribe" /\ sub'[i].watcher = "list"

LEMMA RemoveStep ==
  ASSUME SubInv,
         unsubscribeOpenIntelDeliveries \/ UnsubscribeEach \/ \E s \in Subs : UnsubscribeEnded(s)
  PROVE  \E o \in SubOps : Removes(o)
  <1> USE DEF SubInv
  <1>1. ASSUME NEW o, NEW i \in Subs
        PROVE  /\ Canceled(o)[i].op = sub[i].op /\ Canceled(o)[i].server = sub[i].server
               /\ Canceled(o)[i].canceled <=> sub[i].canceled \/ subscribed[o] = i
               /\ Canceled(o)[i].watcher = sub[i].watcher
    <2>1. PICK c : c = (sub[i].canceled \/ subscribed[o] = i)
      OBVIOUS
    <2>2. sub[i] \in Sub /\ Canceled(o)[i] = [sub[i] EXCEPT !.canceled = c]
      BY <2>1 DEF SubTypeOK, Canceled
    <2>3. /\ Canceled(o)[i].op = sub[i].op /\ Canceled(o)[i].server = sub[i].server
          /\ Canceled(o)[i].watcher = sub[i].watcher /\ Canceled(o)[i].canceled = c
      BY <2>2 DEF Sub
    <2> QED
      BY <2>1, <2>3
  <1>2. CASE unsubscribeOpenIntelDeliveries
    <2>1. loop.op \in SubOps
      BY <1>2 DEF unsubscribeOpenIntelDeliveries, SubLoopOK
    <2>2. Removes(loop.op)
      BY <1>1, <1>2, <2>1 DEF unsubscribeOpenIntelDeliveries, Removes
    <2> QED
      BY <2>1, <2>2
  <1>3. CASE UnsubscribeEach
    <2>1. PICK o \in loop.leaving : /\ subscribed' = Removed(o) /\ sub' = Canceled(o)
                                    /\ UNCHANGED <<conn, asks, asked, asksLeft, listed, again>>
      BY <1>3 DEF UnsubscribeEach
    <2>2. o \in SubOps
      BY DEF SubTypeOK, Loop
    <2>3. Removes(o)
      BY <1>1, <2>1, <2>2 DEF Removes
    <2> QED
      BY <2>2, <2>3
  <1>4. ASSUME NEW s \in Subs, UnsubscribeEnded(s) PROVE \E o \in SubOps : Removes(o)
    <2>1. PICK o : o = sub[s].op
      OBVIOUS
    <2>2. /\ sub[s].watcher = "unsubscribe" /\ subscribed' = Removed(o)
          /\ sub' = [Canceled(o) EXCEPT ![s].watcher = "list"]
          /\ UNCHANGED <<conn, asks, asked, asksLeft, listed, again>>
      BY <1>4, <2>1 DEF UnsubscribeEnded
    <2>3. o \in SubOps
      BY <2>1, <2>2 DEF MapOK
    <2>4. Canceled(o) \in [Subs -> Sub]
      BY DEF SubTypeOK, Sub, Canceled
    <2>5. \A i \in Subs : /\ sub'[i].op = sub[i].op /\ sub'[i].server = sub[i].server
                          /\ sub'[i].canceled <=> sub[i].canceled \/ subscribed[o] = i
                          /\ \/ sub'[i].watcher = sub[i].watcher
                             \/ sub[i].watcher = "unsubscribe" /\ sub'[i].watcher = "list"
      BY <1>1, <2>2, <2>4 DEF Sub
    <2>6. Removes(o)
      BY <2>2, <2>3, <2>5 DEF Removes
    <2> QED
      BY <2>3, <2>6
  <1> QED
    BY <1>2, <1>3, <1>4

-----------------------------------------------------------------------------
LEMMA NumberedNext == ASSUME SubInv, SplitNext PROVE Numbered'
  <1> USE DEF SubInv
  <1>0. /\ asksLeft \in Nat /\ Len(asks) \in Nat /\ MaxAsks \in Nat /\ Len(asks') \in Nat
        /\ asksLeft' \in Nat
    BY SubTypeNext, SubConstants, LenProperties DEF SubTypeOK
  <1>1. PICK n \in 0..MaxAsks : /\ \A s \in Subs : Used(s) <=> s <= n
                                /\ n + asksLeft + Len(asks) + Handling <= MaxAsks
    BY DEF Numbered
  <1>2. Handling \in {0, 1} /\ Handling' \in {0, 1}
    BY DEF Handling
  <1>3. ASSUME \A s \in Subs : Used(s)' = Used(s), asksLeft' + Len(asks') + Handling' <= asksLeft + Len(asks) + Handling
        PROVE  Numbered'
    <2>1. n + asksLeft' + Len(asks') + Handling' <= MaxAsks
      BY <1>0, <1>1, <1>2, <1>3, SMTT(30)
    <2> QED
      BY <1>1, <1>3, <2>1 DEF Numbered
  <1>4. CASE \/ \E ask \in Ask : SendAsk(ask)
             \/ EndPumps \/ Close \/ Receive \/ SendErr \/ EndReceive \/ GatherSubscriptions \/ WaitForServers
             \/ UNCHANGED subVars
    <2>1. \A s \in Subs : Used(s)' = Used(s)
      BY <1>4, QuietSteps DEF Quiet, Used
    <2>2. ASSUME NEW ask \in Ask, SendAsk(ask) PROVE asksLeft' + Len(asks') + Handling' <= asksLeft + Len(asks) + Handling
      <3>1. Len(asks') = Len(asks) + 1
        BY <2>2, AppendProperties DEF SendAsk, SubTypeOK
      <3> QED
        BY <1>0, <1>2, <2>2, <3>1 DEF SendAsk, Handling
    <2>3. ASSUME Close PROVE asksLeft' + Len(asks') + Handling' <= asksLeft + Len(asks) + Handling
      <3>1. Len(asks') <= Len(asks)
        <4>1. asks # <<>> => Len(asks) > 0
          BY <1>0, EmptySeq DEF SubTypeOK
        <4> QED
          BY <1>0, <2>3, <4>1 DEF Close
      <3>2. asksLeft' = asksLeft /\ Handling' = Handling
        BY <2>3 DEF Close, Handling
      <3> QED
        BY <1>0, <1>2, <3>1, <3>2
    <2>4. ASSUME Receive PROVE asksLeft' + Len(asks') + Handling' <= asksLeft + Len(asks) + Handling
      <3>1. Len(asks') = Len(asks) - 1 /\ Len(asks) > 0
        BY <1>0, <2>4, HeadTailProperties, EmptySeq DEF Receive, SubTypeOK
      <3>2. Handling = 0 /\ asksLeft' = asksLeft
        BY <2>4 DEF Receive, Handling
      <3> QED
        BY <1>0, <1>2, <3>1, <3>2
    <2>5. ASSUME EndPumps \/ SendErr \/ EndReceive \/ GatherSubscriptions \/ WaitForServers \/ UNCHANGED subVars
          PROVE  asksLeft' + Len(asks') + Handling' <= asksLeft + Len(asks) + Handling
      <3>1. asksLeft' = asksLeft /\ asks' = asks /\ Handling' = Handling
        <4>1. CASE EndPumps \/ UNCHANGED subVars
          BY <4>1 DEF EndPumps, subVars, Handling
        <4>2. CASE SendErr
          BY <4>2 DEF SendErr, GoTo, SubTypeOK, Loop, Handling
        <4>3. CASE EndReceive
          BY <4>3 DEF EndReceive, GoTo, SubTypeOK, Loop, Handling
        <4>4. CASE GatherSubscriptions
          BY <4>4 DEF GatherSubscriptions, SubTypeOK, Loop, Handling
        <4>5. CASE WaitForServers
          BY <4>5 DEF WaitForServers, GoTo, SubTypeOK, Loop, Handling
        <4> QED
          BY <2>5, <4>1, <4>2, <4>3, <4>4, <4>5
      <3> QED
        BY <1>0, <1>2, <3>1
    <2> QED
      BY <1>3, <1>4, <2>1, <2>2, <2>3, <2>4, <2>5
  <1>5. CASE subscribeOpenIntelDeliveries
    <2>1. asksLeft' = asksLeft /\ asks' = asks /\ Handling' = 0 /\ Handling = 1
      BY <1>5 DEF subscribeOpenIntelDeliveries, GoTo, SubTypeOK, Loop, Handling
    <2>2. CASE loop.op \in Subscribed
      <3>1. sub' = sub
        BY <1>5, <2>2 DEF subscribeOpenIntelDeliveries
      <3> QED
        BY <1>0, <1>3, <2>1, <3>1 DEF Used
    <2>3. CASE loop.op \notin Subscribed
      <3>1. PICK s \in Subs : /\ s + asksLeft + Len(asks) <= MaxAsks
                              /\ \A i \in Subs : Used(i) <=> i < s
                              /\ sub' = [sub EXCEPT ![s] = NewSub(loop.op)]
        BY <1>5, <2>3, SubscribeStep
      <3>2. \A i \in Subs : Used(i)' <=> i <= s
        BY <3>1, <1>0 DEF Used, SubTypeOK, NewSub, Subs
      <3>3. s \in 0..MaxAsks
        BY <1>0 DEF Subs
      <3>4. s + asksLeft' + Len(asks') + Handling' <= MaxAsks
        BY <1>0, <2>1, <3>1, <3>3
      <3> QED
        BY <3>2, <3>3, <3>4 DEF Numbered
    <2> QED
      BY <2>2, <2>3
  <1>6. CASE unsubscribeOpenIntelDeliveries \/ UnsubscribeEach \/ \E s \in Subs : UnsubscribeEnded(s)
    <2>1. asksLeft' = asksLeft /\ asks' = asks /\ \A s \in Subs : Used(s)' = Used(s)
      BY <1>6, RemoveStep DEF Removes, Used
    <2>2. Handling' = Handling
      BY <1>6 DEF unsubscribeOpenIntelDeliveries, UnsubscribeEach, UnsubscribeEnded, GoTo, SubTypeOK, Loop, Handling
    <2> QED
      BY <1>0, <1>2, <1>3, <2>1, <2>2
  <1>7. ASSUME NEW s \in Subs, Goroutine(s) PROVE Numbered'
    <2>1. asksLeft' = asksLeft /\ asks' = asks /\ Handling' = Handling
      BY <1>7, GoroutineStep DEF OthersKept, Handling
    <2>2. \A i \in Subs : Used(i)' = Used(i)
      BY <1>7, GoroutineStep DEF Used
    <2> QED
      BY <1>0, <1>2, <1>3, <2>1, <2>2
  <1> QED
    BY <1>4, <1>5, <1>6, <1>7 DEF SplitNext

\* The steps that subscribe, by whether there is already a subscription.
LEMMA SubscribeCases ==
  ASSUME SubInv, subscribeOpenIntelDeliveries
  PROVE  /\ loop.pc = "subscribe" /\ loop.op \in SubOps
         /\ UNCHANGED <<conn, asks, asked, asksLeft, listed>> /\ loop' = [loop EXCEPT !.pc = "receive"]
         /\ \/ loop.op \in Subscribed /\ UNCHANGED <<subscribed, sub, again>>
            \/ loop.op \notin Subscribed /\
               \E s \in Subs : /\ ~Used(s)
                               /\ subscribed' = [subscribed EXCEPT ![loop.op] = s]
                               /\ sub' = [sub EXCEPT ![s] = NewSub(loop.op)]
                               /\ again' = IF StillEnding(loop.op) THEN again \cup {loop.op} ELSE again \ {loop.op}
  <1> USE DEF SubInv
  <1>1. /\ loop.pc = "subscribe"
        /\ UNCHANGED <<conn, asks, asked, asksLeft, listed>> /\ loop' = [loop EXCEPT !.pc = "receive"]
        /\ loop.op \in Subscribed => UNCHANGED <<subscribed, sub, again>>
    BY DEF subscribeOpenIntelDeliveries, GoTo
  <1>2. loop.op \in SubOps
    BY <1>1 DEF SubLoopOK
  <1>3. CASE loop.op \notin Subscribed
    <2>1. PICK s \in Subs : /\ ~Used(s)
                            /\ subscribed' = [subscribed EXCEPT ![loop.op] = s]
                            /\ sub' = [sub EXCEPT ![s] = NewSub(loop.op)]
                            /\ again' = IF StillEnding(loop.op) THEN again \cup {loop.op} ELSE again \ {loop.op}
      BY <1>3, SubscribeStep
    <2> QED
      BY <1>1, <1>2, <1>3, <2>1
  <1> QED
    BY <1>1, <1>2, <1>3

\* What SeeEnd and the others may change of canceled and the watcher.
LEMMA GoroutineEnds ==
  ASSUME SubTypeOK, NEW s \in Subs, Goroutine(s)
  PROVE  /\ sub'[s].canceled /\ ~sub[s].canceled => conn = "closed" /\ sub'[s].watcher = "ended"
         /\ sub'[s].watcher # sub[s].watcher /\ sub[s].watcher = "waiting" => sub'[s].canceled
         /\ sub'[s].watcher \in {"waiting", "unsubscribe"} =>
               sub[s].watcher \in {"waiting", "unsubscribe"} /\ (conn # "closed" => sub[s].canceled <=> sub'[s].canceled)
  <1> USE DEF ServerAt, WatcherAt, SubTypeOK, Sub
  <1>1. CASE LockForList(s)
    BY <1>1 DEF LockForList
  <1>2. CASE SendList(s)
    BY <1>2, SMTT(30) DEF SendList
  <1>3. CASE DropList(s)
    BY <1>3 DEF DropList
  <1>4. CASE EndServing(s)
    BY <1>4 DEF EndServing
  <1>5. CASE SeeEnd(s)
    BY <1>5 DEF SeeEnd
  <1> QED
    BY <1>1, <1>2, <1>3, <1>4, <1>5 DEF Goroutine

LEMMA MapNext == ASSUME SubInv, SplitNext PROVE MapOK'
  <1> USE DEF SubInv
  <1>1. CASE Quiet
    BY <1>1 DEF Quiet, MapOK, Used
  <1>2. CASE subscribeOpenIntelDeliveries
    <2>1. CASE UNCHANGED <<subscribed, sub, again>>
      BY <1>2, <2>1, SubscribeCases DEF MapOK, Used
    <2>2. ASSUME NEW o \in SubOps, o \notin Subscribed, NEW s \in Subs, ~Used(s), conn' = conn,
                 subscribed' = [subscribed EXCEPT ![o] = s], sub' = [sub EXCEPT ![s] = NewSub(o)]
          PROVE  MapOK'
      <3>1. sub'[s] = NewSub(o) /\ \A i \in Subs : i # s => sub'[i] = sub[i]
        BY <2>2 DEF SubTypeOK
      <3>2. subscribed'[o] = s /\ \A p \in SubOps : p # o => subscribed'[p] = subscribed[p]
        BY <2>2 DEF SubTypeOK
      <3>3. subscribed[o] = NoSub
        BY <2>2 DEF Subscribed
      <3>4. NoSub \notin Subs
        BY SubConstants DEF Subs
      <3>5. \A p \in SubOps : p # o /\ subscribed[p] # NoSub => subscribed[p] \in Subs /\ subscribed[p] # s
        BY <2>2 DEF MapOK, SubTypeOK
      <3>6. \A p \in SubOps : subscribed'[p] # NoSub => /\ Used(subscribed[p])' /\ sub'[subscribed'[p]].op = p
                                                        /\ conn' # "closed" => ~sub'[subscribed'[p]].canceled
        BY <2>2, <3>1, <3>2, <3>5 DEF MapOK, Used, NewSub
      <3>7. \A i \in Subs : Used(i)' /\ ~sub'[i].canceled => subscribed'[sub'[i].op] = i
        BY <2>2, <3>1, <3>2, <3>3, <3>4 DEF MapOK, Used, NewSub
      <3>8. \A i \in Subs : IF Used(i)' THEN /\ sub'[i].op \in SubOps /\ sub'[i].watcher # "off"
                                             /\ ~sub'[i].canceled => sub'[i].watcher = "waiting"
                                        ELSE sub'[i].watcher = "off"
        BY <2>2, <3>1 DEF MapOK, Used, NewSub
      <3> QED
        BY <3>6, <3>7, <3>8 DEF MapOK
    <2> QED
      BY <1>2, <2>1, <2>2, SubscribeCases
  <1>3. ASSUME NEW o \in SubOps, Removes(o) PROVE MapOK'
    <2>1. subscribed'[o] = NoSub /\ \A p \in SubOps : p # o => subscribed'[p] = subscribed[p]
      BY <1>3 DEF Removes, Removed, SubTypeOK
    <2>2. \A p \in SubOps : p # o /\ subscribed[p] # NoSub => subscribed[p] \in Subs /\ subscribed[p] # subscribed[o]
      BY DEF MapOK, SubTypeOK
    <2>3. \A p \in SubOps : subscribed'[p] # NoSub => /\ Used(subscribed[p])' /\ sub'[subscribed'[p]].op = p
                                                      /\ conn' # "closed" => ~sub'[subscribed'[p]].canceled
      BY <1>3, <2>1, <2>2 DEF MapOK, Used, Removes
    <2>4. \A i \in Subs : Used(i)' /\ ~sub'[i].canceled => subscribed'[sub'[i].op] = i
      BY <1>3, <2>1 DEF MapOK, Used, Removes
    <2>5. \A i \in Subs : IF Used(i)' THEN /\ sub'[i].op \in SubOps /\ sub'[i].watcher # "off"
                                           /\ ~sub'[i].canceled => sub'[i].watcher = "waiting"
                                      ELSE sub'[i].watcher = "off"
      BY <1>3 DEF MapOK, Used, Removes
    <2> QED
      BY <2>3, <2>4, <2>5 DEF MapOK
  <1>4. ASSUME NEW s \in Subs, Goroutine(s) PROVE MapOK'
    <2>1. subscribed' = subscribed /\ conn' = conn
      BY <1>4, GoroutineStep DEF OthersKept
    <2>2. \A i \in Subs : /\ Used(i)' <=> Used(i)
                          /\ sub'[i].op = sub[i].op /\ (sub'[i].watcher = "off" <=> sub[i].watcher = "off")
                          /\ sub[i].canceled => sub'[i].canceled
                          /\ ~sub'[i].canceled => sub'[i].watcher = sub[i].watcher \/ sub[i].watcher # "waiting"
                          /\ conn # "closed" /\ sub'[i].canceled => sub[i].canceled
      BY <1>4, GoroutineStep, GoroutineEnds DEF Used
    <2>3. \A p \in SubOps : subscribed[p] # NoSub => subscribed[p] \in Subs
      BY DEF SubTypeOK
    <2> QED
      BY <2>1, <2>2, <2>3 DEF MapOK
  <1> QED
    BY <1>1, <1>2, <1>3, <1>4, QuietSteps, RemoveStep DEF SplitNext

LEMMA ListNext == ASSUME SubInv, SplitNext, MapOK' PROVE ListOK'
  <1> USE DEF SubInv
  <1>1. CASE Quiet
    BY <1>1 DEF Quiet, ListOK, Teller, Subscribed
  <1>2. CASE subscribeOpenIntelDeliveries
    <2>1. CASE UNCHANGED <<subscribed, sub, again>>
      BY <1>2, <2>1, SubscribeCases DEF ListOK, Teller, Subscribed
    <2>2. ASSUME NEW s \in Subs, sub' = [sub EXCEPT ![s] = NewSub(loop.op)]
          PROVE  ListOK'
      <3>1. Teller(s)'
        BY <2>2 DEF SubTypeOK, NewSub, Teller
      <3> QED
        BY <3>1 DEF ListOK
    <2> QED
      BY <1>2, <2>1, <2>2, SubscribeCases
  <1>3. ASSUME NEW o \in SubOps, Removes(o) PROVE ListOK'
    <2>1. \A i \in Subs : Teller(i) => Teller(i)'
      <3> SUFFICES ASSUME NEW i \in Subs, Teller(i) PROVE Teller(i)'
        OBVIOUS
      <3>1. /\ sub'[i].server = sub[i].server
            /\ sub'[i].canceled <=> sub[i].canceled \/ subscribed[o] = i
            /\ \/ sub'[i].watcher = sub[i].watcher
               \/ sub[i].watcher = "unsubscribe" /\ sub'[i].watcher = "list"
        BY <1>3 DEF Removes
      <3>2. Used(i) => (~sub[i].canceled => sub[i].watcher = "waiting")
        BY DEF MapOK
      <3>3. sub[i].server \in {"list", "sending"} => Used(i)
        BY DEF Used
      <3> QED
        BY <3>1, <3>2, <3>3 DEF Teller
    <2>2. CASE subscribed[o] = NoSub
      <3>1. Subscribed' = Subscribed
        BY <1>3, <2>2 DEF Removes, Removed, SubTypeOK, Subscribed
      <3> QED
        BY <1>3, <2>1, <3>1 DEF ListOK, Removes
    <2>3. CASE subscribed[o] # NoSub
      <3>1. PICK i \in Subs : i = subscribed[o]
        BY <2>3 DEF SubTypeOK
      <3>2. conn # "closed" => sub[i].watcher = "waiting" /\ sub'[i].watcher = "waiting" /\ sub'[i].canceled
        BY <1>3, <2>3, <3>1 DEF MapOK, Removes
      <3>3. conn' = conn
        BY <1>3 DEF Removes
      <3> QED
        BY <3>2, <3>3 DEF ListOK, Teller
    <2> QED
      BY <2>2, <2>3
  <1>4. ASSUME NEW s \in Subs, Goroutine(s) PROVE ListOK'
    <2>1. subscribed' = subscribed /\ conn' = conn /\ Subscribed' = Subscribed
      BY <1>4, GoroutineStep DEF OthersKept, Subscribed
    <2>2. \A i \in Subs : i # s => (Teller(i) <=> Teller(i)')
      BY <1>4, GoroutineStep DEF Teller
    <2>3. CASE SendList(s)
      <3>1. conn = "up" => listed' = Subscribed
        BY <2>3 DEF SendList, TellList
      <3> QED
        BY <2>1, <3>1 DEF ListOK
    <2>4. CASE LockForList(s) \/ DropList(s) \/ EndServing(s) \/ SeeEnd(s)
      <3>1. listed' = listed
        BY <2>4 DEF LockForList, DropList, EndServing, SeeEnd
      <3>2. ASSUME conn = "up", Teller(s) PROVE Teller(s)'
        <4> USE DEF ServerAt, WatcherAt, SubTypeOK, Sub, Teller
        <4>1. CASE LockForList(s)
          BY <3>2, <4>1 DEF LockForList
        <4>2. CASE DropList(s)
          BY <3>2, <4>2 DEF DropList
        <4>3. CASE EndServing(s)
          BY <3>2, <4>3 DEF EndServing
        <4>4. CASE SeeEnd(s)
          BY <3>2, <4>4 DEF SeeEnd
        <4> QED
          BY <2>4, <4>1, <4>2, <4>3, <4>4
      <3> QED
        BY <2>1, <2>2, <3>1, <3>2 DEF ListOK
    <2> QED
      BY <1>4, <2>3, <2>4 DEF Goroutine
  <1> QED
    BY <1>1, <1>2, <1>3, <1>4, QuietSteps, RemoveStep DEF SplitNext

LEMMA AgainNext == ASSUME SubInv, SplitNext PROVE AgainOK'
  <1> USE DEF SubInv
  <1>1. CASE Quiet
    BY <1>1 DEF Quiet, AgainOK, Subscribed
  <1>2. CASE subscribeOpenIntelDeliveries
    <2>1. CASE UNCHANGED <<subscribed, sub, again>>
      BY <1>2, <2>1, SubscribeCases DEF AgainOK, Subscribed
    <2>2. ASSUME NEW o \in SubOps, o \notin Subscribed, NEW s \in Subs, ~Used(s), conn' = conn,
                 subscribed' = [subscribed EXCEPT ![o] = s], sub' = [sub EXCEPT ![s] = NewSub(o)],
                 again' = IF StillEnding(o) THEN again \cup {o} ELSE again \ {o}
          PROVE  AgainOK'
      <3>1. sub'[s] = NewSub(o) /\ \A i \in Subs : i # s => sub'[i] = sub[i]
        BY <2>2 DEF SubTypeOK
      <3>2. \A p : p # o => (p \in Subscribed' <=> p \in Subscribed)
        BY <2>2 DEF SubTypeOK, Subscribed
      <3>3. ASSUME NEW i \in Subs, i # s, conn # "closed", sub[i].canceled, sub[i].watcher \in {"waiting", "unsubscribe"}
            PROVE  sub[i].op \in again' \/ sub[i].op \notin Subscribed'
        <4>1. CASE sub[i].op = o
          BY <2>2, <3>3, <4>1 DEF StillEnding
        <4>2. CASE sub[i].op # o
          BY <2>2, <3>2, <3>3, <4>2 DEF AgainOK
        <4> QED
          BY <4>1, <4>2
      <3>4. ~NewSub(o).canceled
        BY DEF NewSub
      <3> QED
        BY <2>2, <3>1, <3>3, <3>4 DEF AgainOK
    <2> QED
      BY <1>2, <2>1, <2>2, SubscribeCases
  <1>3. ASSUME NEW o \in SubOps, Removes(o) PROVE AgainOK'
    <2>1. conn' = conn /\ again' = again
      BY <1>3 DEF Removes
    <2>2. Subscribed' = Subscribed \ {o}
      BY <1>3 DEF Removes, Removed, SubTypeOK, Subscribed
    <2>3. ASSUME NEW i \in Subs, conn # "closed", sub'[i].canceled, sub'[i].watcher \in {"waiting", "unsubscribe"}
          PROVE  sub'[i].op \in again \/ sub'[i].op \notin Subscribed'
      <3>1. /\ sub'[i].op = sub[i].op /\ sub'[i].watcher = sub[i].watcher
            /\ sub[i].canceled \/ subscribed[o] = i
        BY <1>3, <2>3 DEF Removes
      <3>2. subscribed[o] = i => sub[i].op = o
        <4>1. subscribed[o] = i => subscribed[o] # NoSub
          BY SubConstants DEF Subs
        <4> QED
          BY <4>1 DEF MapOK
      <3> QED
        BY <2>2, <2>3, <3>1, <3>2 DEF AgainOK
    <2> QED
      BY <2>1, <2>3 DEF AgainOK
  <1>4. ASSUME NEW s \in Subs, Goroutine(s) PROVE AgainOK'
    <2>1. conn' = conn /\ again' = again /\ Subscribed' = Subscribed
      BY <1>4, GoroutineStep DEF OthersKept, Subscribed
    <2> QED
      BY <1>4, <2>1, GoroutineStep, GoroutineEnds DEF AgainOK
  <1> QED
    BY <1>1, <1>2, <1>3, <1>4, QuietSteps, RemoveStep DEF SplitNext

\* One more message.
LEMMA AskedMore ==
  ASSUME SubTypeOK, AskedOK, NEW ask \in Ask, SendAsk(ask), loop.pc # "subscribe" \/ loop.op \in SubOps
  PROVE  AskedOK'
  <1>1. PICK n \in Nat : n = Len(asks)
    BY LenProperties DEF SubTypeOK
  <1>2. /\ Len(asks') = n + 1 /\ asks'[n + 1] = ask
        /\ \A m \in 1..n : asks'[m] = asks[m]
    BY <1>1, AppendProperties DEF SendAsk, SubTypeOK
  <1>3. UNCHANGED <<loop, subscribed, again>>
    BY DEF SendAsk
  <1>4. ASSUME NEW o \in SubOps, ask.op # o PROVE o \in asked' <=> o \in asked
    BY <1>4 DEF SendAsk
  <1>5. ASSUME NEW o \in SubOps, ask.op = o PROVE ask.type = "subscribe" <=> o \in asked'
    <2>1. ask.type \in {"subscribe", "unsubscribe"}
      BY <1>5, SubConstants DEF Ask
    <2> QED
      BY <1>5, <2>1 DEF SendAsk
  <1>6. ASSUME NEW o \in SubOps, NEW m \in 1..(n + 1), LastSaid(o, m)'
        PROVE  asks'[m].type = "subscribe" <=> o \in asked'
    <2>1. CASE ask.op = o
      <3>1. m = n + 1
        BY <1>1, <1>2, <1>6, <2>1 DEF LastSaid
      <3> QED
        BY <1>2, <1>5, <2>1, <3>1
    <2>2. CASE ask.op # o
      <3>1. m \in 1..n
        BY <1>1, <1>2, <1>6, <2>2 DEF LastSaid
      <3>2. LastSaid(o, m)
        BY <1>1, <1>2, <1>6, <3>1 DEF LastSaid
      <3> QED
        BY <1>1, <1>2, <1>4, <2>2, <3>1, <3>2 DEF AskedOK
    <2> QED
      BY <2>1, <2>2
  <1>7. \A o \in SubOps : ~Unhandled(o)' => ~Unhandled(o) /\ ask.op # o
    BY <1>1, <1>2 DEF Unhandled
  <1>8. \A o \in SubOps : /\ HandlingOf(o)' <=> HandlingOf(o)
                          /\ o \in Subscribed' <=> o \in Subscribed
    BY <1>3 DEF HandlingOf, Subscribed
  <1> QED
    BY <1>2, <1>3, <1>4, <1>6, <1>7, <1>8 DEF AskedOK

\* The next message is received.
LEMMA AskedReceived ==
  ASSUME SubTypeOK, AskedOK, Receive
  PROVE  AskedOK' /\ (loop'.pc \in {"subscribe", "unsubscribe"} => loop'.op \in SubOps)
         /\ loop'.pc \in {"subscribe", "unsubscribe", "refused"}
  <1>1. PICK n \in Nat : n = Len(asks)
    BY LenProperties DEF SubTypeOK
  <1>2. /\ n > 0 /\ Len(asks') = n - 1
        /\ \A m \in 1..(n - 1) : asks'[m] = asks[m + 1]
        /\ Head(asks) = asks[1] /\ asks[1] \in Ask
    <2>1. asks \in Seq(Ask) /\ asks # <<>> /\ asks' = Tail(asks)
      BY DEF Receive, SubTypeOK
    <2> QED
      BY <1>1, <2>1, HeadTailProperties, EmptySeq
  <1>3. /\ loop'.pc = asks[1].type /\ loop'.op = asks[1].op /\ loop.pc = "receive"
        /\ UNCHANGED <<asked, subscribed, again>>
    BY <1>2 DEF Receive, SubTypeOK, Loop
  <1>4. /\ asks[1].type \in {"subscribe", "unsubscribe", "refused"}
        /\ asks[1].op \in SubOps <=> asks[1].type \in {"subscribe", "unsubscribe"}
    BY <1>2, SubConstants DEF Ask
  <1>5. ASSUME NEW o \in SubOps, NEW m \in 1..(n - 1), LastSaid(o, m)'
        PROVE  asks'[m].type = "subscribe" <=> o \in asked'
    <2>1. m + 1 \in 1..n /\ asks'[m] = asks[m + 1]
      BY <1>2
    <2>2. asks[m + 1].op = o
      BY <1>5, <2>1 DEF LastSaid
    <2>3. ASSUME NEW k \in 1..n, k > m + 1 PROVE asks[k].op # o
      <3>1. k - 1 \in 1..(n - 1) /\ k - 1 > m /\ asks'[k - 1] = asks[k]
        BY <1>2, <2>3
      <3> QED
        BY <1>2, <1>5, <3>1 DEF LastSaid
    <2>4. LastSaid(o, m + 1)
      BY <1>1, <2>2, <2>3 DEF LastSaid
    <2> QED
      BY <1>1, <1>3, <2>1, <2>4 DEF AskedOK
  <1>6. ASSUME NEW o \in SubOps, ~Unhandled(o)', asks[1].op = o
        PROVE  asks[1].type = "subscribe" <=> o \in asked
    <2>1. ASSUME NEW k \in 1..n, k > 1 PROVE asks[k].op # o
      <3>1. k - 1 \in 1..(n - 1) /\ asks'[k - 1] = asks[k]
        BY <1>2, <2>1
      <3> QED
        BY <1>2, <1>6, <3>1 DEF Unhandled
    <2>2. LastSaid(o, 1)
      BY <1>1, <1>6, <2>1 DEF LastSaid
    <2> QED
      BY <1>1, <1>2, <2>2 DEF AskedOK
  <1>7. ASSUME NEW o \in SubOps, ~Unhandled(o)', asks[1].op # o
        PROVE  ~Unhandled(o)
    <2>1. SUFFICES ASSUME NEW k \in 1..n, asks[k].op = o PROVE FALSE
      BY <1>1 DEF Unhandled
    <2>2. k - 1 \in 1..(n - 1) /\ asks'[k - 1] = asks[k]
      BY <1>2, <1>7, <2>1
    <2> QED
      BY <1>2, <1>7, <2>1, <2>2 DEF Unhandled
  <1>8. ASSUME NEW o \in SubOps PROVE /\ HandlingOf(o)' <=> asks[1].op = o
                                      /\ ~HandlingOf(o)
                                      /\ o \in Subscribed' <=> o \in Subscribed
    BY <1>3, <1>4 DEF HandlingOf, Subscribed
  <1> QED
    BY <1>2, <1>3, <1>4, <1>5, <1>6, <1>7, <1>8 DEF AskedOK

LEMMA LoopNextOK == ASSUME SubInv, SplitNext PROVE SubLoopOK'
  <1> USE DEF SubInv
  <1>1. ASSUME NEW ask \in Ask, SendAsk(ask) PROVE SubLoopOK'
    BY <1>1, AskedMore DEF SendAsk, SubLoopOK
  <1>2. CASE EndPumps \/ Close
    BY <1>2 DEF EndPumps, Close, SubLoopOK
  <1>3. CASE Receive
    <2>1. CASE conn = "up"
      BY <1>3, <2>1, AskedReceived DEF SubLoopOK
    <2>2. CASE conn # "up"
      <3>1. Head(asks) \in Ask
        BY <1>3, HeadTailProperties DEF Receive, SubTypeOK
      <3>2. loop'.pc = Head(asks).type /\ loop'.op = Head(asks).op /\ conn' = conn
        BY <1>3 DEF Receive, SubTypeOK, Loop
      <3> QED
        BY <2>2, <3>1, <3>2 DEF SubLoopOK, Ask
    <2> QED
      BY <2>1, <2>2
  <1>4. CASE EndReceive \/ GatherSubscriptions \/ WaitForServers \/ UnsubscribeEach
    <2>1. conn' = conn /\ conn # "up" /\ loop'.pc \notin {"subscribe", "unsubscribe"}
      BY <1>4 DEF EndReceive, GatherSubscriptions, WaitForServers, UnsubscribeEach, GoTo, SubTypeOK, Loop, SubLoopOK
    <2> QED
      BY <2>1 DEF SubLoopOK
  <1>5. CASE UNCHANGED subVars
    BY <1>5 DEF subVars, SubLoopOK, AskedOK, LastSaid, Unhandled, HandlingOf, Subscribed
  <1>6. ASSUME loop'.pc = "receive", UNCHANGED <<conn, asks, asked>>,
               conn = "up" => \A o \in SubOps : /\ o \notin again' /\ ~HandlingOf(o) =>
                                                      o \notin again /\ (o \in Subscribed' <=> o \in Subscribed)
                                                /\ HandlingOf(o) => (o \in Subscribed' <=> loop.pc = "subscribe")
        PROVE  SubLoopOK'
    <2>1. \A o \in SubOps : ~HandlingOf(o)'
      BY <1>6 DEF HandlingOf
    <2>2. \A o \in SubOps : /\ Unhandled(o)' <=> Unhandled(o)
                            /\ \A n : LastSaid(o, n)' <=> LastSaid(o, n)
      BY <1>6 DEF Unhandled, LastSaid
    <2>3. conn = "up" => AskedOK'
      BY <1>6, <2>1, <2>2 DEF SubLoopOK, AskedOK
    <2> QED
      BY <1>6, <2>3 DEF SubLoopOK
  <1>7. CASE SendErr
    <2>1. /\ loop.pc = "refused" /\ loop'.pc = "receive"
          /\ UNCHANGED <<conn, asks, asked, again, subscribed>>
      BY <1>7 DEF SendErr, GoTo, SubTypeOK, Loop
    <2> QED
      BY <1>6, <2>1 DEF HandlingOf, Subscribed
  <1>8. CASE subscribeOpenIntelDeliveries
    <2>1. loop'.pc = "receive" /\ loop.pc = "subscribe" /\ UNCHANGED <<conn, asks, asked>>
      BY <1>8, SubscribeCases DEF SubTypeOK, Loop
    <2>2. ASSUME NEW o \in SubOps
          PROVE  /\ o \notin again' /\ o # loop.op => o \notin again /\ (o \in Subscribed' <=> o \in Subscribed)
                 /\ o = loop.op => o \in Subscribed'
      <3>1. CASE loop.op \in Subscribed /\ UNCHANGED <<subscribed, again>>
        BY <3>1 DEF Subscribed
      <3>2. ASSUME NEW s \in Subs, loop.op \in SubOps,
                   subscribed' = [subscribed EXCEPT ![loop.op] = s],
                   again' = IF StillEnding(loop.op) THEN again \cup {loop.op} ELSE again \ {loop.op}
            PROVE  /\ o \notin again' /\ o # loop.op => o \notin again /\ (o \in Subscribed' <=> o \in Subscribed)
                   /\ o = loop.op => o \in Subscribed'
        <4>1. s # NoSub
          BY SubConstants DEF Subs
        <4>2. o \in Subscribed' <=> (o = loop.op \/ o \in Subscribed)
          BY <3>2, <4>1 DEF SubTypeOK, Subscribed
        <4> QED
          BY <3>2, <4>2
      <3> QED
        BY <1>8, <3>1, <3>2, SubscribeCases
    <2>3. \A o \in SubOps : HandlingOf(o) <=> o = loop.op
      BY <2>1 DEF HandlingOf
    <2> QED
      BY <1>6, <2>1, <2>2, <2>3
  <1>9. CASE unsubscribeOpenIntelDeliveries
    <2>1. /\ loop.pc = "unsubscribe" /\ loop'.pc = "receive" /\ UNCHANGED <<conn, asks, asked, again>>
          /\ subscribed' = Removed(loop.op)
      BY <1>9 DEF unsubscribeOpenIntelDeliveries, GoTo, SubTypeOK, Loop
    <2>2. \A o \in SubOps : o \in Subscribed' <=> o \in Subscribed /\ o # loop.op
      BY <2>1 DEF Removed, SubTypeOK, Subscribed
    <2> QED
      BY <1>6, <2>1, <2>2 DEF HandlingOf
  <1>10. ASSUME UNCHANGED <<conn, asks, asked, loop, again>>,
                \A o \in SubOps \ again : conn = "up" => (o \in Subscribed' <=> o \in Subscribed)
         PROVE  SubLoopOK'
    <2>1. \A o \in SubOps : /\ Unhandled(o)' <=> Unhandled(o)
                            /\ HandlingOf(o)' <=> HandlingOf(o)
                            /\ \A n : LastSaid(o, n)' <=> LastSaid(o, n)
      BY <1>10 DEF Unhandled, HandlingOf, LastSaid
    <2>2. conn = "up" => AskedOK'
      BY <1>10, <2>1 DEF SubLoopOK, AskedOK
    <2> QED
      BY <1>10, <2>2 DEF SubLoopOK
  <1>11. ASSUME NEW s \in Subs, Goroutine(s) PROVE SubLoopOK'
    BY <1>10, <1>11, GoroutineStep DEF OthersKept, Subscribed
  <1>12. ASSUME NEW s \in Subs, UnsubscribeEnded(s) PROVE SubLoopOK'
    <2>1. /\ sub[s].watcher = "unsubscribe" /\ subscribed' = Removed(sub[s].op)
          /\ UNCHANGED <<conn, asks, asked, loop, again>>
      BY <1>12 DEF UnsubscribeEnded
    <2>2. \A o \in SubOps : o \in Subscribed' <=> o \in Subscribed /\ o # sub[s].op
      BY <2>1 DEF Removed, SubTypeOK, Subscribed
    <2>3. sub[s].canceled
      BY <2>1 DEF MapOK
    <2>4. conn = "up" => sub[s].op \in again \/ sub[s].op \notin Subscribed
      BY <2>1, <2>3 DEF AgainOK
    <2> QED
      BY <1>10, <2>1, <2>2, <2>4
  <1> QED
    BY <1>1, <1>2, <1>3, <1>4, <1>5, <1>7, <1>8, <1>9, <1>11, <1>12 DEF SplitNext

LEMMA SubInvInit == SubInit => SubInv
  <1> SUFFICES ASSUME SubInit PROVE SubInv
    OBVIOUS
  <1>1. MaxAsks \in Nat /\ asks = <<>> /\ Len(asks) = 0 /\ NoSub \notin Subs
    BY SubConstants, EmptySeq DEF SubInit, Subs
  <1>2. \A s \in Subs : sub[s] = [op |-> NoOp, canceled |-> FALSE, server |-> "off", watcher |-> "off"]
    BY DEF SubInit
  <1>3. SubTypeOK
    <2>1. sub \in [Subs -> Sub]
      BY DEF SubInit, Sub
    <2>2. asks \in Seq(Ask) /\ asksLeft \in 0..MaxAsks
      BY <1>1 DEF SubInit
    <2>3. loop \in Loop /\ subscribed \in [SubOps -> Subs \cup {NoSub}]
      BY DEF SubInit, Loop
    <2> QED
      BY <2>1, <2>2, <2>3 DEF SubInit, SubTypeOK
  <1>4. Numbered
    <2>1. 0 \in 0..MaxAsks /\ \A s \in Subs : Used(s) <=> s <= 0
      BY <1>1, <1>2 DEF Used, Subs
    <2>2. 0 + asksLeft + Len(asks) + Handling <= MaxAsks
      BY <1>1 DEF SubInit, Handling
    <2> QED
      BY <2>1, <2>2 DEF Numbered
  <1>5. MapOK /\ ListOK /\ AgainOK
    BY <1>2 DEF SubInit, MapOK, ListOK, AgainOK, Used, Subscribed
  <1>6. SubLoopOK
    BY <1>1 DEF SubInit, SubLoopOK, AskedOK, LastSaid, Subscribed
  <1> QED
    BY <1>3, <1>4, <1>5, <1>6 DEF SubInv

LEMMA SubInvNext == SubInv /\ [SubNext]_subVars => SubInv'
  BY NextSplits, SubTypeNext, NumberedNext, MapNext, ListNext, AgainNext, LoopNextOK DEF SubInv

LEMMA SubInvKnows == SubInv => ClientKnowsItsSubscriptions
  <1> SUFFICES ASSUME SubInv, Settled
               PROVE  /\ listed = Subscribed
                      /\ {s \in Subs : sub[s].server = "serving"} = {subscribed[o] : o \in Subscribed}
                      /\ \A o \in SubOps \ again : o \in Subscribed <=> o \in asked
    BY DEF ClientKnowsItsSubscriptions
  <1> USE DEF SubInv
  <1>1. \A s \in Subs : /\ ~Teller(s)
                        /\ sub[s].server = "serving" => Used(s) /\ ~sub[s].canceled
                        /\ Used(s) /\ ~sub[s].canceled => sub[s].server = "serving"
    BY DEF Settled, Teller, Used, MapOK
  <1>2. listed = Subscribed
    BY <1>1 DEF Settled, ListOK
  <1>3. \A s \in Subs : sub[s].server = "serving" => \E o \in Subscribed : s = subscribed[o]
    <2> SUFFICES ASSUME NEW s \in Subs, sub[s].server = "serving" PROVE \E o \in Subscribed : s = subscribed[o]
      OBVIOUS
    <2>1. subscribed[sub[s].op] = s /\ sub[s].op \in SubOps /\ s # NoSub
      BY <1>1, SubConstants DEF MapOK, Subs
    <2> QED
      BY <2>1 DEF Subscribed
  <1>4. \A o \in Subscribed : subscribed[o] \in Subs /\ sub[subscribed[o]].server = "serving"
    BY <1>1 DEF Subscribed, MapOK, Settled, SubTypeOK
  <1>5. \A o \in SubOps \ again : o \in Subscribed <=> o \in asked
    <2>1. AskedOK /\ asks = <<>> /\ loop.pc = "receive"
      BY DEF Settled, SubLoopOK
    <2>2. \A o \in SubOps : ~Unhandled(o) /\ ~HandlingOf(o)
      BY <2>1, EmptySeq DEF Unhandled, HandlingOf
    <2> QED
      BY <2>1, <2>2 DEF AskedOK
  <1> QED
    BY <1>2, <1>3, <1>4, <1>5

\* When nothing is on its way, the client has been told what it is subscribed to, this is what is served, and
\* it is what the client has asked for unless it subscribed again while an earlier subscription was ending.
THEOREM ClientKnowsItsSubscriptionsCorrect == SubSpec => []ClientKnowsItsSubscriptions
  <1>1. SubInit => SubInv
    BY SubInvInit
  <1>2. SubInv /\ [SubNext]_subVars => SubInv'
    BY SubInvNext
  <1>3. SubInv => ClientKnowsItsSubscriptions
    BY SubInvKnows
  <1> QED
    BY <1>1, <1>2, <1>3, PTL DEF SubSpec
-----------------------------------------------------------------------------
(* The session of the hub.                                                 *)

\* What Serve returns with.
LEMMA HubReturns ==
  ASSUME HubTypeOK, NEW links \in [HubChannels -> {"none", "dialing", "failed", "up", "ending", "closed"}],
         ReturnWith(links)
  PROVE  /\ serve' \in HubServing /\ client' = "closed"
         /\ link' \in [HubChannels -> {"none", "dialing", "failed", "up", "ending", "closed"}]
  BY DEF HubTypeOK, HubServing, ReturnWith

LEMMA HubTypeNext == HubTypeOK /\ [HubNext]_hubVars => HubTypeOK'
  <1> SUFFICES ASSUME HubTypeOK, [HubNext]_hubVars PROVE HubTypeOK'
    OBVIOUS
  <1>1. AllClosed \in [HubChannels -> {"none", "dialing", "failed", "up", "ending", "closed"}]
    BY DEF HubTypeOK, AllClosed
  <1>2. CASE readAuth
    BY <1>2, HubReturns DEF readAuth, HubTypeOK, HubServing
  <1>3. CASE EndAuth
    BY <1>3, HubReturns DEF EndAuth, HubTypeOK
  <1>4. CASE connectChannels
    <2>1. CASE ReturnWith(AllClosed) /\ UNCHANGED <<toChannel, toClient, forwards>>
      BY <1>1, <2>1, HubReturns DEF HubTypeOK
    <2>2. CASE /\ serve' = [serve EXCEPT !.pc = "route"]
               /\ toChannel' = [toChannel EXCEPT !.pc = "receive"]
               /\ toClient' = [c \in HubChannels |-> "receive"]
               /\ UNCHANGED <<client, link, forwards>>
      BY <2>2 DEF HubTypeOK, HubServing, Listening
    <2> QED
      BY <1>4, <2>1, <2>2 DEF connectChannels, ClosedIfDialFailed
  <1>5. CASE EndRoute
    BY <1>1, <1>5, HubReturns DEF EndRoute, HubTypeOK
  <1>6. CASE Shutdown \/ ClientFails \/ HubClient
    <2>1. CASE Shutdown
      BY <2>1 DEF Shutdown, HubTypeOK, HubServing
    <2>2. CASE ClientFails \/ EndClient
      BY <2>2 DEF ClientFails, EndClient, HubTypeOK
    <2>3. CASE CloseClient
      BY <2>3 DEF CloseClient, HubTypeOK, HubServing
    <2> QED
      BY <1>6, <2>1, <2>2, <2>3 DEF HubClient
  <1>7. CASE EndByClient \/ ForwardToChannel \/ sendErrOverControlChannel \/ EndToChannel
    <2>1. CASE EndByClient
      BY <2>1 DEF EndByClient, HubTypeOK, HubServing, Listening
    <2>2. CASE ForwardToChannel
      BY <2>2 DEF ForwardToChannel, HubTypeOK, Listening
    <2>3. CASE sendErrOverControlChannel
      BY <2>3 DEF sendErrOverControlChannel, HubTypeOK, Listening
    <2>4. CASE EndToChannel
      BY <2>4 DEF EndToChannel, HubTypeOK, Listening
    <2> QED
      BY <1>7, <2>1, <2>2, <2>3, <2>4
  <1>8. ASSUME NEW c \in HubChannels \cup {NoChannel}, ReceiveFromClient(c) PROVE HubTypeOK'
    <2>1. forwards' \in [client : 0..MaxForwards, channels : 0..MaxForwards]
      BY <1>8, HubConstants DEF ReceiveFromClient, HubTypeOK
    <2> QED
      BY <1>8, <2>1 DEF ReceiveFromClient, HubTypeOK, Listening
  <1>9. ASSUME NEW c \in HubChannels, LinkFails(c) \/ HubLink(c) PROVE HubTypeOK'
    BY <1>9 DEF LinkFails, HubLink, Dial, DialFails, EndLink, CloseLink, HubTypeOK, HubServing
  <1>10. ASSUME NEW c \in HubChannels, ReceiveFromChannel(c) PROVE HubTypeOK'
    <2>1. forwards' \in [client : 0..MaxForwards, channels : 0..MaxForwards]
      BY <1>10, HubConstants DEF ReceiveFromChannel, HubTypeOK
    <2> QED
      BY <1>10, <2>1 DEF ReceiveFromChannel, HubTypeOK, Listening
  <1>11. ASSUME NEW c \in HubChannels, HubToClient(c) PROVE HubTypeOK'
    BY <1>11 DEF HubToClient, ForwardToClient, EndToClient, HubTypeOK, Listening
  <1>12. CASE UNCHANGED hubVars
    BY <1>12 DEF hubVars, HubTypeOK
  <1> QED
    BY <1>2, <1>3, <1>4, <1>5, <1>6, <1>7, <1>8, <1>9, <1>10, <1>11, <1>12 DEF HubNext, HubServe, HubToChannel
-----------------------------------------------------------------------------
(* All of them.                                                            *)

ConnectionsInv == /\ part \in {"watch", "subs", "hub"}
                  /\ WatchTypeOK /\ WatchInv
                  /\ SubInv
                  /\ HubTypeOK

\* A step of the whole is one of a part.
LEMMA ConnectionsStep ==
  [Next]_vars => /\ UNCHANGED part
                 /\ [WatchNext]_watchVars
                 /\ [SubNext]_subVars
                 /\ [HubNext]_hubVars
  BY DEF Next, OfWatch, OfSubs, OfHub, vars

\* The variables of the watch, of the subscriptions and of the hub have their types.
THEOREM ConnectionsTypesCorrect == Spec => []TypesOK
  <1>1. Init => ConnectionsInv
    <2>1. HubInit => HubTypeOK
      BY HubConstants DEF HubInit, HubTypeOK, HubServing, Listening
    <2> QED
      BY <2>1, WatchInvInit, SubInvInit DEF Init, ConnectionsInv
  <1>2. ConnectionsInv /\ [Next]_vars => ConnectionsInv'
    <2> SUFFICES ASSUME ConnectionsInv, [Next]_vars PROVE ConnectionsInv'
      OBVIOUS
    <2>1. (WatchTypeOK /\ WatchInv)'
      BY ConnectionsStep, WatchInvNext DEF ConnectionsInv
    <2>2. SubInv'
      BY ConnectionsStep, SubInvNext DEF ConnectionsInv
    <2>3. HubTypeOK' /\ part' = part
      BY ConnectionsStep, HubTypeNext DEF ConnectionsInv
    <2> QED
      BY <2>1, <2>2, <2>3 DEF ConnectionsInv
  <1>3. ConnectionsInv => TypesOK
    BY DEF ConnectionsInv, SubInv, TypesOK
  <1> QED
    BY <1>1, <1>2, <1>3, PTL DEF Spec
=============================================================================
