--------------------------- MODULE DeliveryMirror ---------------------------
(* What open-intel-delivery-notifier-svc makes of the events about         *)
(* deliveries, attempts and the auto-delivery list of logistics-svc, and   *)
(* when it wakes the watcher of an operation.  One intel of one operation. *)
(*                                                                         *)
(* The handlers of these events run a transaction of their own inside that *)
(* of the inbox, so that an event may be handled again that has had its    *)
(* effect already.                                                         *)
EXTENDS Naturals, SequencesExt

CONSTANTS MirrorDeliveries,   \* deliveries of the intel
          MirrorAttempts,     \* attempts
          DeliveryOf,         \* attempt -> its delivery
          MirrorEntries,      \* address book entries
          RecipientOf,        \* delivery -> the entry it goes to
          TheIntel,           \* the intel
          MaxMirrorEvents,    \* bound: events of a key not yet handled
          MaxMirrorFaults     \* bound: transactions of the inbox that fail

ASSUME DeliveryMirrorAssumption ==
    /\ DeliveryOf \in [MirrorAttempts -> MirrorDeliveries]
    /\ RecipientOf \in [MirrorDeliveries -> MirrorEntries]
    /\ TheIntel \notin MirrorDeliveries \cup MirrorEntries
    /\ MirrorDeliveries \cap MirrorEntries = {}
    /\ MaxMirrorEvents \in Nat \ {0}

VARIABLES owned,         \* what logistics-svc has committed and told
          mirrorEvents,  \* key -> events not yet handled
          mirror,        \* the tables of the mirror
          watched,       \* the deliveries open when the watcher was woken last
          mirrorFaults,
          redone,        \* history: keys with an event that took effect and stayed in the inbox
          repeated       \* history: entries with an event that told what was told before

mirrorVars == <<owned, mirrorEvents, mirror, watched, mirrorFaults, redone, repeated>>

MirrorKeys == {TheIntel} \cup MirrorDeliveries \cup MirrorEntries
AttemptsOf(d) == {a \in MirrorAttempts : DeliveryOf[a] = d}
Tables == [intel: BOOLEAN, deliveries: SUBSET MirrorDeliveries, attempts: SUBSET MirrorAttempts, auto: SUBSET MirrorEntries]

MirrorInit ==
    /\ owned = [delivery |-> [d \in MirrorDeliveries |-> "none"], attempt |-> [a \in MirrorAttempts |-> "none"], auto |-> {}]
    /\ mirrorEvents = [k \in MirrorKeys |-> <<>>]
    /\ mirror = [intel |-> FALSE, deliveries |-> {}, attempts |-> {}, auto |-> {}]
    /\ watched = {}
    /\ mirrorFaults = 0
    /\ redone = {} /\ repeated = {}
-----------------------------------------------------------------------------
(* logistics-svc: what it commits, and the events it adds to the outbox.   *)

NotifyIntelCreated == [type |-> "intelCreated"]
NotifyIntelDeliveryCreated == [type |-> "deliveryCreated"]
NotifyIntelDeliveryStatusUpdated == [type |-> "deliveryEnded"]
NotifyIntelDeliveryAttemptCreated(a) == [type |-> "attemptCreated", attempt |-> a]
NotifyIntelDeliveryAttemptStatusUpdated(a) == [type |-> "attemptEnded", attempt |-> a]
NotifyAddressBookEntryAutoDeliveryUpdated(enabled) == [type |-> "auto", enabled |-> enabled]

ByOwner(k, new) ==
    /\ mirrorEvents' = [mirrorEvents EXCEPT ![k] = @ \o new]
    /\ Len(mirrorEvents'[k]) <= MaxMirrorEvents
    /\ UNCHANGED <<mirror, watched, mirrorFaults, redone>>

\* CreateIntel with its deliveries.
CreateDeliveries(ds) ==
    /\ ds # {} /\ \A d \in MirrorDeliveries : owned.delivery[d] = "none"
    /\ owned' = [owned EXCEPT !.delivery = [d \in MirrorDeliveries |-> IF d \in ds THEN "active" ELSE @[d]]]
    /\ mirrorEvents' = [k \in MirrorKeys |-> IF k = TheIntel THEN <<NotifyIntelCreated>>
                                             ELSE IF k \in ds THEN <<NotifyIntelDeliveryCreated>>
                                             ELSE mirrorEvents[k]]
    /\ UNCHANGED <<mirror, watched, mirrorFaults, redone, repeated>>

ActiveAttempts(d) == {a \in AttemptsOf(d) : owned.attempt[a] = "active"}

\* createIntelDeliveryAttempt, the delivery being locked.
CreateAttempt(a) ==
    /\ owned.attempt[a] = "none"
    /\ owned.delivery[DeliveryOf[a]] = "active" /\ ActiveAttempts(DeliveryOf[a]) = {}
    /\ owned' = [owned EXCEPT !.attempt[a] = "active"]
    /\ ByOwner(DeliveryOf[a], <<NotifyIntelDeliveryAttemptCreated(a)>>)
    /\ UNCHANGED repeated

\* The end of an attempt that does not end its delivery.
EndDeliveryAttempt(a) ==
    /\ owned.attempt[a] = "active"
    /\ owned' = [owned EXCEPT !.attempt[a] = "ended"]
    /\ ByOwner(DeliveryOf[a], <<NotifyIntelDeliveryAttemptStatusUpdated(a)>>)
    /\ UNCHANGED repeated

\* MarkIntelDeliveryAsDelivered, CancelIntelDeliveryByID and markDeliveryAsFailed: active attempts
\* end first.
EndWholeDelivery(d) ==
    /\ owned.delivery[d] = "active"
    /\ owned' = [owned EXCEPT !.delivery[d] = "ended",
                              !.attempt = [a \in MirrorAttempts |-> IF a \in ActiveAttempts(d) THEN "ended" ELSE @[a]]]
    /\ ByOwner(d, SetToSeq({NotifyIntelDeliveryAttemptStatusUpdated(a) : a \in ActiveAttempts(d)})
                  \o <<NotifyIntelDeliveryStatusUpdated>>)
    /\ UNCHANGED repeated

\* A change of the auto-delivery list tells of entries whether or not they change (module
\* AutoDelivery).
TellAutoDelivery(e, enabled) ==
    /\ owned' = [owned EXCEPT !.auto = IF enabled THEN @ \cup {e} ELSE @ \ {e}]
    /\ repeated' = IF owned' = owned THEN repeated \cup {e} ELSE repeated
    /\ ByOwner(e, <<NotifyAddressBookEntryAutoDeliveryUpdated(enabled)>>)
-----------------------------------------------------------------------------
(* The mirror.                                                             *)

\* OpenIntelDeliveriesByOperation: active, without an active attempt, to an entry without
\* auto-delivery.
OpenIntelDeliveriesByOperation(m) ==
    {d \in m.deliveries : m.intel /\ AttemptsOf(d) \cap m.attempts = {} /\ RecipientOf[d] \notin m.auto}

\* SetAutoIntelDeliveryEnabledForEntry: the wanted value is not looked at.
SetAutoIntelDeliveryEnabledForEntry(auto, e, enabled) == IF e \in auto THEN auto \ {e} ELSE auto \cup {e}

\* What the controller makes of an event, and whether it knows the operation to notify.
AfterMirrorEvent(m, k, event) ==
    CASE event.type = "intelCreated" -> [m EXCEPT !.intel = TRUE]
      [] event.type = "deliveryCreated" -> [m EXCEPT !.deliveries = @ \cup {k}]
      [] event.type = "deliveryEnded" -> [m EXCEPT !.deliveries = @ \ {k}]
      [] event.type = "attemptCreated" -> [m EXCEPT !.attempts = @ \cup {event.attempt}]
      [] event.type = "attemptEnded" -> [m EXCEPT !.attempts = @ \ {event.attempt}]
      [] event.type = "auto" -> [m EXCEPT !.auto = SetAutoIntelDeliveryEnabledForEntry(@, k, event.enabled)]

\* IntelOperationByDelivery and IntelOperationByDeliveryAttempt find the operation by joins.
OperationKnown(m, d) == m.intel /\ d \in m.deliveries

\* A taken primary key, a row that is missing, an intel that is not known yet.
Refuses(m, k, event) ==
    CASE event.type = "intelCreated" -> m.intel
      [] event.type = "deliveryCreated" -> k \in m.deliveries \/ ~m.intel
      [] event.type = "deliveryEnded" -> ~OperationKnown(m, k)
      [] event.type = "attemptCreated" -> event.attempt \in m.attempts
      [] event.type = "attemptEnded" -> event.attempt \notin m.attempts
      [] event.type = "auto" -> FALSE

\* Mutant: the operation of an ended attempt is looked up when the attempt is gone.
NotifiesUnlessGone(m, k, event) ==
    CASE event.type = "intelCreated" -> FALSE
      [] event.type \in {"deliveryCreated", "deliveryEnded"} -> TRUE
      [] event.type = "attemptCreated" -> OperationKnown(m, k)
      [] event.type = "attemptEnded" -> FALSE
      [] event.type = "auto" -> \E d \in m.deliveries : m.intel /\ RecipientOf[d] = k

\* Whether the handler gets to know an operation to call notifyIntelDeliveryChanged for: that of a
\* deleted attempt is read before it is deleted.
Notifies(m, k, event) ==
    CASE event.type = "intelCreated" -> FALSE
      [] event.type \in {"deliveryCreated", "deliveryEnded"} -> TRUE
      [] event.type \in {"attemptCreated", "attemptEnded"} -> OperationKnown(m, k)
      [] event.type = "auto" -> \E d \in m.deliveries : m.intel /\ RecipientOf[d] = k

\* The handler's own transaction commits, and the watcher is woken.  Then that of the inbox
\* commits, or it fails and the event stays.
HandleMirrorEvent(k) ==
    /\ mirrorEvents[k] # <<>>
    /\ ~Refuses(mirror, k, Head(mirrorEvents[k]))
    /\ mirror' = AfterMirrorEvent(mirror, k, Head(mirrorEvents[k]))
    /\ watched' = IF Notifies(mirror, k, Head(mirrorEvents[k])) THEN OpenIntelDeliveriesByOperation(mirror') ELSE watched
    /\ \/ /\ mirrorEvents' = [mirrorEvents EXCEPT ![k] = Tail(@)]
          /\ UNCHANGED <<mirrorFaults, redone>>
       \/ /\ mirrorFaults < MaxMirrorFaults /\ mirrorFaults' = mirrorFaults + 1
          /\ redone' = redone \cup {k}
          /\ UNCHANGED mirrorEvents
    /\ UNCHANGED <<owned, repeated>>

MirrorNext ==
    \/ \E ds \in SUBSET MirrorDeliveries : CreateDeliveries(ds)
    \/ \E a \in MirrorAttempts : CreateAttempt(a) \/ EndDeliveryAttempt(a)
    \/ \E d \in MirrorDeliveries : EndWholeDelivery(d)
    \/ \E e \in MirrorEntries, enabled \in BOOLEAN : TellAutoDelivery(e, enabled)
    \/ \E k \in MirrorKeys : HandleMirrorEvent(k)

MirrorSpec == MirrorInit /\ [][MirrorNext]_mirrorVars
-----------------------------------------------------------------------------
(* Properties.                                                             *)

MirrorTypeOK == /\ mirror \in Tables
                /\ watched \subseteq MirrorDeliveries
                /\ \A k \in MirrorKeys : Len(mirrorEvents[k]) <= MaxMirrorEvents

\* Whether something is there that the event on adds and off removes, once the events of the key
\* that are still to be handled are.
InTheEnd(k, on, off, now) ==
    LET events == mirrorEvents[k]
    IN  \/ now /\ \A i \in DOMAIN events : events[i] # off
        \/ \E i \in DOMAIN events : events[i] = on /\ \A j \in DOMAIN events : j > i => events[j] # off

\* Whether an entry had auto-delivery after the first i of its events, as they tell it.
AutoTold(e, i) == IF i = 0 THEN e \in mirror.auto ELSE mirrorEvents[e][i].enabled

\* In the end the mirror has the active deliveries and attempts, and no handler refuses its event
\* for another reason than that of an intel whose event waits - but for keys of which an event was
\* handled twice.
DeliveriesFollow ==
    /\ \A d \in MirrorDeliveries \ redone :
           /\ InTheEnd(d, NotifyIntelDeliveryCreated, NotifyIntelDeliveryStatusUpdated, d \in mirror.deliveries)
                  = (owned.delivery[d] = "active")
           /\ \A a \in AttemptsOf(d) :
                  InTheEnd(d, NotifyIntelDeliveryAttemptCreated(a), NotifyIntelDeliveryAttemptStatusUpdated(a),
                           a \in mirror.attempts)
                      = (owned.attempt[a] = "active")
    /\ \A k \in MirrorKeys \ redone :
           mirrorEvents[k] # <<>> /\ Refuses(mirror, k, Head(mirrorEvents[k])) =>
               ~mirror.intel /\ mirrorEvents[TheIntel] # <<>>

\* Each event of an entry changes what the mirror has about it, which is in the end what
\* logistics-svc has - but for entries that were told the same twice as well.
AutoDeliveryFollows ==
    \A e \in MirrorEntries \ (redone \cup repeated) :
        /\ \A i \in DOMAIN mirrorEvents[e] : AutoTold(e, i) # AutoTold(e, i - 1)
        /\ AutoTold(e, Len(mirrorEvents[e])) = (e \in owned.auto)

\* Whenever the list of open deliveries becomes another one, the watcher is woken.
WatcherIsTold == watched = OpenIntelDeliveriesByOperation(mirror)

MirrorFollows == DeliveriesFollow /\ AutoDeliveryFollows /\ WatcherIsTold
=============================================================================
