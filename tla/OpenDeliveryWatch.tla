-------------------------- MODULE OpenDeliveryWatch --------------------------
(***************************************************************************)
(* The watchers of open-intel-delivery-notifier-svc: how the list of open *)
(* intel-deliveries of an operation reaches those who listen to it.       *)
(*                                                                         *)
(* One operation is modelled; the others have watchers of their own.  The *)
(* list is the number of the change that produced it; 0 is the empty list *)
(* a hub starts with.                                                      *)
(*                                                                         *)
(* Goroutines: the inbox, which commits changes and then announces them;  *)
(* per watcher one that sets the flag periodically and one that waits for *)
(* it; per listener one that serves it and one that waits for lists.      *)
(* Waiting on a sync.Cond is a state of its own, left by a Broadcast only.*)
(***************************************************************************)
EXTENDS Naturals, FiniteSets

CONSTANTS
    Listeners,   \* subscriptions of clients
    Watchers,    \* bound: watchers that may ever be run
    NoWatcher,
    MaxChanges,  \* bound: changes of the deliveries
    MaxFaults    \* bound: retrievals and sends that fail

ASSUME OpenDeliveryWatchAssumption ==
    /\ NoWatcher \notin Watchers
    /\ IsFiniteSet(Listeners)
    /\ MaxChanges \in Nat /\ MaxFaults \in Nat

VARIABLES
    version,     \* the list in the database
    announcing,  \* a change is committed and its watcher not yet notified
    registered,  \* openIntelDeliveryWatchersByOperation
    running,     \* isRunning of each watcher
    doNotify,
    watcherPC,   \* of the goroutine that waits for doNotify
    retrieved,   \* the list it has read and not yet fed
    current,     \* currentOpenDeliveries of its hub
    listeners,   \* the count of its hub
    serverPC,    \* of ServeOpenIntelDeliveriesListener, per listener
    watcherOf,   \* the watcher a listener is registered at
    listenerPC,  \* of the goroutine of registerListener
    stale,       \* lastNotifyForUpdateAt is before currentAt
    copied,      \* the list it is sending
    told,        \* the list the client got last while it is served
    faults

watcherVars == <<registered, running, doNotify, watcherPC, retrieved, current, listeners>>
listenerVars == <<serverPC, watcherOf, listenerPC, stale, copied, told>>
watchVars == <<version, announcing, watcherVars, listenerVars, faults>>

Versions == 0..MaxChanges

WatchTypeOK ==
    /\ version \in Versions /\ announcing \in BOOLEAN
    /\ registered \in Watchers \cup {NoWatcher}
    /\ running \in [Watchers -> BOOLEAN] /\ doNotify \in [Watchers -> BOOLEAN]
    /\ watcherPC \in [Watchers -> {"none", "check", "parked", "delay", "retrieve", "feed", "ended"}]
    /\ retrieved \in [Watchers -> Versions] /\ current \in [Watchers -> Versions]
    /\ listeners \in [Watchers -> Nat]
    /\ serverPC \in [Listeners -> {"idle", "serving", "left"}]
    /\ watcherOf \in [Listeners -> Watchers \cup {NoWatcher}]
    /\ listenerPC \in [Listeners -> {"none", "check", "parked", "notify", "ended"}]
    /\ stale \in [Listeners -> BOOLEAN]
    /\ copied \in [Listeners -> Versions] /\ told \in [Listeners -> Versions]
    /\ faults \in 0..MaxFaults

WatchInit ==
    /\ version = 0 /\ announcing = FALSE /\ registered = NoWatcher /\ faults = 0
    /\ running = [w \in Watchers |-> FALSE] /\ doNotify = [w \in Watchers |-> FALSE]
    /\ watcherPC = [w \in Watchers |-> "none"]
    /\ retrieved = [w \in Watchers |-> 0] /\ current = [w \in Watchers |-> 0]
    /\ listeners = [w \in Watchers |-> 0]
    /\ serverPC = [l \in Listeners |-> "idle"] /\ listenerPC = [l \in Listeners |-> "none"]
    /\ watcherOf = [l \in Listeners |-> NoWatcher]
    /\ stale = [l \in Listeners |-> FALSE]
    /\ copied = [l \in Listeners |-> 0] /\ told = [l \in Listeners |-> 0]

-----------------------------------------------------------------------------
(* Changes.  Each handler commits a transaction of its own first.          *)

ChangeDeliveries ==
    /\ ~announcing /\ version < MaxChanges
    /\ version' = version + 1 /\ announcing' = TRUE
    /\ UNCHANGED <<watcherVars, listenerVars, faults>>

\* Mutant: the flag is set without a broadcast.
SetWithoutBroadcast(w) ==
    doNotify' = [doNotify EXCEPT ![w] = TRUE] /\ UNCHANGED watcherPC

\* Set the flag and wake the goroutine that waits for it.
WakeWatcher(w) ==
    /\ doNotify' = [doNotify EXCEPT ![w] = TRUE]
    /\ watcherPC' = [watcherPC EXCEPT ![w] = IF @ = "parked" THEN "check" ELSE @]

NotifyIntelDeliveryChanged ==
    /\ announcing /\ announcing' = FALSE
    /\ IF registered = NoWatcher THEN UNCHANGED <<doNotify, watcherPC>> ELSE WakeWatcher(registered)
    /\ UNCHANGED <<version, registered, running, retrieved, current, listeners, listenerVars, faults>>

-----------------------------------------------------------------------------
(* The watcher.                                                            *)

\* The periodic goroutine; it ends once the watcher is shut down, after which the flag means nothing.
Tick(w) ==
    /\ running[w] /\ WakeWatcher(w)
    /\ UNCHANGED <<version, announcing, registered, running, retrieved, current, listeners,
                   listenerVars, faults>>

MoveWatcher(w, from, to) ==
    watcherPC[w] = from /\ watcherPC' = [watcherPC EXCEPT ![w] = to]

AwaitNotify(w) ==
    /\ MoveWatcher(w, "check", CASE ~running[w] -> "ended" [] doNotify[w] -> "delay" [] OTHER -> "parked")
    /\ UNCHANGED <<version, announcing, registered, running, doNotify, retrieved, current, listeners,
                   listenerVars, faults>>

\* The delay is over.
ResetNotify(w) ==
    /\ MoveWatcher(w, "delay", IF running[w] THEN "retrieve" ELSE "ended")
    /\ doNotify' = [doNotify EXCEPT ![w] = @ /\ ~running[w]]
    /\ UNCHANGED <<version, announcing, registered, running, retrieved, current, listeners,
                   listenerVars, faults>>

Retrieve(w) ==
    /\ MoveWatcher(w, "retrieve", "feed")
    /\ retrieved' = [retrieved EXCEPT ![w] = version]
    /\ UNCHANGED <<version, announcing, registered, running, doNotify, current, listeners,
                   listenerVars, faults>>

RetrieveFails(w) ==
    /\ MoveWatcher(w, "retrieve", "check")
    /\ faults < MaxFaults /\ faults' = faults + 1
    /\ UNCHANGED <<version, announcing, registered, running, doNotify, retrieved, current, listeners,
                   listenerVars>>

\* Mutant: the flag is reset after the list was read.
FeedAndReset(w) ==
    /\ MoveWatcher(w, "feed", "check")
    /\ doNotify' = [doNotify EXCEPT ![w] = FALSE]
    /\ current' = [current EXCEPT ![w] = retrieved[w]] /\ retrieved' = [retrieved EXCEPT ![w] = 0]
    /\ stale' = [l \in Listeners |-> stale[l] \/ (watcherOf[l] = w /\ listenerPC[l] # "ended")]
    /\ listenerPC' = [l \in Listeners |->
                        IF watcherOf[l] = w /\ listenerPC[l] = "parked" THEN "check" ELSE listenerPC[l]]
    /\ UNCHANGED <<version, announcing, registered, running, listeners,
                   serverPC, watcherOf, copied, told, faults>>

\* Whether or not the watcher still runs.
Feed(w) ==
    /\ MoveWatcher(w, "feed", "check")
    /\ current' = [current EXCEPT ![w] = retrieved[w]] /\ retrieved' = [retrieved EXCEPT ![w] = 0]
    /\ stale' = [l \in Listeners |-> stale[l] \/ (watcherOf[l] = w /\ listenerPC[l] # "ended")]
    /\ listenerPC' = [l \in Listeners |->
                        IF watcherOf[l] = w /\ listenerPC[l] = "parked" THEN "check" ELSE listenerPC[l]]
    /\ UNCHANGED <<version, announcing, registered, running, doNotify, listeners,
                   serverPC, watcherOf, copied, told, faults>>

-----------------------------------------------------------------------------
(* Listeners.                                                              *)

Register(l, w) ==
    /\ serverPC[l] = "idle"
    /\ serverPC' = [serverPC EXCEPT ![l] = "serving"]
    /\ watcherOf' = [watcherOf EXCEPT ![l] = w]
    /\ listeners' = [listeners EXCEPT ![w] = @ + 1]
    /\ listenerPC' = [listenerPC EXCEPT ![l] = "check"]
    /\ stale' = [stale EXCEPT ![l] = TRUE]
    /\ registered' = w
    /\ UNCHANGED <<version, announcing, retrieved, current, copied, told, faults>>

NewWatchers == { w \in Watchers : watcherPC[w] = "none" }

\* The first half of ServeOpenIntelDeliveriesListener, under the mutex of the map.
Serve(l) ==
    \/ /\ registered # NoWatcher /\ Register(l, registered)
       /\ UNCHANGED <<running, doNotify, watcherPC>>
    \/ /\ registered = NoWatcher /\ NewWatchers # {}
       /\ LET w == CHOOSE w \in NewWatchers : TRUE IN
            /\ Register(l, w)
            /\ running' = [running EXCEPT ![w] = TRUE]
            /\ doNotify' = [doNotify EXCEPT ![w] = TRUE]
            /\ watcherPC' = [watcherPC EXCEPT ![w] = "check"]

\* Mutant: the listener is taken off the count twice.
LeaveTwice(l) ==
    /\ serverPC[l] = "serving" /\ serverPC' = [serverPC EXCEPT ![l] = "left"]
    /\ told' = [told EXCEPT ![l] = 0]
    /\ listeners' = [listeners EXCEPT ![watcherOf[l]] = @ - 2]
    /\ running' = [running EXCEPT ![watcherOf[l]] = FALSE]
    /\ registered' = NoWatcher
    /\ UNCHANGED <<version, announcing, doNotify, watcherPC, retrieved, current,
                   watcherOf, listenerPC, stale, copied, faults>>

\* The second half, some time after the client unsubscribed or its connection ended.  The
\* listener's goroutine sees that it is cancelled from serverPC.  What the map holds is
\* deleted, be it this watcher or a newer one.
Leave(l) ==
    /\ serverPC[l] = "serving" /\ serverPC' = [serverPC EXCEPT ![l] = "left"]
    /\ told' = [told EXCEPT ![l] = 0]
    /\ LET w == watcherOf[l]
           left == listeners[w] - 1 IN
        /\ listeners' = [listeners EXCEPT ![w] = left]
        /\ running' = [running EXCEPT ![w] = @ /\ left > 1]
        /\ registered' = IF left > 1 THEN registered ELSE NoWatcher
    /\ UNCHANGED <<version, announcing, doNotify, watcherPC, retrieved, current,
                   watcherOf, listenerPC, stale, copied, faults>>

Cancelled(l) == serverPC[l] = "left"

\* Wait for a newer list, copy it, and give up the lock.
AwaitUpdate(l) ==
    /\ listenerPC[l] = "check"
    /\ IF Cancelled(l)
         THEN /\ listenerPC' = [listenerPC EXCEPT ![l] = "ended"]
              /\ stale' = [stale EXCEPT ![l] = FALSE] /\ UNCHANGED copied
       ELSE IF stale[l]
         THEN /\ listenerPC' = [listenerPC EXCEPT ![l] = "notify"]
              /\ copied' = [copied EXCEPT ![l] = current[watcherOf[l]]]
              /\ stale' = [stale EXCEPT ![l] = FALSE]
         ELSE listenerPC' = [listenerPC EXCEPT ![l] = "parked"] /\ UNCHANGED <<stale, copied>>
    /\ UNCHANGED <<version, announcing, watcherVars, serverPC, watcherOf, told, faults>>

SendOpenIntelDeliveries(l) ==
    /\ listenerPC[l] = "notify" /\ listenerPC' = [listenerPC EXCEPT ![l] = "check"]
    /\ told' = [told EXCEPT ![l] = IF Cancelled(l) THEN 0 ELSE copied[l]]
    /\ copied' = [copied EXCEPT ![l] = 0]
    /\ UNCHANGED <<version, announcing, watcherVars, serverPC, watcherOf, stale, faults>>

\* Mutant: a failed send counts as sent.
SendFailsSilently(l) ==
    /\ listenerPC[l] = "notify" /\ listenerPC' = [listenerPC EXCEPT ![l] = "check"]
    /\ faults < MaxFaults /\ faults' = faults + 1
    /\ copied' = [copied EXCEPT ![l] = 0]
    /\ UNCHANGED <<version, announcing, watcherVars, serverPC, watcherOf, stale, told>>

\* The list counts as not sent.
SendFails(l) ==
    /\ listenerPC[l] = "notify" /\ listenerPC' = [listenerPC EXCEPT ![l] = "check"]
    /\ faults < MaxFaults /\ faults' = faults + 1
    /\ stale' = [stale EXCEPT ![l] = TRUE] /\ copied' = [copied EXCEPT ![l] = 0]
    /\ UNCHANGED <<version, announcing, watcherVars, serverPC, watcherOf, told>>

-----------------------------------------------------------------------------
WatcherNext(w) ==
    AwaitNotify(w) \/ ResetNotify(w) \/ Retrieve(w) \/ RetrieveFails(w) \/ Feed(w)
ListenerNext(l) == AwaitUpdate(l) \/ SendOpenIntelDeliveries(l) \/ SendFails(l)

WatchNext ==
    \/ ChangeDeliveries \/ NotifyIntelDeliveryChanged
    \/ \E w \in Watchers : Tick(w) \/ WatcherNext(w)
    \/ \E l \in Listeners : Serve(l) \/ Leave(l) \/ ListenerNext(l)

\* Goroutines go on.
WatchFairness ==
    /\ WF_watchVars(NotifyIntelDeliveryChanged)
    /\ \A w \in Watchers : WF_watchVars(WatcherNext(w)) /\ WF_watchVars(Tick(w))
    /\ \A l \in Listeners : WF_watchVars(ListenerNext(l))

WatchSpec == WatchInit /\ [][WatchNext]_watchVars /\ WatchFairness

-----------------------------------------------------------------------------
(* Properties.                                                             *)

\* The watcher of the map never sleeps through a change: until a retrieval fails, the newest list
\* is in its hub, or being brought there, or its flag will be set or is set and it is awake.
\* The flag is reset before the list is read (runNewOpenIntelDeliveryWatcher).
NoLostChange ==
    \A w \in Watchers : (registered = w /\ faults = 0) =>
        \/ current[w] = version
        \/ announcing
        \/ doNotify[w] /\ watcherPC[w] # "parked"
        \/ watcherPC[w] = "retrieve"
        \/ watcherPC[w] = "feed" /\ retrieved[w] = version

\* No list of the hub is lost between the hub and a client: the client has it, it is on its way,
\* or the listener's goroutine is awake and will find it (feed, registerListener).
NoLostList ==
    \A l \in Listeners : serverPC[l] = "serving" =>
        \/ told[l] = current[watcherOf[l]]
        \/ listenerPC[l] = "notify" /\ copied[l] = current[watcherOf[l]]
        \/ stale[l] /\ listenerPC[l] # "parked"

\* Of a watcher: the one in the map runs, one that runs waits for its flag or works, is awake if
\* the flag is set, and never reads a list older than the one it fed.
WatcherInv ==
    /\ registered # NoWatcher => running[registered]
    /\ \A w \in Watchers :
          /\ running[w] => watcherPC[w] \notin {"none", "ended"}
          /\ doNotify[w] => watcherPC[w] # "parked"
          /\ current[w] <= version
          /\ watcherPC[w] = "feed" => current[w] <= retrieved[w] /\ retrieved[w] <= version

\* Of a listener: it is registered at a watcher while it is served, awake if there is a newer list,
\* and what it sends is the newest list of the hub or it will send again.
ListenerInv ==
    \A l \in Listeners :
        /\ serverPC[l] = "idle" <=> watcherOf[l] = NoWatcher
        /\ serverPC[l] = "idle" <=> listenerPC[l] = "none"
        /\ serverPC[l] = "serving" => listenerPC[l] # "ended"
        /\ stale[l] => listenerPC[l] # "parked"
        /\ (listenerPC[l] = "notify" /\ ~stale[l]) => copied[l] = current[watcherOf[l]]

Served(w) == { l \in Listeners : serverPC[l] = "serving" /\ watcherOf[l] = w }
CountInv == \A w \in Watchers : listeners[w] = Cardinality(Served(w))

\* What makes the two properties above inductive.
WatchInv == WatcherInv /\ ListenerInv /\ CountInv /\ NoLostChange /\ NoLostList

\* While its watcher runs, a client does not stay with an old list for ever, though
\* retrievals and sends fail and others come and go.
ClientsCatchUp ==
    \A l \in Listeners :
        ~<>[](serverPC[l] = "serving" /\ running[watcherOf[l]] /\ told[l] # version)

\* ServeOpenIntelDeliveriesListener: "No more listeners, remove the watcher."
ListenedWatcherRuns == \A l \in Listeners : serverPC[l] = "serving" => running[watcherOf[l]]
=============================================================================
