---------------------------- MODULE IntelDelivery ----------------------------
(***************************************************************************)
(* The core of logistics-svc: intel-deliveries, their attempts, and the   *)
(* channels of the address book the attempts use.                         *)
(*                                                                         *)
(* Every operation is one Postgres transaction at READ COMMITTED.  Those  *)
(* that work on one delivery lock its row first (FOR UPDATE) and read the *)
(* attempts under the lock; what else they read (channels, the            *)
(* auto-delivery list) is read by one statement, and an attempt inserted  *)
(* for a channel or delivery holds the foreign key's share lock on it.    *)
(* They are single actions, enabled while nobody else holds the delivery. *)
(* UpdateChannelsByAddressBookEntry and                                   *)
(* DeleteAddressBookEntryWithChannelsByID read before they lock, or       *)
(* without locking: they are sessions of several steps.                   *)
(*                                                                         *)
(* is_active of an attempt is a function of its status in every update of *)
(* this service, so only the status is kept.                              *)
(***************************************************************************)
EXTENDS Naturals, Sequences, FiniteSets

CONSTANTS
    Intels, Deliveries, Entries, Channels, Groups,
    Sessions,       \* transactions on an entry's channels running at the same time
    Users, NoUser,  \* NoUser: the caller of a confirmation is a service
    IntelOf,        \* the intel of a delivery
    To,             \* its recipient, an address book entry
    Importance,     \* of an intel
    ChannelEntry, Priority, MinImportance,
    ActiveChannels, \* channels with is_active set
    ForwardsTo,     \* groups a channel forwards to
    FirstChannels,  \* channels that exist at first; the others may be created later
    MaxAttempts,    \* bound: attempts of a delivery that somebody creates by hand
    MaxFaults       \* bound: transactions of sessions that fail for no reason of their own

ASSUME IntelDeliveryAssumption ==
    /\ Entries # {}
    /\ IntelOf \in [Deliveries -> Intels] /\ To \in [Deliveries -> Entries]
    /\ Importance \in [Intels -> Nat]
    /\ ChannelEntry \in [Channels -> Entries]
    /\ Priority \in [Channels -> Nat] /\ MinImportance \in [Channels -> Nat]
    /\ ForwardsTo \in [Channels -> SUBSET Groups]
    /\ ActiveChannels \subseteq Channels /\ FirstChannels \subseteq Channels
    /\ NoUser \notin Users
    /\ MaxAttempts \in Nat /\ MaxFaults \in Nat

VARIABLES
    deliveries,  \* table intel_deliveries: is_active, success and note in one
    attempts,    \* table intel_delivery_attempts, per delivery by created_at
    channels,    \* table channels
    entries,     \* table address_book_entries
    groups,      \* table groups
    auto,        \* table auto_intel_delivery_address_book_entries
    sessions,    \* the transactions on channels and entries
    faults       \* sessions that failed

deliveryVars == <<deliveries, attempts, channels, entries, groups, auto, sessions, faults>>

\* failed: "no more channels to try"; canceled: by hand, without success.
DeliveryState == {"none", "active", "failed", "canceled", "delivered", "deleted"}
ClosedState == {"failed", "canceled", "delivered"}
\* underway: awaiting-delivery, delivering or awaiting-ack.
ActiveStatus == {"open", "underway"}
EndedStatus == {"delivered", "timeout", "canceled", "failed"}

\* status "deleted": there is no such row any more.  told: the status in the newest event
\* about the attempt.  due: created_at lies more than the channel's timeout back.
Attempt == [channel : Channels, status : ActiveStatus \cup EndedStatus \cup {"deleted"},
            told : ActiveStatus \cup EndedStatus, due : BOOLEAN]

Active(a) == a.status \in ActiveStatus
Exists(a) == a.status # "deleted"
Numbers(d) == 1..Len(attempts[d])
HasActive(as) == \E n \in 1..Len(as) : Active(as[n])

NoSession == [step |-> "idle", entry |-> CHOOSE e \in Entries : TRUE, old |-> {}, affected |-> {}]
Session == [step : {"idle", "lock", "update", "delete"}, entry : Entries,
            old : SUBSET Channels, affected : SUBSET Deliveries]

DeliveryTypeOK ==
    /\ deliveries \in [Deliveries -> DeliveryState]
    /\ attempts \in [Deliveries -> Seq(Attempt)]
    /\ channels \in [Channels -> {"fresh", "live", "gone"}]
    /\ entries \subseteq Entries /\ groups \subseteq Groups /\ auto \subseteq Entries
    /\ sessions \in [Sessions -> Session]
    /\ faults \in 0..MaxFaults

DeliveryInit ==
    /\ deliveries = [d \in Deliveries |-> "none"]
    /\ attempts = [d \in Deliveries |-> << >>]
    /\ channels = [c \in Channels |-> IF c \in FirstChannels THEN "live" ELSE "fresh"]
    /\ entries = Entries /\ groups = Groups
    /\ auto \in SUBSET Entries
    /\ sessions = [s \in Sessions |-> NoSession]
    /\ faults = 0

Unlocked(d) == \A s \in Sessions : d \notin sessions[s].affected
-----------------------------------------------------------------------------
(* Looking after deliveries.                                               *)

\* The status update of an attempt and the event about it.  An ended attempt is never due.
Announce(a, st) == [a EXCEPT !.status = st, !.told = st, !.due = @ /\ st \in ActiveStatus]

\* Mutant: timeouts are not handled.
NeverTimeOut(as) == as

\* handleTimedOutDeliveryAttempts
TimeOut(as) ==
    [n \in 1..Len(as) |-> IF Active(as[n]) /\ as[n].due THEN Announce(as[n], "timeout") ELSE as[n]]

\* NextChannelForDeliveryAttempt: of the recipient's active channels without an attempt for d
\* and with a fitting importance, those with the highest priority; the order of equals is open.
UntriedChannels(d, as, cs) ==
    { c \in ActiveChannels :
        /\ cs[c] = "live" /\ ChannelEntry[c] = To[d]
        /\ Importance[IntelOf[d]] >= MinImportance[c]
        /\ \A n \in 1..Len(as) : Exists(as[n]) => as[n].channel # c }
NextChannels(d, as, cs) ==
    { c \in UntriedChannels(d, as, cs) :
        \A o \in UntriedChannels(d, as, cs) : Priority[o] <= Priority[c] }

NewAttempt(c) == [channel |-> c, status |-> "open", told |-> "open", due |-> FALSE]

\* lookAfterDelivery for every delivery of D, given the tables as the transaction sees them:
\* time out attempts, and where none is active any more and auto-delivery is on, try the
\* next channel or give the delivery up.
LookAfter(D, ds, as, cs) ==
    LET timed == [d \in Deliveries |->
                    IF d \in D /\ ds[d] = "active" THEN TimeOut(as[d]) ELSE as[d]]
        waiting == { d \in D : ds[d] = "active" /\ ~HasActive(timed[d]) /\ To[d] \in auto }
        failing == { d \in waiting : NextChannels(d, timed[d], cs) = {} }
    IN  /\ deliveries' = [d \in Deliveries |-> IF d \in failing THEN "failed" ELSE ds[d]]
        /\ \E next \in [waiting \ failing -> Channels] :
              /\ \A d \in waiting \ failing : next[d] \in NextChannels(d, timed[d], cs)
              /\ attempts' = [d \in Deliveries |->
                    IF d \in waiting \ failing THEN Append(timed[d], NewAttempt(next[d])) ELSE timed[d]]

\* CreateIntel with scheduleDeliveriesForIntel.  Nothing checks that the recipients exist.
CreateIntel(i) ==
    LET new == { d \in Deliveries : IntelOf[d] = i }
    IN  /\ \A d \in new : deliveries[d] = "none"
        /\ LookAfter(new, [d \in Deliveries |-> IF d \in new THEN "active" ELSE deliveries[d]],
                     attempts, channels)
        /\ UNCHANGED <<channels, entries, groups, auto, sessions, faults>>

\* One round of runPeriodicDeliveryChecks: SKIP LOCKED leaves out what others hold.
PeriodicCheck ==
    /\ LookAfter({ d \in Deliveries : deliveries[d] = "active" /\ Unlocked(d) },
                 deliveries, attempts, channels)
    /\ UNCHANGED <<channels, entries, groups, auto, sessions, faults>>
-----------------------------------------------------------------------------
(* Operations on a single delivery.                                        *)

\* Mutant: no check for active attempts.
CreateParallelAttempt(d, c) ==
    /\ Unlocked(d)
    /\ deliveries[d] = "active"
    /\ channels[c] = "live" /\ To[d] \in entries
    /\ Len(attempts[d]) < MaxAttempts
    /\ attempts' = [attempts EXCEPT ![d] = Append(@, NewAttempt(c))]
    /\ UNCHANGED <<deliveries, channels, entries, groups, auto, sessions, faults>>

\* CreateIntelDeliveryAttempt: by hand; the channel need not be the recipient's.
CreateIntelDeliveryAttempt(d, c) ==
    /\ Unlocked(d)
    /\ ~HasActive(attempts[d])
    /\ deliveries[d] = "active"
    /\ channels[c] = "live" /\ To[d] \in entries
    /\ Len(attempts[d]) < MaxAttempts
    /\ attempts' = [attempts EXCEPT ![d] = Append(@, NewAttempt(c))]
    /\ UNCHANGED <<deliveries, channels, entries, groups, auto, sessions, faults>>

\* Mutant: the attempt may have ended before its delivery was locked.
UpdateStatusUnchecked(d, n) ==
    /\ Unlocked(d)
    /\ Exists(attempts[d][n])
    /\ attempts' = [attempts EXCEPT ![d][n] = Announce(@, "underway")]
    /\ UNCHANGED <<deliveries, channels, entries, groups, auto, sessions, faults>>

\* UpdateIntelDeliveryAttemptStatusForActive: radio-delivery-svc and in-app-notifier-svc
\* report progress.  For a row that is gone the handler fails.
UpdateIntelDeliveryAttemptStatusForActive(d, n) ==
    /\ Unlocked(d)
    /\ Active(attempts[d][n])
    /\ attempts' = [attempts EXCEPT ![d][n] = Announce(@, "underway")]
    /\ UNCHANGED <<deliveries, channels, entries, groups, auto, sessions, faults>>

\* The check of by.  by is a user's id, To[d] that of an address book entry.
MayConfirm(by, d) == by # NoUser => by = To[d]

\* MarkIntelDeliveryAndAttemptAsDelivered, n = 0 if no attempt is given.  Neither the
\* delivery nor the attempt needs to be active.
MarkIntelDeliveryAndAttemptAsDelivered(d, n, by) ==
    /\ deliveries[d] \notin {"none", "deleted"}
    /\ n # 0 => Exists(attempts[d][n])
    /\ Unlocked(d)
    /\ MayConfirm(by, d)
    /\ attempts' = [attempts EXCEPT ![d] = [m \in Numbers(d) |->
            IF Active(@[m]) THEN Announce(@[m], IF m = n THEN "delivered" ELSE "canceled") ELSE @[m]]]
    /\ deliveries' = [deliveries EXCEPT ![d] = "delivered"]
    /\ UNCHANGED <<channels, entries, groups, auto, sessions, faults>>

\* MarkIntelDeliveryAttemptAsFailed, then the delivery is looked after.
MarkIntelDeliveryAttemptAsFailed(d, n) ==
    /\ Unlocked(d)
    /\ Active(attempts[d][n])
    /\ LookAfter({d}, deliveries, [attempts EXCEPT ![d][n] = Announce(@, "failed")], channels)
    /\ UNCHANGED <<channels, entries, groups, auto, sessions, faults>>

\* Mutants: attempts go on; the delivery gets an attempt's status.
CancelDeliveryOnly(d, success) ==
    /\ Unlocked(d)
    /\ deliveries[d] = "active"
    /\ deliveries' = [deliveries EXCEPT ![d] = IF success THEN "delivered" ELSE "canceled"]
    /\ UNCHANGED <<attempts, channels, entries, groups, auto, sessions, faults>>
CancelAsTimeout(d, success) ==
    /\ Unlocked(d)
    /\ deliveries[d] = "active"
    /\ deliveries' = [deliveries EXCEPT ![d] = "timeout"]
    /\ UNCHANGED <<attempts, channels, entries, groups, auto, sessions, faults>>

CancelIntelDeliveryByID(d, success) ==
    /\ Unlocked(d)
    /\ deliveries[d] = "active"
    /\ attempts' = [attempts EXCEPT ![d] = [m \in Numbers(d) |->
            IF Active(@[m]) THEN Announce(@[m], "canceled") ELSE @[m]]]
    /\ deliveries' = [deliveries EXCEPT ![d] = IF success THEN "delivered" ELSE "canceled"]
    /\ UNCHANGED <<channels, entries, groups, auto, sessions, faults>>

\* Time passes: the channel's timeout is over.
TimeoutPasses(d, n) ==
    /\ Active(attempts[d][n]) /\ ~attempts[d][n].due
    /\ attempts' = [attempts EXCEPT ![d][n].due = TRUE]
    /\ UNCHANGED <<deliveries, channels, entries, groups, auto, sessions, faults>>

SetAddressBookEntriesWithAutoDeliveryEnabled(E) ==
    /\ E \subseteq entries
    /\ auto' = E
    /\ UNCHANGED <<deliveries, attempts, channels, entries, groups, sessions, faults>>
-----------------------------------------------------------------------------
(* Channels and entries.                                                   *)

ChannelsOf(e) == { c \in Channels : channels[c] = "live" /\ ChannelEntry[c] = e }

\* A foreign key keeps a channel from being deleted while an attempt refers to it.
Referenced(c, as) == \E d \in Deliveries : \E n \in 1..Len(as[d]) :
                        Exists(as[d][n]) /\ as[d][n].channel = c

Begin(s, e, step, old) ==
    /\ sessions[s].step = "idle"
    /\ e \in entries
    /\ sessions' = [sessions EXCEPT ![s] = [step |-> step, entry |-> e, old |-> old, affected |-> {}]]
    /\ UNCHANGED <<deliveries, attempts, channels, entries, groups, auto, faults>>

\* UpdateChannelsByAddressBookEntry, first: the channels to be replaced are read.
RetrieveOldChannels(s, e) == Begin(s, e, "lock", ChannelsOf(e))

OnOldChannel(s, a) == Exists(a) /\ a.channel \in sessions[s].old
ActiveOnOldChannel(s) ==
    { d \in Deliveries : \E n \in Numbers(d) : Active(attempts[d][n]) /\ OnOldChannel(s, attempts[d][n]) }

\* Second: active attempts on them are locked together with their deliveries.
LockActiveAttempts(s) ==
    /\ sessions[s].step = "lock"
    /\ \A d \in ActiveOnOldChannel(s) : Unlocked(d)
    /\ sessions' = [sessions EXCEPT ![s].step = "update", ![s].affected = ActiveOnOldChannel(s)]
    /\ UNCHANGED <<deliveries, attempts, channels, entries, groups, auto, faults>>

\* DeleteIntelDeliveryAttemptsByChannel: all attempts on the old channels are deleted, but
\* only the ones that were locked are announced as canceled.
AttemptsDeleted(s) ==
    [d \in Deliveries |-> [n \in Numbers(d) |->
        LET a == attempts[d][n]
        IN  IF ~OnOldChannel(s, a) THEN a
            ELSE IF d \in sessions[s].affected /\ Active(a)
                 THEN [Announce(a, "canceled") EXCEPT !.status = "deleted"]
                 ELSE [a EXCEPT !.status = "deleted"]]]

ChannelsReplaced(e, new) ==
    [c \in Channels |-> IF c \in new THEN "live" ELSE IF c \in ChannelsOf(e) THEN "gone" ELSE channels[c]]

\* Whether the entry is gone or an attempt refers to a channel about to be deleted.
UpdateConflicts(s) ==
    \/ sessions[s].entry \notin entries
    \/ \E c \in ChannelsOf(sessions[s].entry) : Referenced(c, AttemptsDeleted(s))

\* Mutants: affected deliveries are looked after before the channels are replaced; never.
LookAfterFirst(s, new) ==
    LET e == sessions[s].entry
    IN  /\ sessions[s].step = "update"
        /\ ~UpdateConflicts(s)
        /\ \A d \in ActiveOnOldChannel(s) \ sessions[s].affected : Unlocked(d)
        /\ \A c \in new : channels[c] = "fresh" /\ ChannelEntry[c] = e /\ ForwardsTo[c] \subseteq groups
        /\ LookAfter(sessions[s].affected, deliveries, AttemptsDeleted(s), ChannelsReplaced(e, {}))
        /\ channels' = ChannelsReplaced(e, new)
        /\ sessions' = [sessions EXCEPT ![s] = NoSession]
        /\ UNCHANGED <<entries, groups, auto, faults>>
NoLookAfter(s, new) ==
    LET e == sessions[s].entry
    IN  /\ sessions[s].step = "update"
        /\ ~UpdateConflicts(s)
        /\ \A d \in ActiveOnOldChannel(s) \ sessions[s].affected : Unlocked(d)
        /\ \A c \in new : channels[c] = "fresh" /\ ChannelEntry[c] = e /\ ForwardsTo[c] \subseteq groups
        /\ channels' = ChannelsReplaced(e, new)
        /\ attempts' = AttemptsDeleted(s)
        /\ sessions' = [sessions EXCEPT ![s] = NoSession]
        /\ UNCHANGED <<deliveries, entries, groups, auto, faults>>

\* Third: attempts and channels are replaced, affected deliveries looked after, and all of
\* it is committed.  Attempts another session locked are waited for.
UpdateChannelsByEntry(s, new) ==
    LET e == sessions[s].entry
    IN  /\ sessions[s].step = "update"
        /\ ~UpdateConflicts(s)
        /\ \A d \in ActiveOnOldChannel(s) \ sessions[s].affected : Unlocked(d)
        /\ \A c \in new : channels[c] = "fresh" /\ ChannelEntry[c] = e /\ ForwardsTo[c] \subseteq groups
        /\ channels' = ChannelsReplaced(e, new)
        /\ LookAfter(sessions[s].affected, deliveries, AttemptsDeleted(s), channels')
        /\ sessions' = [sessions EXCEPT ![s] = NoSession]
        /\ UNCHANGED <<entries, groups, auto, faults>>

\* DeleteAddressBookEntryWithChannelsByID, first: no active delivery to the entry is seen.
CheckNoActiveDeliveries(s, e) ==
    /\ \A d \in Deliveries : To[d] = e => deliveries[d] # "active"
    /\ Begin(s, e, "delete", {})

ClosedTo(e) == { d \in Deliveries : To[d] = e /\ deliveries[d] \in ClosedState }

\* The foreign keys of the attempts allow to delete the entry's deliveries and channels.
MayDelete(e) ==
    /\ \A d \in ClosedTo(e) : \A n \in Numbers(d) : ~Exists(attempts[d][n])
    /\ \A c \in ChannelsOf(e) : ~Referenced(c, attempts)

\* Second: closed deliveries, channels and the entry are deleted; auto-delivery cascades.
DeleteAddressBookEntry(s) ==
    LET e == sessions[s].entry
    IN  /\ sessions[s].step = "delete"
        /\ e \in entries /\ MayDelete(e)
        /\ deliveries' = [d \in Deliveries |-> IF d \in ClosedTo(e) THEN "deleted" ELSE deliveries[d]]
        /\ channels' = [c \in Channels |-> IF c \in ChannelsOf(e) THEN "gone" ELSE channels[c]]
        /\ entries' = entries \ {e}
        /\ auto' = auto \ {e}
        /\ sessions' = [sessions EXCEPT ![s] = NoSession]
        /\ UNCHANGED <<attempts, groups, faults>>

\* The transaction of a session is rolled back: because of a foreign key or a missing
\* entry, or because the database, a deadlock or a crash of the service aborts it.
RollbackSession(s) ==
    /\ \/ sessions[s].step = "update" /\ UpdateConflicts(s) /\ UNCHANGED faults
       \/ /\ sessions[s].step = "delete"
          /\ sessions[s].entry \notin entries \/ ~MayDelete(sessions[s].entry)
          /\ UNCHANGED faults
       \/ sessions[s].step # "idle" /\ faults < MaxFaults /\ faults' = faults + 1
    /\ sessions' = [sessions EXCEPT ![s] = NoSession]
    /\ UNCHANGED <<deliveries, attempts, channels, entries, groups, auto>>

\* The event that a group was deleted: channels that forward to it are deleted, their
\* attempts are not.  With an attempt left the handler fails, and is run again.
DeleteGroupByID(g) ==
    LET forwarding == { c \in Channels : channels[c] = "live" /\ g \in ForwardsTo[c] }
    IN  /\ g \in groups
        /\ \A c \in forwarding : ~Referenced(c, attempts)
        /\ channels' = [c \in Channels |-> IF c \in forwarding THEN "gone" ELSE channels[c]]
        /\ groups' = groups \ {g}
        /\ UNCHANGED <<deliveries, attempts, entries, auto, sessions, faults>>
-----------------------------------------------------------------------------
SessionNext(s) ==
    \/ LockActiveAttempts(s)
    \/ \E new \in SUBSET Channels : UpdateChannelsByEntry(s, new)
    \/ DeleteAddressBookEntry(s)
    \/ RollbackSession(s)

DeliveryNext ==
    \/ \E i \in Intels : CreateIntel(i)
    \/ PeriodicCheck
    \/ \E d \in Deliveries :
          \/ \E c \in Channels : CreateIntelDeliveryAttempt(d, c)
          \/ \E success \in BOOLEAN : CancelIntelDeliveryByID(d, success)
          \/ \E n \in Numbers(d) :
                \/ UpdateIntelDeliveryAttemptStatusForActive(d, n)
                \/ MarkIntelDeliveryAttemptAsFailed(d, n)
                \/ TimeoutPasses(d, n)
          \/ \E n \in Numbers(d) \cup {0}, by \in Users \cup {NoUser} :
                MarkIntelDeliveryAndAttemptAsDelivered(d, n, by)
    \/ \E E \in SUBSET Entries : SetAddressBookEntriesWithAutoDeliveryEnabled(E)
    \/ \E s \in Sessions, e \in Entries : RetrieveOldChannels(s, e) \/ CheckNoActiveDeliveries(s, e)
    \/ \E s \in Sessions : SessionNext(s)
    \/ \E g \in Groups : DeleteGroupByID(g)

\* The checks run every 30 s, channel timeouts are finite, transactions end.
DeliveryFairness ==
    /\ WF_deliveryVars(PeriodicCheck)
    /\ \A d \in Deliveries : WF_deliveryVars(\E n \in Numbers(d) : TimeoutPasses(d, n))
    /\ \A s \in Sessions : WF_deliveryVars(SessionNext(s))

DeliverySpec == DeliveryInit /\ [][DeliveryNext]_deliveryVars /\ DeliveryFairness
-----------------------------------------------------------------------------
(* Properties.                                                             *)

\* "parallel delivery attempts are not allowed"
OneActiveAttempt ==
    \A d \in Deliveries : \A m, n \in Numbers(d) :
        Active(attempts[d][m]) /\ Active(attempts[d][n]) => m = n

\* Attempts are only going on for an active delivery: whoever closes it ends them.
ClosedDeliveryHasNoActiveAttempt ==
    \A d \in Deliveries : deliveries[d] # "active" => ~HasActive(attempts[d])

\* A late report about an attempt does not revive it.
EndedAttemptsStayEnded ==
    [][\A d \in Deliveries : \A n \in Numbers(d) :
            ~Active(attempts[d][n]) => ~Active(attempts'[d][n])]_deliveryVars

\* A delivery is given up only if no channel is left to try, also among those that the same
\* transaction just created ("needs to be called for after channels have been updated!").
FailsOnlyWithoutChannel ==
    [][\A d \in Deliveries : (deliveries[d] # "failed" /\ deliveries'[d] = "failed") =>
            UntriedChannels(d, attempts'[d], channels') = {}]_deliveryVars

\* Deliveries whose attempts were canceled for a deleted channel go on or are given up in
\* the same transaction, not at the next periodic check.
AffectedAreLookedAfter ==
    [][\A s \in Sessions : \A d \in sessions[s].affected :
            (d \notin sessions'[s].affected /\ deliveries'[d] = "active" /\ To[d] \in auto)
                => HasActive(attempts'[d])]_deliveryVars

\* handleDeletedChannelsForDeliveryAttempts "cancels, deletes and notifies about all delivery
\* attempts that are using the given deleted channels".
DeletedAttemptsAreCanceled ==
    \A d \in Deliveries : \A n \in Numbers(d) :
        attempts[d][n].status = "deleted" => attempts[d][n].told \notin ActiveStatus

\* With auto-delivery left on, no delivery stays active for ever.
DeliveriesEnd ==
    \A d \in Deliveries : ~<>[](deliveries[d] = "active" /\ To[d] \in auto)
=============================================================================
