---------------------------- MODULE RadioDelivery ----------------------------
(***************************************************************************)
(* radio-delivery-svc: deliveries over radio are offered to the operators *)
(* of an operation, who pick them up one by one, release or finish them.  *)
(*                                                                         *)
(* One operation is modelled.  Transactions run at READ COMMITTED; one    *)
(* that locks rows is a step that reads the candidates and a step that    *)
(* has locked and re-read them all and commits.  The row locks are taken  *)
(* in turn, but a locked row no longer changes and a finished one never   *)
(* becomes active again, so that the last lock decides.  Of a transaction *)
(* that reads without locking, the read and the update are steps.         *)
(*                                                                         *)
(* Clients ask when they connect, when they are told that deliveries may  *)
(* be available, after they got one and after an error.                   *)
(***************************************************************************)
EXTENDS Naturals, FiniteSets

CONSTANTS
    Attempts,    \* intel-delivery-attempts of the operation over radio channels
    Operators,   \* users with the permission to deliver
    Managers,    \* those of them with the permission to manage any radio delivery
    NoOperator,
    Checker,     \* runPeriodicRadioDeliveryTimeoutChecks
    Importance,  \* of the intel, per attempt
    CreatedAt,   \* of the attempt
    MemberSets,  \* bound: the members the operation may have
    MaxTx,       \* bound: transactions of requests and the check at the same time
    MaxOffered,  \* bound: attempts accepted while users connect, join or leave
    MaxFaults    \* bound: crashes, failed transactions and clients that go

ASSUME RadioAssumption ==
    /\ Managers \subseteq Operators
    /\ NoOperator \notin Operators /\ Checker \notin Operators
    /\ Importance \in [Attempts -> Nat] /\ CreatedAt \in [Attempts -> Nat]
    /\ MemberSets \subseteq SUBSET Operators
    /\ MaxTx \in Nat /\ MaxOffered \in Nat /\ MaxFaults \in Nat

VARIABLES
    success,      \* of the radio delivery: none (no row), open (NULL) or set, be it to true or false
    pickedUpBy,
    overdue,      \* picked up longer ago than pickedUpTimeout
    handling,     \* transaction of the inbox: the attempt it accepts or ends
    tx,           \* transactions of requests and of the periodic check
    scheduled,    \* notifyRequestsForOperation is not empty
    members,      \* table operation_members
    connected,    \* operators with a connection
    assigned,     \* connectionsByOperation
    informed,     \* operators that will ask without being told anything more
    missed,       \* who will not be told of which delivery, for a known reason
    faults

deliveryVars == <<success, pickedUpBy, overdue>>
clientVars == <<connected, assigned, informed>>
radioVars == <<deliveryVars, handling, tx, scheduled, members, clientVars, missed, faults>>

Txs == Operators \cup {Checker}
NoTx == [kind |-> "none", rows |-> {}]
Idle == [kind |-> "none", attempts |-> {}]

RadioTypeOK ==
    /\ success \in [Attempts -> {"none", "open", "set"}]
    /\ pickedUpBy \in [Attempts -> Operators \cup {NoOperator}]
    /\ overdue \subseteq Attempts
    /\ handling \in [kind : {"none", "accept", "end"}, attempts : SUBSET Attempts]
    /\ tx \in [Txs -> [kind : {"none", "ask", "release", "finish", "check", "announce"},
                       rows : SUBSET Attempts]]
    /\ scheduled \in BOOLEAN
    /\ members \in MemberSets
    /\ connected \subseteq Operators /\ assigned \subseteq Operators /\ informed \subseteq Operators
    /\ missed \subseteq Operators \X Attempts
    /\ faults \in 0..MaxFaults

RadioInit ==
    /\ success = [a \in Attempts |-> "none"]
    /\ pickedUpBy = [a \in Attempts |-> NoOperator]
    /\ overdue = {} /\ missed = {}
    /\ handling = Idle /\ tx = [x \in Txs |-> NoTx]
    /\ scheduled = FALSE
    /\ members \in MemberSets
    /\ connected = {} /\ assigned = {} /\ informed = {}
    /\ faults = 0

Fault == faults < MaxFaults /\ faults' = faults + 1

Active == { a \in Attempts : success[a] = "open" }
Unclaimed == { a \in Active : pickedUpBy[a] = NoOperator }
Accepted == { a \in Attempts : success[a] # "none" }
MayComeAndGo == Cardinality(Accepted \cup handling.attempts) <= MaxOffered
-----------------------------------------------------------------------------
(* Events from the inbox, one at a time.                                   *)

\* CreateIntelDeliveryAttempt: the rows are inserted and the operation's connections are
\* to be told, all before the inbox commits.  Bound: attempts arrive in the order of their
\* creation.
Accept(a) ==
    /\ handling = Idle /\ success[a] = "none"
    /\ \A b \in Attempts : CreatedAt[b] < CreatedAt[a] => b \in Accepted
    /\ (connected = {} /\ members = Operators) \/ Cardinality(Accepted) < MaxOffered
    /\ handling' = [kind |-> "accept", attempts |-> {a}]
    /\ scheduled' = TRUE
    /\ UNCHANGED <<deliveryVars, tx, members, clientVars, missed, faults>>

AcceptCommits(a) ==
    /\ handling = [kind |-> "accept", attempts |-> {a}]
    /\ handling' = Idle
    /\ success' = [success EXCEPT ![a] = "open"]
    /\ missed' = IF scheduled THEN missed ELSE missed \cup ((connected \ informed) \X {a})
    /\ UNCHANGED <<pickedUpBy, overdue, tx, scheduled, members, clientVars, faults>>

\* UpdateIntelDeliveryAttemptStatus of an attempt that is not active anymore, up to the
\* read of its delivery; one that is finished is left alone.  The attempt's row is locked.
End(a) ==
    /\ handling = Idle /\ success[a] = "open"
    /\ handling' = [kind |-> "end", attempts |-> {a}]
    /\ UNCHANGED <<deliveryVars, tx, scheduled, members, clientVars, missed, faults>>

\* Mutant: the status of the attempt is stored as that of the delivery.
EndAsInactive(a) ==
    /\ handling = [kind |-> "end", attempts |-> {a}]
    /\ handling' = Idle
    /\ success' = [success EXCEPT ![a] = "inactive"]
    /\ UNCHANGED <<pickedUpBy, overdue, tx, scheduled, members, clientVars, missed, faults>>

\* The delivery itself was not locked: it may have been finished since.
EndCommits(a) ==
    /\ handling = [kind |-> "end", attempts |-> {a}]
    /\ handling' = Idle
    /\ success' = [success EXCEPT ![a] = "set"]
    /\ UNCHANGED <<pickedUpBy, overdue, tx, scheduled, members, clientVars, missed, faults>>

\* The event is handled again later.
HandlingRollsBack ==
    /\ handling # Idle /\ handling' = Idle
    /\ Fault
    /\ UNCHANGED <<deliveryVars, tx, scheduled, members, clientVars, missed>>

UpdateOperationMembersByOperation ==
    /\ handling = Idle
    /\ MayComeAndGo
    /\ members' \in MemberSets \ {members}
    /\ UNCHANGED <<deliveryVars, handling, tx, scheduled, clientVars, missed, faults>>
-----------------------------------------------------------------------------
(* Transactions.                                                           *)

\* These will ask and then see what they may have missed.
Informed(users) ==
    informed' = informed \cup (users \cap connected) /\ missed' = missed \ (users \X Attempts)

Begin(x, kind, rows) ==
    /\ tx[x] = NoTx /\ Cardinality({ y \in Txs : tx[y] # NoTx }) < MaxTx
    /\ tx' = [tx EXCEPT ![x] = [kind |-> kind, rows |-> rows]]
    /\ UNCHANGED <<deliveryVars, handling, scheduled, members, connected, assigned, missed, faults>>

\* The rows found by ActiveRadioDeliveriesAndLockOrWait that are still active once locked.
LockedActive(x) == tx[x].rows \cap Active

\* It waits for an attempt whose status is being updated.
Blocked(x) == handling.kind = "end" /\ handling.attempts \subseteq tx[x].rows

\* MarkRadioDeliveryAsPickedUpByAttempt.
MarkAsPickedUp(rows, by) ==
    /\ pickedUpBy' = [a \in Attempts |-> IF a \in rows THEN by ELSE pickedUpBy[a]]
    /\ overdue' = overdue \ rows
    /\ UNCHANGED success

\* PickUpNextRadioDelivery: only members may ask.
Ask(u) ==
    /\ u \in members
    /\ Begin(u, "ask", Active)
    /\ informed' = informed \ {u}

\* Mutant: the status read before the lock is used.
OpenWhenRead(u) == { a \in tx[u].rows : pickedUpBy[a] = NoOperator }

Open(u) == { a \in LockedActive(u) : pickedUpBy[a] = NoOperator }

\* The priority-mode: importance or age, by the number of deliveries in progress.
AtLeastAsUrgent(u, a, b) ==
    IF Cardinality(LockedActive(u) \ Open(u)) % 2 = 0
    THEN Importance[a] >= Importance[b]
    ELSE CreatedAt[a] <= CreatedAt[b]

PickUp(u) ==
    /\ tx[u].kind = "ask" /\ ~Blocked(u)
    /\ \E a \in Open(u) :
          /\ \A b \in Open(u) : AtLeastAsUrgent(u, a, b)
          /\ MarkAsPickedUp({a}, u)
    /\ Informed({u})
    /\ tx' = [tx EXCEPT ![u] = NoTx]
    /\ UNCHANGED <<handling, scheduled, members, connected, assigned, faults>>

NothingToPickUp(u) ==
    /\ tx[u].kind = "ask" /\ ~Blocked(u) /\ Open(u) = {}
    /\ tx' = [tx EXCEPT ![u] = NoTx]
    /\ UNCHANGED <<deliveryVars, handling, scheduled, members, clientVars, missed, faults>>

\* limitToPickedUpBy.
MayManage(u, a) == pickedUpBy[a] # NoOperator /\ (u \in Managers \/ pickedUpBy[a] = u)

\* ReleasePickedUpRadioDelivery reads and checks the delivery without a lock.
ReadForRelease(u, a) ==
    /\ success[a] = "open" /\ MayManage(u, a)
    /\ Begin(u, "release", {a})
    /\ UNCHANGED informed

\* Mutant: nobody is told of the release.
ReleaseUntold(u) ==
    /\ tx[u].kind = "release" /\ MarkAsPickedUp(tx[u].rows, NoOperator)
    /\ tx' = [tx EXCEPT ![u] = NoTx]
    /\ UNCHANGED <<handling, scheduled, members, clientVars, missed, faults>>

\* The update is unconditional.
Release(u) ==
    /\ tx[u].kind = "release" /\ MarkAsPickedUp(tx[u].rows, NoOperator)
    /\ tx' = [tx EXCEPT ![u].kind = "announce"]
    /\ UNCHANGED <<handling, scheduled, members, clientVars, missed, faults>>

\* FinishRadioDelivery: whether the delivery is still active does not matter.
ReadForFinish(u, a) ==
    /\ a \in Accepted /\ MayManage(u, a)
    /\ Begin(u, "finish", {a})
    /\ UNCHANGED informed

Finish(u) ==
    /\ tx[u].kind = "finish"
    /\ success' = [a \in Attempts |-> IF a \in tx[u].rows THEN "set" ELSE success[a]]
    /\ tx' = [tx EXCEPT ![u] = NoTx]
    /\ UNCHANGED <<pickedUpBy, overdue, handling, scheduled, members, clientVars, missed, faults>>

\* releaseTimedOutRadioDeliveries.
Check ==
    /\ Begin(Checker, "check", Active)
    /\ UNCHANGED informed

\* Mutant: the comparison with the timeout is the other way round.
NotYetTimedOut == { a \in LockedActive(Checker) : pickedUpBy[a] # NoOperator /\ a \notin overdue }

TimedOut == { a \in LockedActive(Checker) : pickedUpBy[a] # NoOperator /\ a \in overdue }

ReleaseTimedOut ==
    /\ tx[Checker].kind = "check" /\ ~Blocked(Checker)
    /\ MarkAsPickedUp(TimedOut, NoOperator)
    /\ tx' = [tx EXCEPT ![Checker] =
                 IF TimedOut = {} THEN NoTx ELSE [NoTx EXCEPT !.kind = "announce", !.rows = TimedOut]]
    /\ UNCHANGED <<handling, scheduled, members, clientVars, missed, faults>>

\* After the commit of a release.
ScheduleNotifyUpdates(x) ==
    /\ tx[x].kind = "announce"
    /\ scheduled' = TRUE
    /\ tx' = [tx EXCEPT ![x] = NoTx]
    /\ UNCHANGED <<deliveryVars, handling, members, clientVars, missed, faults>>

\* The client that released has gone meanwhile.
ScheduleCancelled(u) ==
    /\ tx[u].kind = "announce"
    /\ Fault
    /\ missed' = missed \cup ((connected \ informed) \X tx[u].rows)
    /\ tx' = [tx EXCEPT ![u] = NoTx]
    /\ UNCHANGED <<deliveryVars, handling, scheduled, members, clientVars>>

\* The transaction is rolled back.  It locks a delivery before its attempt and End the
\* attempt before the delivery: Postgres aborts one of two that wait for each other.
RollBack(x) ==
    /\ tx[x].kind \notin {"none", "announce"}
    /\ \/ Blocked(x) /\ tx[x].kind \in {"ask", "check"} /\ UNCHANGED faults
       \/ Fault
    /\ tx' = [tx EXCEPT ![x] = NoTx]
    /\ Informed(IF tx[x].kind = "ask" THEN {x} ELSE {})
    /\ UNCHANGED <<deliveryVars, handling, scheduled, members, connected, assigned>>
-----------------------------------------------------------------------------
(* Connections.                                                            *)

\* reassignConnectionsToOperations; an error is logged.
Reassign ==
    \/ assigned' = connected' \cap members /\ UNCHANGED faults
    \/ Fault /\ UNCHANGED assigned

AcceptNewConnection(u) ==
    /\ u \notin connected
    /\ MayComeAndGo
    /\ connected' = connected \cup {u}
    /\ informed' = informed \cup {u} /\ UNCHANGED missed
    /\ Reassign
    /\ UNCHANGED <<deliveryVars, handling, tx, scheduled, members>>

RemoveConn(u) ==
    /\ u \in connected
    /\ connected' = connected \ {u}
    /\ informed' = informed \ {u} /\ missed' = missed \ ({u} \X Attempts)
    /\ Reassign
    /\ UNCHANGED <<deliveryVars, handling, tx, scheduled, members>>

NotifyUpdates ==
    /\ scheduled /\ scheduled' = FALSE
    /\ informed' = informed \cup (assigned \cap connected)
    /\ missed' = { m \in missed \cup ((connected \ assigned) \X Unclaimed) : m[1] \notin informed' }
    /\ UNCHANGED <<deliveryVars, handling, tx, members, connected, assigned, faults>>

\* pickedUpTimeout is over; it matters to active deliveries.
TimePasses(a) ==
    /\ success[a] = "open" /\ pickedUpBy[a] # NoOperator
    /\ overdue' = overdue \cup {a}
    /\ UNCHANGED <<success, pickedUpBy, handling, tx, scheduled, members, clientVars, missed, faults>>

\* The service dies and restarts.
Restart ==
    /\ Fault
    /\ handling' = Idle /\ tx' = [x \in Txs |-> NoTx]
    /\ scheduled' = FALSE
    /\ connected' = {} /\ assigned' = {} /\ informed' = {} /\ missed' = {}
    /\ UNCHANGED <<deliveryVars, members>>
-----------------------------------------------------------------------------
InboxStep ==
    \/ \E a \in Attempts : Accept(a) \/ AcceptCommits(a) \/ End(a) \/ EndCommits(a)
    \/ HandlingRollsBack \/ UpdateOperationMembersByOperation

Request(u) ==
    \/ Ask(u) \/ PickUp(u) \/ NothingToPickUp(u) \/ Release(u) \/ Finish(u) \/ ScheduleCancelled(u)
    \/ \E a \in Attempts : ReadForRelease(u, a) \/ ReadForFinish(u, a)

RadioNext ==
    \/ InboxStep
    \/ \E u \in Operators : Request(u) \/ AcceptNewConnection(u) \/ RemoveConn(u)
    \/ Check \/ ReleaseTimedOut
    \/ \E x \in Txs : ScheduleNotifyUpdates(x) \/ RollBack(x)
    \/ NotifyUpdates \/ Restart
    \/ \E a \in Attempts : TimePasses(a)

\* What has begun goes on.
Proceed(x) ==
    \/ x = Checker /\ ReleaseTimedOut
    \/ x # Checker /\ (PickUp(x) \/ NothingToPickUp(x) \/ Release(x) \/ Finish(x))
    \/ ScheduleNotifyUpdates(x)

\* The check runs again and again; with MaxTx as soon as another transaction ends.
RadioFairness ==
    /\ SF_radioVars(Check) /\ WF_radioVars(Proceed(Checker))
    /\ WF_radioVars(\E u \in Operators : Proceed(u))
    /\ WF_radioVars(\E a \in Attempts : AcceptCommits(a) \/ EndCommits(a))
    /\ \A a \in Attempts : WF_radioVars(TimePasses(a))

RadioSpec == RadioInit /\ [][RadioNext]_radioVars /\ RadioFairness
-----------------------------------------------------------------------------
(* Properties.                                                             *)

\* PickUpNextRadioDelivery: whatever is released, finished, ended or timed out meanwhile, a
\* delivery is only handed out while it is active and nobody has it.
HandedOutOnce ==
    [][\A a \in Attempts :
          pickedUpBy'[a] \notin {pickedUpBy[a], NoOperator}
              => pickedUpBy[a] = NoOperator /\ success[a] = "open"]_radioVars

\* runPeriodicRadioDeliveryTimeoutChecks: no operator keeps an active delivery for ever.
HeldNotForEver ==
    \A a \in Attempts : []<>(success[a] = "open" => pickedUpBy[a] = NoOperator)

\* The connections will be told after the delivery became free.
ToBeTold(a) == scheduled \/ \E x \in Txs : tx[x].kind = "announce" /\ a \in tx[x].rows

\* ReleasePickedUpRadioDelivery, releaseTimedOutRadioDeliveries: whichever of the racing
\* transactions released it, nobody who is connected waits while a delivery lies free and nothing
\* will be told, unless the service has lost the message in one of three known ways: it told
\* before the commit, the client that released was gone, the user was not assigned.
ReleasedIsOffered ==
    \A a \in Unclaimed, u \in connected :
        \/ ToBeTold(a)
        \/ u \in informed
        \/ tx[u].kind = "ask" /\ a \in tx[u].rows
        \/ <<u, a>> \in missed

Quiet == ~scheduled /\ handling = Idle /\ \A x \in Txs : tx[x] = NoTx

\* docs/sites/radio-delivery.rst: "Clients receive updates via websocket [...] which informs
\* them about possible new delivery requests": once nothing is under way, no connected member
\* waits while a delivery lies open.
MembersAreInformed ==
    Quiet /\ Unclaimed # {} => (members \cap connected) \subseteq informed
=============================================================================
