---------------------------- MODULE InAppNotifier ----------------------------
(***************************************************************************)
(* in-app-notifier-svc: attempts over in-app notification channels are    *)
(* accepted, and workers send the notifications to the WebSocket           *)
(* connections of the user.  A worker is asked to look after a user over a *)
(* buffered channel: by the handler of a new attempt (before it commits),  *)
(* for a new connection, and periodically for everyone who has connected.  *)
(*                                                                         *)
(* The connections are guarded by a sync.RWMutex, under whose read lock    *)
(* workers send and the periodic check fills the channel: while a writer   *)
(* waits for it, nobody else gets the read lock.                           *)
(*                                                                         *)
(* SELECT ... FOR UPDATE SKIP LOCKED looks at the history as it was when   *)
(* the statement started, and at the attempt as it is when it is locked.   *)
(***************************************************************************)
EXTENDS Naturals, Sequences

CONSTANTS Recipients,   \* users
          Notes,        \* delivery attempts
          NoteOrder,    \* [Notes -> Nat]: when they were created
          InAppChannels,
          Conns,        \* WebSocket connections
          ConnUser,     \* [Conns -> Recipients]
          Workers,
          MaxRequests,  \* capacity of lookAfterUserNotificationRequests
          MaxHistory,   \* bound: entries in the history of an attempt
          Nobody

ASSUME InAppConstants == /\ NoteOrder \in [Notes -> Nat]
                         /\ ConnUser \in [Conns -> Recipients]
                         /\ MaxRequests \in Nat \ {0} /\ MaxHistory \in Nat
                         /\ Nobody \notin Recipients \cup Notes \cup Conns

Note == [user : Recipients \cup {Nobody}, channel : InAppChannels, active : BOOLEAN]

VARIABLES note,      \* table accepted_intel_delivery_attempts
          history,   \* table intel_notification_history: the number of entries of an attempt
          known,     \* table notification_channels
          accepting, \* the attempt whose event is being handled, not yet committed
          conn,      \* connectionsByUser and who waits for the lock to join or leave it
          greeting,  \* connections whose check is still to be requested
          seen,      \* users with an entry in connectionsByUser, be it empty
          requests,  \* lookAfterUserNotificationRequests
          periodic,  \* the periodic check: users still to be requested
          worker

inAppVars == <<note, history, known, accepting, conn, greeting, seen, requests, periodic, worker>>
dbVars == <<note, history, known, accepting>>
connVars == <<conn, greeting, seen>>

IdleWorker == [pc |-> "idle", user |-> Nobody, note |-> Nobody]
NotAccepting == [note |-> Nobody, row |-> Nobody]
Resting == [pc |-> "rest", todo |-> {}]

Accepted(n) == note[n] # Nobody
ConnsOf(u) == {c \in Conns : conn[c] \in {"listed", "leaving"} /\ ConnUser[c] = u}
LockedRow(n) == \E w \in Workers : worker[w].pc = "record" /\ worker[w].note = n

\* The mutex.
Reading == periodic.pc = "send" \/ \E w \in Workers : worker[w].pc \notin {"idle", "rlock"}
WriterWaits == \E c \in Conns : conn[c] \in {"joining", "leaving"}

\* scheduleLookAfterUserNotifications
Request(u) == Len(requests) < MaxRequests /\ requests' = Append(requests, u)

InAppInit == /\ note = [n \in Notes |-> Nobody]
             /\ history = [n \in Notes |-> 0]
             /\ known = InAppChannels
             /\ accepting = NotAccepting
             /\ conn = [c \in Conns |-> "away"]
             /\ greeting = {}
             /\ seen = {}
             /\ requests = <<>>
             /\ periodic = Resting
             /\ worker = [w \in Workers |-> IdleWorker]
-----------------------------------------------------------------------------
(* Handlers of events.                                                     *)

\* CreateIntelDeliveryAttempt: over other channels, attempts are ignored.
CreateIntelDeliveryAttempt(n, row) ==
    /\ accepting.note = Nobody
    /\ ~Accepted(n)
    /\ row.channel \in known
    /\ accepting' = [note |-> n, row |-> row]
    /\ IF row.user = Nobody THEN UNCHANGED requests ELSE Request(row.user)
    /\ UNCHANGED <<note, history, known, conn, greeting, seen, periodic, worker>>

\* The transaction of the event commits, or fails and the event is handled again.
CommitAttempt ==
    /\ accepting.note # Nobody
    /\ note' = [note EXCEPT ![accepting.note] = accepting.row]
    /\ accepting' = NotAccepting
    /\ UNCHANGED <<history, known, connVars, requests, periodic, worker>>
FailAttempt ==
    /\ accepting.note # Nobody
    /\ accepting' = NotAccepting
    /\ UNCHANGED <<note, history, known, connVars, requests, periodic, worker>>

\* UpdateIntelDeliveryAttemptStatus, which waits for a worker that has locked the row.
EndAttempt(n) ==
    /\ Accepted(n) /\ note[n].active
    /\ ~LockedRow(n)
    /\ note' = [note EXCEPT ![n].active = FALSE]
    /\ UNCHANGED <<history, known, accepting, connVars, requests, periodic, worker>>

\* UpdateNotificationChannelsByEntry and DeleteNotificationChannelsByEntry
UpdateNotificationChannels(channels) ==
    /\ known' = channels
    /\ UNCHANGED <<note, history, accepting, connVars, requests, periodic, worker>>
-----------------------------------------------------------------------------
(* Connections.                                                            *)

\* AcceptNewConnection asks for the lock.
Connect(c) ==
    /\ conn[c] = "away" /\ c \notin greeting
    /\ conn' = [conn EXCEPT ![c] = "joining"]
    /\ UNCHANGED <<dbVars, greeting, seen, requests, periodic, worker>>

AcceptNewConnection(c) ==
    /\ conn[c] = "joining"
    /\ ~Reading
    /\ conn' = [conn EXCEPT ![c] = "listed"]
    /\ seen' = seen \cup {ConnUser[c]}
    /\ greeting' = greeting \cup {c}
    /\ UNCHANGED <<dbVars, requests, periodic, worker>>

\* The check for a new connection is requested or, after some time, given up.
Greet(c) ==
    /\ c \in greeting
    /\ greeting' = greeting \ {c}
    /\ Request(ConnUser[c])
    /\ UNCHANGED <<dbVars, conn, seen, periodic, worker>>
GiveUpGreeting(c) ==
    /\ c \in greeting
    /\ greeting' = greeting \ {c}
    /\ UNCHANGED <<dbVars, conn, seen, requests, periodic, worker>>

\* The connection is done: removeConnWhenDone asks for the lock.
Disconnect(c) ==
    /\ conn[c] = "listed"
    /\ conn' = [conn EXCEPT ![c] = "leaving"]
    /\ UNCHANGED <<dbVars, greeting, seen, requests, periodic, worker>>

removeConnWhenDone(c) ==
    /\ conn[c] = "leaving"
    /\ ~Reading
    /\ conn' = [conn EXCEPT ![c] = "away"]
    /\ UNCHANGED <<dbVars, greeting, seen, requests, periodic, worker>>
-----------------------------------------------------------------------------
(* scheduleLookAfterAllUserNotifications, every 16 seconds.                 *)

\* Mutant: only users with a connection that is new are looked after.
StartPeriodicForNew ==
    /\ periodic.pc = "rest"
    /\ ~WriterWaits
    /\ periodic' = [pc |-> "send", todo |-> {ConnUser[c] : c \in greeting}]
    /\ UNCHANGED <<dbVars, connVars, requests, worker>>
StartPeriodic ==
    /\ periodic.pc = "rest"
    /\ ~WriterWaits
    /\ periodic' = [pc |-> "send", todo |-> seen]
    /\ UNCHANGED <<dbVars, connVars, requests, worker>>
RequestPeriodic ==
    /\ periodic.pc = "send"
    /\ \E u \in periodic.todo : Request(u) /\ periodic' = [periodic EXCEPT !.todo = @ \ {u}]
    /\ UNCHANGED <<dbVars, connVars, worker>>
EndPeriodic ==
    /\ periodic.pc = "send" /\ periodic.todo = {}
    /\ periodic' = Resting
    /\ UNCHANGED <<dbVars, connVars, requests, worker>>
-----------------------------------------------------------------------------
(* lookAfterUserNotifications by a worker.                                 *)

StepWorker(w, state) ==
    /\ worker' = [worker EXCEPT ![w] = state]
    /\ UNCHANGED <<connVars, periodic>>

TakeRequest(w) ==
    /\ worker[w].pc = "idle"
    /\ requests # <<>>
    /\ StepWorker(w, [IdleWorker EXCEPT !.pc = "rlock", !.user = Head(requests)])
    /\ requests' = Tail(requests)
    /\ UNCHANGED dbVars

LockConnections(w) ==
    /\ worker[w].pc = "rlock"
    /\ ~WriterWaits
    /\ StepWorker(w, IF ConnsOf(worker[w].user) = {} THEN IdleWorker ELSE [worker[w] EXCEPT !.pc = "oldest"])
    /\ UNCHANGED <<dbVars, requests>>

PendingAttempts(u) == {n \in Notes : Accepted(n) /\ note[n].active /\ note[n].user = u /\ history[n] = 0}

OldestPendingAttempt(w) ==
    LET pending == PendingAttempts(worker[w].user)
    IN  /\ worker[w].pc = "oldest"
        /\ StepWorker(w, IF pending = {} THEN IdleWorker
                         ELSE [worker[w] EXCEPT
                                  !.pc = "select",
                                  !.note = CHOOSE n \in pending : \A m \in pending : NoteOrder[n] <= NoteOrder[m]])
        /\ UNCHANGED <<dbVars, requests>>

\* OutgoingNotificationByAttemptWithoutTriesAndLockOrSkip: what the history shows, ...
StartSelect(w) ==
    /\ worker[w].pc = "select"
    /\ StepWorker(w, IF history[worker[w].note] = 0 THEN [worker[w] EXCEPT !.pc = "lock"] ELSE IdleWorker)
    /\ UNCHANGED <<dbVars, requests>>

\* ... the lock, and the details.  What is not found is an error, and the worker is done.  Sending
\* is not in the transaction, and its errors are only logged.
LockAndSend(w) ==
    LET n == worker[w].note
    IN  /\ worker[w].pc = "lock"
        /\ StepWorker(w, IF note[n].active /\ ~LockedRow(n) /\ note[n].channel \in known
                         THEN [worker[w] EXCEPT !.pc = "record"] ELSE IdleWorker)
        /\ UNCHANGED <<dbVars, requests>>

\* CreateIntelNotificationHistoryEntry and the event, committed; then the next one.
RecordSent(w) ==
    /\ worker[w].pc = "record"
    /\ history[worker[w].note] < MaxHistory
    /\ history' = [history EXCEPT ![worker[w].note] = @ + 1]
    /\ StepWorker(w, [worker[w] EXCEPT !.pc = "oldest", !.note = Nobody])
    /\ UNCHANGED <<note, known, accepting, requests>>

\* The transaction fails, at the latest when it commits.
FailWorker(w) ==
    /\ worker[w].pc = "record"
    /\ StepWorker(w, IdleWorker)
    /\ UNCHANGED <<dbVars, requests>>

LookUp(w) == OldestPendingAttempt(w) \/ StartSelect(w) \/ LockAndSend(w)

InAppNext ==
    \/ \E n \in Notes : (\E row \in Note : row.active /\ CreateIntelDeliveryAttempt(n, row)) \/ EndAttempt(n)
    \/ CommitAttempt \/ FailAttempt
    \/ \E channels \in SUBSET InAppChannels : UpdateNotificationChannels(channels)
    \/ \E c \in Conns : \/ Connect(c) \/ AcceptNewConnection(c) \/ Greet(c) \/ GiveUpGreeting(c)
                        \/ Disconnect(c) \/ removeConnWhenDone(c)
    \/ StartPeriodic \/ RequestPeriodic \/ EndPeriodic
    \/ \E w \in Workers : \/ TakeRequest(w) \/ LockConnections(w) \/ LookUp(w) \/ RecordSent(w) \/ FailWorker(w)

\* Goroutines run; readers waiting when a writer unlocks come before the next writer; a
\* transaction that is tried again and again succeeds some time.
InAppFairness ==
    /\ \A c \in Conns : WF_inAppVars(AcceptNewConnection(c) \/ removeConnWhenDone(c))
    /\ SF_inAppVars(StartPeriodic) /\ WF_inAppVars(RequestPeriodic \/ EndPeriodic)
    /\ \A w \in Workers : /\ WF_inAppVars(TakeRequest(w) \/ LookUp(w))
                          /\ SF_inAppVars(LockConnections(w))
                          /\ SF_inAppVars(RecordSent(w))

InAppSpec == InAppInit /\ [][InAppNext]_inAppVars /\ InAppFairness
-----------------------------------------------------------------------------
(* Properties.                                                             *)

InAppTypeOK == /\ note \in [Notes -> Note \cup {Nobody}]
               /\ history \in [Notes -> 0 .. MaxHistory]
               /\ Len(requests) <= MaxRequests
               /\ \A w \in Workers : worker[w].pc = "record" => worker[w].note \in Notes

\* The periodic check has the read lock and waits for room in the channel, which only workers
\* make that wait for the lock behind a connection that joins or leaves: everyone waits for ever.
Stalled == /\ periodic.pc = "send" /\ periodic.todo # {}
           /\ Len(requests) = MaxRequests
           /\ WriterWaits
           /\ \A w \in Workers : worker[w].pc = "rlock"

Undelivered(n) == Accepted(n) /\ note[n].active /\ note[n].user # Nobody /\ history[n] = 0
LostChannel(u) == \E m \in Notes : Undelivered(m) /\ note[m].user = u /\ note[m].channel \notin known

\* No notification stays behind while its user is connected, whatever fails and whichever checks
\* are given up - unless an attempt of the user has lost its channel, or everything has stalled.
NotificationsArrive ==
    \A n \in Notes :
        Undelivered(n) ~> \/ ~Undelivered(n)
                          \/ ConnsOf(note[n].user) = {} \/ LostChannel(note[n].user)
                          \/ Stalled
=============================================================================
