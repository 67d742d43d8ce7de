---------------------------- MODULE Subscriptions ----------------------------
(***************************************************************************)
(* The subscriptions of one WebSocket connection                          *)
(* (open-intel-delivery-notifier-svc, ws/ws.go) and the connection itself *)
(* (shared/wsutil).  One goroutine handles the messages of the client in  *)
(* their order.  Each subscription has two more: a server, which says     *)
(* what is subscribed and then serves the listener (module                *)
(* OpenDeliveryWatch), and a watcher, which waits for its end.  They share *)
(* a mutex, which is held while a list of subscriptions is sent.           *)
(*                                                                         *)
(* Channels are unbuffered: who sends waits for the write pump, or for the *)
(* end of the context that was passed, which is not always that of the    *)
(* connection.                                                             *)
(***************************************************************************)
EXTENDS Naturals, Sequences

CONSTANTS SubOps,    \* operations
          MaxAsks,   \* bound: messages of the client
          NoSub, NoOp

ASSUME SubConstants == MaxAsks \in Nat /\ NoSub \notin 1..MaxAsks /\ NoOp \notin SubOps

\* Subscriptions are numbered; a message makes one at most.
Subs == 1..MaxAsks

VARIABLES conn,        \* "ending": the pumps end; "closed": the lifetime is done
          asks,        \* messages that the client has sent and nobody has received
          asked,       \* what the client wants to be subscribed to
          asksLeft,
          loop,        \* the goroutine that handles messages, and what it handles
          subscribed,  \* openIntelDeliverySubscriptionsByOperation
          sub,         \* the subscriptions
          listed,      \* the newest list that the client has got
          again        \* operations subscribed to while an earlier subscription was ending

subVars == <<conn, asks, asked, asksLeft, loop, subscribed, sub, listed, again>>

\* "refused": of unknown type, malformed, or without the permission.
Ask == [type : {"subscribe", "unsubscribe"}, op : SubOps] \cup [type : {"refused"}, op : {NoOp}]
Loop == [pc : {"receive", "subscribe", "unsubscribe", "refused", "cancel", "leave", "done"},
         op : SubOps \cup {NoOp}, leaving : SUBSET SubOps]
Sub == [op : SubOps \cup {NoOp}, canceled : BOOLEAN,
        server : {"off", "list", "sending", "serving", "ended"},
        watcher : {"off", "waiting", "unsubscribe", "list", "sending", "ended"}]
NewSub(o) == [op |-> o, canceled |-> FALSE, server |-> "list", watcher |-> "waiting"]

SubTypeOK == /\ conn \in {"up", "ending", "closed"}
             /\ asks \in Seq(Ask) /\ asksLeft \in 0..MaxAsks
             /\ asked \subseteq SubOps /\ listed \subseteq SubOps /\ again \subseteq SubOps
             /\ loop \in Loop
             /\ subscribed \in [SubOps -> Subs \cup {NoSub}]
             /\ sub \in [Subs -> Sub]

SubInit == /\ conn = "up" /\ asks = <<>> /\ asked = {} /\ asksLeft = MaxAsks
           /\ loop = [pc |-> "receive", op |-> NoOp, leaving |-> {}]
           /\ subscribed = [o \in SubOps |-> NoSub]
           /\ sub = [s \in Subs |-> [op |-> NoOp, canceled |-> FALSE, server |-> "off", watcher |-> "off"]]
           /\ listed = {} /\ again = {}

Subscribed == {o \in SubOps : subscribed[o] # NoSub}
Locked == \E s \in Subs : sub[s].server = "sending" \/ sub[s].watcher = "sending"
-----------------------------------------------------------------------------
(* The connection.                                                         *)

\* The client sends a message.
SendAsk(ask) ==
    /\ conn = "up" /\ asksLeft > 0
    /\ asks' = Append(asks, ask) /\ asksLeft' = asksLeft - 1
    /\ asked' = CASE ask.type = "subscribe" -> asked \cup {ask.op}
                  [] ask.type = "unsubscribe" -> asked \ {ask.op}
                  [] OTHER -> asked
    /\ UNCHANGED <<conn, loop, subscribed, sub, listed, again>>

\* Reading or writing fails.  The other pump may still go on until it sees this.
EndPumps ==
    /\ conn = "up" /\ conn' = "ending"
    /\ UNCHANGED <<asks, asked, asksLeft, loop, subscribed, sub, listed, again>>

\* Close, when both pumps have ended.  Of what the client has sent, the parser may have one message.
Close ==
    /\ conn = "ending" /\ conn' = "closed"
    /\ asks' = <<>> \/ (asks # <<>> /\ asks' = <<Head(asks)>>)
    /\ UNCHANGED <<asked, asksLeft, loop, subscribed, sub, listed, again>>

\* The write pump takes a message; the client gets it unless the connection is ending.
Written == conn # "closed"
TellList == listed' = IF conn = "up" THEN Subscribed ELSE listed
-----------------------------------------------------------------------------
(* The goroutine that handles messages (ConnListener).                     *)

GoTo(pc) == loop' = [loop EXCEPT !.pc = pc]

Receive ==
    /\ loop.pc = "receive" /\ asks # <<>>
    /\ loop' = [loop EXCEPT !.pc = Head(asks).type, !.op = Head(asks).op]
    /\ asks' = Tail(asks)
    /\ UNCHANGED <<conn, asked, asksLeft, subscribed, sub, listed, again>>

\* An earlier subscription for the operation, which is no longer in the map, has not yet removed it.
StillEnding(o) == \E s \in Subs : sub[s].op = o /\ sub[s].watcher \in {"waiting", "unsubscribe"}

subscribeOpenIntelDeliveries ==
    LET o == loop.op
        s == CHOOSE i \in Subs : sub[i].server = "off" /\ \A j \in 1..(i - 1) : sub[j].server # "off"
    IN  /\ loop.pc = "subscribe" /\ ~Locked
        /\ IF o \in Subscribed THEN UNCHANGED <<subscribed, sub, again>>
           ELSE /\ subscribed' = [subscribed EXCEPT ![o] = s]
                /\ sub' = [sub EXCEPT ![s] = NewSub(o)]
                /\ again' = IF StillEnding(o) THEN again \cup {o} ELSE again \ {o}
        /\ GoTo("receive")
        /\ UNCHANGED <<conn, asks, asked, asksLeft, listed>>

\* unsubscribeOpenIntelDeliveries, whoever calls it: the subscription of the operation that is in the
\* map is canceled.
Removed(o) == [subscribed EXCEPT ![o] = NoSub]
Canceled(o) == [s \in Subs |-> [sub[s] EXCEPT !.canceled = @ \/ subscribed[o] = s]]

unsubscribeOpenIntelDeliveries ==
    /\ loop.pc = "unsubscribe" /\ ~Locked
    /\ subscribed' = Removed(loop.op) /\ sub' = Canceled(loop.op)
    /\ GoTo("receive")
    /\ UNCHANGED <<conn, asks, asked, asksLeft, listed, again>>

\* SendErr with a context that is never done.
SendErr ==
    /\ loop.pc = "refused" /\ Written
    /\ GoTo("receive")
    /\ UNCHANGED <<conn, asks, asked, asksLeft, subscribed, sub, listed, again>>

\* The channel of messages is closed.
EndReceive ==
    /\ loop.pc = "receive" /\ conn # "up"
    /\ GoTo("cancel")
    /\ UNCHANGED <<conn, asks, asked, asksLeft, subscribed, sub, listed, again>>

\* cancelSubscriptionsAndWait.  Nobody else subscribes, so that accept makes no difference.
GatherSubscriptions ==
    /\ loop.pc = "cancel" /\ ~Locked
    /\ loop' = [loop EXCEPT !.pc = "leave", !.leaving = Subscribed]
    /\ UNCHANGED <<conn, asks, asked, asksLeft, subscribed, sub, listed, again>>

UnsubscribeEach ==
    \E o \in loop.leaving :
        /\ loop.pc = "leave" /\ ~Locked
        /\ subscribed' = Removed(o) /\ sub' = Canceled(o)
        /\ loop' = [loop EXCEPT !.leaving = @ \ {o}]
        /\ UNCHANGED <<conn, asks, asked, asksLeft, listed, again>>

WaitForServers ==
    /\ loop.pc = "leave" /\ loop.leaving = {}
    /\ \A s \in Subs : sub[s].server \in {"off", "ended"}
    /\ GoTo("done")
    /\ UNCHANGED <<conn, asks, asked, asksLeft, subscribed, sub, listed, again>>
-----------------------------------------------------------------------------
(* The goroutines of a subscription.                                       *)

ServerAt(s, pc) == sub' = [sub EXCEPT ![s].server = pc]
WatcherAt(s, pc) == sub' = [sub EXCEPT ![s].watcher = pc]
OthersKept == UNCHANGED <<conn, asks, asked, asksLeft, loop, subscribed, again>>

\* notifySubscribedOpenIntelDeliveries takes the mutex.
LockForList(s) ==
    /\ ~Locked
    /\ \/ sub[s].server = "list" /\ ServerAt(s, "sending")
       \/ sub[s].watcher = "list" /\ WatcherAt(s, "sending")
    /\ UNCHANGED listed /\ OthersKept

\* The list is written and the mutex released.
SendList(s) ==
    /\ Written
    /\ \/ sub[s].server = "sending" /\ ServerAt(s, "serving")
       \/ sub[s].watcher = "sending" /\ WatcherAt(s, "ended")
    /\ TellList /\ OthersKept

\* Mutant: the server sends with a context that is never done.
DropListOfWatcher(s) ==
    /\ sub[s].watcher = "sending" /\ conn = "closed" /\ WatcherAt(s, "ended")
    /\ UNCHANGED listed /\ OthersKept

\* The context is done: that of the subscription for the server, that of the connection for the watcher.
DropList(s) ==
    /\ \/ sub[s].server = "sending" /\ sub[s].canceled /\ ServerAt(s, "serving")
       \/ sub[s].watcher = "sending" /\ conn = "closed" /\ WatcherAt(s, "ended")
    /\ UNCHANGED listed /\ OthersKept

\* ServeOpenIntelDeliveriesListener returns.
EndServing(s) ==
    /\ sub[s].server = "serving" /\ sub[s].canceled
    /\ ServerAt(s, "ended")
    /\ UNCHANGED listed /\ OthersKept

\* The watcher sees that its subscription is canceled, or that the connection has ended, and then
\* cancels the subscription.
SeeEnd(s) ==
    /\ sub[s].watcher = "waiting"
    /\ \/ sub[s].canceled /\ WatcherAt(s, "unsubscribe")
       \/ conn = "closed" /\ sub' = [sub EXCEPT ![s].watcher = "ended", ![s].canceled = TRUE]
    /\ UNCHANGED listed /\ OthersKept

\* Mutant: the watcher does not tell what is subscribed now.
UnsubscribeSilently(s) ==
    /\ sub[s].watcher = "unsubscribe" /\ ~Locked
    /\ subscribed' = Removed(sub[s].op)
    /\ sub' = [Canceled(sub[s].op) EXCEPT ![s].watcher = "ended"]
    /\ UNCHANGED <<conn, asks, asked, asksLeft, loop, listed, again>>

\* The watcher removes whichever subscription is in the map for its operation.
UnsubscribeEnded(s) ==
    /\ sub[s].watcher = "unsubscribe" /\ ~Locked
    /\ subscribed' = Removed(sub[s].op)
    /\ sub' = [Canceled(sub[s].op) EXCEPT ![s].watcher = "list"]
    /\ UNCHANGED <<conn, asks, asked, asksLeft, loop, listed, again>>

LoopNext == \/ Receive \/ subscribeOpenIntelDeliveries \/ unsubscribeOpenIntelDeliveries \/ SendErr
            \/ EndReceive \/ GatherSubscriptions \/ UnsubscribeEach \/ WaitForServers
SubscriptionNext(s) == \/ LockForList(s) \/ SendList(s) \/ DropList(s) \/ EndServing(s)
                       \/ SeeEnd(s) \/ UnsubscribeEnded(s)

SubNext == \/ \E ask \in Ask : SendAsk(ask)
           \/ EndPumps \/ Close
           \/ LoopNext
           \/ \E s \in Subs : SubscriptionNext(s)

\* Goroutines run.  The write pump takes what is sent as long as the connection is up, and a connection
\* that is ending is closed, both because of the deadlines for writing and for pongs.
SubFairness == /\ WF_subVars(Close)
               /\ WF_subVars(LoopNext)
               /\ \A s \in Subs : WF_subVars(SubscriptionNext(s))
SubSpec == SubInit /\ [][SubNext]_subVars /\ SubFairness
-----------------------------------------------------------------------------
(* Properties.                                                             *)

\* Nothing is on its way.
Settled == /\ conn = "up" /\ asks = <<>> /\ loop.pc = "receive"
           /\ \A s \in Subs : \/ sub[s].server = "off"
                              \/ sub[s].server = "serving" /\ sub[s].watcher = "waiting" /\ ~sub[s].canceled
                              \/ sub[s].server = "ended" /\ sub[s].watcher = "ended"

\* "You will receive a confirmation" (manual-intel-delivery.rst): when everything has settled, the
\* client has been told what is subscribed, this is what is served, and it is what the client has asked for
\* unless it has subscribed again while an earlier subscription was ending.
ClientKnowsItsSubscriptions ==
    Settled => /\ listed = Subscribed
               /\ {s \in Subs : sub[s].server = "serving"} = {subscribed[o] : o \in Subscribed}
               /\ \A o \in SubOps \ again : o \in Subscribed <=> o \in asked

\* However the end of the connection meets subscriptions that begin, end or hold the mutex: their
\* goroutines end, and that of the connection too unless it is reporting an error.
SubscriptionsEnd ==
    <>[](conn = "closed" => /\ \A s \in Subs : sub[s].server \in {"off", "ended"}
                                               /\ sub[s].watcher \in {"off", "ended"}
                            /\ loop.pc \in {"done", "refused"})
=============================================================================
