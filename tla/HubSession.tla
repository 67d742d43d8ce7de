----------------------------- MODULE HubSession -----------------------------
(***************************************************************************)
(* The session of a client in ws-hub-svc (ws/ws.go): after a first message *)
(* that authenticates the client, a connection is made to each channel of *)
(* the gate, and messages are forwarded in both directions.                *)
(*                                                                         *)
(* A group of goroutines routes: one that listens to the client, and for  *)
(* each channel one that listens to it, one that runs its connection and  *)
(* one that closes it.  The group is done with the first error; it waits   *)
(* for all of them.  What is forwarded is data.                            *)
(***************************************************************************)
EXTENDS Naturals

CONSTANTS HubChannels,   \* of the gate
          MaxForwards,   \* bound: messages of the client, and of the channels
          NoChannel

ASSUME HubConstants == MaxForwards \in Nat /\ NoChannel \notin HubChannels

VARIABLES serve,        \* Serve and its context
          client,       \* the connection of the client, with its pumps
          link,         \* the connections to the channels, with their pumps
          toChannel,    \* the goroutine that listens to the client, and the channel it forwards to
          toClient,     \* the goroutines that listen to the channels
          forwards      \* messages left

hubVars == <<serve, client, link, toChannel, toClient, forwards>>

\* done: the session's context; groupDone: that of the group.
HubServing == [pc : {"auth", "dial", "route", "returned"}, done : BOOLEAN, groupDone : BOOLEAN]
Listening == {"off", "receive", "forward", "ended"}
HubTypeOK == /\ serve \in HubServing
             /\ client \in {"up", "ending", "closed"}
             /\ link \in [HubChannels -> {"none", "dialing", "failed", "up", "ending", "closed"}]
             /\ toChannel \in [pc : Listening, to : HubChannels \cup {NoChannel}]
             /\ toClient \in [HubChannels -> Listening]
             /\ forwards \in [client : 0..MaxForwards, channels : 0..MaxForwards]

HubInit == /\ serve = [pc |-> "auth", done |-> FALSE, groupDone |-> FALSE]
           /\ client = "up"
           /\ link = [c \in HubChannels |-> "none"]
           /\ toChannel = [pc |-> "off", to |-> NoChannel]
           /\ toClient = [c \in HubChannels |-> "off"]
           /\ forwards = [client |-> MaxForwards, channels |-> MaxForwards]

GroupDone == serve.done \/ serve.groupDone
-----------------------------------------------------------------------------
(* Serve.                                                                  *)

\* The deferred calls: what is open is closed, and the session's context is done.
ReturnWith(links) ==
    /\ serve' = [serve EXCEPT !.pc = "returned", !.done = TRUE]
    /\ client' = "closed"
    /\ link' = links
AllClosed == [c \in HubChannels |-> IF link[c] \in {"up", "ending"} THEN "closed" ELSE link[c]]

\* readAuth has the first message and asks for the internal token.
readAuth ==
    /\ serve.pc = "auth" /\ client = "up"
    /\ \/ /\ serve' = [serve EXCEPT !.pc = "dial"]
          /\ link' = [c \in HubChannels |-> "dialing"]
          /\ UNCHANGED client
       \/ ReturnWith(link)
    /\ UNCHANGED <<toChannel, toClient, forwards>>

\* The connection ends before, which yields an empty message.
EndAuth ==
    /\ serve.pc = "auth" /\ client # "up"
    /\ ReturnWith(link)
    /\ UNCHANGED <<toChannel, toClient, forwards>>

\* Dialing also fails if that of another channel has failed or the context is done, but may then have
\* succeeded just before.
Dial(c) ==
    /\ link[c] = "dialing"
    /\ link' = [link EXCEPT ![c] = "up"]
    /\ UNCHANGED <<serve, client, toChannel, toClient, forwards>>
DialFails(c) ==
    /\ link[c] = "dialing"
    /\ link' = [link EXCEPT ![c] = "failed"]
    /\ UNCHANGED <<serve, client, toChannel, toClient, forwards>>

\* Mutant: what has been connected stays connected.
KeptIfDialFailed == link

\* connectChannels waits for all, and closes what it has connected if one has failed.
ClosedIfDialFailed == AllClosed

connectChannels ==
    /\ serve.pc = "dial"
    /\ \A c \in HubChannels : link[c] # "dialing"
    /\ \/ /\ \E c \in HubChannels : link[c] = "failed"
          /\ ReturnWith(ClosedIfDialFailed)
          /\ UNCHANGED <<toChannel, toClient>>
       \/ /\ \A c \in HubChannels : link[c] # "failed"
          /\ serve' = [serve EXCEPT !.pc = "route"]
          /\ toChannel' = [toChannel EXCEPT !.pc = "receive"]
          /\ toClient' = [c \in HubChannels |-> "receive"]
          /\ UNCHANGED <<client, link>>
    /\ UNCHANGED forwards

\* route returns when the whole group has.
EndRoute ==
    /\ serve.pc = "route"
    /\ toChannel.pc = "ended"
    /\ \A c \in HubChannels : toClient[c] = "ended" /\ link[c] = "closed"
    /\ ReturnWith(AllClosed)
    /\ UNCHANGED <<toChannel, toClient, forwards>>

\* The service shuts down.
Shutdown ==
    /\ ~serve.done /\ serve' = [serve EXCEPT !.done = TRUE]
    /\ UNCHANGED <<client, link, toChannel, toClient, forwards>>
-----------------------------------------------------------------------------
(* Connections.                                                            *)

\* Reading from the client or writing to it fails, on its own, ...
ClientFails ==
    /\ client = "up" /\ client' = "ending"
    /\ UNCHANGED <<serve, link, toChannel, toClient, forwards>>
\* ... as the context is done and no pongs come any more, or by the group's goroutine that closes it.
EndClient ==
    /\ serve.done \/ (serve.pc = "route" /\ GroupDone)
    /\ ClientFails
\* RunAndClose has returned: the session is closed.
CloseClient ==
    /\ client = "ending" /\ client' = "closed"
    /\ serve' = [serve EXCEPT !.done = TRUE]
    /\ UNCHANGED <<link, toChannel, toClient, forwards>>

\* The same for a channel, whose goroutines belong to the group.
LinkFails(c) ==
    /\ serve.pc = "route" /\ link[c] = "up"
    /\ link' = [link EXCEPT ![c] = "ending"]
    /\ UNCHANGED <<serve, client, toChannel, toClient, forwards>>
EndLink(c) == GroupDone /\ LinkFails(c)
CloseLink(c) ==
    /\ link[c] = "ending" /\ link' = [link EXCEPT ![c] = "closed"]
    /\ serve' = [serve EXCEPT !.groupDone = TRUE]
    /\ UNCHANGED <<client, toChannel, toClient, forwards>>
-----------------------------------------------------------------------------
(* Routing.                                                                *)

\* A message of the client for a channel, or for one that does not exist, which the client is told.
ReceiveFromClient(c) ==
    /\ toChannel.pc = "receive" /\ client = "up"
    /\ forwards.client > 0 /\ forwards' = [forwards EXCEPT !.client = @ - 1]
    /\ toChannel' = [pc |-> "forward", to |-> c]
    /\ UNCHANGED <<serve, client, link, toClient>>

\* A message that cannot be parsed, which is also what the closed connection yields: an error.
EndByClient ==
    /\ toChannel.pc = "receive"
    /\ toChannel' = [toChannel EXCEPT !.pc = "ended"]
    /\ serve' = [serve EXCEPT !.groupDone = TRUE]
    /\ UNCHANGED <<client, link, toClient, forwards>>

\* The write pump takes it.
ForwardToChannel ==
    /\ toChannel.pc = "forward" /\ toChannel.to # NoChannel
    /\ link[toChannel.to] # "closed"
    /\ toChannel' = [pc |-> "receive", to |-> NoChannel]
    /\ UNCHANGED <<serve, client, link, toClient, forwards>>
sendErrOverControlChannel ==
    /\ toChannel.pc = "forward" /\ toChannel.to = NoChannel
    /\ client # "closed"
    /\ toChannel' = [pc |-> "receive", to |-> NoChannel]
    /\ UNCHANGED <<serve, client, link, toClient, forwards>>

ReceiveFromChannel(c) ==
    /\ toClient[c] = "receive" /\ link[c] = "up"
    /\ forwards.channels > 0 /\ forwards' = [forwards EXCEPT !.channels = @ - 1]
    /\ toClient' = [toClient EXCEPT ![c] = "forward"]
    /\ UNCHANGED <<serve, client, link, toChannel>>

ForwardToClient(c) ==
    /\ toClient[c] = "forward" /\ client # "closed"
    /\ toClient' = [toClient EXCEPT ![c] = "receive"]
    /\ UNCHANGED <<serve, client, link, toChannel, forwards>>

\* Mutant: who forwards does not see that the group is done.
EndReceiveOnly ==
    /\ GroupDone /\ toChannel.pc = "receive"
    /\ toChannel' = [toChannel EXCEPT !.pc = "ended"]
    /\ UNCHANGED <<serve, client, link, toClient, forwards>>

\* The group is done; a message that is being forwarded is dropped.
EndToChannel ==
    /\ GroupDone /\ toChannel.pc \in {"receive", "forward"}
    /\ toChannel' = [toChannel EXCEPT !.pc = "ended"]
    /\ UNCHANGED <<serve, client, link, toClient, forwards>>

\* So it is, or the channel has closed, which is no error.
EndToClient(c) ==
    /\ \/ GroupDone /\ toClient[c] \in {"receive", "forward"}
       \/ link[c] # "up" /\ toClient[c] = "receive"
    /\ toClient' = [toClient EXCEPT ![c] = "ended"]
    /\ UNCHANGED <<serve, client, link, toChannel, forwards>>

HubClient == EndClient \/ CloseClient
HubServe == EndAuth \/ connectChannels \/ EndRoute
HubLink(c) == Dial(c) \/ DialFails(c) \/ EndLink(c) \/ CloseLink(c)
HubToChannel == (client # "up" /\ EndByClient) \/ ForwardToChannel
                    \/ sendErrOverControlChannel \/ EndToChannel
HubToClient(c) == ForwardToClient(c) \/ EndToClient(c)

HubNext == \/ readAuth \/ HubServe \/ Shutdown \/ ClientFails \/ HubClient
           \/ HubToChannel \/ EndByClient
           \/ \E c \in HubChannels \cup {NoChannel} : ReceiveFromClient(c)
           \/ \E c \in HubChannels : \/ LinkFails(c) \/ HubLink(c)
                                     \/ ReceiveFromChannel(c) \/ HubToClient(c)

\* Goroutines run, and deadlines end dialing, reading and writing.  Nobody has to send anything.
HubFairness == /\ WF_hubVars(HubServe) /\ WF_hubVars(HubClient) /\ WF_hubVars(HubToChannel)
               /\ \A c \in HubChannels : WF_hubVars(HubLink(c)) /\ WF_hubVars(HubToClient(c))
HubSpec == HubInit /\ [][HubNext]_hubVars /\ HubFairness
-----------------------------------------------------------------------------
(* Properties.                                                             *)

\* "If one fails, all connections are closed" (connectChannels), and so they are whichever connection
\* ends, whatever is being forwarded then: Serve returns and leaves no connection and no goroutine.
SessionsEndTogether ==
    <>[](client # "up" \/ serve.done \/ (\E c \in HubChannels : link[c] \in {"failed", "closed"}) =>
            /\ serve.pc = "returned" /\ client = "closed"
            /\ \A c \in HubChannels : link[c] \in {"none", "failed", "closed"}
            /\ toChannel.pc \in {"off", "ended"} /\ \A c \in HubChannels : toClient[c] \in {"off", "ended"})
=============================================================================
