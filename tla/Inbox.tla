-------------------------------- MODULE Inbox --------------------------------
(***************************************************************************)
(* The receiving half of shared/kafkautil: Connector.Read copies messages *)
(* from Kafka to the table __message_inbox, Connector.ProcessIncoming     *)
(* runs the service's handler on them, one transaction per message.       *)
(*                                                                         *)
(* Read inserts the row, commits the offset to Kafka and then commits the *)
(* database transaction.  ProcessIncoming takes the oldest unprocessed    *)
(* message of some segment (topic, key); after a failure it lets chance   *)
(* pick the segment, for a message may need one of another topic first.   *)
(***************************************************************************)
EXTENDS Naturals, Sequences, FiniteSets

CONSTANTS
    NoMessage,     \* Read holds no message
    Processors,    \* instances running ProcessIncoming (two while a deployment rolls over)
    Segments, Topics, TopicOf,
    Poison,        \* segments whose messages the handler always refuses
    Needs,         \* Needs[s]: segments of which a message must be handled before one of s
    MaxMessages,   \* bound: messages produced to each topic
    MaxFaults,     \* bound: failed Kafka and database commits and handler runs
    MaxCrashes     \* bound: crashes of the service

Message == [topic : Topics, off : Nat, seg : Segments]

ASSUME InboxAssumption ==
    /\ TopicOf \in [Segments -> Topics]
    /\ NoMessage \notin Message
    /\ Poison \subseteq Segments
    /\ Needs \in [Segments -> SUBSET Segments]
    /\ MaxMessages \in Nat /\ MaxFaults \in Nat /\ MaxCrashes \in Nat

VARIABLES
    partition,     \* per topic: the segments of the messages in Kafka, by offset
    committed,     \* per topic: offset committed for the consumer group
    fetched,       \* per topic: position of the running reader
    readState,     \* what Read does next
    held,          \* kafkaMessage: the message Read is at
    inbox,         \* table __message_inbox, in order of id (and so of status_ts)
    procState,     \* what each processor does next
    possibleNext,  \* result of a processor's first query
    processing,    \* the inbox row a processor has locked, 0 for none
    lastFailed,    \* lastProcessFailed of each processor
    handled,       \* per topic: messages whose handler transaction committed, in that order
    inboxFaults,   \* faults that happened
    crashes        \* crashes that happened

readVars == <<committed, fetched, readState, held>>
procVars == <<procState, possibleNext, processing, lastFailed>>
inboxVars == <<partition, readVars, inbox, procVars, handled, inboxFaults, crashes>>


Rows == 1..Len(inbox)
Pending(r) == inbox[r].status = "pending"
Handled == UNION { { handled[t][n] : n \in 1..Len(handled[t]) } : t \in Topics }

InboxTypeOK ==
    /\ partition \in [Topics -> Seq(Segments)]
    /\ committed \in [Topics -> Nat] /\ fetched \in [Topics -> Nat]
    /\ readState \in {"fetch", "insert", "kafkaCommit", "dbCommit"}
    /\ held \in Message \cup {NoMessage} /\ (held = NoMessage <=> readState = "fetch")
    /\ inbox \in Seq([msg : Message, status : {"pending", "processed"}])
    /\ procState \in [Processors -> {"idle", "select", "handling"}]
    /\ possibleNext \in [Processors -> SUBSET Rows]
    /\ processing \in [Processors -> Rows \cup {0}]
    /\ lastFailed \in [Processors -> BOOLEAN]
    /\ handled \in [Topics -> Seq(Message)]
    /\ inboxFaults \in 0..MaxFaults /\ crashes \in 0..MaxCrashes

ConsumerInit ==
    /\ committed = [t \in Topics |-> 0] /\ fetched = [t \in Topics |-> 0]
    /\ readState = "fetch" /\ held = NoMessage
    /\ inbox = << >>
    /\ procState = [p \in Processors |-> "idle"]
    /\ possibleNext = [p \in Processors |-> {}]
    /\ processing = [p \in Processors |-> 0]
    /\ lastFailed = [p \in Processors |-> FALSE]
    /\ handled = [t \in Topics |-> << >>]
    /\ inboxFaults = 0 /\ crashes = 0

InboxInit == partition = [t \in Topics |-> << >>] /\ ConsumerInit

Fault == inboxFaults < MaxFaults /\ inboxFaults' = inboxFaults + 1
-----------------------------------------------------------------------------
(* Connector.Read                                                          *)

FetchMessage(t) ==
    /\ readState = "fetch"
    /\ fetched[t] < Len(partition[t])
    /\ fetched' = [fetched EXCEPT ![t] = @ + 1]
    /\ held' = [topic |-> t, off |-> fetched'[t], seg |-> partition[t][fetched'[t]]]
    /\ readState' = "insert"
    /\ UNCHANGED <<partition, committed, inbox, procVars, handled, inboxFaults, crashes>>

\* addInboxMessages: the row is inserted, nobody else sees it before the commit.
AddInboxMessage ==
    /\ readState = "insert"
    /\ readState' = "kafkaCommit"
    /\ UNCHANGED <<partition, committed, fetched, held, inbox, procVars, handled, inboxFaults, crashes>>

CommitMessages ==
    /\ readState = "kafkaCommit"
    /\ committed' = [committed EXCEPT ![held.topic] = held.off]
    /\ readState' = "dbCommit"
    /\ UNCHANGED <<partition, fetched, held, inbox, procVars, handled, inboxFaults, crashes>>

\* Mutant: the message is not kept for the next try.
ForgetMessage ==
    /\ readState = "kafkaCommit"
    /\ Fault
    /\ committed' \in {committed, [committed EXCEPT ![held.topic] = held.off]}
    /\ readState' = "fetch" /\ held' = NoMessage
    /\ UNCHANGED <<partition, fetched, inbox, procVars, handled, crashes>>

\* The transaction is rolled back and the message kept for the next try; Kafka may
\* have stored the offset all the same.
CommitMessagesFails ==
    /\ readState = "kafkaCommit"
    /\ Fault
    /\ committed' \in {committed, [committed EXCEPT ![held.topic] = held.off]}
    /\ readState' = "insert"
    /\ UNCHANGED <<partition, fetched, held, inbox, procVars, handled, crashes>>

StoreRow == inbox' = Append(inbox, [msg |-> held, status |-> "pending"])

CommitRead ==
    /\ readState = "dbCommit"
    /\ StoreRow
    /\ readState' = "fetch" /\ held' = NoMessage
    /\ UNCHANGED <<partition, committed, fetched, procVars, handled, inboxFaults, crashes>>

\* tx.Commit reports an error, with or without having stored the row.
CommitReadFails ==
    /\ readState = "dbCommit"
    /\ Fault
    /\ StoreRow \/ UNCHANGED inbox
    /\ readState' = "insert"
    /\ UNCHANGED <<partition, committed, fetched, held, procVars, handled, crashes>>
-----------------------------------------------------------------------------
(* Connector.ProcessIncoming                                               *)

\* Mutant: any unprocessed row of a segment.
AnyPending == { r \in Rows : Pending(r) }

\* Rows that hold the smallest unprocessed offset of their segment.
OldestPending ==
    { r \in Rows : Pending(r) /\ \A q \in Rows :
        (Pending(q) /\ inbox[q].msg.seg = inbox[r].msg.seg) => inbox[r].msg.off <= inbox[q].msg.off }

SetCandidates(p, rows) ==
    /\ procState[p] = "idle"
    /\ possibleNext' = [possibleNext EXCEPT ![p] = rows]
    /\ procState' = [procState EXCEPT ![p] = "select"]
    /\ UNCHANGED <<partition, readVars, inbox, processing, lastFailed, handled, inboxFaults, crashes>>

QueryPossibleNext(p) ==
    /\ ~lastFailed[p]
    /\ OldestPending # {}
    /\ SetCandidates(p, OldestPending)

\* Mutant: the oldest candidate is taken, not a random one.
QueryOldestNext(p, s) ==
    /\ lastFailed[p]
    /\ \E r \in OldestPending :
          inbox[r].msg.seg = s /\ (\A q \in OldestPending : r <= q) /\ SetCandidates(p, {r})

\* selectRandomSegment: one of the candidates, here one of segment s.
QueryRandomNext(p, s) ==
    /\ lastFailed[p]
    /\ \E r \in OldestPending : inbox[r].msg.seg = s /\ SetCandidates(p, {r})

\* The transaction of p ends: with a failure, or with a message handled or none found.
EndProcess(p, failed) ==
    /\ procState' = [procState EXCEPT ![p] = "idle"]
    /\ processing' = [processing EXCEPT ![p] = 0]
    /\ lastFailed' = [lastFailed EXCEPT ![p] = failed]

NothingPending(p) ==
    /\ procState[p] = "idle" /\ lastFailed[p] /\ OldestPending = {}
    /\ EndProcess(p, FALSE)
    /\ UNCHANGED <<partition, readVars, inbox, possibleNext, handled, inboxFaults, crashes>>

\* Mutant: the second query does not check the status again.
LockableStale(p) == { r \in possibleNext[p] : \A q \in Processors : processing[q] # r }

Lockable(p) == { r \in possibleNext[p] : Pending(r) /\ \A q \in Processors : processing[q] # r }

\* Second query of nextInboxMessage: ORDER BY status_ts FOR UPDATE SKIP LOCKED LIMIT 1.
LockNext(p) ==
    /\ procState[p] = "select"
    /\ possibleNext' = [possibleNext EXCEPT ![p] = {}]
    /\ \/ \E r \in Lockable(p) :
             /\ \A q \in Lockable(p) : r <= q
             /\ processing' = [processing EXCEPT ![p] = r]
             /\ procState' = [procState EXCEPT ![p] = "handling"]
             /\ UNCHANGED lastFailed
       \/ Lockable(p) = {} /\ EndProcess(p, FALSE)
    /\ UNCHANGED <<partition, readVars, inbox, handled, inboxFaults, crashes>>

\* Whether the handler accepts a message of segment s.
Acceptable(s) == s \notin Poison /\ \A n \in Needs[s] : \E m \in Handled : m.seg = n

\* What the handler does with a message, that it was handled being all that is told of it.
Handle(m) == handled' = [handled EXCEPT ![m.topic] = Append(@, m)]

\* Mutant: the status constant of the outbox is used.
CommitAsSent(p) ==
    /\ inbox' = [inbox EXCEPT ![processing[p]].status = "sent"]
    /\ Handle(inbox[processing[p]].msg)

\* The handler's updates and the status of the message are committed together.
CommitHandled(p) ==
    /\ inbox' = [inbox EXCEPT ![processing[p]].status = "processed"]
    /\ Handle(inbox[processing[p]].msg)

HandleMessage(p) ==
    /\ procState[p] = "handling"
    /\ Acceptable(inbox[processing[p]].msg.seg)
    /\ CommitHandled(p)
    /\ EndProcess(p, FALSE)
    /\ UNCHANGED <<partition, readVars, possibleNext, inboxFaults, crashes>>

HandlerRefuses(p) ==
    /\ procState[p] = "handling"
    /\ ~Acceptable(inbox[processing[p]].msg.seg)
    /\ EndProcess(p, TRUE)
    /\ UNCHANGED <<partition, readVars, inbox, possibleNext, handled, inboxFaults, crashes>>

\* The handler fails for another reason, or the commit is reported as failed, with or
\* without effect.
ProcessFails(p) ==
    /\ procState[p] = "handling"
    /\ Fault
    /\ \/ UNCHANGED <<inbox, handled>>
       \/ Acceptable(inbox[processing[p]].msg.seg) /\ CommitHandled(p)
    /\ EndProcess(p, TRUE)
    /\ UNCHANGED <<partition, readVars, possibleNext, crashes>>
-----------------------------------------------------------------------------
\* The process dies and restarts: open transactions are rolled back, the message Read
\* holds is forgotten and the reader starts at the offset committed to Kafka.
CrashConsumer ==
    /\ crashes < MaxCrashes /\ crashes' = crashes + 1
    /\ fetched' = committed
    /\ readState' = "fetch" /\ held' = NoMessage
    /\ procState' = [p \in Processors |-> "idle"]
    /\ possibleNext' = [p \in Processors |-> {}]
    /\ processing' = [p \in Processors |-> 0]
    /\ lastFailed' = [p \in Processors |-> FALSE]
    /\ UNCHANGED <<partition, committed, inbox, handled, inboxFaults>>

\* Some service writes a message (environment).
Produce(s) ==
    /\ Len(partition[TopicOf[s]]) < MaxMessages
    /\ partition' = [partition EXCEPT ![TopicOf[s]] = Append(@, s)]
    /\ UNCHANGED <<readVars, inbox, procVars, handled, inboxFaults, crashes>>

Read ==
    \/ \E t \in Topics : FetchMessage(t)
    \/ AddInboxMessage \/ CommitMessages \/ CommitRead

ProcessIncoming(p) ==
    \/ QueryPossibleNext(p) \/ NothingPending(p) \/ LockNext(p)
    \/ HandleMessage(p) \/ HandlerRefuses(p)
    \/ \E s \in Segments : QueryRandomNext(p, s)

ConsumerNext ==
    \/ Read \/ CommitMessagesFails \/ CommitReadFails
    \/ \E p \in Processors : ProcessIncoming(p) \/ ProcessFails(p)
    \/ CrashConsumer

InboxNext == ConsumerNext \/ \E s \in Segments : Produce(s)

\* Both loops run for as long as the service does.  Reading does not neglect a topic and
\* rand.Intn does not neglect a segment that is a candidate again and again.
ConsumerFairness ==
    /\ WF_inboxVars(Read) /\ \A t \in Topics : SF_inboxVars(FetchMessage(t))
    /\ \A p \in Processors : /\ WF_inboxVars(ProcessIncoming(p))
                             /\ \A s \in Segments : SF_inboxVars(QueryRandomNext(p, s))

InboxSpec == InboxInit /\ [][InboxNext]_inboxVars /\ ConsumerFairness
-----------------------------------------------------------------------------
(* Properties.                                                             *)

OffsetsOf(s) == { n \in 1..Len(partition[TopicOf[s]]) : partition[TopicOf[s]][n] = s }
HandledOffsets(t) == [n \in 1..Len(handled[t]) |-> handled[t][n].off]

\* Messages of one segment are never handled in another order than they were written.
HandledInOrder ==
    \A t \in Topics : \A m, n \in 1..Len(handled[t]) :
        (m < n /\ handled[t][m].seg = handled[t][n].seg) => handled[t][m].off <= handled[t][n].off

Stream == INSTANCE EventStream
            WITH published <- [s \in Segments |-> { inbox[r].msg.off : r \in { q \in Rows : inbox[q].msg.seg = s } }],
                 stream <- [t \in Topics |-> HandledOffsets(t)]

\* ProcessIncoming: of what Read stored, the handler sees every segment in order and without
\* gaps, at most the newest message repeatedly, whatever fails or crashes.
ImplementsStream == Stream!StreamSpec

\* Read "fetches messages via the given Reader, adds them to the inbox and commits them":
\* a message whose offset is committed to Kafka is in the inbox or still in Read's hands.
CommittedIsKept ==
    \A t \in Topics : \A n \in 1..committed[t] :
        \/ held # NoMessage /\ held.topic = t /\ held.off = n
        \/ \E r \in Rows : inbox[r].msg.topic = t /\ inbox[r].msg.off = n

\* nextInboxMessage's random choice: a segment that can be handled is handled although
\* others fail for ever, once the messages it depends on were written.
OthersProgress ==
    \A s \in Segments \ Poison : \A n \in 1..MaxMessages :
        (n \in OffsetsOf(s) /\ \A d \in Needs[s] : OffsetsOf(d) # {})
            ~> (\E m \in Handled : m.seg = s /\ m.off = n)
=============================================================================
