------------------------------- MODULE Outbox -------------------------------
(***************************************************************************)
(* The sending half of shared/kafkautil: the transactional outbox.        *)
(*                                                                         *)
(* A business transaction (a producer) inserts event rows next to its own *)
(* updates; the rows become visible when it commits.  writerBatchSize     *)
(* workers run pumpOutgoing: each opens a transaction, looks for the      *)
(* oldest unsent row of every segment, locks the oldest free one (FOR     *)
(* UPDATE SKIP LOCKED), writes it to Kafka, marks it sent and commits.    *)
(*                                                                         *)
(* Postgres runs at READ COMMITTED: each of the two queries sees the rows *)
(* committed when it starts, so the candidates may be stale when the lock *)
(* is taken.  Row ids come from a bigserial: they are drawn at the INSERT,*)
(* not at the commit, and a rolled back id is never used again.           *)
(***************************************************************************)
EXTENDS Naturals, Sequences, FiniteSets

CONSTANTS
    Producers,     \* business transactions running at the same time
    Workers,       \* pumpOutgoing goroutines (writerBatchSize of them)
    NoWorker,      \* nobody waits for a queued write
    NoProducer,    \* no transaction holds the row
    Segments,      \* (topic, key) pairs
    Topics,        \* Kafka topics, one partition each
    TopicOf,       \* the topic of a segment
    MaxID,         \* bound: outbox rows ever inserted
    MaxFaults,     \* bound: timeouts, failed writes and commits, crashes
    RowLocks,      \* TRUE: a producer updates the entity's row before it inserts the event
    AckedWrites    \* FALSE: a write may be reported as successful and still be lost

ASSUME OutboxAssumption ==
    /\ TopicOf \in [Segments -> Topics]
    /\ NoWorker \notin Workers /\ NoProducer \notin Producers
    /\ Segments # {}
    /\ MaxID \in Nat /\ MaxFaults \in Nat
    /\ RowLocks \in BOOLEAN /\ AckedWrites \in BOOLEAN

VARIABLES
    outbox,       \* table __message_outbox, by id
    nextID,       \* its bigserial
    pc,           \* what each worker does next
    candidates,   \* possibleNext of each worker
    current,      \* the row each worker has locked, 0 for none
    writerQueue,  \* per topic: writes handed to the kafka.Writer, not yet sent
    log,          \* per topic: the ids in the Kafka partition
    faults        \* faults that happened

workerVars == <<pc, candidates, current>>
outboxVars == <<outbox, nextID, pc, candidates, current, writerQueue, log, faults>>

IDs == 1..MaxID
\* free: not inserted; open: inserted by a transaction that still runs; void: rolled back.
RowStatus == {"free", "open", "void", "pending", "sent"}
WorkerState == {"idle", "select", "write", "writing", "written", "error"}

Committed(i) == outbox[i].status \in {"pending", "sent"}
\* Mutant: the event is sent although its transaction may still fail.
UnsentOrOpen(i) == outbox[i].status \in {"open", "pending"}

Unsent(i) == outbox[i].status = "pending"
Locked(i) == \E w \in Workers : current[w] = i
InLog(t) == { log[t][n] : n \in 1..Len(log[t]) }

OutboxTypeOK ==
    /\ outbox \in [IDs -> [status : RowStatus, seg : Segments, by : Producers \cup {NoProducer}]]
    /\ nextID \in 1..(MaxID + 1)
    /\ pc \in [Workers -> WorkerState]
    /\ candidates \in [Workers -> SUBSET IDs]
    /\ current \in [Workers -> 0..MaxID]
    /\ writerQueue \in [Topics -> Seq([id : IDs, by : Workers \cup {NoWorker}])]
    /\ log \in [Topics -> Seq(IDs)]
    /\ faults \in 0..MaxFaults

OutboxInit ==
    /\ outbox = [i \in IDs |-> [status |-> "free", seg |-> CHOOSE s \in Segments : TRUE,
                                by |-> NoProducer]]
    /\ nextID = 1
    /\ pc = [w \in Workers |-> "idle"]
    /\ candidates = [w \in Workers |-> {}]
    /\ current = [w \in Workers |-> 0]
    /\ writerQueue = [t \in Topics |-> << >>]
    /\ log = [t \in Topics |-> << >>]
    /\ faults = 0

Fault == faults < MaxFaults /\ faults' = faults + 1
-----------------------------------------------------------------------------
(* Producers.                                                              *)

\* The producers of this repository update the entity's row, then notify: a second
\* transaction on the same entity waits at its UPDATE until the first one ended.
MayInsert(p, s) ==
    RowLocks => \A i \in IDs : (outbox[i].status = "open" /\ outbox[i].seg = s) => outbox[i].by = p

AddOutboxMessages(p, s) ==
    /\ nextID <= MaxID
    /\ MayInsert(p, s)
    /\ outbox' = [outbox EXCEPT ![nextID] = [status |-> "open", seg |-> s, by |-> p]]
    /\ nextID' = nextID + 1
    /\ UNCHANGED <<workerVars, writerQueue, log, faults>>

Ended(row, outcome) == [row EXCEPT !.status = outcome, !.by = NoProducer]

\* RunInTx of the producer ends: its open rows become visible together or never.
EndProducerTx(p, outcome) ==
    /\ \E i \in IDs : outbox[i].by = p
    /\ outbox' = [i \in IDs |-> IF outbox[i].by = p THEN Ended(outbox[i], outcome) ELSE outbox[i]]
    /\ UNCHANGED <<nextID, workerVars, writerQueue, log, faults>>
CommitProducerTx(p) == EndProducerTx(p, "pending")
RollbackProducerTx(p) == EndProducerTx(p, "void")
-----------------------------------------------------------------------------
(* Workers.                                                                *)

\* Mutant: the first query does not look for the oldest row of a segment.
AnyUnsent == { i \in IDs : Unsent(i) }

OldestUnsent ==
    { i \in IDs : Unsent(i) /\ \A j \in IDs : (Unsent(j) /\ outbox[j].seg = outbox[i].seg) => i <= j }

\* First query of nextOutboxMessage; with no candidate the worker just polls again.
QueryPossibleNext(w) ==
    /\ pc[w] = "idle"
    /\ OldestUnsent # {}
    /\ candidates' = [candidates EXCEPT ![w] = OldestUnsent]
    /\ pc' = [pc EXCEPT ![w] = "select"]
    /\ UNCHANGED <<outbox, nextID, current, writerQueue, log, faults>>

\* Mutant: the second query does not check the status again.
LockableStale(w) == { i \in candidates[w] : ~Locked(i) }

Lockable(w) == { i \in candidates[w] : Unsent(i) /\ ~Locked(i) }

\* Second query of nextOutboxMessage: ORDER BY id FOR UPDATE SKIP LOCKED LIMIT 1.
LockNext(w) ==
    /\ pc[w] = "select"
    /\ candidates' = [candidates EXCEPT ![w] = {}]
    /\ \/ \E i \in Lockable(w) :
             /\ \A j \in Lockable(w) : i <= j
             /\ current' = [current EXCEPT ![w] = i]
             /\ pc' = [pc EXCEPT ![w] = "write"]
       \/ /\ Lockable(w) = {}
          /\ pc' = [pc EXCEPT ![w] = "idle"]
          /\ UNCHANGED current
    /\ UNCHANGED <<outbox, nextID, writerQueue, log, faults>>

TopicOfRow(i) == TopicOf[outbox[i].seg]

\* WriteMessages hands the message to the kafka.Writer and waits.
WriteMessages(w) ==
    /\ pc[w] = "write"
    /\ writerQueue' = [writerQueue EXCEPT ![TopicOfRow(current[w])] =
                           Append(@, [id |-> current[w], by |-> w])]
    /\ pc' = [pc EXCEPT ![w] = "writing"]
    /\ UNCHANGED <<outbox, nextID, candidates, current, log, faults>>

\* The transaction of w ends and releases the row.
EndWorkerTx(w) ==
    /\ pc' = [pc EXCEPT ![w] = "idle"]
    /\ current' = [current EXCEPT ![w] = 0]

\* Mutant: the status constant of the inbox is used.
MarkProcessed(w) ==
    /\ pc[w] = "written"
    /\ outbox' = [outbox EXCEPT ![current[w]].status = "processed"]
    /\ EndWorkerTx(w)
    /\ UNCHANGED <<nextID, candidates, writerQueue, log, faults>>

\* setOutboxMessageStatus and the commit.  A commit that took effect although it was
\* reported as failed leaves the same state.
MarkSent(w) ==
    /\ pc[w] = "written"
    /\ outbox' = [outbox EXCEPT ![current[w]].status = "sent"]
    /\ EndWorkerTx(w)
    /\ UNCHANGED <<nextID, candidates, writerQueue, log, faults>>

\* Mutant: the error of WriteMessages is ignored.
IgnoreError(w) ==
    /\ pc[w] = "error"
    /\ outbox' = [outbox EXCEPT ![current[w]].status = "sent"]
    /\ EndWorkerTx(w)
    /\ UNCHANGED <<nextID, candidates, writerQueue, log, faults>>

\* The write failed: RunInTx rolls back, the row stays pending.
Rollback(w) ==
    /\ pc[w] = "error"
    /\ EndWorkerTx(w)
    /\ UNCHANGED <<outbox, nextID, candidates, writerQueue, log, faults>>

\* The status update or the commit failed after the message was written.
CommitFails(w) ==
    /\ pc[w] = "written"
    /\ Fault
    /\ EndWorkerTx(w)
    /\ UNCHANGED <<outbox, nextID, candidates, writerQueue, log>>

\* writeMessagesTimeout: the worker stops waiting, the write stays queued.
WriteTimeout(w) ==
    /\ pc[w] = "writing"
    /\ Fault
    /\ pc' = [pc EXCEPT ![w] = "error"]
    /\ writerQueue' = [t \in Topics |-> [n \in 1..Len(writerQueue[t]) |->
            IF writerQueue[t][n].by = w
            THEN [writerQueue[t][n] EXCEPT !.by = NoWorker] ELSE writerQueue[t][n]]]
    /\ UNCHANGED <<outbox, nextID, candidates, current, log>>
-----------------------------------------------------------------------------
(* The kafka.Writer (one FIFO batch queue per partition) and the broker.  *)

\* The worker waiting for the first queued write of t, if any, goes on at state st.
Resume(t, st) ==
    LET w == Head(writerQueue[t]).by
    IN  pc' = [v \in Workers |-> IF v = w THEN st ELSE pc[v]]

FlushWrite(t) ==
    /\ writerQueue[t] # << >>
    /\ log' = [log EXCEPT ![t] = Append(@, Head(writerQueue[t]).id)]
    /\ writerQueue' = [writerQueue EXCEPT ![t] = Tail(@)]
    /\ Resume(t, "written")
    /\ UNCHANGED <<outbox, nextID, candidates, current, faults>>

\* MaxAttempts used up - or NewWriter having left RequiredAcks at its default, so that the broker does
\* not confirm a write and nobody learns that it was lost.
DropWrite(t) ==
    /\ writerQueue[t] # << >>
    /\ Fault
    /\ writerQueue' = [writerQueue EXCEPT ![t] = Tail(@)]
    /\ \E st \in IF AckedWrites THEN {"error"} ELSE {"error", "written"} : Resume(t, st)
    /\ UNCHANGED <<outbox, nextID, candidates, current, log>>

\* The service process dies and restarts: open transactions are rolled back, queued
\* writes are gone.
Crash ==
    /\ Fault
    /\ outbox' = [i \in IDs |-> IF outbox[i].by # NoProducer
                                THEN Ended(outbox[i], "void") ELSE outbox[i]]
    /\ pc' = [w \in Workers |-> "idle"]
    /\ candidates' = [w \in Workers |-> {}]
    /\ current' = [w \in Workers |-> 0]
    /\ writerQueue' = [t \in Topics |-> << >>]
    /\ UNCHANGED <<nextID, log>>
-----------------------------------------------------------------------------
PumpOutgoing(w) ==
    QueryPossibleNext(w) \/ LockNext(w) \/ WriteMessages(w) \/ MarkSent(w) \/ Rollback(w)

OutboxNext ==
    \/ \E p \in Producers, s \in Segments : AddOutboxMessages(p, s)
    \/ \E p \in Producers : CommitProducerTx(p) \/ RollbackProducerTx(p)
    \/ \E w \in Workers : PumpOutgoing(w) \/ CommitFails(w) \/ WriteTimeout(w)
    \/ \E t \in Topics : FlushWrite(t) \/ DropWrite(t)
    \/ Crash

\* The workers and the kafka.Writer run for as long as the service does; nothing
\* forces a producer to go on.
OutboxFairness ==
    /\ \A w \in Workers : WF_outboxVars(PumpOutgoing(w))
    /\ \A t \in Topics : WF_outboxVars(FlushWrite(t))

OutboxSpec == OutboxInit /\ [][OutboxNext]_outboxVars /\ OutboxFairness
-----------------------------------------------------------------------------
(* Properties.                                                             *)

\* A row becomes visible to the workers, and its event leaves the service, only if the
\* transaction that inserted it committed (the purpose of the outbox).
OnlyCommittedLeave ==
    \A t \in Topics :
        /\ \A i \in InLog(t) : Committed(i)
        /\ \A n \in 1..Len(writerQueue[t]) : Committed(writerQueue[t][n].id)

\* Two workers never send events of one segment at the same time, although neither query
\* locks a segment: nextOutboxMessage offers only its oldest unsent row.
OneWorkerPerSegment ==
    \A v, w \in Workers :
        (v # w /\ current[v] # 0 /\ current[w] # 0)
            => outbox[current[v]].seg # outbox[current[w]].seg

\* outboxMessageStatusSent is "for messages that have been sent": no event is marked as
\* sent that the partition does not hold.
SentIsInLog == \A i \in IDs : outbox[i].status = "sent" => i \in InLog(TopicOfRow(i))

\* Retries repeat an event but never put it after a newer one of its segment.
SegmentsSorted ==
    \A t \in Topics : \A m, n \in 1..Len(log[t]) :
        (m < n /\ outbox[log[t][m]].seg = outbox[log[t][n]].seg) => log[t][m] <= log[t][n]

\* Ids are used in order; a row is held by a transaction as long as it is open.
RowsInv ==
    \A i \in IDs : /\ outbox[i].status = "free" <=> i >= nextID
                   /\ outbox[i].status = "open" <=> outbox[i].by # NoProducer

CandidatesInv == \A w \in Workers : \A i \in candidates[w] : Committed(i)

HoldersInv ==
    \A w \in Workers :
        /\ current[w] # 0 <=> pc[w] \in {"write", "writing", "written", "error"}
        /\ current[w] # 0 => /\ Unsent(current[w])
                             /\ \A v \in Workers : v # w => current[v] # current[w]

\* Queued writes are of unsent rows; a worker that waits, waits for the last write of its row.
QueueInv ==
    \A t \in Topics : \A n \in 1..Len(writerQueue[t]) :
        LET m == writerQueue[t][n]
        IN  /\ Unsent(m.id) /\ TopicOfRow(m.id) = t
            /\ m.by # NoWorker =>
                  /\ pc[m.by] = "writing" /\ current[m.by] = m.id
                  /\ \A k \in 1..Len(writerQueue[t]) : k > n => writerQueue[t][k].id # m.id

\* What was written is no longer queued, and is in the log if writes are acknowledged.
WrittenInv ==
    \A w \in Workers : pc[w] = "written" =>
        /\ \A t \in Topics : \A n \in 1..Len(writerQueue[t]) : writerQueue[t][n].id # current[w]
        /\ AckedWrites => current[w] \in InLog(TopicOfRow(current[w]))

LogInv == \A t \in Topics : \A i \in InLog(t) : Committed(i) /\ TopicOfRow(i) = t

\* What the row locks and the writer's queue guarantee.
LockInv ==
    /\ RowsInv /\ CandidatesInv /\ HoldersInv /\ QueueInv /\ WrittenInv /\ LogInv
    /\ AckedWrites => SentIsInLog

Done(i) == outbox[i].status \in {"void", "sent"}
PredecessorsDone(i) ==
    \A j \in IDs : (j < i /\ outbox[j].seg = outbox[i].seg) => Done(j)

\* After an open row, only its own transaction has inserted rows of the segment.
OpenRowsInv ==
    \A i, j \in IDs :
        (i < j /\ outbox[i].status = "open" /\ outbox[j].status # "free"
            /\ outbox[i].seg = outbox[j].seg) => outbox[j].by = outbox[i].by

\* Rows a worker has chosen, be it from stale candidates.
Chosen(i) ==
    \/ \E w \in Workers : i \in candidates[w] \/ current[w] = i
    \/ \E t \in Topics : i \in InLog(t) \/ \E n \in 1..Len(writerQueue[t]) : writerQueue[t][n].id = i

\* Nothing is left to be sent before a chosen row.
ChosenInv == \A i \in IDs : Chosen(i) => PredecessorsDone(i)

\* What is added if producers lock the entity's row before they insert its event.
OrderInv == OpenRowsInv /\ ChosenInv /\ SegmentsSorted

\* The inductive invariant behind the properties above.
OutboxInv == LockInv /\ (RowLocks => OrderInv)

Stream == INSTANCE EventStream
            WITH published <- [s \in Segments |-> { i \in IDs : Committed(i) /\ outbox[i].seg = s }],
                 stream <- log

\* The outbox delivers every segment's events in order and without gaps, repeating at
\* most the newest one, whatever timeouts, failed commits and crashes do.
ImplementsStream == Stream!StreamSpec

\* Every event of a committed transaction eventually is in the Kafka log.
EverythingSent == Stream!EverythingDelivered(IDs)
=============================================================================
