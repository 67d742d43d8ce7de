---------------------------- MODULE OutboxProofs ----------------------------
(***************************************************************************)
(* Safety of the outbox for any number of workers, producers, segments,   *)
(* rows and faults.                                                        *)
(***************************************************************************)
EXTENDS Outbox, SequenceTheorems, TLAPS

Row == [status : RowStatus, seg : Segments, by : Producers \cup {NoProducer}]
QueuedWrite == [id : IDs, by : Workers \cup {NoWorker}]

-----------------------------------------------------------------------------
(* What the steps do to the rows and to the queues.                        *)

\* Rows are only appended and moved on: a used row keeps its segment, stays committed if it
\* was and done if it was.
RowsKept ==
    /\ outbox' \in [IDs -> Row]
    /\ \A i \in IDs : outbox[i].status # "free" =>
          /\ outbox'[i].status # "free" /\ outbox'[i].seg = outbox[i].seg
          /\ Committed(i) => Committed(i)'
          /\ Done(i) => Done(i)'

LEMMA EndedRow ==
  ASSUME NEW r \in Row, NEW st \in RowStatus
  PROVE  /\ Ended(r, st) \in Row
         /\ Ended(r, st).status = st /\ Ended(r, st).seg = r.seg /\ Ended(r, st).by = NoProducer
  BY DEF Row, Ended

\* Rows of ended transactions, whichever they are, change their status and nothing else.
LEMMA EndRows ==
  ASSUME OutboxTypeOK, NEW st \in {"pending", "void"}, NEW E \in SUBSET IDs,
         outbox' = [i \in IDs |-> IF i \in E THEN Ended(outbox[i], st) ELSE outbox[i]]
  PROVE  /\ outbox' \in [IDs -> Row]
         /\ \A i \in IDs : /\ outbox'[i].seg = outbox[i].seg
                           /\ i \in E => outbox'[i].status = st /\ outbox'[i].by = NoProducer
                           /\ i \notin E => outbox'[i] = outbox[i]
  <1>1. outbox \in [IDs -> Row] /\ st \in RowStatus
    BY DEF OutboxTypeOK, Row, RowStatus
  <1>2. SUFFICES ASSUME NEW i \in IDs
                 PROVE  /\ outbox'[i] \in Row /\ outbox'[i].seg = outbox[i].seg
                        /\ i \in E => outbox'[i].status = st /\ outbox'[i].by = NoProducer
                        /\ i \notin E => outbox'[i] = outbox[i]
    BY <1>1
  <1>3. outbox[i] \in Row
    BY <1>1
  <1>4. CASE i \in E
    <2>1. outbox'[i] = Ended(outbox[i], st)
      BY <1>4
    <2> QED
      BY <1>1, <1>3, <1>4, <2>1, EndedRow
  <1>5. CASE i \notin E
    BY <1>3, <1>5
  <1> QED
    BY <1>4, <1>5

LEMMA EndProducer ==
  ASSUME OutboxTypeOK, NEW p \in Producers, NEW st \in {"pending", "void"}, EndProducerTx(p, st)
  PROVE  /\ outbox' \in [IDs -> Row]
         /\ \A i \in IDs : /\ outbox'[i].seg = outbox[i].seg
                           /\ outbox[i].by = p => outbox'[i].status = st /\ outbox'[i].by = NoProducer
                           /\ outbox[i].by # p => outbox'[i] = outbox[i]
  <1> DEFINE E == { i \in IDs : outbox[i].by = p }
  <1>1. outbox' = [i \in IDs |-> IF i \in E THEN Ended(outbox[i], st) ELSE outbox[i]]
    BY DEF EndProducerTx
  <1>2. E \in SUBSET IDs /\ \A i \in IDs : i \in E <=> outbox[i].by = p
    OBVIOUS
  <1> HIDE DEF E
  <1> QED
    BY <1>1, <1>2, EndRows

LEMMA CrashRows ==
  ASSUME OutboxTypeOK, Crash
  PROVE  /\ outbox' \in [IDs -> Row]
         /\ \A i \in IDs : /\ outbox'[i].seg = outbox[i].seg
                           /\ outbox[i].by # NoProducer
                                => outbox'[i].status = "void" /\ outbox'[i].by = NoProducer
                           /\ outbox[i].by = NoProducer => outbox'[i] = outbox[i]
  <1> DEFINE E == { i \in IDs : outbox[i].by # NoProducer }
  <1>1. outbox' = [i \in IDs |-> IF i \in E THEN Ended(outbox[i], "void") ELSE outbox[i]]
    BY DEF Crash
  <1>2. E \in SUBSET IDs /\ \A i \in IDs : i \in E <=> outbox[i].by # NoProducer
    OBVIOUS
  <1> HIDE DEF E
  <1> QED
    BY <1>1, <1>2, EndRows

LEMMA InsertRow ==
  ASSUME OutboxTypeOK, NEW p \in Producers, NEW s \in Segments, AddOutboxMessages(p, s)
  PROVE  /\ outbox' \in [IDs -> Row] /\ nextID \in IDs /\ nextID' = nextID + 1
         /\ \A i \in IDs \ {nextID} : outbox'[i] = outbox[i]
         /\ outbox'[nextID].status = "open" /\ outbox'[nextID].seg = s /\ outbox'[nextID].by = p
  <1>1. outbox \in [IDs -> Row] /\ nextID \in IDs
    BY OutboxAssumption DEF OutboxTypeOK, AddOutboxMessages, Row, IDs
  <1>2. [status |-> "open", seg |-> s, by |-> p] \in Row
    BY DEF Row, RowStatus
  <1> QED
    BY <1>1, <1>2 DEF AddOutboxMessages

LEMMA MarkRow ==
  ASSUME OutboxTypeOK, HoldersInv, NEW w \in Workers, MarkSent(w)
  PROVE  /\ outbox' \in [IDs -> Row] /\ current[w] \in IDs
         /\ \A i \in IDs \ {current[w]} : outbox'[i] = outbox[i]
         /\ outbox'[current[w]].status = "sent"
         /\ outbox'[current[w]].seg = outbox[current[w]].seg
         /\ outbox'[current[w]].by = outbox[current[w]].by
  <1>1. outbox \in [IDs -> Row] /\ "sent" \in RowStatus
    BY DEF OutboxTypeOK, Row, RowStatus
  <1>2. current[w] \in IDs
    BY OutboxAssumption DEF OutboxTypeOK, HoldersInv, MarkSent, IDs
  <1> QED
    BY <1>1, <1>2 DEF MarkSent, Row

LEMMA RowTopic == ASSUME OutboxTypeOK, NEW i \in IDs PROVE TopicOfRow(i) \in Topics
  BY OutboxAssumption DEF OutboxTypeOK, TopicOfRow

\* Appending to one of several sequences.
LEMMA AppendTo ==
  ASSUME NEW D, NEW S, NEW f \in [D -> Seq(S)], NEW k \in D, NEW m \in S,
         NEW g, g = [f EXCEPT ![k] = Append(f[k], m)]
  PROVE  /\ g \in [D -> Seq(S)]
         /\ Len(f[k]) \in Nat /\ Len(g[k]) = Len(f[k]) + 1 /\ g[k][Len(f[k]) + 1] = m
         /\ \A n \in 1..Len(f[k]) : g[k][n] = f[k][n]
         /\ \A d \in D \ {k} : g[d] = f[d]
  <1>1. /\ Append(f[k], m) \in Seq(S) /\ Len(f[k]) \in Nat
        /\ Len(Append(f[k], m)) = Len(f[k]) + 1 /\ Append(f[k], m)[Len(f[k]) + 1] = m
        /\ \A n \in 1..Len(f[k]) : Append(f[k], m)[n] = f[k][n]
    BY AppendProperties
  <1>2. g[k] = Append(f[k], m) /\ \A d \in D \ {k} : g[d] = f[d]
    OBVIOUS
    <1> QED
    BY <1>1, <1>2

\* A worker stops to wait, but its write stays where it is in the queue.
LEMMA TimeoutKeepsQueues ==
  ASSUME OutboxTypeOK, NEW w \in Workers, WriteTimeout(w)
  PROVE  /\ writerQueue' \in [Topics -> Seq(QueuedWrite)]
         /\ \A t \in Topics :
               /\ Len(writerQueue'[t]) = Len(writerQueue[t])
               /\ \A n \in 1..Len(writerQueue[t]) :
                     /\ writerQueue'[t][n].id = writerQueue[t][n].id
                     /\ writerQueue'[t][n].by = IF writerQueue[t][n].by = w THEN NoWorker
                                                ELSE writerQueue[t][n].by
  <1> DEFINE Waits(m) == IF m.by = w THEN [m EXCEPT !.by = NoWorker] ELSE m
             r(t) == [n \in 1..Len(writerQueue[t]) |-> Waits(writerQueue[t][n])]
  <1>1. \A m \in QueuedWrite : /\ Waits(m) \in QueuedWrite /\ Waits(m).id = m.id
                               /\ Waits(m).by = IF m.by = w THEN NoWorker ELSE m.by
    BY DEF QueuedWrite
  <1>2. writerQueue \in [Topics -> Seq(QueuedWrite)]
    BY DEF OutboxTypeOK, QueuedWrite
  <1>3. writerQueue' = [t \in Topics |-> r(t)]
    BY DEF WriteTimeout
  <1>4. ASSUME NEW t \in Topics
        PROVE  /\ r(t) \in Seq(QueuedWrite) /\ Len(r(t)) = Len(writerQueue[t])
               /\ \A n \in 1..Len(writerQueue[t]) : r(t)[n] = Waits(writerQueue[t][n])
    <2>1. Len(writerQueue[t]) \in Nat /\ \A n \in 1..Len(writerQueue[t]) : writerQueue[t][n] \in QueuedWrite
      BY <1>2
    <2>2. \A n \in 1..Len(writerQueue[t]) : Waits(writerQueue[t][n]) \in QueuedWrite
      BY <1>1, <2>1
    <2> HIDE DEF Waits
    <2> QED
      BY <2>1, <2>2, IsASeq
  <1> HIDE DEF r, Waits
  <1> QED
    BY <1>1, <1>2, <1>3, <1>4
-----------------------------------------------------------------------------
(* Type correctness.                                                       *)

\* The conjuncts of OutboxTypeOK with the row types by name.
Typed ==
    /\ outbox \in [IDs -> Row]
    /\ nextID \in 1..(MaxID + 1)
    /\ pc \in [Workers -> WorkerState]
    /\ candidates \in [Workers -> SUBSET IDs]
    /\ current \in [Workers -> 0..MaxID]
    /\ writerQueue \in [Topics -> Seq(QueuedWrite)]
    /\ log \in [Topics -> Seq(IDs)]
    /\ faults \in 0..MaxFaults

LEMMA TypeByParts == OutboxTypeOK <=> Typed
  BY DEF OutboxTypeOK, Typed, Row, QueuedWrite

LEMMA TypeInit == OutboxInit => OutboxTypeOK
  <1> SUFFICES ASSUME OutboxInit PROVE OutboxTypeOK
    OBVIOUS
  <1>1. outbox \in [IDs -> Row]
    <2>1. (CHOOSE s \in Segments : TRUE) \in Segments
      BY OutboxAssumption
    <2> DEFINE s0 == CHOOSE s \in Segments : TRUE
    <2> HIDE DEF s0
    <2>2. s0 \in Segments
      BY <2>1 DEF s0
    <2>3. [status |-> "free", seg |-> s0, by |-> NoProducer] \in Row
      BY <2>2 DEF Row, RowStatus
    <2> QED
      BY <2>3 DEF OutboxInit, s0
  <1>2. nextID \in 1..(MaxID + 1) /\ faults \in 0..MaxFaults
    BY OutboxAssumption DEF OutboxInit
  <1>3. pc \in [Workers -> WorkerState] /\ current \in [Workers -> 0..MaxID]
    BY OutboxAssumption DEF OutboxInit, WorkerState
  <1>4. candidates \in [Workers -> SUBSET IDs]
    BY DEF OutboxInit
  <1>5. writerQueue \in [Topics -> Seq(QueuedWrite)] /\ log \in [Topics -> Seq(IDs)]
    BY DEF OutboxInit
  <1> QED
    BY <1>1, <1>2, <1>3, <1>4, <1>5, TypeByParts DEF Typed

\* A fault is counted.
LEMMA FaultType == ASSUME faults \in 0..MaxFaults, Fault PROVE faults' \in 0..MaxFaults
  BY OutboxAssumption DEF Fault

\* The writer takes the first write of a topic.
LEMMA TakeWrite ==
  ASSUME OutboxTypeOK, NEW t \in Topics, writerQueue[t] # << >>,
         writerQueue' = [writerQueue EXCEPT ![t] = Tail(@)]
  PROVE  /\ writerQueue' \in [Topics -> Seq(QueuedWrite)]
         /\ Head(writerQueue[t]) \in QueuedWrite /\ Head(writerQueue[t]) = writerQueue[t][1]
         /\ 1 \in 1..Len(writerQueue[t])
         /\ Len(writerQueue'[t]) = Len(writerQueue[t]) - 1
         /\ \A n \in 1..Len(writerQueue'[t]) :
               n + 1 \in 1..Len(writerQueue[t]) /\ writerQueue'[t][n] = writerQueue[t][n + 1]
         /\ \A u \in Topics \ {t} : writerQueue'[u] = writerQueue[u]
  <1>1. writerQueue \in [Topics -> Seq(QueuedWrite)]
    BY TypeByParts DEF Typed
  <1> DEFINE q == writerQueue[t]
  <1>2. q \in Seq(QueuedWrite) /\ q # << >>
    BY <1>1
  <1> HIDE DEF q
  <1>3. /\ Tail(q) \in Seq(QueuedWrite) /\ Head(q) \in QueuedWrite /\ Head(q) = q[1]
        /\ 1 \in 1..Len(q) /\ Len(Tail(q)) = Len(q) - 1
        /\ \A n \in 1..Len(Tail(q)) : n + 1 \in 1..Len(q) /\ Tail(q)[n] = q[n + 1]
    BY <1>2
  <1>4. writerQueue'[t] = Tail(q) /\ \A u \in Topics \ {t} : writerQueue'[u] = writerQueue[u]
    BY <1>1 DEF q
  <1> QED
    BY <1>1, <1>3, <1>4 DEF q

LEMMA ResumeType ==
  ASSUME NEW t \in Topics, NEW st \in WorkerState, pc \in [Workers -> WorkerState], Resume(t, st)
  PROVE  pc' \in [Workers -> WorkerState]
  BY DEF Resume

LEMMA TypeNext ==
  ASSUME OutboxTypeOK, HoldersInv, [OutboxNext]_outboxVars
  PROVE  OutboxTypeOK'
  <1>0. Typed /\ (Typed' => OutboxTypeOK')
    BY TypeByParts DEF OutboxTypeOK, Typed, Row, QueuedWrite
  <1> USE <1>0 DEF Typed, workerVars
  <1>1. ASSUME NEW p \in Producers, NEW s \in Segments, AddOutboxMessages(p, s)
        PROVE  OutboxTypeOK'
    <2>1. nextID' \in 1..(MaxID + 1)
      BY <1>1, OutboxAssumption DEF AddOutboxMessages
    <2> QED
      BY <1>1, <2>1, InsertRow DEF AddOutboxMessages
  <1>2. ASSUME NEW p \in Producers, NEW st \in {"pending", "void"}, EndProducerTx(p, st)
        PROVE  OutboxTypeOK'
    BY <1>2, EndProducer DEF EndProducerTx
  <1>3. ASSUME NEW w \in Workers, QueryPossibleNext(w)
        PROVE  OutboxTypeOK'
    <2>1. candidates' \in [Workers -> SUBSET IDs]
      BY <1>3 DEF QueryPossibleNext, OldestUnsent
    <2>2. pc' \in [Workers -> WorkerState]
      BY <1>3 DEF QueryPossibleNext, WorkerState
    <2> QED
      BY <1>3, <2>1, <2>2 DEF QueryPossibleNext
  <1>4. ASSUME NEW w \in Workers, LockNext(w)
        PROVE  OutboxTypeOK'
    <2>1. candidates' \in [Workers -> SUBSET IDs]
      BY <1>4 DEF LockNext
    <2>2. pc' \in [Workers -> WorkerState]
      BY <1>4 DEF LockNext, WorkerState
    <2>3. Lockable(w) \subseteq IDs
      BY DEF Lockable
    <2>4. current' \in [Workers -> 0..MaxID]
      <3>1. UNCHANGED current \/ \E i \in 0..MaxID : current' = [current EXCEPT ![w] = i]
        BY <1>4, <2>3, OutboxAssumption DEF LockNext, IDs
      <3> QED
        BY <3>1
    <2> QED
      BY <1>4, <2>1, <2>2, <2>4 DEF LockNext
  <1>5. ASSUME NEW w \in Workers, WriteMessages(w)
        PROVE  OutboxTypeOK'
    <2>1. current[w] \in IDs
      BY <1>5, OutboxAssumption DEF WriteMessages, HoldersInv, IDs
    <2>2. [id |-> current[w], by |-> w] \in QueuedWrite
      BY <2>1 DEF QueuedWrite
    <2> DEFINE m == [id |-> current[w], by |-> w]
               t == TopicOfRow(current[w])
    <2>3. m \in QueuedWrite /\ writerQueue' = [writerQueue EXCEPT ![t] = Append(writerQueue[t], m)]
      BY <1>5, <2>2 DEF WriteMessages
    <2> HIDE DEF m, t
    <2>5. t \in Topics
      BY <2>1, RowTopic DEF t
    <2>6. writerQueue' \in [Topics -> Seq(QueuedWrite)]
      BY <2>3, <2>5, AppendTo
    <2>4. pc' \in [Workers -> WorkerState]
      BY <1>5 DEF WriteMessages, WorkerState
    <2> QED
      BY <1>5, <2>4, <2>6 DEF WriteMessages
  <1>6. ASSUME NEW w \in Workers, EndWorkerTx(w)
        PROVE  pc' \in [Workers -> WorkerState] /\ current' \in [Workers -> 0..MaxID]
    BY <1>6, OutboxAssumption DEF EndWorkerTx, WorkerState
  <1>7. ASSUME NEW w \in Workers, MarkSent(w)
        PROVE  OutboxTypeOK'
    BY <1>6, <1>7, MarkRow DEF MarkSent
  <1>8. ASSUME NEW w \in Workers, Rollback(w)
        PROVE  OutboxTypeOK'
    BY <1>6, <1>8 DEF Rollback
  <1>9. ASSUME NEW w \in Workers, CommitFails(w)
        PROVE  OutboxTypeOK'
    BY <1>6, <1>9, FaultType DEF CommitFails
  <1>10. ASSUME NEW w \in Workers, WriteTimeout(w)
         PROVE  OutboxTypeOK'
    <2>1. pc' \in [Workers -> WorkerState]
      BY <1>10 DEF WriteTimeout, WorkerState
    <2>2. writerQueue' \in [Topics -> Seq(QueuedWrite)]
      BY <1>10, TimeoutKeepsQueues
    <2>3. faults' \in 0..MaxFaults
      BY <1>10, FaultType DEF WriteTimeout
    <2> QED
      BY <1>10, <2>1, <2>2, <2>3 DEF WriteTimeout
  <1>11. ASSUME NEW t \in Topics, FlushWrite(t)
         PROVE  OutboxTypeOK'
    <2>1. writerQueue' \in [Topics -> Seq(QueuedWrite)] /\ Head(writerQueue[t]).id \in IDs
      BY <1>11, TakeWrite DEF FlushWrite, QueuedWrite
    <2>2. pc' \in [Workers -> WorkerState]
      BY <1>11, ResumeType DEF FlushWrite, WorkerState
    <2>3. log' \in [Topics -> Seq(IDs)]
      BY <1>11, <2>1 DEF FlushWrite
    <2> QED
      BY <1>11, <2>1, <2>2, <2>3 DEF FlushWrite
  <1>12. ASSUME NEW t \in Topics, DropWrite(t)
         PROVE  OutboxTypeOK'
    <2>1. writerQueue' \in [Topics -> Seq(QueuedWrite)]
      BY <1>12, TakeWrite DEF DropWrite
    <2>2. pc' \in [Workers -> WorkerState]
      BY <1>12, ResumeType DEF DropWrite, WorkerState
    <2>3. faults' \in 0..MaxFaults
      BY <1>12, FaultType DEF DropWrite
    <2> QED
      BY <1>12, <2>1, <2>2, <2>3 DEF DropWrite
  <1>13. CASE Crash
    <2>1. pc' \in [Workers -> WorkerState] /\ current' \in [Workers -> 0..MaxID]
      BY <1>13, OutboxAssumption DEF Crash, WorkerState
    <2>2. candidates' \in [Workers -> SUBSET IDs] /\ writerQueue' \in [Topics -> Seq(QueuedWrite)]
      BY <1>13 DEF Crash
    <2>3. faults' \in 0..MaxFaults
      BY <1>13, FaultType DEF Crash
    <2> QED
      BY <1>13, <2>1, <2>2, <2>3, CrashRows DEF Crash
  <1>14. CASE UNCHANGED outboxVars
    BY <1>14 DEF outboxVars
  <1> QED
    BY <1>1, <1>2, <1>3, <1>4, <1>5, <1>7, <1>8, <1>9, <1>10, <1>11, <1>12, <1>13, <1>14
    DEF OutboxNext, PumpOutgoing, CommitProducerTx, RollbackProducerTx
-----------------------------------------------------------------------------
(* What the row locks and the writer's queue guarantee.                    *)

LEMMA QueuedTypes ==
  ASSUME OutboxTypeOK, NEW t \in Topics, NEW n \in 1..Len(writerQueue[t])
  PROVE  writerQueue[t][n].id \in IDs /\ writerQueue[t][n].by \in Workers \cup {NoWorker}
  <1>1. writerQueue[t] \in Seq(QueuedWrite)
    BY TypeByParts DEF Typed
  <1>2. writerQueue[t][n] \in QueuedWrite
    BY <1>1
  <1> QED
    BY <1>2 DEF QueuedWrite

LEMMA LogTypes ==
  ASSUME OutboxTypeOK, NEW t \in Topics PROVE InLog(t) \subseteq IDs /\ Len(log[t]) \in Nat
  <1>1. log[t] \in Seq(IDs)
    BY TypeByParts DEF Typed
  <1> QED
    BY <1>1 DEF InLog

LEMMA LockInit == OutboxInit => LockInv
  <1> SUFFICES ASSUME OutboxInit PROVE LockInv
    OBVIOUS
  <1>1. RowsInv
    BY OutboxAssumption DEF OutboxInit, RowsInv, IDs
  <1>2. CandidatesInv /\ HoldersInv /\ WrittenInv
    BY DEF OutboxInit, CandidatesInv, HoldersInv, WrittenInv
  <1>3. QueueInv
    BY DEF OutboxInit, QueueInv
  <1>4. LogInv
    BY DEF OutboxInit, LogInv, InLog
  <1>5. SentIsInLog
    BY DEF OutboxInit, SentIsInLog
  <1> QED
    BY <1>1, <1>2, <1>3, <1>4, <1>5 DEF LockInv

\* Steps of producers leave the committed rows, the workers and Kafka alone.
LEMMA LockTable ==
  ASSUME OutboxTypeOK, LockInv, RowsInv', UNCHANGED <<workerVars, writerQueue, log>>,
         \A i \in IDs : Committed(i) => outbox'[i] = outbox[i],
         \A i \in IDs : outbox'[i].status = "sent" => outbox[i].status = "sent"
  PROVE  LockInv'
  <1> USE DEF workerVars
  <1>0. /\ candidates \in [Workers -> SUBSET IDs] /\ current \in [Workers -> 0..MaxID]
        /\ \A i \in IDs : Committed(i) => /\ Committed(i)' /\ TopicOfRow(i)' = TopicOfRow(i)
                                          /\ Unsent(i) => Unsent(i)'
        /\ \A i \in IDs : Unsent(i) => Committed(i)
    BY DEF Committed, Unsent, TopicOfRow, OutboxTypeOK
  <1>1. CandidatesInv'
    BY <1>0 DEF LockInv, CandidatesInv
  <1>2. HoldersInv'
    <2>1. \A w \in Workers : current[w] # 0 => current[w] \in IDs
      BY <1>0, OutboxAssumption DEF IDs
    <2> QED
      BY <1>0, <2>1 DEF LockInv, HoldersInv
  <1>3. QueueInv'
    BY <1>0, QueuedTypes DEF LockInv, QueueInv
  <1>4. WrittenInv'
    <2>1. \A w \in Workers : pc[w] = "written" => current[w] \in IDs /\ Unsent(current[w])
      BY <1>0, OutboxAssumption DEF LockInv, HoldersInv, IDs
    <2> QED
      BY <1>0, <2>1 DEF LockInv, WrittenInv, InLog
  <1>5. LogInv'
    BY <1>0, LogTypes DEF LockInv, LogInv, InLog
  <1>6. AckedWrites => SentIsInLog'
    BY <1>0 DEF LockInv, SentIsInLog, Committed, InLog
  <1> QED
    BY <1>1, <1>2, <1>3, <1>4, <1>5, <1>6 DEF LockInv

LEMMA LockAdd ==
  ASSUME OutboxTypeOK, LockInv, NEW p \in Producers, NEW s \in Segments, AddOutboxMessages(p, s)
  PROVE  LockInv'
  <1>1. RowsInv'
    <2>1. NoProducer # p /\ nextID \in Nat /\ \A i \in IDs : i \in Nat
      BY InsertRow, OutboxAssumption DEF IDs
    <2> QED
      BY <2>1, InsertRow DEF LockInv, RowsInv
  <1>2. ~Committed(nextID)
    BY InsertRow DEF LockInv, RowsInv, Committed, IDs
  <1> QED
    BY <1>1, <1>2, InsertRow, LockTable DEF AddOutboxMessages

LEMMA LockEnd ==
  ASSUME OutboxTypeOK, LockInv, NEW p \in Producers, NEW st \in {"pending", "void"},
         EndProducerTx(p, st)
  PROVE  LockInv'
  <1>0. NoProducer # p
    BY OutboxAssumption
  <1>1. \A i \in IDs : outbox[i].by = p => outbox[i].status = "open"
    BY <1>0 DEF LockInv, RowsInv
  <1>2. RowsInv'
    BY <1>0, <1>1, EndProducer DEF LockInv, RowsInv, EndProducerTx
  <1> QED
    BY <1>1, <1>2, EndProducer, LockTable DEF EndProducerTx, Committed

\* Steps of a worker that touch neither rows nor Kafka: its candidates are committed rows,
\* it does not start to wait or to have written, and a row it takes is unsent and free.
LEMMA LockWorker ==
  ASSUME OutboxTypeOK, LockInv, NEW w \in Workers, UNCHANGED <<outbox, nextID, writerQueue, log>>,
         pc[w] \notin {"writing"}, NEW st \in WorkerState \ {"writing", "written"}, NEW i \in 0..MaxID,
         pc' = [pc EXCEPT ![w] = st], current' = [current EXCEPT ![w] = i],
         candidates' \in [Workers -> SUBSET IDs],
         \A v \in Workers : candidates'[v] \subseteq candidates[v] \cup { j \in IDs : Committed(j) },
         i # 0 <=> st \in {"write", "error"},
         i # 0 => Unsent(i) /\ \A v \in Workers : v # w => current[v] # i
  PROVE  LockInv'
  <1>0. /\ pc \in [Workers -> WorkerState] /\ current \in [Workers -> 0..MaxID]
        /\ pc'[w] = st /\ current'[w] = i
        /\ \A v \in Workers : v # w => pc'[v] = pc[v] /\ current'[v] = current[v]
    BY DEF OutboxTypeOK
  <1>1. CandidatesInv'
    BY DEF LockInv, CandidatesInv, Committed
  <1>2. HoldersInv'
    <2>1. \A v \in Workers : /\ current'[v] # 0 <=> pc'[v] \in {"write", "writing", "written", "error"}
                             /\ current'[v] # 0 => Unsent(current'[v])
      BY <1>0 DEF LockInv, HoldersInv, WorkerState
    <2>2. \A u, v \in Workers : (current'[v] # 0 /\ u # v) => current'[u] # current'[v]
      BY <1>0 DEF LockInv, HoldersInv
    <2> QED
      BY <2>1, <2>2 DEF HoldersInv, Unsent
  <1>3. QueueInv'
    BY <1>0, QueuedTypes DEF LockInv, QueueInv, Unsent, TopicOfRow
  <1>4. WrittenInv'
    BY <1>0 DEF LockInv, WrittenInv, InLog, TopicOfRow
  <1> QED
    BY <1>1, <1>2, <1>3, <1>4 DEF LockInv, RowsInv, LogInv, SentIsInLog, InLog, TopicOfRow, Committed

LEMMA LockQuery ==
  ASSUME OutboxTypeOK, OutboxTypeOK', LockInv, NEW w \in Workers, QueryPossibleNext(w)
  PROVE  LockInv'
  <1>1. pc[w] = "idle" /\ current[w] = 0 /\ current \in [Workers -> 0..MaxID]
    BY DEF QueryPossibleNext, LockInv, HoldersInv, OutboxTypeOK
  <1>2. \A v \in Workers : candidates'[v] \subseteq candidates[v] \cup { j \in IDs : Committed(j) }
    BY DEF QueryPossibleNext, OldestUnsent, Unsent, Committed, OutboxTypeOK
  <1>3. current' = [current EXCEPT ![w] = 0] /\ 0 \in 0..MaxID
    BY <1>1, OutboxAssumption DEF QueryPossibleNext
  <1>4. candidates' \in [Workers -> SUBSET IDs] /\ "select" \in WorkerState \ {"writing", "written"}
    BY DEF OutboxTypeOK, WorkerState
  <1> QED
    BY <1>1, <1>2, <1>3, <1>4, LockWorker DEF QueryPossibleNext

LEMMA LockLockNext ==
  ASSUME OutboxTypeOK, OutboxTypeOK', LockInv, NEW w \in Workers, LockNext(w)
  PROVE  LockInv'
  <1>1. pc[w] = "select" /\ current[w] = 0 /\ current \in [Workers -> 0..MaxID]
    BY DEF LockNext, LockInv, HoldersInv, OutboxTypeOK
  <1>2. \A v \in Workers : candidates'[v] \subseteq candidates[v] \cup { j \in IDs : Committed(j) }
    BY DEF LockNext, OutboxTypeOK
  <1>3. candidates' \in [Workers -> SUBSET IDs] /\ {"write", "idle"} \subseteq WorkerState \ {"writing", "written"}
    BY DEF OutboxTypeOK, WorkerState
  <1>4. ASSUME NEW i \in Lockable(w), current' = [current EXCEPT ![w] = i],
               pc' = [pc EXCEPT ![w] = "write"]
        PROVE  LockInv'
    <2>1. i \in IDs /\ Unsent(i) /\ \A v \in Workers : current[v] # i
      BY DEF Lockable, Locked, OutboxTypeOK
    <2>2. i \in 0..MaxID /\ i # 0
      BY <2>1, OutboxAssumption DEF IDs
    <2> QED
      BY <1>1, <1>2, <1>3, <1>4, <2>1, <2>2, LockWorker DEF LockNext
  <1>5. ASSUME pc' = [pc EXCEPT ![w] = "idle"], UNCHANGED current
        PROVE  LockInv'
    <2>1. current' = [current EXCEPT ![w] = 0] /\ 0 \in 0..MaxID
      BY <1>1, <1>5, OutboxAssumption
    <2> QED
      BY <1>1, <1>2, <1>3, <1>5, <2>1, LockWorker DEF LockNext
  <1> QED
    BY <1>4, <1>5 DEF LockNext

\* A transaction that is rolled back, or whose commit fails, releases the row.
LEMMA LockRelease ==
  ASSUME OutboxTypeOK, LockInv, NEW w \in Workers, Rollback(w) \/ CommitFails(w)
  PROVE  LockInv'
  <1>1. pc[w] \notin {"writing"} /\ UNCHANGED <<outbox, nextID, writerQueue, log, candidates>>
    BY DEF Rollback, CommitFails
  <1>2. pc' = [pc EXCEPT ![w] = "idle"] /\ current' = [current EXCEPT ![w] = 0]
    BY DEF Rollback, CommitFails, EndWorkerTx
  <1>3. 0 \in 0..MaxID /\ "idle" \in WorkerState \ {"writing", "written"}
    BY OutboxAssumption DEF WorkerState
  <1> QED
    BY <1>1, <1>2, <1>3, LockWorker DEF OutboxTypeOK

LEMMA LockMark ==
  ASSUME OutboxTypeOK, LockInv, NEW w \in Workers, MarkSent(w)
  PROVE  LockInv'
  <1> DEFINE c == current[w]
  <1>0. /\ c \in IDs /\ pc[w] = "written" /\ Unsent(c)
        /\ outbox'[c].status = "sent" /\ outbox'[c].seg = outbox[c].seg /\ outbox'[c].by = outbox[c].by
        /\ \A i \in IDs \ {c} : outbox'[i] = outbox[i]
        /\ pc'[w] = "idle" /\ current'[w] = 0
        /\ \A v \in Workers : v # w => pc'[v] = pc[v] /\ current'[v] = current[v]
        /\ UNCHANGED <<nextID, candidates, writerQueue, log>>
    BY MarkRow DEF MarkSent, EndWorkerTx, LockInv, HoldersInv, OutboxTypeOK
  <1> HIDE DEF c
  <1>1. /\ \A i \in IDs : /\ Committed(i) => Committed(i)'
                          /\ TopicOfRow(i)' = TopicOfRow(i)
                          /\ (Unsent(i) /\ i # c) => Unsent(i)'
        /\ \A v \in Workers : (v # w /\ current[v] # 0) => current[v] # c
        /\ \A v \in Workers : current[v] # 0 => current[v] \in IDs
        /\ current[w] = c /\ c # 0
    <2>1. \A v \in Workers : current[v] # 0 => current[v] \in IDs
      BY OutboxAssumption DEF OutboxTypeOK, IDs
    <2>2. current[w] = c /\ c # 0
      BY <1>0, OutboxAssumption DEF IDs, c
    <2> QED
      BY <1>0, <2>1, <2>2 DEF Committed, Unsent, TopicOfRow, LockInv, HoldersInv
  <1>2. RowsInv'
    BY <1>0 DEF LockInv, RowsInv, Unsent
  <1>3. CandidatesInv'
    BY <1>0, <1>1 DEF LockInv, CandidatesInv, OutboxTypeOK
  <1>4. HoldersInv'
    <2>1. ASSUME NEW v \in Workers
          PROVE  /\ current'[v] # 0 <=> pc'[v] \in {"write", "writing", "written", "error"}
                 /\ current'[v] # 0 => Unsent(current[v])' /\ current'[v] = current[v]
      BY <1>0, <1>1 DEF LockInv, HoldersInv
    <2>2. ASSUME NEW u \in Workers, NEW v \in Workers, current'[v] # 0, u # v
          PROVE  current'[u] # current'[v]
      BY <1>0, <2>2 DEF LockInv, HoldersInv
    <2> QED
      BY <2>1, <2>2 DEF HoldersInv, Unsent
  <1>5. QueueInv'
    <2>1. \A t \in Topics : \A n \in 1..Len(writerQueue[t]) : writerQueue[t][n].id # c
      BY <1>0, <1>1 DEF LockInv, WrittenInv
    <2>2. \A t \in Topics : \A n \in 1..Len(writerQueue[t]) : writerQueue[t][n].by # w
      BY <1>0, OutboxAssumption DEF LockInv, QueueInv
    <2> QED
      BY <1>0, <1>1, <2>1, <2>2, QueuedTypes DEF LockInv, QueueInv
  <1>6. WrittenInv'
    <2>1. SUFFICES ASSUME NEW v \in Workers, pc'[v] = "written"
                   PROVE  /\ v # w /\ current[v] \in IDs
                          /\ \A t \in Topics : \A n \in 1..Len(writerQueue[t]) :
                                writerQueue[t][n].id # current[v]
                          /\ AckedWrites => current[v] \in InLog(TopicOfRow(current[v]))
      BY <1>0, <1>1 DEF WrittenInv, InLog
    <2> QED
      BY <1>0, <1>1, <2>1 DEF LockInv, WrittenInv, HoldersInv
  <1>7. LogInv'
    BY <1>0, <1>1, LogTypes DEF LockInv, LogInv, InLog
  <1>8. AckedWrites => SentIsInLog'
    BY <1>0, <1>1 DEF LockInv, SentIsInLog, WrittenInv, InLog
  <1> QED
    BY <1>2, <1>3, <1>4, <1>5, <1>6, <1>7, <1>8 DEF LockInv

LEMMA LockWrite ==
  ASSUME OutboxTypeOK, LockInv, NEW w \in Workers, WriteMessages(w)
  PROVE  LockInv'
  <1> DEFINE c == current[w]
             m == [id |-> c, by |-> w]
             t == TopicOfRow(c)
             q == writerQueue[t]
  <1>1. /\ c \in IDs /\ Unsent(c) /\ pc[w] = "write"
        /\ \A v \in Workers : v # w => current[v] # c
        /\ pc'[w] = "writing" /\ \A v \in Workers : v # w => pc'[v] = pc[v]
        /\ UNCHANGED <<outbox, nextID, candidates, current, log>>
    BY OutboxAssumption DEF WriteMessages, LockInv, HoldersInv, OutboxTypeOK, IDs
  <1>2. /\ t \in Topics /\ m \in QueuedWrite /\ m.id = c /\ m.by = w /\ w # NoWorker
        /\ writerQueue' = [writerQueue EXCEPT ![t] = Append(writerQueue[t], m)]
    BY <1>1, RowTopic, OutboxAssumption DEF WriteMessages, QueuedWrite
  <1> HIDE DEF c, m, t
  <1>3. /\ Len(q) \in Nat /\ Len(writerQueue'[t]) = Len(q) + 1 /\ writerQueue'[t][Len(q) + 1] = m
        /\ \A n \in 1..Len(q) : writerQueue'[t][n] = q[n]
        /\ \A u \in Topics \ {t} : writerQueue'[u] = writerQueue[u]
    BY <1>2, AppendTo, TypeByParts DEF Typed
  <1>4. \A u \in Topics : \A n \in 1..Len(writerQueue'[u]) :
           \/ u = t /\ n = Len(q) + 1 /\ writerQueue'[u][n] = m
           \/ n \in 1..Len(writerQueue[u]) /\ writerQueue'[u][n] = writerQueue[u][n]
    BY <1>3
  <1>5. RowsInv' /\ CandidatesInv' /\ LogInv' /\ (AckedWrites => SentIsInLog')
    BY <1>1 DEF LockInv, RowsInv, CandidatesInv, LogInv, SentIsInLog, InLog, Committed, TopicOfRow
  <1>6. HoldersInv'
    BY <1>1 DEF LockInv, HoldersInv, Unsent
  <1>7. QueueInv'
    <2>1. SUFFICES ASSUME NEW u \in Topics, NEW n \in 1..Len(writerQueue'[u])
                   PROVE  LET x == writerQueue'[u][n]
                          IN  /\ Unsent(x.id) /\ TopicOfRow(x.id) = u
                              /\ x.by # NoWorker =>
                                    /\ pc'[x.by] = "writing" /\ current[x.by] = x.id
                                    /\ \A k \in 1..Len(writerQueue'[u]) :
                                          k > n => writerQueue'[u][k].id # x.id
      BY <1>1 DEF QueueInv, Unsent, TopicOfRow
    <2>2. CASE u = t /\ n = Len(q) + 1
      BY <1>1, <1>2, <1>3, <2>2 DEF c, t
    <2>3. CASE n \in 1..Len(writerQueue[u]) /\ writerQueue'[u][n] = writerQueue[u][n]
      <3> DEFINE x == writerQueue[u][n]
      <3>1. x.by \in Workers \cup {NoWorker}
        BY <2>3, QueuedTypes
      <3>2. /\ Unsent(x.id) /\ TopicOfRow(x.id) = u
            /\ x.by # NoWorker => /\ pc[x.by] = "writing" /\ current[x.by] = x.id
                                  /\ \A k \in 1..Len(writerQueue[u]) : k > n => writerQueue[u][k].id # x.id
        BY <2>3 DEF LockInv, QueueInv
      <3>3. x.by # NoWorker => x.by # w /\ pc'[x.by] = "writing" /\ x.id # c
        BY <1>1, <3>1, <3>2
      <3>4. ASSUME x.by # NoWorker, NEW k \in 1..Len(writerQueue'[u]), k > n
            PROVE  writerQueue'[u][k].id # x.id
        BY <1>2, <1>4, <3>2, <3>3, <3>4
      <3> QED
        BY <2>3, <3>2, <3>3, <3>4
    <2> QED
      BY <1>4, <2>2, <2>3
  <1>8. WrittenInv'
    <2>1. \A v \in Workers : pc'[v] = "written" => pc[v] = "written" /\ current[v] # c
      BY <1>1
    <2> QED
      BY <1>1, <1>2, <1>4, <2>1 DEF LockInv, WrittenInv, InLog, TopicOfRow
  <1> QED
    BY <1>5, <1>6, <1>7, <1>8 DEF LockInv

LEMMA LockTimeout ==
  ASSUME OutboxTypeOK, LockInv, NEW w \in Workers, WriteTimeout(w)
  PROVE  LockInv'
  <1>1. /\ pc[w] = "writing" /\ pc'[w] = "error" /\ \A v \in Workers : v # w => pc'[v] = pc[v]
        /\ UNCHANGED <<outbox, nextID, candidates, current, log>>
    BY DEF WriteTimeout, OutboxTypeOK
  <1>2. \A t \in Topics :
           /\ Len(writerQueue'[t]) = Len(writerQueue[t])
           /\ \A n \in 1..Len(writerQueue[t]) :
                 /\ writerQueue'[t][n].id = writerQueue[t][n].id
                 /\ writerQueue'[t][n].by = IF writerQueue[t][n].by = w THEN NoWorker
                                            ELSE writerQueue[t][n].by
    BY TimeoutKeepsQueues
  <1>3. RowsInv' /\ CandidatesInv' /\ LogInv' /\ (AckedWrites => SentIsInLog')
    BY <1>1 DEF LockInv, RowsInv, CandidatesInv, LogInv, SentIsInLog, InLog, Committed, TopicOfRow
  <1>4. HoldersInv'
    BY <1>1 DEF LockInv, HoldersInv, Unsent
  <1>5. QueueInv'
    BY <1>1, <1>2, QueuedTypes DEF LockInv, QueueInv, Unsent, TopicOfRow
  <1>6. WrittenInv'
    BY <1>1, <1>2 DEF LockInv, WrittenInv, InLog, TopicOfRow
  <1> QED
    BY <1>3, <1>4, <1>5, <1>6 DEF LockInv

\* The writer takes the first write of t and, unless nobody waits for it, lets its worker go
\* on in state st; the write is not queued a second time then.
LEMMA LockTake ==
  ASSUME OutboxTypeOK, LockInv, NEW t \in Topics, NEW st \in {"written", "error"},
         writerQueue[t] # << >>, writerQueue' = [writerQueue EXCEPT ![t] = Tail(@)],
         Resume(t, st), UNCHANGED <<outbox, nextID, candidates, current>>
  PROVE  LET h == Head(writerQueue[t])
         IN  /\ RowsInv' /\ CandidatesInv' /\ HoldersInv' /\ QueueInv'
             /\ h.id \in IDs /\ Unsent(h.id) /\ TopicOfRow(h.id) = t
             /\ \A v \in Workers : pc'[v] = "written" =>
                   /\ current[v] \in IDs
                   /\ \A u \in Topics : \A n \in 1..Len(writerQueue'[u]) :
                         writerQueue'[u][n].id # current[v]
                   /\ pc[v] = "written" \/ (st = "written" /\ current[v] = h.id)
  <1> DEFINE h == Head(writerQueue[t])
  <1>1. /\ h = writerQueue[t][1] /\ 1 \in 1..Len(writerQueue[t])
        /\ Len(writerQueue'[t]) = Len(writerQueue[t]) - 1
        /\ \A n \in 1..Len(writerQueue'[t]) :
               n + 1 \in 1..Len(writerQueue[t]) /\ writerQueue'[t][n] = writerQueue[t][n + 1]
        /\ \A u \in Topics \ {t} : writerQueue'[u] = writerQueue[u]
    BY TakeWrite
  <1>2. \A v \in Workers : pc'[v] = IF v = h.by THEN st ELSE pc[v]
    BY DEF Resume
  <1>3. h.id \in IDs /\ h.by \in Workers \cup {NoWorker}
    BY <1>1, QueuedTypes
  <1> HIDE DEF h
  <1>4. /\ Unsent(h.id) /\ TopicOfRow(h.id) = t
        /\ h.by # NoWorker => /\ pc[h.by] = "writing" /\ current[h.by] = h.id
                              /\ \A k \in 1..Len(writerQueue[t]) : k > 1 => writerQueue[t][k].id # h.id
    BY <1>1 DEF LockInv, QueueInv
  <1>5. h.by # NoWorker =>
           \A u \in Topics : \A n \in 1..Len(writerQueue'[u]) : writerQueue'[u][n].id # h.id
    <2>1. SUFFICES ASSUME h.by # NoWorker, NEW u \in Topics, NEW n \in 1..Len(writerQueue'[u])
                   PROVE  writerQueue'[u][n].id # h.id
      OBVIOUS
    <2>2. CASE u = t
      BY <1>1, <1>4, <2>1, <2>2
    <2>3. CASE u # t
      <3>1. TopicOfRow(writerQueue'[u][n].id) = u
        BY <1>1, <2>3 DEF LockInv, QueueInv
      <3> QED
        BY <1>4, <2>3, <3>1
    <2> QED
      BY <2>2, <2>3
  <1>6. RowsInv' /\ CandidatesInv'
    BY DEF LockInv, RowsInv, CandidatesInv, Committed
  <1>7. HoldersInv'
    BY <1>2, <1>4, OutboxAssumption DEF LockInv, HoldersInv, Unsent
  <1>8. QueueInv'
    <2>1. ASSUME NEW u \in Topics, NEW n \in 1..Len(writerQueue'[u])
          PROVE  /\ Unsent(writerQueue'[u][n].id) /\ TopicOfRow(writerQueue'[u][n].id) = u
                 /\ writerQueue'[u][n].by # NoWorker =>
                       /\ pc'[writerQueue'[u][n].by] = "writing"
                       /\ current[writerQueue'[u][n].by] = writerQueue'[u][n].id
                       /\ \A k \in 1..Len(writerQueue'[u]) :
                             k > n => writerQueue'[u][k].id # writerQueue'[u][n].id
      <3>2. PICK o \in 1..Len(writerQueue[u]) :
              /\ writerQueue'[u][n] = writerQueue[u][o]
              /\ \A k \in 1..Len(writerQueue'[u]) : k > n =>
                    \E j \in 1..Len(writerQueue[u]) : j > o /\ writerQueue[u][j] = writerQueue'[u][k]
        <4>1. CASE u = t
          BY <1>1, <4>1
        <4>2. CASE u # t
          BY <1>1, <4>2
        <4> QED
          BY <4>1, <4>2
      <3> DEFINE y == writerQueue[u][o]
      <3>3. y.by \in Workers \cup {NoWorker}
        BY QueuedTypes
      <3>4. /\ Unsent(y.id) /\ TopicOfRow(y.id) = u
            /\ y.by # NoWorker =>
                  /\ pc[y.by] = "writing" /\ current[y.by] = y.id
                  /\ \A k \in 1..Len(writerQueue[u]) : k > o => writerQueue[u][k].id # y.id
        BY DEF LockInv, QueueInv
      <3>5. ASSUME y.by # NoWorker PROVE pc'[y.by] = "writing"
        <4>1. y.by # h.by
          BY <1>4, <1>5, <3>2, <3>4, <3>5
        <4> QED
          BY <1>2, <3>3, <3>4, <3>5, <4>1
      <3>6. ASSUME y.by # NoWorker, NEW k \in 1..Len(writerQueue'[u]), k > n
            PROVE  writerQueue'[u][k].id # y.id
        BY <3>2, <3>4, <3>6
      <3> QED
        BY <3>2, <3>4, <3>5, <3>6
    <2>2. UNCHANGED <<outbox, current>>
      OBVIOUS
    <2> QED
      BY ONLY <2>1, <2>2 DEF QueueInv, Unsent, TopicOfRow
  <1>9. ASSUME NEW v \in Workers, pc'[v] = "written"
        PROVE  /\ current[v] \in IDs
               /\ \A u \in Topics : \A n \in 1..Len(writerQueue'[u]) : writerQueue'[u][n].id # current[v]
               /\ pc[v] = "written" \/ (st = "written" /\ current[v] = h.id)
    <2>1. CASE v = h.by
      <3>1. h.by # NoWorker /\ current[v] = h.id /\ st = "written"
        BY <1>2, <1>4, <1>9, <2>1, OutboxAssumption
      <3> QED
        BY <1>3, <1>5, <3>1
    <2>2. CASE v # h.by
      <3>1. pc[v] = "written" /\ current[v] \in IDs
        BY <1>2, <1>9, <2>2, OutboxAssumption DEF LockInv, HoldersInv, OutboxTypeOK, IDs
      <3>2. \A u \in Topics : \A n \in 1..Len(writerQueue'[u]) : writerQueue'[u][n].id # current[v]
        BY <1>1, <3>1 DEF LockInv, WrittenInv
      <3> QED
        BY <3>1, <3>2
    <2> QED
      BY <2>1, <2>2
  <1> QED
    BY <1>3, <1>4, <1>6, <1>7, <1>8, <1>9 DEF h

\* A write that is given up leaves the log as it is.
LEMMA LockDrop ==
  ASSUME OutboxTypeOK, LockInv, NEW t \in Topics, DropWrite(t)
  PROVE  LockInv'
  <1>1. PICK st \in {"written", "error"} :
           /\ Resume(t, st) /\ (AckedWrites => st = "error")
           /\ writerQueue[t] # << >> /\ writerQueue' = [writerQueue EXCEPT ![t] = Tail(@)]
           /\ UNCHANGED <<outbox, nextID, candidates, current, log>>
    BY DEF DropWrite
  <1>2. RowsInv' /\ CandidatesInv' /\ HoldersInv' /\ QueueInv'
    BY <1>1, LockTake
  <1>3. \A v \in Workers : pc'[v] = "written" =>
           /\ \A u \in Topics : \A n \in 1..Len(writerQueue'[u]) : writerQueue'[u][n].id # current[v]
           /\ AckedWrites => pc[v] = "written"
    BY <1>1, LockTake
  <1>4. WrittenInv'
    BY <1>1, <1>3, ZenonT(60) DEF LockInv, WrittenInv, InLog, TopicOfRow
  <1>5. LogInv' /\ (AckedWrites => SentIsInLog')
    BY <1>1 DEF LockInv, LogInv, SentIsInLog, InLog, Committed, TopicOfRow
  <1> QED
    BY <1>2, <1>4, <1>5 DEF LockInv

\* The log of t afterwards.
LEMMA FlushedLog ==
  ASSUME OutboxTypeOK, NEW t \in Topics, NEW i \in IDs, log' = [log EXCEPT ![t] = Append(@, i)]
  PROVE  /\ Len(log[t]) \in Nat /\ Len(log'[t]) = Len(log[t]) + 1 /\ log'[t][Len(log[t]) + 1] = i
         /\ \A n \in 1..Len(log[t]) : log'[t][n] = log[t][n]
         /\ \A u \in Topics \ {t} : log'[u] = log[u]
         /\ \A u \in Topics : { log'[u][n] : n \in 1..Len(log'[u]) } = InLog(u) \cup (IF u = t THEN {i} ELSE {})
  <1>1. log \in [Topics -> Seq(IDs)]
    BY TypeByParts DEF Typed
  <1>2. /\ Len(log[t]) \in Nat /\ Len(log'[t]) = Len(log[t]) + 1 /\ log'[t][Len(log[t]) + 1] = i
        /\ \A n \in 1..Len(log[t]) : log'[t][n] = log[t][n]
        /\ \A u \in Topics \ {t} : log'[u] = log[u]
    BY <1>1, AppendTo
  <1>3. \A u \in Topics : { log'[u][n] : n \in 1..Len(log'[u]) } = InLog(u) \cup (IF u = t THEN {i} ELSE {})
    <2>1. SUFFICES ASSUME NEW u \in Topics 
                   PROVE  { log'[u][n] : n \in 1..Len(log'[u]) } = InLog(u) \cup (IF u = t THEN {i} ELSE {})
      OBVIOUS
    <2>2. CASE u = t
      <3>1. \A n \in 1..Len(log'[t]) : n \in 1..Len(log[t]) \/ n = Len(log[t]) + 1
        BY <1>2
      <3>2. 1..Len(log[t]) \subseteq 1..Len(log'[t]) /\ Len(log[t]) + 1 \in 1..Len(log'[t])
        BY <1>2
      <3> QED
        BY <1>2, <2>2, <3>1, <3>2 DEF InLog
    <2>3. CASE u # t
      BY <1>2, <2>3 DEF InLog
    <2> QED
      BY <2>2, <2>3
  <1> QED
    BY <1>2, <1>3

LEMMA LockFlush ==
  ASSUME OutboxTypeOK, LockInv, NEW t \in Topics, FlushWrite(t)
  PROVE  LockInv'
  <1> DEFINE h == Head(writerQueue[t])
             M(u) == InLog(u) \cup (IF u = t THEN {h.id} ELSE {})
  <1>1. /\ writerQueue[t] # << >> /\ writerQueue' = [writerQueue EXCEPT ![t] = Tail(@)]
        /\ Resume(t, "written") /\ UNCHANGED <<outbox, nextID, candidates, current>>
        /\ log' = [log EXCEPT ![t] = Append(@, h.id)]
    BY DEF FlushWrite
  <1>2. RowsInv' /\ CandidatesInv' /\ HoldersInv' /\ QueueInv'
    BY <1>1, LockTake
  <1>3. h.id \in IDs /\ Unsent(h.id) /\ TopicOfRow(h.id) = t
    BY <1>1, LockTake
  <1>4. \A v \in Workers : pc'[v] = "written" =>
           /\ current[v] \in IDs
           /\ \A u \in Topics : \A n \in 1..Len(writerQueue'[u]) : writerQueue'[u][n].id # current[v]
           /\ pc[v] = "written" \/ current[v] = h.id
    BY <1>1, LockTake
  <1>5. \A u \in Topics : M(u) = { log'[u][n] : n \in 1..Len(log'[u]) }
    BY <1>1, <1>3, FlushedLog, ZenonT(60)
  <1>6. \A i \in IDs : M(TopicOfRow(i)) =
           { log'[TopicOfRow(i)][n] : n \in 1..Len(log'[TopicOfRow(i)]) }
    BY <1>5, RowTopic
  <1>7. WrittenInv'
    <2>1. \A v \in Workers : (pc'[v] = "written" /\ AckedWrites) => current[v] \in M(TopicOfRow(current[v]))
      BY <1>3, <1>4 DEF LockInv, WrittenInv
    <2> HIDE DEF M
    <2>2. \A v \in Workers : (pc'[v] = "written" /\ AckedWrites) =>
             current[v] \in { log'[TopicOfRow(current[v])][n] : n \in 1..Len(log'[TopicOfRow(current[v])]) }
      BY <1>4, <1>6, <2>1
    <2>3. UNCHANGED <<outbox, current>>
      BY <1>1
    <2> QED
      BY ONLY <1>4, <2>2, <2>3 DEF WrittenInv, InLog, TopicOfRow
  <1>8. LogInv'
    <2>1. \A u \in Topics : \A i \in M(u) : Committed(i) /\ TopicOfRow(i) = u
      BY <1>3 DEF LockInv, LogInv, Committed, Unsent
    <2> HIDE DEF M
    <2> QED
      BY <1>1, <1>5, <2>1 DEF LogInv, Committed, TopicOfRow, InLog
  <1>9. AckedWrites => SentIsInLog'
    <2>1. AckedWrites => \A i \in IDs : outbox[i].status = "sent" => i \in M(TopicOfRow(i))
      BY DEF LockInv, SentIsInLog
    <2> HIDE DEF M
    <2> QED
      BY <1>1, <1>6, <2>1 DEF SentIsInLog, TopicOfRow, InLog
  <1> QED
    BY <1>2, <1>7, <1>8, <1>9 DEF LockInv

LEMMA LockCrash == ASSUME OutboxTypeOK, LockInv, Crash PROVE LockInv'
  <1>1. /\ pc' = [w \in Workers |-> "idle"] /\ candidates' = [w \in Workers |-> {}]
        /\ current' = [w \in Workers |-> 0] /\ writerQueue' = [t \in Topics |-> << >>]
        /\ UNCHANGED <<nextID, log>>
    BY DEF Crash
  <1>2. RowsInv'
    BY <1>1, CrashRows DEF LockInv, RowsInv
  <1>3. \A i \in IDs : /\ outbox'[i].seg = outbox[i].seg /\ (Committed(i) => outbox'[i] = outbox[i])
                       /\ outbox'[i].status = "sent" => outbox[i].status = "sent"
    BY CrashRows DEF LockInv, RowsInv, Committed
  <1>4. CandidatesInv' /\ HoldersInv' /\ WrittenInv'
    BY <1>1 DEF CandidatesInv, HoldersInv, WrittenInv
  <1>5. QueueInv'
    BY <1>1 DEF QueueInv
  <1>6. LogInv'
    BY <1>1, <1>3, LogTypes DEF LockInv, LogInv, InLog, Committed, TopicOfRow
  <1>7. AckedWrites => SentIsInLog'
    BY <1>1, <1>3 DEF LockInv, SentIsInLog, InLog, TopicOfRow
  <1> QED
    BY <1>2, <1>4, <1>5, <1>6, <1>7 DEF LockInv

LEMMA LockNextStep ==
  ASSUME OutboxTypeOK, LockInv, [OutboxNext]_outboxVars
  PROVE  OutboxTypeOK' /\ LockInv'
  <1>1. OutboxTypeOK'
    BY TypeNext DEF LockInv
  <1>2. CASE UNCHANGED outboxVars
    <2>1. UNCHANGED outboxVars => UNCHANGED <<RowsInv, CandidatesInv, HoldersInv>>
      BY DEF outboxVars, RowsInv, CandidatesInv, HoldersInv, Committed, Unsent
    <2>2. UNCHANGED outboxVars => UNCHANGED <<QueueInv, WrittenInv>>
      BY DEF outboxVars, QueueInv, WrittenInv, InLog, Unsent, TopicOfRow
    <2>3. UNCHANGED outboxVars => UNCHANGED <<LogInv, SentIsInLog>>
      BY DEF outboxVars, LogInv, SentIsInLog, Committed, InLog, TopicOfRow
    <2> QED
      BY <1>1, <1>2, <2>1, <2>2, <2>3 DEF LockInv
  <1> QED
    BY <1>1, <1>2, LockAdd, LockEnd, LockQuery, LockLockNext, LockWrite, LockMark, LockRelease,
       LockTimeout, LockDrop, LockFlush, LockCrash
    DEF OutboxNext, PumpOutgoing, CommitProducerTx, RollbackProducerTx

-----------------------------------------------------------------------------
(* Theorems without an assumption on the producers.                        *)

LEMMA LockInvariant == OutboxSpec => [](OutboxTypeOK /\ LockInv)
  <1>1. OutboxInit => OutboxTypeOK /\ LockInv
    BY TypeInit, LockInit
  <1>2. OutboxTypeOK /\ LockInv /\ [OutboxNext]_outboxVars => (OutboxTypeOK /\ LockInv)'
    BY LockNextStep
  <1> QED
    BY <1>1, <1>2, PTL DEF OutboxSpec

\* Every reachable state is well typed: rows move only between the statuses the table allows,
\* and only rows that exist are locked, queued or logged.
THEOREM OutboxTypeCorrect == OutboxSpec => []OutboxTypeOK
  BY LockInvariant, PTL

\* No event leaves the service unless its transaction committed, however transactions, workers,
\* timeouts and crashes interleave.
THEOREM OnlyCommittedLeaveCorrect == OutboxSpec => []OnlyCommittedLeave
  <1>1. OutboxTypeOK /\ LockInv => OnlyCommittedLeave
    BY DEF LockInv, LogInv, QueueInv, OnlyCommittedLeave, Unsent, Committed
  <1> QED
    BY <1>1, LockInvariant, PTL

\* If the broker confirms its writes, an event is marked as sent only when Kafka holds it.
THEOREM SentIsInLogCorrect == ASSUME AckedWrites PROVE OutboxSpec => []SentIsInLog
  <1>1. OutboxTypeOK /\ LockInv => SentIsInLog
    BY DEF LockInv
  <1> QED
    BY <1>1, LockInvariant, PTL
-----------------------------------------------------------------------------
(* What is added by producers that lock their entity's row.                *)

LEMMA OrderInit == OutboxInit => OrderInv
  <1> SUFFICES ASSUME OutboxInit PROVE OrderInv
    OBVIOUS
  <1>1. OpenRowsInv /\ SegmentsSorted
    BY DEF OutboxInit, OpenRowsInv, SegmentsSorted
  <1>2. ChosenInv
    BY OutboxAssumption DEF OutboxInit, ChosenInv, Chosen, InLog, IDs
  <1> QED
    BY <1>1, <1>2 DEF OrderInv

\* No step touches a used row but by moving it on.
LEMMA RowsAreKept ==
  ASSUME OutboxTypeOK, LockInv, [OutboxNext]_outboxVars
  PROVE  RowsKept
  <1>1. ASSUME NEW p \in Producers, NEW s \in Segments, AddOutboxMessages(p, s)
        PROVE  RowsKept
    <2>1. outbox[nextID].status = "free"
      BY <1>1, InsertRow DEF LockInv, RowsInv, IDs
    <2> QED
      BY <1>1, <2>1, InsertRow DEF RowsKept, Committed, Done
  <1>2. ASSUME NEW p \in Producers, NEW st \in {"pending", "void"}, EndProducerTx(p, st)
        PROVE  RowsKept
    <2>1. \A i \in IDs : outbox[i].by = p => outbox[i].status = "open"
      BY OutboxAssumption DEF LockInv, RowsInv
    <2> QED
      BY <1>2, <2>1, EndProducer DEF RowsKept, Committed, Done
  <1>3. ASSUME NEW w \in Workers, MarkSent(w)
        PROVE  RowsKept
    BY <1>3, MarkRow DEF LockInv, RowsKept, Committed, Done
  <1>4. ASSUME Crash
        PROVE  RowsKept
    <2>1. \A i \in IDs : outbox[i].by # NoProducer => outbox[i].status = "open"
      BY DEF LockInv, RowsInv
    <2> QED
      BY <1>4, <2>1, CrashRows DEF RowsKept, Committed, Done
  <1>5. ASSUME UNCHANGED outbox
        PROVE  RowsKept
    BY <1>5, TypeByParts DEF Typed, RowsKept, Committed, Done
  <1>6. ASSUME NEW w \in Workers, PumpOutgoing(w) \/ CommitFails(w) \/ WriteTimeout(w)
        PROVE  MarkSent(w) \/ UNCHANGED outbox
    BY <1>6 DEF PumpOutgoing, QueryPossibleNext, LockNext, WriteMessages, Rollback, CommitFails, WriteTimeout
  <1>7. ASSUME NEW t \in Topics, FlushWrite(t) \/ DropWrite(t)
        PROVE  UNCHANGED outbox
    BY <1>7 DEF FlushWrite, DropWrite
  <1> QED
    BY <1>1, <1>2, <1>3, <1>4, <1>5, <1>6, <1>7
    DEF OutboxNext, outboxVars, CommitProducerTx, RollbackProducerTx

\* Once everything before a used row is done, it stays so: new rows have greater ids.
LEMMA PredecessorsStayDone ==
  ASSUME OutboxTypeOK, RowsInv, RowsKept, NEW i \in IDs, outbox[i].status # "free",
         PredecessorsDone(i)
  PROVE  PredecessorsDone(i)'
  <1>1. \A j \in IDs : j < i => outbox[j].status # "free"
    BY TypeByParts, OutboxAssumption DEF Typed, RowsInv, IDs
  <1> QED
    BY <1>1 DEF PredecessorsDone, RowsKept

\* The oldest unsent row has nothing but ended and sent rows before it: an open row would be
\* of a transaction that also inserted the later one.
LEMMA OldestHasPredecessorsDone ==
  ASSUME OutboxTypeOK, RowsInv, OpenRowsInv, NEW i \in OldestUnsent
  PROVE  i \in IDs /\ Committed(i) /\ PredecessorsDone(i)
  <1>1. i \in IDs /\ Unsent(i) /\ \A j \in IDs : (Unsent(j) /\ outbox[j].seg = outbox[i].seg) => i <= j
    BY DEF OldestUnsent
  <1>2. ASSUME NEW j \in IDs, j < i, outbox[j].seg = outbox[i].seg
        PROVE  Done(j)
    <2>1. outbox[j].status \in RowStatus
      BY TypeByParts DEF Typed, Row
    <2>2. outbox[j].status # "free"
      BY <1>1, <1>2, OutboxAssumption DEF RowsInv, Unsent, OutboxTypeOK, IDs
    <2>3. outbox[j].status # "pending"
      BY <1>1, <1>2, OutboxAssumption DEF Unsent, IDs
    <2>4. outbox[j].status # "open"
      BY <1>1, <1>2 DEF RowsInv, OpenRowsInv, Unsent
    <2> QED
      BY <2>1, <2>2, <2>3, <2>4 DEF RowStatus, Done
  <1> QED
    BY <1>1, <1>2 DEF PredecessorsDone, Committed, Unsent

LEMMA ChosenAreCommitted ==
  ASSUME OutboxTypeOK, LockInv, NEW i \in IDs, Chosen(i)
  PROVE  Committed(i)
  <1>1. ASSUME NEW w \in Workers, i \in candidates[w] \/ current[w] = i
        PROVE  Committed(i)
    BY <1>1, OutboxAssumption DEF LockInv, CandidatesInv, HoldersInv, Unsent, Committed, IDs
  <1>2. ASSUME NEW t \in Topics, i \in InLog(t) \/ \E n \in 1..Len(writerQueue[t]) : writerQueue[t][n].id = i
        PROVE  Committed(i)
    BY <1>2 DEF LockInv, QueueInv, LogInv, Unsent, Committed
  <1> QED
    BY <1>1, <1>2 DEF Chosen

\* A worker gets at no row but by its first query.
LEMMA ChosenOnlyByQuery ==
  ASSUME OutboxTypeOK, LockInv, [OutboxNext]_outboxVars, NEW i \in IDs, Chosen(i)'
  PROVE  Chosen(i) \/ i \in OldestUnsent
  <1> USE DEF workerVars
  <1>1. CASE UNCHANGED <<candidates, current, writerQueue, log>>
    BY <1>1 DEF Chosen, InLog
  <1>2. ASSUME NEW w \in Workers, QueryPossibleNext(w)
        PROVE  Chosen(i) \/ i \in OldestUnsent
    <2>1. \A v \in Workers : candidates'[v] = candidates[v] \/ candidates'[v] = OldestUnsent
      BY <1>2 DEF QueryPossibleNext, OutboxTypeOK
    <2> QED
      BY <1>2, <2>1 DEF QueryPossibleNext, Chosen, InLog
  <1>3. ASSUME NEW w \in Workers, LockNext(w)
        PROVE  Chosen(i)
    <2>1. \A v \in Workers : candidates'[v] \subseteq candidates[v]
      BY <1>3 DEF LockNext, OutboxTypeOK
    <2>2. \A v \in Workers : current'[v] = current[v] \/ current'[v] \in candidates[v]
      BY <1>3 DEF LockNext, Lockable, OutboxTypeOK
    <2> QED
      BY <1>3, <2>1, <2>2 DEF LockNext, Chosen, InLog
  <1>4. ASSUME NEW w \in Workers, WriteMessages(w)
        PROVE  Chosen(i)
    <2> DEFINE m == [id |-> current[w], by |-> w]
               t == TopicOfRow(current[w])
    <2>1. m \in QueuedWrite /\ t \in Topics /\ m.id = current[w]
      <3>1. current[w] \in IDs
        BY <1>4, OutboxAssumption DEF WriteMessages, LockInv, HoldersInv, OutboxTypeOK, IDs
      <3> QED
        BY <3>1, RowTopic DEF QueuedWrite
    <2>2. writerQueue' = [writerQueue EXCEPT ![t] = Append(writerQueue[t], m)]
      BY <1>4 DEF WriteMessages
    <2>3. UNCHANGED <<candidates, current, log>>
      BY <1>4 DEF WriteMessages
    <2> HIDE DEF m, t
    <2>4. \A u \in Topics : \A n \in 1..Len(writerQueue'[u]) :
             writerQueue'[u][n] = m \/ \E k \in 1..Len(writerQueue[u]) : writerQueue[u][k] = writerQueue'[u][n]
      <3>1. \A u \in Topics \ {t} : writerQueue'[u] = writerQueue[u]
        BY <2>1, <2>2, AppendTo, TypeByParts DEF Typed
      <3>2. /\ Len(writerQueue[t]) \in Nat /\ Len(writerQueue'[t]) = Len(writerQueue[t]) + 1
            /\ writerQueue'[t][Len(writerQueue[t]) + 1] = m
            /\ \A n \in 1..Len(writerQueue[t]) : writerQueue'[t][n] = writerQueue[t][n]
        BY <2>1, <2>2, AppendTo, TypeByParts DEF Typed
      <3>3. \A n \in 1..Len(writerQueue'[t]) : n \in 1..Len(writerQueue[t]) \/ n = Len(writerQueue[t]) + 1
        BY <3>2
      <3> QED
        BY <3>1, <3>2, <3>3
    <2> QED
      BY <2>1, <2>3, <2>4 DEF Chosen, InLog
  <1>5. ASSUME NEW w \in Workers, UNCHANGED <<candidates, writerQueue, log>>, EndWorkerTx(w)
        PROVE  Chosen(i)
    <2>1. \A v \in Workers : current'[v] = current[v] \/ current'[v] = 0
      BY <1>5 DEF EndWorkerTx, OutboxTypeOK
    <2>2. i # 0
      BY OutboxAssumption DEF IDs
    <2> QED
      BY <1>5, <2>1, <2>2 DEF Chosen, InLog
  <1>6. ASSUME NEW w \in Workers, WriteTimeout(w)
        PROVE  Chosen(i)
    <2>1. UNCHANGED <<candidates, current, log>>
      BY <1>6 DEF WriteTimeout
    <2> QED
      BY <1>6, <2>1, TimeoutKeepsQueues DEF Chosen, InLog
  <1>7. ASSUME NEW t \in Topics, FlushWrite(t) \/ DropWrite(t)
        PROVE  Chosen(i)
    <2>1. /\ writerQueue[t] # << >> /\ writerQueue' = [writerQueue EXCEPT ![t] = Tail(@)]
          /\ UNCHANGED <<candidates, current>>
          /\ UNCHANGED log \/ log' = [log EXCEPT ![t] = Append(@, Head(writerQueue[t]).id)]
      BY <1>7 DEF FlushWrite, DropWrite
    <2>2. \A u \in Topics : \A n \in 1..Len(writerQueue'[u]) :
             \E k \in 1..Len(writerQueue[u]) : writerQueue[u][k] = writerQueue'[u][n]
      BY <2>1, TakeWrite
    <2>3. /\ Head(writerQueue[t]).id \in IDs
          /\ \E k \in 1..Len(writerQueue[t]) : writerQueue[t][k].id = Head(writerQueue[t]).id
      BY <2>1, TakeWrite DEF QueuedWrite
    <2>4. \A u \in Topics : { log'[u][n] : n \in 1..Len(log'[u]) }
                               \subseteq InLog(u) \cup (IF u = t THEN {Head(writerQueue[t]).id} ELSE {})
      <3>1. CASE UNCHANGED log
        BY <3>1 DEF InLog
      <3>2. CASE log' = [log EXCEPT ![t] = Append(@, Head(writerQueue[t]).id)]
        BY <2>3, <3>2, FlushedLog
      <3> QED
        BY <2>1, <3>1, <3>2
    <2>5. UNCHANGED candidates /\ UNCHANGED current /\ t \in Topics
      BY <2>1
    <2>6. \A u \in Topics : i \in { log'[u][n] : n \in 1..Len(log'[u]) } => Chosen(i)
      BY <2>3, <2>4 DEF Chosen
    <2>7. \A u \in Topics : \A n \in 1..Len(writerQueue'[u]) : writerQueue'[u][n].id = i => Chosen(i)
      BY <2>2 DEF Chosen
    <2>8. \A v \in Workers : (i \in candidates'[v] \/ current'[v] = i) => Chosen(i)
      BY <2>5 DEF Chosen
    <2> QED
      BY <2>6, <2>7, <2>8 DEF Chosen, InLog
  <1>8. CASE Crash
    BY <1>8, OutboxAssumption DEF Crash, Chosen, InLog, IDs
  <1> QED
    BY <1>1, <1>2, <1>3, <1>4, <1>5, <1>6, <1>7, <1>8
    DEF OutboxNext, outboxVars, PumpOutgoing, AddOutboxMessages, CommitProducerTx, RollbackProducerTx,
        EndProducerTx, MarkSent, Rollback, CommitFails

LEMMA OpenRowsNext ==
  ASSUME RowLocks, OutboxTypeOK, LockInv, OpenRowsInv, [OutboxNext]_outboxVars
  PROVE  OpenRowsInv'
  <1>1. ASSUME NEW p \in Producers, NEW s \in Segments, AddOutboxMessages(p, s)
        PROVE  OpenRowsInv'
    <2>1. SUFFICES ASSUME NEW i \in IDs, NEW j \in IDs, i < j, outbox'[i].status = "open",
                          outbox'[j].status # "free", outbox'[i].seg = outbox'[j].seg
                   PROVE  outbox'[j].by = outbox'[i].by
      BY DEF OpenRowsInv
    <2>2. CASE i = nextID
      BY <1>1, <2>1, <2>2, InsertRow, OutboxAssumption DEF LockInv, RowsInv, IDs
    <2>3. CASE j = nextID
      <3>1. outbox[i].status = "open" /\ outbox[i].seg = s /\ i # nextID
        BY <1>1, <2>1, <2>3, InsertRow, OutboxAssumption DEF IDs
      <3>2. outbox[i].by = p
        BY <1>1, <3>1 DEF AddOutboxMessages, MayInsert
      <3> QED
        BY <1>1, <2>3, <3>1, <3>2, InsertRow
    <2>4. CASE i # nextID /\ j # nextID
      BY <1>1, <2>1, <2>4, InsertRow DEF OpenRowsInv
    <2> QED
      BY <2>2, <2>3, <2>4
  <1>2. ASSUME NEW p \in Producers, NEW st \in {"pending", "void"}, EndProducerTx(p, st)
        PROVE  OpenRowsInv'
    <2>1. \A i \in IDs : outbox'[i].status = "open" => outbox[i].status = "open" /\ outbox[i].by # p
      BY <1>2, EndProducer
    <2>2. \A i \in IDs : outbox'[i].status # "free" => outbox[i].status # "free"
      BY <1>2, EndProducer, OutboxAssumption DEF LockInv, RowsInv
    <2> QED
      BY <1>2, <2>1, <2>2, EndProducer DEF OpenRowsInv
  <1>3. ASSUME NEW w \in Workers, MarkSent(w)
        PROVE  OpenRowsInv'
    <2>1. Unsent(current[w])
      BY <1>3 DEF LockInv, HoldersInv, MarkSent
    <2> QED
      BY <1>3, <2>1, MarkRow DEF LockInv, OpenRowsInv, Unsent
  <1>4. ASSUME Crash
        PROVE  OpenRowsInv'
    <2>1. \A i \in IDs : outbox'[i].status # "open"
      BY <1>4, CrashRows DEF LockInv, RowsInv
    <2> QED
      BY <2>1 DEF OpenRowsInv
  <1>5. ASSUME UNCHANGED outbox
        PROVE  OpenRowsInv'
    BY <1>5 DEF OpenRowsInv
  <1>6. ASSUME NEW w \in Workers, PumpOutgoing(w) \/ CommitFails(w) \/ WriteTimeout(w)
        PROVE  MarkSent(w) \/ UNCHANGED outbox
    BY <1>6 DEF PumpOutgoing, QueryPossibleNext, LockNext, WriteMessages, Rollback, CommitFails, WriteTimeout
  <1>7. ASSUME NEW t \in Topics, FlushWrite(t) \/ DropWrite(t)
        PROVE  UNCHANGED outbox
    BY <1>7 DEF FlushWrite, DropWrite
  <1> QED
    BY <1>1, <1>2, <1>3, <1>4, <1>5, <1>6, <1>7
    DEF OutboxNext, outboxVars, CommitProducerTx, RollbackProducerTx

LEMMA ChosenNext ==
  ASSUME OutboxTypeOK, LockInv, OpenRowsInv, ChosenInv, [OutboxNext]_outboxVars
  PROVE  ChosenInv'
  <1>1. SUFFICES ASSUME NEW i \in IDs, Chosen(i)' PROVE PredecessorsDone(i)'
    BY DEF ChosenInv
  <1>2. Chosen(i) \/ i \in OldestUnsent
    BY <1>1, ChosenOnlyByQuery
  <1>3. Committed(i) /\ PredecessorsDone(i)
    BY <1>2, ChosenAreCommitted, OldestHasPredecessorsDone DEF ChosenInv, LockInv
  <1> QED
    BY <1>3, RowsAreKept, PredecessorsStayDone DEF LockInv, Committed

\* A row that is written to the log now is no older than those of its segment in it: it is
\* unsent, and everything before a logged row is done.
LEMMA FlushSorted ==
  ASSUME OutboxTypeOK, LockInv, ChosenInv, SegmentsSorted, NEW t \in Topics, FlushWrite(t)
  PROVE  SegmentsSorted'
  <1> DEFINE i == Head(writerQueue[t]).id
  <1>1. /\ i \in IDs /\ Unsent(i) /\ UNCHANGED outbox
        /\ log' = [log EXCEPT ![t] = Append(@, i)]
    BY LockTake DEF FlushWrite
  <1> HIDE DEF i
  <1>2. /\ Len(log[t]) \in Nat /\ Len(log'[t]) = Len(log[t]) + 1 /\ log'[t][Len(log[t]) + 1] = i
        /\ \A n \in 1..Len(log[t]) : log'[t][n] = log[t][n]
        /\ \A u \in Topics \ {t} : log'[u] = log[u]
    BY <1>1, FlushedLog
  <1>3. ASSUME NEW m \in 1..Len(log[t]), outbox[log[t][m]].seg = outbox[i].seg
        PROVE  log[t][m] <= i
    <2>1. log[t][m] \in IDs /\ Chosen(log[t][m])
      BY LogTypes DEF Chosen, InLog
    <2>2. PredecessorsDone(log[t][m])
      BY <2>1 DEF ChosenInv
    <2> QED
      BY <1>1, <1>3, <2>1, <2>2, OutboxAssumption DEF PredecessorsDone, Done, Unsent, IDs
  <1>4. SUFFICES ASSUME NEW u \in Topics, NEW m \in 1..Len(log'[u]), NEW n \in 1..Len(log'[u]), m < n,
                        outbox[log'[u][m]].seg = outbox[log'[u][n]].seg
                 PROVE  log'[u][m] <= log'[u][n]
    BY <1>1 DEF SegmentsSorted
  <1>5. CASE u = t /\ n = Len(log[t]) + 1
    BY <1>2, <1>3, <1>4, <1>5
  <1>6. CASE u # t \/ n # Len(log[t]) + 1
    <2>1. m \in 1..Len(log[u]) /\ n \in 1..Len(log[u]) /\ log'[u][m] = log[u][m] /\ log'[u][n] = log[u][n]
      BY <1>2, <1>4, <1>6, SMTT(30)
    <2> QED
      BY <1>4, <2>1 DEF SegmentsSorted
  <1> QED
    BY <1>5, <1>6

LEMMA SortedNext ==
  ASSUME OutboxTypeOK, LockInv, ChosenInv, SegmentsSorted, [OutboxNext]_outboxVars
  PROVE  SegmentsSorted'
  <1>1. CASE UNCHANGED log
    <2>1. \A t \in Topics : \A n \in 1..Len(log[t]) : log[t][n] \in IDs /\ Committed(log[t][n])
      BY LogTypes DEF LockInv, LogInv, InLog
    <2>2. \A t \in Topics : \A n \in 1..Len(log[t]) : outbox'[log[t][n]].seg = outbox[log[t][n]].seg
      BY <2>1, RowsAreKept DEF RowsKept, Committed
    <2> QED
      BY <1>1, <2>2 DEF SegmentsSorted
  <1>2. UNCHANGED log \/ \E t \in Topics : FlushWrite(t)
    BY DEF OutboxNext, outboxVars, workerVars, PumpOutgoing, AddOutboxMessages, CommitProducerTx,
           RollbackProducerTx, EndProducerTx, QueryPossibleNext, LockNext, WriteMessages, MarkSent,
           Rollback, CommitFails, WriteTimeout, DropWrite, Crash
  <1> QED
    BY <1>1, <1>2, FlushSorted

LEMMA OrderNext ==
  ASSUME RowLocks, OutboxTypeOK, LockInv, OrderInv, [OutboxNext]_outboxVars
  PROVE  OrderInv'
  BY OpenRowsNext, ChosenNext, SortedNext DEF OrderInv

-----------------------------------------------------------------------------
(* Theorems.                                                               *)

\* The inductive invariant behind the order of the log holds in every reachable state.
THEOREM OutboxInvariant == OutboxSpec => []OutboxInv
  <1>1. OutboxInit => OutboxTypeOK /\ OutboxInv
    BY TypeInit, LockInit, OrderInit DEF OutboxInv
  <1>2. OutboxTypeOK /\ OutboxInv /\ [OutboxNext]_outboxVars => (OutboxTypeOK /\ OutboxInv)'
    BY LockNextStep, OrderNext DEF OutboxInv
  <1> QED
    BY <1>1, <1>2, PTL DEF OutboxSpec

\* If producers update their entity's row before they insert its event, no two workers ever
\* send events of one segment at the same time, however stale their candidates are.
THEOREM OneWorkerPerSegmentCorrect == ASSUME RowLocks PROVE OutboxSpec => []OneWorkerPerSegment
  <1>1. ASSUME OutboxTypeOK, OutboxInv PROVE OneWorkerPerSegment
    <2>1. SUFFICES ASSUME NEW v \in Workers, NEW w \in Workers, v # w, current[v] # 0, current[w] # 0,
                          outbox[current[v]].seg = outbox[current[w]].seg
                   PROVE  FALSE
      BY DEF OneWorkerPerSegment
    <2>2. /\ current[v] \in IDs /\ current[w] \in IDs
          /\ Chosen(current[v]) /\ Chosen(current[w])
      BY <1>1, <2>1, OutboxAssumption DEF OutboxTypeOK, Chosen, IDs
    <2>3. /\ Unsent(current[v]) /\ Unsent(current[w]) /\ current[v] # current[w]
      BY <1>1, <2>1 DEF OutboxInv, LockInv, HoldersInv
    <2>4. PredecessorsDone(current[v]) /\ PredecessorsDone(current[w])
      BY <1>1, <2>2 DEF OutboxInv, OrderInv, ChosenInv
    <2>5. current[v] < current[w] \/ current[w] < current[v]
      BY <2>2, <2>3, OutboxAssumption DEF IDs
    <2> QED
      BY <2>1, <2>2, <2>3, <2>4, <2>5 DEF PredecessorsDone, Done, Unsent
  <1> QED
    BY <1>1, LockInvariant, OutboxInvariant, PTL

\* Under the same assumption retries, timeouts, unacknowledged writes and crashes never put an
\* event into the log after a newer one of its segment.
THEOREM SegmentsSortedCorrect == ASSUME RowLocks PROVE OutboxSpec => []SegmentsSorted
  <1>1. OutboxInv => SegmentsSorted
    BY DEF OutboxInv, OrderInv
  <1> QED
    BY <1>1, OutboxInvariant, PTL

-----------------------------------------------------------------------------
(* The outbox implements the stream of EventStream.                        *)

\* The mapping of ImplementsStream: the events of committed transactions.
Published == [s \in Segments |-> { i \in IDs : Committed(i) /\ outbox[i].seg = s }]

\* Events get committed only after those of their segment that were committed before: while a row is
\* open, every later row of the segment is of the same transaction.
LEMMA CommitPublishes ==
  ASSUME OutboxTypeOK, LockInv, OpenRowsInv, NEW p \in Producers, CommitProducerTx(p)
  PROVE  Stream!Publish
  <1>1. /\ outbox' \in [IDs -> Row]
        /\ \A i \in IDs : /\ outbox'[i].seg = outbox[i].seg
                          /\ outbox[i].by = p => outbox'[i].status = "pending"
                          /\ outbox[i].by # p => outbox'[i] = outbox[i]
    BY EndProducer DEF CommitProducerTx
  <1>2. \A i \in IDs : outbox[i].by = p => outbox[i].status = "open"
    BY OutboxAssumption DEF LockInv, RowsInv
  <1>3. \A i \in IDs : Committed(i) => Committed(i)' /\ outbox'[i].seg = outbox[i].seg
    BY <1>1, <1>2 DEF Committed
  <1>4. ASSUME NEW i \in IDs, NEW j \in IDs, Committed(i), Committed(j)', ~Committed(j),
               outbox[i].seg = outbox'[j].seg
        PROVE  i < j
    <2>1. outbox[j].by = p /\ outbox[j].status = "open"
      BY <1>1, <1>2, <1>4 DEF Committed
    <2>2. outbox[i].by = NoProducer /\ outbox[i].status # "free"
      BY <1>4 DEF LockInv, RowsInv, Committed
    <2>3. ~(j < i)
      BY <1>1, <1>4, <2>1, <2>2, OutboxAssumption DEF OpenRowsInv
    <2> QED
      BY <2>1, <2>2, <2>3, OutboxAssumption DEF IDs
  <1>5. UNCHANGED log
    BY DEF CommitProducerTx, EndProducerTx
  <1> QED
    BY <1>1, <1>3, <1>4, <1>5 DEF Stream!Publish

\* Flushing delivers, in order, the messages of committed transactions.
LEMMA FlushDelivers ==
  ASSUME AckedWrites, OutboxTypeOK, LockInv, ChosenInv, NEW t \in Topics, FlushWrite(t)
  PROVE  \E s \in Segments : Stream!Deliver(s)
  <1> DEFINE i == Head(writerQueue[t]).id
  <1>1. /\ i \in IDs /\ Unsent(i) /\ UNCHANGED outbox /\ TopicOfRow(i) = t
        /\ log' = [log EXCEPT ![t] = Append(@, i)]
    BY LockTake DEF FlushWrite
  <1>2. writerQueue[t] \in Seq(QueuedWrite) /\ writerQueue[t] # << >>
    BY DEF OutboxTypeOK, FlushWrite, QueuedWrite
  <1>3. i = writerQueue[t][1].id /\ 1 \in 1..Len(writerQueue[t])
    BY <1>2
  <1> HIDE DEF i
  <1>4. PredecessorsDone(i)
    BY <1>1, <1>3 DEF ChosenInv, Chosen
  <1> DEFINE s == outbox[i].seg
  <1>5. s \in Segments /\ TopicOf[s] = t /\ InLog(t) = Stream!Seen(t)
    BY <1>1 DEF OutboxTypeOK, TopicOfRow, InLog, Stream!Seen
  <1>6. ASSUME NEW f \in IDs, Committed(f), outbox[f].seg = s
        PROVE  /\ f < i => f \in InLog(t)
               /\ f > i => f \notin InLog(t)
    <2>1. f < i => outbox[f].status = "sent"
      BY <1>4, <1>6 DEF PredecessorsDone, Done, Committed
    <2>2. f < i => f \in InLog(t)
      BY <1>5, <1>6, <2>1 DEF LockInv, SentIsInLog, TopicOfRow
    <2>3. f \in InLog(t) => PredecessorsDone(f)
      BY <1>6 DEF ChosenInv, Chosen
    <2>4. ~(f > i /\ PredecessorsDone(f))
      BY <1>1, <1>6 DEF PredecessorsDone, Done, Unsent, IDs
    <2> QED
      BY <2>2, <2>3, <2>4
  <1>7. i \in Stream!Next1(s)
    BY <1>1, <1>5, <1>6 DEF Stream!Next1, Committed, Unsent
  <1>8. UNCHANGED Published
    BY <1>1 DEF Published, Committed
  <1> QED
    BY <1>1, <1>5, <1>7, <1>8 DEF Stream!Deliver, Published

\* Every other step leaves the committed events and the log as they are.
LEMMA OthersStutter ==
  ASSUME OutboxTypeOK, LockInv, [OutboxNext]_outboxVars,
         ~ \E p \in Producers : CommitProducerTx(p), ~ \E t \in Topics : FlushWrite(t)
  PROVE  UNCHANGED <<Published, log>>
  <1>1. UNCHANGED log
    BY DEF OutboxNext, outboxVars, workerVars, PumpOutgoing, AddOutboxMessages,
           RollbackProducerTx, EndProducerTx, QueryPossibleNext, LockNext, WriteMessages, MarkSent,
           Rollback, CommitFails, WriteTimeout, DropWrite, Crash
  <1>2. SUFFICES ASSUME NEW i \in IDs
                 PROVE  /\ Committed(i)' = Committed(i)
                        /\ Committed(i) => outbox'[i].seg = outbox[i].seg
    BY <1>1 DEF Published
  <1>3. ASSUME NEW p \in Producers, NEW s \in Segments, AddOutboxMessages(p, s)
        PROVE  /\ Committed(i)' = Committed(i)
               /\ Committed(i) => outbox'[i].seg = outbox[i].seg
    BY <1>3, InsertRow DEF LockInv, RowsInv, Committed, IDs
  <1>4. ASSUME NEW p \in Producers, RollbackProducerTx(p)
        PROVE  /\ Committed(i)' = Committed(i)
               /\ Committed(i) => outbox'[i].seg = outbox[i].seg
    BY <1>4, EndProducer, OutboxAssumption DEF RollbackProducerTx, LockInv, RowsInv, Committed
  <1>5. ASSUME NEW w \in Workers, MarkSent(w)
        PROVE  /\ Committed(i)' = Committed(i)
               /\ Committed(i) => outbox'[i].seg = outbox[i].seg
    <2>1. Unsent(current[w])
      BY <1>5 DEF LockInv, HoldersInv, MarkSent
    <2> QED
      BY <1>5, <2>1, MarkRow DEF LockInv, Committed, Unsent
  <1>6. ASSUME Crash
        PROVE  /\ Committed(i)' = Committed(i)
               /\ Committed(i) => outbox'[i].seg = outbox[i].seg
    BY <1>6, CrashRows DEF LockInv, RowsInv, Committed
  <1>7. CASE UNCHANGED outbox
    BY <1>7 DEF Committed
  <1> QED
    BY <1>3, <1>4, <1>5, <1>6, <1>7
    DEF OutboxNext, outboxVars, workerVars, PumpOutgoing, QueryPossibleNext, LockNext, WriteMessages,
        Rollback, CommitFails, WriteTimeout, FlushWrite, DropWrite

\* With row locks and confirmed writes the outbox implements a stream: events of an entity are published by
\* transactions in the order of their ids, and the log delivers nothing that was not published, never an event
\* ahead of an older one of its entity that is new to the log.
THEOREM OutboxImplementsStream == ASSUME RowLocks, AckedWrites PROVE OutboxSpec => ImplementsStream
  <1>1. OutboxInit => Stream!StreamInit
    BY DEF OutboxInit, Stream!StreamInit, Committed
  <1>2. ASSUME OutboxTypeOK, OutboxInv, [OutboxNext]_outboxVars
        PROVE  [Stream!StreamNext]_Stream!streamVars
    <2>1. LockInv /\ OpenRowsInv /\ ChosenInv
      BY <1>2 DEF OutboxInv, OrderInv
    <2>2. ASSUME UNCHANGED <<Published, log>>
          PROVE  UNCHANGED Stream!streamVars
      BY <2>2 DEF Published, Stream!streamVars
    <2> QED
      BY <1>2, <2>1, <2>2, CommitPublishes, FlushDelivers, OthersStutter DEF Stream!StreamNext
  <1> QED
    BY <1>1, <1>2, LockInvariant, OutboxInvariant, PTL DEF OutboxSpec, ImplementsStream, Stream!StreamSpec
=============================================================================
