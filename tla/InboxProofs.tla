---------------------------- MODULE InboxProofs ----------------------------
(***************************************************************************)
(* Inbox, for any topics, segments, processors and bounds.                 *)
(***************************************************************************)
EXTENDS Inbox, SequenceTheorems, TLAPS

InboxRow == [msg : Message, status : {"pending", "processed"}]

\* A message is what Kafka has at its offset.
FromKafka(m) ==
    /\ m.topic = TopicOf[m.seg]
    /\ m.off \in 1..Len(partition[m.topic])
    /\ partition[m.topic][m.off] = m.seg

\* Segments stay on their topics.
LogInv == \A t \in Topics : \A n \in 1..Len(partition[t]) : TopicOf[partition[t][n]] = t

\* Read is at the message after the last one committed, or at that one.
ReaderInv ==
    /\ \A t \in Topics : /\ fetched[t] <= Len(partition[t])
                         /\ (held = NoMessage \/ held.topic # t) => fetched[t] = committed[t]
    /\ held # NoMessage =>
          /\ FromKafka(held)
          /\ held.off = fetched[held.topic]
          /\ committed[held.topic] <= held.off /\ held.off <= committed[held.topic] + 1
          /\ readState = "dbCommit" => held.off = committed[held.topic]

\* Nothing is stored before its offset was committed.
RowsInv == \A r \in Rows : /\ FromKafka(inbox[r].msg)
                           /\ inbox[r].msg.off <= committed[inbox[r].msg.topic]

\* In a segment, processed messages are not newer than pending ones.
OrderInv ==
    \A q, r \in Rows : (~Pending(q) /\ Pending(r) /\ inbox[q].msg.seg = inbox[r].msg.seg)
                          => inbox[q].msg.off <= inbox[r].msg.off

\* The messages handled are those of the processed rows.
HandledInv ==
    /\ \A r \in Rows : ~Pending(r) =>
          LET h == handled[inbox[r].msg.topic] IN \E n \in 1..Len(h) : h[n] = inbox[r].msg
    /\ \A t \in Topics : \A n \in 1..Len(handled[t]) :
          \E r \in Rows : ~Pending(r) /\ inbox[r].msg = handled[t][n] /\ handled[t][n].topic = t

\* Candidates that are still pending are still the oldest of their segments; what a processor has
\* locked is such a row, and locked by nobody else.
LocksInv ==
    \A p \in Processors :
        /\ \A r \in possibleNext[p] : Pending(r) => r \in OldestPending
        /\ processing[p] # 0 <=> procState[p] = "handling"
        /\ processing[p] # 0 => /\ processing[p] \in OldestPending
                                /\ \A q \in Processors \ {p} : processing[q] # processing[p]

InboxInv == LogInv /\ ReaderInv /\ RowsInv /\ OrderInv /\ HandledInv /\ LocksInv
-----------------------------------------------------------------------------
(* What the steps that change the inbox do to it.                          *)

\* Fields of a stored message.
LEMMA RowsTyped ==
  ASSUME InboxTypeOK
  PROVE  \A r \in Rows : inbox[r] \in InboxRow /\ inbox[r].msg \in Message
  <1>1. inbox \in Seq(InboxRow)
    BY DEF InboxTypeOK, InboxRow
  <1>2. \A r \in Rows : inbox[r] \in InboxRow
    BY <1>1, ElementOfSeq DEF Rows
  <1> QED
    BY <1>2 DEF InboxRow

\* Positions of a topic, and what was handled, are finite.
LEMMA LogTyped ==
  ASSUME InboxTypeOK
  PROVE  \A t \in Topics : /\ partition[t] \in Seq(Segments) /\ Len(partition[t]) \in Nat
                            /\ committed[t] \in Nat /\ fetched[t] \in Nat
  <1>1. \A t \in Topics : partition[t] \in Seq(Segments) /\ committed[t] \in Nat /\ fetched[t] \in Nat
    BY DEF InboxTypeOK
  <1> QED
    BY <1>1

\* A stored row is the last one, pending, and the others are as before.
LEMMA Stored ==
  ASSUME InboxTypeOK, held # NoMessage, StoreRow
  PROVE  /\ inbox' \in Seq(InboxRow) /\ Len(inbox') = Len(inbox) + 1 /\ Len(inbox) \in Nat
         /\ \A r \in Rows : inbox'[r] = inbox[r]
         /\ inbox'[Len(inbox) + 1] = [msg |-> held, status |-> "pending"]
  BY DEF InboxTypeOK, StoreRow, InboxRow, Rows

\* A commit makes one row processed and puts its message at the end of what was handled of its topic.
LEMMA Committed ==
  ASSUME InboxTypeOK, NEW p \in Processors, processing[p] # 0, CommitHandled(p)
  PROVE  /\ inbox' \in Seq(InboxRow) /\ Len(inbox') = Len(inbox) /\ processing[p] \in Rows
         /\ \A r \in Rows : /\ inbox'[r].msg = inbox[r].msg /\ inbox[r].msg \in Message
                            /\ Pending(r)' <=> Pending(r) /\ r # processing[p]
         /\ handled' \in [Topics -> Seq(Message)]
         /\ LET m == inbox[processing[p]].msg IN
            \A t \in Topics :
               /\ Len(handled[t]) \in Nat
               /\ Len(handled'[t]) = IF t = m.topic THEN Len(handled[t]) + 1 ELSE Len(handled[t])
               /\ \A n \in 1..Len(handled[t]) : handled'[t][n] = handled[t][n]
               /\ t = m.topic => handled'[t][Len(handled[t]) + 1] = m
  <1> DEFINE k == processing[p]
             row == [inbox[k] EXCEPT !.status = "processed"]
             m == inbox[k].msg
  <1>1. inbox \in Seq(InboxRow) /\ k \in 1..Len(inbox)
    BY DEF InboxTypeOK, InboxRow, Rows
  <1>2. inbox[k] \in InboxRow /\ \A r \in Rows : inbox[r] \in InboxRow
    BY <1>1, ElementOfSeq DEF Rows
  <1>3. row \in InboxRow /\ row.msg = m /\ row.status = "processed" /\ m \in Message
    BY <1>2 DEF InboxRow
  <1>4. inbox' = [inbox EXCEPT ![k] = row]
    BY DEF CommitHandled
  <1>5. /\ inbox' \in Seq(InboxRow) /\ Len(inbox') = Len(inbox)
        /\ \A j \in 1..Len(inbox) : inbox'[j] = IF j = k THEN row ELSE inbox[j]
    <2> HIDE DEF k, row
    <2> QED
      BY <1>1, <1>3, <1>4, ExceptSeq
  <1>6. \A r \in Rows : /\ inbox'[r].msg = inbox[r].msg /\ inbox[r].msg \in Message
                        /\ Pending(r)' <=> Pending(r) /\ r # k
    BY <1>2, <1>3, <1>5 DEF Rows, Pending, InboxRow
  <1>7. handled \in [Topics -> Seq(Message)] /\ m.topic \in Topics
    BY <1>3 DEF InboxTypeOK, Message
  <1>8. handled' = [handled EXCEPT ![m.topic] = Append(handled[m.topic], m)]
    BY DEF CommitHandled, Handle
  <1> HIDE DEF m
  <1>9. handled' \in [Topics -> Seq(Message)]
    BY <1>3, <1>7, <1>8
  <1>10. ASSUME NEW t \in Topics
         PROVE  /\ Len(handled[t]) \in Nat
                /\ Len(handled'[t]) = IF t = m.topic THEN Len(handled[t]) + 1 ELSE Len(handled[t])
                /\ \A n \in 1..Len(handled[t]) : handled'[t][n] = handled[t][n]
                /\ t = m.topic => handled'[t][Len(handled[t]) + 1] = m
    <2>1. CASE t = m.topic
      <3>1. handled[t] \in Seq(Message) /\ handled'[t] = Append(handled[t], m)
        BY <2>1, <1>7, <1>8
      <3> QED
        BY <3>1, <2>1, <1>3
    <2>2. CASE t # m.topic
      <3>1. handled[t] \in Seq(Message) /\ handled'[t] = handled[t]
        BY <2>2, <1>7, <1>8
      <3> QED
        BY <3>1, <2>2
    <2> QED
      BY <2>1, <2>2
  <1> QED
    BY <1>1, <1>5, <1>6, <1>9, <1>10 DEF m, Rows
-----------------------------------------------------------------------------
(* Types.                                                                  *)

\* Nothing was read yet.
LEMMA InboxTypeInit == InboxInit => InboxTypeOK
  <1> SUFFICES ASSUME InboxInit PROVE InboxTypeOK
    OBVIOUS
  <1>1. << >> \in Seq(Segments) /\ << >> \in Seq(Message) /\ << >> \in Seq(InboxRow)
    OBVIOUS
  <1>2. /\ partition \in [Topics -> Seq(Segments)]
        /\ committed \in [Topics -> Nat] /\ fetched \in [Topics -> Nat]
        /\ inbox \in Seq(InboxRow) /\ handled \in [Topics -> Seq(Message)]
    BY <1>1 DEF InboxInit, ConsumerInit
  <1>3. /\ procState \in [Processors -> {"idle", "select", "handling"}]
        /\ possibleNext \in [Processors -> SUBSET Rows]
        /\ processing \in [Processors -> Rows \cup {0}]
        /\ lastFailed \in [Processors -> BOOLEAN]
    BY DEF InboxInit, ConsumerInit
  <1> QED
    BY <1>2, <1>3, InboxAssumption DEF InboxInit, ConsumerInit, InboxTypeOK, InboxRow

\* Every step of readers and processors keeps the types.
LEMMA InboxTypeNext == InboxTypeOK /\ LocksInv /\ [InboxNext]_inboxVars => InboxTypeOK'
  <1> SUFFICES ASSUME InboxTypeOK, LocksInv, [InboxNext]_inboxVars PROVE InboxTypeOK'
    OBVIOUS
  <1> USE InboxAssumption
  <1>1. ASSUME NEW t \in Topics, FetchMessage(t) PROVE InboxTypeOK'
    <2>0. /\ fetched \in [Topics -> Nat] /\ partition[t] \in Seq(Segments) /\ Len(partition[t]) \in Nat
          /\ fetched[t] < Len(partition[t]) /\ fetched' = [fetched EXCEPT ![t] = fetched[t] + 1]
      BY <1>1, SMTT(30) DEF InboxTypeOK, FetchMessage
    <2>1. fetched' \in [Topics -> Nat] /\ fetched'[t] \in 1..Len(partition[t]) /\ partition[t] \in Seq(Segments)
      BY <2>0
    <2>2. partition[t][fetched'[t]] \in Segments
      BY <2>1, ElementOfSeq
    <2>3. held' \in Message
      BY <1>1, <2>1, <2>2 DEF FetchMessage, Message
    <2> QED
      BY <1>1, <2>1, <2>3 DEF InboxTypeOK, FetchMessage, procVars, Rows
  <1>2. ASSUME CommitMessages \/ CommitMessagesFails PROVE InboxTypeOK'
    <2>1. held \in Message /\ held.topic \in Topics /\ held.off \in Nat
      BY <1>2 DEF InboxTypeOK, CommitMessages, CommitMessagesFails, Message
    <2>2. committed' \in [Topics -> Nat]
      BY <1>2, <2>1 DEF InboxTypeOK, CommitMessages, CommitMessagesFails
    <2> QED
      BY <1>2, <2>1, <2>2, SMTT(30) DEF InboxTypeOK, CommitMessages, CommitMessagesFails, Fault, procVars, Rows
  <1>3. ASSUME CommitRead \/ CommitReadFails PROVE InboxTypeOK'
    <2>1. held \in Message /\ held # NoMessage
      BY <1>3 DEF InboxTypeOK, CommitRead, CommitReadFails
    <2>2. inbox' \in Seq(InboxRow) /\ Rows \subseteq Rows'
      BY <1>3, <2>1, Stored DEF InboxTypeOK, CommitRead, CommitReadFails, InboxRow, Rows
    <2>3. /\ possibleNext' \in [Processors -> SUBSET Rows'] /\ processing' \in [Processors -> Rows' \cup {0}]
      BY <1>3, <2>2 DEF InboxTypeOK, CommitRead, CommitReadFails, procVars
    <2> QED
      BY <1>3, <2>1, <2>2, <2>3 DEF InboxTypeOK, CommitRead, CommitReadFails, Fault, procVars, InboxRow
  <1>4. ASSUME AddInboxMessage PROVE InboxTypeOK'
    BY <1>4 DEF InboxTypeOK, AddInboxMessage, procVars, Rows
  <1>5. ASSUME NEW p \in Processors, QueryPossibleNext(p) \/ \E s \in Segments : QueryRandomNext(p, s)
        PROVE  InboxTypeOK'
    <2>1. PICK rows \in SUBSET Rows : SetCandidates(p, rows)
      BY <1>5 DEF QueryPossibleNext, QueryRandomNext, OldestPending
    <2> QED
      BY <2>1 DEF InboxTypeOK, SetCandidates, readVars, Rows
  <1>6. ASSUME NEW p \in Processors, NothingPending(p) PROVE InboxTypeOK'
    BY <1>6 DEF InboxTypeOK, NothingPending, EndProcess, readVars, Rows
  <1>7. ASSUME NEW p \in Processors, LockNext(p) PROVE InboxTypeOK'
    <2>1. Lockable(p) \subseteq Rows
      BY DEF Lockable, InboxTypeOK
    <2> QED
      BY <1>7, <2>1 DEF InboxTypeOK, LockNext, EndProcess, readVars, Rows
  <1>8. ASSUME NEW p \in Processors, HandlerRefuses(p) PROVE InboxTypeOK'
    BY <1>8 DEF InboxTypeOK, HandlerRefuses, EndProcess, readVars, Rows
  <1>9. ASSUME NEW p \in Processors, HandleMessage(p) \/ ProcessFails(p) PROVE InboxTypeOK'
    <2>1. processing[p] # 0
      BY <1>9 DEF LocksInv, HandleMessage, ProcessFails
    <2>2. inbox' \in Seq(InboxRow) /\ Len(inbox') = Len(inbox) /\ handled' \in [Topics -> Seq(Message)]
      BY <1>9, <2>1, Committed DEF HandleMessage, ProcessFails, InboxTypeOK, InboxRow
    <2>3. Rows' = Rows
      BY <2>2 DEF Rows
    <2>4. /\ UNCHANGED <<partition, readVars, possibleNext, crashes>> /\ inboxFaults' \in 0..MaxFaults
          /\ EndProcess(p, TRUE) \/ EndProcess(p, FALSE)
      <3>1. CASE HandleMessage(p)
        BY <3>1 DEF InboxTypeOK, HandleMessage
      <3>2. CASE ProcessFails(p)
        <4>1. inboxFaults' = inboxFaults + 1 /\ inboxFaults < MaxFaults /\ inboxFaults \in 0..MaxFaults
          BY <3>2 DEF InboxTypeOK, ProcessFails, Fault
        <4>2. inboxFaults' \in 0..MaxFaults
          BY <4>1
        <4> QED
          BY <3>2, <4>2 DEF ProcessFails
      <3> QED
        BY <1>9, <3>1, <3>2
    <2> QED
      BY <2>2, <2>3, <2>4 DEF InboxTypeOK, EndProcess, readVars, InboxRow
  <1>10. ASSUME CrashConsumer PROVE InboxTypeOK'
    BY <1>10 DEF InboxTypeOK, CrashConsumer, Rows
  <1>11. ASSUME NEW s \in Segments, Produce(s) PROVE InboxTypeOK'
    <2>1. partition' \in [Topics -> Seq(Segments)]
      BY <1>11 DEF InboxTypeOK, Produce
    <2> QED
      BY <1>11, <2>1 DEF InboxTypeOK, Produce, readVars, procVars, Rows
  <1>12. CASE UNCHANGED inboxVars
    BY <1>12 DEF InboxTypeOK, inboxVars, readVars, procVars, Rows
  <1> QED
    BY <1>1, <1>2, <1>3, <1>4, <1>5, <1>6, <1>7, <1>8, <1>9, <1>10, <1>11, <1>12
    DEF InboxNext, ConsumerNext, Read, ProcessIncoming
-----------------------------------------------------------------------------
(* The invariant.                                                          *)

\* Nothing was read yet.
LEMMA InboxInvInit == InboxInit => InboxInv
  <1> SUFFICES ASSUME InboxInit PROVE InboxInv
    OBVIOUS
  <1>1. Rows = {}
    BY DEF InboxInit, ConsumerInit, Rows
  <1> QED
    BY <1>1, InboxAssumption DEF InboxInit, ConsumerInit, InboxInv, LogInv, ReaderInv, RowsInv, OrderInv,
       HandledInv, LocksInv

\* Steps of Read that store nothing.
LEMMA ReaderStep ==
  ASSUME InboxTypeOK, InboxInv,
         \/ \E t \in Topics : FetchMessage(t)
         \/ AddInboxMessage \/ CommitMessages \/ CommitMessagesFails
  PROVE  InboxInv'
  <1> USE InboxAssumption
  <1>1. UNCHANGED <<partition, inbox, procVars, handled>>
    BY DEF FetchMessage, AddInboxMessage, CommitMessages, CommitMessagesFails
  <1>2. LogInv' /\ OrderInv' /\ HandledInv' /\ LocksInv'
    BY <1>1 DEF InboxInv, LogInv, OrderInv, HandledInv, LocksInv, Rows, Pending, OldestPending, procVars
  <1>3. /\ committed \in [Topics -> Nat] /\ fetched \in [Topics -> Nat]
        /\ held # NoMessage => held \in Message /\ held.topic \in Topics /\ held.off \in Nat
    BY DEF InboxTypeOK, Message
  <1>4. ASSUME NEW t \in Topics, FetchMessage(t) PROVE ReaderInv' /\ UNCHANGED committed
    <2>1. /\ held' = [topic |-> t, off |-> fetched[t] + 1, seg |-> partition[t][fetched[t] + 1]]
          /\ fetched' = [fetched EXCEPT ![t] = @ + 1] /\ readState' = "insert" /\ UNCHANGED committed
          /\ held = NoMessage /\ fetched[t] < Len(partition[t])
      BY <1>3, <1>4 DEF FetchMessage, InboxTypeOK
    <2>2. partition[t] \in Seq(Segments) /\ Len(partition[t]) \in Nat /\ fetched[t] + 1 \in 1..Len(partition[t])
      BY <1>3, <2>1, LogTyped
    <2>3. \A x \in Topics : fetched[x] = committed[x] /\ fetched[x] <= Len(partition[x])
      BY <2>1 DEF InboxInv, ReaderInv
    <2>4. TopicOf[partition[t][fetched[t] + 1]] = t
      BY <2>2 DEF InboxInv, LogInv
    <2>5. /\ held'.topic = t /\ held'.off = fetched[t] + 1 /\ held'.seg = partition[t][fetched[t] + 1]
          /\ fetched'[t] = fetched[t] + 1
      BY <1>3, <2>1
    <2>6. FromKafka(held)'
      BY <1>1, <2>2, <2>4, <2>5 DEF FromKafka
    <2>7. \A x \in Topics : /\ fetched'[x] <= Len(partition'[x])
                            /\ x # t => fetched'[x] = committed'[x]
      BY <1>1, <1>3, <2>1, <2>2, <2>3
    <2>8. held' # NoMessage
      <3>1. partition[t][fetched[t] + 1] \in Segments
        BY <2>2, ElementOfSeq
      <3>2. held' \in Message
        BY <1>3, <2>1, <3>1 DEF Message
      <3> QED
        BY <3>2
    <2>9. held'.off = fetched'[held'.topic] /\ committed'[held'.topic] = fetched[t]
      BY <2>1, <2>3, <2>5
    <2>10. committed'[held'.topic] <= held'.off /\ held'.off <= committed'[held'.topic] + 1
      BY <1>3, <2>5, <2>9
    <2> QED
      BY <2>1, <2>5, <2>6, <2>7, <2>8, <2>9, <2>10 DEF ReaderInv
  <1>5. ASSUME CommitMessages \/ CommitMessagesFails \/ AddInboxMessage
        PROVE  ReaderInv' /\ \A t \in Topics : committed'[t] \in Nat /\ committed[t] <= committed'[t]
    <2>1. /\ held # NoMessage /\ UNCHANGED <<fetched, held>>
          /\ committed' \in {committed, [committed EXCEPT ![held.topic] = held.off]}
          /\ readState' = "dbCommit" => committed' = [committed EXCEPT ![held.topic] = held.off]
      BY <1>5 DEF InboxTypeOK, CommitMessages, CommitMessagesFails, AddInboxMessage
    <2> QED
      BY <1>1, <1>3, <2>1 DEF InboxInv, ReaderInv, FromKafka
  <1>6. RowsInv'
    <2>1. ASSUME NEW r \in Rows
          PROVE  FromKafka(inbox[r].msg)' /\ inbox[r].msg.off <= committed'[inbox[r].msg.topic]
      <3>1. inbox[r].msg \in Message /\ FromKafka(inbox[r].msg) /\ inbox[r].msg.off <= committed[inbox[r].msg.topic]
        BY RowsTyped DEF InboxInv, RowsInv
      <3>2. \A t \in Topics : committed'[t] \in Nat /\ committed[t] <= committed'[t]
        BY <1>3, <1>4, <1>5
      <3> QED
        BY <1>1, <1>3, <3>1, <3>2 DEF FromKafka, Message
    <2> QED
      BY <1>1, <2>1 DEF RowsInv, Rows
  <1> QED
    BY <1>2, <1>4, <1>5, <1>6 DEF InboxInv

\* A stored message is at least as new as all of its topic.
LEMMA StoreStep ==
  ASSUME InboxTypeOK, InboxInv, held # NoMessage, readState = "dbCommit", StoreRow,
         UNCHANGED <<partition, committed, procVars, handled>>
  PROVE  RowsInv' /\ OrderInv' /\ HandledInv' /\ LocksInv'
  <1> USE InboxAssumption
  <1>1. /\ \A r \in Rows : inbox'[r] = inbox[r] /\ inbox[r].msg \in Message
        /\ \E n \in Nat : /\ Rows' = Rows \cup {n} /\ n \notin Rows
                          /\ inbox'[n] = [msg |-> held, status |-> "pending"]
    <2>1. Len(inbox) + 1 \in Nat /\ Rows' = Rows \cup {Len(inbox) + 1} /\ Len(inbox) + 1 \notin Rows
      BY Stored DEF Rows
    <2>2. \A r \in Rows : inbox[r].msg \in Message
      BY RowsTyped
    <2> QED
      BY <2>1, <2>2, Stored
  <1>0. PICK n \in Nat : /\ Rows' = Rows \cup {n} /\ n \notin Rows
                         /\ inbox'[n] = [msg |-> held, status |-> "pending"]
    BY <1>1
  <1>2. /\ FromKafka(held) /\ held.off = committed[held.topic] /\ held \in Message
    BY DEF InboxInv, ReaderInv, InboxTypeOK
  <1>3. RowsInv'
    <2>1. held.topic \in Topics /\ committed \in [Topics -> Nat]
      BY <1>2 DEF InboxTypeOK, Message
    <2>2. FromKafka(inbox[n].msg)' /\ inbox'[n].msg.off <= committed'[inbox'[n].msg.topic]
      BY <1>0, <1>2, <2>1 DEF FromKafka
    <2>3. ASSUME NEW r \in Rows
          PROVE  FromKafka(inbox[r].msg)' /\ inbox'[r].msg.off <= committed'[inbox'[r].msg.topic]
      BY <1>1 DEF InboxInv, RowsInv, FromKafka
    <2> QED
      BY <1>0, <2>2, <2>3 DEF RowsInv, FromKafka
  <1>4. ASSUME NEW r \in Rows, inbox[r].msg.seg = held.seg PROVE inbox[r].msg.off <= held.off
    BY <1>2, <1>4 DEF InboxInv, RowsInv, FromKafka
  <1>5. \A r \in Rows : Pending(r)' = Pending(r) /\ inbox'[r].msg = inbox[r].msg
    BY <1>1 DEF Pending
  <1>6. Pending(n)' /\ inbox'[n].msg = held
    BY <1>0 DEF Pending
  <1>7. OrderInv'
    BY <1>0, <1>1, <1>4, <1>5, <1>6 DEF InboxInv, OrderInv
  <1>8. HandledInv'
    BY <1>0, <1>1, <1>5, <1>6 DEF InboxInv, HandledInv
  <1>9. OldestPending \subseteq OldestPending'
    BY <1>0, <1>1, <1>4, <1>5, <1>6 DEF OldestPending
  <1>10. LocksInv'
    BY <1>0, <1>1, <1>5, <1>9 DEF InboxInv, LocksInv, procVars, InboxTypeOK
  <1> QED
    BY <1>3, <1>7, <1>8, <1>10

\* A committed message was one of the oldest pending of its segment.
LEMMA CommitStep ==
  ASSUME InboxTypeOK, InboxInv, NEW p \in Processors, processing[p] # 0, CommitHandled(p),
         NEW failed \in BOOLEAN, EndProcess(p, failed),
         UNCHANGED <<partition, readVars, possibleNext>>
  PROVE  InboxInv'
  <1> DEFINE k == processing[p]
             m == inbox[k].msg
  <1>1. /\ Rows' = Rows /\ k \in Rows
        /\ \A r \in Rows : /\ inbox'[r].msg = inbox[r].msg /\ inbox[r].msg \in Message
                           /\ Pending(r)' <=> Pending(r) /\ r # k
    BY Committed DEF Rows
  <1>2. \A t \in Topics :
           /\ Len(handled[t]) \in Nat
           /\ Len(handled'[t]) = IF t = m.topic THEN Len(handled[t]) + 1 ELSE Len(handled[t])
           /\ \A n \in 1..Len(handled[t]) : handled'[t][n] = handled[t][n]
           /\ t = m.topic => handled'[t][Len(handled[t]) + 1] = m
    BY Committed
  <1>3. k \in OldestPending /\ \A q \in Processors \ {p} : processing[q] # k
    BY DEF InboxInv, LocksInv
  <1>4. m \in Message /\ m.topic \in Topics
    BY <1>1 DEF Message
  <1>5. LogInv' /\ ReaderInv' /\ RowsInv'
    BY <1>1 DEF InboxInv, LogInv, ReaderInv, RowsInv, FromKafka, readVars
  <1>6. OrderInv'
    BY <1>1, <1>3 DEF InboxInv, OrderInv, OldestPending
  <1> HIDE DEF m
  <1>7. HandledInv'
    <2>1. ASSUME NEW r \in Rows, ~Pending(r)'
          PROVE  \E n \in 1..Len(handled'[inbox[r].msg.topic]) : handled'[inbox[r].msg.topic][n] = inbox[r].msg
      <3>1. CASE r = k
        BY <1>2, <1>4, <3>1 DEF m
      <3>2. CASE r # k
        <4>1. inbox[r].msg.topic \in Topics /\ ~Pending(r)
          BY <1>1, <2>1, <3>2 DEF Message
        <4>2. PICK n \in 1..Len(handled[inbox[r].msg.topic]) : handled[inbox[r].msg.topic][n] = inbox[r].msg
          BY <4>1 DEF InboxInv, HandledInv
        <4> QED
          BY <1>2, <4>1, <4>2
      <3> QED
        BY <3>1, <3>2
    <2>2. ASSUME NEW t \in Topics, NEW n \in 1..Len(handled'[t])
          PROVE  \E r \in Rows : ~Pending(r)' /\ inbox[r].msg = handled'[t][n] /\ handled'[t][n].topic = t
      <3>1. CASE n \in 1..Len(handled[t])
        BY <1>1, <1>2, <3>1 DEF InboxInv, HandledInv
      <3>2. CASE n \notin 1..Len(handled[t])
        <4>1. t = m.topic /\ handled'[t][n] = m
          BY <1>2, <3>2
        <4> QED
          BY <1>1, <4>1 DEF m
      <3> QED
        BY <3>1, <3>2
    <2> QED
      BY <1>1, <2>1, <2>2 DEF HandledInv
  <1>8. \A r \in OldestPending : Pending(r)' => r \in OldestPending'
    BY <1>1 DEF OldestPending
  <1>9. LocksInv'
    <2>1. /\ procState' = [procState EXCEPT ![p] = "idle"] /\ processing' = [processing EXCEPT ![p] = 0]
          /\ possibleNext' = possibleNext
          /\ procState \in [Processors -> {"idle", "select", "handling"}]
          /\ possibleNext \in [Processors -> SUBSET Rows]
          /\ processing \in [Processors -> Rows \cup {0}]
      BY DEF EndProcess, InboxTypeOK
    <2>2. ASSUME NEW q \in Processors, q # p, processing[q] # 0 PROVE processing[q] \in OldestPending'
      <3>1. processing[q] \in OldestPending /\ processing[q] # k
        BY <1>3, <2>2 DEF InboxInv, LocksInv
      <3>2. Pending(processing[q]) /\ processing[q] \in Rows
        BY <3>1 DEF OldestPending
      <3>3. PICK r \in Rows : r = processing[q]
        BY <3>2
      <3> QED
        BY <1>1, <1>8, <3>1, <3>2, <3>3
    <2> QED
      BY <1>1, <1>8, <2>1, <2>2 DEF InboxInv, LocksInv
  <1> QED
    BY <1>5, <1>6, <1>7, <1>9 DEF InboxInv

\* Steps of ProcessIncoming that change no row.
LEMMA LockStep ==
  ASSUME InboxTypeOK, InboxInv, NEW p \in Processors,
         \/ QueryPossibleNext(p) \/ \E s \in Segments : QueryRandomNext(p, s)
         \/ NothingPending(p) \/ LockNext(p) \/ HandlerRefuses(p)
         \/ ProcessFails(p) /\ UNCHANGED <<inbox, handled>>
  PROVE  InboxInv'
  <1>1. UNCHANGED <<partition, readVars, inbox, handled>>
    BY DEF QueryPossibleNext, QueryRandomNext, SetCandidates, NothingPending, LockNext, HandlerRefuses,
           ProcessFails
  <1>2. LogInv' /\ ReaderInv' /\ RowsInv' /\ OrderInv' /\ HandledInv'
    BY <1>1 DEF InboxInv, LogInv, ReaderInv, RowsInv, OrderInv, HandledInv, FromKafka, Rows, Pending, readVars
  <1>3. UNCHANGED OldestPending /\ \A r : Pending(r)' = Pending(r)
    BY <1>1 DEF OldestPending, Rows, Pending
  <1>4. /\ procState \in [Processors -> {"idle", "select", "handling"}]
        /\ possibleNext \in [Processors -> SUBSET Rows]
        /\ processing \in [Processors -> Rows \cup {0}] /\ 0 \notin Rows
    BY DEF InboxTypeOK, Rows
  <1>5. ASSUME NEW rows, rows \subseteq OldestPending, SetCandidates(p, rows) PROVE LocksInv'
    BY <1>3, <1>4, <1>5 DEF InboxInv, LocksInv, SetCandidates
  <1>6. ASSUME NEW failed \in BOOLEAN, EndProcess(p, failed), UNCHANGED possibleNext PROVE LocksInv'
    BY <1>3, <1>4, <1>6 DEF InboxInv, LocksInv, EndProcess
  <1>7. ASSUME LockNext(p) PROVE LocksInv'
    <2>1. \A r \in Lockable(p) : r \in OldestPending /\ \A q \in Processors : processing[q] # r
      BY DEF Lockable, InboxInv, LocksInv
    <2>2. possibleNext' = [possibleNext EXCEPT ![p] = {}] /\ procState[p] = "select"
      BY <1>7 DEF LockNext
    <2>3. \/ \E r \in Lockable(p) : /\ processing' = [processing EXCEPT ![p] = r]
                                    /\ procState' = [procState EXCEPT ![p] = "handling"]
          \/ /\ processing' = [processing EXCEPT ![p] = 0]
             /\ procState' = [procState EXCEPT ![p] = "idle"]
      BY <1>7 DEF LockNext, EndProcess
    <2>4. \A r \in OldestPending : r # 0
      BY <1>4 DEF OldestPending
    <2>5. \A q \in Processors : \A r \in possibleNext'[q] : Pending(r)' => r \in OldestPending'
      BY <1>3, <1>4, <2>2 DEF InboxInv, LocksInv
    <2>6. CASE \E r \in Lockable(p) : /\ processing' = [processing EXCEPT ![p] = r]
                                      /\ procState' = [procState EXCEPT ![p] = "handling"]
      <3>1. PICK r \in Lockable(p) : /\ processing' = [processing EXCEPT ![p] = r]
                                     /\ procState' = [procState EXCEPT ![p] = "handling"]
        BY <2>6
      <3>2. r \in OldestPending /\ r # 0 /\ \A q \in Processors : processing[q] # r
        BY <2>1, <2>4
      <3>3. /\ processing'[p] = r /\ procState'[p] = "handling"
            /\ \A q \in Processors \ {p} : processing'[q] = processing[q] /\ procState'[q] = procState[q]
        BY <1>4, <3>1
      <3>4. \A q \in Processors : processing[q] # 0 <=> procState[q] = "handling"
        BY DEF InboxInv, LocksInv
      <3>5. \A q \in Processors \ {p} : processing[q] # 0 =>
               processing[q] \in OldestPending /\ \A o \in Processors \ {q} : processing[o] # processing[q]
        BY DEF InboxInv, LocksInv
      <3>6. \A q \in Processors : processing'[q] # 0 <=> procState'[q] = "handling"
        BY <3>2, <3>3, <3>4
      <3>7. \A q \in Processors : processing'[q] # 0 =>
               processing'[q] \in OldestPending /\ \A o \in Processors \ {q} : processing'[o] # processing'[q]
        BY <3>2, <3>3, <3>5
      <3> QED
        BY <1>3, <2>5, <3>6, <3>7 DEF LocksInv
    <2>7. CASE /\ processing' = [processing EXCEPT ![p] = 0]
               /\ procState' = [procState EXCEPT ![p] = "idle"]
      <3>1. /\ processing'[p] = 0 /\ procState'[p] = "idle"
            /\ \A q \in Processors \ {p} : processing'[q] = processing[q] /\ procState'[q] = procState[q]
        BY <1>4, <2>7
      <3>2. \A q \in Processors : /\ processing'[q] # 0 <=> procState'[q] = "handling"
                                  /\ processing'[q] # 0 =>
                                       /\ processing'[q] \in OldestPending
                                       /\ \A o \in Processors \ {q} : processing'[o] # processing'[q]
        BY <3>1 DEF InboxInv, LocksInv
      <3> QED
        BY <1>3, <2>5, <3>2 DEF LocksInv
    <2> QED
      BY <2>3, <2>6, <2>7
  <1>8. QueryPossibleNext(p) => LocksInv'
    BY <1>5 DEF QueryPossibleNext
  <1>9. (\E s \in Segments : QueryRandomNext(p, s)) => LocksInv'
    BY <1>5 DEF QueryRandomNext
  <1>10. NothingPending(p) \/ HandlerRefuses(p) \/ ProcessFails(p) => LocksInv'
    BY <1>6 DEF NothingPending, HandlerRefuses, ProcessFails
  <1> QED
    BY <1>2, <1>7, <1>8, <1>9, <1>10 DEF InboxInv

\* A crash unlocks all and takes the reader back to what was committed.
LEMMA CrashStep == ASSUME InboxTypeOK, InboxInv, CrashConsumer PROVE InboxInv'
  <1>1. LogInv' /\ RowsInv' /\ OrderInv' /\ HandledInv'
    BY DEF InboxInv, LogInv, RowsInv, OrderInv, HandledInv, FromKafka, Rows, Pending, CrashConsumer
  <1>2. \A t \in Topics : committed[t] <= Len(partition[t])
    <2>1. \A t \in Topics : committed[t] <= fetched[t] /\ fetched[t] <= Len(partition[t])
      BY LogTyped DEF InboxInv, ReaderInv
    <2> QED
      BY <2>1, LogTyped
  <1>3. ReaderInv' /\ LocksInv'
    BY <1>2 DEF ReaderInv, LocksInv, CrashConsumer
  <1> QED
    BY <1>1, <1>3 DEF InboxInv

\* Kafka's topics only grow.
LEMMA ProduceStep == ASSUME InboxTypeOK, InboxInv, NEW s \in Segments, Produce(s) PROVE InboxInv'
  <1> USE InboxAssumption
  <1>1. \A t \in Topics : /\ Len(partition[t]) \in Nat /\ Len(partition[t]) <= Len(partition'[t])
                          /\ \A n \in 1..Len(partition[t]) : partition'[t][n] = partition[t][n]
                          /\ \A n \in 1..Len(partition'[t]) :
                                n \notin 1..Len(partition[t]) => partition'[t][n] = s /\ t = TopicOf[s]
                          /\ Len(partition'[t]) \in Nat
    <2>1. ASSUME NEW t \in Topics PROVE partition'[t] = IF t = TopicOf[s] THEN Append(partition[t], s) ELSE partition[t]
      BY DEF Produce, InboxTypeOK
    <2>2. ASSUME NEW t \in Topics PROVE partition[t] \in Seq(Segments)
      BY LogTyped
    <2>3. ASSUME NEW t \in Topics
          PROVE  /\ Len(partition[t]) \in Nat /\ Len(partition[t]) <= Len(partition'[t])
                 /\ \A n \in 1..Len(partition[t]) : partition'[t][n] = partition[t][n]
                 /\ \A n \in 1..Len(partition'[t]) :
                       n \notin 1..Len(partition[t]) => partition'[t][n] = s /\ t = TopicOf[s]
                 /\ Len(partition'[t]) \in Nat
      <3>1. CASE t = TopicOf[s]
        <4>1. partition'[t] = Append(partition[t], s)
          BY <2>1, <3>1
        <4> QED
          BY <2>2, <3>1, <4>1
      <3>2. CASE t # TopicOf[s]
        <4>1. partition'[t] = partition[t]
          BY <2>1, <3>2
        <4> QED
          BY <2>2, <4>1
      <3> QED
        BY <3>1, <3>2
    <2> QED
      BY <2>3
  <1>2. UNCHANGED <<readVars, inbox, procVars, handled>>
    BY DEF Produce
  <1>3. \A m \in Message : FromKafka(m) => FromKafka(m)'
    BY <1>1 DEF FromKafka, Message
  <1>4. LogInv'
    BY <1>1 DEF InboxInv, LogInv
  <1>5. ReaderInv'
    BY <1>1, <1>2, <1>3, LogTyped DEF InboxInv, ReaderInv, readVars, InboxTypeOK
  <1>6. RowsInv'
    BY <1>2, <1>3, RowsTyped DEF InboxInv, RowsInv, Rows, readVars
  <1>7. OrderInv' /\ HandledInv' /\ LocksInv'
    BY <1>2, SMTT(30) DEF InboxInv, OrderInv, HandledInv, LocksInv, Rows, Pending, OldestPending, procVars
  <1> QED
    BY <1>4, <1>5, <1>6, <1>7 DEF InboxInv

\* Every step of readers and processors keeps the invariant.
LEMMA InboxInvNext == InboxTypeOK /\ InboxInv /\ [InboxNext]_inboxVars => InboxInv'
  <1> SUFFICES ASSUME InboxTypeOK, InboxInv, [InboxNext]_inboxVars PROVE InboxInv'
    OBVIOUS
  <1>1. ASSUME CommitRead \/ CommitReadFails PROVE InboxInv'
    <2>1. /\ held # NoMessage /\ readState = "dbCommit"
          /\ UNCHANGED <<partition, committed, fetched, procVars, handled>>
          /\ \/ readState' = "fetch" /\ held' = NoMessage
             \/ readState' = "insert" /\ held' = held
      BY <1>1 DEF CommitRead, CommitReadFails, InboxTypeOK
    <2>2. StoreRow \/ UNCHANGED inbox
      BY <1>1 DEF CommitRead, CommitReadFails
    <2>3. LogInv' /\ ReaderInv'
      BY <2>1 DEF InboxInv, LogInv, ReaderInv, FromKafka
    <2>4. ASSUME UNCHANGED inbox PROVE RowsInv' /\ OrderInv' /\ HandledInv' /\ LocksInv'
      BY <2>1, <2>4 DEF InboxInv, RowsInv, OrderInv, HandledInv, LocksInv, FromKafka, Rows, Pending,
                        OldestPending, procVars
    <2> QED
      BY <2>1, <2>2, <2>3, <2>4, StoreStep DEF InboxInv
  <1>2. ASSUME NEW p \in Processors, HandleMessage(p) \/ ProcessFails(p) PROVE InboxInv'
    <2>1. processing[p] # 0
      BY <1>2 DEF HandleMessage, ProcessFails, InboxInv, LocksInv
    <2>2. CASE HandleMessage(p)
      BY <2>1, <2>2, CommitStep DEF HandleMessage
    <2>3. CASE ProcessFails(p) /\ CommitHandled(p)
      BY <2>1, <2>3, CommitStep DEF ProcessFails
    <2>4. CASE ProcessFails(p) /\ UNCHANGED <<inbox, handled>>
      BY <2>4, LockStep
    <2> QED
      BY <1>2, <2>2, <2>3, <2>4 DEF ProcessFails
  <1>3. CASE UNCHANGED inboxVars
    BY <1>3 DEF InboxInv, LogInv, ReaderInv, RowsInv, OrderInv, HandledInv, LocksInv, FromKafka, Rows,
                Pending, OldestPending, inboxVars, readVars, procVars
  <1> QED
    BY <1>1, <1>2, <1>3, ReaderStep, LockStep, CrashStep, ProduceStep
    DEF InboxNext, ConsumerNext, Read, ProcessIncoming
-----------------------------------------------------------------------------
(* What the inbox shows of EventStream.                                    *)

\* Offsets of a sequence of messages are positions in its topic.
LEMMA OffsetsOfSeq ==
  ASSUME NEW h \in Seq(Message)
  PROVE  LET o == [n \in 1..Len(h) |-> h[n].off] IN o \in Seq(Nat) /\ Len(o) = Len(h) /\ Len(h) \in Nat
  <1> DEFINE o == [n \in 1..Len(h) |-> h[n].off]
  <1>1. \A n \in 1..Len(h) : h[n] \in Message
    BY ElementOfSeq
  <1>2. o \in [1..Len(h) -> Nat] /\ Len(h) \in Nat
    BY <1>1 DEF Message
  <1> HIDE DEF o
  <1> QED
    BY <1>2 DEF o

\* What EventStream takes for seen.
LEMMA SeenOffsets ==
  ASSUME InboxTypeOK, NEW t \in Topics
  PROVE  \A e : e \in Stream!Seen(t) <=> \E n \in 1..Len(handled[t]) : e = handled[t][n].off
  <1>1. handled[t] \in Seq(Message)
    BY DEF InboxTypeOK
  <1>2. Len(HandledOffsets(t)) = Len(handled[t])
    BY <1>1, OffsetsOfSeq DEF HandledOffsets
  <1> QED
    BY <1>2 DEF Stream!Seen, HandledOffsets

Offsets(s) == { inbox[r].msg.off : r \in { q \in Rows : inbox[q].msg.seg = s } }

\* A stored message is published; when it is stored a second time, nothing is.
LEMMA StorePublishes ==
  ASSUME InboxTypeOK, InboxInv, StoreRow, CommitRead \/ CommitReadFails
  PROVE  Stream!Publish
  <1>1. held # NoMessage /\ readState = "dbCommit" /\ UNCHANGED handled
    BY DEF CommitRead, CommitReadFails, InboxTypeOK
  <1>2. PICK n \in Nat : /\ Rows' = Rows \cup {n} /\ n \notin Rows /\ inbox'[n].msg = held
                         /\ \A r \in Rows : inbox'[r] = inbox[r]
    BY <1>1, Stored DEF Rows
  <1>3. ASSUME NEW r \in Rows, inbox[r].msg.seg = held.seg PROVE inbox[r].msg.off <= held.off
    BY <1>1, <1>3 DEF InboxInv, RowsInv, ReaderInv, FromKafka
  <1>4. held.off \in Nat /\ \A r \in Rows : inbox[r].msg.off \in Nat
    BY <1>1, RowsTyped DEF InboxTypeOK, Message
  <1>5. ASSUME NEW s \in Segments
        PROVE  /\ Offsets(s) \subseteq Offsets(s)'
               /\ \A e \in Offsets(s), f \in Offsets(s)' \ Offsets(s) : e < f
    <2>1. Offsets(s) \subseteq Offsets(s)'
      BY <1>2 DEF Offsets
    <2>2. ASSUME NEW f, f \in Offsets(s)', f \notin Offsets(s) PROVE s = held.seg /\ f = held.off
      BY <1>2, <2>2 DEF Offsets
    <2>3. ASSUME NEW e \in Offsets(s), s = held.seg PROVE e <= held.off /\ e \in Nat
      BY <1>3, <1>4, <2>3 DEF Offsets
    <2> QED
      BY <1>4, <2>1, <2>2, <2>3
  <1>6. UNCHANGED [t \in Topics |-> HandledOffsets(t)]
    BY <1>1 DEF HandledOffsets
  <1> QED
    BY <1>5, <1>6 DEF Stream!Publish, Offsets

\* A handled message is the next of its segment.
LEMMA CommitDelivers ==
  ASSUME InboxTypeOK, InboxInv, NEW p \in Processors, processing[p] # 0, CommitHandled(p)
  PROVE  \E s \in Segments : Stream!Deliver(s)
  <1> USE InboxAssumption
  <1>1. PICK k \in Rows, m \in Message, s \in Segments, t \in Topics :
           /\ k = processing[p] /\ m = inbox[k].msg /\ s = m.seg /\ t = m.topic
           /\ k \in OldestPending /\ Pending(k) /\ t = TopicOf[s] /\ m.off \in Nat
    <2>1. processing[p] \in OldestPending /\ processing[p] \in Rows /\ Pending(processing[p])
      BY DEF InboxInv, LocksInv, OldestPending
    <2>2. inbox[processing[p]].msg \in Message /\ FromKafka(inbox[processing[p]].msg)
      BY <2>1, RowsTyped DEF InboxInv, RowsInv
    <2> QED
      BY <2>1, <2>2 DEF FromKafka, Message
  <1>2. /\ Rows' = Rows /\ \A r \in Rows : inbox'[r].msg = inbox[r].msg
        /\ \A x \in Topics :
              /\ Len(handled[x]) \in Nat
              /\ Len(handled'[x]) = IF x = t THEN Len(handled[x]) + 1 ELSE Len(handled[x])
              /\ \A n \in 1..Len(handled[x]) : handled'[x][n] = handled[x][n]
              /\ x = t => handled'[x][Len(handled[x]) + 1] = m
    BY <1>1, Committed, ZenonT(60) DEF Rows
  <1>3. ASSUME NEW r \in Rows, inbox[r].msg.seg = s
        PROVE  /\ inbox[r].msg.off < m.off => inbox[r].msg.off \in Stream!Seen(t)
               /\ inbox[r].msg.off > m.off => inbox[r].msg.off \notin Stream!Seen(t)
    <2>1. inbox[r].msg \in Message /\ inbox[r].msg.off \in Nat /\ FromKafka(inbox[r].msg)
          /\ inbox[r].msg.topic = t
      BY <1>1, <1>3, RowsTyped DEF InboxInv, RowsInv, FromKafka, Message
    <2>2. inbox[r].msg.off < m.off => ~Pending(r)
      BY <1>1, <1>3, <2>1 DEF OldestPending
    <2>3. ~Pending(r) => inbox[r].msg.off \in Stream!Seen(t)
      BY <1>1, <2>1, SeenOffsets DEF InboxInv, HandledInv
    <2>4. ASSUME inbox[r].msg.off \in Stream!Seen(t) PROVE inbox[r].msg.off <= m.off
      <3>1. PICK n \in 1..Len(handled[t]) : handled[t][n].off = inbox[r].msg.off
        <4>1. \A e : e \in Stream!Seen(t) <=> \E n \in 1..Len(handled[t]) : e = handled[t][n].off
          BY SeenOffsets
        <4> QED
          BY <2>4, <4>1
      <3>2. PICK q \in Rows : ~Pending(q) /\ inbox[q].msg = handled[t][n] /\ handled[t][n].topic = t
        BY <1>1 DEF InboxInv, HandledInv
      <3>3. inbox[q].msg.seg = partition[t][inbox[q].msg.off]
        BY <3>2 DEF InboxInv, RowsInv, FromKafka
      <3>4. inbox[q].msg.seg = s
        BY <1>3, <2>1, <3>1, <3>2, <3>3 DEF FromKafka
      <3> QED
        BY <1>1, <3>1, <3>2, <3>4 DEF InboxInv, OrderInv
    <2> QED
      BY <1>1, <2>1, <2>2, <2>3, <2>4
  <1>4. m.off \in Stream!Next1(s)
    BY <1>1, <1>3, SMTT(30) DEF Stream!Next1
  <1>6. handled[t] \in Seq(Message) /\ handled'[t] \in Seq(Message)
    BY <1>1, Committed DEF InboxTypeOK
  <1>5. [x \in Topics |-> HandledOffsets(x)]' =
           [[x \in Topics |-> HandledOffsets(x)] EXCEPT ![t] = Append(@, m.off)]
    <2>1. ASSUME NEW x \in Topics, x # t PROVE HandledOffsets(x)' = HandledOffsets(x)
      <3>1. handled'[x] = handled[x]
        BY <1>1, <2>1 DEF CommitHandled, Handle, InboxTypeOK
      <3> QED
        BY <3>1 DEF HandledOffsets
    <2>2. HandledOffsets(t)' = Append(HandledOffsets(t), m.off)
      <3> DEFINE o == HandledOffsets(t)
                 q == [n \in 1..Len(handled'[t]) |-> handled'[t][n].off]
      <3>1. /\ o \in Seq(Nat) /\ Len(o) = Len(handled[t]) /\ Len(handled[t]) \in Nat
            /\ q \in Seq(Nat) /\ Len(q) = Len(handled'[t])
        BY <1>6, OffsetsOfSeq DEF HandledOffsets
      <3>2. \A n \in 1..Len(q) : q[n] = IF n \in 1..Len(o) THEN o[n] ELSE m.off
        <4>1. \A n \in 1..Len(handled[t]) : o[n] = handled[t][n].off
          BY DEF HandledOffsets
        <4>2. \A n \in 1..Len(handled'[t]) : q[n] = handled'[t][n].off
          OBVIOUS
        <4> HIDE DEF o, q
        <4>3. Len(q) = Len(handled[t]) + 1 /\ handled'[t][Len(handled[t]) + 1] = m
          BY <1>1, <1>2, <3>1
        <4>4. \A n \in 1..Len(handled[t]) : handled'[t][n] = handled[t][n]
          BY <1>2
        <4>5. ASSUME NEW n \in 1..Len(q), n \in 1..Len(o) PROVE q[n] = o[n]
          BY <3>1, <4>1, <4>2, <4>4, <4>5
        <4>6. ASSUME NEW n \in 1..Len(q), n \notin 1..Len(o) PROVE q[n] = m.off
          <5>1. n = Len(handled[t]) + 1 /\ n \in 1..Len(handled'[t])
            BY <3>1, <4>3, <4>6
          <5> QED
            BY <4>2, <4>3, <5>1
        <4> QED
          BY <4>5, <4>6
      <3>3. Len(q) = Len(o) + 1
        BY <1>1, <1>2, <3>1
      <3>4. HandledOffsets(t)' = q
        BY DEF HandledOffsets
      <3> HIDE DEF o, q
      <3>5. q = Append(o, m.off)
        <4>1. m.off \in Nat
          BY <1>1
        <4>2. /\ Append(o, m.off) \in Seq(Nat) /\ Len(Append(o, m.off)) = Len(o) + 1
              /\ \A n \in 1..Len(o) : Append(o, m.off)[n] = o[n]
              /\ Append(o, m.off)[Len(o) + 1] = m.off
          BY <3>1, <4>1, AppendProperties
        <4>3. \A n \in 1..Len(q) : q[n] = Append(o, m.off)[n]
          <5>1. ASSUME NEW n \in 1..Len(q), n \notin 1..Len(o) PROVE n = Len(o) + 1
            BY <3>1, <3>3, <5>1
          <5> QED
            BY <3>2, <4>2, <5>1
        <4> DEFINE a == Append(o, m.off)
        <4>4. a \in Seq(Nat) /\ Len(q) = Len(a) /\ \A n \in 1..Len(q) : q[n] = a[n]
          BY <3>3, <4>2, <4>3
        <4> HIDE DEF a
        <4>5. q = a
          BY <3>1, <4>4, SeqEqual
        <4> QED
          BY <4>5 DEF a
      <3> QED
        BY <3>4, <3>5 DEF o
    <2> QED
      BY <1>1, <2>1, <2>2
  <1>7. UNCHANGED [x \in Segments |-> Offsets(x)]
    BY <1>2 DEF Offsets
  <1>8. Stream!Deliver(s)
    BY <1>1, <1>4, <1>5, <1>7 DEF Stream!Deliver, Offsets
  <1> QED
    BY <1>8
-----------------------------------------------------------------------------
(* Theorems.                                                               *)

\* Offsets, rows, candidates and locks are what they are taken for.
THEOREM InboxTypesAndInvariant == InboxSpec => [](InboxTypeOK /\ InboxInv)
  <1>1. InboxInit => InboxTypeOK /\ InboxInv
    BY InboxTypeInit, InboxInvInit
  <1>2. InboxTypeOK /\ InboxInv /\ [InboxNext]_inboxVars => (InboxTypeOK /\ InboxInv)'
    BY InboxTypeNext, InboxInvNext DEF InboxInv
  <1> QED
    BY <1>1, <1>2, PTL DEF InboxSpec

\* Whatever is repeated after failures and crashes, the handlers never see the messages of a segment in
\* another order than that in which they were written.
THEOREM HandledInOrderCorrect == InboxSpec => []HandledInOrder
  <1>1. InboxInit => HandledInOrder
    BY DEF InboxInit, ConsumerInit, HandledInOrder
  <1>2. ASSUME InboxTypeOK, InboxInv, HandledInOrder, [InboxNext]_inboxVars PROVE HandledInOrder'
    <2>1. ASSUME NEW p \in Processors, CommitHandled(p), HandleMessage(p) \/ ProcessFails(p)
          PROVE  HandledInOrder'
      <3>1. processing[p] # 0
        BY <1>2, <2>1 DEF HandleMessage, ProcessFails, InboxInv, LocksInv
      <3> DEFINE m == inbox[processing[p]].msg
      <3>2. \A t \in Topics :
               /\ Len(handled[t]) \in Nat
               /\ Len(handled'[t]) = IF t = m.topic THEN Len(handled[t]) + 1 ELSE Len(handled[t])
               /\ \A n \in 1..Len(handled[t]) : handled'[t][n] = handled[t][n]
               /\ t = m.topic => handled'[t][Len(handled[t]) + 1] = m
        BY <1>2, <2>1, <3>1, Committed
      <3>3. processing[p] \in Rows /\ Pending(processing[p])
        BY <1>2, <3>1 DEF InboxInv, LocksInv, OldestPending
      <3>4. ASSUME NEW t \in Topics, NEW n \in 1..Len(handled[t]), handled[t][n].seg = m.seg
            PROVE  handled[t][n].off <= m.off
        BY <1>2, <3>3, <3>4 DEF InboxInv, HandledInv, OrderInv
      <3>5. m.off \in Nat
        BY <1>2, <3>3, RowsTyped DEF Message
      <3> HIDE DEF m
      <3>6. ASSUME NEW t \in Topics, NEW x \in 1..Len(handled'[t]), NEW n \in 1..Len(handled'[t]), x < n,
                   handled'[t][x].seg = handled'[t][n].seg
            PROVE  handled'[t][x].off <= handled'[t][n].off
        <4>1. CASE n \in 1..Len(handled[t])
          <5>1. x \in 1..Len(handled[t])
            BY <3>2, <3>6, <4>1
          <5> QED
            BY <1>2, <3>2, <3>6, <4>1, <5>1 DEF HandledInOrder
        <4>2. CASE n \notin 1..Len(handled[t])
          <5>1. x \in 1..Len(handled[t]) /\ handled'[t][n] = m
            BY <3>2, <3>6, <4>2
          <5> QED
            BY <3>2, <3>4, <3>6, <5>1
        <4> QED
          BY <4>1, <4>2
      <3> QED
        BY <3>6 DEF HandledInOrder
    <2>2. CASE UNCHANGED handled
      BY <1>2, <2>2 DEF HandledInOrder
    <2> QED
      BY <1>2, <2>1, <2>2
      DEF InboxNext, ConsumerNext, Read, ProcessIncoming, FetchMessage, AddInboxMessage, CommitMessages,
          CommitMessagesFails, CommitRead, CommitReadFails, QueryPossibleNext, QueryRandomNext, SetCandidates,
          NothingPending, LockNext, HandleMessage, HandlerRefuses, ProcessFails, CrashConsumer, Produce, inboxVars
  <1> QED
    BY <1>1, <1>2, InboxTypesAndInvariant, PTL DEF InboxSpec

\* As long as the service does not crash, a message whose offset was committed to Kafka is in the
\* inbox, or Read has it.
THEOREM CommittedIsKeptCorrect == ASSUME MaxCrashes = 0 PROVE InboxSpec => []CommittedIsKept
  <1>1. InboxInit => CommittedIsKept
    BY DEF InboxInit, ConsumerInit, CommittedIsKept
  <1>2. ASSUME InboxTypeOK, InboxInv, CommittedIsKept, [InboxNext]_inboxVars PROVE CommittedIsKept'
    <2>1. \A t \in Topics : committed[t] \in Nat
      BY <1>2, LogTyped
    <2>2. ASSUME NEW t \in Topics, FetchMessage(t) PROVE CommittedIsKept'
      <3>1. held = NoMessage /\ UNCHANGED <<committed, inbox>>
        BY <1>2, <2>2 DEF FetchMessage, InboxTypeOK
      <3> QED
        BY <1>2, <3>1 DEF CommittedIsKept, Rows
    <2>3. ASSUME CommitMessages \/ CommitMessagesFails PROVE CommittedIsKept'
      <3>1. /\ held # NoMessage /\ held.topic \in Topics /\ held.off \in Nat
            /\ held.off <= committed[held.topic] + 1
        BY <1>2, <2>3 DEF InboxInv, ReaderInv, InboxTypeOK, Message, CommitMessages, CommitMessagesFails
      <3>2. /\ UNCHANGED <<held, inbox>>
            /\ committed' \in {committed, [committed EXCEPT ![held.topic] = held.off]}
        BY <2>3 DEF CommitMessages, CommitMessagesFails
      <3>3. ASSUME NEW t \in Topics, NEW n \in 1..committed'[t]
            PROVE  n \in 1..committed[t] \/ (held.topic = t /\ held.off = n)
        <4>1. CASE committed'[t] = committed[t]
          BY <3>3, <4>1
        <4>2. CASE committed'[t] # committed[t]
          <5>1. t = held.topic /\ committed'[t] = held.off
            BY <1>2, <3>1, <3>2, <4>2 DEF InboxTypeOK
          <5> QED
            BY <2>1, <3>1, <3>3, <5>1
        <4> QED
          BY <4>1, <4>2
      <3> QED
        BY <1>2, <3>1, <3>2, <3>3 DEF CommittedIsKept, Rows
    <2>4. ASSUME CommitRead \/ CommitReadFails PROVE CommittedIsKept'
      <3>1. CASE StoreRow
        <4>1. held # NoMessage
          BY <1>2, <2>4 DEF InboxTypeOK, CommitRead, CommitReadFails
        <4>2. /\ \A r \in Rows : r \in Rows' /\ inbox'[r] = inbox[r]
              /\ Len(inbox) + 1 \in Rows' /\ inbox'[Len(inbox) + 1].msg = held
          BY <1>2, <3>1, <4>1, Stored DEF Rows
        <4>3. UNCHANGED committed
          BY <2>4 DEF CommitRead, CommitReadFails
        <4> QED
          BY <1>2, <4>2, <4>3 DEF CommittedIsKept
      <3>2. CASE CommitReadFails /\ UNCHANGED inbox
        BY <1>2, <3>2 DEF CommitReadFails, CommittedIsKept, Rows
      <3> QED
        BY <2>4, <3>1, <3>2 DEF CommitRead, CommitReadFails
    <2>5. ASSUME NEW p \in Processors, CommitHandled(p), HandleMessage(p) \/ ProcessFails(p)
          PROVE  CommittedIsKept'
      <3>1. processing[p] # 0
        BY <1>2, <2>5 DEF HandleMessage, ProcessFails, InboxInv, LocksInv
      <3>2. Rows' = Rows /\ \A r \in Rows : inbox'[r].msg = inbox[r].msg
        BY <1>2, <2>5, <3>1, Committed DEF Rows
      <3>3. UNCHANGED <<held, committed>>
        BY <2>5 DEF HandleMessage, ProcessFails, readVars
      <3> QED
        BY <1>2, <3>2, <3>3 DEF CommittedIsKept
    <2>6. ~CrashConsumer
      BY <1>2 DEF CrashConsumer, InboxTypeOK
    <2>7. CASE UNCHANGED <<held, committed, inbox>>
      BY <1>2, <2>7 DEF CommittedIsKept, Rows
    <2> QED
      BY <1>2, <2>2, <2>3, <2>4, <2>5, <2>6, <2>7
      DEF InboxNext, ConsumerNext, Read, ProcessIncoming, AddInboxMessage, QueryPossibleNext, QueryRandomNext,
          SetCandidates, NothingPending, LockNext, HandleMessage, HandlerRefuses, ProcessFails, Produce,
          inboxVars, readVars
  <1> QED
    BY <1>1, <1>2, InboxTypesAndInvariant, PTL DEF InboxSpec

\* What the handlers see of the inbox is what EventStream allows: in a segment nothing is skipped and only
\* the newest message seen again, whatever fails, is repeated or crashes.
THEOREM InboxImplementsStream == InboxSpec => ImplementsStream
  <1>1. InboxInit => Stream!StreamInit
    <2>1. InboxInit => Rows = {}
      BY DEF InboxInit, ConsumerInit, Rows
    <2> QED
      BY <2>1 DEF InboxInit, ConsumerInit, HandledOffsets, Stream!StreamInit
  <1>2. ASSUME InboxTypeOK, InboxInv, InboxTypeOK', [InboxNext]_inboxVars
        PROVE  [Stream!StreamNext]_Stream!streamVars
    <2>1. ASSUME UNCHANGED <<inbox, handled>> PROVE UNCHANGED Stream!streamVars
      BY <2>1 DEF Stream!streamVars, Rows, HandledOffsets
    <2>2. ASSUME StoreRow, CommitRead \/ CommitReadFails PROVE Stream!Publish
      BY <1>2, <2>2, StorePublishes
    <2>3. ASSUME NEW p \in Processors, CommitHandled(p), HandleMessage(p) \/ ProcessFails(p)
          PROVE  \E s \in Segments : Stream!Deliver(s)
      <3>1. processing[p] # 0
        BY <1>2, <2>3 DEF HandleMessage, ProcessFails, InboxInv, LocksInv
      <3> QED
        BY <1>2, <2>3, <3>1, CommitDelivers
    <2> QED
      BY <1>2, <2>1, <2>2, <2>3
      DEF Stream!StreamNext, InboxNext, ConsumerNext, Read, ProcessIncoming, FetchMessage, AddInboxMessage,
          CommitMessages, CommitMessagesFails, CommitRead, CommitReadFails, QueryPossibleNext, QueryRandomNext,
          SetCandidates, NothingPending, LockNext, HandleMessage, HandlerRefuses, ProcessFails, CrashConsumer,
          Produce, inboxVars
  <1> QED
    BY <1>1, <1>2, InboxTypesAndInvariant, PTL DEF InboxSpec, ImplementsStream, Stream!StreamSpec
=============================================================================
