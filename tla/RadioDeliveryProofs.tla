------------------------ MODULE RadioDeliveryProofs ------------------------
(* Deliveries over radio for any number of attempts, operators and faults. *)
EXTENDS RadioDelivery, TLAPS

\* No transaction at all is well typed.
LEMMA IdleTyped ==
  /\ [x \in Txs |-> NoTx] \in [Txs -> [kind : {"none", "ask", "release", "finish", "check", "announce"},
                                       rows : SUBSET Attempts]]
  /\ Idle \in [kind : {"none", "accept", "end"}, attempts : SUBSET Attempts]
  BY DEF NoTx, Idle

\* Every step keeps the types.
LEMMA RadioTypeStep ==
  ASSUME RadioAssumption, RadioTypeOK, RadioNext
  PROVE  RadioTypeOK'
  <1>1. ASSUME NEW a \in Attempts, Accept(a) PROVE RadioTypeOK'
    BY <1>1 DEF Accept, RadioTypeOK, RadioAssumption, Txs, NoTx, Idle, Active, deliveryVars, clientVars
  <1>2. ASSUME NEW a \in Attempts, AcceptCommits(a) PROVE RadioTypeOK'
    BY <1>2 DEF AcceptCommits, RadioTypeOK, RadioAssumption, Txs, NoTx, Idle, Active, deliveryVars, clientVars
  <1>3. ASSUME NEW a \in Attempts, End(a) PROVE RadioTypeOK'
    BY <1>3 DEF End, RadioTypeOK, RadioAssumption, Txs, NoTx, Idle, Active, deliveryVars, clientVars
  <1>4. ASSUME NEW a \in Attempts, EndCommits(a) PROVE RadioTypeOK'
    BY <1>4 DEF EndCommits, RadioTypeOK, RadioAssumption, Txs, NoTx, Idle, Active, deliveryVars, clientVars
  <1>5. ASSUME HandlingRollsBack PROVE RadioTypeOK'
    BY <1>5 DEF HandlingRollsBack, Fault, RadioTypeOK, RadioAssumption, Txs, NoTx, Idle, Active, deliveryVars, clientVars
  <1>6. ASSUME UpdateOperationMembersByOperation PROVE RadioTypeOK'
    BY <1>6 DEF UpdateOperationMembersByOperation, RadioTypeOK, RadioAssumption, Txs, NoTx, Idle, Active, deliveryVars, clientVars
  <1>7. ASSUME NEW u \in Operators, Ask(u) PROVE RadioTypeOK'
    BY <1>7 DEF Ask, Begin, RadioTypeOK, RadioAssumption, Txs, NoTx, Idle, Active, deliveryVars, clientVars
  <1>8. ASSUME NEW u \in Operators, PickUp(u) PROVE RadioTypeOK'
    BY <1>8 DEF PickUp, Open, LockedActive, MarkAsPickedUp, Informed, RadioTypeOK, RadioAssumption, Txs, NoTx, Idle, Active, deliveryVars, clientVars
  <1>9. ASSUME NEW u \in Operators, NothingToPickUp(u) PROVE RadioTypeOK'
    BY <1>9 DEF NothingToPickUp, Open, LockedActive, RadioTypeOK, RadioAssumption, Txs, NoTx, Idle, Active, deliveryVars, clientVars
  <1>10. ASSUME NEW u \in Operators, NEW a \in Attempts, ReadForRelease(u, a) PROVE RadioTypeOK'
    BY <1>10 DEF ReadForRelease, Begin, RadioTypeOK, RadioAssumption, Txs, NoTx, Idle, Active, deliveryVars, clientVars
  <1>11. ASSUME NEW u \in Operators, Release(u) PROVE RadioTypeOK'
    BY <1>11 DEF Release, MarkAsPickedUp, RadioTypeOK, RadioAssumption, Txs, NoTx, Idle, Active, deliveryVars, clientVars
  <1>12. ASSUME NEW u \in Operators, NEW a \in Attempts, ReadForFinish(u, a) PROVE RadioTypeOK'
    BY <1>12 DEF ReadForFinish, Begin, RadioTypeOK, RadioAssumption, Txs, NoTx, Idle, Active, deliveryVars, clientVars
  <1>13. ASSUME NEW u \in Operators, Finish(u) PROVE RadioTypeOK'
    BY <1>13 DEF Finish, RadioTypeOK, RadioAssumption, Txs, NoTx, Idle, Active, deliveryVars, clientVars
  <1>14. ASSUME Check PROVE RadioTypeOK'
    BY <1>14 DEF Check, Begin, RadioTypeOK, RadioAssumption, Txs, NoTx, Idle, Active, deliveryVars, clientVars
  <1>15. ASSUME ReleaseTimedOut PROVE RadioTypeOK'
    BY <1>15 DEF ReleaseTimedOut, TimedOut, LockedActive, MarkAsPickedUp, RadioTypeOK, RadioAssumption, Txs, NoTx, Idle, Active, deliveryVars, clientVars
  <1>16. ASSUME NEW x \in Txs, ScheduleNotifyUpdates(x) PROVE RadioTypeOK'
    BY <1>16 DEF ScheduleNotifyUpdates, RadioTypeOK, RadioAssumption, Txs, NoTx, Idle, Active, deliveryVars, clientVars
  <1>17. ASSUME NEW u \in Operators, ScheduleCancelled(u) PROVE RadioTypeOK'
    BY <1>17 DEF ScheduleCancelled, Fault, RadioTypeOK, RadioAssumption, Txs, NoTx, Idle, Active, deliveryVars, clientVars
  <1>18. ASSUME NEW x \in Txs, RollBack(x) PROVE RadioTypeOK'
    BY <1>18 DEF RollBack, Informed, Fault, RadioTypeOK, RadioAssumption, Txs, NoTx, Idle, Active, deliveryVars, clientVars
  <1>19. ASSUME NEW u \in Operators, AcceptNewConnection(u) PROVE RadioTypeOK'
    BY <1>19 DEF AcceptNewConnection, Reassign, Fault, RadioTypeOK, RadioAssumption, Txs, NoTx, Idle, Active, deliveryVars, clientVars
  <1>20. ASSUME NEW u \in Operators, RemoveConn(u) PROVE RadioTypeOK'
    BY <1>20 DEF RemoveConn, Reassign, Fault, RadioTypeOK, RadioAssumption, Txs, NoTx, Idle, Active, deliveryVars, clientVars
  <1>21. ASSUME NotifyUpdates PROVE RadioTypeOK'
    <2>1. /\ informed' = informed \cup (assigned \cap connected)
          /\ informed' \subseteq Operators
      BY <1>21 DEF NotifyUpdates, RadioTypeOK
    <2>2. (connected \ assigned) \X Unclaimed \subseteq Operators \X Attempts
      BY DEF RadioTypeOK, Unclaimed, Active
    <2>3. missed' \subseteq missed \cup ((connected \ assigned) \X Unclaimed)
      BY <1>21 DEF NotifyUpdates
    <2>4. missed' \subseteq Operators \X Attempts
      BY <2>2, <2>3 DEF RadioTypeOK
    <2>5. /\ scheduled' \in BOOLEAN
          /\ UNCHANGED <<deliveryVars, handling, tx, members, connected, assigned, faults>>
      BY <1>21 DEF NotifyUpdates
    <2> QED
      BY <2>1, <2>4, <2>5 DEF RadioTypeOK, deliveryVars
  <1>22. ASSUME NEW a \in Attempts, TimePasses(a) PROVE RadioTypeOK'
    BY <1>22 DEF TimePasses, RadioTypeOK, RadioAssumption, Txs, NoTx, Idle, Active, deliveryVars, clientVars
  <1>23. ASSUME Restart PROVE RadioTypeOK'
    <2>1. /\ handling' = Idle /\ tx' = [x \in Txs |-> NoTx] /\ scheduled' = FALSE
          /\ connected' = {} /\ assigned' = {} /\ informed' = {} /\ missed' = {}
          /\ UNCHANGED <<deliveryVars, members>>
          /\ faults' \in 0..MaxFaults
      BY <1>23 DEF Restart, Fault, RadioTypeOK, RadioAssumption
    <2> QED
      BY <2>1, IdleTyped DEF RadioTypeOK, deliveryVars
  <1> QED
    BY <1>1, <1>2, <1>3, <1>4, <1>5, <1>6, <1>7, <1>8, <1>9, <1>10, <1>11, <1>12,
       <1>13, <1>14, <1>15, <1>16, <1>17, <1>18, <1>19, <1>20, <1>21, <1>22, <1>23 DEF RadioNext, InboxStep, Request

\* The state of radio-delivery-svc and its database has its types.
THEOREM RadioTypeCorrect == ASSUME RadioAssumption PROVE RadioSpec => []RadioTypeOK
  <1>1. RadioInit => RadioTypeOK
    <2> SUFFICES ASSUME RadioInit PROVE RadioTypeOK
      OBVIOUS
    <2>1. success \in [Attempts -> {"none", "open", "set"}]
      BY DEF RadioInit
    <2>2. pickedUpBy \in [Attempts -> Operators \cup {NoOperator}]
      BY DEF RadioInit
    <2>3. tx = [x \in Txs |-> NoTx] /\ handling = Idle
      BY DEF RadioInit
    <2>4. overdue = {} /\ missed = {} /\ connected = {} /\ assigned = {} /\ informed = {}
      BY DEF RadioInit
    <2>5. scheduled \in BOOLEAN /\ members \in MemberSets
      BY DEF RadioInit
    <2>6. faults \in 0..MaxFaults
      BY RadioAssumption DEF RadioInit, RadioAssumption
    <2> QED
      BY <2>1, <2>2, <2>3, <2>4, <2>5, <2>6, IdleTyped DEF RadioTypeOK
  <1>2. RadioTypeOK /\ [RadioNext]_radioVars => RadioTypeOK'
    <2>1. CASE RadioNext
      BY <2>1, RadioAssumption, RadioTypeStep
    <2>2. CASE UNCHANGED radioVars
      BY <2>2 DEF RadioTypeOK, radioVars, deliveryVars, clientVars
    <2> QED
      BY <2>1, <2>2
  <1> QED
    BY <1>1, <1>2, PTL DEF RadioSpec

\* Beginning a transaction leaves the others and the deliveries alone.
LEMMA BeginStep ==
  ASSUME NEW x \in Txs, NEW kind, NEW rows, RadioTypeOK, Begin(x, kind, rows)
  PROVE  /\ tx[x].kind = "none" /\ tx'[x].kind = kind /\ tx'[x].rows = rows
         /\ \A y \in Txs : y # x => tx'[y] = tx[y]
         /\ success' = success /\ pickedUpBy' = pickedUpBy /\ scheduled' = scheduled
         /\ connected' = connected /\ missed' = missed
  <1>1. tx \in [Txs -> [kind : {"none", "ask", "release", "finish", "check", "announce"},
                       rows : SUBSET Attempts]]
    BY DEF RadioTypeOK
  <1>2. tx[x] = NoTx /\ tx' = [tx EXCEPT ![x] = [kind |-> kind, rows |-> rows]]
    BY DEF Begin
  <1> QED
    BY <1>1, <1>2 DEF Begin, NoTx, deliveryVars

\* Every step keeps free deliveries from lying unnoticed.
LEMMA OfferedStep ==
  ASSUME RadioAssumption, RadioTypeOK, ReleasedIsOffered, RadioNext
  PROVE  ReleasedIsOffered'
  <1>t. /\ success \in [Attempts -> {"none", "open", "set"}]
        /\ pickedUpBy \in [Attempts -> Operators \cup {NoOperator}]
        /\ tx \in [Txs -> [kind : {"none", "ask", "release", "finish", "check", "announce"},
                           rows : SUBSET Attempts]]
        /\ connected \subseteq Operators /\ handling.attempts \subseteq Attempts
    BY DEF RadioTypeOK
  <1> Operators \subseteq Txs /\ Checker \in Txs
    BY DEF Txs
  <1> USE DEF ReleasedIsOffered, ToBeTold, Unclaimed, Active, deliveryVars, clientVars
  <1>1. ASSUME NEW a \in Attempts, Accept(a) PROVE ReleasedIsOffered'
    BY <1>t, <1>1 DEF Accept, NoTx
  <1>2. ASSUME NEW a \in Attempts, AcceptCommits(a) PROVE ReleasedIsOffered'
    BY <1>t, <1>2 DEF AcceptCommits, NoTx
  <1>3. ASSUME NEW a \in Attempts, End(a) PROVE ReleasedIsOffered'
    BY <1>t, <1>3 DEF End, NoTx
  <1>4. ASSUME NEW a \in Attempts, EndCommits(a) PROVE ReleasedIsOffered'
    BY <1>t, <1>4 DEF EndCommits, NoTx
  <1>5. ASSUME HandlingRollsBack PROVE ReleasedIsOffered'
    BY <1>t, <1>5 DEF HandlingRollsBack, NoTx
  <1>6. ASSUME UpdateOperationMembersByOperation PROVE ReleasedIsOffered'
    BY <1>t, <1>6 DEF UpdateOperationMembersByOperation, NoTx
  <1>7. ASSUME NEW u \in Operators, Ask(u) PROVE ReleasedIsOffered'
    <2>1. Begin(u, "ask", Active)
      BY <1>7 DEF Ask
    <2>2. /\ tx[u].kind = "none" /\ tx'[u].kind = "ask" /\ tx'[u].rows = Active
          /\ \A y \in Txs : y # u => tx'[y] = tx[y]
          /\ success' = success /\ pickedUpBy' = pickedUpBy /\ scheduled' = scheduled
          /\ connected' = connected /\ missed' = missed
      BY <2>1, BeginStep
    <2>3. informed' = informed \ {u}
      BY <1>7 DEF Ask
    <2> SUFFICES ASSUME NEW b \in Unclaimed', NEW v \in connected'
                 PROVE  \/ ToBeTold(b)' \/ v \in informed'
                        \/ (tx[v].kind = "ask" /\ b \in tx[v].rows)' \/ <<v, b>> \in missed'
      BY DEF ReleasedIsOffered
    <2>4. b \in Unclaimed /\ v \in connected /\ v \in Txs
      BY <1>t, <2>2
    <2>5. ToBeTold(b) => ToBeTold(b)'
      BY <2>2
    <2>6. CASE v = u
      BY <2>2, <2>4, <2>6
    <2>7. CASE v # u
      BY <2>2, <2>3, <2>4, <2>5, <2>7
    <2> QED
      BY <2>6, <2>7
  <1>8. ASSUME NEW u \in Operators, PickUp(u) PROVE ReleasedIsOffered'
    BY <1>t, <1>8, ZenonT(60) DEF Open, LockedActive, MarkAsPickedUp, Informed, PickUp, NoTx
  <1>9. ASSUME NEW u \in Operators, NothingToPickUp(u) PROVE ReleasedIsOffered'
    BY <1>t, <1>9 DEF Open, LockedActive, NothingToPickUp, NoTx
  <1>10. ASSUME NEW u \in Operators, NEW a \in Attempts, ReadForRelease(u, a) PROVE ReleasedIsOffered'
    <2>1. Begin(u, "release", {a})
      BY <1>10 DEF ReadForRelease
    <2>2. /\ tx[u].kind = "none" /\ tx'[u].kind = "release"
          /\ \A y \in Txs : y # u => tx'[y] = tx[y]
          /\ success' = success /\ pickedUpBy' = pickedUpBy /\ scheduled' = scheduled
          /\ connected' = connected /\ missed' = missed
      BY <2>1, BeginStep
    <2>3. informed' = informed
      BY <1>10 DEF ReadForRelease
    <2> QED
      BY <1>t, <2>2, <2>3
  <1>11. ASSUME NEW u \in Operators, Release(u) PROVE ReleasedIsOffered'
    <2>1. /\ tx[u].kind = "release"
          /\ tx'[u].kind = "announce" /\ tx'[u].rows = tx[u].rows
          /\ \A y \in Txs : y # u => tx'[y] = tx[y]
      BY <1>t, <1>11 DEF Release
    <2>2. /\ \A a \in Attempts \ tx[u].rows : pickedUpBy'[a] = pickedUpBy[a]
          /\ success' = success /\ scheduled' = scheduled /\ connected' = connected
          /\ informed' = informed /\ missed' = missed
      BY <1>t, <1>11 DEF Release, MarkAsPickedUp
    <2> SUFFICES ASSUME NEW b \in Unclaimed', NEW v \in connected'
                 PROVE  \/ ToBeTold(b)' \/ v \in informed'
                        \/ (tx[v].kind = "ask" /\ b \in tx[v].rows)' \/ <<v, b>> \in missed'
      BY DEF ReleasedIsOffered
    <2>3. v \in connected /\ v \in Txs /\ b \in Active
      BY <1>t, <2>2
    <2>4. CASE b \in tx[u].rows
      BY <2>1, <2>4
    <2>5. CASE b \notin tx[u].rows
      <3>1. b \in Unclaimed
        BY <2>2, <2>3, <2>5
      <3>2. ToBeTold(b) => ToBeTold(b)'
        BY <2>1, <2>2
      <3> QED
        BY <2>1, <2>2, <2>3, <3>1, <3>2
    <2> QED
      BY <2>4, <2>5
  <1>12. ASSUME NEW u \in Operators, NEW a \in Attempts, ReadForFinish(u, a) PROVE ReleasedIsOffered'
    <2>1. Begin(u, "finish", {a})
      BY <1>12 DEF ReadForFinish
    <2>2. /\ tx[u].kind = "none" /\ tx'[u].kind = "finish"
          /\ \A y \in Txs : y # u => tx'[y] = tx[y]
          /\ success' = success /\ pickedUpBy' = pickedUpBy /\ scheduled' = scheduled
          /\ connected' = connected /\ missed' = missed
      BY <2>1, BeginStep
    <2>3. informed' = informed
      BY <1>12 DEF ReadForFinish
    <2> QED
      BY <1>t, <2>2, <2>3, ZenonT(60)
  <1>13. ASSUME NEW u \in Operators, Finish(u) PROVE ReleasedIsOffered'
    BY <1>t, <1>13 DEF Finish, NoTx
  <1>14. ASSUME Check PROVE ReleasedIsOffered'
    <2>1. Begin(Checker, "check", Active)
      BY <1>14 DEF Check
    <2>2. /\ tx[Checker].kind = "none" /\ tx'[Checker].kind = "check"
          /\ \A y \in Txs : y # Checker => tx'[y] = tx[y]
          /\ success' = success /\ pickedUpBy' = pickedUpBy /\ scheduled' = scheduled
          /\ connected' = connected /\ missed' = missed
      BY <2>1, BeginStep
    <2>3. informed' = informed
      BY <1>14 DEF Check
    <2> QED
      BY <1>t, <2>2, <2>3
  <1>15. ASSUME ReleaseTimedOut PROVE ReleasedIsOffered'
    BY <1>t, <1>15, ZenonT(60) DEF TimedOut, LockedActive, MarkAsPickedUp, ReleaseTimedOut, NoTx
  <1>16. ASSUME NEW x \in Txs, ScheduleNotifyUpdates(x) PROVE ReleasedIsOffered'
    BY <1>t, <1>16 DEF ScheduleNotifyUpdates, NoTx
  <1>17. ASSUME NEW u \in Operators, ScheduleCancelled(u) PROVE ReleasedIsOffered'
    BY <1>t, <1>17 DEF ScheduleCancelled, NoTx
  <1>18. ASSUME NEW x \in Txs, RollBack(x) PROVE ReleasedIsOffered'
    BY <1>t, <1>18 DEF Informed, RollBack, NoTx
  <1>19. ASSUME NEW u \in Operators, AcceptNewConnection(u) PROVE ReleasedIsOffered'
    BY <1>t, <1>19 DEF AcceptNewConnection, NoTx
  <1>20. ASSUME NEW u \in Operators, RemoveConn(u) PROVE ReleasedIsOffered'
    BY <1>t, <1>20 DEF RemoveConn, NoTx
  <1>21. ASSUME NotifyUpdates PROVE ReleasedIsOffered'
    BY <1>t, <1>21 DEF NotifyUpdates, NoTx
  <1>22. ASSUME NEW a \in Attempts, TimePasses(a) PROVE ReleasedIsOffered'
    BY <1>t, <1>22 DEF TimePasses, NoTx
  <1>23. ASSUME Restart PROVE ReleasedIsOffered'
    BY <1>t, <1>23 DEF Restart, NoTx
  <1> QED
    BY <1>1, <1>2, <1>3, <1>4, <1>5, <1>6, <1>7, <1>8, <1>9, <1>10, <1>11, <1>12,
       <1>13, <1>14, <1>15, <1>16, <1>17, <1>18, <1>19, <1>20, <1>21, <1>22, <1>23 DEF RadioNext, InboxStep, Request

\* Whichever of the racing transactions released a delivery, a connected operator waits for it
\* only if the message was lost in one of the three ways that missed stands for.
THEOREM ReleasedIsOfferedCorrect == ASSUME RadioAssumption PROVE RadioSpec => []ReleasedIsOffered
  <1>1. RadioInit => ReleasedIsOffered
    BY DEF RadioInit, ReleasedIsOffered
  <1>2. RadioTypeOK /\ ReleasedIsOffered /\ [RadioNext]_radioVars => ReleasedIsOffered'
    <2>1. ASSUME RadioTypeOK, ReleasedIsOffered, RadioNext PROVE ReleasedIsOffered'
      BY <2>1, RadioAssumption, OfferedStep
    <2>2. ASSUME ReleasedIsOffered, UNCHANGED radioVars PROVE ReleasedIsOffered'
      BY <2>2 DEF ReleasedIsOffered, ToBeTold, Unclaimed, Active, radioVars, deliveryVars, clientVars
    <2> QED
      BY <2>1, <2>2
  <1>3. RadioSpec => []RadioTypeOK
    BY RadioAssumption, RadioTypeCorrect
  <1> QED
    BY <1>1, <1>2, <1>3, PTL DEF RadioSpec

\* A delivery is handed out only while it is active and nobody has it, whatever the others do
\* between the read and the lock.
THEOREM HandedOutOnceCorrect == ASSUME RadioAssumption PROVE RadioSpec => HandedOutOnce
  <1> DEFINE Handed ==
        \A a \in Attempts :
           pickedUpBy'[a] \notin {pickedUpBy[a], NoOperator}
               => pickedUpBy[a] = NoOperator /\ success[a] = "open"
  <1>1. ASSUME RadioTypeOK, RadioNext PROVE Handed
    <2>t. pickedUpBy \in [Attempts -> Operators \cup {NoOperator}]
      BY <1>1 DEF RadioTypeOK
    <2>1. ASSUME NEW u \in Operators, PickUp(u) PROVE Handed
      BY <2>t, <2>1 DEF PickUp, Open, LockedActive, Active, MarkAsPickedUp
    <2>2. ASSUME NEW u \in Operators, Release(u) PROVE Handed
      BY <2>t, <2>2 DEF Release, MarkAsPickedUp
    <2>3. CASE ReleaseTimedOut
      BY <2>t, <2>3 DEF ReleaseTimedOut, MarkAsPickedUp
    <2>4. ASSUME UNCHANGED pickedUpBy PROVE Handed
      BY <2>4
    <2> HIDE DEF Handed
    <2>5. ASSUME NEW u \in Operators, NEW a \in Attempts,
                 ReadForRelease(u, a) \/ ReadForFinish(u, a)
          PROVE  Handed
      BY <2>4, <2>5 DEF ReadForRelease, ReadForFinish, Begin, deliveryVars
    <2>6. ASSUME NEW u \in Operators,
                 \/ Ask(u) \/ NothingToPickUp(u) \/ Finish(u) \/ ScheduleCancelled(u)
                 \/ AcceptNewConnection(u) \/ RemoveConn(u)
          PROVE  Handed
      BY <2>4, <2>6 DEF Ask, NothingToPickUp, Finish, ScheduleCancelled, AcceptNewConnection,
           RemoveConn, Begin, deliveryVars
    <2>7. ASSUME NEW a \in Attempts,
                 Accept(a) \/ AcceptCommits(a) \/ End(a) \/ EndCommits(a) \/ TimePasses(a)
          PROVE  Handed
      BY <2>4, <2>7 DEF Accept, AcceptCommits, End, EndCommits, TimePasses, deliveryVars
    <2>8. ASSUME NEW x \in Txs, ScheduleNotifyUpdates(x) \/ RollBack(x) PROVE Handed
      BY <2>4, <2>8 DEF ScheduleNotifyUpdates, RollBack, deliveryVars
    <2>9. CASE HandlingRollsBack \/ UpdateOperationMembersByOperation \/ Check \/ NotifyUpdates \/ Restart
      BY <2>4, <2>9 DEF HandlingRollsBack, UpdateOperationMembersByOperation, Check, Begin,
           NotifyUpdates, Restart, deliveryVars
    <2> QED
      BY <1>1, <2>1, <2>2, <2>3, <2>5, <2>6, <2>7, <2>8, <2>9 DEF RadioNext, InboxStep, Request
  <1>2. RadioTypeOK /\ [RadioNext]_radioVars => [Handed]_radioVars
    BY <1>1
  <1>3. RadioSpec => []RadioTypeOK
    BY RadioAssumption, RadioTypeCorrect
  <1> QED
    BY <1>2, <1>3, PTL DEF RadioSpec, HandedOutOnce
=============================================================================
