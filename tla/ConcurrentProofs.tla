-------------------------- MODULE ConcurrentProofs --------------------------
(***************************************************************************)
(* Components whose transactions overlap, for any number of requests at    *)
(* the same time, and all of them together.  The outbox, and accounts with *)
(* their permissions and sessions, have modules of their own.              *)
(***************************************************************************)
EXTENDS MCConcurrent, OutboxProofs, AccountsProofs, FiniteSetTheorems

-----------------------------------------------------------------------------
(* The list of entries with auto-delivery enabled.                         *)

\* What a change deletes is in the table, and no two changes have deleted the same row.
RowsHeld == \A t \in Txs : tx[t].locked \subseteq rows /\ tx[t].snapshot \subseteq rows
LocksDiffer == \A t, u \in Txs : t # u => tx[t].locked \cap tx[u].locked = {}

\* What a change is going to insert it has either deleted itself or was asked to enable.
Asked(x) == IF x.enabled \/ ~x.single THEN x.entries ELSE {}
InsertsAreAsked == \A t \in Txs : tx[t].new \subseteq tx[t].locked \cup Asked(tx[t])

\* A change that has been alone is so still, and if it is about one entry, its first DELETE gets
\* the whole table.
AloneNow == \A t \in Txs : tx[t].alone =>
                tx[t].pc # "idle" /\ \A u \in Txs \ {t} : tx[u].pc = "idle"
HasAllRows(x) == /\ x.pc = "clear" => x.snapshot = rows
                 /\ x.pc \in {"set", "reset", "insert", "commit"} =>
                        x.locked = rows /\ x.new = NewWithEnabled(rows, x.entries, x.enabled)
AloneHasAllRows == \A t \in Txs : tx[t].alone /\ tx[t].single => HasAllRows(tx[t])

AutoInv == AutoTypeOK /\ RowsHeld /\ LocksDiffer /\ InsertsAreAsked /\ AloneNow /\ AloneHasAllRows
-----------------------------------------------------------------------------
(* Changes that are not committed.                                         *)

LEMMA IdleChangeTyped ==
  /\ IdleTx \in Tx /\ IdleTx.pc = "idle" /\ IdleTx.alone = FALSE
  /\ IdleTx.locked = {} /\ IdleTx.snapshot = {} /\ IdleTx.new = {}
  BY DEF IdleTx, Tx

\* The change of t goes on with x.
GoesOn(t, x) == /\ x \in Tx
                /\ tx' = [tx EXCEPT ![t] = x]
                /\ UNCHANGED <<rows, told>>

\* It goes on alone if it was, with rows that nobody else has deleted, for the same entries.
LEMMA StepKeeps ==
  ASSUME AutoInv, NEW t \in Txs, NEW x \in Tx, GoesOn(t, x), tx[t].pc # "idle",
         x.locked \subseteq rows, x.snapshot \subseteq rows,
         ~DeletedByOther(t, x.locked),
         x.new \subseteq x.locked \cup Asked(x),
         x.alone => tx[t].alone /\ x.pc # "idle" /\ (x.single => HasAllRows(x))
  PROVE  AutoInv'
  <1>1. /\ rows' = rows /\ told' = told /\ tx'[t] = x
        /\ \A u \in Txs \ {t} : tx'[u] = tx[u]
    BY DEF GoesOn, AutoInv, AutoTypeOK
  <1>2. AutoTypeOK'
    BY <1>1 DEF GoesOn, AutoInv, AutoTypeOK
  <1>3. RowsHeld'
    BY <1>1 DEF AutoInv, RowsHeld
  <1>4. LocksDiffer'
    BY <1>1 DEF AutoInv, LocksDiffer, DeletedByOther
  <1>5. ASSUME NEW u \in Txs PROVE (tx[u].new \subseteq tx[u].locked \cup Asked(tx[u]))'
    <2>1. CASE u = t
      BY <1>1, <2>1 DEF Asked
    <2>2. CASE u # t
      BY <1>1, <2>2 DEF AutoInv, InsertsAreAsked, Asked
    <2> QED
      BY <2>1, <2>2
  <1>6. AloneNow'
    BY <1>1 DEF AutoInv, AloneNow
  <1>7. ASSUME NEW u \in Txs, tx'[u].alone, tx'[u].single PROVE HasAllRows(tx[u])'
    BY <1>1, <1>7 DEF AutoInv, AloneHasAllRows, HasAllRows
  <1> QED
    BY <1>2, <1>3, <1>4, <1>5, <1>6, <1>7 DEF AutoInv, InsertsAreAsked, AloneHasAllRows

\* What a change keeps when another one starts or ends.
Unchanged(x, y) == /\ y.pc = x.pc /\ y.single = x.single /\ y.enabled = x.enabled
                   /\ y.entries = x.entries /\ y.locked = x.locked /\ y.new = x.new

\* A change starts.
LEMMA StartKeeps ==
  ASSUME AutoInv, NEW t \in Txs, NEW x \in Tx, Start(t, x),
         x.pc # "idle", x.locked = {}, x.snapshot \subseteq rows, x.new \subseteq Asked(x),
         x.single => x.pc = "clear" /\ x.snapshot = rows
  PROVE  AutoInv'
  <1> DEFINE lone == \A v \in Txs : tx[v].pc = "idle"
             y == [x EXCEPT !.alone = lone]
  <1>1. /\ y \in Tx /\ y.alone = lone /\ y.pc = x.pc /\ y.single = x.single /\ y.enabled = x.enabled
        /\ y.entries = x.entries /\ y.snapshot = x.snapshot /\ y.locked = x.locked /\ y.new = x.new
    BY DEF Tx
  <1>2. ASSUME NEW u \in Txs \ {t}
        PROVE  /\ tx'[u] \in Tx /\ tx'[u].alone = FALSE
               /\ Unchanged(tx[u], tx'[u]) /\ tx'[u].snapshot = tx[u].snapshot
    <2>1. tx[u] \in Tx /\ tx'[u] = [tx[u] EXCEPT !.alone = FALSE]
      BY DEF Start, AutoInv, AutoTypeOK
    <2> QED
      BY <2>1 DEF Tx, Unchanged
  <1>3. rows' = rows /\ told' = told /\ tx'[t] = y
    BY DEF Start
  <1>4. tx' \in [Txs -> Tx]
    BY <1>1, <1>2, <1>3 DEF Start
  <1>5. AutoTypeOK'
    BY <1>3, <1>4 DEF AutoInv, AutoTypeOK
  <1>6. RowsHeld'
    <2>1. ASSUME NEW u \in Txs \ {t} PROVE (tx[u].locked \subseteq rows /\ tx[u].snapshot \subseteq rows)'
      BY <1>2, <1>3 DEF AutoInv, RowsHeld, Unchanged
    <2>2. (tx[t].locked \subseteq rows /\ tx[t].snapshot \subseteq rows)'
      BY <1>1, <1>3
    <2> QED
      BY <2>1, <2>2 DEF RowsHeld
  <1>7. LocksDiffer'
    <2>1. \A u \in Txs \ {t} : tx'[u].locked = tx[u].locked
      BY <1>2 DEF Unchanged
    <2>2. tx'[t].locked = {}
      BY <1>1, <1>3
    <2> QED
      BY <2>1, <2>2 DEF AutoInv, LocksDiffer
  <1>8. ASSUME NEW u \in Txs PROVE (tx[u].new \subseteq tx[u].locked \cup Asked(tx[u]))'
    <2>1. CASE u = t
      BY <1>1, <1>3, <2>1 DEF Asked
    <2>2. CASE u # t
      BY <1>2, <2>2 DEF AutoInv, InsertsAreAsked, Asked, Unchanged
    <2> QED
      BY <2>1, <2>2
  <1>9. AloneNow'
    <2>1. \A u \in Txs \ {t} : tx'[u].alone = FALSE /\ tx'[u].pc = tx[u].pc
      BY <1>2 DEF Unchanged
    <2>2. tx'[t].pc # "idle" /\ (tx'[t].alone => \A u \in Txs : tx[u].pc = "idle")
      BY <1>1, <1>3
    <2> QED
      BY <2>1, <2>2 DEF AloneNow
  <1>10. ASSUME NEW u \in Txs, tx'[u].alone, tx'[u].single PROVE HasAllRows(tx[u])'
    BY <1>1, <1>2, <1>3, <1>10, ZenonT(60) DEF HasAllRows
  <1> QED
    BY <1>5, <1>6, <1>7, <1>8, <1>9, <1>10 DEF AutoInv, InsertsAreAsked, AloneHasAllRows

LEMMA SetOneStep ==
  ASSUME AutoInv, NEW t \in Txs, NEW e \in Entries, NEW on \in BOOLEAN, SetOne(t, e, on)
  PROVE  AutoInv'
  <1> DEFINE x == [IdleTx EXCEPT !.pc = "clear", !.single = TRUE, !.enabled = on,
                                 !.entries = {e}, !.snapshot = rows]
  <1>1. x \in Tx /\ x.pc = "clear" /\ x.locked = {} /\ x.snapshot = rows /\ x.new = {}
    BY DEF IdleTx, Tx, AutoInv, AutoTypeOK
  <1> QED
    BY <1>1, StartKeeps DEF SetOne

LEMMA SetListStep ==
  ASSUME AutoInv, NEW t \in Txs, NEW es \in SUBSET Entries, SetList(t, es)
  PROVE  AutoInv'
  <1> DEFINE x == [IdleTx EXCEPT !.pc = "set", !.entries = es, !.new = es]
  <1>1. /\ x \in Tx /\ x.pc = "set" /\ x.single = FALSE /\ x.locked = {} /\ x.snapshot = {}
        /\ x.new = es /\ x.entries = es
    BY DEF IdleTx, Tx
  <1> QED
    BY <1>1, StartKeeps DEF SetList, Asked

LEMMA FirstClearStep ==
  ASSUME AutoInv, NEW t \in Txs, FirstClear(t)
  PROVE  AutoInv'
  <1> DEFINE old == tx[t]
             x == [old EXCEPT !.pc = "set", !.locked = old.snapshot, !.snapshot = {},
                              !.new = NewWithEnabled(old.snapshot, old.entries, old.enabled)]
  <1>1. old \in Tx /\ old.snapshot \subseteq rows
    BY DEF AutoInv, AutoTypeOK, RowsHeld
  <1>2. NewWithEnabled(old.snapshot, old.entries, old.enabled) \in SUBSET Entries
    BY <1>1 DEF NewWithEnabled, Tx
  <1>3. /\ x \in Tx /\ x.pc = "set" /\ x.single = old.single /\ x.enabled = old.enabled /\ x.alone = old.alone
        /\ x.entries = old.entries /\ x.snapshot = {} /\ x.locked = old.snapshot
        /\ x.new = NewWithEnabled(old.snapshot, old.entries, old.enabled)
    BY <1>1, <1>2 DEF Tx
  <1>4. GoesOn(t, x)
    BY <1>3 DEF FirstClear, GoesOn, AutoInv, AutoTypeOK
  <1>5. x.new \subseteq x.locked \cup Asked(x)
    BY <1>3 DEF NewWithEnabled, Asked
  <1>6. x.alone /\ x.single => HasAllRows(x)
    BY <1>3 DEF FirstClear, AutoInv, AloneHasAllRows, HasAllRows
  <1> QED
    BY <1>1, <1>3, <1>4, <1>5, <1>6, StepKeeps DEF FirstClear

LEMMA StartClearStep ==
  ASSUME AutoInv, NEW t \in Txs, StartClear(t)
  PROVE  AutoInv'
  <1> DEFINE old == tx[t]
             x == [old EXCEPT !.pc = "reset", !.snapshot = rows \ old.locked]
  <1>1. old \in Tx /\ old.locked \subseteq rows /\ rows \subseteq Entries
    BY DEF AutoInv, AutoTypeOK, RowsHeld
  <1>2. /\ x \in Tx /\ x.pc = "reset" /\ x.single = old.single /\ x.enabled = old.enabled /\ x.alone = old.alone
        /\ x.entries = old.entries /\ x.snapshot = rows \ old.locked /\ x.locked = old.locked /\ x.new = old.new
    BY <1>1 DEF Tx
  <1>3. GoesOn(t, x)
    BY <1>2 DEF StartClear, GoesOn, AutoInv, AutoTypeOK
  <1>4. x.new \subseteq x.locked \cup Asked(x) /\ ~DeletedByOther(t, x.locked)
    BY <1>2 DEF AutoInv, InsertsAreAsked, Asked, LocksDiffer, DeletedByOther
  <1>5. x.alone /\ x.single => HasAllRows(x)
    BY <1>2 DEF StartClear, AutoInv, AloneHasAllRows, HasAllRows
  <1> QED
    BY <1>1, <1>2, <1>3, <1>4, <1>5, StepKeeps DEF StartClear

LEMMA ClearStep ==
  ASSUME AutoInv, NEW t \in Txs, Clear(t)
  PROVE  AutoInv'
  <1> DEFINE old == tx[t]
             x == [old EXCEPT !.pc = "insert", !.locked = old.locked \cup old.snapshot,
                              !.cleared = old.snapshot, !.snapshot = {}]
  <1>1. old \in Tx /\ old.locked \subseteq rows /\ old.snapshot \subseteq rows
    BY DEF AutoInv, AutoTypeOK, RowsHeld
  <1>2. /\ x \in Tx /\ x.pc = "insert" /\ x.single = old.single /\ x.enabled = old.enabled /\ x.alone = old.alone
        /\ x.entries = old.entries /\ x.snapshot = {} /\ x.locked = old.locked \cup old.snapshot /\ x.new = old.new
    BY <1>1 DEF Tx
  <1>3. GoesOn(t, x)
    BY <1>2 DEF Clear, GoesOn, AutoInv, AutoTypeOK
  <1>4. x.new \subseteq x.locked \cup Asked(x)
    BY <1>2 DEF AutoInv, InsertsAreAsked, Asked
  <1>5. ~DeletedByOther(t, x.locked)
    BY <1>2 DEF Clear, AutoInv, LocksDiffer, DeletedByOther
  <1>6. x.alone /\ x.single => HasAllRows(x)
    BY <1>1, <1>2 DEF Clear, AutoInv, AloneHasAllRows, HasAllRows
  <1> QED
    BY <1>1, <1>2, <1>3, <1>4, <1>5, <1>6, StepKeeps DEF Clear

LEMMA InsertEntriesStep ==
  ASSUME AutoInv, NEW t \in Txs, Insert(t)
  PROVE  AutoInv'
  <1> DEFINE old == tx[t]
             x == [old EXCEPT !.pc = "commit"]
  <1>1. old \in Tx /\ old.locked \subseteq rows /\ old.snapshot \subseteq rows
    BY DEF AutoInv, AutoTypeOK, RowsHeld
  <1>2. /\ x \in Tx /\ x.pc = "commit" /\ x.single = old.single /\ x.enabled = old.enabled /\ x.alone = old.alone
        /\ x.entries = old.entries /\ x.snapshot = old.snapshot /\ x.locked = old.locked /\ x.new = old.new
    BY <1>1 DEF Tx
  <1>3. GoesOn(t, x)
    BY <1>2 DEF Insert, GoesOn, AutoInv, AutoTypeOK
  <1>4. x.new \subseteq x.locked \cup Asked(x) /\ ~DeletedByOther(t, x.locked)
    BY <1>2 DEF AutoInv, InsertsAreAsked, Asked, LocksDiffer, DeletedByOther
  <1>5. x.alone /\ x.single => HasAllRows(x)
    BY <1>2 DEF Insert, AutoInv, AloneHasAllRows, HasAllRows
  <1> QED
    BY <1>1, <1>2, <1>3, <1>4, <1>5, StepKeeps DEF Insert

LEMMA AbortStep ==
  ASSUME AutoInv, NEW t \in Txs, Abort(t)
  PROVE  AutoInv'
  <1>1. GoesOn(t, IdleTx)
    BY IdleChangeTyped DEF Abort, GoesOn
  <1> QED
    BY <1>1, IdleChangeTyped, StepKeeps DEF Abort, DeletedByOther
-----------------------------------------------------------------------------
(* The commit.                                                             *)

\* Who commits has deleted no rows of others, who go on with what is left.
LEMMA CommitStep ==
  ASSUME AutoInv, NEW t \in Txs, Commit(t)
  PROVE  AutoInv'
  <1>1. tx[t] \in Tx /\ rows' = (rows \ tx[t].locked) \cup tx[t].new /\ tx[t].pc = "commit"
    BY DEF Commit, AutoInv, AutoTypeOK
  <1>2. ASSUME NEW u \in Txs \ {t}
        PROVE  /\ tx'[u] \in Tx /\ tx'[u].alone = tx[u].alone
               /\ Unchanged(tx[u], tx'[u]) /\ tx'[u].snapshot = tx[u].snapshot \ tx[t].locked
    <2>1. tx[u] \in Tx /\ tx'[u] = [tx[u] EXCEPT !.snapshot = tx[u].snapshot \ tx[t].locked]
      BY DEF Commit, AutoInv, AutoTypeOK
    <2> QED
      BY <2>1 DEF Tx, Unchanged
  <1>3. tx'[t] = IdleTx
    BY DEF Commit
  <1>4. AutoTypeOK'
    <2>1. tx' \in [Txs -> Tx]
      BY <1>2, <1>3, IdleChangeTyped DEF Commit
    <2>2. rows' \subseteq Entries
      BY <1>1 DEF Tx, AutoInv, AutoTypeOK
    <2>3. told' \in [Entries -> BOOLEAN]
      BY <1>1 DEF Commit, Announced, Tx, AutoInv, AutoTypeOK
    <2> QED
      BY <2>1, <2>2, <2>3 DEF AutoTypeOK
  <1>5. RowsHeld'
    <2>1. ASSUME NEW u \in Txs \ {t} PROVE (tx[u].locked \subseteq rows /\ tx[u].snapshot \subseteq rows)'
      BY <1>1, <1>2 DEF AutoInv, RowsHeld, LocksDiffer, Unchanged
    <2>2. (tx[t].locked \subseteq rows /\ tx[t].snapshot \subseteq rows)'
      BY <1>3, IdleChangeTyped
    <2> QED
      BY <2>1, <2>2 DEF RowsHeld
  <1>6. LocksDiffer'
    BY <1>2, <1>3, IdleChangeTyped DEF AutoInv, LocksDiffer, Unchanged
  <1>7. ASSUME NEW u \in Txs PROVE (tx[u].new \subseteq tx[u].locked \cup Asked(tx[u]))'
    <2>1. CASE u = t
      BY <1>3, <2>1, IdleChangeTyped
    <2>2. CASE u # t
      BY <1>2, <2>2 DEF AutoInv, InsertsAreAsked, Asked, Unchanged
    <2> QED
      BY <2>1, <2>2
  <1>8. \A u \in Txs : tx'[u].alone = FALSE
    <2>1. ASSUME NEW u \in Txs \ {t} PROVE tx[u].alone = FALSE
      BY <1>1 DEF AutoInv, AutoTypeOK, AloneNow, Tx
    <2> QED
      BY <1>2, <1>3, <2>1, IdleChangeTyped
  <1> QED
    BY <1>4, <1>5, <1>6, <1>7, <1>8 DEF AutoInv, InsertsAreAsked, AloneNow, AloneHasAllRows

LEMMA AutoInvInit == AutoInit => AutoInv
  BY IdleChangeTyped DEF AutoInit, AutoInv, AutoTypeOK, RowsHeld, LocksDiffer, InsertsAreAsked, AloneNow,
     AloneHasAllRows

LEMMA AutoInvNext == AutoInv /\ [AutoNext]_autoVars => AutoInv'
  <1> SUFFICES ASSUME AutoInv, [AutoNext]_autoVars PROVE AutoInv'
    OBVIOUS
  <1>1. CASE UNCHANGED autoVars
    BY <1>1 DEF autoVars, AutoInv, AutoTypeOK, RowsHeld, LocksDiffer, InsertsAreAsked, Asked, AloneNow,
       AloneHasAllRows, HasAllRows
  <1> QED
    BY <1>1, SetOneStep, SetListStep, FirstClearStep, StartClearStep, ClearStep, InsertEntriesStep, CommitStep,
       AbortStep DEF AutoNext

LEMMA AutoInvHolds == AutoSpec => []AutoInv
  BY AutoInvInit, AutoInvNext, PTL DEF AutoSpec

\* The table, the running changes and what was told have their types.
THEOREM AutoTypeCorrect == AutoSpec => []AutoTypeOK
  <1>1. AutoInv => AutoTypeOK
    BY DEF AutoInv
  <1> QED
    BY <1>1, AutoInvHolds, PTL

\* A commit enables what it was asked to enable and nothing else: what it inserts besides it has deleted
\* itself, and nobody else could delete that.
THEOREM NobodyEnabledUnaskedCorrect == AutoSpec => NobodyEnabledUnasked
  <1>1. ASSUME AutoInv, NEW t \in Txs, Commit(t)
        PROVE  rows' \ rows \subseteq (IF tx[t].enabled \/ ~tx[t].single THEN tx[t].entries ELSE {})
    BY <1>1 DEF Commit, AutoInv, RowsHeld, InsertsAreAsked, Asked
  <1>2. AutoInv => [\A t \in Txs : Commit(t) =>
            rows' \ rows \subseteq (IF tx[t].enabled \/ ~tx[t].single THEN tx[t].entries ELSE {})]_autoVars
    BY <1>1
  <1> QED
    BY <1>2, AutoInvHolds, PTL DEF NobodyEnabledUnasked

\* A change of one entry that nothing overlaps: the first DELETE gets all rows and the second none.
LEMMA LoneCommit ==
  ASSUME AutoInv, NEW t \in Txs, Commit(t), tx[t].single, tx[t].alone
  PROVE  rows' = NewWithEnabled(rows, tx[t].entries, tx[t].enabled)
  BY DEF Commit, AutoInv, AloneHasAllRows, HasAllRows

\* Such a change leaves the other entries as they are.
THEOREM LoneChangeSetsOneEntryCorrect == AutoSpec => LoneChangeSetsOneEntry
  <1>1. ASSUME AutoInv, NEW t \in Txs, Commit(t), tx[t].single, tx[t].alone
        PROVE  /\ \A e \in Entries \ tx[t].entries : e \in rows <=> e \in rows'
               /\ \A e \in tx[t].entries : e \in rows' <=> tx[t].enabled
    BY <1>1, LoneCommit DEF NewWithEnabled
  <1>2. AutoInv => [\A t \in Txs : (Commit(t) /\ tx[t].single /\ tx[t].alone) =>
            /\ \A e \in Entries \ tx[t].entries : e \in rows <=> e \in rows'
            /\ \A e \in tx[t].entries : e \in rows' <=> tx[t].enabled]_autoVars
    BY <1>1
  <1> QED
    BY <1>2, AutoInvHolds, PTL DEF LoneChangeSetsOneEntry

\* And it announces this.
THEOREM LoneChangeIsAnnouncedCorrect == AutoSpec => LoneChangeIsAnnounced
  <1>1. ASSUME AutoInv, NEW t \in Txs, Commit(t), tx[t].single, tx[t].alone, Consistent
        PROVE  Consistent'
    <2>1. told' = [e \in Entries |-> IF e \in tx[t].entries THEN tx[t].enabled ELSE told[e]]
      BY <1>1 DEF Commit, Announced
    <2>2. rows' = NewWithEnabled(rows, tx[t].entries, tx[t].enabled)
      BY <1>1, LoneCommit
    <2> QED
      BY <1>1, <2>1, <2>2 DEF Consistent, NewWithEnabled
  <1>2. AutoInv => [\A t \in Txs : (Commit(t) /\ tx[t].single /\ tx[t].alone /\ Consistent)
                       => Consistent']_autoVars
    BY <1>1
  <1> QED
    BY <1>2, AutoInvHolds, PTL DEF LoneChangeIsAnnounced
-----------------------------------------------------------------------------
(* Operations.                                                             *)

OpEvent == [type : {"created", "updated"}, op : Operation] \cup [type : {"members"}, members : SUBSET People]
OpCopyState == [op : Operation \cup {NoOp, "exists"}, members : SUBSET People]

\* OpTypeOK, and what is on its way.
OpTypes == /\ op \in [Ops -> Operation \cup {NoOp}]
           /\ memberRows \in [Ops -> SUBSET MemberRow]
           /\ opTx \in [OpReqs -> OpTx]
           /\ document \in [Ops -> OpDocument \cup {NoOp}]
           /\ opListener \in OpListeners
           /\ opEvents \in [Ops -> Seq(OpEvent)]
           /\ opCopy \in [Ops -> OpCopyState]
           /\ \A o \in Ops : Len(opEvents[o]) <= MaxOpEvents + 1
           /\ lastTold \in [Ops -> SUBSET People]
           /\ torn \subseteq Ops /\ unindexed \subseteq Ops

\* A request that runs is about an operation that is there.
OpRequestOK(r) == IF opTx[r].pc = "idle" THEN opTx[r].id = NoOp /\ ~opTx[r].alone
                  ELSE /\ opTx[r].id \in Ops /\ Stored(opTx[r].id)
                       /\ opTx[r].pc = "update" => opTx[r].op \in Operation
\* One that is alone has seen, or is going to delete, what is there.
OpAloneOK(r) == opTx[r].alone =>
    /\ \A q \in OpReqs \ {r} : opTx[q].id # opTx[r].id
    /\ opTx[r].pc = "update" => opTx[r].members = MembersOf(opTx[r].id)
    /\ opTx[r].pc = "clear" => opTx[r].snapshot = memberRows[opTx[r].id]
    /\ opTx[r].pc \in {"insert", "commit"} => opTx[r].gone = memberRows[opTx[r].id]
    /\ opTx[r].pc = "commit" => opTx[r].op \in {NoOp, op[opTx[r].id]}
OpRequestsOK == \A r \in OpReqs : OpRequestOK(r) /\ OpAloneOK(r)

\* What is told of an operation that is there makes of the copy what was told last.
OpCopyFollows(o) ==
    /\ \A i \in DOMAIN opEvents[o] :
           /\ NewestOf(DetailsTold(o), i) => CopyOf(opListener, opEvents[o][i].op) = CopyOf(opListener, op[o])
           /\ NewestOf(MembersTold(o), i) => opEvents[o][i].members = lastTold[o]
           /\ opListener # "radio" => (opEvents[o][i].type = "created") = (i = 1 /\ opCopy[o].op = NoOp)
    /\ DetailsTold(o) = {} => opCopy[o].op = CopyOf(opListener, op[o])
    /\ MembersTold(o) = {} => opCopy[o].members = lastTold[o]
OpEventsOK(o) == /\ OpCopyFollows(o)
                 /\ ~Stored(o) => opEvents[o] = <<>> /\ lastTold[o] = {}
OpInv == /\ OpTypes /\ OpRequestsOK /\ MembersAsTold /\ DocumentIsCurrent
         /\ \A o \in Ops : OpEventsOK(o)
-----------------------------------------------------------------------------
(* What services keep.                                                     *)

\* Every service takes the members, and all but radio-delivery-svc what depends on the operation being there.
LEMMA CopiesOfOperations ==
  ASSUME NEW s \in OpListeners
  PROVE  /\ CopyOf(s, NoOp) = NoOp
         /\ \A d \in Operation : CopyOf(s, d) \in Operation \cup {NoOp, "exists"}
         /\ "members" \in OpEventsOf(s)
         /\ s # "radio" => "created" \in OpEventsOf(s) /\ \A d \in Operation : CopyOf(s, d) # NoOp
         /\ s = "radio" => OpEventsOf(s) = {"members"} /\ \A d \in Operation : CopyOf(s, d) = NoOp
         /\ "updated" \notin OpEventsOf(s) => \A d, e \in Operation : CopyOf(s, d) = CopyOf(s, e)
         /\ \A c, members : CopyMembers(s, c, members) = [c EXCEPT !.members = members]
  <1>1. s \in {"group", "logistics", "radio", "openintel"}
    BY OperationConstants
  <1>2. CASE s = "group"
    BY <1>2, OperationConstants DEF CopyOf, GroupCopyOf, OpEventsOf, GroupOpEvents, CopyMembers, GroupCopiesMembers
  <1>3. CASE s = "logistics"
    BY <1>3, OperationConstants DEF CopyOf, LogisticsCopyOf, OpEventsOf, LogisticsOpEvents, CopyMembers, LogisticsCopiesMembers
  <1>4. CASE s = "radio"
    BY <1>4, OperationConstants DEF CopyOf, RadioCopyOf, OpEventsOf, RadioOpEvents, CopyMembers, RadioCopiesMembers
  <1>5. CASE s = "openintel"
    BY <1>5, OperationConstants DEF CopyOf, OpenIntelCopyOf, OpEventsOf, OpenIntelOpEvents, CopyMembers, OpenIntelCopiesMembers
  <1> QED
    BY <1>1, <1>2, <1>3, <1>4, <1>5

\* Requests that do nothing.
LEMMA IdleOpTyped ==
  IdleOpTx \in OpTx /\ IdleOpTx.pc = "idle" /\ IdleOpTx.id = NoOp /\ IdleOpTx.alone = FALSE
  BY DEF IdleOpTx, OpTx

\* Nothing that concerns the copy of an operation has changed.
LEMMA CopyKept ==
  ASSUME NEW o \in Ops, OpEventsOK(o), op'[o] = op[o], lastTold'[o] = lastTold[o],
         opEvents'[o] = opEvents[o], opCopy'[o] = opCopy[o], opListener' = opListener
  PROVE  OpEventsOK(o)'
  <1>1. DetailsTold(o)' = DetailsTold(o) /\ MembersTold(o)' = MembersTold(o)
    BY DEF DetailsTold, MembersTold
  <1>2. OpCopyFollows(o)'
    BY <1>1 DEF OpEventsOK, OpCopyFollows, NewestOf
  <1> QED
    BY <1>2 DEF OpEventsOK, Stored

\* Another event is told.
LEMMA ToldLast ==
  ASSUME OpTypes, NEW o \in Ops, NEW e \in OpEvent, opEvents'[o] = opEvents[o] \o <<e>>
  PROVE  /\ opEvents'[o] \in Seq(OpEvent) /\ Len(opEvents'[o]) = Len(opEvents[o]) + 1
         /\ DOMAIN opEvents[o] = 1..Len(opEvents[o]) /\ Len(opEvents[o]) \in Nat
         /\ DOMAIN opEvents'[o] = 1..(Len(opEvents[o]) + 1)
         /\ \A i \in 1..Len(opEvents[o]) : opEvents'[o][i] = opEvents[o][i]
         /\ opEvents'[o][Len(opEvents[o]) + 1] = e
  <1>1. opEvents[o] \in Seq(OpEvent) /\ <<e>> \in Seq(OpEvent) /\ Len(<<e>>) = 1 /\ <<e>>[1] = e
    BY DEF OpTypes
  <1>2. Len(opEvents[o]) \in Nat /\ DOMAIN opEvents[o] = 1..Len(opEvents[o])
    BY <1>1, LenProperties
  <1>3. opEvents[o] \o <<e>> \in Seq(OpEvent) /\ Len(opEvents[o] \o <<e>>) = Len(opEvents[o]) + 1
    BY <1>1, ConcatProperties
  <1>4. \A i \in 1..(Len(opEvents[o]) + 1) :
            (opEvents[o] \o <<e>>)[i] = IF i <= Len(opEvents[o]) THEN opEvents[o][i] ELSE <<e>>[i - Len(opEvents[o])]
    BY <1>1, ConcatProperties
  <1>5. DOMAIN (opEvents[o] \o <<e>>) = 1..(Len(opEvents[o]) + 1)
    BY <1>3, LenProperties
  <1> QED
    BY <1>1, <1>2, <1>3, <1>4, <1>5

\* The operation has other details, and this is told.
LEMMA UpdatedIsTold ==
  ASSUME OpTypes, NEW o \in Ops, OpEventsOK(o), NEW details \in Operation, Stored(o), op'[o] = details,
         opEvents'[o] = opEvents[o] \o <<UpdatedEvent(details)>>,
         lastTold'[o] = lastTold[o], opCopy'[o] = opCopy[o], opListener' = opListener
  PROVE  OpEventsOK(o)' /\ opEvents'[o] \in Seq(OpEvent) /\ Len(opEvents'[o]) = Len(opEvents[o]) + 1
  <1> DEFINE n == Len(opEvents[o])
  <1>1. PICK e \in OpEvent : e = UpdatedEvent(details) /\ e.type = "updated" /\ e.op = details
    BY DEF OpEvent, UpdatedEvent
  <1>2. /\ opEvents'[o] \in Seq(OpEvent) /\ Len(opEvents'[o]) = n + 1
        /\ DOMAIN opEvents[o] = 1..n /\ n \in Nat /\ DOMAIN opEvents'[o] = 1..(n + 1)
        /\ \A i \in 1..n : opEvents'[o][i] = opEvents[o][i]
        /\ opEvents'[o][n + 1] = e
    BY <1>1, ToldLast
  <1>3. op[o] \in Operation /\ opListener \in OpListeners /\ details # NoOp
    BY OperationConstants DEF OpTypes, Stored
  <1>4. MembersTold(o)' = MembersTold(o)
    BY <1>1, <1>2 DEF MembersTold
  <1>5. \A i \in DOMAIN opEvents'[o] : NewestOf(MembersTold(o), i)' => opEvents'[o][i].members = lastTold'[o]
    BY <1>2, <1>4 DEF NewestOf, MembersTold, OpEventsOK, OpCopyFollows
  <1>6. ASSUME opListener # "radio", NEW i \in DOMAIN opEvents'[o]
        PROVE  (opEvents'[o][i].type = "created") = (i = 1 /\ opCopy'[o].op = NoOp)
    <2>1. CASE i \in 1..n
      BY <1>2, <1>6, <2>1 DEF OpEventsOK, OpCopyFollows
    <2>2. CASE i = n + 1 /\ n > 0
      BY <1>1, <1>2, <2>2
    <2>3. CASE i = n + 1 /\ n = 0
      <3>1. DetailsTold(o) = {}
        BY <1>2, <2>3 DEF DetailsTold
      <3>2. opCopy[o].op # NoOp
        BY <1>3, <1>6, <3>1, CopiesOfOperations DEF OpEventsOK, OpCopyFollows
      <3> QED
        BY <1>1, <1>2, <2>3, <3>2
    <2> QED
      BY <1>2, <2>1, <2>2, <2>3
  <1>7. CASE "updated" \in OpEventsOf(opListener)
    <2>1. n + 1 \in DetailsTold(o)'
      BY <1>1, <1>2, <1>7 DEF DetailsTold
    <2>2. \A i \in DOMAIN opEvents'[o] : NewestOf(DetailsTold(o), i)' =>
              CopyOf(opListener', opEvents'[o][i].op) = CopyOf(opListener', op'[o])
      BY <1>1, <1>2, <2>1 DEF NewestOf
    <2> QED
      BY <1>2, <1>3, <1>4, <1>5, <1>6, <2>1, <2>2 DEF OpEventsOK, OpCopyFollows, Stored
  <1>8. CASE "updated" \notin OpEventsOf(opListener)
    <2>1. DetailsTold(o)' = DetailsTold(o)
      BY <1>1, <1>2, <1>8 DEF DetailsTold
    <2>2. CopyOf(opListener, op'[o]) = CopyOf(opListener, op[o])
      BY <1>3, <1>8, CopiesOfOperations
    <2>3. \A i \in DOMAIN opEvents'[o] : NewestOf(DetailsTold(o), i)' =>
              CopyOf(opListener', opEvents'[o][i].op) = CopyOf(opListener', op'[o])
      BY <1>2, <2>1, <2>2 DEF NewestOf, DetailsTold, OpEventsOK, OpCopyFollows
    <2> QED
      BY <1>2, <1>3, <1>4, <1>5, <1>6, <2>1, <2>2, <2>3 DEF OpEventsOK, OpCopyFollows, Stored
  <1> QED
    BY <1>7, <1>8

\* The operation has other members, and this is told.
LEMMA MembersAreTold ==
  ASSUME OpTypes, NEW o \in Ops, OpEventsOK(o), NEW members \in SUBSET People, Stored(o), op'[o] = op[o],
         opEvents'[o] = opEvents[o] \o <<MembersEvent(members)>>,
         lastTold'[o] = members, opCopy'[o] = opCopy[o], opListener' = opListener
  PROVE  OpEventsOK(o)' /\ opEvents'[o] \in Seq(OpEvent) /\ Len(opEvents'[o]) = Len(opEvents[o]) + 1
  <1> DEFINE n == Len(opEvents[o])
  <1>1. PICK e \in OpEvent : e = MembersEvent(members) /\ e.type = "members" /\ e.members = members
    BY DEF OpEvent, MembersEvent
  <1>2. /\ opEvents'[o] \in Seq(OpEvent) /\ Len(opEvents'[o]) = n + 1
        /\ DOMAIN opEvents[o] = 1..n /\ n \in Nat /\ DOMAIN opEvents'[o] = 1..(n + 1)
        /\ \A i \in 1..n : opEvents'[o][i] = opEvents[o][i]
        /\ opEvents'[o][n + 1] = e
    BY <1>1, ToldLast
  <1>3. op[o] \in Operation /\ opListener \in OpListeners
    BY OperationConstants DEF OpTypes, Stored
  <1>4. DetailsTold(o)' = DetailsTold(o)
    BY <1>1, <1>2 DEF DetailsTold
  <1>5. n + 1 \in MembersTold(o)'
    BY <1>1, <1>2 DEF MembersTold
  <1>6. \A i \in DOMAIN opEvents'[o] : NewestOf(MembersTold(o), i)' => opEvents'[o][i].members = lastTold'[o]
    BY <1>1, <1>2, <1>5 DEF NewestOf
  <1>7. \A i \in DOMAIN opEvents'[o] : NewestOf(DetailsTold(o), i)' =>
            CopyOf(opListener', opEvents'[o][i].op) = CopyOf(opListener', op'[o])
    BY <1>2, <1>4 DEF NewestOf, DetailsTold, OpEventsOK, OpCopyFollows
  <1>8. ASSUME opListener # "radio", NEW i \in DOMAIN opEvents'[o]
        PROVE  (opEvents'[o][i].type = "created") = (i = 1 /\ opCopy'[o].op = NoOp)
    <2>1. CASE i \in 1..n
      BY <1>2, <1>8, <2>1 DEF OpEventsOK, OpCopyFollows
    <2>2. CASE i = n + 1 /\ n > 0
      BY <1>1, <1>2, <2>2
    <2>3. CASE i = n + 1 /\ n = 0
      <3>1. DetailsTold(o) = {}
        BY <1>2, <2>3 DEF DetailsTold
      <3>2. opCopy[o].op # NoOp
        BY <1>3, <1>8, <3>1, CopiesOfOperations DEF OpEventsOK, OpCopyFollows
      <3> QED
        BY <1>1, <1>2, <2>3, <3>2
    <2> QED
      BY <1>2, <2>1, <2>2, <2>3
  <1> QED
    BY <1>2, <1>3, <1>4, <1>5, <1>6, <1>7, <1>8 DEF OpEventsOK, OpCopyFollows, Stored

\* An operation is there, and this is told together with its members.
LEMMA CreatedIsTold ==
  ASSUME OpTypes, NEW o \in Ops, OpEventsOK(o), NEW details \in Operation, ~Stored(o), op'[o] = details,
         opEvents'[o] = opEvents[o] \o <<CreatedEvent(details), MembersEvent({})>>,
         lastTold'[o] = lastTold[o], opCopy'[o] = opCopy[o], opListener' = opListener
  PROVE  OpEventsOK(o)' /\ opEvents'[o] \in Seq(OpEvent) /\ Len(opEvents'[o]) <= Len(opEvents[o]) + 2
  <1>1. PICK e \in OpEvent : e = CreatedEvent(details) /\ e.type = "created" /\ e.op = details
    BY DEF OpEvent, CreatedEvent
  <1>2. PICK m \in OpEvent : m = MembersEvent({}) /\ m.type = "members" /\ m.members = {}
    BY DEF OpEvent, MembersEvent
  <1>3. opEvents[o] = <<>> /\ lastTold[o] = {} /\ op[o] = NoOp
    BY DEF OpEventsOK, Stored
  <1>4. opEvents'[o] = <<e, m>>
    BY <1>1, <1>2, <1>3
  <1>5. /\ opEvents'[o] \in Seq(OpEvent) /\ Len(opEvents'[o]) = 2 /\ DOMAIN opEvents'[o] = 1..2
        /\ opEvents'[o][1] = e /\ opEvents'[o][2] = m
    <2>1. /\ <<e, m>> \in Seq(OpEvent) /\ Len(<<e, m>>) = 2
          /\ <<e, m>>[1] = e /\ <<e, m>>[2] = m
      OBVIOUS
    <2>2. DOMAIN <<e, m>> = 1..2
      BY <2>1, LenProperties
    <2> QED
      BY <1>4, <2>1, <2>2
  <1>6. opListener \in OpListeners /\ details # NoOp
    BY OperationConstants DEF OpTypes
  <1>7. DetailsTold(o) = {} /\ MembersTold(o) = {}
    BY <1>3 DEF DetailsTold, MembersTold
  <1>8. opCopy[o].op = NoOp
    BY <1>3, <1>6, <1>7, CopiesOfOperations DEF OpEventsOK, OpCopyFollows
  <1>9. \A i \in 1..2 : opEvents'[o][i].type = "created" <=> i = 1
    BY <1>1, <1>2, <1>5
  <1>10. MembersTold(o)' = {2}
    BY <1>1, <1>2, <1>5 DEF MembersTold
  <1>11. CASE opListener = "radio"
    <2>1. DetailsTold(o)' = {}
      BY <1>6, <1>11, CopiesOfOperations DEF DetailsTold
    <2>2. CopyOf(opListener, details) = NoOp
      BY <1>6, <1>11, CopiesOfOperations
    <2> QED
      BY <1>2, <1>3, <1>5, <1>6, <1>8, <1>10, <1>11, <2>1, <2>2 DEF OpEventsOK, OpCopyFollows, NewestOf, Stored
  <1>12. CASE opListener # "radio"
    <2>1. DetailsTold(o)' = {1}
      BY <1>1, <1>2, <1>5, <1>6, <1>12, CopiesOfOperations DEF DetailsTold
    <2> QED
      BY <1>1, <1>2, <1>3, <1>5, <1>6, <1>8, <1>9, <1>10, <2>1 DEF OpEventsOK, OpCopyFollows, NewestOf, Stored
  <1>13. Len(opEvents[o]) = 0
    BY <1>3
  <1> QED
    BY <1>5, <1>11, <1>12, <1>13

\* A service handles an event.
LEMMA OpEventIsHandled ==
  ASSUME OpTypes, NEW o \in Ops, OpEventsOK(o), opEvents[o] # <<>>, op'[o] = op[o], lastTold'[o] = lastTold[o],
         opEvents'[o] = Tail(opEvents[o]), opListener' = opListener,
         opCopy'[o] = OpCopied(opListener, opCopy[o], Head(opEvents[o]))
  PROVE  /\ OpEventsOK(o)' /\ opEvents'[o] \in Seq(OpEvent) /\ Len(opEvents'[o]) <= Len(opEvents[o])
         /\ opCopy'[o] \in OpCopyState
  <1> DEFINE n == Len(opEvents[o])
  <1>1. PICK e \in OpEvent : e = Head(opEvents[o]) /\ e = opEvents[o][1]
    BY HeadTailProperties DEF OpTypes
  <1>2. opEvents[o] \in Seq(OpEvent) /\ n \in Nat /\ n > 0 /\ DOMAIN opEvents[o] = 1..n
    BY EmptySeq, LenProperties DEF OpTypes
  <1>3. opEvents'[o] \in Seq(OpEvent) /\ Len(opEvents'[o]) = n - 1
    BY <1>2, HeadTailProperties
  <1>4. \A i \in 1..(n - 1) : opEvents'[o][i] = opEvents[o][i + 1]
    BY <1>2, HeadTailProperties
  <1>5. DOMAIN opEvents'[o] = 1..(n - 1)
    BY <1>3, LenProperties
  <1>6. Stored(o) /\ op[o] \in Operation /\ opListener \in OpListeners /\ opCopy[o] \in OpCopyState
    BY DEF OpTypes, OpEventsOK, Stored
  <1>7. \A i \in 1..(n - 1) : /\ i \in DetailsTold(o)' <=> i + 1 \in DetailsTold(o)
                              /\ i \in MembersTold(o)' <=> i + 1 \in MembersTold(o)
    BY <1>2, <1>4, <1>5 DEF DetailsTold, MembersTold
  <1>8. /\ DetailsTold(o) \subseteq 1..n /\ MembersTold(o) \subseteq 1..n
        /\ DetailsTold(o)' \subseteq 1..(n - 1) /\ MembersTold(o)' \subseteq 1..(n - 1)
    BY <1>2, <1>5 DEF DetailsTold, MembersTold
  <1>9. \A i \in 1..(n - 1) : /\ NewestOf(DetailsTold(o), i)' => NewestOf(DetailsTold(o), i + 1)
                              /\ NewestOf(MembersTold(o), i)' => NewestOf(MembersTold(o), i + 1)
    <2> SUFFICES ASSUME NEW i \in 1..(n - 1)
                 PROVE  /\ NewestOf(DetailsTold(o), i)' => NewestOf(DetailsTold(o), i + 1)
                        /\ NewestOf(MembersTold(o), i)' => NewestOf(MembersTold(o), i + 1)
      OBVIOUS
    <2>1. ASSUME NewestOf(DetailsTold(o), i)', NEW j \in DetailsTold(o) PROVE j <= i + 1
      <3>1. j = 1 \/ j - 1 \in DetailsTold(o)'
        BY <1>2, <1>7, <1>8
      <3> QED
        BY <1>8, <2>1, <3>1 DEF NewestOf
    <2>2. ASSUME NewestOf(MembersTold(o), i)', NEW j \in MembersTold(o) PROVE j <= i + 1
      <3>1. j = 1 \/ j - 1 \in MembersTold(o)'
        BY <1>2, <1>7, <1>8
      <3> QED
        BY <1>8, <2>2, <3>1 DEF NewestOf
    <2> QED
      BY <1>7, <2>1, <2>2 DEF NewestOf
  <1>10. /\ DetailsTold(o)' = {} => DetailsTold(o) \subseteq {1}
         /\ MembersTold(o)' = {} => MembersTold(o) \subseteq {1}
    <2>1. ASSUME DetailsTold(o)' = {}, NEW j \in DetailsTold(o), j # 1 PROVE FALSE
      <3>1. j - 1 \in 1..(n - 1) /\ (j - 1) + 1 = j
        BY <1>2, <1>8, <2>1
      <3>2. j - 1 \in DetailsTold(o)'
        BY <1>7, <3>1
      <3> QED
        BY <2>1, <3>2
    <2>2. ASSUME MembersTold(o)' = {}, NEW j \in MembersTold(o), j # 1 PROVE FALSE
      <3>1. j - 1 \in 1..(n - 1) /\ (j - 1) + 1 = j
        BY <1>2, <1>8, <2>2
      <3>2. j - 1 \in MembersTold(o)'
        BY <1>7, <3>1
      <3> QED
        BY <2>2, <3>2
    <2> QED
      BY <2>1, <2>2
  <1>11. \A i \in DOMAIN opEvents'[o] :
            /\ NewestOf(DetailsTold(o), i)' => CopyOf(opListener', opEvents'[o][i].op) = CopyOf(opListener', op'[o])
            /\ NewestOf(MembersTold(o), i)' => opEvents'[o][i].members = lastTold'[o]
    <2> SUFFICES ASSUME NEW i \in 1..(n - 1)
                 PROVE  /\ NewestOf(DetailsTold(o), i)' => CopyOf(opListener', opEvents'[o][i].op) = CopyOf(opListener', op'[o])
                        /\ NewestOf(MembersTold(o), i)' => opEvents'[o][i].members = lastTold'[o]
      BY <1>5
    <2>1. i + 1 \in DOMAIN opEvents[o] /\ opEvents'[o][i] = opEvents[o][i + 1]
      BY <1>2, <1>4
    <2> QED
      BY <1>9, <2>1 DEF OpEventsOK, OpCopyFollows
  <1>12. 1 \in DOMAIN opEvents[o]
    BY <1>2
  <1>13. /\ 1 \in DetailsTold(o) <=> e.type \in OpEventsOf(opListener) \ {"members"}
         /\ 1 \in MembersTold(o) <=> e.type = "members"
    BY <1>1, <1>12 DEF DetailsTold, MembersTold
  <1>14. CASE e.type = "members"
    <2>1. e.members \in SUBSET People
      BY <1>14 DEF OpEvent
    <2>2. opCopy'[o] = [opCopy[o] EXCEPT !.members = e.members]
      BY <1>1, <1>6, <1>14, CopiesOfOperations DEF OpCopied
    <2>3. opCopy'[o] \in OpCopyState /\ opCopy'[o].op = opCopy[o].op /\ opCopy'[o].members = e.members
      BY <1>6, <2>1, <2>2 DEF OpCopyState
    <2>4. MembersTold(o)' = {} => NewestOf(MembersTold(o), 1)
      BY <1>10, <1>13, <1>14 DEF NewestOf
    <2>5. MembersTold(o)' = {} => opCopy'[o].members = lastTold'[o]
      BY <1>1, <1>12, <2>3, <2>4 DEF OpEventsOK, OpCopyFollows
    <2>6. DetailsTold(o)' = {} => opCopy'[o].op = CopyOf(opListener', op'[o])
      <3>1. DetailsTold(o)' = {} => DetailsTold(o) = {}
        BY <1>10, <1>13, <1>14
      <3> QED
        BY <2>3, <3>1 DEF OpEventsOK, OpCopyFollows
    <2>7. opListener # "radio" => opCopy'[o].op # NoOp
      BY <1>1, <1>12, <1>14, <2>3 DEF OpEventsOK, OpCopyFollows
    <2>8. ASSUME NEW i \in DOMAIN opEvents'[o], opListener # "radio"
          PROVE  (opEvents'[o][i].type = "created") = (i = 1 /\ opCopy'[o].op = NoOp)
      <3>1. i + 1 \in DOMAIN opEvents[o] /\ opEvents'[o][i] = opEvents[o][i + 1] /\ i + 1 # 1
        BY <1>2, <1>4, <1>5
      <3> QED
        BY <2>7, <2>8, <3>1 DEF OpEventsOK, OpCopyFollows
    <2> QED
      BY <1>2, <1>3, <1>6, <1>11, <2>3, <2>5, <2>6, <2>8 DEF OpEventsOK, OpCopyFollows, Stored
  <1>15. CASE e.type # "members"
    <2>1. e.op \in Operation /\ e.type \in {"created", "updated"}
      BY <1>15 DEF OpEvent
    <2>2. opCopy'[o] = IF 1 \in DetailsTold(o) THEN [opCopy[o] EXCEPT !.op = CopyOf(opListener, e.op)] ELSE opCopy[o]
      BY <1>1, <1>13, <1>15 DEF OpCopied
    <2>3. CopyOf(opListener, e.op) \in Operation \cup {NoOp, "exists"}
      BY <1>6, <2>1, CopiesOfOperations
    <2>4. /\ opCopy'[o] \in OpCopyState /\ opCopy'[o].members = opCopy[o].members
          /\ opCopy'[o].op = IF 1 \in DetailsTold(o) THEN CopyOf(opListener, e.op) ELSE opCopy[o].op
      BY <1>6, <2>2, <2>3 DEF OpCopyState
    <2>5. MembersTold(o)' = {} => opCopy'[o].members = lastTold'[o]
      <3>1. MembersTold(o)' = {} => MembersTold(o) = {}
        BY <1>10, <1>13, <1>15
      <3> QED
        BY <2>4, <3>1 DEF OpEventsOK, OpCopyFollows
    <2>6. DetailsTold(o)' = {} => opCopy'[o].op = CopyOf(opListener', op'[o])
      <3>1. CASE 1 \in DetailsTold(o)
        <4>1. DetailsTold(o)' = {} => NewestOf(DetailsTold(o), 1)
          BY <1>10, <3>1 DEF NewestOf
        <4> QED
          BY <1>1, <1>12, <2>4, <3>1, <4>1 DEF OpEventsOK, OpCopyFollows
      <3>2. CASE 1 \notin DetailsTold(o)
        <4>1. DetailsTold(o)' = {} => DetailsTold(o) = {}
          BY <1>10, <3>2
        <4> QED
          BY <2>4, <3>2, <4>1 DEF OpEventsOK, OpCopyFollows
      <3> QED
        BY <3>1, <3>2
    <2>7. opListener # "radio" => opCopy'[o].op # NoOp
      <3>1. CASE e.type = "created"
        BY <1>6, <1>13, <1>15, <2>1, <2>4, <3>1, CopiesOfOperations
      <3>2. CASE e.type # "created"
        <4>1. opListener # "radio" => opCopy[o].op # NoOp
          BY <1>1, <1>12, <3>2 DEF OpEventsOK, OpCopyFollows
        <4> QED
          BY <1>6, <2>1, <2>4, <4>1, CopiesOfOperations
      <3> QED
        BY <3>1, <3>2
    <2>8. ASSUME NEW i \in DOMAIN opEvents'[o], opListener # "radio"
          PROVE  (opEvents'[o][i].type = "created") = (i = 1 /\ opCopy'[o].op = NoOp)
      <3>1. i + 1 \in DOMAIN opEvents[o] /\ opEvents'[o][i] = opEvents[o][i + 1] /\ i + 1 # 1
        BY <1>2, <1>4, <1>5
      <3> QED
        BY <2>7, <2>8, <3>1 DEF OpEventsOK, OpCopyFollows
    <2> QED
      BY <1>2, <1>3, <1>6, <1>11, <2>4, <2>5, <2>6, <2>8 DEF OpEventsOK, OpCopyFollows, Stored
  <1> QED
    BY <1>14, <1>15
-----------------------------------------------------------------------------
(* Requests.                                                               *)

\* Only requests have changed.
LEMMA OpTxStep ==
  ASSUME OpInv, UNCHANGED <<op, memberRows, document, opListener, opEvents, opCopy, lastTold, torn, unindexed>>,
         opTx' \in [OpReqs -> OpTx], OpRequestsOK'
  PROVE  OpInv'
  <1>1. OpTypes' /\ MembersAsTold' /\ DocumentIsCurrent'
    BY DEF OpInv, OpTypes, MembersAsTold, DocumentIsCurrent, MembersOf, Stored
  <1>2. \A o \in Ops : OpEventsOK(o)'
    BY CopyKept DEF OpInv
  <1> QED
    BY <1>1, <1>2 DEF OpInv

\* One starts, and others that concern the same operation are no longer alone.
LEMMA OpStartStep ==
  ASSUME OpInv, NEW r \in OpReqs, NEW change \in OpTx, StartOpTx(r, change),
         change.pc \in {"update", "clear"}, change.id \in Ops, Stored(change.id),
         change.pc = "update" => change.op \in Operation /\ change.members = MembersOf(change.id),
         change.pc = "clear" => change.snapshot = memberRows[change.id]
  PROVE  OpInv'
  <1> DEFINE b == \A p \in OpReqs : opTx[p].id # change.id
  <1>1. PICK x \in OpTx : x = [change EXCEPT !.alone = b]
    BY DEF OpTx
  <1>2. x.pc = change.pc /\ x.id = change.id /\ x.alone = b /\ x.op = change.op
        /\ x.members = change.members /\ x.snapshot = change.snapshot
    BY <1>1 DEF OpTx
  <1>3. \A q \in OpReqs : opTx[q] \in OpTx /\ [opTx[q] EXCEPT !.alone = FALSE] \in OpTx
    BY DEF OpInv, OpTypes, OpTx
  <1>4. /\ opTx[r].pc = "idle" /\ opTx[r].id = NoOp
        /\ UNCHANGED <<op, memberRows, document, opListener, opEvents, opCopy, lastTold, torn, unindexed>>
    BY DEF StartOpTx, OpInv, OpRequestsOK, OpRequestOK
  <1>5. /\ opTx' = [q \in OpReqs |-> IF q = r THEN x
                                     ELSE IF opTx[q].id = change.id THEN [opTx[q] EXCEPT !.alone = FALSE]
                                     ELSE opTx[q]]
    BY <1>1 DEF StartOpTx
  <1>6. opTx' \in [OpReqs -> OpTx]
    BY <1>3, <1>5
  <1>7. \A q \in OpReqs \ {r} : /\ opTx'[q].pc = opTx[q].pc /\ opTx'[q].id = opTx[q].id
                                /\ opTx'[q].op = opTx[q].op
                                /\ opTx'[q].alone => opTx'[q] = opTx[q] /\ opTx[q].id # change.id
    BY <1>3, <1>5 DEF OpTx
  <1>8. opTx'[r] = x
    BY <1>5
  <1>9. ASSUME NEW q \in OpReqs PROVE OpRequestOK(q)'
    <2>1. CASE q = r
      BY <1>2, <1>4, <1>8, <2>1 DEF OpRequestOK, Stored
    <2>2. CASE q # r
      <3>1. opTx'[q].alone => opTx[q].alone
        BY <1>7, <2>2
      <3> QED
        BY <1>4, <1>7, <2>2, <3>1 DEF OpInv, OpRequestsOK, OpRequestOK, Stored
    <2> QED
      BY <2>1, <2>2
  <1>10. ASSUME NEW q \in OpReqs PROVE OpAloneOK(q)'
    <2>1. CASE q = r
      BY <1>2, <1>4, <1>7, <1>8, <2>1 DEF OpAloneOK, MembersOf
    <2>2. CASE q # r
      <3> SUFFICES ASSUME opTx'[q].alone PROVE OpAloneOK(q)'
        BY DEF OpAloneOK
      <3>1. opTx'[q] = opTx[q] /\ opTx[q].id # change.id /\ opTx[q].alone
        BY <1>7, <2>2
      <3>2. \A p \in OpReqs \ {q} : opTx'[p].id # opTx'[q].id
        BY <1>2, <1>7, <1>8, <2>2, <3>1 DEF OpInv, OpRequestsOK, OpAloneOK
      <3> QED
        BY <1>4, <3>1, <3>2 DEF OpInv, OpRequestsOK, OpAloneOK, MembersOf
    <2> QED
      BY <2>1, <2>2
  <1> QED
    BY <1>4, <1>6, <1>9, <1>10, OpTxStep DEF OpRequestsOK

\* One goes on.
LEMMA OpGoesOn ==
  ASSUME OpInv, NEW r \in OpReqs, NEW x \in OpTx, StepOpTx(r, x), opTx[r].pc # "idle",
         x.pc \in {"insert", "commit"}, x.id = opTx[r].id, x.alone = opTx[r].alone,
         x.alone => x.gone = memberRows[x.id] /\ (x.pc = "commit" => x.op \in {NoOp, op[x.id]})
  PROVE  OpInv'
  <1>1. /\ opTx'[r] = x /\ \A q \in OpReqs \ {r} : opTx'[q] = opTx[q]
        /\ opTx' \in [OpReqs -> OpTx]
        /\ UNCHANGED <<op, memberRows, document, opListener, opEvents, opCopy, lastTold, torn, unindexed>>
    BY DEF StepOpTx, OpInv, OpTypes
  <1>2. ASSUME NEW q \in OpReqs PROVE OpRequestOK(q)'
    BY <1>1 DEF OpInv, OpRequestsOK, OpRequestOK, Stored
  <1>3. \A q \in OpReqs : opTx'[q].id = opTx[q].id
    BY <1>1
  <1>4. ASSUME NEW q \in OpReqs PROVE OpAloneOK(q)'
    <2>1. CASE q = r
      <3> SUFFICES ASSUME x.alone PROVE OpAloneOK(r)'
        BY <1>1, <2>1 DEF OpAloneOK
      <3>1. \A p \in OpReqs \ {r} : opTx[p].id # opTx[r].id
        BY DEF OpInv, OpRequestsOK, OpAloneOK
      <3>2. \A p \in OpReqs \ {r} : opTx'[p].id # opTx'[r].id
        BY <1>3, <3>1
      <3> QED
        BY <1>1, <3>2 DEF OpAloneOK
    <2>2. CASE q # r
      BY <1>1, <1>3, <2>2 DEF OpInv, OpRequestsOK, OpAloneOK, MembersOf
    <2> QED
      BY <2>1, <2>2
  <1> QED
    BY <1>1, <1>2, <1>4, OpTxStep DEF OpRequestsOK

\* One ends.
LEMMA OpAbortStep ==
  ASSUME OpInv, NEW r \in OpReqs, AbortOpTx(r)
  PROVE  OpInv'
  <1>1. /\ opTx'[r] = IdleOpTx /\ \A q \in OpReqs \ {r} : opTx'[q] = opTx[q]
        /\ opTx' \in [OpReqs -> OpTx]
        /\ UNCHANGED <<op, memberRows, document, opListener, opEvents, opCopy, lastTold, torn, unindexed>>
    BY IdleOpTyped DEF AbortOpTx, StepOpTx, OpInv, OpTypes
  <1>2. ASSUME NEW q \in OpReqs PROVE OpRequestOK(q)'
    BY <1>1, IdleOpTyped DEF OpInv, OpRequestsOK, OpRequestOK, Stored
  <1>3. ASSUME NEW q \in OpReqs PROVE OpAloneOK(q)'
    <2>1. CASE q = r
      BY <1>1, <2>1, IdleOpTyped DEF OpAloneOK
    <2>2. CASE q # r
      <3> SUFFICES ASSUME opTx[q].alone PROVE OpAloneOK(q)'
        BY <1>1, <2>2 DEF OpAloneOK
      <3>1. opTx[q].id # NoOp
        BY OperationConstants DEF OpInv, OpRequestsOK, OpRequestOK
      <3>2. \A p \in OpReqs \ {q} : opTx'[p].id # opTx'[q].id
        BY <1>1, <2>2, <3>1, IdleOpTyped DEF OpInv, OpRequestsOK, OpAloneOK
      <3> QED
        BY <1>1, <2>2, <3>2 DEF OpInv, OpRequestsOK, OpAloneOK, MembersOf
    <2> QED
      BY <2>1, <2>2
  <1> QED
    BY <1>1, <1>2, <1>3, OpTxStep DEF OpRequestsOK

\* UpdateOperation and UpdateOperationMembersByOperation begin.
LEMMA OpUpdateStep ==
  ASSUME OpInv, NEW r \in OpReqs, NEW o \in Ops, NEW details \in Operation, UpdateOperation(r, o, details)
  PROVE  OpInv'
  <1> DEFINE c == [IdleOpTx EXCEPT !.pc = "update", !.id = o, !.op = details, !.members = MembersOf(o)]
  <1>1. MembersOf(o) \in SUBSET People
    BY DEF MembersOf, OpInv, OpTypes, MemberRow
  <1>2. c \in OpTx /\ c.pc = "update" /\ c.id = o /\ c.op = details /\ c.members = MembersOf(o)
    BY <1>1, IdleOpTyped DEF IdleOpTx, OpTx
  <1>3. StartOpTx(r, c) /\ Stored(o)
    BY DEF UpdateOperation
  <1> HIDE DEF c
  <1> QED
    BY <1>2, <1>3, OpStartStep

LEMMA OpStartMembersStep ==
  ASSUME OpInv, NEW r \in OpReqs, NEW o \in Ops, NEW members \in SUBSET People, StartUpdateMembers(r, o, members)
  PROVE  OpInv'
  <1> DEFINE c == [IdleOpTx EXCEPT !.pc = "clear", !.id = o, !.members = members, !.snapshot = memberRows[o]]
  <1>1. memberRows[o] \in SUBSET MemberRow
    BY DEF OpInv, OpTypes
  <1>2. c \in OpTx /\ c.pc = "clear" /\ c.id = o /\ c.snapshot = memberRows[o]
    BY <1>1, IdleOpTyped DEF IdleOpTx, OpTx
  <1>3. StartOpTx(r, c) /\ Stored(o)
    BY DEF StartUpdateMembers
  <1> HIDE DEF c
  <1> QED
    BY <1>2, <1>3, OpStartStep

\* The DELETE and the INSERT.
LEMMA OpClearStep ==
  ASSUME OpInv, NEW r \in OpReqs, ClearMembers(r)
  PROVE  OpInv'
  <1>1. opTx[r] \in OpTx /\ opTx[r].pc = "clear"
    BY DEF OpInv, OpTypes, ClearMembers
  <1>2. PICK x \in OpTx : x = [opTx[r] EXCEPT !.pc = "insert", !.gone = opTx[r].snapshot, !.snapshot = {}]
    BY <1>1 DEF OpTx
  <1>3. x.pc = "insert" /\ x.id = opTx[r].id /\ x.alone = opTx[r].alone /\ x.gone = opTx[r].snapshot
    BY <1>1, <1>2 DEF OpTx
  <1>4. x.alone => x.gone = memberRows[x.id]
    BY <1>1, <1>3 DEF OpInv, OpRequestsOK, OpAloneOK
  <1>5. StepOpTx(r, x)
    BY <1>2 DEF ClearMembers
  <1> QED
    BY <1>1, <1>3, <1>4, <1>5, OpGoesOn

LEMMA OpInsertStep ==
  ASSUME OpInv, NEW r \in OpReqs, InsertMembers(r)
  PROVE  OpInv'
  <1> DEFINE d == IF opTx[r].members = {} THEN NoOp ELSE op[opTx[r].id]
  <1>1. opTx[r] \in OpTx /\ opTx[r].pc = "insert" /\ opTx[r].id \in Ops
    BY DEF OpInv, OpTypes, InsertMembers, OpRequestsOK, OpRequestOK
  <1>2. d \in Operation \cup {NoOp} /\ d \in {NoOp, op[opTx[r].id]}
    BY <1>1 DEF OpInv, OpTypes
  <1>3. PICK x \in OpTx : x = [opTx[r] EXCEPT !.pc = "commit", !.op = d]
    BY <1>1, <1>2 DEF OpTx
  <1>4. x.pc = "commit" /\ x.id = opTx[r].id /\ x.alone = opTx[r].alone /\ x.gone = opTx[r].gone /\ x.op = d
    BY <1>1, <1>3 DEF OpTx
  <1>5. x.alone => x.gone = memberRows[x.id]
    BY <1>1, <1>4 DEF OpInv, OpRequestsOK, OpAloneOK
  <1>6. StepOpTx(r, x)
    BY <1>3 DEF InsertMembers
  <1> HIDE DEF d
  <1> QED
    BY <1>1, <1>2, <1>4, <1>5, <1>6, OpGoesOn

-----------------------------------------------------------------------------
(* Commits, and what services make of them.                                *)

\* The transactions that go on when another one has committed a change of an operation.
LEMMA OpOthersGoOn ==
  ASSUME OpInv, NEW r \in OpReqs, opTx[r].pc # "idle", opTx' \in [OpReqs -> OpTx], opTx'[r] = IdleOpTx,
         \A q \in OpReqs \ {r} : \/ opTx'[q] = opTx[q]
                                 \/ /\ opTx[q].id = opTx[r].id /\ opTx'[q].id = opTx[q].id
                                    /\ opTx'[q].alone = opTx[q].alone /\ opTx'[q].pc = opTx[q].pc
                                    /\ opTx'[q].op = opTx[q].op,
         \A o \in Ops : Stored(o) => Stored(o)',
         \A o \in Ops \ {opTx[r].id} : op'[o] = op[o] /\ memberRows'[o] = memberRows[o]
  PROVE  OpRequestsOK'
  <1>1. ASSUME NEW q \in OpReqs PROVE OpRequestOK(q)'
    BY <1>1, IdleOpTyped DEF OpInv, OpRequestsOK, OpRequestOK
  <1>2. ASSUME NEW q \in OpReqs PROVE OpAloneOK(q)'
    <2>1. CASE q = r
      BY <2>1, IdleOpTyped DEF OpAloneOK
    <2>2. CASE q # r
      <3> SUFFICES ASSUME opTx'[q].alone PROVE OpAloneOK(q)'
        BY DEF OpAloneOK
      <3>1. opTx[q].alone
        BY <2>2
      <3>2. opTx[q].id # opTx[r].id /\ \A p \in OpReqs \ {q} : opTx[p].id # opTx[q].id
        BY <2>2, <3>1 DEF OpInv, OpRequestsOK, OpAloneOK
      <3>3. opTx'[q] = opTx[q] /\ opTx[q].id \in Ops \ {opTx[r].id}
        BY <2>2, <3>1, <3>2 DEF OpInv, OpRequestsOK, OpRequestOK
      <3>4. opTx[q].id # NoOp
        BY <3>3, OperationConstants
      <3>5. \A p \in OpReqs \ {q} : opTx'[p].id # opTx'[q].id
        BY <2>2, <3>2, <3>3, <3>4, IdleOpTyped
      <3>6. op'[opTx[q].id] = op[opTx[q].id] /\ memberRows'[opTx[q].id] = memberRows[opTx[q].id]
        BY <3>3
      <3> QED
        BY <3>1, <3>3, <3>5, <3>6 DEF OpInv, OpRequestsOK, OpAloneOK, MembersOf
    <2> QED
      BY <2>1, <2>2
  <1> QED
    BY <1>1, <1>2 DEF OpRequestsOK

\* A row, its document and the events.
LEMMA OpCreateStep ==
  ASSUME OpInv, NEW o \in Ops, NEW details \in Operation, CreateOperation(o, details)
  PROVE  OpInv'
  <1>1. /\ ~Stored(o) /\ op[o] = NoOp /\ details # NoOp /\ Len(opEvents[o]) < MaxOpEvents
        /\ op' = [op EXCEPT ![o] = details]
        /\ document' = [document EXCEPT ![o] = [op |-> details, members |-> MembersOf(o)]]
        /\ opEvents' = [opEvents EXCEPT ![o] = opEvents[o] \o <<CreatedEvent(details), MembersEvent({})>>]
        /\ UNCHANGED <<memberRows, opTx, opListener, opCopy, lastTold, torn, unindexed>>
    BY OperationConstants DEF CreateOperation, InsertOperation, TellOperation, Stored
  <1>2. /\ opEvents'[o] = opEvents[o] \o <<CreatedEvent(details), MembersEvent({})>>
        /\ \A p \in Ops \ {o} : opEvents'[p] = opEvents[p]
        /\ opEvents' = [p \in Ops |-> IF p = o THEN opEvents'[o] ELSE opEvents[p]]
    BY <1>1 DEF OpInv, OpTypes
  <1>3. op'[o] = details /\ \A p \in Ops \ {o} : op'[p] = op[p]
    BY <1>1 DEF OpInv, OpTypes
  <1>4. OpEventsOK(o)' /\ opEvents'[o] \in Seq(OpEvent) /\ Len(opEvents'[o]) <= Len(opEvents[o]) + 2
    BY <1>1, <1>2, <1>3, CreatedIsTold DEF OpInv
  <1>5. \A p \in Ops \ {o} : OpEventsOK(p)'
    BY <1>1, <1>2, <1>3, CopyKept DEF OpInv
  <1>6. MembersOf(o) \in SUBSET People
    BY DEF MembersOf, OpInv, OpTypes, MemberRow
  <1>7. document' \in [Ops -> OpDocument \cup {NoOp}]
    BY <1>1, <1>6 DEF OpInv, OpTypes, OpDocument
  <1>8. Len(opEvents[o]) \in Nat /\ Len(opEvents'[o]) \in Nat
    BY <1>4, LenProperties DEF OpInv, OpTypes
  <1>9. \A p \in Ops : Len(opEvents'[p]) <= MaxOpEvents + 1
    BY <1>1, <1>2, <1>4, <1>8, OperationConstants DEF OpInv, OpTypes
  <1>10. OpTypes'
    BY <1>1, <1>2, <1>4, <1>7, <1>9 DEF OpInv, OpTypes
  <1>11. MembersAsTold'
    BY <1>1 DEF OpInv, MembersAsTold, MembersOf
  <1>12. DocumentIsCurrent'
    BY <1>1, <1>3 DEF OpInv, OpTypes, DocumentIsCurrent, MembersOf, Stored
  <1>13. ASSUME NEW q \in OpReqs PROVE OpRequestOK(q)' /\ OpAloneOK(q)'
    <2>1. opTx[q].pc # "idle" => opTx[q].id # o
      BY <1>1 DEF OpInv, OpRequestsOK, OpRequestOK
    <2>2. OpRequestOK(q)'
      BY <1>1, <1>3, <2>1 DEF OpInv, OpRequestsOK, OpRequestOK, Stored
    <2>3. OpAloneOK(q)'
      BY <1>1, <1>3, <2>1 DEF OpInv, OpRequestsOK, OpRequestOK, OpAloneOK, MembersOf
    <2> QED
      BY <2>2, <2>3
  <1> QED
    BY <1>4, <1>5, <1>10, <1>11, <1>12, <1>13 DEF OpInv, OpRequestsOK

\* The details are written, with the members that were read for the document.
LEMMA OpCommitUpdateStep ==
  ASSUME OpInv, NEW r \in OpReqs, CommitUpdate(r)
  PROVE  OpInv'
  <1>0. PICK o \in Ops, d \in Operation : o = opTx[r].id /\ d = opTx[r].op
    BY DEF CommitUpdate, OpInv, OpRequestsOK, OpRequestOK
  <1>1. opTx[r] \in OpTx /\ o \in Ops /\ Stored(o) /\ d \in Operation /\ opTx[r].pc = "update" /\ d # NoOp
    BY <1>0, OperationConstants DEF CommitUpdate, OpInv, OpTypes, OpRequestsOK, OpRequestOK
  <1>2. /\ Len(opEvents[o]) < MaxOpEvents
        /\ op' = [op EXCEPT ![o] = d]
        /\ document' = [document EXCEPT ![o] = [op |-> d, members |-> opTx[r].members]]
        /\ opEvents' = [opEvents EXCEPT ![o] = opEvents[o] \o <<UpdatedEvent(d)>>]
        /\ unindexed' = IF opTx[r].alone THEN unindexed \ {o} ELSE unindexed \cup {o}
        /\ opTx' = [opTx EXCEPT ![r] = IdleOpTx]
        /\ UNCHANGED <<memberRows, opListener, opCopy, lastTold, torn>>
    BY <1>0 DEF CommitUpdate, DocumentOf, TellOperation
  <1>3. /\ opEvents'[o] = opEvents[o] \o <<UpdatedEvent(d)>>
        /\ \A p \in Ops \ {o} : opEvents'[p] = opEvents[p]
        /\ opEvents' = [p \in Ops |-> IF p = o THEN opEvents'[o] ELSE opEvents[p]]
    BY <1>1, <1>2 DEF OpInv, OpTypes
  <1>4. op'[o] = d /\ \A p \in Ops \ {o} : op'[p] = op[p]
    BY <1>1, <1>2 DEF OpInv, OpTypes
  <1>5. OpEventsOK(o)' /\ opEvents'[o] \in Seq(OpEvent) /\ Len(opEvents'[o]) = Len(opEvents[o]) + 1
    BY <1>1, <1>2, <1>3, <1>4, UpdatedIsTold DEF OpInv
  <1>6. \A p \in Ops \ {o} : OpEventsOK(p)'
    BY <1>2, <1>3, <1>4, CopyKept DEF OpInv
  <1>7. document' \in [Ops -> OpDocument \cup {NoOp}]
    BY <1>1, <1>2 DEF OpInv, OpTypes, OpDocument, OpTx
  <1>8. Len(opEvents[o]) \in Nat
    BY <1>1, LenProperties DEF OpInv, OpTypes
  <1>9. \A p \in Ops : Len(opEvents'[p]) <= MaxOpEvents + 1
    BY <1>2, <1>3, <1>5, <1>8, OperationConstants DEF OpInv, OpTypes
  <1>10. opTx' \in [OpReqs -> OpTx] /\ opTx'[r] = IdleOpTx /\ \A q \in OpReqs \ {r} : opTx'[q] = opTx[q]
    BY <1>2, IdleOpTyped DEF OpInv, OpTypes
  <1>11. OpTypes'
    BY <1>1, <1>2, <1>3, <1>5, <1>7, <1>9, <1>10 DEF OpInv, OpTypes
  <1>12. MembersAsTold'
    BY <1>2 DEF OpInv, MembersAsTold, MembersOf
  <1>13. ASSUME NEW p \in Ops, Stored(p)', p \notin unindexed'
         PROVE  document'[p] = [op |-> op'[p], members |-> MembersOf(p)']
    <2>1. MembersOf(p)' = MembersOf(p)
      BY <1>2 DEF MembersOf
    <2>2. CASE p # o
      BY <1>2, <1>4, <1>13, <2>1, <2>2 DEF OpInv, OpTypes, DocumentIsCurrent, Stored
    <2>3. CASE p = o
      <3>1. opTx[r].alone
        BY <1>2, <1>13, <2>3
      <3>2. opTx[r].members = MembersOf(o)
        BY <1>0, <1>1, <3>1 DEF OpInv, OpRequestsOK, OpAloneOK
      <3> QED
        BY <1>2, <1>4, <2>1, <2>3, <3>2 DEF OpInv, OpTypes
    <2> QED
      BY <2>2, <2>3
  <1>14. DocumentIsCurrent'
    BY <1>13 DEF DocumentIsCurrent
  <1>15. \A p \in Ops : Stored(p) => Stored(p)'
    BY <1>1, <1>4 DEF Stored
  <1>16. OpRequestsOK'
    BY <1>0, <1>1, <1>2, <1>4, <1>10, <1>15, OpOthersGoOn
  <1> QED
    BY <1>5, <1>6, <1>11, <1>12, <1>14, <1>16 DEF OpInv

\* The rows of members are replaced, and the list is told.
LEMMA OpCommitMembersStep ==
  ASSUME OpInv, NEW r \in OpReqs, CommitMembers(r)
  PROVE  OpInv'
  <1>0. PICK o \in Ops, list \in SUBSET People : o = opTx[r].id /\ list = opTx[r].members
    BY DEF CommitMembers, OpInv, OpTypes, OpRequestsOK, OpRequestOK, OpTx
  <1> DEFINE others(q) == IF opTx[q].id = o THEN [opTx[q] EXCEPT !.snapshot = @ \ opTx[r].gone] ELSE opTx[q]
  <1>1. /\ opTx[r] \in OpTx /\ o \in Ops /\ Stored(o) /\ opTx[r].pc = "commit" /\ list \in SUBSET People
        /\ opTx[r].op \in Operation \cup {NoOp}
    BY <1>0 DEF CommitMembers, OpInv, OpTypes, OpRequestsOK, OpRequestOK, OpTx
  <1>2. /\ Len(opEvents[o]) < MaxOpEvents
        /\ memberRows' = [memberRows EXCEPT ![o] = RowsAfter(r, o)]
        /\ document' = IF opTx[r].op = NoOp THEN document
                       ELSE [document EXCEPT ![o] = [op |-> opTx[r].op, members |-> list]]
        /\ opEvents' = [opEvents EXCEPT ![o] = opEvents[o] \o <<MembersEvent(list)>>]
        /\ lastTold' = [lastTold EXCEPT ![o] = list]
        /\ torn' = IF opTx[r].alone THEN torn \ {o} ELSE torn \cup {o}
        /\ unindexed' = IF opTx[r].alone /\ opTx[r].op # NoOp THEN unindexed \ {o} ELSE unindexed \cup {o}
        /\ opTx' = [q \in OpReqs |-> IF q = r THEN IdleOpTx ELSE others(q)]
        /\ UNCHANGED <<op, opListener, opCopy>>
    BY <1>0 DEF CommitMembers, DocumentOf, TellOperation
  <1>3. /\ opEvents'[o] = opEvents[o] \o <<MembersEvent(list)>>
        /\ \A p \in Ops \ {o} : opEvents'[p] = opEvents[p]
        /\ opEvents' = [p \in Ops |-> IF p = o THEN opEvents'[o] ELSE opEvents[p]]
    BY <1>1, <1>2 DEF OpInv, OpTypes
  <1>4. lastTold'[o] = list /\ \A p \in Ops \ {o} : lastTold'[p] = lastTold[p]
    BY <1>1, <1>2 DEF OpInv, OpTypes
  <1>5. OpEventsOK(o)' /\ opEvents'[o] \in Seq(OpEvent) /\ Len(opEvents'[o]) = Len(opEvents[o]) + 1
    BY <1>1, <1>2, <1>3, <1>4, MembersAreTold DEF OpInv
  <1>6. \A p \in Ops \ {o} : OpEventsOK(p)'
    BY <1>2, <1>3, <1>4, CopyKept DEF OpInv
  <1>7. RowsAfter(r, o) \in SUBSET MemberRow
    <2>1. [user : list, by : {r}] \subseteq MemberRow
      BY DEF MemberRow
    <2> QED
      BY <1>0, <1>1, <2>1 DEF RowsAfter, OpInv, OpTypes
  <1>8. memberRows'[o] = RowsAfter(r, o) /\ \A p \in Ops \ {o} : memberRows'[p] = memberRows[p]
    BY <1>1, <1>2 DEF OpInv, OpTypes
  <1>9. ASSUME NEW q \in OpReqs
        PROVE  /\ others(q) \in OpTx /\ others(q).id = opTx[q].id /\ others(q).alone = opTx[q].alone
               /\ others(q).pc = opTx[q].pc /\ others(q).op = opTx[q].op
               /\ opTx[q].id # o => others(q) = opTx[q]
    BY DEF OpInv, OpTypes, OpTx
  <1>10. opTx' \in [OpReqs -> OpTx] /\ opTx'[r] = IdleOpTx /\ \A q \in OpReqs \ {r} : opTx'[q] = others(q)
    BY <1>2, <1>9, IdleOpTyped DEF OpInv, OpTypes
  <1>11. document' \in [Ops -> OpDocument \cup {NoOp}]
    BY <1>1, <1>2 DEF OpInv, OpTypes, OpDocument
  <1>12. Len(opEvents[o]) \in Nat
    BY <1>1, LenProperties DEF OpInv, OpTypes
  <1>13. \A p \in Ops : Len(opEvents'[p]) <= MaxOpEvents + 1
    BY <1>2, <1>3, <1>5, <1>12, OperationConstants DEF OpInv, OpTypes
  <1>14. torn' \subseteq Ops /\ unindexed' \subseteq Ops
    BY <1>1, <1>2 DEF OpInv, OpTypes
  <1>15. OpTypes'
    BY <1>1, <1>2, <1>3, <1>5, <1>7, <1>10, <1>11, <1>13, <1>14 DEF OpInv, OpTypes
  <1>16. /\ list \subseteq MembersOf(o)'
         /\ opTx[r].alone => MembersOf(o)' = list
    <2>1. \A m \in list : [user |-> m, by |-> r] \in memberRows'[o]
      BY <1>0, <1>8 DEF RowsAfter
    <2>2. opTx[r].alone => memberRows'[o] = [user : list, by : {r}]
      BY <1>0, <1>1, <1>8 DEF RowsAfter, OpInv, OpRequestsOK, OpAloneOK
    <2>3. \A m \in list : m \in MembersOf(o)'
      <3> SUFFICES ASSUME NEW m \in list PROVE m \in {row.user : row \in memberRows'[o]}
        BY DEF MembersOf
      <3>1. PICK row : row = [user |-> m, by |-> r] /\ row \in memberRows'[o]
        BY <2>1
      <3>2. row.user = m
        BY <3>1
      <3> QED
        BY <3>1, <3>2
    <2>4. ASSUME opTx[r].alone, NEW m \in MembersOf(o)' PROVE m \in list
      <3>1. PICK row \in memberRows'[o] : m = row.user
        BY DEF MembersOf
      <3>2. row \in [user : list, by : {r}]
        BY <2>2, <2>4, <3>1
      <3> QED
        BY <3>1, <3>2
    <2> QED
      BY <2>3, <2>4
  <1>17. \A p \in Ops \ {o} : MembersOf(p)' = MembersOf(p)
    BY <1>8 DEF MembersOf
  <1>18. MembersAsTold'
    <2>1. ASSUME NEW p \in Ops
          PROVE  lastTold'[p] \subseteq MembersOf(p)' /\ (p \in torn' \/ MembersOf(p)' = lastTold'[p])
      <3>1. CASE p = o
        BY <1>2, <1>4, <1>16, <3>1
      <3>2. CASE p # o
        BY <1>2, <1>4, <1>17, <3>2 DEF OpInv, MembersAsTold
      <3> QED
        BY <3>1, <3>2
    <2> QED
      BY <2>1 DEF MembersAsTold
  <1>19. ASSUME NEW p \in Ops, Stored(p)', p \notin unindexed'
         PROVE  document'[p] = [op |-> op'[p], members |-> MembersOf(p)']
    <2>1. CASE p # o
      BY <1>2, <1>17, <1>19, <2>1 DEF OpInv, OpTypes, DocumentIsCurrent, Stored
    <2>2. CASE p = o
      <3>1. opTx[r].alone /\ opTx[r].op # NoOp
        BY <1>2, <1>19, <2>2
      <3>2. opTx[r].op = op[o]
        BY <1>0, <1>1, <3>1 DEF OpInv, OpRequestsOK, OpAloneOK
      <3> QED
        BY <1>1, <1>2, <1>16, <2>2, <3>1, <3>2 DEF OpInv, OpTypes
    <2> QED
      BY <2>1, <2>2
  <1>20. DocumentIsCurrent'
    BY <1>19 DEF DocumentIsCurrent
  <1>21. \A p \in Ops : Stored(p) => Stored(p)'
    BY <1>2 DEF Stored
  <1>22. \A q \in OpReqs \ {r} : \/ opTx'[q] = opTx[q]
                                 \/ /\ opTx[q].id = opTx[r].id /\ opTx'[q].id = opTx[q].id
                                    /\ opTx'[q].alone = opTx[q].alone /\ opTx'[q].pc = opTx[q].pc
                                    /\ opTx'[q].op = opTx[q].op
    BY <1>0, <1>9, <1>10
  <1>23. OpRequestsOK'
    BY <1>0, <1>1, <1>2, <1>8, <1>10, <1>21, <1>22, OpOthersGoOn
  <1> QED
    BY <1>5, <1>6, <1>15, <1>18, <1>20, <1>23 DEF OpInv

\* A service handles an event.
LEMMA OpHandleStep ==
  ASSUME OpInv, NEW o \in Ops, HandleOpEvent(o)
  PROVE  OpInv'
  <1>1. /\ opEvents[o] # <<>>
        /\ opCopy' = [opCopy EXCEPT ![o] = OpCopied(opListener, opCopy[o], Head(opEvents[o]))]
        /\ opEvents' = [opEvents EXCEPT ![o] = Tail(opEvents[o])]
        /\ UNCHANGED <<op, memberRows, opTx, document, opListener, lastTold, torn, unindexed>>
    BY DEF HandleOpEvent
  <1>2. /\ opEvents'[o] = Tail(opEvents[o]) /\ \A p \in Ops \ {o} : opEvents'[p] = opEvents[p]
        /\ opCopy'[o] = OpCopied(opListener, opCopy[o], Head(opEvents[o]))
        /\ \A p \in Ops \ {o} : opCopy'[p] = opCopy[p]
        /\ opEvents' = [p \in Ops |-> IF p = o THEN opEvents'[o] ELSE opEvents[p]]
        /\ opCopy' = [p \in Ops |-> IF p = o THEN opCopy'[o] ELSE opCopy[p]]
    BY <1>1 DEF OpInv, OpTypes
  <1>3. /\ OpEventsOK(o)' /\ opEvents'[o] \in Seq(OpEvent) /\ Len(opEvents'[o]) <= Len(opEvents[o])
        /\ opCopy'[o] \in OpCopyState
    BY <1>1, <1>2, OpEventIsHandled DEF OpInv
  <1>4. \A p \in Ops \ {o} : OpEventsOK(p)'
    BY <1>1, <1>2, CopyKept DEF OpInv
  <1>5. Len(opEvents[o]) \in Nat /\ Len(opEvents'[o]) \in Nat
    BY <1>3, LenProperties DEF OpInv, OpTypes
  <1>6. \A p \in Ops : Len(opEvents'[p]) <= MaxOpEvents + 1
    <2>1. Len(opEvents'[o]) <= MaxOpEvents + 1
      <3>1. Len(opEvents[o]) <= MaxOpEvents + 1 /\ MaxOpEvents \in Nat
        BY OperationConstants DEF OpInv, OpTypes
      <3> QED
        BY <1>3, <1>5, <3>1
    <2>2. \A p \in Ops \ {o} : Len(opEvents'[p]) <= MaxOpEvents + 1
      BY <1>2 DEF OpInv, OpTypes
    <2> QED
      BY <2>1, <2>2
  <1>7. OpTypes'
    BY <1>1, <1>2, <1>3, <1>6 DEF OpInv, OpTypes
  <1>8. MembersAsTold' /\ DocumentIsCurrent' /\ OpRequestsOK'
    BY <1>1 DEF OpInv, MembersAsTold, DocumentIsCurrent, OpRequestsOK, OpRequestOK, OpAloneOK, MembersOf, Stored
  <1> QED
    BY <1>3, <1>4, <1>7, <1>8 DEF OpInv

\* No operations.
LEMMA OpInvInit == OpInit => OpInv
  <1> SUFFICES ASSUME OpInit PROVE OpInv
    OBVIOUS
  <1> USE OperationConstants
  <1>1. \A o \in Ops : op[o] = NoOp /\ memberRows[o] = {} /\ opEvents[o] = <<>> /\ lastTold[o] = {}
                       /\ opCopy[o] = [op |-> NoOp, members |-> {}]
    BY DEF OpInit
  <1>2. opListener \in OpListeners /\ \A r \in OpReqs : opTx[r] = IdleOpTx
    BY DEF OpInit
  <1>3. <<>> \in Seq(OpEvent) /\ Len(<<>>) = 0
    OBVIOUS
  <1>4. opEvents \in [Ops -> Seq(OpEvent)] /\ \A o \in Ops : Len(opEvents[o]) <= MaxOpEvents + 1
    BY <1>1, <1>3 DEF OpInit
  <1>5. opCopy \in [Ops -> OpCopyState]
    BY DEF OpInit, OpCopyState
  <1>6. OpTypes
    BY <1>4, <1>5, IdleOpTyped DEF OpInit, OpTypes
  <1>7. OpRequestsOK
    BY <1>2, IdleOpTyped DEF OpRequestsOK, OpRequestOK, OpAloneOK
  <1>8. MembersAsTold /\ DocumentIsCurrent
    BY <1>1 DEF MembersAsTold, DocumentIsCurrent, MembersOf, Stored
  <1>9. ASSUME NEW o \in Ops PROVE OpEventsOK(o)
    <2>1. DetailsTold(o) = {} /\ MembersTold(o) = {} /\ DOMAIN opEvents[o] = {}
      <3>1. DOMAIN opEvents[o] = {}
        BY <1>1
      <3> QED
        BY <3>1 DEF DetailsTold, MembersTold
    <2>2. opCopy[o].op = CopyOf(opListener, op[o]) /\ opCopy[o].members = lastTold[o]
      <3>1. CopyOf(opListener, NoOp) = NoOp
        BY <1>2, CopiesOfOperations
      <3>2. opCopy[o].op = NoOp /\ opCopy[o].members = {}
        BY <1>1
      <3> QED
        BY <1>1, <3>1, <3>2
    <2>3. OpCopyFollows(o)
      BY <2>1, <2>2 DEF OpCopyFollows
    <2> QED
      BY <1>1, <2>3 DEF OpEventsOK, Stored
  <1> QED
    BY <1>6, <1>7, <1>8, <1>9 DEF OpInv

\* Every step of requests and services keeps the invariant.
LEMMA OpInvNext == OpInv /\ [OpNext]_opVars => OpInv'
  <1> SUFFICES ASSUME OpInv, [OpNext]_opVars PROVE OpInv'
    OBVIOUS
  <1>1. CASE UNCHANGED opVars
    <2>1. OpTypes' /\ MembersAsTold' /\ DocumentIsCurrent' /\ OpRequestsOK'
      BY <1>1 DEF opVars, OpInv, OpTypes, MembersAsTold, DocumentIsCurrent, OpRequestsOK, OpRequestOK, OpAloneOK,
                  MembersOf, Stored
    <2>2. \A o \in Ops : OpEventsOK(o)'
      BY <1>1, CopyKept DEF OpInv, opVars
    <2> QED
      BY <2>1, <2>2 DEF OpInv
  <1>2. CASE OpNext
    BY <1>2, OpCreateStep, OpUpdateStep, OpStartMembersStep, OpClearStep, OpInsertStep, OpCommitMembersStep,
       OpCommitUpdateStep, OpAbortStep, OpHandleStep
    DEF OpNext, handleCreateOperation, handleUpdateOperation, handleUpdateOperationMembers
  <1> QED
    BY <1>1, <1>2

\* The invariant of operations holds for all of them, for any number of requests and any service.
LEMMA OpInvariant == OpSpec => []OpInv
  BY OpInvInit, OpInvNext, PTL DEF OpSpec

\* Whoever is told to be a member is one, and nobody else unless lists were written at the same time.
THEOREM MembersAsToldCorrect == OpSpec => []MembersAsTold
  BY OpInvariant, PTL DEF OpInv

\* The document shows the details and the members after every change that nothing overlapped.
THEOREM DocumentIsCurrentCorrect == OpSpec => []DocumentIsCurrent
  BY OpInvariant, PTL DEF OpInv

\* Copies of operations follow: no change goes untold, none is told in the wrong order.
THEOREM OpCopiesFollowCorrect == OpSpec => []OpCopiesFollow
  <1>1. OpInv => OpCopiesFollow
    BY DEF OpInv, OpEventsOK, OpCopyFollows, OpCopiesFollow
  <1> QED
    BY <1>1, OpInvariant, PTL

LEMMA OpInvFollows == OpInv => OpTypeOK /\ OpCopiesFollow
  BY DEF OpInv, OpTypes, OpTypeOK, OpEventsOK, OpCopyFollows, OpCopiesFollow
-----------------------------------------------------------------------------
(* Groups.                                                                 *)

\* What GroupsWithinOperation depends on.
RowsTypeOK == /\ group \in [Groups -> Group \cup {NoGroup, Deleted}]
              /\ opMembers \in [GroupOps -> SUBSET GroupUsers]
              /\ raced \subseteq Groups
TxsTypeOK == /\ groupTx \in [GroupReqs -> GroupTx]
             /\ listTx \in [GroupOps -> ListTx]

\* A request has a group, and while nothing else commits, what it has found out is so.
RequestOK(ta) ==
    /\ ta.pc # "idle" => ta.id \in Groups /\ ta.want \in Group
    /\ ta.alone => /\ ta.pc # "idle"
                   /\ MembersAssured(ta.want)
                   /\ ta.pc = "write" => Exists(ta.id) /\ ta.old = group[ta.id].members

\* A list plans for groups of the operation only, and while nothing else commits, what it plans is
\* what has to be done.
RowPlanned(o, new, g) ==
    IF g \in GroupsToLeave(o, opMembers[o] \ new)
    THEN [op |-> o, members |-> group[g].members \ (opMembers[o] \ new)]
    ELSE NoGroup
ListOK(o, ta) ==
    /\ \A g \in Groups : ta.plan[g] # NoGroup => ta.plan[g].op = o
    /\ ta.alone => \A g \in Groups : /\ ta.plan[g] = RowPlanned(o, ta.new, g)
                                     /\ ta.pc = "write" /\ ta.plan[g] # NoGroup => ta.was[g] = group[g].members

RequestsOK == \A r \in GroupReqs : RequestOK(groupTx[r])
ListsOK == \A o \in GroupOps : ListOK(o, listTx[o])
GroupInv == RowsTypeOK /\ TxsTypeOK /\ RequestsOK /\ ListsOK /\ GroupsWithinOperation
-----------------------------------------------------------------------------
(* Steps that do not commit.                                               *)

\* Transactions that do nothing.
LEMMA IdleGroupTyped ==
  ASSUME GroupConstants
  PROVE  /\ IdleGroupTx \in GroupTx /\ IdleGroupTx.pc = "idle" /\ IdleGroupTx.alone = FALSE
         /\ IdleListTx \in ListTx /\ IdleListTx.pc = "idle" /\ IdleListTx.alone = FALSE
         /\ \A g \in Groups : IdleListTx.plan[g] = NoGroup
  BY DEF GroupConstants, IdleGroupTx, IdleListTx, GroupTx, ListTx, NoPlan

\* A request goes on.
LEMMA RequestStep ==
  ASSUME GroupConstants, GroupInv, NEW r \in GroupReqs, NEW ta \in GroupTx, RequestOK(ta),
         StepGroupTx(r, ta)
  PROVE  GroupInv'
  <1>1. RowsTypeOK' /\ TxsTypeOK' /\ GroupsWithinOperation'
    BY DEF StepGroupTx, GroupInv, RowsTypeOK, TxsTypeOK, GroupsWithinOperation, Exists
  <1>2. ListsOK'
    BY DEF StepGroupTx, GroupInv, ListsOK, ListOK, RowPlanned, GroupsToLeave, Exists
  <1>3. ASSUME NEW q \in GroupReqs PROVE RequestOK(groupTx[q])'
    <2>1. RequestOK(groupTx'[q])
      BY DEF StepGroupTx, GroupInv, TxsTypeOK, RequestsOK
    <2> QED
      BY <2>1 DEF StepGroupTx, RequestOK, MembersAssured, Exists
  <1> QED
    BY <1>1, <1>2, <1>3 DEF GroupInv, RequestsOK

\* The handling of a list goes on.
LEMMA ListStep ==
  ASSUME GroupConstants, GroupInv, NEW o \in GroupOps, NEW ta \in ListTx, ListOK(o, ta),
         StepListTx(o, ta)
  PROVE  GroupInv'
  <1>1. RowsTypeOK' /\ TxsTypeOK' /\ GroupsWithinOperation'
    BY DEF StepListTx, GroupInv, RowsTypeOK, TxsTypeOK, GroupsWithinOperation, Exists
  <1>2. RequestsOK'
    BY DEF StepListTx, GroupInv, RequestsOK, RequestOK, MembersAssured, Exists
  <1>3. ASSUME NEW p \in GroupOps PROVE ListOK(p, listTx[p])'
    <2>1. ListOK(p, listTx'[p])
      BY DEF StepListTx, GroupInv, TxsTypeOK, ListsOK
    <2> QED
      BY <2>1 DEF StepListTx, ListOK, RowPlanned, GroupsToLeave, Exists
  <1> QED
    BY <1>1, <1>2, <1>3 DEF GroupInv, ListsOK

\* The checks of a request.
LEMMA BeginStep ==
  ASSUME GroupConstants, GroupInv, NEW r \in GroupReqs, NEW g \in Groups, NEW row \in Group,
         CreateGroup(r, g, row) \/ UpdateGroup(r, g, row)
  PROVE  GroupInv'
  <1> DEFINE ta(at) == [pc |-> at, id |-> g, want |-> row, old |-> {}, alone |-> TRUE]
  <1>1. \A at \in {"create", "update"} : ta(at) \in GroupTx /\ RequestOK(ta(at))
    BY DEF CreateGroup, UpdateGroup, GroupTx, RequestOK
  <1> QED
    BY <1>1, RequestStep DEF CreateGroup, UpdateGroup

\* UpdateGroup reads the members.
LEMMA ReadStep ==
  ASSUME GroupConstants, GroupInv, NEW r \in GroupReqs, ReadGroup(r)
  PROVE  GroupInv'
  <1> DEFINE ta == [groupTx[r] EXCEPT !.pc = "write", !.old = group[groupTx[r].id].members]
  <1>1. groupTx[r] \in GroupTx /\ RequestOK(groupTx[r]) /\ groupTx[r].pc = "update" /\ Exists(groupTx[r].id)
    BY DEF ReadGroup, GroupInv, TxsTypeOK, RequestsOK
  <1>2. group[groupTx[r].id].members \in SUBSET GroupUsers
    BY <1>1 DEF Exists, Group
  <1>3. ta \in GroupTx
    BY <1>1, <1>2 DEF GroupTx
  <1>4. RequestOK(ta)
    BY <1>1 DEF GroupTx, RequestOK
  <1> QED
    BY <1>3, <1>4, RequestStep DEF ReadGroup

\* A list is compared with the groups.
LEMMA PlanStep ==
  ASSUME GroupConstants, GroupInv, NEW o \in GroupOps, NEW new \in SUBSET GroupUsers, PlanGroups(o, new)
  PROVE  GroupInv'
  <1> DEFINE plan == [g \in Groups |-> RowPlanned(o, new, g)]
             ta == [IdleListTx EXCEPT !.pc = "update", !.new = new, !.alone = TRUE, !.plan = plan]
  <1>1. ASSUME NEW g \in Groups PROVE RowPlanned(o, new, g) \in Group \cup {NoGroup}
    <2>1. g \in GroupsToLeave(o, opMembers[o] \ new) => group[g].members \in SUBSET GroupUsers
      BY DEF GroupsToLeave, Exists, Group
    <2> QED
      BY <2>1 DEF RowPlanned, Group
  <1>2. plan \in [Groups -> Group \cup {NoGroup}]
    BY <1>1
  <1>3. ta \in ListTx
    BY <1>2, IdleGroupTyped DEF ListTx
  <1>4. ListOK(o, ta)
    BY IdleGroupTyped DEF ListTx, ListOK, RowPlanned, IdleListTx
  <1>5. StepListTx(o, ta)
    BY DEF PlanGroups, RowPlanned
  <1> QED
    BY <1>3, <1>4, <1>5, ListStep

\* UpdateGroup, called for each planned group, reads the members.
LEMMA ReadListStep ==
  ASSUME GroupConstants, GroupInv, NEW o \in GroupOps, ReadGroups(o)
  PROVE  GroupInv'
  <1> DEFINE was == [g \in Groups |-> IF g \in Planned(o) THEN group[g].members ELSE {}]
             ta == [listTx[o] EXCEPT !.pc = "write", !.was = was]
  <1>1. listTx[o] \in ListTx /\ ListOK(o, listTx[o])
    BY DEF GroupInv, TxsTypeOK, ListsOK
  <1>2. was \in [Groups -> SUBSET GroupUsers]
    BY DEF ReadGroups, Exists, Group
  <1>3. ta \in ListTx
    BY <1>1, <1>2 DEF ListTx
  <1>4. ta.plan = listTx[o].plan /\ ta.new = listTx[o].new /\ ta.alone = listTx[o].alone /\ ta.was = was
    BY <1>1 DEF ListTx
  <1>5. ListOK(o, ta)
    BY <1>1, <1>4 DEF ListOK, Planned
  <1> QED
    BY <1>3, <1>5, ListStep DEF ReadGroups
-----------------------------------------------------------------------------
(* Commits.                                                                *)

\* Afterwards nobody was alone, which is all there is to know about other transactions.
LEMMA DisturbedTyped ==
  ASSUME GroupConstants, GroupInv
  PROVE  /\ \A r \in GroupReqs : LET ta == Disturbed(groupTx, IdleGroupTx)[r]
                                 IN  /\ ta \in GroupTx /\ ta.alone = FALSE
                                     /\ ta.pc # "idle" => ta.id \in Groups /\ ta.want \in Group
         /\ \A o \in GroupOps : LET ta == Disturbed(listTx, IdleListTx)[o]
                                IN  /\ ta \in ListTx /\ ta.alone = FALSE
                                    /\ \A g \in Groups : ta.plan[g] # NoGroup => ta.plan[g].op = o
  <1>1. ASSUME NEW r \in GroupReqs
        PROVE  LET ta == Disturbed(groupTx, IdleGroupTx)[r]
               IN  /\ ta \in GroupTx /\ ta.alone = FALSE
                   /\ ta.pc # "idle" => ta.id \in Groups /\ ta.want \in Group
    <2>1. groupTx[r] \in GroupTx /\ RequestOK(groupTx[r])
      BY DEF GroupInv, TxsTypeOK, RequestsOK
    <2>2. Disturbed(groupTx, IdleGroupTx)[r] = IF groupTx[r].pc = "idle" THEN IdleGroupTx
                                               ELSE [groupTx[r] EXCEPT !.alone = FALSE]
      BY DEF Disturbed, GroupInv, TxsTypeOK
    <2> QED
      BY <2>1, <2>2, IdleGroupTyped DEF GroupTx, RequestOK
  <1>2. ASSUME NEW o \in GroupOps
        PROVE  LET ta == Disturbed(listTx, IdleListTx)[o]
               IN  /\ ta \in ListTx /\ ta.alone = FALSE
                   /\ \A g \in Groups : ta.plan[g] # NoGroup => ta.plan[g].op = o
    <2>1. listTx[o] \in ListTx /\ ListOK(o, listTx[o])
      BY DEF GroupInv, TxsTypeOK, ListsOK
    <2>2. Disturbed(listTx, IdleListTx)[o] = IF listTx[o].pc = "idle" THEN IdleListTx
                                             ELSE [listTx[o] EXCEPT !.alone = FALSE]
      BY DEF Disturbed, GroupInv, TxsTypeOK
    <2> QED
      BY <2>1, <2>2, IdleGroupTyped DEF ListTx, ListOK
  <1> QED
    BY <1>1, <1>2

\* The transactions that go on after a commit.
OthersGo == TxsTypeOK' /\ RequestsOK' /\ ListsOK'

LEMMA OthersGoOn ==
  ASSUME GroupConstants, GroupInv,
         \/ /\ groupTx' = Disturbed(groupTx, IdleGroupTx)
            /\ listTx' = Disturbed(listTx, IdleListTx)
         \/ \E r \in GroupReqs : /\ groupTx' = [Disturbed(groupTx, IdleGroupTx) EXCEPT ![r] = IdleGroupTx]
                                 /\ listTx' = Disturbed(listTx, IdleListTx)
         \/ \E o \in GroupOps : /\ groupTx' = Disturbed(groupTx, IdleGroupTx)
                                /\ listTx' = [Disturbed(listTx, IdleListTx) EXCEPT ![o] = IdleListTx]
  PROVE  OthersGo
  <1> DEFINE requests == Disturbed(groupTx, IdleGroupTx)
             lists == Disturbed(listTx, IdleListTx)
  <1>1. requests \in [GroupReqs -> GroupTx] /\ lists \in [GroupOps -> ListTx]
    BY DisturbedTyped DEF Disturbed, GroupInv, TxsTypeOK
  <1>2. \A r \in GroupReqs : groupTx'[r] \in {requests[r], IdleGroupTx}
    BY <1>1
  <1>3. \A o \in GroupOps : listTx'[o] \in {lists[o], IdleListTx}
    BY <1>1
  <1>4. TxsTypeOK'
    BY <1>1, IdleGroupTyped DEF TxsTypeOK
  <1>5. RequestsOK'
    BY <1>2, DisturbedTyped, IdleGroupTyped DEF RequestsOK, RequestOK
  <1>6. ASSUME NEW o \in GroupOps PROVE ListOK(o, listTx[o])'
    <2>1. PICK ta \in {lists[o], IdleListTx} : ta = listTx'[o]
      BY <1>3
    <2>2. ta.alone = FALSE /\ \A g \in Groups : ta.plan[g] # NoGroup => ta.plan[g].op = o
      <3>1. CASE ta = lists[o]
        BY <3>1, DisturbedTyped
      <3>2. CASE ta = IdleListTx
        BY <3>2, IdleGroupTyped
      <3> QED
        BY <2>1, <3>1, <3>2
    <2> QED
      BY <2>1, <2>2 DEF ListOK
  <1> QED
    BY <1>4, <1>5, <1>6 DEF OthersGo, ListsOK

\* A new group.
LEMMA CommitCreateStep ==
  ASSUME GroupConstants, GroupInv, NEW r \in GroupReqs, CommitCreate(r)
  PROVE  GroupInv'
  <1> DEFINE g == groupTx[r].id
             want == groupTx[r].want
  <1>1. groupTx[r] \in GroupTx /\ RequestOK(groupTx[r]) /\ groupTx[r].pc = "create"
    BY DEF CommitCreate, GroupInv, TxsTypeOK, RequestsOK
  <1>2. g \in Groups /\ want \in Group /\ (groupTx[r].alone => MembersAssured(want))
    BY <1>1 DEF RequestOK
  <1>3. group' = [group EXCEPT ![g] = want] /\ opMembers' = opMembers
    BY DEF CommitCreate, CommitGroupTx
  <1>4. raced' = IF groupTx[r].alone THEN raced ELSE raced \cup {g}
    BY DEF CommitCreate
  <1>5. RowsTypeOK'
    BY <1>2, <1>3, <1>4 DEF GroupInv, RowsTypeOK
  <1>6. GroupsWithinOperation'
    BY <1>2, <1>3, <1>4 DEF GroupInv, RowsTypeOK, GroupsWithinOperation, MembersAssured, Exists
  <1>7. OthersGo
    BY OthersGoOn DEF CommitCreate, CommitGroupTx
  <1> QED
    BY <1>5, <1>6, <1>7 DEF GroupInv, OthersGo

\* A group gets other members.
LEMMA CommitUpdateStep ==
  ASSUME GroupConstants, GroupInv, NEW r \in GroupReqs, CommitUpdateGroup(r)
  PROVE  GroupInv'
  <1> DEFINE g == groupTx[r].id
             want == groupTx[r].want
             written == MembersWritten(group[g].members, groupTx[r].old, want.members)
  <1>1. groupTx[r] \in GroupTx /\ RequestOK(groupTx[r]) /\ groupTx[r].pc = "write" /\ Exists(g)
    BY DEF CommitUpdateGroup, GroupInv, TxsTypeOK, RequestsOK
  <1>2. g \in Groups /\ want \in Group
    BY <1>1 DEF RequestOK
  <1>3. group' = [group EXCEPT ![g] = [op |-> want.op, members |-> written]] /\ opMembers' = opMembers
    BY DEF CommitUpdateGroup, CommitGroupTx
  <1>4. raced' = IF groupTx[r].alone THEN raced \ {g} ELSE raced \cup {g}
    BY DEF CommitUpdateGroup
  <1>5. written \in SUBSET GroupUsers
    BY <1>1, <1>2 DEF MembersWritten, Exists, Group, GroupTx
  <1>6. RowsTypeOK'
    <2>1. [op |-> want.op, members |-> written] \in Group
      BY <1>2, <1>5 DEF Group
    <2> QED
      BY <1>2, <1>3, <1>4, <2>1 DEF GroupInv, RowsTypeOK
  <1>7. groupTx[r].alone => written = want.members /\ MembersAssured(want)
    BY <1>1, <1>2 DEF RequestOK, MembersWritten, Group, Exists
  <1>8. GroupsWithinOperation'
    <2>1. SUFFICES ASSUME NEW h \in Groups, h \notin raced', Exists(h)', group'[h].op # Global
                   PROVE  group'[h].members \subseteq opMembers'[group'[h].op]
      BY <1>6 DEF GroupsWithinOperation, RowsTypeOK
    <2>2. CASE h = g
      BY <1>2, <1>3, <1>4, <1>7, <2>1, <2>2 DEF MembersAssured, GroupInv, RowsTypeOK
    <2>3. CASE h # g
      BY <1>2, <1>3, <1>4, <2>1, <2>3 DEF GroupInv, GroupsWithinOperation, RowsTypeOK, Exists
    <2> QED
      BY <2>2, <2>3
  <1>9. OthersGo
    BY OthersGoOn DEF CommitUpdateGroup, CommitGroupTx
  <1> QED
    BY <1>6, <1>8, <1>9 DEF GroupInv, OthersGo

\* A group goes.
LEMMA DeleteStep ==
  ASSUME GroupConstants, GroupInv, NEW g \in Groups, DeleteGroupByID(g)
  PROVE  GroupInv'
  <1>1. group' = [group EXCEPT ![g] = Deleted] /\ opMembers' = opMembers /\ raced' = raced
    BY DEF DeleteGroupByID
  <1>2. RowsTypeOK'
    BY <1>1 DEF GroupInv, RowsTypeOK
  <1>3. GroupsWithinOperation'
    BY <1>1 DEF GroupInv, RowsTypeOK, GroupsWithinOperation, Exists, GroupConstants
  <1>4. OthersGo
    BY OthersGoOn DEF DeleteGroupByID
  <1> QED
    BY <1>2, <1>3, <1>4 DEF GroupInv, OthersGo

\* A list of members with the groups that somebody leaves.
LEMMA CommitListStep ==
  ASSUME GroupConstants, GroupInv, NEW o \in GroupOps, CommitMembersList(o)
  PROVE  GroupInv'
  <1> DEFINE ta == listTx[o]
             written(g) == MembersWritten(group[g].members, ta.was[g], ta.plan[g].members)
  <1>1. ta \in ListTx /\ ListOK(o, ta) /\ ta.pc = "write" /\ \A g \in Planned(o) : Exists(g)
    BY DEF CommitMembersList, GroupInv, TxsTypeOK, ListsOK
  <1>2. /\ group' = [g \in Groups |-> IF g \in Planned(o) THEN [op |-> ta.plan[g].op, members |-> written(g)]
                                      ELSE group[g]]
        /\ opMembers' = [opMembers EXCEPT ![o] = ta.new]
    BY DEF CommitMembersList
  <1>3. raced' = IF ta.alone THEN raced ELSE raced \cup {g \in Groups : group'[g] \in Group /\ group'[g].op = o}
    BY DEF CommitMembersList
  <1>4. ASSUME NEW g \in Planned(o)
        PROVE  g \in Groups /\ ta.plan[g] \in Group /\ ta.plan[g].op = o /\ group[g].members \in SUBSET GroupUsers
    BY <1>1, <1>4 DEF Planned, ListOK, ListTx, Exists, Group
  <1>5. ASSUME NEW g \in Planned(o) PROVE [op |-> ta.plan[g].op, members |-> written(g)] \in Group
    <2>1. ta.plan[g].op \in GroupOps \cup {Global} /\ ta.plan[g].members \in SUBSET GroupUsers
      BY <1>4 DEF Group
    <2>2. written(g) \in SUBSET GroupUsers
      BY <1>4, <2>1 DEF MembersWritten
    <2> QED
      BY <2>1, <2>2 DEF Group
  <1>6. RowsTypeOK'
    <2>1. group' \in [Groups -> Group \cup {NoGroup, Deleted}]
      BY <1>2, <1>5 DEF GroupInv, RowsTypeOK
    <2>2. opMembers' \in [GroupOps -> SUBSET GroupUsers]
      BY <1>1, <1>2 DEF GroupInv, RowsTypeOK, ListTx
    <2> QED
      BY <1>3, <2>1, <2>2 DEF GroupInv, RowsTypeOK
  <1>7. GroupsWithinOperation'
    <2>1. SUFFICES ASSUME NEW h \in Groups, h \notin raced', Exists(h)', group'[h].op # Global
                   PROVE  group'[h].members \subseteq opMembers'[group'[h].op]
      BY <1>6 DEF GroupsWithinOperation, RowsTypeOK
    <2>2. h \notin raced
      BY <1>3, <2>1
    <2>3. CASE group'[h].op # o
      <3>1. group'[h] = group[h]
        BY <1>2, <1>4, <2>3
      <3>2. opMembers'[group'[h].op] = opMembers[group[h].op]
        BY <1>2, <2>3, <3>1 DEF GroupInv, RowsTypeOK
      <3> QED
        BY <2>1, <2>2, <3>1, <3>2 DEF GroupInv, GroupsWithinOperation, Exists
    <2>4. CASE group'[h].op = o
      <3> DEFINE removed == opMembers[o] \ ta.new
      <3>1. ta.alone
        BY <1>3, <2>1, <2>4 DEF Exists
      <3>2. ta.plan[h] = RowPlanned(o, ta.new, h)
        BY <1>1, <3>1 DEF ListOK
      <3>3. CASE h \in Planned(o)
        <4>1. /\ h \in GroupsToLeave(o, removed)
              /\ ta.plan[h] = [op |-> o, members |-> group[h].members \ removed]
              /\ ta.was[h] = group[h].members
          BY <1>1, <3>1, <3>2, <3>3 DEF RowPlanned, Planned, ListOK
        <4>2. written(h) = group[h].members \ removed
          BY <4>1 DEF MembersWritten
        <4>3. group[h].members \subseteq opMembers[o]
          BY <2>2, <4>1, <2>1, <2>4 DEF GroupsToLeave, GroupInv, GroupsWithinOperation
        <4>4. group'[h].members = written(h)
          BY <1>2, <3>3
        <4>5. opMembers'[group'[h].op] = ta.new
          BY <1>2, <2>4 DEF GroupInv, RowsTypeOK
        <4> QED
          BY <4>2, <4>3, <4>4, <4>5
      <3>4. CASE h \notin Planned(o)
        <4>1. group'[h] = group[h]
          BY <1>2, <3>4
        <4>2. h \notin GroupsToLeave(o, removed)
          <5>1. ta.plan[h] = NoGroup
            BY <3>4 DEF Planned
          <5>2. ASSUME h \in GroupsToLeave(o, removed)
                PROVE  FALSE
            <6>1. [op |-> o, members |-> group[h].members \ removed] \in Group
              BY <5>2 DEF GroupsToLeave, Exists, Group
            <6> QED
              BY <3>2, <5>1, <5>2, <6>1 DEF RowPlanned, GroupConstants
          <5> QED
            BY <5>2
        <4>3. group[h].members \cap removed = {}
          BY <2>1, <2>4, <4>1, <4>2 DEF GroupsToLeave, Exists
        <4>4. group[h].members \subseteq opMembers[o]
          BY <2>1, <2>2, <2>4, <4>1 DEF GroupInv, GroupsWithinOperation, Exists
        <4>5. opMembers'[group'[h].op] = ta.new
          BY <1>2, <2>4 DEF GroupInv, RowsTypeOK
        <4> QED
          BY <4>1, <4>3, <4>4, <4>5
      <3> QED
        BY <3>3, <3>4
    <2> QED
      BY <2>3, <2>4
  <1>8. OthersGo
    BY OthersGoOn DEF CommitMembersList
  <1> QED
    BY <1>6, <1>7, <1>8 DEF GroupInv, OthersGo


LEMMA GroupInvInit == GroupInit => GroupInv
  <1> USE GroupConstants
  <1> SUFFICES ASSUME GroupInit PROVE GroupInv
    OBVIOUS
  <1>1. RowsTypeOK
    BY DEF GroupInit, RowsTypeOK
  <1>2. TxsTypeOK
    BY IdleGroupTyped DEF GroupInit, TxsTypeOK
  <1>3. RequestsOK
    BY IdleGroupTyped DEF GroupInit, RequestsOK, RequestOK
  <1>4. ListsOK
    BY IdleGroupTyped DEF GroupInit, ListsOK, ListOK
  <1>5. GroupsWithinOperation
    BY DEF GroupInit, GroupsWithinOperation, Exists, GroupConstants
  <1> QED
    BY <1>1, <1>2, <1>3, <1>4, <1>5 DEF GroupInv

LEMMA GroupInvNext == GroupInv /\ [GroupNext]_groupVars => GroupInv'
  <1> USE GroupConstants
  <1> SUFFICES ASSUME GroupInv, [GroupNext]_groupVars PROVE GroupInv'
    OBVIOUS
  <1>1. CASE /\ group' = group /\ opMembers' = opMembers /\ groupTx' = groupTx
             /\ listTx' = listTx /\ raced' = raced
    <2>1. RowsTypeOK' /\ TxsTypeOK' /\ GroupsWithinOperation'
      BY <1>1 DEF GroupInv, RowsTypeOK, TxsTypeOK, GroupsWithinOperation, Exists
    <2>2. RequestsOK'
      BY <1>1 DEF GroupInv, RequestsOK, RequestOK, MembersAssured, Exists
    <2>3. ListsOK'
      BY <1>1 DEF GroupInv, ListsOK, ListOK, RowPlanned, GroupsToLeave, Exists
    <2> QED
      BY <2>1, <2>2, <2>3 DEF GroupInv
  <1>2. ASSUME NEW r \in GroupReqs, AbortGroupTx(r) PROVE GroupInv'
    <2>1. RequestOK(IdleGroupTx)
      BY IdleGroupTyped DEF RequestOK
    <2> QED
      BY <1>2, <2>1, IdleGroupTyped, RequestStep DEF AbortGroupTx
  <1>3. ASSUME NEW o \in GroupOps, FailMembersList(o) PROVE GroupInv'
    <2>1. ListOK(o, IdleListTx)
      BY IdleGroupTyped DEF ListOK
    <2> QED
      BY <1>3, <2>1, IdleGroupTyped, ListStep DEF FailMembersList
  <1>4. ASSUME NEW g \in Groups, HandleGroupEvent(g) PROVE GroupInv'
    BY <1>1, <1>4 DEF HandleGroupEvent
  <1>5. CASE UNCHANGED groupVars
    BY <1>1, <1>5 DEF groupVars
  <1> QED
    BY <1>2, <1>3, <1>4, <1>5, BeginStep, ReadStep, PlanStep, ReadListStep, CommitCreateStep, CommitUpdateStep,
       DeleteStep, CommitListStep
    DEF GroupNext, handleCreateGroup, handleUpdateGroup, handleDeleteGroupByID

\* Members of a group belong to its operation: whatever is checked before a commit is so at the commit, unless
\* something else has committed between.
THEOREM GroupsWithinOperationCorrect == GroupSpec => []GroupsWithinOperation
  <1>1. GroupInv => GroupsWithinOperation
    BY DEF GroupInv
  <1> QED
    BY GroupInvInit, GroupInvNext, <1>1, PTL DEF GroupSpec
-----------------------------------------------------------------------------
(* What logistics-svc is told of groups.                                   *)

\* What logistics-svc is told.
GroupEvent == [type : {"created", "updated", "deleted"}, row : Group \cup {Deleted}]
GroupEventsOK == /\ groupEvents \in [Groups -> Seq(GroupEvent)]
                 /\ groupCopy \in [Groups -> Group \cup {NoGroup, Deleted}]
\* Nothing is told of a group before it is created, and it is created once.
CreationsOK == /\ \A g \in Groups : group[g] = NoGroup => groupEvents[g] = <<>> /\ groupCopy[g] = NoGroup
               /\ \A r \in GroupReqs : groupTx[r].pc = "create" =>
                      /\ group[groupTx[r].id] = NoGroup
                      /\ \A q \in GroupReqs \ {r} : groupTx[q].pc = "create" => groupTx[q].id # groupTx[r].id
ToldInv == GroupEventsOK /\ CreationsOK /\ GroupsAsTold
ToldOf(g) == IF groupEvents[g] = <<>> THEN groupCopy[g] ELSE groupEvents[g][Len(groupEvents[g])].row

\* The events of a commit say what it has made of the groups.
LEMMA GroupsTold ==
  ASSUME GroupConstants, GroupInv, ToldInv, RowsTypeOK', NEW events, TellGroups(events), UNCHANGED groupCopy,
         DOMAIN events \subseteq Groups,
         \A g \in DOMAIN events : /\ events[g] \in GroupEvent
                                  /\ events[g].type = "created" => group[g] = NoGroup
                                  /\ (events[g].row \in Group) = (group'[g] \in Group)
                                  /\ group'[g] \in Group => events[g].row.op = group'[g].op
                                  /\ g \notin raced' => events[g].row = group'[g]
                                  /\ group'[g] # NoGroup,
         \A g \in Groups \ DOMAIN events : group'[g] = group[g] /\ (g \in raced => g \in raced')
  PROVE  /\ GroupEventsOK' /\ GroupsAsTold'
         /\ \A g \in Groups : group'[g] = NoGroup => groupEvents'[g] = <<>> /\ groupCopy'[g] = NoGroup
  <1>1. \A g \in Groups : groupEvents'[g] = IF g \in DOMAIN events THEN Append(groupEvents[g], events[g])
                                            ELSE groupEvents[g]
    BY DEF TellGroups
  <1>2. ASSUME NEW g \in DOMAIN events
        PROVE  LET n == Len(groupEvents[g])
               IN  /\ groupEvents'[g] \in Seq(GroupEvent) /\ n \in Nat /\ Len(groupEvents'[g]) = n + 1
                   /\ groupEvents'[g][n + 1] = events[g]
                   /\ \A i \in 1..n : groupEvents'[g][i] = groupEvents[g][i]
                   /\ groupEvents'[g] # <<>>
    <2>1. groupEvents[g] \in Seq(GroupEvent) /\ events[g] \in GroupEvent
      BY DEF ToldInv, GroupEventsOK
    <2>2. groupEvents'[g] = Append(groupEvents[g], events[g])
      BY <1>1
    <2>3. PICK s \in Seq(GroupEvent), e \in GroupEvent : s = groupEvents[g] /\ e = events[g]
      BY <2>1
    <2>4. /\ Append(s, e) \in Seq(GroupEvent) /\ Append(s, e) # <<>> /\ Len(Append(s, e)) = Len(s) + 1
          /\ \A i \in 1..Len(s) : Append(s, e)[i] = s[i]
          /\ Append(s, e)[Len(s) + 1] = e
      BY AppendProperties
    <2>5. Len(s) \in Nat
      BY LenProperties
    <2> QED
      BY <2>2, <2>3, <2>4, <2>5
  <1>3. GroupEventsOK'
    <2>1. \A g \in Groups : groupEvents'[g] \in Seq(GroupEvent)
      BY <1>1, <1>2 DEF ToldInv, GroupEventsOK
    <2>2. groupEvents' = [g \in Groups |-> groupEvents'[g]]
      BY DEF TellGroups
    <2>3. groupEvents' \in [Groups -> Seq(GroupEvent)]
      BY <2>1, <2>2
    <2> QED
      BY <2>3 DEF ToldInv, GroupEventsOK
  <1>4. ASSUME NEW g \in Groups
        PROVE  /\ (ToldOf(g)' \in Group) = (group'[g] \in Group)
               /\ group'[g] \in Group => ToldOf(g)'.op = group'[g].op
               /\ g \notin raced' => ToldOf(g)' = group'[g]
               /\ \A i \in DOMAIN groupEvents'[g] :
                      groupEvents'[g][i].type = "created" => i = 1 /\ groupCopy'[g] = NoGroup
    <2>1. CASE g \in DOMAIN events
      <3> DEFINE n == Len(groupEvents[g])
      <3>1. /\ n \in Nat /\ Len(groupEvents'[g]) = n + 1 /\ groupEvents'[g][n + 1] = events[g]
            /\ \A i \in 1..n : groupEvents'[g][i] = groupEvents[g][i]
            /\ groupEvents'[g] # <<>> /\ groupEvents'[g] \in Seq(GroupEvent)
        BY <1>2, <2>1
      <3>2. ToldOf(g)' = events[g].row
        BY <3>1 DEF ToldOf
      <3>3. ASSUME NEW i \in DOMAIN groupEvents'[g], groupEvents'[g][i].type = "created"
            PROVE  i = 1 /\ groupCopy'[g] = NoGroup
        <4>1. i \in 1..(n + 1)
          BY <3>1, LenProperties
        <4>2. CASE i = n + 1
          <5>1. group[g] = NoGroup
            BY <2>1, <3>1, <3>3, <4>2
          <5>2. groupEvents[g] = <<>> /\ groupCopy[g] = NoGroup
            BY <5>1 DEF ToldInv, CreationsOK
          <5>3. n = 0
            BY <5>2
          <5> QED
            BY <4>2, <5>2, <5>3
        <4>3. CASE i # n + 1
          <5>1. i \in 1..n
            BY <3>1, <4>1, <4>3
          <5>2. i \in DOMAIN groupEvents[g] /\ groupEvents[g][i].type = "created"
            BY <3>1, <3>3, <5>1, LenProperties DEF ToldInv, GroupEventsOK
          <5> QED
            BY <5>2 DEF ToldInv, GroupsAsTold
        <4> QED
          BY <4>2, <4>3
      <3> QED
        BY <2>1, <3>2, <3>3
    <2>2. CASE g \notin DOMAIN events
      <3>1. group'[g] = group[g] /\ groupEvents'[g] = groupEvents[g] /\ (g \in raced => g \in raced')
        BY <1>1, <2>2
      <3>2. ToldOf(g)' = ToldOf(g)
        BY <3>1 DEF ToldOf
      <3> QED
        BY <3>1, <3>2 DEF ToldInv, GroupsAsTold, ToldOf, Exists
    <2> QED
      BY <2>1, <2>2
  <1>5. GroupsAsTold'
    BY <1>4 DEF GroupsAsTold, ToldOf, Exists
  <1>6. \A g \in Groups : group'[g] = NoGroup => groupEvents'[g] = <<>> /\ groupCopy'[g] = NoGroup
    BY <1>1 DEF ToldInv, CreationsOK
  <1> QED
    BY <1>3, <1>5, <1>6

\* Nothing is told, and no request turns into one that creates.
LEMMA NothingTold ==
  ASSUME GroupInv, ToldInv, UNCHANGED <<group, groupEvents, groupCopy, raced>>,
         \A r \in GroupReqs : groupTx'[r].pc = "create" => groupTx'[r] = groupTx[r]
  PROVE  ToldInv'
  <1>1. GroupEventsOK' /\ GroupsAsTold'
    BY DEF ToldInv, GroupEventsOK, GroupsAsTold, Exists
  <1>2. CreationsOK'
    BY DEF ToldInv, CreationsOK
  <1> QED
    BY <1>1, <1>2 DEF ToldInv

\* After a commit the requests that create go on doing so, for the groups they have been creating.
LEMMA CreationsGoOn ==
  ASSUME GroupConstants, GroupInv, ToldInv, NEW done \in SUBSET GroupReqs,
         \A r \in GroupReqs \ done : groupTx'[r] = Disturbed(groupTx, IdleGroupTx)[r],
         \A r \in done : groupTx'[r] = IdleGroupTx,
         \A r \in GroupReqs \ done : groupTx[r].pc = "create" => group'[groupTx[r].id] = NoGroup
  PROVE  \A r \in GroupReqs : groupTx'[r].pc = "create" =>
             /\ group'[groupTx'[r].id] = NoGroup
             /\ \A q \in GroupReqs \ {r} : groupTx'[q].pc = "create" => groupTx'[q].id # groupTx'[r].id
  <1>1. \A r \in GroupReqs : groupTx'[r].pc = "create" =>
            r \notin done /\ groupTx[r].pc = "create" /\ groupTx'[r].id = groupTx[r].id
    <2> SUFFICES ASSUME NEW r \in GroupReqs, groupTx'[r].pc = "create"
                 PROVE  r \notin done /\ groupTx[r].pc = "create" /\ groupTx'[r].id = groupTx[r].id
      OBVIOUS
    <2>1. r \notin done
      BY IdleGroupTyped
    <2>2. groupTx'[r] = IF groupTx[r].pc = "idle" THEN IdleGroupTx ELSE [groupTx[r] EXCEPT !.alone = FALSE]
      BY <2>1 DEF Disturbed, GroupInv, TxsTypeOK
    <2>3. groupTx[r] \in GroupTx
      BY DEF GroupInv, TxsTypeOK
    <2> QED
      BY <2>1, <2>2, <2>3, IdleGroupTyped DEF GroupTx
  <1> QED
    BY <1>1 DEF ToldInv, CreationsOK

\* What a request is asked for does not change before it commits or gives up.
LEMMA RequestsTold ==
  ASSUME GroupConstants, GroupInv, ToldInv, NEW r \in GroupReqs, NEW x, StepGroupTx(r, x), x.pc # "create"
  PROVE  ToldInv'
  <1>1. \A q \in GroupReqs : groupTx'[q].pc = "create" => groupTx'[q] = groupTx[q]
    BY DEF StepGroupTx, GroupInv, TxsTypeOK
  <1> QED
    BY <1>1, NothingTold DEF StepGroupTx

LEMMA ListsTold ==
  ASSUME GroupInv, ToldInv, NEW o \in GroupOps, NEW x, StepListTx(o, x)
  PROVE  ToldInv'
  BY NothingTold DEF StepListTx

\* A group can be created that nobody else is creating.
LEMMA CreateTold ==
  ASSUME GroupConstants, GroupInv, ToldInv, NEW r \in GroupReqs, NEW g \in Groups, NEW row \in Group,
         CreateGroup(r, g, row)
  PROVE  ToldInv'
  <1> DEFINE x == [pc |-> "create", id |-> g, want |-> row, old |-> {}, alone |-> TRUE]
  <1>1. /\ group[g] = NoGroup /\ (\A q \in GroupReqs : groupTx[q].id # g)
        /\ groupTx'[r] = x /\ (\A q \in GroupReqs \ {r} : groupTx'[q] = groupTx[q])
        /\ UNCHANGED <<group, groupEvents, groupCopy, raced>>
    BY DEF CreateGroup, StepGroupTx, GroupInv, TxsTypeOK
  <1>2. GroupEventsOK' /\ GroupsAsTold'
    BY <1>1 DEF ToldInv, GroupEventsOK, GroupsAsTold, Exists
  <1>3. CreationsOK'
    BY <1>1 DEF ToldInv, CreationsOK
  <1> QED
    BY <1>2, <1>3 DEF ToldInv

LEMMA CommitCreateTold ==
  ASSUME GroupConstants, GroupInv, ToldInv, RowsTypeOK', NEW r \in GroupReqs, CommitCreate(r)
  PROVE  ToldInv'
  <1>1. groupTx[r] \in GroupTx /\ RequestOK(groupTx[r]) /\ groupTx[r].pc = "create"
    BY DEF CommitCreate, GroupInv, TxsTypeOK, RequestsOK
  <1>2. PICK g \in Groups, want \in Group : g = groupTx[r].id /\ want = groupTx[r].want
    BY <1>1 DEF RequestOK
  <1>3. PICK events : events = [x \in {g} |-> GroupCreated(want)]
    OBVIOUS
  <1>4. /\ group' = [group EXCEPT ![g] = want] /\ TellGroups(events) /\ UNCHANGED groupCopy
        /\ raced' = IF groupTx[r].alone THEN raced ELSE raced \cup {g}
    BY <1>2, <1>3 DEF CommitCreate, CommitGroupTx
  <1>5. group[g] = NoGroup /\ \A q \in GroupReqs \ {r} : groupTx[q].pc = "create" => groupTx[q].id # g
    BY <1>1, <1>2 DEF ToldInv, CreationsOK
  <1>6. group'[g] = want /\ (\A h \in Groups \ {g} : group'[h] = group[h]) /\ want # NoGroup
    BY <1>4, GroupConstants DEF GroupInv, RowsTypeOK, GroupConstants
  <1>7. DOMAIN events = {g} /\ events[g].type = "created" /\ events[g].row = want /\ events[g] \in GroupEvent
    BY <1>3 DEF GroupCreated, GroupEvent
  <1>8. /\ GroupEventsOK' /\ GroupsAsTold'
        /\ \A h \in Groups : group'[h] = NoGroup => groupEvents'[h] = <<>> /\ groupCopy'[h] = NoGroup
    BY <1>4, <1>5, <1>6, <1>7, GroupsTold
  <1>9. \A q \in GroupReqs \ {r} : groupTx'[q] = Disturbed(groupTx, IdleGroupTx)[q]
    BY DEF CommitCreate, CommitGroupTx
  <1>10. groupTx'[r] = IdleGroupTx
    BY DEF CommitCreate, CommitGroupTx, Disturbed, GroupInv, TxsTypeOK
  <1>11. \A q \in GroupReqs \ {r} : groupTx[q].pc = "create" => group'[groupTx[q].id] = NoGroup
    <2> SUFFICES ASSUME NEW q \in GroupReqs \ {r}, groupTx[q].pc = "create" PROVE group'[groupTx[q].id] = NoGroup
      OBVIOUS
    <2>1. group[groupTx[q].id] = NoGroup /\ groupTx[q].id # g /\ groupTx[q].id \in Groups
      BY <1>5 DEF ToldInv, CreationsOK, GroupInv, RequestsOK, RequestOK
    <2> QED
      BY <1>6, <2>1
  <1>12. CreationsOK'
    <2>1. PICK done \in SUBSET GroupReqs : done = {r}
      OBVIOUS
    <2>2. \A q \in done : groupTx'[q] = IdleGroupTx
      BY <1>10, <2>1
    <2> QED
      BY <1>8, <1>9, <1>11, <2>1, <2>2, CreationsGoOn DEF CreationsOK
  <1> QED
    BY <1>8, <1>12 DEF ToldInv

LEMMA CommitUpdateTold ==
  ASSUME GroupConstants, GroupInv, ToldInv, RowsTypeOK', NEW r \in GroupReqs, CommitUpdateGroup(r)
  PROVE  ToldInv'
  <1>1. groupTx[r] \in GroupTx /\ RequestOK(groupTx[r]) /\ groupTx[r].pc = "write"
    BY DEF CommitUpdateGroup, GroupInv, TxsTypeOK, RequestsOK
  <1>2. PICK g \in Groups, want \in Group : g = groupTx[r].id /\ want = groupTx[r].want
    BY <1>1 DEF RequestOK
  <1>3. PICK events : events = [x \in {g} |-> GroupUpdated(want)]
    OBVIOUS
  <1>4. PICK written : written = MembersWritten(group[g].members, groupTx[r].old, want.members)
    OBVIOUS
  <1>5. /\ group' = [group EXCEPT ![g] = [op |-> want.op, members |-> written]]
        /\ TellGroups(events) /\ UNCHANGED groupCopy /\ Exists(g)
        /\ raced' = IF groupTx[r].alone THEN raced \ {g} ELSE raced \cup {g}
    BY <1>2, <1>3, <1>4 DEF CommitUpdateGroup, CommitGroupTx
  <1>6. /\ group'[g] = [op |-> want.op, members |-> written]
        /\ (\A h \in Groups \ {g} : group'[h] = group[h])
    BY <1>5 DEF GroupInv, RowsTypeOK
  <1>7. group'[g] \in Group /\ group'[g].op = want.op /\ group'[g] # NoGroup
    <2>1. group'[g] \in Group \cup {NoGroup, Deleted}
      BY DEF RowsTypeOK
    <2>2. written \in SUBSET GroupUsers
      BY <1>1, <1>2, <1>4, <1>5 DEF MembersWritten, Exists, Group, GroupTx
    <2>3. group'[g] \in Group
      BY <1>6, <2>2 DEF Group
    <2> QED
      BY <1>6, <2>3, GroupConstants DEF GroupConstants
  <1>8. groupTx[r].alone => want = group'[g]
    <2> SUFFICES ASSUME groupTx[r].alone PROVE want = group'[g]
      OBVIOUS
    <2>1. groupTx[r].old = group[g].members
      BY <1>1, <1>2 DEF RequestOK
    <2>2. written = want.members
      BY <1>4, <2>1 DEF MembersWritten
    <2>3. want = [op |-> want.op, members |-> want.members]
      BY DEF Group
    <2> QED
      BY <1>6, <2>2, <2>3
  <1>9. DOMAIN events = {g} /\ events[g].type = "updated" /\ events[g].row = want /\ events[g] \in GroupEvent
    BY <1>3 DEF GroupUpdated, GroupEvent
  <1>10. /\ GroupEventsOK' /\ GroupsAsTold'
         /\ \A h \in Groups : group'[h] = NoGroup => groupEvents'[h] = <<>> /\ groupCopy'[h] = NoGroup
    BY <1>5, <1>6, <1>7, <1>8, <1>9, GroupsTold
  <1>11. \A q \in GroupReqs \ {r} : groupTx'[q] = Disturbed(groupTx, IdleGroupTx)[q]
    BY DEF CommitUpdateGroup, CommitGroupTx
  <1>12. groupTx'[r] = IdleGroupTx
    BY DEF CommitUpdateGroup, CommitGroupTx, Disturbed, GroupInv, TxsTypeOK
  <1>13. \A q \in GroupReqs \ {r} : groupTx[q].pc = "create" => group'[groupTx[q].id] = NoGroup
    <2> SUFFICES ASSUME NEW q \in GroupReqs \ {r}, groupTx[q].pc = "create" PROVE group'[groupTx[q].id] = NoGroup
      OBVIOUS
    <2>1. group[groupTx[q].id] = NoGroup /\ groupTx[q].id \in Groups
      BY DEF ToldInv, CreationsOK, GroupInv, RequestsOK, RequestOK
    <2>2. groupTx[q].id # g
      BY <1>5, <2>1, GroupConstants DEF Exists, GroupConstants
    <2> QED
      BY <1>6, <2>1, <2>2
  <1>14. CreationsOK'
    <2>1. PICK done \in SUBSET GroupReqs : done = {r}
      OBVIOUS
    <2>2. \A q \in done : groupTx'[q] = IdleGroupTx
      BY <1>12, <2>1
    <2> QED
      BY <1>10, <1>11, <1>13, <2>1, <2>2, CreationsGoOn DEF CreationsOK
  <1> QED
    BY <1>10, <1>14 DEF ToldInv

LEMMA DeleteTold ==
  ASSUME GroupConstants, GroupInv, ToldInv, RowsTypeOK', NEW g \in Groups, DeleteGroupByID(g)
  PROVE  ToldInv'
  <1>1. PICK events : events = [x \in {g} |-> GroupDeleted]
    OBVIOUS
  <1>2. /\ group' = [group EXCEPT ![g] = Deleted] /\ TellGroups(events) /\ UNCHANGED <<groupCopy, raced>> /\ Exists(g)
        /\ groupTx' = Disturbed(groupTx, IdleGroupTx)
    BY <1>1 DEF DeleteGroupByID
  <1>3. /\ group'[g] = Deleted /\ (\A h \in Groups \ {g} : group'[h] = group[h])
        /\ Deleted \notin Group /\ Deleted # NoGroup
    BY <1>2, GroupConstants DEF GroupInv, RowsTypeOK, GroupConstants
  <1>4. DOMAIN events = {g} /\ events[g].type = "deleted" /\ events[g].row = Deleted /\ events[g] \in GroupEvent
    BY <1>1 DEF GroupDeleted, GroupEvent
  <1>5. /\ GroupEventsOK' /\ GroupsAsTold'
        /\ \A h \in Groups : group'[h] = NoGroup => groupEvents'[h] = <<>> /\ groupCopy'[h] = NoGroup
    BY <1>2, <1>3, <1>4, GroupsTold
  <1>6. \A q \in GroupReqs : groupTx[q].pc = "create" => group'[groupTx[q].id] = NoGroup
    <2> SUFFICES ASSUME NEW q \in GroupReqs, groupTx[q].pc = "create" PROVE group'[groupTx[q].id] = NoGroup
      OBVIOUS
    <2>1. group[groupTx[q].id] = NoGroup /\ groupTx[q].id \in Groups
      BY DEF ToldInv, CreationsOK, GroupInv, RequestsOK, RequestOK
    <2>2. groupTx[q].id # g
      BY <1>2, <2>1, GroupConstants DEF Exists, GroupConstants
    <2> QED
      BY <1>3, <2>1, <2>2
  <1>7. CreationsOK'
    <2>1. {} \in SUBSET GroupReqs
      OBVIOUS
    <2> QED
      BY <1>2, <1>5, <1>6, <2>1, CreationsGoOn DEF CreationsOK
  <1> QED
    BY <1>5, <1>7 DEF ToldInv

LEMMA CommitListTold ==
  ASSUME GroupConstants, GroupInv, ToldInv, RowsTypeOK', NEW o \in GroupOps, CommitMembersList(o)
  PROVE  ToldInv'
  <1> DEFINE written(g) == MembersWritten(group[g].members, listTx[o].was[g], listTx[o].plan[g].members)
  <1>1. listTx[o] \in ListTx /\ ListOK(o, listTx[o]) /\ listTx[o].pc = "write" /\ \A g \in Planned(o) : Exists(g)
    BY DEF CommitMembersList, GroupInv, TxsTypeOK, ListsOK
  <1>2. PICK planned \in SUBSET Groups : planned = Planned(o)
    BY DEF Planned
  <1>3. PICK events : events = [g \in planned |-> GroupUpdated(listTx[o].plan[g])]
    OBVIOUS
  <1>4. /\ group' = [g \in Groups |-> IF g \in planned THEN [op |-> listTx[o].plan[g].op, members |-> written(g)]
                                       ELSE group[g]]
        /\ TellGroups(events) /\ UNCHANGED groupCopy
        /\ raced' = IF listTx[o].alone THEN raced
                    ELSE raced \cup {g \in Groups : group'[g] \in Group /\ group'[g].op = o}
        /\ groupTx' = Disturbed(groupTx, IdleGroupTx)
    BY <1>2, <1>3 DEF CommitMembersList
  <1>5. ASSUME NEW g \in planned
        PROVE  /\ listTx[o].plan[g] \in Group /\ listTx[o].plan[g].op = o /\ Exists(g)
               /\ group'[g] \in Group /\ group'[g].op = o /\ group'[g] # NoGroup
               /\ listTx[o].alone => group'[g] = listTx[o].plan[g]
    <2>1. listTx[o].plan[g] \in Group /\ listTx[o].plan[g].op = o /\ Exists(g) /\ listTx[o].plan[g] # NoGroup
      BY <1>1, <1>2 DEF Planned, ListOK, ListTx
    <2>2. group'[g] = [op |-> o, members |-> written(g)]
      BY <1>4, <2>1
    <2>3. written(g) \in SUBSET GroupUsers /\ o \in GroupOps
      BY <2>1 DEF MembersWritten, Exists, Group
    <2>4. group'[g] \in Group
      BY <2>2, <2>3 DEF Group
    <2>5. ASSUME listTx[o].alone PROVE group'[g] = listTx[o].plan[g]
      <3>1. listTx[o].was[g] = group[g].members
        BY <1>1, <2>1, <2>5 DEF ListOK
      <3>2. written(g) = listTx[o].plan[g].members
        BY <3>1 DEF MembersWritten
      <3>3. listTx[o].plan[g] = [op |-> listTx[o].plan[g].op, members |-> listTx[o].plan[g].members]
        BY <2>1 DEF Group
      <3> QED
        BY <2>1, <2>2, <3>2, <3>3
    <2> QED
      BY <2>1, <2>2, <2>4, <2>5, GroupConstants DEF GroupConstants
  <1>6. \A g \in Groups \ planned : group'[g] = group[g]
    BY <1>4
  <1>7. /\ DOMAIN events = planned
        /\ \A g \in planned : /\ events[g].type = "updated" /\ events[g].row = listTx[o].plan[g]
                               /\ events[g] \in GroupEvent
    BY <1>3, <1>5 DEF GroupUpdated, GroupEvent
  <1>8. \A g \in planned : g \notin raced' => listTx[o].alone
    BY <1>4, <1>5
  <1>9. /\ GroupEventsOK' /\ GroupsAsTold'
        /\ \A h \in Groups : group'[h] = NoGroup => groupEvents'[h] = <<>> /\ groupCopy'[h] = NoGroup
    <2>1. \A g \in DOMAIN events : /\ events[g] \in GroupEvent
                                   /\ events[g].type = "created" => group[g] = NoGroup
                                   /\ (events[g].row \in Group) = (group'[g] \in Group)
                                   /\ group'[g] \in Group => events[g].row.op = group'[g].op
                                   /\ g \notin raced' => events[g].row = group'[g]
                                   /\ group'[g] # NoGroup
      BY <1>5, <1>7, <1>8
    <2>2. \A g \in Groups \ DOMAIN events : group'[g] = group[g] /\ (g \in raced => g \in raced')
      BY <1>4, <1>6, <1>7
    <2> HIDE DEF written
    <2> QED
      BY <1>4, <1>7, <2>1, <2>2, GroupsTold
  <1>10. \A q \in GroupReqs : groupTx[q].pc = "create" => group'[groupTx[q].id] = NoGroup
    <2> SUFFICES ASSUME NEW q \in GroupReqs, groupTx[q].pc = "create" PROVE group'[groupTx[q].id] = NoGroup
      OBVIOUS
    <2>1. group[groupTx[q].id] = NoGroup /\ groupTx[q].id \in Groups
      BY DEF ToldInv, CreationsOK, GroupInv, RequestsOK, RequestOK
    <2>2. groupTx[q].id \notin planned
      BY <1>5, <2>1, GroupConstants DEF Exists, GroupConstants
    <2> QED
      BY <1>6, <2>1, <2>2
  <1>11. CreationsOK'
    <2>1. {} \in SUBSET GroupReqs
      OBVIOUS
    <2> QED
      BY <1>4, <1>9, <1>10, <2>1, CreationsGoOn DEF CreationsOK
  <1> QED
    BY <1>9, <1>11 DEF ToldInv

\* logistics-svc takes over what it is told.
LEMMA HandleTold ==
  ASSUME GroupConstants, GroupInv, ToldInv, NEW g \in Groups, HandleGroupEvent(g)
  PROVE  ToldInv'
  <1>1. PICK s \in Seq(GroupEvent) : s = groupEvents[g]
    BY DEF ToldInv, GroupEventsOK
  <1>2. PICK n \in Nat : n = Len(s)
    BY LenProperties
  <1>3. s # <<>> /\ n # 0
    BY <1>1, <1>2, EmptySeq DEF HandleGroupEvent
  <1>4. /\ Head(s) = s[1] /\ Head(s) \in GroupEvent /\ Tail(s) \in Seq(GroupEvent) /\ Len(Tail(s)) = n - 1
        /\ \A i \in 1..(n - 1) : Tail(s)[i] = s[i + 1]
    BY <1>2, <1>3, HeadTailProperties, ElementOfSeq
  <1>5. /\ groupCopy'[g] = Head(s).row /\ groupEvents'[g] = Tail(s)
        /\ \A h \in Groups \ {g} : groupCopy'[h] = groupCopy[h] /\ groupEvents'[h] = groupEvents[h]
        /\ groupEvents' = [h \in Groups |-> groupEvents'[h]] /\ groupCopy' = [h \in Groups |-> groupCopy'[h]]
        /\ UNCHANGED <<group, groupTx, raced>>
    BY <1>1 DEF HandleGroupEvent, CopiedGroup, ToldInv, GroupEventsOK
  <1>6. GroupEventsOK'
    <2>1. \A h \in Groups : groupEvents'[h] \in Seq(GroupEvent)
      <3>1. \A h \in Groups : groupEvents[h] \in Seq(GroupEvent)
        BY DEF ToldInv, GroupEventsOK
      <3> QED
        BY <1>4, <1>5, <3>1
    <2>2. \A h \in Groups : groupCopy'[h] \in Group \cup {NoGroup, Deleted}
      BY <1>4, <1>5 DEF ToldInv, GroupEventsOK, GroupEvent
    <2>3. groupEvents' \in [Groups -> Seq(GroupEvent)]
      BY <1>5, <2>1
    <2>4. groupCopy' \in [Groups -> Group \cup {NoGroup, Deleted}]
      BY <1>5, <2>2
    <2> QED
      BY <2>3, <2>4 DEF GroupEventsOK
  <1>7. CreationsOK'
    BY <1>1, <1>3, <1>5 DEF ToldInv, CreationsOK
  <1>8. ToldOf(g)' = ToldOf(g)
    <2>1. ToldOf(g) = s[n].row
      BY <1>1, <1>2, <1>3 DEF ToldOf
    <2>2. CASE n = 1
      <3>1. Tail(s) = <<>>
        <4>1. Len(Tail(s)) = 0
          BY <1>4, <2>2
        <4> QED
          BY <1>4, <4>1, EmptySeq
      <3> QED
        BY <1>4, <1>5, <2>1, <2>2, <3>1 DEF ToldOf
    <2>3. CASE n # 1
      <3>1. n - 1 \in 1..(n - 1) /\ (n - 1) + 1 = n /\ n - 1 # 0
        BY <1>3, <2>3
      <3>2. Tail(s)[n - 1] = s[n]
        BY <1>4, <3>1
      <3>3. Tail(s) # <<>>
        BY <1>4, <3>1
      <3> QED
        BY <1>4, <1>5, <2>1, <3>2, <3>3 DEF ToldOf
    <2> QED
      BY <2>2, <2>3
  <1>9. ASSUME NEW i \in DOMAIN groupEvents'[g], groupEvents'[g][i].type = "created" PROVE FALSE
    <2>1. i \in 1..(n - 1) /\ Tail(s)[i] = s[i + 1]
      BY <1>4, <1>5, LenProperties
    <2>2. i + 1 \in DOMAIN s /\ s[i + 1].type = "created"
      BY <1>2, <1>5, <1>9, <2>1, LenProperties
    <2>3. i + 1 = 1
      BY <1>1, <2>2 DEF ToldInv, GroupsAsTold
    <2> QED
      BY <2>1, <2>3
  <1>10. ASSUME NEW h \in Groups
         PROVE  /\ (ToldOf(h)' \in Group) = (group'[h] \in Group)
                /\ group'[h] \in Group => ToldOf(h)'.op = group'[h].op
                /\ h \notin raced' => ToldOf(h)' = group'[h]
                /\ \A i \in DOMAIN groupEvents'[h] :
                       groupEvents'[h][i].type = "created" => i = 1 /\ groupCopy'[h] = NoGroup
    <2>1. ToldOf(h)' = ToldOf(h)
      BY <1>5, <1>8 DEF ToldOf
    <2>2. \A i \in DOMAIN groupEvents'[h] :
              groupEvents'[h][i].type = "created" => i = 1 /\ groupCopy'[h] = NoGroup
      <3>1. CASE h = g
        BY <1>9, <3>1
      <3>2. CASE h # g
        BY <1>5, <3>2 DEF ToldInv, GroupsAsTold
      <3> QED
        BY <3>1, <3>2
    <2> QED
      BY <1>5, <2>1, <2>2 DEF ToldInv, GroupsAsTold, ToldOf, Exists
  <1>11. GroupsAsTold'
    BY <1>10 DEF GroupsAsTold, ToldOf, Exists
  <1> QED
    BY <1>6, <1>7, <1>11 DEF ToldInv

LEMMA ToldInvInit == ASSUME GroupConstants, GroupInit PROVE ToldInv
  <1>1. <<>> \in Seq(GroupEvent)
    OBVIOUS
  <1>2. GroupEventsOK
    BY <1>1 DEF GroupInit, GroupEventsOK
  <1>3. CreationsOK
    BY IdleGroupTyped DEF GroupInit, CreationsOK
  <1>4. GroupsAsTold
    <2>1. ASSUME NEW g \in Groups
          PROVE  group[g] = NoGroup /\ groupCopy[g] = NoGroup /\ groupEvents[g] = <<>> /\ DOMAIN groupEvents[g] = {}
      BY DEF GroupInit
    <2>2. NoGroup \notin Group
      BY DEF GroupConstants
    <2> QED
      BY <2>1, <2>2 DEF GroupsAsTold, Exists
  <1> QED
    BY <1>2, <1>3, <1>4 DEF ToldInv

LEMMA ToldInvNext ==
  ASSUME GroupConstants, GroupInv, GroupInv', ToldInv, [GroupNext]_groupVars
  PROVE  ToldInv'
  <1>0. RowsTypeOK'
    BY DEF GroupInv
  <1>1. CASE UNCHANGED groupVars
    BY <1>1, NothingTold DEF groupVars
  <1>2. ASSUME NEW r \in GroupReqs, NEW g \in Groups, NEW row \in Group, UpdateGroup(r, g, row) PROVE ToldInv'
    BY <1>2, RequestsTold DEF UpdateGroup
  <1>3. ASSUME NEW r \in GroupReqs, ReadGroup(r) PROVE ToldInv'
    <2>1. [groupTx[r] EXCEPT !.pc = "write", !.old = group[groupTx[r].id].members].pc = "write"
      BY DEF GroupInv, TxsTypeOK, GroupTx
    <2> QED
      BY <1>3, <2>1, RequestsTold DEF ReadGroup
  <1>4. ASSUME NEW r \in GroupReqs, AbortGroupTx(r) PROVE ToldInv'
    BY <1>4, RequestsTold, IdleGroupTyped DEF AbortGroupTx
  <1>5. ASSUME NEW o \in GroupOps, NEW new \in SUBSET GroupUsers, PlanGroups(o, new) PROVE ToldInv'
    BY <1>5, ListsTold DEF PlanGroups
  <1>6. ASSUME NEW o \in GroupOps, ReadGroups(o) \/ FailMembersList(o) PROVE ToldInv'
    BY <1>6, ListsTold DEF ReadGroups, FailMembersList
  <1>7. CASE GroupNext
    BY <1>0, <1>2, <1>3, <1>4, <1>5, <1>6, <1>7, CreateTold, CommitCreateTold, CommitUpdateTold, DeleteTold,
       CommitListTold, HandleTold
    DEF GroupNext, handleCreateGroup, handleUpdateGroup, handleDeleteGroupByID
  <1> QED
    BY <1>1, <1>7

LEMMA ToldInvFollows == GroupInv /\ ToldInv => GroupTypeOK /\ GroupsAsTold
  BY DEF GroupInv, RowsTypeOK, TxsTypeOK, ToldInv, GroupEventsOK, GroupTypeOK

\* Groups, requests and copies have their types, and logistics-svc is told of every change of a group in the order
\* of the commits: what it has not handled yet ends with what group-svc has stored.
THEOREM GroupsAsToldCorrect == GroupSpec => [](GroupTypeOK /\ GroupsAsTold)
  <1>1. GroupInit => GroupInv /\ ToldInv
    BY GroupInvInit, ToldInvInit, GroupConstants
  <1>2. GroupInv /\ ToldInv /\ [GroupNext]_groupVars => (GroupInv /\ ToldInv)'
    BY GroupInvNext, ToldInvNext, GroupConstants
  <1> QED
    BY <1>1, <1>2, ToldInvFollows, PTL DEF GroupSpec
-----------------------------------------------------------------------------
(* The mirror of the open-intel-delivery notifier.                         *)

MirrorStates == {"none", "active", "ended"}
DeliveryEvents(d) == [type : {"deliveryCreated", "deliveryEnded"}]
                         \cup [type : {"attemptCreated", "attemptEnded"}, attempt : AttemptsOf(d)]
AutoEvents == [type : {"auto"}, enabled : BOOLEAN]

OwnedTables == [delivery : [MirrorDeliveries -> MirrorStates], attempt : [MirrorAttempts -> MirrorStates],
                auto : SUBSET MirrorEntries]

\* MirrorTypeOK, and what the events and logistics-svc's tables may be.
MirrorTypes == /\ mirror \in Tables /\ watched \subseteq MirrorDeliveries
               /\ owned \in OwnedTables
               /\ mirrorEvents = [k \in MirrorKeys |-> mirrorEvents[k]]
               /\ \A d \in MirrorDeliveries : mirrorEvents[d] \in Seq(DeliveryEvents(d))
               /\ \A e \in MirrorEntries : mirrorEvents[e] \in Seq(AutoEvents)
               /\ mirrorEvents[TheIntel] \in {<<>>, <<NotifyIntelCreated>>}
               /\ \A k \in MirrorKeys : Len(mirrorEvents[k]) <= MaxMirrorEvents

\* A delivery has one active attempt at a time, and none before it is created.
OwnedOK == /\ \A a, other \in MirrorAttempts :
                  /\ owned.attempt[a] = "active" /\ owned.attempt[other] = "active" /\ DeliveryOf[a] = DeliveryOf[other]
                         => a = other
                  /\ owned.delivery[DeliveryOf[a]] = "none" => owned.attempt[a] = "none"

\* The intel comes before its deliveries.
IntelOK == /\ mirror.deliveries # {} => mirror.intel
           /\ (\E d \in MirrorDeliveries : owned.delivery[d] # "none") => mirror.intel \/ mirrorEvents[TheIntel] # <<>>
           /\ (\A d \in MirrorDeliveries : owned.delivery[d] = "none") => ~mirror.intel /\ mirrorEvents[TheIntel] = <<>>
           /\ TheIntel \notin redone /\ mirrorEvents[TheIntel] # <<>> => ~mirror.intel

\* Where an event is among others.
At(s, event) == {i \in DOMAIN s : s[i] = event}
\* A thing x is there, or is going to be before the event at j.
BeforeOn(s, on, j, x, there) == \/ x \in there /\ At(s, on) = {}
                                \/ x \notin there /\ \E i \in DOMAIN s : i < j /\ At(s, on) = {i}
\* What is there and the events on and off that are still to be handled, for something that is in the
\* given state: on once at most, then off once at most, and what they change is as it was before them.
InStep(s, on, off, x, there, state) ==
    /\ state = "none" => x \notin there /\ At(s, on) = {} /\ At(s, off) = {}
    /\ state = "active" => At(s, off) = {} /\ BeforeOn(s, on, Len(s) + 1, x, there)
    /\ state = "ended" => \/ x \notin there /\ At(s, on) = {} /\ At(s, off) = {}
                          \/ \E j \in DOMAIN s : At(s, off) = {j} /\ BeforeOn(s, on, j, x, there)

DeliveryInStep(d) == InStep(mirrorEvents[d], NotifyIntelDeliveryCreated, NotifyIntelDeliveryStatusUpdated,
                            d, mirror.deliveries, owned.delivery[d])
AttemptInStep(d, a) == InStep(mirrorEvents[d], NotifyIntelDeliveryAttemptCreated(a), NotifyIntelDeliveryAttemptStatusUpdated(a),
                              a, mirror.attempts, owned.attempt[a])
AllInStep == \A d \in MirrorDeliveries \ redone : DeliveryInStep(d) /\ \A a \in AttemptsOf(d) : AttemptInStep(d, a)

MirrorInv == MirrorTypes /\ OwnedOK /\ IntelOK /\ AllInStep /\ AutoDeliveryFollows /\ WatcherIsTold
-----------------------------------------------------------------------------
(* Sequences of events.                                                    *)

LEMMA OneInSequence ==
  ASSUME NEW x
  PROVE  SetToSeq({x}) = <<x>>
  <1>1. Cardinality({x}) = 1
    BY FS_Singleton
  <1>2. SetToSeq({x}) = CHOOSE f \in [1..1 -> {x}] : IsInjective(f)
    BY <1>1 DEF SetToSeq
  <1>3. \E f \in [1..1 -> {x}] : IsInjective(f)
    <2>1. [i \in 1..1 |-> x] \in [1..1 -> {x}] /\ IsInjective([i \in 1..1 |-> x])
      BY DEF IsInjective
    <2> QED
      BY <2>1
  <1>4. PICK f \in [1..1 -> {x}] : f = SetToSeq({x})
    BY <1>2, <1>3
  <1>5. f \in Seq({x}) /\ Len(f) = 1 /\ f[1] = x
    <2>1. f \in Seq({x})
      BY SeqDef
    <2> QED
      BY <2>1, LenProperties
  <1>6. <<x>> \in Seq({x}) /\ Len(<<x>>) = 1 /\ <<x>>[1] = x
    OBVIOUS
  <1> QED
    BY <1>4, <1>5, <1>6, SeqEqual
LEMMA NoneInSequence == SetToSeq({}) = <<>>
  <1>1. Cardinality({}) = 0
    BY FS_EmptySet
  <1>2. SetToSeq({}) = CHOOSE f \in [1..0 -> {}] : IsInjective(f)
    BY <1>1 DEF SetToSeq
  <1>3. \E f \in [1..0 -> {}] : IsInjective(f)
    <2>1. [i \in 1..0 |-> {}] \in [1..0 -> {}] /\ IsInjective([i \in 1..0 |-> {}])
      BY DEF IsInjective
    <2> QED
      BY <2>1
  <1>4. PICK f \in [1..0 -> {}] : f = SetToSeq({})
    BY <1>2, <1>3
  <1>5. f \in Seq({}) /\ Len(f) = 0
    BY <1>4
  <1> QED
    BY <1>4, <1>5, EmptySeq

\* What is appended comes after all there is.
LEMMA AtConcat ==
  ASSUME NEW S, NEW s \in Seq(S), NEW t \in Seq(S), NEW event
  PROVE  /\ s \o t \in Seq(S) /\ DOMAIN s = 1..Len(s) /\ Len(s) \in Nat /\ Len(t) \in Nat
         /\ DOMAIN (s \o t) = 1..(Len(s) + Len(t))
         /\ At(s, event) \subseteq At(s \o t, event)
         /\ \A j \in At(t, event) : Len(s) + j \in At(s \o t, event)
         /\ \A i \in At(s \o t, event) : i \in At(s, event) \/ \E j \in At(t, event) : i = Len(s) + j
  <1>1. /\ s \o t \in Seq(S) /\ Len(s) \in Nat /\ Len(t) \in Nat
        /\ DOMAIN s = 1..Len(s) /\ DOMAIN t = 1..Len(t) /\ Len(s \o t) = Len(s) + Len(t)
        /\ DOMAIN (s \o t) = 1..(Len(s) + Len(t))
        /\ \A i \in 1..(Len(s) + Len(t)) : (s \o t)[i] = IF i <= Len(s) THEN s[i] ELSE t[i - Len(s)]
    <2>1. s \o t \in Seq(S) /\ Len(s \o t) = Len(s) + Len(t)
      BY ConcatProperties
    <2>2. \A i \in 1..(Len(s) + Len(t)) : (s \o t)[i] = IF i <= Len(s) THEN s[i] ELSE t[i - Len(s)]
      BY ConcatProperties
    <2>3. Len(s) \in Nat /\ DOMAIN s = 1..Len(s) /\ Len(t) \in Nat /\ DOMAIN t = 1..Len(t)
      BY LenProperties
    <2>4. DOMAIN (s \o t) = 1..Len(s \o t)
      BY <2>1, LenProperties
    <2> QED
      BY <2>1, <2>2, <2>3, <2>4
  <1>2. ASSUME NEW i \in At(s \o t, event) PROVE i \in At(s, event) \/ \E j \in At(t, event) : i = Len(s) + j
    <2>1. i \in 1..(Len(s) + Len(t)) /\ (s \o t)[i] = event
      BY <1>1 DEF At
    <2>2. CASE i <= Len(s)
      BY <1>1, <2>1, <2>2 DEF At
    <2>3. CASE i > Len(s)
      <3>1. i - Len(s) \in 1..Len(t) /\ i = Len(s) + (i - Len(s)) /\ t[i - Len(s)] = event
        BY <1>1, <2>1, <2>3
      <3> QED
        BY <1>1, <3>1 DEF At
    <2> QED
      BY <1>1, <2>1, <2>2, <2>3
  <1>3. ASSUME NEW i \in At(s, event) PROVE i \in At(s \o t, event)
    BY <1>1 DEF At
  <1>4. ASSUME NEW j \in At(t, event) PROVE Len(s) + j \in At(s \o t, event)
    <2>1. j \in 1..Len(t) /\ t[j] = event
      BY <1>1 DEF At
    <2>2. Len(s) + j \in 1..(Len(s) + Len(t)) /\ ~(Len(s) + j <= Len(s)) /\ (Len(s) + j) - Len(s) = j
      BY <1>1, <2>1
    <2> QED
      BY <1>1, <2>1, <2>2 DEF At
  <1> QED
    BY <1>1, <1>2, <1>3, <1>4

LEMMA AtConcatOld ==
  ASSUME NEW S, NEW s \in Seq(S), NEW t \in Seq(S), NEW event, At(t, event) = {}
  PROVE  At(s \o t, event) = At(s, event)
  <1>1. \A i \in At(s \o t, event) : i \in At(s, event)
    <2>1. \A i \in At(s \o t, event) : i \in At(s, event) \/ \E j \in At(t, event) : i = Len(s) + j
      BY AtConcat
    <2> QED
      BY <2>1
  <1>2. At(s, event) \subseteq At(s \o t, event)
    BY AtConcat
  <1> QED
    BY <1>1, <1>2

LEMMA AtConcatNew ==
  ASSUME NEW S, NEW s \in Seq(S), NEW t \in Seq(S), NEW event, At(s, event) = {}, NEW j, At(t, event) = {j}
  PROVE  At(s \o t, event) = {Len(s) + j}
  <1>1. \A i \in At(s \o t, event) : i \in At(s, event) \/ \E k \in At(t, event) : i = Len(s) + k
    BY AtConcat
  <1>2. \A k \in At(t, event) : Len(s) + k \in At(s \o t, event)
    BY AtConcat
  <1> QED
    BY <1>1, <1>2

\* When the first one has been handled the others are one place further.
LEMMA AtTail ==
  ASSUME NEW S, NEW s \in Seq(S), s # <<>>, NEW event
  PROVE  /\ Tail(s) \in Seq(S) /\ Len(s) \in Nat \ {0} /\ Len(Tail(s)) = Len(s) - 1
         /\ DOMAIN s = 1..Len(s) /\ DOMAIN Tail(s) = 1..(Len(s) - 1) /\ Head(s) \in S
         /\ \A i \in At(Tail(s), event) : i + 1 \in At(s, event)
         /\ Head(s) = event => 1 \in At(s, event)
         /\ \A i \in At(s, event) : (i = 1 /\ Head(s) = event) \/ i - 1 \in At(Tail(s), event)
  <1>1. /\ Tail(s) \in Seq(S) /\ Len(s) \in Nat \ {0} /\ Len(Tail(s)) = Len(s) - 1 /\ Head(s) = s[1]
        /\ Head(s) \in S /\ \A i \in 1..(Len(s) - 1) : Tail(s)[i] = s[i + 1]
    <2>1. Len(s) \in Nat \ {0}
      BY EmptySeq
    <2> QED
      BY <2>1, HeadTailProperties, ElementOfSeq
  <1>2. DOMAIN s = 1..Len(s) /\ DOMAIN Tail(s) = 1..(Len(s) - 1)
    BY <1>1, LenProperties
  <1>3. ASSUME NEW i \in At(s, event)
        PROVE  (i = 1 /\ Head(s) = event) \/ i - 1 \in At(Tail(s), event)
    <2>1. i \in 1..Len(s) /\ s[i] = event
      BY <1>2 DEF At
    <2>2. CASE i = 1
      BY <1>1, <2>1, <2>2
    <2>3. CASE i # 1
      <3>1. i - 1 \in 1..(Len(s) - 1) /\ (i - 1) + 1 = i
        BY <1>1, <2>1, <2>3
      <3> QED
        BY <1>1, <1>2, <2>1, <3>1 DEF At
    <2> QED
      BY <2>2, <2>3
  <1>4. ASSUME NEW j \in At(Tail(s), event) PROVE j + 1 \in At(s, event)
    <2>1. j \in 1..(Len(s) - 1) /\ Tail(s)[j] = event
      BY <1>2 DEF At
    <2>2. j + 1 \in 1..Len(s)
      BY <1>1, <2>1
    <2> QED
      BY <1>1, <1>2, <2>1, <2>2 DEF At
  <1>5. Head(s) = event => 1 \in At(s, event)
    BY <1>1, <1>2 DEF At
  <1> QED
    BY <1>1, <1>2, <1>3, <1>4, <1>5

\* Events about something else.
LEMMA InStepWithOthers ==
  ASSUME NEW S, NEW s \in Seq(S), NEW t \in Seq(S), NEW on, NEW off, NEW x, NEW there, NEW state,
         InStep(s, on, off, x, there, state), At(t, on) = {}, At(t, off) = {}
  PROVE  InStep(s \o t, on, off, x, there, state)
  <1>1. /\ At(s \o t, on) = At(s, on) /\ At(s \o t, off) = At(s, off)
        /\ DOMAIN s = 1..Len(s) /\ Len(s) \in Nat /\ Len(t) \in Nat /\ DOMAIN (s \o t) = 1..(Len(s) + Len(t))
        /\ Len(s \o t) = Len(s) + Len(t)
    <2>1. At(s \o t, on) = At(s, on)
      BY AtConcatOld
    <2>2. At(s \o t, off) = At(s, off)
      BY AtConcatOld
    <2>3. Len(s \o t) = Len(s) + Len(t)
      BY ConcatProperties
    <2> QED
      BY <2>1, <2>2, <2>3, AtConcat
  <1>2. \A i \in DOMAIN s : i \in DOMAIN (s \o t) /\ (i < Len(s) + 1 => i < Len(s \o t) + 1)
    BY <1>1
  <1>3. \A j : BeforeOn(s, on, j, x, there) => BeforeOn(s \o t, on, j, x, there)
    BY <1>1, <1>2 DEF BeforeOn
  <1>4. BeforeOn(s, on, Len(s) + 1, x, there) => BeforeOn(s \o t, on, Len(s \o t) + 1, x, there)
    BY <1>1, <1>2 DEF BeforeOn
  <1> QED
    BY <1>1, <1>2, <1>3, <1>4 DEF InStep

\* It is there from now on.
LEMMA InStepOn ==
  ASSUME NEW S, NEW s \in Seq(S), NEW t \in Seq(S), NEW on, NEW off, NEW x, NEW there,
         InStep(s, on, off, x, there, "none"), At(t, on) = {1}, At(t, off) = {}
  PROVE  InStep(s \o t, on, off, x, there, "active")
  <1>1. /\ At(s, on) = {} /\ At(s, off) = {} /\ x \notin there
    BY DEF InStep
  <1>2. /\ At(s \o t, on) = {Len(s) + 1} /\ At(s \o t, off) = {} /\ Len(s) \in Nat /\ Len(t) \in Nat
        /\ DOMAIN (s \o t) = 1..(Len(s) + Len(t)) /\ Len(s \o t) = Len(s) + Len(t)
    <2>1. At(s \o t, on) = {Len(s) + 1}
      <3>1. PICK j : j = 1
        OBVIOUS
      <3>2. At(t, on) = {j}
        BY <3>1
      <3>3. At(s \o t, on) = {Len(s) + j}
        BY <1>1, <3>2, AtConcatNew
      <3> QED
        BY <3>1, <3>3
    <2>2. At(s \o t, off) = {}
      BY <1>1, AtConcatOld
    <2>3. Len(s \o t) = Len(s) + Len(t)
      BY ConcatProperties
    <2> QED
      BY <2>1, <2>2, <2>3, AtConcat
  <1>3. Len(s) + 1 \in DOMAIN (s \o t)
    BY <1>2 DEF At
  <1>4. Len(s) + 1 < Len(s \o t) + 1
    <2>1. 1 \in DOMAIN t /\ DOMAIN t = 1..Len(t)
      BY LenProperties DEF At
    <2> QED
      BY <1>2, <2>1
  <1> QED
    BY <1>1, <1>2, <1>3, <1>4 DEF InStep, BeforeOn

\* It is gone.
LEMMA InStepOff ==
  ASSUME NEW S, NEW s \in Seq(S), NEW t \in Seq(S), NEW on, NEW off, NEW x, NEW there, NEW j \in DOMAIN t,
         InStep(s, on, off, x, there, "active"), At(t, on) = {}, At(t, off) = {j}
  PROVE  InStep(s \o t, on, off, x, there, "ended")
  <1>1. At(s, off) = {} /\ BeforeOn(s, on, Len(s) + 1, x, there)
    BY DEF InStep
  <1>2. /\ At(s \o t, on) = At(s, on) /\ At(s \o t, off) = {Len(s) + j} /\ Len(s) \in Nat /\ Len(t) \in Nat
        /\ DOMAIN s = 1..Len(s) /\ DOMAIN (s \o t) = 1..(Len(s) + Len(t)) /\ DOMAIN t = 1..Len(t)
    <2>1. At(s \o t, on) = At(s, on)
      BY <1>1, AtConcatOld
    <2>2. At(s \o t, off) = {Len(s) + j}
      BY <1>1, AtConcatNew
    <2> QED
      BY <2>1, <2>2, AtConcat, LenProperties
  <1>3. Len(s) + j \in DOMAIN (s \o t)
    BY <1>2
  <1>4. BeforeOn(s \o t, on, Len(s) + j, x, there)
    <2>1. \A i \in DOMAIN s : i \in DOMAIN (s \o t) /\ i < Len(s) + j
      BY <1>2
    <2> QED
      BY <1>1, <1>2, <2>1 DEF BeforeOn
  <1> QED
    BY <1>2, <1>3, <1>4 DEF InStep

\* The first event is handled.
LEMMA InStepHandled ==
  ASSUME NEW S, NEW s \in Seq(S), s # <<>>, NEW on, NEW off, on # off, NEW x, NEW there, NEW state \in MirrorStates,
         InStep(s, on, off, x, there, state), NEW after,
         Head(s) = on => x \in after, Head(s) = off => x \notin after,
         Head(s) # on /\ Head(s) # off => (x \in after <=> x \in there)
  PROVE  /\ InStep(Tail(s), on, off, x, after, state)
         /\ Head(s) = on => x \notin there /\ state # "none"
         /\ Head(s) = off => x \in there
  <1> DEFINE t == Tail(s)
             n == Len(s)
  <1>1. /\ n \in Nat \ {0} /\ Len(t) = n - 1 /\ DOMAIN s = 1..n /\ DOMAIN t = 1..(n - 1)
        /\ \A e : /\ \A i \in At(t, e) : i + 1 \in At(s, e)
                  /\ Head(s) = e => 1 \in At(s, e)
                  /\ \A i \in At(s, e) : (i = 1 /\ Head(s) = e) \/ i - 1 \in At(t, e)
    BY AtTail
  <1>2. At(t, on) \subseteq 1..(n - 1) /\ At(t, off) \subseteq 1..(n - 1)
    BY <1>1 DEF At
  <1>3. (Head(s) # on /\ At(s, on) = {} => At(t, on) = {}) /\ (Head(s) # off /\ At(s, off) = {} => At(t, off) = {})
        /\ (At(s, on) = {} => Head(s) # on /\ At(t, on) = {}) /\ (At(s, off) = {} => Head(s) # off /\ At(t, off) = {})
    BY <1>1
  <1>4. ASSUME NEW e \in {on, off}, NEW i \in DOMAIN s, At(s, e) = {i}
        PROVE  /\ Head(s) = e => i = 1 /\ At(t, e) = {}
               /\ Head(s) # e => i - 1 \in DOMAIN t /\ At(t, e) = {i - 1}
    <2>0. /\ At(t, e) \subseteq 1..(n - 1) /\ \A k \in At(t, e) : k + 1 \in At(s, e)
          /\ Head(s) = e => 1 \in At(s, e)
          /\ (i = 1 /\ Head(s) = e) \/ i - 1 \in At(t, e)
      BY <1>1, <1>2, <1>4
    <2>1. \A k \in At(t, e) : k = i - 1
      <3> SUFFICES ASSUME NEW k \in At(t, e) PROVE k = i - 1
        OBVIOUS
      <3>1. k + 1 = i /\ k \in Nat
        BY <1>4, <2>0
      <3> QED
        BY <3>1
    <2>2. CASE Head(s) = e
      <3>1. i = 1
        BY <1>4, <2>0, <2>2
      <3>2. At(t, e) = {}
        BY <2>0, <2>1, <3>1
      <3> QED
        BY <2>2, <3>1, <3>2
    <2>3. CASE Head(s) # e
      <3>1. i - 1 \in At(t, e)
        BY <2>0, <2>3
      <3> QED
        BY <1>1, <2>0, <2>1, <2>3, <3>1
    <2> QED
      BY <2>2, <2>3
  <1>5. ASSUME NEW j \in 2..(n + 1), BeforeOn(s, on, j, x, there), Head(s) # off
        PROVE  BeforeOn(t, on, j - 1, x, after) /\ (Head(s) = on => x \notin there)
    <2>1. CASE x \in there /\ At(s, on) = {}
      <3>1. Head(s) # on /\ At(t, on) = {}
        BY <1>3, <2>1
      <3> QED
        BY <1>5, <2>1, <3>1 DEF BeforeOn
    <2>2. ASSUME x \notin there, NEW i \in DOMAIN s, i < j, At(s, on) = {i} PROVE BeforeOn(t, on, j - 1, x, after)
      <3>1. CASE Head(s) = on
        <4>1. At(t, on) = {}
          BY <1>4, <2>2, <3>1
        <4> QED
          BY <3>1, <4>1 DEF BeforeOn
      <3>2. CASE Head(s) # on
        <4>1. i - 1 \in DOMAIN t /\ At(t, on) = {i - 1}
          BY <1>4, <2>2, <3>2
        <4>2. i - 1 < j - 1
          BY <1>1, <2>2
        <4> QED
          BY <1>5, <2>2, <3>2, <4>1, <4>2 DEF BeforeOn
      <3> QED
        BY <3>1, <3>2
    <2> QED
      BY <1>5, <2>1, <2>2 DEF BeforeOn
  <1>6. CASE state = "none"
    <2>1. x \notin there /\ At(s, on) = {} /\ At(s, off) = {}
      BY <1>6 DEF InStep
    <2>2. Head(s) # on /\ Head(s) # off /\ At(t, on) = {} /\ At(t, off) = {}
      BY <1>3, <2>1
    <2> QED
      BY <1>6, <2>1, <2>2 DEF InStep
  <1>7. CASE state = "active"
    <2>1. At(s, off) = {} /\ BeforeOn(s, on, n + 1, x, there)
      BY <1>7 DEF InStep
    <2>2. Head(s) # off /\ At(t, off) = {}
      BY <1>3, <2>1
    <2>3. n + 1 \in 2..(n + 1) /\ (n + 1) - 1 = Len(t) + 1
      BY <1>1
    <2>4. BeforeOn(t, on, (n + 1) - 1, x, after) /\ (Head(s) = on => x \notin there)
      BY <1>5, <2>1, <2>2, <2>3
    <2> QED
      BY <1>7, <2>2, <2>3, <2>4 DEF InStep
  <1>8. CASE state = "ended"
    <2>1. CASE x \notin there /\ At(s, on) = {} /\ At(s, off) = {}
      <3>1. Head(s) # on /\ Head(s) # off /\ At(t, on) = {} /\ At(t, off) = {}
        BY <1>3, <2>1
      <3> QED
        BY <1>8, <2>1, <3>1 DEF InStep
    <2>2. ASSUME NEW j \in DOMAIN s, At(s, off) = {j}, BeforeOn(s, on, j, x, there)
          PROVE  /\ InStep(t, on, off, x, after, state)
                 /\ Head(s) = on => x \notin there
                 /\ Head(s) = off => x \in there
      <3>1. CASE Head(s) = off
        <4>1. j = 1 /\ At(t, off) = {}
          BY <1>4, <2>2, <3>1
        <4>2. x \in there /\ At(s, on) = {}
          <5>1. \A i \in DOMAIN s : ~(i < j)
            BY <1>1, <4>1
          <5> QED
            BY <2>2, <5>1 DEF BeforeOn
        <4>3. At(t, on) = {}
          BY <1>3, <4>2
        <4> QED
          BY <1>8, <3>1, <4>1, <4>2, <4>3 DEF InStep
      <3>2. CASE Head(s) # off
        <4>1. j - 1 \in DOMAIN t /\ At(t, off) = {j - 1}
          BY <1>4, <2>2, <3>2
        <4>2. j \in 2..(n + 1)
          BY <1>1, <4>1
        <4>3. BeforeOn(t, on, j - 1, x, after) /\ (Head(s) = on => x \notin there)
          BY <1>5, <2>2, <3>2, <4>2
        <4> QED
          BY <1>8, <3>2, <4>1, <4>3 DEF InStep
      <3> QED
        BY <3>1, <3>2
    <2> QED
      BY <1>8, <2>1, <2>2 DEF InStep
  <1> QED
    BY <1>6, <1>7, <1>8 DEF MirrorStates

\* What the first event finds.
LEMMA InStepHead ==
  ASSUME NEW S, NEW s \in Seq(S), s # <<>>, NEW on, NEW off, on # off, NEW x, NEW there, NEW state \in MirrorStates,
         InStep(s, on, off, x, there, state)
  PROVE  /\ Head(s) = on => x \notin there /\ state # "none"
         /\ Head(s) = off => x \in there
  <1>1. /\ DOMAIN s = 1..Len(s) /\ Len(s) \in Nat
        /\ Head(s) = on => 1 \in At(s, on)
        /\ Head(s) = off => 1 \in At(s, off)
    BY AtTail
  <1>2. \A i \in DOMAIN s : ~(i < 1)
    BY <1>1
  <1>3. CASE Head(s) = on
    BY <1>1, <1>3 DEF InStep, BeforeOn, MirrorStates
  <1>4. CASE Head(s) = off
    BY <1>1, <1>2, <1>4 DEF InStep, BeforeOn, MirrorStates
  <1> QED
    BY <1>3, <1>4

\* InTheEnd, with the things that are there.
ComesTo(s, on, off, x, there) ==
    \/ x \in there /\ \A i \in DOMAIN s : s[i] # off
    \/ \E i \in DOMAIN s : s[i] = on /\ \A j \in DOMAIN s : j > i => s[j] # off

\* What it comes to when all events are handled.
LEMMA InStepInTheEnd ==
  ASSUME NEW S, NEW s \in Seq(S), NEW on, NEW off, NEW x, NEW there, NEW state \in MirrorStates,
         InStep(s, on, off, x, there, state)
  PROVE  ComesTo(s, on, off, x, there) <=> state = "active"
  <1>1. DOMAIN s = 1..Len(s) /\ Len(s) \in Nat
    BY LenProperties
  <1>2. /\ \A i \in DOMAIN s : (s[i] = on <=> i \in At(s, on)) /\ (s[i] = off <=> i \in At(s, off))
        /\ At(s, on) \subseteq DOMAIN s /\ At(s, off) \subseteq DOMAIN s
    BY DEF At
  <1>3. ComesTo(s, on, off, x, there) <=>
            \/ x \in there /\ At(s, off) = {}
            \/ \E i \in At(s, on) : \A j \in At(s, off) : ~(j > i)
    BY <1>2 DEF ComesTo
  <1>4. CASE state = "none"
    BY <1>3, <1>4 DEF InStep
  <1>5. CASE state = "active"
    BY <1>3, <1>5 DEF InStep, BeforeOn
  <1>6. CASE state = "ended"
    <2>1. CASE x \notin there /\ At(s, on) = {} /\ At(s, off) = {}
      BY <1>3, <1>6, <2>1
    <2>2. ASSUME NEW j \in DOMAIN s, At(s, off) = {j}, BeforeOn(s, on, j, x, there) PROVE ~ComesTo(s, on, off, x, there)
      <3>1. \A i \in DOMAIN s : i < j => j > i
        BY <1>1
      <3> QED
        BY <1>3, <2>2, <3>1 DEF BeforeOn
    <2> QED
      BY <1>6, <2>1, <2>2 DEF InStep
  <1> QED
    BY <1>4, <1>5, <1>6 DEF MirrorStates
-----------------------------------------------------------------------------
(* The mirror handles an event.                                            *)

\* What an event about a delivery is.
LEMMA DeliveryEventKinds ==
  ASSUME NEW d \in MirrorDeliveries, NEW h \in DeliveryEvents(d)
  PROVE  \/ h = NotifyIntelDeliveryCreated
         \/ h = NotifyIntelDeliveryStatusUpdated
         \/ \E a \in AttemptsOf(d) : h = NotifyIntelDeliveryAttemptCreated(a)
         \/ \E a \in AttemptsOf(d) : h = NotifyIntelDeliveryAttemptStatusUpdated(a)
  BY DEF DeliveryEvents, NotifyIntelDeliveryCreated, NotifyIntelDeliveryStatusUpdated,
         NotifyIntelDeliveryAttemptCreated, NotifyIntelDeliveryAttemptStatusUpdated

\* Events about different things are different.
LEMMA EventsDiffer ==
  ASSUME NEW a, NEW b
  PROVE  /\ NotifyIntelDeliveryCreated # NotifyIntelDeliveryStatusUpdated
         /\ NotifyIntelDeliveryCreated # NotifyIntelDeliveryAttemptCreated(a)
         /\ NotifyIntelDeliveryCreated # NotifyIntelDeliveryAttemptStatusUpdated(a)
         /\ NotifyIntelDeliveryStatusUpdated # NotifyIntelDeliveryAttemptCreated(a)
         /\ NotifyIntelDeliveryStatusUpdated # NotifyIntelDeliveryAttemptStatusUpdated(a)
         /\ NotifyIntelDeliveryAttemptCreated(a) # NotifyIntelDeliveryAttemptStatusUpdated(b)
         /\ NotifyIntelDeliveryAttemptCreated(a) = NotifyIntelDeliveryAttemptCreated(b) => a = b
         /\ NotifyIntelDeliveryAttemptStatusUpdated(a) = NotifyIntelDeliveryAttemptStatusUpdated(b) => a = b
  <1>1. /\ NotifyIntelDeliveryCreated.type = "deliveryCreated" /\ NotifyIntelDeliveryStatusUpdated.type = "deliveryEnded"
        /\ NotifyIntelDeliveryAttemptCreated(a).type = "attemptCreated"
        /\ NotifyIntelDeliveryAttemptStatusUpdated(a).type = "attemptEnded"
        /\ NotifyIntelDeliveryAttemptStatusUpdated(b).type = "attemptEnded"
        /\ NotifyIntelDeliveryAttemptCreated(a).attempt = a /\ NotifyIntelDeliveryAttemptCreated(b).attempt = b
        /\ NotifyIntelDeliveryAttemptStatusUpdated(a).attempt = a /\ NotifyIntelDeliveryAttemptStatusUpdated(b).attempt = b
    BY DEF NotifyIntelDeliveryCreated, NotifyIntelDeliveryStatusUpdated,
           NotifyIntelDeliveryAttemptCreated, NotifyIntelDeliveryAttemptStatusUpdated
  <1> QED
    BY <1>1

\* What the mirror makes of it.
LEMMA AfterDeliveryEvent ==
  ASSUME NEW m \in Tables, NEW d \in MirrorDeliveries, NEW h \in DeliveryEvents(d), NEW n, n = AfterMirrorEvent(m, d, h)
  PROVE  /\ n \in Tables /\ n.intel = m.intel /\ n.auto = m.auto
         /\ \A x \in MirrorDeliveries \ {d} : x \in n.deliveries <=> x \in m.deliveries
         /\ d \in n.deliveries <=> IF h = NotifyIntelDeliveryCreated THEN TRUE
                                 ELSE IF h = NotifyIntelDeliveryStatusUpdated THEN FALSE ELSE d \in m.deliveries
         /\ \A a \in MirrorAttempts : a \in n.attempts <=> IF h = NotifyIntelDeliveryAttemptCreated(a) THEN TRUE
                                                         ELSE IF h = NotifyIntelDeliveryAttemptStatusUpdated(a) THEN FALSE
                                                         ELSE a \in m.attempts
         /\ \A a \in MirrorAttempts \ AttemptsOf(d) : a \in n.attempts <=> a \in m.attempts
  <1>1. CASE h = NotifyIntelDeliveryCreated
    <2>1. n = [m EXCEPT !.deliveries = m.deliveries \cup {d}]
      BY <1>1 DEF AfterMirrorEvent, NotifyIntelDeliveryCreated
    <2>2. /\ n \in Tables /\ n.intel = m.intel /\ n.auto = m.auto /\ n.attempts = m.attempts
          /\ n.deliveries = m.deliveries \cup {d}
      BY <2>1 DEF Tables
    <2> QED
      BY <1>1, <2>2, EventsDiffer
  <1>2. CASE h = NotifyIntelDeliveryStatusUpdated
    <2>1. n = [m EXCEPT !.deliveries = m.deliveries \ {d}]
      BY <1>2 DEF AfterMirrorEvent, NotifyIntelDeliveryStatusUpdated
    <2>2. /\ n \in Tables /\ n.intel = m.intel /\ n.auto = m.auto /\ n.attempts = m.attempts
          /\ n.deliveries = m.deliveries \ {d}
      BY <2>1 DEF Tables
    <2> QED
      BY <1>2, <2>2, EventsDiffer
  <1>3. ASSUME NEW b \in AttemptsOf(d), h = NotifyIntelDeliveryAttemptCreated(b)
        PROVE  /\ n \in Tables /\ n.intel = m.intel /\ n.auto = m.auto /\ n.deliveries = m.deliveries
               /\ n.attempts = m.attempts \cup {b}
    <2>1. n = [m EXCEPT !.attempts = m.attempts \cup {b}]
      BY <1>3 DEF AfterMirrorEvent, NotifyIntelDeliveryAttemptCreated
    <2> QED
      BY <2>1 DEF Tables, AttemptsOf
  <1>4. ASSUME NEW b \in AttemptsOf(d), h = NotifyIntelDeliveryAttemptStatusUpdated(b)
        PROVE  /\ n \in Tables /\ n.intel = m.intel /\ n.auto = m.auto /\ n.deliveries = m.deliveries
               /\ n.attempts = m.attempts \ {b}
    <2>1. n = [m EXCEPT !.attempts = m.attempts \ {b}]
      BY <1>4 DEF AfterMirrorEvent, NotifyIntelDeliveryAttemptStatusUpdated
    <2> QED
      BY <2>1 DEF Tables, AttemptsOf
  <1>5. CASE \E b \in AttemptsOf(d) : h = NotifyIntelDeliveryAttemptCreated(b)
    <2>1. PICK b \in AttemptsOf(d) : h = NotifyIntelDeliveryAttemptCreated(b)
      BY <1>5
    <2> QED
      BY <1>3, <2>1, EventsDiffer
  <1>6. CASE \E b \in AttemptsOf(d) : h = NotifyIntelDeliveryAttemptStatusUpdated(b)
    <2>1. PICK b \in AttemptsOf(d) : h = NotifyIntelDeliveryAttemptStatusUpdated(b)
      BY <1>6
    <2> QED
      BY <1>4, <2>1, EventsDiffer
  <1> QED
    BY <1>1, <1>2, <1>5, <1>6, DeliveryEventKinds

\* Nobody has to be told of what does not change the list of open deliveries.
LEMMA UntoldDeliveryEvent ==
  ASSUME NEW m \in Tables, m.deliveries # {} => m.intel, NEW d \in MirrorDeliveries, NEW h \in DeliveryEvents(d),
         ~Notifies(m, d, h)
  PROVE  OpenIntelDeliveriesByOperation(AfterMirrorEvent(m, d, h)) = OpenIntelDeliveriesByOperation(m)
  <1> DEFINE n == AfterMirrorEvent(m, d, h)
  <1>1. h # NotifyIntelDeliveryCreated /\ h # NotifyIntelDeliveryStatusUpdated
    <2>1. h.type # "deliveryCreated" /\ h.type # "deliveryEnded"
      BY DEF Notifies
    <2> QED
      BY <2>1 DEF NotifyIntelDeliveryCreated, NotifyIntelDeliveryStatusUpdated
  <1>2. ~OperationKnown(m, d)
    BY DEF Notifies, DeliveryEvents
  <1>3. d \notin m.deliveries
    BY <1>2 DEF OperationKnown
  <1>4. n \in Tables /\ n.intel = m.intel /\ n.auto = m.auto /\ n.deliveries = m.deliveries
        /\ \A a \in MirrorAttempts \ AttemptsOf(d) : a \in n.attempts <=> a \in m.attempts
    <2>1. n \in Tables /\ n.intel = m.intel /\ n.auto = m.auto
          /\ (\A x \in MirrorDeliveries : x \in n.deliveries <=> x \in m.deliveries)
          /\ \A a \in MirrorAttempts \ AttemptsOf(d) : a \in n.attempts <=> a \in m.attempts
      BY <1>1, AfterDeliveryEvent
    <2>2. n.deliveries \subseteq MirrorDeliveries /\ m.deliveries \subseteq MirrorDeliveries
      BY <2>1 DEF Tables
    <2> QED
      BY <2>1, <2>2
  <1>5. ASSUME NEW x \in m.deliveries PROVE AttemptsOf(x) \cap n.attempts = AttemptsOf(x) \cap m.attempts
    <2>1. AttemptsOf(x) \subseteq MirrorAttempts \ AttemptsOf(d)
      BY <1>3 DEF AttemptsOf
    <2> QED
      BY <1>4, <2>1
  <1> QED
    BY <1>4, <1>5 DEF OpenIntelDeliveriesByOperation

\* How the events are handled: the first of a key, which then is or is not the next one still.
HandledFirst(k) ==
    /\ UNCHANGED <<owned, repeated>>
    /\ \/ /\ mirrorEvents' = [mirrorEvents EXCEPT ![k] = Tail(mirrorEvents[k])]
          /\ redone' = redone
       \/ /\ mirrorEvents' = mirrorEvents
          /\ redone' = redone \cup {k}

LEMMA HandledTypes ==
  ASSUME DeliveryMirrorAssumption, MirrorInv, NEW k \in MirrorKeys, HandledFirst(k), mirrorEvents[k] # <<>>,
         mirror' \in Tables, watched' \in {watched, OpenIntelDeliveriesByOperation(mirror')}
  PROVE  /\ MirrorTypes' /\ OwnedOK'
         /\ \A other \in MirrorKeys \ {k} : mirrorEvents'[other] = mirrorEvents[other]
                                           /\ (other \in redone' <=> other \in redone)
         /\ k \notin redone' => mirrorEvents'[k] = Tail(mirrorEvents[k]) /\ k \notin redone
  <1>1. /\ \A other \in MirrorKeys \ {k} : mirrorEvents'[other] = mirrorEvents[other]
        /\ mirrorEvents'[k] \in {mirrorEvents[k], Tail(mirrorEvents[k])}
        /\ mirrorEvents' = [x \in MirrorKeys |-> mirrorEvents'[x]]
        /\ k \notin redone' => mirrorEvents'[k] = Tail(mirrorEvents[k])
    <2>1. DOMAIN mirrorEvents = MirrorKeys /\ mirrorEvents = [x \in MirrorKeys |-> mirrorEvents[x]]
      BY DEF MirrorInv, MirrorTypes
    <2> QED
      BY <2>1 DEF HandledFirst
  <1>2. \A d \in MirrorDeliveries : mirrorEvents'[d] \in Seq(DeliveryEvents(d))
    <2> SUFFICES ASSUME NEW d \in MirrorDeliveries PROVE mirrorEvents'[d] \in Seq(DeliveryEvents(d))
      OBVIOUS
    <2>1. mirrorEvents[d] \in Seq(DeliveryEvents(d)) /\ d \in MirrorKeys
      BY DEF MirrorInv, MirrorTypes, MirrorKeys
    <2>2. d = k => Tail(mirrorEvents[d]) \in Seq(DeliveryEvents(d))
      BY <2>1, HeadTailProperties
    <2> QED
      BY <1>1, <2>1, <2>2
  <1>3. \A e \in MirrorEntries : mirrorEvents'[e] \in Seq(AutoEvents)
    <2> SUFFICES ASSUME NEW e \in MirrorEntries PROVE mirrorEvents'[e] \in Seq(AutoEvents)
      OBVIOUS
    <2>1. mirrorEvents[e] \in Seq(AutoEvents) /\ e \in MirrorKeys
      BY DEF MirrorInv, MirrorTypes, MirrorKeys
    <2>2. e = k => Tail(mirrorEvents[e]) \in Seq(AutoEvents)
      BY <2>1, HeadTailProperties
    <2> QED
      BY <1>1, <2>1, <2>2
  <1>4. mirrorEvents'[TheIntel] \in {<<>>, <<NotifyIntelCreated>>}
    <2>1. mirrorEvents[TheIntel] \in {<<>>, <<NotifyIntelCreated>>} /\ TheIntel \in MirrorKeys
      BY DEF MirrorInv, MirrorTypes, MirrorKeys
    <2>2. Tail(<<NotifyIntelCreated>>) = <<>>
      OBVIOUS
    <2> QED
      BY <1>1, <2>1, <2>2
  <1>5. \A x \in MirrorKeys : Len(mirrorEvents'[x]) <= MaxMirrorEvents
    <2>1. PICK S : mirrorEvents[k] \in Seq(S)
      <3>1. <<>> \in Seq({NotifyIntelCreated}) /\ <<NotifyIntelCreated>> \in Seq({NotifyIntelCreated})
        OBVIOUS
      <3>2. k = TheIntel => mirrorEvents[k] \in Seq({NotifyIntelCreated})
        BY <3>1 DEF MirrorInv, MirrorTypes
      <3>3. k \in MirrorDeliveries => mirrorEvents[k] \in Seq(DeliveryEvents(k))
        BY DEF MirrorInv, MirrorTypes
      <3>4. k \in MirrorEntries => mirrorEvents[k] \in Seq(AutoEvents)
        BY DEF MirrorInv, MirrorTypes
      <3> QED
        BY <3>2, <3>3, <3>4 DEF MirrorKeys
    <2>2. Len(mirrorEvents[k]) \in Nat /\ Len(Tail(mirrorEvents[k])) = Len(mirrorEvents[k]) - 1
      BY <2>1, EmptySeq, HeadTailProperties
    <2>3. \A x \in MirrorKeys : Len(mirrorEvents[x]) <= MaxMirrorEvents
      BY DEF MirrorInv, MirrorTypes
    <2>4. Len(Tail(mirrorEvents[k])) <= MaxMirrorEvents
      BY <2>2, <2>3 DEF DeliveryMirrorAssumption
    <2> QED
      BY <1>1, <2>3, <2>4
  <1>6. watched' \subseteq MirrorDeliveries
    BY DEF OpenIntelDeliveriesByOperation, Tables, MirrorInv, MirrorTypes
  <1>7. MirrorTypes'
    BY <1>1, <1>2, <1>3, <1>4, <1>5, <1>6 DEF HandledFirst, MirrorInv, MirrorTypes
  <1>8. OwnedOK'
    BY DEF HandledFirst, MirrorInv, OwnedOK
  <1>9. (\A other \in MirrorKeys \ {k} : other \in redone' <=> other \in redone) /\ (k \notin redone' => k \notin redone)
    BY DEF HandledFirst
  <1> QED
    BY <1>1, <1>7, <1>8, <1>9

\* An event about a delivery or an attempt of it.
LEMMA HandleDeliveryStep ==
  ASSUME DeliveryMirrorAssumption, MirrorInv, NEW d \in MirrorDeliveries, HandledFirst(d), mirrorEvents[d] # <<>>,
         NEW h, h = Head(mirrorEvents[d]), ~Refuses(mirror, d, h), mirror' = AfterMirrorEvent(mirror, d, h),
         watched' = IF Notifies(mirror, d, h) THEN OpenIntelDeliveriesByOperation(mirror') ELSE watched
  PROVE  MirrorInv'
  <1>1. PICK s \in Seq(DeliveryEvents(d)) : s = mirrorEvents[d]
    BY DEF MirrorInv, MirrorTypes
  <1>2. h \in DeliveryEvents(d) /\ h = Head(s) /\ s # <<>>
    BY <1>1, HeadTailProperties, ElementOfSeq, EmptySeq
  <1>3. mirror \in Tables
    BY DEF MirrorInv, MirrorTypes
  <1>4. /\ mirror' \in Tables /\ mirror'.intel = mirror.intel /\ mirror'.auto = mirror.auto
        /\ \A x \in MirrorDeliveries \ {d} : x \in mirror'.deliveries <=> x \in mirror.deliveries
        /\ d \in mirror'.deliveries <=> IF h = NotifyIntelDeliveryCreated THEN TRUE
                                      ELSE IF h = NotifyIntelDeliveryStatusUpdated THEN FALSE ELSE d \in mirror.deliveries
        /\ \A a \in MirrorAttempts : a \in mirror'.attempts <=> IF h = NotifyIntelDeliveryAttemptCreated(a) THEN TRUE
                                                        ELSE IF h = NotifyIntelDeliveryAttemptStatusUpdated(a) THEN FALSE
                                                        ELSE a \in mirror.attempts
        /\ \A a \in MirrorAttempts \ AttemptsOf(d) : a \in mirror'.attempts <=> a \in mirror.attempts
    BY <1>2, <1>3, AfterDeliveryEvent
  <1>5. /\ MirrorTypes' /\ OwnedOK' /\ d \in MirrorKeys
        /\ \A other \in MirrorKeys \ {d} : mirrorEvents'[other] = mirrorEvents[other]
                                          /\ (other \in redone' <=> other \in redone)
        /\ d \notin redone' => mirrorEvents'[d] = Tail(s) /\ d \notin redone
    <2>1. d \in MirrorKeys
      BY DEF MirrorKeys
    <2> QED
      BY <1>1, <1>4, <2>1, HandledTypes
  <1>6. UNCHANGED <<owned, repeated>>
    BY DEF HandledFirst
  <1>7. IntelOK'
    <2>1. TheIntel \in MirrorKeys \ {d}
      BY DEF MirrorKeys, DeliveryMirrorAssumption
    <2>2. mirror'.deliveries # {} => mirror.intel
      <3>1. CASE h = NotifyIntelDeliveryCreated
        <4>1. h.type = "deliveryCreated"
          BY <3>1 DEF NotifyIntelDeliveryCreated
        <4> QED
          BY <4>1 DEF Refuses
      <3>2. CASE h # NotifyIntelDeliveryCreated
        <4>1. \A x \in MirrorDeliveries : x \in mirror'.deliveries => x \in mirror.deliveries
          BY <1>4, <3>2
        <4>2. mirror'.deliveries \subseteq MirrorDeliveries
          BY <1>4 DEF Tables
        <4> QED
          BY <4>1, <4>2 DEF MirrorInv, IntelOK
      <3> QED
        BY <3>1, <3>2
    <2> QED
      BY <1>4, <1>5, <1>6, <2>1, <2>2 DEF MirrorInv, IntelOK
  <1>8. ASSUME NEW x \in MirrorDeliveries \ redone' PROVE DeliveryInStep(x)' /\ \A a \in AttemptsOf(x) : AttemptInStep(x, a)'
    <2>1. x \in MirrorKeys
      BY DEF MirrorKeys
    <2>2. CASE x # d
      <3>1. DeliveryInStep(x) /\ (\A a \in AttemptsOf(x) : AttemptInStep(x, a)) /\ mirrorEvents'[x] = mirrorEvents[x]
        BY <1>5, <1>8, <2>1, <2>2 DEF MirrorInv, AllInStep
      <3>2. \A a \in AttemptsOf(x) : a \in mirror'.attempts <=> a \in mirror.attempts
        BY <1>4, <2>2 DEF AttemptsOf
      <3> QED
        BY <1>4, <1>6, <2>2, <3>1, <3>2 DEF DeliveryInStep, AttemptInStep, InStep, BeforeOn
    <2>3. CASE x = d
      <3>1. DeliveryInStep(d) /\ (\A a \in AttemptsOf(d) : AttemptInStep(d, a)) /\ mirrorEvents'[d] = Tail(s)
        BY <1>5, <1>8, <2>3 DEF MirrorInv, AllInStep
      <3>2. DeliveryInStep(d)'
        <4>1. owned.delivery[d] \in MirrorStates
          BY DEF MirrorInv, MirrorTypes, OwnedTables
        <4>2. PICK there, after, state, on, off :
                  /\ state \in MirrorStates /\ there = mirror.deliveries /\ after = mirror'.deliveries /\ state = owned.delivery[d]
                  /\ on = NotifyIntelDeliveryCreated /\ off = NotifyIntelDeliveryStatusUpdated
          BY <4>1
        <4>3. on # off
          BY <4>2, EventsDiffer
        <4>4. /\ Head(s) = on => d \in after
              /\ Head(s) = off => d \notin after
              /\ Head(s) # on /\ Head(s) # off => (d \in after <=> d \in there)
              /\ state \in MirrorStates /\ s \in Seq(DeliveryEvents(d)) /\ s # <<>>
          BY <1>2, <1>4, <4>2, <4>3
        <4>5. InStep(s, on, off, d, there, state)
          BY <1>1, <3>1, <4>2 DEF DeliveryInStep
        <4>6. InStep(Tail(s), on, off, d, after, state)
          BY <1>2, <4>3, <4>4, <4>5, InStepHandled
        <4> QED
          BY <1>6, <3>1, <4>2, <4>6 DEF DeliveryInStep
      <3>3. ASSUME NEW a \in AttemptsOf(d) PROVE AttemptInStep(d, a)'
        <4>0. a \in MirrorAttempts
          BY DEF AttemptsOf
        <4>1. owned.attempt[a] \in MirrorStates
          BY <4>0 DEF MirrorInv, MirrorTypes, OwnedTables
        <4>2. PICK there, after, state, on, off :
                  /\ state \in MirrorStates /\ there = mirror.attempts /\ after = mirror'.attempts /\ state = owned.attempt[a]
                  /\ on = NotifyIntelDeliveryAttemptCreated(a) /\ off = NotifyIntelDeliveryAttemptStatusUpdated(a)
          BY <4>1
        <4>3. on # off
          BY <4>2, EventsDiffer
        <4>4. /\ Head(s) = on => a \in after
              /\ Head(s) = off => a \notin after
              /\ Head(s) # on /\ Head(s) # off => (a \in after <=> a \in there)
              /\ state \in MirrorStates /\ s \in Seq(DeliveryEvents(d)) /\ s # <<>>
          BY <1>2, <1>4, <4>0, <4>2, <4>3
        <4>5. InStep(s, on, off, a, there, state)
          BY <1>1, <3>1, <4>2 DEF AttemptInStep
        <4>6. InStep(Tail(s), on, off, a, after, state)
          BY <1>2, <4>3, <4>4, <4>5, InStepHandled
        <4> QED
          BY <1>6, <3>1, <4>2, <4>6 DEF AttemptInStep
      <3> QED
        BY <2>3, <3>2, <3>3
    <2> QED
      BY <2>2, <2>3
  <1>9. AutoDeliveryFollows'
    <2>1. \A e \in MirrorEntries : e \in MirrorKeys \ {d}
      BY DEF MirrorKeys, DeliveryMirrorAssumption
    <2>2. ASSUME NEW e \in MirrorEntries, NEW i PROVE AutoTold(e, i)' = AutoTold(e, i)
      BY <1>4, <1>5, <2>1 DEF AutoTold
    <2> QED
      BY <1>5, <1>6, <2>1, <2>2 DEF MirrorInv, AutoDeliveryFollows
  <1>10. WatcherIsTold'
    <2>1. CASE Notifies(mirror, d, h)
      BY <2>1 DEF WatcherIsTold
    <2>2. CASE ~Notifies(mirror, d, h)
      <3>1. OpenIntelDeliveriesByOperation(mirror') = OpenIntelDeliveriesByOperation(mirror)
        BY <1>2, <1>3, <2>2, UntoldDeliveryEvent DEF MirrorInv, IntelOK
      <3> QED
        BY <2>2, <3>1 DEF MirrorInv, WatcherIsTold
    <2> QED
      BY <2>1, <2>2
  <1> QED
    BY <1>5, <1>7, <1>8, <1>9, <1>10 DEF MirrorInv, AllInStep

\* An event about an entry.
LEMMA HandleEntryStep ==
  ASSUME DeliveryMirrorAssumption, MirrorInv, NEW e \in MirrorEntries, HandledFirst(e), mirrorEvents[e] # <<>>,
         NEW h, h = Head(mirrorEvents[e]), mirror' = AfterMirrorEvent(mirror, e, h),
         watched' = IF Notifies(mirror, e, h) THEN OpenIntelDeliveriesByOperation(mirror') ELSE watched
  PROVE  MirrorInv'
  <1>1. PICK s \in Seq(AutoEvents) : s = mirrorEvents[e]
    BY DEF MirrorInv, MirrorTypes
  <1>2. h \in AutoEvents /\ h = Head(s) /\ s # <<>> /\ Len(s) \in Nat \ {0} /\ h = s[1]
    BY <1>1, HeadTailProperties, ElementOfSeq, EmptySeq
  <1>3. mirror \in Tables /\ h.type = "auto"
    BY <1>2 DEF MirrorInv, MirrorTypes, AutoEvents
  <1>4. /\ mirror' \in Tables /\ mirror'.intel = mirror.intel /\ mirror'.deliveries = mirror.deliveries
        /\ mirror'.attempts = mirror.attempts
        /\ mirror'.auto = SetAutoIntelDeliveryEnabledForEntry(mirror.auto, e, h.enabled)
    <2>1. mirror' = [mirror EXCEPT !.auto = SetAutoIntelDeliveryEnabledForEntry(mirror.auto, e, h.enabled)]
      BY <1>3 DEF AfterMirrorEvent
    <2>2. SetAutoIntelDeliveryEnabledForEntry(mirror.auto, e, h.enabled) \in SUBSET MirrorEntries
      BY <1>3 DEF SetAutoIntelDeliveryEnabledForEntry, Tables
    <2> QED
      BY <1>3, <2>1, <2>2 DEF Tables
  <1>5. /\ \A other \in MirrorEntries \ {e} : other \in mirror'.auto <=> other \in mirror.auto
        /\ e \in mirror'.auto <=> e \notin mirror.auto
    BY <1>4 DEF SetAutoIntelDeliveryEnabledForEntry
  <1>6. /\ MirrorTypes' /\ OwnedOK' /\ e \in MirrorKeys
        /\ \A other \in MirrorKeys \ {e} : mirrorEvents'[other] = mirrorEvents[other]
                                          /\ (other \in redone' <=> other \in redone)
        /\ e \notin redone' => mirrorEvents'[e] = Tail(s) /\ e \notin redone
    <2>1. e \in MirrorKeys
      BY DEF MirrorKeys
    <2> QED
      BY <1>1, <1>4, <2>1, HandledTypes
  <1>7. UNCHANGED <<owned, repeated>>
    BY DEF HandledFirst
  <1>8. IntelOK'
    <2>1. TheIntel \in MirrorKeys \ {e}
      BY DEF MirrorKeys, DeliveryMirrorAssumption
    <2> QED
      BY <1>4, <1>6, <1>7, <2>1 DEF MirrorInv, IntelOK
  <1>9. AllInStep'
    <2>1. \A d \in MirrorDeliveries : d \in MirrorKeys \ {e}
      BY DEF MirrorKeys, DeliveryMirrorAssumption
    <2>2. ASSUME NEW d \in MirrorDeliveries \ redone'
          PROVE  DeliveryInStep(d)' /\ \A a \in AttemptsOf(d) : AttemptInStep(d, a)'
      <3>1. DeliveryInStep(d) /\ (\A a \in AttemptsOf(d) : AttemptInStep(d, a)) /\ mirrorEvents'[d] = mirrorEvents[d]
        BY <1>6, <2>1, <2>2 DEF MirrorInv, AllInStep
      <3> QED
        BY <1>4, <1>7, <3>1 DEF DeliveryInStep, AttemptInStep
    <2> QED
      BY <2>2 DEF AllInStep
  <1>10. AutoDeliveryFollows'
    <2> SUFFICES ASSUME NEW x \in MirrorEntries, x \notin redone', x \notin repeated'
                 PROVE  (/\ \A i \in DOMAIN mirrorEvents[x] : AutoTold(x, i) # AutoTold(x, i - 1)
                         /\ AutoTold(x, Len(mirrorEvents[x])) = (x \in owned.auto))'
      BY DEF AutoDeliveryFollows
    <2>1. x \in MirrorKeys
      BY DEF MirrorKeys
    <2>2. CASE x # e
      <3>1. x \notin redone /\ x \notin repeated /\ mirrorEvents'[x] = mirrorEvents[x]
        BY <1>6, <1>7, <2>1, <2>2
      <3>2. ASSUME NEW i PROVE AutoTold(x, i)' = AutoTold(x, i)
        BY <1>5, <2>2, <3>1 DEF AutoTold
      <3> QED
        BY <1>7, <3>1, <3>2 DEF MirrorInv, AutoDeliveryFollows
    <2>3. CASE x = e
      <3>1. /\ e \notin redone /\ e \notin repeated /\ mirrorEvents'[e] = Tail(s)
            /\ \A i \in DOMAIN s : AutoTold(e, i) # AutoTold(e, i - 1)
            /\ AutoTold(e, Len(s)) = (e \in owned.auto)
        BY <1>1, <1>6, <1>7, <2>3 DEF MirrorInv, AutoDeliveryFollows
      <3>2. /\ Len(Tail(s)) = Len(s) - 1 /\ DOMAIN s = 1..Len(s) /\ DOMAIN Tail(s) = 1..(Len(s) - 1)
            /\ \A i \in 1..(Len(s) - 1) : Tail(s)[i] = s[i + 1]
        BY <1>2, HeadTailProperties, LenProperties
      <3>3. \A i \in 1..(Len(s) - 1) : AutoTold(e, i)' = AutoTold(e, i + 1)
        BY <1>1, <1>2, <3>1, <3>2 DEF AutoTold
      <3>4. AutoTold(e, 0)' = AutoTold(e, 1)
        <4>1. 1 \in DOMAIN s
          BY <1>2, <3>2
        <4>2. AutoTold(e, 1) # AutoTold(e, 1 - 1)
          BY <3>1, <4>1
        <4>3. AutoTold(e, 1) = h.enabled /\ AutoTold(e, 1 - 1) = (e \in mirror.auto) /\ AutoTold(e, 0)' = (e \in mirror'.auto)
          BY <1>1, <1>2 DEF AutoTold
        <4>4. h.enabled \in BOOLEAN
          BY <1>2 DEF AutoEvents
        <4> QED
          BY <1>5, <4>2, <4>3, <4>4
      <3>5. ASSUME NEW i \in 1..(Len(s) - 1) PROVE AutoTold(e, i)' # AutoTold(e, i - 1)'
        <4>1. AutoTold(e, i + 1) # AutoTold(e, (i + 1) - 1) /\ (i + 1) - 1 = i
          BY <1>2, <3>1, <3>2, SMTT(30)
        <4>2. AutoTold(e, i - 1)' = AutoTold(e, i)
          <5>1. CASE i = 1
            BY <3>4, <5>1
          <5>2. CASE i # 1
            <6>1. i - 1 \in 1..(Len(s) - 1) /\ (i - 1) + 1 = i
              BY <1>2, <5>2
            <6> QED
              BY <3>3, <6>1
          <5> QED
            BY <5>1, <5>2
        <4> QED
          BY <3>3, <4>1, <4>2
      <3>6. AutoTold(e, Len(s) - 1)' = AutoTold(e, Len(s))
        <4>1. CASE Len(s) = 1
          <5>1. Len(s) - 1 = 0
            BY <4>1
          <5> QED
            BY <3>4, <4>1, <5>1
        <4>2. CASE Len(s) # 1
          <5>0. PICK n \in Nat \ {0} : n = Len(s)
            BY <1>2
          <5>1. n - 1 \in 1..(n - 1) /\ (n - 1) + 1 = n
            BY <4>2, <5>0
          <5> QED
            BY <3>3, <5>0, <5>1
        <4> QED
          BY <4>1, <4>2
      <3> QED
        BY <1>7, <2>3, <3>1, <3>2, <3>5, <3>6
    <2> QED
      BY <2>2, <2>3
  <1>11. WatcherIsTold'
    <2>1. CASE Notifies(mirror, e, h)
      BY <2>1 DEF WatcherIsTold
    <2>2. CASE ~Notifies(mirror, e, h)
      <3>1. \A d \in mirror.deliveries : mirror.intel => RecipientOf[d] # e
        BY <1>3, <2>2 DEF Notifies
      <3>2. \A d \in mirror.deliveries : RecipientOf[d] \in MirrorEntries
        BY <1>3 DEF Tables, DeliveryMirrorAssumption
      <3>3. OpenIntelDeliveriesByOperation(mirror') = OpenIntelDeliveriesByOperation(mirror)
        BY <1>4, <1>5, <3>1, <3>2 DEF OpenIntelDeliveriesByOperation
      <3> QED
        BY <2>2, <3>3 DEF MirrorInv, WatcherIsTold
    <2> QED
      BY <2>1, <2>2
  <1> QED
    BY <1>6, <1>8, <1>9, <1>10, <1>11 DEF MirrorInv

\* The event about the intel: no delivery is known yet.
LEMMA HandleIntelStep ==
  ASSUME DeliveryMirrorAssumption, MirrorInv, HandledFirst(TheIntel), mirrorEvents[TheIntel] # <<>>,
         NEW h, h = Head(mirrorEvents[TheIntel]), ~Refuses(mirror, TheIntel, h), mirror' = AfterMirrorEvent(mirror, TheIntel, h),
         watched' = IF Notifies(mirror, TheIntel, h) THEN OpenIntelDeliveriesByOperation(mirror') ELSE watched
  PROVE  MirrorInv'
  <1>1. mirrorEvents[TheIntel] = <<NotifyIntelCreated>> /\ h = NotifyIntelCreated /\ h.type = "intelCreated"
        /\ Tail(mirrorEvents[TheIntel]) = <<>>
    <2>1. mirrorEvents[TheIntel] = <<NotifyIntelCreated>>
      BY DEF MirrorInv, MirrorTypes
    <2> QED
      BY <2>1 DEF NotifyIntelCreated
  <1>2. mirror \in Tables /\ ~mirror.intel
    BY <1>1 DEF Refuses, MirrorInv, MirrorTypes
  <1>3. mirror.deliveries = {}
    BY <1>2 DEF MirrorInv, IntelOK
  <1>4. /\ mirror' \in Tables /\ mirror'.intel /\ mirror'.deliveries = {}
        /\ mirror'.attempts = mirror.attempts /\ mirror'.auto = mirror.auto
    <2>1. mirror' = [mirror EXCEPT !.intel = TRUE]
      BY <1>1 DEF AfterMirrorEvent
    <2> QED
      BY <1>2, <1>3, <2>1 DEF Tables
  <1>5. OpenIntelDeliveriesByOperation(mirror) = {} /\ OpenIntelDeliveriesByOperation(mirror') = {}
    BY <1>3, <1>4 DEF OpenIntelDeliveriesByOperation
  <1>6. /\ MirrorTypes' /\ OwnedOK' /\ TheIntel \in MirrorKeys
        /\ \A other \in MirrorKeys \ {TheIntel} : mirrorEvents'[other] = mirrorEvents[other]
                                          /\ (other \in redone' <=> other \in redone)
        /\ TheIntel \notin redone' => mirrorEvents'[TheIntel] = Tail(mirrorEvents[TheIntel]) /\ TheIntel \notin redone
    <2>1. TheIntel \in MirrorKeys
      BY DEF MirrorKeys
    <2> QED
      BY <1>4, <2>1, HandledTypes
  <1>7. UNCHANGED <<owned, repeated>>
    BY DEF HandledFirst
  <1>8. IntelOK'
    BY <1>1, <1>4, <1>6, <1>7 DEF MirrorInv, IntelOK
  <1>9. AllInStep'
    <2>1. \A d \in MirrorDeliveries : d \in MirrorKeys \ {TheIntel}
      BY DEF MirrorKeys, DeliveryMirrorAssumption
    <2>2. ASSUME NEW d \in MirrorDeliveries \ redone'
          PROVE  DeliveryInStep(d)' /\ \A a \in AttemptsOf(d) : AttemptInStep(d, a)'
      <3>1. DeliveryInStep(d) /\ (\A a \in AttemptsOf(d) : AttemptInStep(d, a)) /\ mirrorEvents'[d] = mirrorEvents[d]
        BY <1>6, <2>1, <2>2 DEF MirrorInv, AllInStep
      <3> QED
        BY <1>3, <1>4, <1>7, <3>1 DEF DeliveryInStep, AttemptInStep
    <2> QED
      BY <2>2 DEF AllInStep
  <1>10. AutoDeliveryFollows'
    <2>1. \A e \in MirrorEntries : e \in MirrorKeys \ {TheIntel}
      BY DEF MirrorKeys, DeliveryMirrorAssumption
    <2>2. ASSUME NEW e \in MirrorEntries, NEW i PROVE AutoTold(e, i)' = AutoTold(e, i)
      BY <1>4, <1>6, <2>1 DEF AutoTold
    <2> QED
      BY <1>6, <1>7, <2>1, <2>2 DEF MirrorInv, AutoDeliveryFollows
  <1>11. WatcherIsTold'
    BY <1>5 DEF MirrorInv, WatcherIsTold
  <1> QED
    BY <1>6, <1>8, <1>9, <1>10, <1>11 DEF MirrorInv

-----------------------------------------------------------------------------
(* logistics-svc commits, and tells.                                       *)

\* Where an event is among one or two.
LEMMA AtFew ==
  ASSUME NEW e, NEW f, NEW g, e # f, g # e, g # f
  PROVE  /\ At(<<e>>, e) = {1} /\ At(<<e>>, f) = {} /\ 1 \in DOMAIN <<e>>
         /\ At(<<e, f>>, e) = {1} /\ At(<<e, f>>, f) = {2} /\ At(<<e, f>>, g) = {}
         /\ 1 \in DOMAIN <<e, f>> /\ 2 \in DOMAIN <<e, f>>
  <1>1. /\ <<e>> \in Seq({e}) /\ Len(<<e>>) = 1 /\ <<e>>[1] = e
        /\ <<e, f>> \in Seq({e, f}) /\ Len(<<e, f>>) = 2 /\ <<e, f>>[1] = e /\ <<e, f>>[2] = f
    OBVIOUS
  <1>2. DOMAIN <<e>> = 1..1 /\ DOMAIN <<e, f>> = 1..2
    BY <1>1, LenProperties
  <1>3. \A i \in 1..2 : i = 1 \/ i = 2
    OBVIOUS
  <1> QED
    BY <1>1, <1>2, <1>3 DEF At

LEMMA AtEvent ==
  ASSUME NEW e, NEW f, e # f
  PROVE  At(<<e>>, e) = {1} /\ At(<<e>>, f) = {} /\ 1 \in DOMAIN <<e>>
  <1>1. <<e>> \in Seq({e}) /\ Len(<<e>>) = 1 /\ <<e>>[1] = e
    OBVIOUS
  <1>2. DOMAIN <<e>> = 1..1
    BY <1>1, LenProperties
  <1> QED
    BY <1>1, <1>2 DEF At

LEMMA OneAfterNone ==
  ASSUME NEW e
  PROVE  <<>> \o <<e>> = <<e>>
  <1>1. <<>> \in Seq({e}) /\ <<e>> \in Seq({e}) /\ Len(<<>>) = 0 /\ Len(<<e>>) = 1 /\ <<e>>[1] = e
    OBVIOUS
  <1>2. <<>> \o <<e>> \in Seq({e}) /\ Len(<<>> \o <<e>>) = 1 /\ (<<>> \o <<e>>)[1] = e
    BY <1>1, ConcatProperties
  <1> QED
    BY <1>1, <1>2, SeqEqual

LEMMA OneAfterOne ==
  ASSUME NEW e, NEW f
  PROVE  <<e>> \o <<f>> = <<e, f>>
  <1>1. /\ <<e>> \in Seq({e, f}) /\ <<f>> \in Seq({e, f}) /\ <<e, f>> \in Seq({e, f})
        /\ Len(<<e>>) = 1 /\ <<e>>[1] = e /\ Len(<<f>>) = 1 /\ <<f>>[1] = f
        /\ Len(<<e, f>>) = 2 /\ <<e, f>>[1] = e /\ <<e, f>>[2] = f
    OBVIOUS
  <1>2. <<e>> \o <<f>> \in Seq({e, f}) /\ Len(<<e>> \o <<f>>) = 2
        /\ (<<e>> \o <<f>>)[1] = e /\ (<<e>> \o <<f>>)[2] = f
    BY <1>1, ConcatProperties
  <1>3. \A i \in 1..2 : i = 1 \/ i = 2
    OBVIOUS
  <1> QED
    BY <1>1, <1>2, <1>3, SeqEqual

\* What the tables and the events are after events of a key have been added.
LEMMA ToldTypes ==
  ASSUME DeliveryMirrorAssumption, MirrorInv, NEW k \in MirrorDeliveries \cup MirrorEntries, NEW new, ByOwner(k, new),
         k \in MirrorDeliveries => new \in Seq(DeliveryEvents(k)), k \in MirrorEntries => new \in Seq(AutoEvents),
         owned' \in OwnedTables
  PROVE  /\ MirrorTypes' /\ k \in MirrorKeys /\ TheIntel \in MirrorKeys \ {k}
         /\ mirrorEvents'[k] = mirrorEvents[k] \o new
         /\ \A other \in MirrorKeys \ {k} : mirrorEvents'[other] = mirrorEvents[other]
         /\ UNCHANGED <<mirror, watched, mirrorFaults, redone>>
  <1>1. k \in MirrorKeys /\ TheIntel \in MirrorKeys \ {k}
    BY DEF MirrorKeys, DeliveryMirrorAssumption
  <1>2. /\ mirrorEvents'[k] = mirrorEvents[k] \o new
        /\ \A other \in MirrorKeys \ {k} : mirrorEvents'[other] = mirrorEvents[other]
        /\ mirrorEvents' = [x \in MirrorKeys |-> mirrorEvents'[x]]
        /\ Len(mirrorEvents'[k]) <= MaxMirrorEvents
        /\ UNCHANGED <<mirror, watched, mirrorFaults, redone>>
    <2>1. DOMAIN mirrorEvents = MirrorKeys /\ mirrorEvents = [x \in MirrorKeys |-> mirrorEvents[x]]
      BY DEF MirrorInv, MirrorTypes
    <2> QED
      BY <1>1, <2>1 DEF ByOwner
  <1>3. ASSUME NEW d \in MirrorDeliveries PROVE mirrorEvents'[d] \in Seq(DeliveryEvents(d))
    <2>1. mirrorEvents[d] \in Seq(DeliveryEvents(d)) /\ d \in MirrorKeys
      BY DEF MirrorInv, MirrorTypes, MirrorKeys
    <2>2. d = k => mirrorEvents[d] \o new \in Seq(DeliveryEvents(d))
      BY <2>1, ConcatProperties
    <2> QED
      BY <1>2, <2>1, <2>2
  <1>4. ASSUME NEW e \in MirrorEntries PROVE mirrorEvents'[e] \in Seq(AutoEvents)
    <2>1. mirrorEvents[e] \in Seq(AutoEvents) /\ e \in MirrorKeys
      BY DEF MirrorInv, MirrorTypes, MirrorKeys
    <2>2. e = k => mirrorEvents[e] \o new \in Seq(AutoEvents)
      BY <2>1, ConcatProperties
    <2> QED
      BY <1>2, <2>1, <2>2
  <1>5. mirrorEvents'[TheIntel] \in {<<>>, <<NotifyIntelCreated>>}
    BY <1>1, <1>2 DEF MirrorInv, MirrorTypes
  <1>6. \A x \in MirrorKeys : Len(mirrorEvents'[x]) <= MaxMirrorEvents
    <2>1. \A x \in MirrorKeys : Len(mirrorEvents[x]) <= MaxMirrorEvents
      BY DEF MirrorInv, MirrorTypes
    <2> QED
      BY <1>2, <2>1
  <1> QED
    BY <1>1, <1>2, <1>3, <1>4, <1>5, <1>6 DEF MirrorInv, MirrorTypes

\* A delivery and its attempts change, and the events are about them.
LEMMA DeliveryTold ==
  ASSUME DeliveryMirrorAssumption, MirrorInv, NEW d \in MirrorDeliveries, NEW new \in Seq(DeliveryEvents(d)), ByOwner(d, new),
         repeated' = repeated, owned' \in OwnedTables, owned'.auto = owned.auto, OwnedOK',
         owned.delivery[d] # "none", owned'.delivery[d] # "none",
         \A x \in MirrorDeliveries \ {d} : owned'.delivery[x] = owned.delivery[x],
         \A a \in MirrorAttempts \ AttemptsOf(d) : owned'.attempt[a] = owned.attempt[a],
         d \notin redone /\ mirrorEvents'[d] = mirrorEvents[d] \o new /\ mirror' = mirror
             => DeliveryInStep(d)' /\ \A a \in AttemptsOf(d) : AttemptInStep(d, a)'
  PROVE  MirrorInv'
  <1>1. d \notin MirrorEntries
    BY DEF DeliveryMirrorAssumption
  <1>2. /\ MirrorTypes' /\ d \in MirrorKeys /\ TheIntel \in MirrorKeys \ {d}
        /\ mirrorEvents'[d] = mirrorEvents[d] \o new
        /\ \A other \in MirrorKeys \ {d} : mirrorEvents'[other] = mirrorEvents[other]
        /\ UNCHANGED <<mirror, watched, mirrorFaults, redone>>
    BY <1>1, ToldTypes
  <1>3. IntelOK'
    <2>1. owned.delivery[d] # "none"
      OBVIOUS
    <2> QED
      BY <1>2, <2>1 DEF MirrorInv, IntelOK
  <1>4. AllInStep'
    <2>1. ASSUME NEW x \in MirrorDeliveries \ redone'
          PROVE  DeliveryInStep(x)' /\ \A a \in AttemptsOf(x) : AttemptInStep(x, a)'
      <3>1. CASE x = d
        BY <1>2, <2>1, <3>1
      <3>2. CASE x # d
        <4>1. x \in MirrorKeys \ {d} /\ x \notin redone
          BY <1>2, <2>1, <3>2 DEF MirrorKeys
        <4>2. DeliveryInStep(x) /\ (\A a \in AttemptsOf(x) : AttemptInStep(x, a)) /\ mirrorEvents'[x] = mirrorEvents[x]
          BY <1>2, <2>1, <4>1 DEF MirrorInv, AllInStep
        <4>3. \A a \in AttemptsOf(x) : a \in MirrorAttempts \ AttemptsOf(d)
          BY <3>2 DEF AttemptsOf
        <4>4. owned'.delivery[x] = owned.delivery[x] /\ \A a \in AttemptsOf(x) : owned'.attempt[a] = owned.attempt[a]
          BY <2>1, <3>2, <4>3
        <4> QED
          BY <1>2, <4>2, <4>4 DEF DeliveryInStep, AttemptInStep
      <3> QED
        BY <3>1, <3>2
    <2> QED
      BY <2>1 DEF AllInStep
  <1>5. AutoDeliveryFollows'
    <2>1. \A e \in MirrorEntries : e \in MirrorKeys \ {d}
      BY <1>1 DEF MirrorKeys
    <2>2. ASSUME NEW e \in MirrorEntries, NEW i PROVE AutoTold(e, i)' = AutoTold(e, i)
      BY <1>2, <2>1 DEF AutoTold
    <2> QED
      BY <1>2, <2>1, <2>2 DEF MirrorInv, AutoDeliveryFollows
  <1>6. WatcherIsTold'
    BY <1>2 DEF MirrorInv, WatcherIsTold
  <1> QED
    BY <1>2, <1>3, <1>4, <1>5, <1>6 DEF MirrorInv

LEMMA CreateAttemptStep ==
  ASSUME DeliveryMirrorAssumption, MirrorInv, NEW a \in MirrorAttempts, CreateAttempt(a)
  PROVE  MirrorInv'
  <1> DEFINE d == DeliveryOf[a]
             new == <<NotifyIntelDeliveryAttemptCreated(a)>>
  <1>1. d \in MirrorDeliveries /\ a \in AttemptsOf(d)
    BY DEF DeliveryMirrorAssumption, AttemptsOf
  <1>2. owned \in OwnedTables
    BY DEF MirrorInv, MirrorTypes
  <1>3. /\ owned' \in OwnedTables /\ owned'.auto = owned.auto /\ owned'.delivery = owned.delivery
        /\ owned'.attempt = [owned.attempt EXCEPT ![a] = "active"] /\ owned.delivery[d] = "active"
        /\ owned.attempt[a] = "none" /\ owned'.attempt[a] = "active"
        /\ \A b \in MirrorAttempts \ {a} : owned'.attempt[b] = owned.attempt[b]
    <2>1. owned' = [owned EXCEPT !.attempt = [owned.attempt EXCEPT ![a] = "active"]]
      BY <1>2 DEF CreateAttempt, OwnedTables
    <2>2. [owned.attempt EXCEPT ![a] = "active"] \in [MirrorAttempts -> MirrorStates]
      BY <1>2 DEF OwnedTables, MirrorStates
    <2> QED
      BY <1>2, <2>1, <2>2 DEF CreateAttempt, OwnedTables
  <1>4. new \in Seq(DeliveryEvents(d))
    BY <1>1 DEF DeliveryEvents, NotifyIntelDeliveryAttemptCreated
  <1>5. OwnedOK'
    <2>1. \A b \in MirrorAttempts : DeliveryOf[b] = d => owned.attempt[b] # "active"
      BY DEF CreateAttempt, ActiveAttempts, AttemptsOf
    <2>2. ASSUME NEW b \in MirrorAttempts, NEW c \in MirrorAttempts,
                 owned'.attempt[b] = "active", owned'.attempt[c] = "active", DeliveryOf[b] = DeliveryOf[c]
          PROVE  b = c
      BY <1>3, <2>1, <2>2 DEF MirrorInv, OwnedOK
    <2>3. ASSUME NEW b \in MirrorAttempts, owned'.delivery[DeliveryOf[b]] = "none" PROVE owned'.attempt[b] = "none"
      BY <1>3, <2>3 DEF MirrorInv, OwnedOK
    <2> QED
      BY <2>2, <2>3 DEF OwnedOK
  <1>6. ASSUME d \notin redone, mirrorEvents'[d] = mirrorEvents[d] \o new, mirror' = mirror
        PROVE  DeliveryInStep(d)' /\ \A b \in AttemptsOf(d) : AttemptInStep(d, b)'
    <2>1. PICK s \in Seq(DeliveryEvents(d)) : s = mirrorEvents[d]
      BY <1>1 DEF MirrorInv, MirrorTypes
    <2>2. DeliveryInStep(d) /\ \A b \in AttemptsOf(d) : AttemptInStep(d, b)
      BY <1>1, <1>6 DEF MirrorInv, AllInStep
    <2>3. /\ \A b : At(new, NotifyIntelDeliveryAttemptCreated(b)) = IF b = a THEN {1} ELSE {}
          /\ \A b : At(new, NotifyIntelDeliveryAttemptStatusUpdated(b)) = {}
          /\ At(new, NotifyIntelDeliveryCreated) = {} /\ At(new, NotifyIntelDeliveryStatusUpdated) = {}
          /\ 1 \in DOMAIN new
      <3>1. \A e, f : e # f => At(<<e>>, e) = {1} /\ At(<<e>>, f) = {} /\ 1 \in DOMAIN <<e>>
        BY AtEvent
      <3>2. \A b : /\ b # a => NotifyIntelDeliveryAttemptCreated(a) # NotifyIntelDeliveryAttemptCreated(b)
                   /\ NotifyIntelDeliveryAttemptCreated(a) # NotifyIntelDeliveryAttemptStatusUpdated(b)
        BY EventsDiffer
      <3>3. NotifyIntelDeliveryAttemptCreated(a) # NotifyIntelDeliveryCreated /\ NotifyIntelDeliveryAttemptCreated(a) # NotifyIntelDeliveryStatusUpdated
        BY EventsDiffer
      <3> QED
        BY <3>1, <3>2, <3>3
    <2>4. DeliveryInStep(d)'
      <3>1. InStep(s, NotifyIntelDeliveryCreated, NotifyIntelDeliveryStatusUpdated, d, mirror.deliveries, owned.delivery[d])
        BY <2>1, <2>2 DEF DeliveryInStep
      <3>2. InStep(s \o new, NotifyIntelDeliveryCreated, NotifyIntelDeliveryStatusUpdated, d, mirror.deliveries, owned.delivery[d])
        BY <1>4, <2>3, <3>1, InStepWithOthers
      <3> QED
        BY <1>3, <1>6, <2>1, <3>2 DEF DeliveryInStep
    <2>5. ASSUME NEW b \in AttemptsOf(d), b # a PROVE AttemptInStep(d, b)'
      <3>1. InStep(s, NotifyIntelDeliveryAttemptCreated(b), NotifyIntelDeliveryAttemptStatusUpdated(b), b, mirror.attempts,
                   owned.attempt[b])
        BY <2>1, <2>2 DEF AttemptInStep
      <3>2. InStep(s \o new, NotifyIntelDeliveryAttemptCreated(b), NotifyIntelDeliveryAttemptStatusUpdated(b), b, mirror.attempts,
                   owned.attempt[b])
        BY <1>4, <2>3, <2>5, <3>1, InStepWithOthers
      <3>3. owned'.attempt[b] = owned.attempt[b]
        BY <1>3, <2>5 DEF AttemptsOf
      <3> QED
        BY <1>6, <2>1, <3>2, <3>3 DEF AttemptInStep
    <2>6. AttemptInStep(d, a)'
      <3>1. InStep(s, NotifyIntelDeliveryAttemptCreated(a), NotifyIntelDeliveryAttemptStatusUpdated(a), a, mirror.attempts, "none")
        BY <1>1, <1>3, <2>1, <2>2 DEF AttemptInStep
      <3>2. InStep(s \o new, NotifyIntelDeliveryAttemptCreated(a), NotifyIntelDeliveryAttemptStatusUpdated(a), a, mirror.attempts,
                   "active")
        BY <1>4, <2>3, <3>1, InStepOn
      <3> QED
        BY <1>3, <1>6, <2>1, <3>2 DEF AttemptInStep
    <2> QED
      BY <2>4, <2>5, <2>6
  <1> HIDE DEF d, new
  <1>7. /\ owned.delivery[d] # "none" /\ owned'.delivery[d] # "none"
        /\ \A x \in MirrorDeliveries \ {d} : owned'.delivery[x] = owned.delivery[x]
        /\ \A b \in MirrorAttempts \ AttemptsOf(d) : owned'.attempt[b] = owned.attempt[b]
    BY <1>1, <1>3
  <1>8. ByOwner(d, new) /\ repeated' = repeated
    BY DEF CreateAttempt, d, new
  <1> QED
    BY <1>1, <1>3, <1>4, <1>5, <1>6, <1>7, <1>8, DeliveryTold

LEMMA EndDeliveryAttemptStep ==
  ASSUME DeliveryMirrorAssumption, MirrorInv, NEW a \in MirrorAttempts, EndDeliveryAttempt(a)
  PROVE  MirrorInv'
  <1> DEFINE d == DeliveryOf[a]
             new == <<NotifyIntelDeliveryAttemptStatusUpdated(a)>>
  <1>1. d \in MirrorDeliveries /\ a \in AttemptsOf(d)
    BY DEF DeliveryMirrorAssumption, AttemptsOf
  <1>2. owned \in OwnedTables
    BY DEF MirrorInv, MirrorTypes
  <1>3. /\ owned' \in OwnedTables /\ owned'.auto = owned.auto /\ owned'.delivery = owned.delivery
        /\ owned'.attempt = [owned.attempt EXCEPT ![a] = "ended"]
        /\ owned.attempt[a] = "active" /\ owned'.attempt[a] = "ended"
        /\ \A b \in MirrorAttempts \ {a} : owned'.attempt[b] = owned.attempt[b]
    <2>1. owned' = [owned EXCEPT !.attempt = [owned.attempt EXCEPT ![a] = "ended"]]
      BY <1>2 DEF EndDeliveryAttempt, OwnedTables
    <2>2. [owned.attempt EXCEPT ![a] = "ended"] \in [MirrorAttempts -> MirrorStates]
      BY <1>2 DEF OwnedTables, MirrorStates
    <2> QED
      BY <1>2, <2>1, <2>2 DEF EndDeliveryAttempt, OwnedTables
  <1>4. new \in Seq(DeliveryEvents(d))
    BY <1>1 DEF DeliveryEvents, NotifyIntelDeliveryAttemptStatusUpdated
  <1>5. OwnedOK' /\ owned.delivery[d] # "none"
    <2>1. owned.delivery[d] # "none"
      BY <1>3 DEF MirrorInv, OwnedOK
    <2>2. ASSUME NEW b \in MirrorAttempts, NEW c \in MirrorAttempts,
                 owned'.attempt[b] = "active", owned'.attempt[c] = "active", DeliveryOf[b] = DeliveryOf[c]
          PROVE  b = c
      BY <1>3, <2>2 DEF MirrorInv, OwnedOK
    <2>3. ASSUME NEW b \in MirrorAttempts, owned'.delivery[DeliveryOf[b]] = "none" PROVE owned'.attempt[b] = "none"
      BY <1>3, <2>1, <2>3 DEF MirrorInv, OwnedOK
    <2> QED
      BY <2>1, <2>2, <2>3 DEF OwnedOK
  <1>6. ASSUME d \notin redone, mirrorEvents'[d] = mirrorEvents[d] \o new, mirror' = mirror
        PROVE  DeliveryInStep(d)' /\ \A b \in AttemptsOf(d) : AttemptInStep(d, b)'
    <2>1. PICK s \in Seq(DeliveryEvents(d)) : s = mirrorEvents[d]
      BY <1>1 DEF MirrorInv, MirrorTypes
    <2>2. DeliveryInStep(d) /\ \A b \in AttemptsOf(d) : AttemptInStep(d, b)
      BY <1>1, <1>6 DEF MirrorInv, AllInStep
    <2>3. /\ \A b : At(new, NotifyIntelDeliveryAttemptStatusUpdated(b)) = IF b = a THEN {1} ELSE {}
          /\ \A b : At(new, NotifyIntelDeliveryAttemptCreated(b)) = {}
          /\ At(new, NotifyIntelDeliveryCreated) = {} /\ At(new, NotifyIntelDeliveryStatusUpdated) = {}
          /\ 1 \in DOMAIN new
      <3>1. \A e, f : e # f => At(<<e>>, e) = {1} /\ At(<<e>>, f) = {} /\ 1 \in DOMAIN <<e>>
        BY AtEvent
      <3>2. \A b : /\ b # a => NotifyIntelDeliveryAttemptStatusUpdated(a) # NotifyIntelDeliveryAttemptStatusUpdated(b)
                   /\ NotifyIntelDeliveryAttemptStatusUpdated(a) # NotifyIntelDeliveryAttemptCreated(b)
        BY EventsDiffer
      <3>3. NotifyIntelDeliveryAttemptStatusUpdated(a) # NotifyIntelDeliveryCreated /\ NotifyIntelDeliveryAttemptStatusUpdated(a) # NotifyIntelDeliveryStatusUpdated
        BY EventsDiffer
      <3> QED
        BY <3>1, <3>2, <3>3
    <2>4. DeliveryInStep(d)'
      <3>1. InStep(s, NotifyIntelDeliveryCreated, NotifyIntelDeliveryStatusUpdated, d, mirror.deliveries, owned.delivery[d])
        BY <2>1, <2>2 DEF DeliveryInStep
      <3>2. InStep(s \o new, NotifyIntelDeliveryCreated, NotifyIntelDeliveryStatusUpdated, d, mirror.deliveries, owned.delivery[d])
        BY <1>4, <2>3, <3>1, InStepWithOthers
      <3> QED
        BY <1>3, <1>6, <2>1, <3>2 DEF DeliveryInStep
    <2>5. ASSUME NEW b \in AttemptsOf(d), b # a PROVE AttemptInStep(d, b)'
      <3>1. InStep(s, NotifyIntelDeliveryAttemptCreated(b), NotifyIntelDeliveryAttemptStatusUpdated(b), b, mirror.attempts,
                   owned.attempt[b])
        BY <2>1, <2>2 DEF AttemptInStep
      <3>2. InStep(s \o new, NotifyIntelDeliveryAttemptCreated(b), NotifyIntelDeliveryAttemptStatusUpdated(b), b, mirror.attempts,
                   owned.attempt[b])
        BY <1>4, <2>3, <2>5, <3>1, InStepWithOthers
      <3>3. owned'.attempt[b] = owned.attempt[b]
        BY <1>3, <2>5 DEF AttemptsOf
      <3> QED
        BY <1>6, <2>1, <3>2, <3>3 DEF AttemptInStep
    <2>6. AttemptInStep(d, a)'
      <3>1. InStep(s, NotifyIntelDeliveryAttemptCreated(a), NotifyIntelDeliveryAttemptStatusUpdated(a), a, mirror.attempts, "active")
        BY <1>1, <1>3, <2>1, <2>2 DEF AttemptInStep
      <3>2. InStep(s \o new, NotifyIntelDeliveryAttemptCreated(a), NotifyIntelDeliveryAttemptStatusUpdated(a), a, mirror.attempts,
                   "ended")
        BY <1>4, <2>3, <3>1, InStepOff
      <3> QED
        BY <1>3, <1>6, <2>1, <3>2 DEF AttemptInStep
    <2> QED
      BY <2>4, <2>5, <2>6
  <1> HIDE DEF d, new
  <1>7. /\ owned.delivery[d] # "none" /\ owned'.delivery[d] # "none"
        /\ \A x \in MirrorDeliveries \ {d} : owned'.delivery[x] = owned.delivery[x]
        /\ \A b \in MirrorAttempts \ AttemptsOf(d) : owned'.attempt[b] = owned.attempt[b]
    BY <1>1, <1>3, <1>5
  <1>8. ByOwner(d, new) /\ repeated' = repeated
    BY DEF EndDeliveryAttempt, d, new
  <1> QED
    BY <1>1, <1>3, <1>4, <1>5, <1>6, <1>7, <1>8, DeliveryTold

\* The active attempt of the delivery ends first, if there is one.
LEMMA EndWholeDeliveryStep ==
  ASSUME DeliveryMirrorAssumption, MirrorInv, NEW d \in MirrorDeliveries, EndWholeDelivery(d)
  PROVE  MirrorInv'
  <1> DEFINE active == ActiveAttempts(d)
             ends == {NotifyIntelDeliveryAttemptStatusUpdated(a) : a \in active}
             new == SetToSeq(ends) \o <<NotifyIntelDeliveryStatusUpdated>>
  <1>1. /\ owned \in OwnedTables /\ active \subseteq AttemptsOf(d) /\ AttemptsOf(d) \subseteq MirrorAttempts
        /\ \A a \in AttemptsOf(d) : a \in active <=> owned.attempt[a] = "active"
    BY DEF MirrorInv, MirrorTypes, ActiveAttempts, AttemptsOf
  <1>2. active = {} \/ \E a \in AttemptsOf(d) : active = {a}
    <2>1. \A a, b \in active : a = b
      BY <1>1 DEF MirrorInv, OwnedOK, AttemptsOf
    <2> QED
      BY <1>1, <2>1
  <1>3. /\ owned' \in OwnedTables /\ owned'.auto = owned.auto
        /\ owned.delivery[d] = "active" /\ owned'.delivery[d] = "ended"
        /\ \A x \in MirrorDeliveries \ {d} : owned'.delivery[x] = owned.delivery[x]
        /\ \A a \in active : owned'.attempt[a] = "ended" /\ owned.attempt[a] = "active"
        /\ \A a \in MirrorAttempts \ active : owned'.attempt[a] = owned.attempt[a]
    <2>1. PICK delivery, attempt : /\ delivery = [owned.delivery EXCEPT ![d] = "ended"]
                                   /\ attempt = [a \in MirrorAttempts |-> IF a \in active THEN "ended" ELSE owned.attempt[a]]
      OBVIOUS
    <2>2. owned' = [owned EXCEPT !.delivery = delivery, !.attempt = attempt]
      BY <1>1, <2>1 DEF EndWholeDelivery, OwnedTables
    <2>3. delivery \in [MirrorDeliveries -> MirrorStates] /\ delivery[d] = "ended"
          /\ \A x \in MirrorDeliveries \ {d} : delivery[x] = owned.delivery[x]
      BY <1>1, <2>1 DEF OwnedTables, MirrorStates
    <2>4. attempt \in [MirrorAttempts -> MirrorStates] /\ (\A a \in active : attempt[a] = "ended")
          /\ \A a \in MirrorAttempts \ active : attempt[a] = owned.attempt[a]
      BY <1>1, <2>1 DEF OwnedTables, MirrorStates
    <2>5. owned' \in OwnedTables /\ owned'.auto = owned.auto /\ owned'.delivery = delivery /\ owned'.attempt = attempt
      BY <1>1, <2>2, <2>3, <2>4 DEF OwnedTables
    <2>6. owned.delivery[d] = "active"
      BY DEF EndWholeDelivery
    <2> QED
      BY <1>1, <2>3, <2>4, <2>5, <2>6
  <1>4. OwnedOK'
    <2>1. \A a \in MirrorAttempts : owned'.attempt[a] = "active" => owned.attempt[a] = "active"
      <3> SUFFICES ASSUME NEW a \in MirrorAttempts, owned'.attempt[a] = "active" PROVE owned.attempt[a] = "active"
        OBVIOUS
      <3> QED
        BY <1>3
    <2>2. ASSUME NEW b \in MirrorAttempts, owned'.delivery[DeliveryOf[b]] = "none" PROVE owned'.attempt[b] = "none"
      <3>1. DeliveryOf[b] # d /\ DeliveryOf[b] \in MirrorDeliveries
        BY <1>3, <2>2 DEF DeliveryMirrorAssumption
      <3>2. b \notin active /\ owned.delivery[DeliveryOf[b]] = "none"
        BY <1>1, <1>3, <2>2, <3>1 DEF AttemptsOf
      <3> QED
        BY <1>3, <3>2 DEF MirrorInv, OwnedOK
    <2>3. ASSUME NEW b \in MirrorAttempts, NEW c \in MirrorAttempts,
                 owned'.attempt[b] = "active", owned'.attempt[c] = "active", DeliveryOf[b] = DeliveryOf[c]
          PROVE  b = c
      BY <2>1, <2>3 DEF MirrorInv, OwnedOK
    <2> QED
      BY <2>2, <2>3 DEF OwnedOK
  <1>5. NotifyIntelDeliveryStatusUpdated \in DeliveryEvents(d)
        /\ \A a \in AttemptsOf(d) : NotifyIntelDeliveryAttemptStatusUpdated(a) \in DeliveryEvents(d)
    BY DEF DeliveryEvents, NotifyIntelDeliveryStatusUpdated, NotifyIntelDeliveryAttemptStatusUpdated
  <1> HIDE DEF new, ends, active
  <1>6. /\ new \in Seq(DeliveryEvents(d))
        /\ At(new, NotifyIntelDeliveryCreated) = {}
        /\ \E j \in DOMAIN new : At(new, NotifyIntelDeliveryStatusUpdated) = {j}
        /\ \A b : At(new, NotifyIntelDeliveryAttemptCreated(b)) = {}
        /\ \A b \in active : \E j \in DOMAIN new : At(new, NotifyIntelDeliveryAttemptStatusUpdated(b)) = {j}
        /\ \A b : b \notin active => At(new, NotifyIntelDeliveryAttemptStatusUpdated(b)) = {}
    <2>1. CASE active = {}
      <3>1. ends = {}
        BY <2>1 DEF ends
      <3>2. new = <<NotifyIntelDeliveryStatusUpdated>>
        <4>1. new = SetToSeq({}) \o <<NotifyIntelDeliveryStatusUpdated>>
          BY <3>1 DEF new
        <4> QED
          BY <4>1, NoneInSequence, OneAfterNone
      <3>3. \A e, f : e # f => At(<<e>>, e) = {1} /\ At(<<e>>, f) = {} /\ 1 \in DOMAIN <<e>>
        BY AtEvent
      <3>4. new \in Seq(DeliveryEvents(d))
        BY <1>5, <3>2
      <3>5. \A b : /\ NotifyIntelDeliveryStatusUpdated # NotifyIntelDeliveryAttemptCreated(b)
                   /\ NotifyIntelDeliveryStatusUpdated # NotifyIntelDeliveryAttemptStatusUpdated(b)
                   /\ NotifyIntelDeliveryStatusUpdated # NotifyIntelDeliveryCreated
        BY EventsDiffer
      <3> QED
        BY <2>1, <3>2, <3>3, <3>4, <3>5
    <2>2. ASSUME NEW a \in AttemptsOf(d), active = {a}
          PROVE  /\ new \in Seq(DeliveryEvents(d))
                 /\ At(new, NotifyIntelDeliveryCreated) = {}
                 /\ \E j \in DOMAIN new : At(new, NotifyIntelDeliveryStatusUpdated) = {j}
                 /\ \A b : At(new, NotifyIntelDeliveryAttemptCreated(b)) = {}
                 /\ \A b \in active : \E j \in DOMAIN new : At(new, NotifyIntelDeliveryAttemptStatusUpdated(b)) = {j}
                 /\ \A b : b \notin active => At(new, NotifyIntelDeliveryAttemptStatusUpdated(b)) = {}
      <3>1. ends = {NotifyIntelDeliveryAttemptStatusUpdated(a)}
        BY <2>2 DEF ends
      <3>2. new = <<NotifyIntelDeliveryAttemptStatusUpdated(a), NotifyIntelDeliveryStatusUpdated>>
        <4>1. new = <<NotifyIntelDeliveryAttemptStatusUpdated(a)>> \o <<NotifyIntelDeliveryStatusUpdated>>
          <5>1. new = SetToSeq({NotifyIntelDeliveryAttemptStatusUpdated(a)}) \o <<NotifyIntelDeliveryStatusUpdated>>
            BY <3>1 DEF new
          <5> QED
            BY <5>1, OneInSequence
        <4> QED
          BY <4>1, OneAfterOne
      <3>3. \A e, f, g : e # f /\ g # e /\ g # f =>
                /\ At(<<e, f>>, e) = {1} /\ At(<<e, f>>, f) = {2} /\ At(<<e, f>>, g) = {}
                /\ 1 \in DOMAIN <<e, f>> /\ 2 \in DOMAIN <<e, f>>
        BY AtFew, ZenonT(60)
      <3>4. new \in Seq(DeliveryEvents(d))
        BY <1>5, <3>2
      <3>5. \A b : /\ NotifyIntelDeliveryStatusUpdated # NotifyIntelDeliveryAttemptCreated(b)
                   /\ NotifyIntelDeliveryStatusUpdated # NotifyIntelDeliveryAttemptStatusUpdated(b)
                   /\ NotifyIntelDeliveryStatusUpdated # NotifyIntelDeliveryCreated
                   /\ NotifyIntelDeliveryAttemptStatusUpdated(a) # NotifyIntelDeliveryAttemptCreated(b)
                   /\ NotifyIntelDeliveryAttemptStatusUpdated(a) # NotifyIntelDeliveryCreated
                   /\ b # a => NotifyIntelDeliveryAttemptStatusUpdated(a) # NotifyIntelDeliveryAttemptStatusUpdated(b)
        BY EventsDiffer
      <3>6. PICK e, f : e = NotifyIntelDeliveryAttemptStatusUpdated(a) /\ f = NotifyIntelDeliveryStatusUpdated
        OBVIOUS
      <3>7. e # f /\ new = <<e, f>>
        BY <3>2, <3>5, <3>6
      <3>8. /\ At(new, e) = {1} /\ At(new, f) = {2} /\ 1 \in DOMAIN new /\ 2 \in DOMAIN new
            /\ \A g : g # e /\ g # f => At(new, g) = {}
        <4>1. e # f /\ NotifyIntelDeliveryCreated # e /\ NotifyIntelDeliveryCreated # f
          BY <3>5, <3>6
        <4>2. At(new, e) = {1} /\ At(new, f) = {2} /\ 1 \in DOMAIN new /\ 2 \in DOMAIN new
          BY <3>3, <3>7, <4>1
        <4>3. ASSUME NEW g, g # e, g # f PROVE At(new, g) = {}
          BY <3>3, <3>7, <4>3
        <4> QED
          BY <4>2, <4>3
      <3>9. \A b : b \notin active => b # a
        BY <2>2
      <3>10. \A b \in active : b = a
        BY <2>2
      <3> QED
        BY <3>4, <3>5, <3>6, <3>8, <3>9, <3>10
    <2> QED
      BY <1>2, <2>1, <2>2
  <1>7. ASSUME d \notin redone, mirrorEvents'[d] = mirrorEvents[d] \o new, mirror' = mirror
        PROVE  DeliveryInStep(d)' /\ \A b \in AttemptsOf(d) : AttemptInStep(d, b)'
    <2>1. PICK s \in Seq(DeliveryEvents(d)) : s = mirrorEvents[d]
      BY DEF MirrorInv, MirrorTypes
    <2>2. DeliveryInStep(d) /\ \A b \in AttemptsOf(d) : AttemptInStep(d, b)
      BY <1>7 DEF MirrorInv, AllInStep
    <2>3. DeliveryInStep(d)'
      <3>1. InStep(s, NotifyIntelDeliveryCreated, NotifyIntelDeliveryStatusUpdated, d, mirror.deliveries, "active")
        BY <1>3, <2>1, <2>2 DEF DeliveryInStep
      <3>2. InStep(s \o new, NotifyIntelDeliveryCreated, NotifyIntelDeliveryStatusUpdated, d, mirror.deliveries, "ended")
        BY <1>6, <3>1, InStepOff
      <3> QED
        BY <1>3, <1>7, <2>1, <3>2 DEF DeliveryInStep
    <2>4. ASSUME NEW b \in AttemptsOf(d), b \notin active PROVE AttemptInStep(d, b)'
      <3>1. InStep(s, NotifyIntelDeliveryAttemptCreated(b), NotifyIntelDeliveryAttemptStatusUpdated(b), b, mirror.attempts,
                   owned.attempt[b])
        BY <2>1, <2>2 DEF AttemptInStep
      <3>2. InStep(s \o new, NotifyIntelDeliveryAttemptCreated(b), NotifyIntelDeliveryAttemptStatusUpdated(b), b, mirror.attempts,
                   owned.attempt[b])
        BY <1>6, <2>4, <3>1, InStepWithOthers
      <3>3. owned'.attempt[b] = owned.attempt[b]
        BY <1>1, <1>3, <2>4
      <3> QED
        BY <1>7, <2>1, <3>2, <3>3 DEF AttemptInStep
    <2>5. ASSUME NEW b \in AttemptsOf(d), b \in active PROVE AttemptInStep(d, b)'
      <3>1. InStep(s, NotifyIntelDeliveryAttemptCreated(b), NotifyIntelDeliveryAttemptStatusUpdated(b), b, mirror.attempts, "active")
        BY <1>3, <2>1, <2>2, <2>5 DEF AttemptInStep
      <3>2. PICK j \in DOMAIN new : At(new, NotifyIntelDeliveryAttemptStatusUpdated(b)) = {j}
        BY <1>6, <2>5
      <3>3. InStep(s \o new, NotifyIntelDeliveryAttemptCreated(b), NotifyIntelDeliveryAttemptStatusUpdated(b), b, mirror.attempts,
                   "ended")
        BY <1>6, <3>1, <3>2, InStepOff
      <3> QED
        BY <1>3, <1>7, <2>1, <2>5, <3>3 DEF AttemptInStep
    <2> QED
      BY <2>3, <2>4, <2>5
  <1>8. /\ owned.delivery[d] # "none" /\ owned'.delivery[d] # "none"
        /\ \A b \in MirrorAttempts \ AttemptsOf(d) : owned'.attempt[b] = owned.attempt[b]
    BY <1>1, <1>3
  <1>9. ByOwner(d, new) /\ repeated' = repeated
    BY DEF EndWholeDelivery, new, ends, active
  <1> QED
    BY <1>3, <1>4, <1>6, <1>7, <1>8, <1>9, DeliveryTold

\* The intel with its deliveries: nothing was told about any of them before.
LEMMA CreateDeliveriesStep ==
  ASSUME DeliveryMirrorAssumption, MirrorInv, NEW ds \in SUBSET MirrorDeliveries, CreateDeliveries(ds)
  PROVE  MirrorInv'
  <1>1. owned \in OwnedTables /\ DOMAIN mirrorEvents = MirrorKeys
    BY DEF MirrorInv, MirrorTypes
  <1>2. /\ ds # {} /\ \A d \in MirrorDeliveries : owned.delivery[d] = "none"
        /\ UNCHANGED <<mirror, watched, mirrorFaults, redone, repeated>>
    BY DEF CreateDeliveries
  <1>3. /\ owned' \in OwnedTables /\ owned'.auto = owned.auto /\ owned'.attempt = owned.attempt
        /\ \A d \in ds : owned'.delivery[d] = "active"
        /\ \A d \in MirrorDeliveries \ ds : owned'.delivery[d] = owned.delivery[d]
    <2>1. PICK delivery : delivery = [d \in MirrorDeliveries |-> IF d \in ds THEN "active" ELSE owned.delivery[d]]
      OBVIOUS
    <2>2. owned' = [owned EXCEPT !.delivery = delivery]
      BY <1>1, <2>1 DEF CreateDeliveries, OwnedTables
    <2>3. delivery \in [MirrorDeliveries -> MirrorStates] /\ (\A d \in ds : delivery[d] = "active")
          /\ \A d \in MirrorDeliveries \ ds : delivery[d] = owned.delivery[d]
      BY <1>1, <2>1 DEF OwnedTables, MirrorStates
    <2>4. owned' \in OwnedTables /\ owned'.auto = owned.auto /\ owned'.attempt = owned.attempt /\ owned'.delivery = delivery
      BY <1>1, <2>2, <2>3 DEF OwnedTables
    <2> QED
      BY <2>3, <2>4
  <1>4. /\ mirrorEvents' = [k \in MirrorKeys |-> mirrorEvents'[k]]
        /\ mirrorEvents'[TheIntel] = <<NotifyIntelCreated>>
        /\ \A d \in ds : mirrorEvents'[d] = <<NotifyIntelDeliveryCreated>>
        /\ \A k \in MirrorKeys : k \notin ds /\ k # TheIntel => mirrorEvents'[k] = mirrorEvents[k]
        /\ TheIntel \notin MirrorDeliveries /\ TheIntel \notin MirrorEntries
    <2>1. TheIntel \notin MirrorDeliveries /\ TheIntel \notin MirrorEntries
      BY DEF DeliveryMirrorAssumption
    <2>2. mirrorEvents' = [k \in MirrorKeys |-> IF k = TheIntel THEN <<NotifyIntelCreated>>
                                                ELSE IF k \in ds THEN <<NotifyIntelDeliveryCreated>>
                                                ELSE mirrorEvents[k]]
      BY DEF CreateDeliveries
    <2> QED
      BY <2>1, <2>2 DEF MirrorKeys
  <1>5. ~mirror.intel /\ mirrorEvents[TheIntel] = <<>>
    BY <1>2 DEF MirrorInv, IntelOK
  <1>6. MirrorTypes'
    <2>1. ASSUME NEW d \in MirrorDeliveries PROVE mirrorEvents'[d] \in Seq(DeliveryEvents(d))
      <3>1. CASE d \in ds
        <4>1. NotifyIntelDeliveryCreated \in DeliveryEvents(d)
          BY DEF DeliveryEvents, NotifyIntelDeliveryCreated
        <4>2. <<NotifyIntelDeliveryCreated>> \in Seq(DeliveryEvents(d))
          BY <4>1
        <4> QED
          BY <1>4, <3>1, <4>2
      <3>2. CASE d \notin ds
        BY <1>4, <3>2 DEF MirrorInv, MirrorTypes, MirrorKeys
      <3> QED
        BY <3>1, <3>2
    <2>2. \A e \in MirrorEntries : mirrorEvents'[e] \in Seq(AutoEvents)
      BY <1>4 DEF MirrorInv, MirrorTypes, MirrorKeys, DeliveryMirrorAssumption
    <2>3. \A k \in MirrorKeys : Len(mirrorEvents'[k]) <= MaxMirrorEvents
      <3>1. Len(<<NotifyIntelCreated>>) = 1 /\ Len(<<NotifyIntelDeliveryCreated>>) = 1 /\ 1 <= MaxMirrorEvents
        BY DEF DeliveryMirrorAssumption
      <3>2. \A k \in MirrorKeys : Len(mirrorEvents[k]) <= MaxMirrorEvents
        BY DEF MirrorInv, MirrorTypes
      <3> QED
        BY <1>4, <3>1, <3>2
    <2> QED
      BY <1>2, <1>3, <1>4, <2>1, <2>2, <2>3 DEF MirrorInv, MirrorTypes
  <1>7. OwnedOK'
    <2>1. ASSUME NEW a \in MirrorAttempts, owned'.delivery[DeliveryOf[a]] = "none" PROVE owned'.attempt[a] = "none"
      <3>1. owned.delivery[DeliveryOf[a]] = "none"
        BY <1>2 DEF DeliveryMirrorAssumption
      <3> QED
        BY <1>3, <3>1 DEF MirrorInv, OwnedOK
    <2> QED
      BY <1>3, <2>1 DEF MirrorInv, OwnedOK
  <1>8. IntelOK'
    <2>1. \E d \in MirrorDeliveries : owned'.delivery[d] # "none"
      BY <1>2, <1>3
    <2>2. mirrorEvents'[TheIntel] # <<>>
      BY <1>4
    <2> QED
      BY <1>2, <1>5, <2>1, <2>2 DEF MirrorInv, IntelOK
  <1>9. AllInStep'
    <2>1. ASSUME NEW d \in MirrorDeliveries \ redone', d \notin ds
          PROVE  DeliveryInStep(d)' /\ \A a \in AttemptsOf(d) : AttemptInStep(d, a)'
      <3>1. mirrorEvents'[d] = mirrorEvents[d] /\ owned'.delivery[d] = owned.delivery[d]
        BY <1>3, <1>4, <2>1 DEF MirrorKeys
      <3>2. DeliveryInStep(d) /\ \A a \in AttemptsOf(d) : AttemptInStep(d, a)
        BY <1>2, <2>1 DEF MirrorInv, AllInStep
      <3> QED
        BY <1>2, <1>3, <3>1, <3>2 DEF DeliveryInStep, AttemptInStep
    <2>2. ASSUME NEW d \in MirrorDeliveries \ redone', d \in ds
          PROVE  DeliveryInStep(d)' /\ \A a \in AttemptsOf(d) : AttemptInStep(d, a)'
      <3>1. DeliveryInStep(d) /\ \A a \in AttemptsOf(d) : AttemptInStep(d, a)
        BY <1>2, <2>2 DEF MirrorInv, AllInStep
      <3>2. \A e, f : e # f => At(<<e>>, e) = {1} /\ At(<<e>>, f) = {} /\ 1 \in DOMAIN <<e>>
        BY AtEvent
      <3>3. PICK new : new = <<NotifyIntelDeliveryCreated>>
        OBVIOUS
      <3>4. /\ At(new, NotifyIntelDeliveryCreated) = {1} /\ At(new, NotifyIntelDeliveryStatusUpdated) = {}
            /\ \A a : At(new, NotifyIntelDeliveryAttemptCreated(a)) = {}
            /\ \A a : At(new, NotifyIntelDeliveryAttemptStatusUpdated(a)) = {}
            /\ 1 \in DOMAIN new /\ Len(new) = 1
        <4>1. \A a : /\ NotifyIntelDeliveryCreated # NotifyIntelDeliveryStatusUpdated
                     /\ NotifyIntelDeliveryCreated # NotifyIntelDeliveryAttemptCreated(a)
                     /\ NotifyIntelDeliveryCreated # NotifyIntelDeliveryAttemptStatusUpdated(a)
          BY EventsDiffer
        <4> QED
          BY <3>2, <3>3, <4>1
      <3>5. DeliveryInStep(d)'
        <4>1. d \notin mirror.deliveries
          BY <1>2, <3>1 DEF DeliveryInStep, InStep
        <4>2. mirrorEvents'[d] = new /\ owned'.delivery[d] = "active"
          BY <1>3, <1>4, <2>2, <3>3
        <4> QED
          BY <1>2, <3>4, <4>1, <4>2 DEF DeliveryInStep, InStep, BeforeOn
      <3>6. ASSUME NEW a \in AttemptsOf(d) PROVE AttemptInStep(d, a)'
        <4>1. owned.attempt[a] = "none" /\ owned'.attempt[a] = "none"
          BY <1>2, <1>3 DEF MirrorInv, OwnedOK, AttemptsOf
        <4>2. a \notin mirror.attempts
          BY <3>1, <4>1 DEF AttemptInStep, InStep
        <4>3. mirrorEvents'[d] = new
          BY <1>4, <2>2, <3>3
        <4> QED
          BY <1>2, <3>4, <4>1, <4>2, <4>3 DEF AttemptInStep, InStep
      <3> QED
        BY <3>5, <3>6
    <2> QED
      BY <2>1, <2>2 DEF AllInStep
  <1>10. AutoDeliveryFollows'
    <2>1. \A e \in MirrorEntries : mirrorEvents'[e] = mirrorEvents[e]
      BY <1>4 DEF MirrorKeys, DeliveryMirrorAssumption
    <2>2. ASSUME NEW e \in MirrorEntries, NEW i PROVE AutoTold(e, i)' = AutoTold(e, i)
      BY <1>2, <2>1 DEF AutoTold
    <2> QED
      BY <1>2, <1>3, <2>1, <2>2 DEF MirrorInv, AutoDeliveryFollows
  <1>11. WatcherIsTold'
    BY <1>2 DEF MirrorInv, WatcherIsTold
  <1> QED
    BY <1>6, <1>7, <1>8, <1>9, <1>10, <1>11 DEF MirrorInv

LEMMA TellAutoDeliveryStep ==
  ASSUME DeliveryMirrorAssumption, MirrorInv, NEW e \in MirrorEntries, NEW enabled \in BOOLEAN, TellAutoDelivery(e, enabled)
  PROVE  MirrorInv'
  <1> DEFINE new == <<NotifyAddressBookEntryAutoDeliveryUpdated(enabled)>>
  <1>1. PICK s \in Seq(AutoEvents) : s = mirrorEvents[e]
    BY DEF MirrorInv, MirrorTypes
  <1>2. owned \in OwnedTables
    BY DEF MirrorInv, MirrorTypes
  <1>3. /\ owned' \in OwnedTables /\ owned'.delivery = owned.delivery /\ owned'.attempt = owned.attempt
        /\ e \in owned'.auto <=> enabled
        /\ \A other \in MirrorEntries \ {e} : other \in owned'.auto <=> other \in owned.auto
        /\ owned' # owned => (enabled <=> e \notin owned.auto)
    <2>1. PICK auto : auto = IF enabled THEN owned.auto \cup {e} ELSE owned.auto \ {e}
      OBVIOUS
    <2>2. owned' = [owned EXCEPT !.auto = auto]
      BY <2>1 DEF TellAutoDelivery
    <2>3. auto \in SUBSET MirrorEntries /\ (e \in auto <=> enabled)
          /\ (\A other \in MirrorEntries \ {e} : other \in auto <=> other \in owned.auto)
          /\ (auto # owned.auto => (enabled <=> e \notin owned.auto))
      BY <1>2, <2>1 DEF OwnedTables
    <2>4. owned' \in OwnedTables /\ owned'.delivery = owned.delivery /\ owned'.attempt = owned.attempt /\ owned'.auto = auto
      BY <1>2, <2>2, <2>3 DEF OwnedTables
    <2>5. auto = owned.auto => owned' = owned
      BY <1>2, <2>2 DEF OwnedTables
    <2> QED
      BY <2>3, <2>4, <2>5
  <1>4. new \in Seq(AutoEvents) /\ Len(new) = 1 /\ new[1].enabled = enabled
    BY DEF AutoEvents, NotifyAddressBookEntryAutoDeliveryUpdated
  <1>5. ByOwner(e, new)
    BY DEF TellAutoDelivery
  <1> HIDE DEF new
  <1>6. /\ MirrorTypes' /\ e \in MirrorKeys /\ TheIntel \in MirrorKeys \ {e}
        /\ mirrorEvents'[e] = s \o new
        /\ \A other \in MirrorKeys \ {e} : mirrorEvents'[other] = mirrorEvents[other]
        /\ UNCHANGED <<mirror, watched, mirrorFaults, redone>>
    <2>1. e \notin MirrorDeliveries
      BY DEF DeliveryMirrorAssumption
    <2> QED
      BY <1>1, <1>3, <1>4, <1>5, <2>1, ToldTypes
  <1>7. OwnedOK'
    BY <1>3 DEF MirrorInv, OwnedOK
  <1>8. IntelOK'
    BY <1>3, <1>6 DEF MirrorInv, IntelOK
  <1>9. AllInStep'
    <2>1. \A d \in MirrorDeliveries : mirrorEvents'[d] = mirrorEvents[d]
      BY <1>6 DEF MirrorKeys, DeliveryMirrorAssumption
    <2>2. ASSUME NEW d \in MirrorDeliveries \ redone'
          PROVE  DeliveryInStep(d)' /\ \A a \in AttemptsOf(d) : AttemptInStep(d, a)'
      <3>1. DeliveryInStep(d) /\ \A a \in AttemptsOf(d) : AttemptInStep(d, a)
        BY <1>6, <2>2 DEF MirrorInv, AllInStep
      <3> QED
        BY <1>3, <1>6, <2>1, <2>2, <3>1 DEF DeliveryInStep, AttemptInStep
    <2> QED
      BY <2>2 DEF AllInStep
  <1>10. AutoDeliveryFollows'
    <2> SUFFICES ASSUME NEW x \in MirrorEntries, x \notin redone', x \notin repeated'
                 PROVE  (/\ \A i \in DOMAIN mirrorEvents[x] : AutoTold(x, i) # AutoTold(x, i - 1)
                         /\ AutoTold(x, Len(mirrorEvents[x])) = (x \in owned.auto))'
      BY DEF AutoDeliveryFollows
    <2>1. x \notin redone /\ x \notin repeated /\ (x = e => owned' # owned)
      BY <1>6 DEF TellAutoDelivery
    <2>2. /\ \A i \in DOMAIN mirrorEvents[x] : AutoTold(x, i) # AutoTold(x, i - 1)
          /\ AutoTold(x, Len(mirrorEvents[x])) = (x \in owned.auto)
      BY <2>1 DEF MirrorInv, AutoDeliveryFollows
    <2>3. CASE x # e
      <3>1. mirrorEvents'[x] = mirrorEvents[x]
        BY <1>6, <2>3 DEF MirrorKeys
      <3>2. ASSUME NEW i PROVE AutoTold(x, i)' = AutoTold(x, i)
        BY <1>6, <3>1 DEF AutoTold
      <3> QED
        BY <1>3, <2>2, <2>3, <3>1, <3>2
    <2>4. CASE x = e
      <3>1. PICK n \in Nat : n = Len(s)
        BY <1>1, LenProperties
      <3>2. /\ DOMAIN s = 1..n /\ Len(s \o new) = n + 1 /\ DOMAIN (s \o new) = 1..(n + 1)
            /\ (\A i \in 1..n : (s \o new)[i] = s[i]) /\ (s \o new)[n + 1].enabled = enabled
        <4>1. s \o new \in Seq(AutoEvents) /\ Len(s \o new) = n + 1
              /\ \A i \in 1..(n + 1) : (s \o new)[i] = IF i <= n THEN s[i] ELSE new[i - n]
          <5>1. s \in Seq(AutoEvents) /\ new \in Seq(AutoEvents)
            BY <1>4
          <5>2. s \o new \in Seq(AutoEvents) /\ Len(s \o new) = Len(s) + Len(new)
            BY <5>1, ConcatProperties
          <5>3. \A i \in 1..(Len(s) + Len(new)) : (s \o new)[i] = IF i <= Len(s) THEN s[i] ELSE new[i - Len(s)]
            BY <5>1, ConcatProperties
          <5> QED
            BY <1>4, <3>1, <5>2, <5>3
        <4>2. DOMAIN (s \o new) = 1..(n + 1) /\ DOMAIN s = 1..n
          BY <3>1, <4>1, LenProperties
        <4>3. n + 1 \in 1..(n + 1) /\ ~(n + 1 <= n) /\ (n + 1) - n = 1
          OBVIOUS
        <4>4. \A i \in 1..n : i \in 1..(n + 1) /\ i <= n
          OBVIOUS
        <4> QED
          BY <1>4, <4>1, <4>2, <4>3, <4>4
      <3>3. \A i \in 0..n : AutoTold(e, i)' = AutoTold(e, i)
        BY <1>1, <1>6, <3>2 DEF AutoTold
      <3>4. AutoTold(e, n + 1)' = enabled
        BY <1>6, <3>2 DEF AutoTold
      <3>5. AutoTold(e, n) = (e \in owned.auto) /\ \A i \in 1..n : AutoTold(e, i) # AutoTold(e, i - 1)
        BY <1>1, <2>2, <2>4, <3>1, <3>2
      <3>6. ASSUME NEW i \in 1..(n + 1) PROVE AutoTold(e, i)' # AutoTold(e, i - 1)'
        <4>1. CASE i = n + 1
          <5>1. i - 1 = n /\ n \in 0..n
            BY <4>1
          <5>2. AutoTold(e, i - 1)' = (e \in owned.auto)
            BY <3>3, <3>5, <5>1
          <5>3. AutoTold(e, i)' = enabled
            BY <3>4, <4>1
          <5>4. enabled <=> e \notin owned.auto
            BY <1>3, <2>1, <2>4
          <5> QED
            BY <5>2, <5>3, <5>4
        <4>2. CASE i # n + 1
          <5>1. i \in 1..n /\ i \in 0..n /\ i - 1 \in 0..n
            BY <4>2
          <5> QED
            BY <3>3, <3>5, <5>1
        <4> QED
          BY <4>1, <4>2
      <3>7. AutoTold(e, n + 1)' = (e \in owned'.auto)
        BY <1>3, <3>4
      <3> QED
        BY <1>6, <2>4, <3>2, <3>6, <3>7
    <2> QED
      BY <2>3, <2>4
  <1>11. WatcherIsTold'
    BY <1>6 DEF MirrorInv, WatcherIsTold
  <1> QED
    BY <1>6, <1>7, <1>8, <1>9, <1>10, <1>11 DEF MirrorInv

-----------------------------------------------------------------------------
(* The invariant, and what follows from it.                                *)

LEMMA MirrorInvInit ==
  ASSUME DeliveryMirrorAssumption, MirrorInit
  PROVE  MirrorInv
  <1>1. /\ owned = [delivery |-> [d \in MirrorDeliveries |-> "none"], attempt |-> [a \in MirrorAttempts |-> "none"], auto |-> {}]
        /\ mirrorEvents = [k \in MirrorKeys |-> <<>>]
        /\ mirror = [intel |-> FALSE, deliveries |-> {}, attempts |-> {}, auto |-> {}]
        /\ watched = {} /\ redone = {}
    BY DEF MirrorInit
  <1>2. /\ owned \in OwnedTables /\ mirror \in Tables /\ owned.auto = {}
        /\ mirror.deliveries = {} /\ mirror.attempts = {} /\ mirror.auto = {} /\ ~mirror.intel
        /\ \A d \in MirrorDeliveries : owned.delivery[d] = "none"
        /\ \A a \in MirrorAttempts : owned.attempt[a] = "none"
    BY <1>1 DEF OwnedTables, MirrorStates, Tables
  <1>3. \A k \in MirrorKeys : mirrorEvents[k] = <<>> /\ Len(mirrorEvents[k]) = 0
    BY <1>1
  <1>4. \A event : At(<<>>, event) = {}
    BY DEF At
  <1>5. MirrorTypes
    <2>1. \A S : <<>> \in Seq(S)
      OBVIOUS
    <2>2. \A k \in MirrorKeys : Len(mirrorEvents[k]) <= MaxMirrorEvents
      BY <1>3 DEF DeliveryMirrorAssumption
    <2> QED
      BY <1>1, <1>2, <1>3, <2>1, <2>2 DEF MirrorTypes, MirrorKeys
  <1>6. OwnedOK /\ IntelOK
    BY <1>2, <1>3 DEF OwnedOK, IntelOK, MirrorKeys
  <1>7. AllInStep
    BY <1>2, <1>3, <1>4 DEF AllInStep, DeliveryInStep, AttemptInStep, InStep, MirrorKeys, AttemptsOf
  <1>8. AutoDeliveryFollows
    BY <1>2, <1>3 DEF AutoDeliveryFollows, AutoTold, MirrorKeys
  <1>9. WatcherIsTold
    BY <1>1, <1>2 DEF WatcherIsTold, OpenIntelDeliveriesByOperation
  <1> QED
    BY <1>5, <1>6, <1>7, <1>8, <1>9 DEF MirrorInv

LEMMA HandleMirrorEventStep ==
  ASSUME DeliveryMirrorAssumption, MirrorInv, NEW k \in MirrorKeys, HandleMirrorEvent(k)
  PROVE  MirrorInv'
  <1>1. PICK h : h = Head(mirrorEvents[k])
    OBVIOUS
  <1>2. /\ mirrorEvents[k] # <<>> /\ ~Refuses(mirror, k, h) /\ mirror' = AfterMirrorEvent(mirror, k, h)
        /\ watched' = IF Notifies(mirror, k, h) THEN OpenIntelDeliveriesByOperation(mirror') ELSE watched
    BY <1>1 DEF HandleMirrorEvent
  <1>3. HandledFirst(k)
    BY DEF HandleMirrorEvent, HandledFirst
  <1>4. CASE k = TheIntel
    BY <1>1, <1>2, <1>3, <1>4, HandleIntelStep
  <1>5. CASE k \in MirrorDeliveries
    BY <1>1, <1>2, <1>3, <1>5, HandleDeliveryStep
  <1>6. CASE k \in MirrorEntries
    BY <1>1, <1>2, <1>3, <1>6, HandleEntryStep
  <1> QED
    BY <1>4, <1>5, <1>6 DEF MirrorKeys

LEMMA MirrorInvNext ==
  ASSUME DeliveryMirrorAssumption, MirrorInv, [MirrorNext]_mirrorVars
  PROVE  MirrorInv'
  <1>1. CASE \E ds \in SUBSET MirrorDeliveries : CreateDeliveries(ds)
    BY <1>1, CreateDeliveriesStep
  <1>2. CASE \E a \in MirrorAttempts : CreateAttempt(a)
    BY <1>2, CreateAttemptStep
  <1>3. CASE \E a \in MirrorAttempts : EndDeliveryAttempt(a)
    BY <1>3, EndDeliveryAttemptStep
  <1>4. CASE \E d \in MirrorDeliveries : EndWholeDelivery(d)
    BY <1>4, EndWholeDeliveryStep
  <1>5. CASE \E e \in MirrorEntries, enabled \in BOOLEAN : TellAutoDelivery(e, enabled)
    BY <1>5, TellAutoDeliveryStep
  <1>6. CASE \E k \in MirrorKeys : HandleMirrorEvent(k)
    BY <1>6, HandleMirrorEventStep
  <1>7. CASE UNCHANGED mirrorVars
    <2>1. UNCHANGED <<owned, mirrorEvents, mirror, watched, mirrorFaults, redone, repeated>>
      BY <1>7 DEF mirrorVars
    <2>2. MirrorTypes'
      BY <2>1 DEF MirrorInv, MirrorTypes
    <2>3. OwnedOK' /\ IntelOK'
      BY <2>1 DEF MirrorInv, OwnedOK, IntelOK
    <2>4. AllInStep'
      BY <2>1 DEF MirrorInv, AllInStep, DeliveryInStep, AttemptInStep
    <2>5. AutoDeliveryFollows'
      <3>1. ASSUME NEW e, NEW i PROVE AutoTold(e, i)' = AutoTold(e, i)
        BY <2>1 DEF AutoTold
      <3> QED
        BY <2>1, <3>1 DEF MirrorInv, AutoDeliveryFollows
    <2>6. WatcherIsTold'
      BY <2>1 DEF MirrorInv, WatcherIsTold
    <2> QED
      BY <2>2, <2>3, <2>4, <2>5, <2>6 DEF MirrorInv
  <1> QED
    BY <1>1, <1>2, <1>3, <1>4, <1>5, <1>6, <1>7 DEF MirrorNext

LEMMA MirrorInvFollows ==
  ASSUME DeliveryMirrorAssumption, MirrorInv
  PROVE  MirrorTypeOK /\ MirrorFollows
  <1>1. MirrorTypeOK
    BY DEF MirrorInv, MirrorTypes, MirrorTypeOK
  <1>2. ASSUME NEW d \in MirrorDeliveries \ redone
        PROVE  /\ InTheEnd(d, NotifyIntelDeliveryCreated, NotifyIntelDeliveryStatusUpdated, d \in mirror.deliveries)
                      = (owned.delivery[d] = "active")
               /\ \A a \in AttemptsOf(d) :
                      InTheEnd(d, NotifyIntelDeliveryAttemptCreated(a), NotifyIntelDeliveryAttemptStatusUpdated(a),
                               a \in mirror.attempts)
                          = (owned.attempt[a] = "active")
    <2>1. DeliveryInStep(d) /\ \A a \in AttemptsOf(d) : AttemptInStep(d, a)
      BY <1>2 DEF MirrorInv, AllInStep
    <2>2. mirrorEvents[d] \in Seq(DeliveryEvents(d)) /\ owned.delivery[d] \in MirrorStates
          /\ \A a \in AttemptsOf(d) : owned.attempt[a] \in MirrorStates
      BY DEF MirrorInv, MirrorTypes, OwnedTables, AttemptsOf
    <2>3. PICK s \in Seq(DeliveryEvents(d)) : s = mirrorEvents[d]
      BY <2>2
    <2>4. InTheEnd(d, NotifyIntelDeliveryCreated, NotifyIntelDeliveryStatusUpdated, d \in mirror.deliveries)
              = (owned.delivery[d] = "active")
      <3>1. InStep(s, NotifyIntelDeliveryCreated, NotifyIntelDeliveryStatusUpdated, d, mirror.deliveries, owned.delivery[d])
        BY <2>1, <2>3 DEF DeliveryInStep
      <3>2. ComesTo(s, NotifyIntelDeliveryCreated, NotifyIntelDeliveryStatusUpdated, d, mirror.deliveries)
                <=> owned.delivery[d] = "active"
        BY <2>2, <3>1, InStepInTheEnd
      <3> QED
        BY <2>3, <3>2 DEF InTheEnd, ComesTo
    <2>5. ASSUME NEW a \in AttemptsOf(d)
          PROVE  InTheEnd(d, NotifyIntelDeliveryAttemptCreated(a), NotifyIntelDeliveryAttemptStatusUpdated(a),
                          a \in mirror.attempts)
                      = (owned.attempt[a] = "active")
      <3>1. InStep(s, NotifyIntelDeliveryAttemptCreated(a), NotifyIntelDeliveryAttemptStatusUpdated(a), a,
                   mirror.attempts, owned.attempt[a])
        BY <2>1, <2>3 DEF AttemptInStep
      <3>2. ComesTo(s, NotifyIntelDeliveryAttemptCreated(a), NotifyIntelDeliveryAttemptStatusUpdated(a), a, mirror.attempts)
                <=> owned.attempt[a] = "active"
        BY <2>2, <3>1, InStepInTheEnd
      <3> QED
        BY <2>3, <3>2 DEF InTheEnd, ComesTo
    <2> QED
      BY <2>4, <2>5
  <1>3. ASSUME NEW k \in MirrorKeys \ redone, mirrorEvents[k] # <<>>, Refuses(mirror, k, Head(mirrorEvents[k]))
        PROVE  ~mirror.intel /\ mirrorEvents[TheIntel] # <<>>
    <2>1. CASE k = TheIntel
      <3>1. mirrorEvents[k] = <<NotifyIntelCreated>> /\ ~mirror.intel
        BY <1>3, <2>1 DEF MirrorInv, MirrorTypes, IntelOK
      <3> QED
        BY <2>1, <3>1
    <2>2. CASE k \in MirrorDeliveries
      <3>1. PICK s \in Seq(DeliveryEvents(k)), h \in DeliveryEvents(k) : s = mirrorEvents[k] /\ h = Head(s) /\ s # <<>>
        <4>1. mirrorEvents[k] \in Seq(DeliveryEvents(k))
          BY <2>2 DEF MirrorInv, MirrorTypes
        <4> QED
          BY <1>3, <4>1, HeadTailProperties, EmptySeq
      <3>2. DeliveryInStep(k) /\ \A a \in AttemptsOf(k) : AttemptInStep(k, a)
        BY <1>3, <2>2 DEF MirrorInv, AllInStep
      <3>3. /\ owned.delivery[k] \in MirrorStates /\ \A a \in AttemptsOf(k) : owned.attempt[a] \in MirrorStates
        BY <2>2 DEF MirrorInv, MirrorTypes, OwnedTables, AttemptsOf
      <3>4. (owned.delivery[k] # "none" => mirror.intel \/ mirrorEvents[TheIntel] # <<>>)
            /\ (k \in mirror.deliveries => mirror.intel)
        BY <2>2 DEF MirrorInv, IntelOK
      <3>5. /\ h = NotifyIntelDeliveryCreated => k \notin mirror.deliveries /\ owned.delivery[k] # "none"
            /\ h = NotifyIntelDeliveryStatusUpdated => k \in mirror.deliveries
        <4>1. NotifyIntelDeliveryCreated # NotifyIntelDeliveryStatusUpdated
          BY EventsDiffer
        <4>2. PICK there, state, on, off : /\ state \in MirrorStates /\ there = mirror.deliveries /\ state = owned.delivery[k]
                                           /\ on = NotifyIntelDeliveryCreated /\ off = NotifyIntelDeliveryStatusUpdated
          BY <3>3
        <4>3. InStep(s, on, off, k, there, state)
          BY <3>1, <3>2, <4>2 DEF DeliveryInStep
        <4> QED
          BY <3>1, <4>1, <4>2, <4>3, InStepHead
      <3>6. ASSUME NEW a \in AttemptsOf(k)
            PROVE  /\ h = NotifyIntelDeliveryAttemptCreated(a) => a \notin mirror.attempts
                   /\ h = NotifyIntelDeliveryAttemptStatusUpdated(a) => a \in mirror.attempts
        <4>1. NotifyIntelDeliveryAttemptCreated(a) # NotifyIntelDeliveryAttemptStatusUpdated(a)
          BY EventsDiffer
        <4>2. PICK there, state, on, off : /\ state \in MirrorStates /\ there = mirror.attempts /\ state = owned.attempt[a]
                                           /\ on = NotifyIntelDeliveryAttemptCreated(a)
                                           /\ off = NotifyIntelDeliveryAttemptStatusUpdated(a)
          BY <3>3
        <4>3. InStep(s, on, off, a, there, state)
          BY <3>1, <3>2, <4>2 DEF AttemptInStep
        <4> QED
          BY <3>1, <4>1, <4>2, <4>3, InStepHead
      <3>7. Refuses(mirror, k, h)
        BY <1>3, <3>1
      <3>8. CASE h = NotifyIntelDeliveryCreated
        BY <3>4, <3>5, <3>7, <3>8 DEF Refuses, NotifyIntelDeliveryCreated
      <3>9. CASE h = NotifyIntelDeliveryStatusUpdated
        BY <3>4, <3>5, <3>7, <3>9 DEF Refuses, OperationKnown, NotifyIntelDeliveryStatusUpdated
      <3>10. ASSUME NEW a \in AttemptsOf(k), h = NotifyIntelDeliveryAttemptCreated(a) PROVE FALSE
        BY <3>6, <3>7, <3>10 DEF Refuses, NotifyIntelDeliveryAttemptCreated
      <3>11. ASSUME NEW a \in AttemptsOf(k), h = NotifyIntelDeliveryAttemptStatusUpdated(a) PROVE FALSE
        BY <3>6, <3>7, <3>11 DEF Refuses, NotifyIntelDeliveryAttemptStatusUpdated
      <3> QED
        BY <2>2, <3>8, <3>9, <3>10, <3>11, DeliveryEventKinds
    <2>3. CASE k \in MirrorEntries
      <3>1. mirrorEvents[k] \in Seq(AutoEvents)
        BY <2>3 DEF MirrorInv, MirrorTypes
      <3>2. Head(mirrorEvents[k]) \in AutoEvents
        BY <1>3, <3>1, HeadTailProperties, EmptySeq
      <3> QED
        BY <1>3, <3>2 DEF Refuses, AutoEvents
    <2> QED
      BY <2>1, <2>2, <2>3 DEF MirrorKeys
  <1>4. DeliveriesFollow
    BY <1>2, <1>3 DEF DeliveriesFollow
  <1> QED
    BY <1>1, <1>4 DEF MirrorInv, MirrorFollows

\* The mirror of the open-intel-delivery notifier follows logistics-svc: the events of a delivery that are still to
\* be handled bring the mirror to what logistics-svc has, no handler refuses one but for an intel that is not known
\* yet, the auto-delivery list follows where nothing was told or handled twice, and the watcher of the operation was
\* last woken with the deliveries that are open now.
THEOREM MirrorFollowsCorrect ==
  ASSUME DeliveryMirrorAssumption
  PROVE  MirrorSpec => [](MirrorTypeOK /\ MirrorFollows)
  <1>1. MirrorInit => MirrorInv
    BY MirrorInvInit
  <1>2. MirrorInv /\ [MirrorNext]_mirrorVars => MirrorInv'
    BY MirrorInvNext
  <1>3. MirrorInv => MirrorTypeOK /\ MirrorFollows
    BY MirrorInvFollows
  <1> QED
    BY <1>1, <1>2, <1>3, PTL DEF MirrorSpec
-----------------------------------------------------------------------------
(* All of them.                                                            *)

concurrentVars == <<part, outboxVars, autoVars, userVars, opVars, groupVars, sessionVars, grantVars, mirrorVars>>

ConcurrentInv == /\ part \in Parts
                 /\ OutboxTypeOK /\ LockInv /\ AutoInv /\ AdminInv /\ CopyInv /\ OpInv /\ GroupInv /\ ToldInv
                 /\ SessionInv /\ GrantInv /\ MirrorInv

\* A step of the whole is one of a part.
LEMMA PartsStep ==
  [Next]_concurrentVars => /\ UNCHANGED part
                           /\ [OutboxNext]_outboxVars
                           /\ [AutoNext]_autoVars
                           /\ [UserNext]_userVars
                           /\ [OpNext]_opVars
                           /\ [GroupNext]_groupVars
                           /\ [SessionNext]_sessionVars
                           /\ [GrantNext]_grantVars
                           /\ [MirrorNext]_mirrorVars
  BY DEF Next, concurrentVars

\* The invariants of the parts hold side by side.
LEMMA ConcurrentInvariant == Init /\ [][Next]_concurrentVars => []ConcurrentInv
  <1> USE UserConstants, GroupConstants, DeliveryMirrorAssumption
  <1>1. Init => ConcurrentInv
    BY TypeInit, LockInit, AutoInvInit, AdminInvInit, CopyInvInit, OpInvInit, GroupInvInit, ToldInvInit, SessionInvInit,
       GrantInvInit, MirrorInvInit
    DEF Init, ConcurrentInv
  <1>2. ConcurrentInv /\ [Next]_concurrentVars => ConcurrentInv'
    <2> SUFFICES ASSUME ConcurrentInv, [Next]_concurrentVars PROVE ConcurrentInv'
      OBVIOUS
    <2>1. part' \in Parts /\ OutboxTypeOK' /\ LockInv' /\ AutoInv' /\ OpInv'
      BY PartsStep, LockNextStep, AutoInvNext, OpInvNext DEF ConcurrentInv
    <2>2. AdminInv' /\ CopyInv' /\ SessionInv' /\ GrantInv'
      BY PartsStep, AdminInvNext, CopyInvNext, SessionInvNext, GrantInvNext DEF ConcurrentInv
    <2>3. GroupInv' /\ ToldInv'
      <3>1. GroupInv'
        BY PartsStep, GroupInvNext DEF ConcurrentInv
      <3> QED
        BY <3>1, PartsStep, ToldInvNext DEF ConcurrentInv
    <2>4. MirrorInv'
      BY PartsStep, MirrorInvNext DEF ConcurrentInv
    <2> QED
      BY <2>1, <2>2, <2>3, <2>4 DEF ConcurrentInv
  <1> QED
    BY <1>1, <1>2, PTL

\* Tables, requests, events and copies of all these components have their types.
THEOREM ConcurrentTypesCorrect == Init /\ [][Next]_concurrentVars => []TypesOK
  <1>1. ConcurrentInv => TypesOK
    BY CopyInvFollows, OpInvFollows, ToldInvFollows, GrantInvTypes, MirrorInvFollows, DeliveryMirrorAssumption
    DEF ConcurrentInv, TypesOK, Parts, AutoInv, SessionInv
  <1> QED
    BY <1>1, ConcurrentInvariant, PTL

\* Every service that keeps copies of accounts, operations, groups, permissions or deliveries gets to know every
\* change of what it keeps, in the order of the commits.
THEOREM CopiesFollowOwnersCorrect == Init /\ [][Next]_concurrentVars => []CopiesFollowOwners
  <1>1. ConcurrentInv => CopiesFollowOwners
    BY CopyInvFollows, OpInvFollows, ToldInvFollows, MirrorInvFollows, DeliveryMirrorAssumption
    DEF ConcurrentInv, CopiesFollowOwners, Parts, OpInv, GrantInv
  <1> QED
    BY <1>1, ConcurrentInvariant, PTL
=============================================================================
