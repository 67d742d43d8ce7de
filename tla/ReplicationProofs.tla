-------------------------- MODULE ReplicationProofs --------------------------
(***************************************************************************)
(* What follows others, for any number of documents, transactions and     *)
(* instances: the documents of the address book and of intel follow their  *)
(* tables, and the index follows the actions that carry them.  The inbox,  *)
(* which is part of the same instance for TLC, is in module InboxProofs.   *)
(***************************************************************************)
EXTENDS MCReplication, InboxProofs

-----------------------------------------------------------------------------
(* The address book.                                                       *)

BookChange ==
    {EntryChange(e, row) : e \in BookEntries, row \in EntryRow \cup {RemovedEntry}}
        \cup {UserChange(u, active) : u \in BookUsers, active \in BOOLEAN}
        \cup {OperationChange(o, archived) : o \in BookOps, archived \in BOOLEAN}
        \cup {MembersChange(o, members) : o \in BookOps, members \in SUBSET BookUsers}
        
BookTables == [entry : [BookEntries -> EntryRow \cup {NoEntry, RemovedEntry}], active : [BookUsers -> BOOLEAN],
               archived : [BookOps -> BOOLEAN], members : [BookOps -> SUBSET BookUsers]]

DocumentsAfter(b, c) ==
    [e \in Refreshed(b, c) |-> documentFromAddressBookEntryByID(Changed(b, c), e)]

\* What running transactions are going to write; the documents of those that nothing has overtaken are
\* made from the tables as they are.
BookTxInv(tx) ==
    /\ tx \in [pc : {"idle", "checked", "write"}, change : BookChange \cup {UserChange(None, None)},
               docs : UNION {[S -> EntryDocument \cup {NoEntry}] : S \in SUBSET BookEntries}, alone : BOOLEAN]
    /\ tx.pc # "idle" => tx.change \in BookChange
    /\ tx.pc = "checked" => tx.change.kind = "entry"
    /\ tx.pc = "write" /\ tx.alone => tx.docs = DocumentsAfter(book, tx.change)
BookInv ==
    /\ book \in BookTables
    /\ missed \subseteq BookEntries
    /\ entryDoc \in [BookEntries -> EntryDocument \cup {NoEntry}]
    /\ DOMAIN bookTx = BookTxs
    /\ \A r \in BookTxs : BookTxInv(bookTx[r])
    /\ DocumentsAreCurrent

\* There is a document exactly if there is an entry.
LEMMA DocumentTyped ==
  ASSUME NEW b \in BookTables, NEW e \in BookEntries
  PROVE  IF b.entry[e] \in EntryRow
         THEN documentFromAddressBookEntryByID(b, e) \in EntryDocument
         ELSE documentFromAddressBookEntryByID(b, e) = NoEntry
  BY DEF BookTables, documentFromAddressBookEntryByID, documentFromAddressBookEntry, EntryDocument, EntryRow,
         visibleByForUser

\* The engine makes a document of a document.
LEMMA UpdateTyped ==
  ASSUME NEW old \in EntryDocument \cup {NoEntry}, NEW new \in EntryDocument \cup {NoEntry}
  PROVE  UpdateDocuments(old, new) \in EntryDocument \cup {NoEntry}
  BY DEF UpdateDocuments, documentFromAddressBookEntry, EntryDocument, EntryRow

\* Updating once more changes nothing: what UpdateDocuments writes is current, as is the document itself.
LEMMA UpdatedTwice ==
  ASSUME NEW old \in EntryDocument \cup {NoEntry}, NEW new \in EntryDocument \cup {NoEntry}
  PROVE  IsCurrent(UpdateDocuments(old, new), new) /\ IsCurrent(new, new)
  <1>1. CASE new = NoEntry
    BY <1>1 DEF IsCurrent, UpdateDocuments
  <1>2. CASE new # NoEntry
    <2>1. /\ new \in EntryDocument
          /\ new.row = [user |-> new.row.user, op |-> new.row.op]
      BY <1>2 DEF EntryDocument, EntryRow
    <2>2. new = documentFromAddressBookEntry(new.row, new.active, new.visibleBy, new.archived)
      BY <2>1 DEF EntryDocument, documentFromAddressBookEntry
    <2>3. IsCurrent(new, new)
      BY <1>2, <2>1, <2>2 DEF IsCurrent, UpdateDocuments
    <2>4. CASE old = NoEntry
      BY <2>3, <2>4 DEF UpdateDocuments
    <2>5. ASSUME old # NoEntry PROVE IsCurrent(UpdateDocuments(old, new), new)
      <3> DEFINE user == IF new.row.user = None THEN old ELSE new
                 op == IF new.row.op = None THEN old ELSE new
                 both == UpdateDocuments(old, new)
      <3>1. both = [row |-> [user |-> user.row.user, op |-> op.row.op], active |-> user.active,
                    visibleBy |-> user.visibleBy, archived |-> op.archived]
        BY <1>2, <2>5 DEF UpdateDocuments, documentFromAddressBookEntry
      <3>2. both \in EntryDocument
        BY <2>1, <2>5, <3>1 DEF EntryDocument, EntryRow
      <3>3. both # NoEntry
        BY <3>2, BookConstants
      <3>4. UpdateDocuments(both, new) = [row |-> [user |-> user.row.user, op |-> op.row.op], active |-> user.active,
                    visibleBy |-> user.visibleBy, archived |-> op.archived]
        BY <1>2, <3>1, <3>3 DEF UpdateDocuments, documentFromAddressBookEntry
      <3> QED
        BY <3>1, <3>4 DEF IsCurrent
    <2> QED
      BY <2>3, <2>4, <2>5
  <1> QED
    BY <1>1, <1>2

\* A change keeps the types of the tables.
LEMMA ChangedTables ==
  ASSUME NEW c \in BookChange, NEW b \in BookTables
  PROVE  Changed(b, c) \in BookTables
  BY DEF BookChange, BookTables, Changed, EntryChange, UserChange, OperationChange, MembersChange

\* Only entries are refreshed.
LEMMA RefreshedAreEntries ==
  ASSUME NEW c \in BookChange, NEW b \in BookTables
  PROVE  Refreshed(b, c) \subseteq BookEntries
  BY DEF BookChange, Refreshed, EntryChange, UserChange, OperationChange, MembersChange,
     RefreshedByUser, RefreshedByMembers, AddressBookEntries, EntriesOf

\* Documents tell nothing of what does not concern them.
LEMMA Unconcerned ==
  ASSUME NEW c \in BookChange, NEW b \in BookTables, NEW e \in BookEntries, e \notin Concerned(b, c)
  PROVE  documentFromAddressBookEntryByID(Changed(b, c), e) = documentFromAddressBookEntryByID(b, e)
  <1>1. ASSUME NEW f \in BookEntries, NEW row \in EntryRow \cup {RemovedEntry}, c = EntryChange(f, row)
        PROVE  documentFromAddressBookEntryByID(Changed(b, c), e) = documentFromAddressBookEntryByID(b, e)
    <2>1. f # e
      BY <1>1 DEF EntryChange, Concerned
    <2> QED
      BY <1>1, <2>1 DEF EntryChange, Changed, documentFromAddressBookEntryByID, BookTables, visibleByForUser
  <1>2. ASSUME NEW u \in BookUsers, NEW active \in BOOLEAN, c = UserChange(u, active)
        PROVE  documentFromAddressBookEntryByID(Changed(b, c), e) = documentFromAddressBookEntryByID(b, e)
    <2>1. b.entry[e] \in EntryRow => b.entry[e].user # u
      BY <1>2 DEF UserChange, Concerned, EntriesOf
    <2> QED
      BY <1>2, <2>1 DEF UserChange, Changed, documentFromAddressBookEntryByID, BookTables, visibleByForUser, EntryRow
  <1>3. ASSUME NEW o \in BookOps, NEW archived \in BOOLEAN, c = OperationChange(o, archived)
        PROVE  documentFromAddressBookEntryByID(Changed(b, c), e) = documentFromAddressBookEntryByID(b, e)
    <2>1. b.entry[e] \in EntryRow => b.entry[e].op # o
      BY <1>3 DEF OperationChange, Concerned, EntriesFor
    <2> QED
      BY <1>3, <2>1 DEF OperationChange, Changed, documentFromAddressBookEntryByID, BookTables, visibleByForUser, EntryRow
  <1>4. ASSUME NEW o \in BookOps, NEW members \in SUBSET BookUsers, c = MembersChange(o, members)
        PROVE  documentFromAddressBookEntryByID(Changed(b, c), e) = documentFromAddressBookEntryByID(b, e)
    <2>1. b.entry[e] \in EntryRow => b.entry[e].user \notin b.members[o] \cup members
      BY <1>4 DEF MembersChange, Concerned, EntriesOf
    <2>2. Changed(b, c) = [b EXCEPT !.members = [b.members EXCEPT ![o] = members]]
      BY <1>4 DEF MembersChange, Changed
    <2>3. ASSUME NEW u \in BookUsers, u \notin b.members[o] \cup members
          PROVE  visibleByForUser(Changed(b, c), u) = visibleByForUser(b, u)
      BY <2>2, <2>3 DEF visibleByForUser, BookTables
    <2> QED
      BY <2>1, <2>2, <2>3 DEF documentFromAddressBookEntryByID, BookTables, EntryRow
  <1> QED
    BY <1>1, <1>2, <1>3, <1>4 DEF BookChange

\* What is not refreshed is left out.
LEMMA RefreshedOrLeftOut ==
  ASSUME NEW c \in BookChange, NEW b \in BookTables
  PROVE  /\ Concerned(b, c) \subseteq Refreshed(b, c) \cup LeftOut(b, c)
         /\ LeftOut(b, c) \cup Concerned(b, c) \subseteq BookEntries
  <1>1. ASSUME NEW f \in BookEntries, NEW row \in EntryRow \cup {RemovedEntry}, c = EntryChange(f, row)
        PROVE  /\ Concerned(b, c) \subseteq Refreshed(b, c) \cup LeftOut(b, c)
               /\ LeftOut(b, c) \cup Concerned(b, c) \subseteq BookEntries
    BY <1>1 DEF EntryChange, Concerned, Refreshed, LeftOut
  <1>2. ASSUME NEW u \in BookUsers, NEW active \in BOOLEAN, c = UserChange(u, active)
        PROVE  /\ Concerned(b, c) \subseteq Refreshed(b, c) \cup LeftOut(b, c)
               /\ LeftOut(b, c) \cup Concerned(b, c) \subseteq BookEntries
    BY <1>2, BookConstants DEF UserChange, Concerned, Refreshed, LeftOut, RefreshedByUser, AddressBookEntries,
       EntriesOf, EntriesFor
  <1>3. ASSUME NEW o \in BookOps, NEW archived \in BOOLEAN, c = OperationChange(o, archived)
        PROVE  /\ Concerned(b, c) \subseteq Refreshed(b, c) \cup LeftOut(b, c)
               /\ LeftOut(b, c) \cup Concerned(b, c) \subseteq BookEntries
    BY <1>3 DEF OperationChange, Concerned, Refreshed, LeftOut, EntriesFor
  <1>4. ASSUME NEW o \in BookOps, NEW members \in SUBSET BookUsers, c = MembersChange(o, members)
        PROVE  /\ Concerned(b, c) \subseteq Refreshed(b, c) \cup LeftOut(b, c)
               /\ LeftOut(b, c) \cup Concerned(b, c) \subseteq BookEntries
    BY <1>4 DEF MembersChange, Concerned, Refreshed, LeftOut, RefreshedByMembers, EntriesOf
  <1> QED
    BY <1>1, <1>2, <1>3, <1>4 DEF BookChange

\* What a transaction is going to write to the index has the types of the index.
LEMMA DocumentsAfterTyped ==
  ASSUME NEW c \in BookChange, NEW b \in BookTables
  PROVE  DocumentsAfter(b, c) \in [Refreshed(b, c) -> EntryDocument \cup {NoEntry}]
  BY ChangedTables, RefreshedAreEntries, DocumentTyped DEF DocumentsAfter

\* Transactions that have written nothing yet.
LEMMA IdleTyped == /\ BookTxInv(IdleBookTx)
                   /\ \A e \in BookEntries, row \in EntryRow \cup {RemovedEntry} :
                          BookTxInv([IdleBookTx EXCEPT !.pc = "checked", !.change = EntryChange(e, row)])
  <1>1. /\ [e \in {} |-> NoEntry] \in [{} -> EntryDocument \cup {NoEntry}]
        /\ {} \in SUBSET BookEntries
    OBVIOUS
  <1>2. [e \in {} |-> NoEntry] \in UNION {[S -> EntryDocument \cup {NoEntry}] : S \in SUBSET BookEntries}
    BY <1>1
  <1>3. \A e \in BookEntries, row \in EntryRow \cup {RemovedEntry} :
           EntryChange(e, row) \in BookChange /\ EntryChange(e, row).kind = "entry"
    BY DEF BookChange, EntryChange
  <1>4. PICK d \in UNION {[S -> EntryDocument \cup {NoEntry}] : S \in SUBSET BookEntries} :
           IdleBookTx = [pc |-> "idle", change |-> UserChange(None, None), docs |-> d, alone |-> FALSE]
    BY <1>2 DEF IdleBookTx
  <1>5. BookTxInv(IdleBookTx)
    BY <1>4 DEF BookTxInv
  <1>6. ASSUME NEW e \in BookEntries, NEW row \in EntryRow \cup {RemovedEntry}
        PROVE  BookTxInv([IdleBookTx EXCEPT !.pc = "checked", !.change = EntryChange(e, row)])
    <2> DEFINE tx == [IdleBookTx EXCEPT !.pc = "checked", !.change = EntryChange(e, row)]
    <2>1. tx.pc = "checked" /\ tx.change = EntryChange(e, row) /\ tx.docs = d /\ tx.alone = FALSE
      BY <1>4
    <2>2. tx \in [pc : {"idle", "checked", "write"}, change : BookChange \cup {UserChange(None, None)},
                  docs : UNION {[S -> EntryDocument \cup {NoEntry}] : S \in SUBSET BookEntries}, alone : BOOLEAN]
      BY <1>3, <1>4
    <2> QED
      BY <1>3, <2>1, <2>2 DEF BookTxInv
  <1> QED
    BY <1>5, <1>6

\* The empty address book.
LEMMA BookInvInit == BookInit => BookInv
  <1> SUFFICES ASSUME BookInit PROVE BookInv
    OBVIOUS
  <1>1. book \in BookTables
    BY DEF BookInit, BookTables
  <1>2. \A r \in BookTxs : BookTxInv(bookTx[r])
    BY IdleTyped DEF BookInit
  <1>3. DocumentsAreCurrent
    BY <1>1, BookConstants, UpdatedTwice DEF DocumentsAreCurrent, BookInit, documentFromAddressBookEntryByID
  <1> QED
    BY <1>1, <1>2, <1>3 DEF BookInv, BookInit

\* Steps that touch neither the tables nor the index.
LEMMA BookInvStepBookTx ==
  ASSUME BookInv, NEW r \in BookTxs, NEW tx, BookTxInv(tx), StepBookTx(r, tx)
  PROVE  BookInv'
  <1>1. \A q \in BookTxs : BookTxInv(bookTx'[q])
    BY DEF BookInv, StepBookTx
  <1>2. \A q \in BookTxs : BookTxInv(bookTx[q])'
    BY <1>1 DEF BookTxInv, StepBookTx
  <1> QED
    BY <1>2 DEF BookInv, StepBookTx, DocumentsAreCurrent

\* A transaction that writes makes its documents from the tables as they are.
LEMMA BookInvWrite ==
  ASSUME BookInv, NEW r \in BookTxs, NEW c \in BookChange, Write(r, c)
  PROVE  BookInv'
  <1> DEFINE tx == [pc |-> "write", change |-> c, alone |-> TRUE, docs |-> DocumentsAfter(book, c)]
  <1>1. BookTxInv(tx)
    <2>1. book \in BookTables
      BY DEF BookInv
    <2>2. DocumentsAfter(book, c) \in UNION {[S -> EntryDocument \cup {NoEntry}] : S \in SUBSET BookEntries}
      BY <2>1, DocumentsAfterTyped, RefreshedAreEntries
    <2> QED
      BY <2>2 DEF BookTxInv
  <1>2. StepBookTx(r, tx)
    BY DEF Write, DocumentsAfter
  <1> QED
    BY <1>1, <1>2, BookInvStepBookTx

\* Committing, alone or after others: what is refreshed is current, what does not concern the change still is.
LEMMA BookInvCommit ==
  ASSUME BookInv, NEW r \in BookTxs, CommitBookTx(r)
  PROVE  BookInv'
  <1> DEFINE c == bookTx[r].change
             docs == bookTx[r].docs
  <1>1. /\ book \in BookTables
        /\ c \in BookChange
        /\ docs \in [DOMAIN docs -> EntryDocument \cup {NoEntry}]
        /\ DOMAIN docs \subseteq BookEntries
        /\ missed \subseteq BookEntries
        /\ entryDoc \in [BookEntries -> EntryDocument \cup {NoEntry}]
    BY DEF BookInv, BookTxInv, CommitBookTx
  <1>2. /\ book' = Changed(book, c)
        /\ book' \in BookTables
    BY <1>1, ChangedTables DEF CommitBookTx
  <1>3. entryDoc' \in [BookEntries -> EntryDocument \cup {NoEntry}]
    BY <1>1, UpdateTyped DEF CommitBookTx
  <1>4. missed' \subseteq BookEntries
    BY <1>1, RefreshedOrLeftOut DEF CommitBookTx
  <1>5. \A q \in BookTxs : BookTxInv(bookTx[q])'
    <2> SUFFICES ASSUME NEW q \in BookTxs PROVE BookTxInv(bookTx[q])'
      OBVIOUS
    <2>1. CASE q = r
      <3>1. bookTx'[q] = IdleBookTx
        BY <2>1 DEF CommitBookTx
      <3>2. bookTx'[q].pc = "idle"
        BY <3>1 DEF IdleBookTx
      <3> QED
        BY <3>1, <3>2, IdleTyped DEF BookTxInv
    <2>2. CASE q # r
      <3>1. BookTxInv(bookTx[q])
        BY DEF BookInv
      <3>2. bookTx'[q] = [bookTx[q] EXCEPT !.alone = FALSE]
        BY <2>2, <3>1 DEF CommitBookTx, BookTxInv
      <3> QED
        BY <3>1, <3>2 DEF BookTxInv
    <2> QED
      BY <2>1, <2>2
  <1>6. ASSUME NEW e \in BookEntries, e \notin missed'
        PROVE  IsCurrent(entryDoc'[e], documentFromAddressBookEntryByID(book', e))
    <2>1. documentFromAddressBookEntryByID(book', e) \in EntryDocument \cup {NoEntry}
      BY <1>2, DocumentTyped
    <2>2. CASE e \in DOMAIN docs
      <3>1. bookTx[r].alone /\ docs = DocumentsAfter(book, c)
        BY <1>6, <2>2 DEF CommitBookTx, BookInv, BookTxInv
      <3>2. docs[e] = documentFromAddressBookEntryByID(book', e)
        BY <1>2, <2>2, <3>1 DEF DocumentsAfter
      <3>3. entryDoc'[e] = UpdateDocuments(entryDoc[e], docs[e])
        BY <2>2 DEF CommitBookTx
      <3> QED
        BY <1>1, <2>1, <3>2, <3>3, UpdatedTwice
    <2>3. CASE e \notin DOMAIN docs
      <3>1. e \notin missed /\ e \notin Concerned(book, c)
        <4>1. CASE bookTx[r].alone
          <5>1. docs = DocumentsAfter(book, c)
            BY <4>1 DEF CommitBookTx, BookInv, BookTxInv
          <5>2. e \notin Refreshed(book, c)
            BY <2>3, <5>1 DEF DocumentsAfter
          <5> QED
            BY <1>1, <1>6, <2>3, <4>1, <5>2, RefreshedOrLeftOut DEF CommitBookTx
        <4>2. CASE ~bookTx[r].alone
          BY <1>6, <4>2 DEF CommitBookTx
        <4> QED
          BY <4>1, <4>2
      <3>2. documentFromAddressBookEntryByID(book', e) = documentFromAddressBookEntryByID(book, e)
        BY <1>1, <1>2, <3>1, Unconcerned
      <3>3. entryDoc'[e] = entryDoc[e]
        BY <2>3 DEF CommitBookTx
      <3> QED
        BY <3>1, <3>2, <3>3 DEF BookInv, DocumentsAreCurrent
    <2> QED
      BY <2>2, <2>3
  <1>7. DOMAIN bookTx' = BookTxs
    BY DEF CommitBookTx
  <1> QED
    BY <1>2, <1>3, <1>4, <1>5, <1>6, <1>7 DEF BookInv, DocumentsAreCurrent

\* Every step of requests and handlers keeps the invariant.
LEMMA BookInvNext == BookInv /\ [BookNext]_bookVars => BookInv'
  <1> SUFFICES ASSUME BookInv, [BookNext]_bookVars PROVE BookInv'
    OBVIOUS
  <1>1. BookTxInv(IdleBookTx)
    BY IdleTyped
  <1>2. ASSUME NEW r \in BookTxs, NEW e \in BookEntries, NEW row \in EntryRow \cup {RemovedEntry}, NEW limitToUser,
               CheckEntry(r, e, row, limitToUser)
        PROVE  BookInv'
    <2>1. BookTxInv([IdleBookTx EXCEPT !.pc = "checked", !.change = EntryChange(e, row)])
      BY IdleTyped
    <2> QED
      BY <1>2, <2>1, BookInvStepBookTx DEF CheckEntry
  <1>3. ASSUME NEW caller \in BookCallers, NEW e \in BookEntries, NEW r \in BookRequests
        PROVE  /\ \A row \in BookRows : /\ handleCreateAddressBookEntry(caller, r, e, row) => BookInv'
                                        /\ handleUpdateAddressBookEntry(caller, r, e, row) => BookInv'
               /\ handleDeleteAddressBookEntryByID(caller, r, e) => BookInv'
    <2>1. ASSUME NEW row \in BookRows
          PROVE  EntryChange(e, row) \in BookChange /\ row \in EntryRow
      BY BookConstants DEF BookChange
    <2>2. r \in BookTxs
      BY DEF BookTxs
    <2> QED
      BY <1>2, <2>1, <2>2, BookInvWrite DEF handleCreateAddressBookEntry, CreateAddressBookEntry,
         handleUpdateAddressBookEntry, UpdateAddressBookEntry, handleDeleteAddressBookEntryByID, DeleteAddressBookEntry
  <1>4. ASSUME NEW caller \in BookCallers, handleRebuildAddressBookEntrySearch(caller)
        PROVE  BookInv'
    <2>1. /\ entryDoc' = [e \in BookEntries |-> documentFromAddressBookEntryByID(book, e)]
          /\ missed' = {}
          /\ UNCHANGED <<book, bookTx>>
      BY <1>4 DEF handleRebuildAddressBookEntrySearch, RebuildAddressBookEntrySearch
    <2>2. book \in BookTables
      BY DEF BookInv
    <2>3. \A e \in BookEntries : documentFromAddressBookEntryByID(book, e) \in EntryDocument \cup {NoEntry}
      BY <2>2, DocumentTyped
    <2>4. \A r \in BookTxs : BookTxInv(bookTx[r])'
      BY <2>1 DEF BookInv, BookTxInv
    <2>5. DocumentsAreCurrent'
      BY <2>1, <2>3, UpdatedTwice DEF DocumentsAreCurrent
    <2> QED
      BY <2>1, <2>3, <2>4, <2>5 DEF BookInv
  <1>5. ASSUME NEW r \in BookHandlers
        PROVE  /\ \A u \in {row.user : row \in BookRows} \ {None}, active \in BOOLEAN : UpdateUser(r, u, active) => BookInv'
               /\ \A o \in BookOps, archived \in BOOLEAN : UpdateOperation(r, o, archived) => BookInv'
               /\ \A o \in BookOps, members \in SUBSET BookUsers :
                      UpdateOperationMembersByOperation(r, o, members) => BookInv'
    <2>1. {row.user : row \in BookRows} \ {None} \subseteq BookUsers
      BY BookConstants DEF EntryRow
    <2>2. r \in BookTxs
      BY DEF BookTxs
    <2>3. /\ \A u \in BookUsers, active \in BOOLEAN : UserChange(u, active) \in BookChange
          /\ \A o \in BookOps, archived \in BOOLEAN : OperationChange(o, archived) \in BookChange
          /\ \A o \in BookOps, members \in SUBSET BookUsers : MembersChange(o, members) \in BookChange
      BY DEF BookChange
    <2> QED
      BY <2>1, <2>2, <2>3, BookInvWrite DEF UpdateUser, UpdateOperation, UpdateOperationMembersByOperation
  <1>6. ASSUME NEW r \in BookTxs, WriteEntry(r)
        PROVE  BookInv'
    BY <1>6, BookInvWrite DEF WriteEntry, BookInv, BookTxInv
  <1>7. ASSUME NEW r \in BookTxs, AbortBookTx(r)
        PROVE  BookInv'
    BY <1>1, <1>7, BookInvStepBookTx DEF AbortBookTx
  <1>8. CASE UNCHANGED bookVars
    BY <1>8 DEF bookVars, BookInv, BookTxInv, DocumentsAreCurrent
  <1> QED
    BY <1>3, <1>4, <1>5, <1>6, <1>7, <1>8, BookInvCommit DEF BookNext

\* The invariant of the address book holds for all entries, users, operations and transactions.
THEOREM BookInvariant == BookSpec => []BookInv
  BY BookInvInit, BookInvNext, PTL DEF BookSpec

\* Documents of entries tell what the tables do, for any number of transactions at a time, but for what
\* missed lists.
THEOREM DocumentsAreCurrentCorrect == BookSpec => []DocumentsAreCurrent
  <1>1. BookInv => DocumentsAreCurrent
    BY DEF BookInv
  <1> QED
    BY <1>1, BookInvariant, PTL

\* A document that is current is there if, and only if, the entry is, and tells of its user.
LEMMA CurrentDocument ==
  ASSUME BookInv, NEW e \in BookEntries, e \notin missed
  PROVE  /\ entryDoc[e] # NoEntry <=> book.entry[e] \in EntryRow
         /\ book.entry[e] \in EntryRow /\ book.entry[e].user # None =>
                /\ entryDoc[e].row.user = book.entry[e].user
                /\ entryDoc[e].active = book.active[book.entry[e].user]
                /\ entryDoc[e].visibleBy = visibleByForUser(book, book.entry[e].user)
  <1> DEFINE new == documentFromAddressBookEntryByID(book, e)
  <1>1. entryDoc[e] = UpdateDocuments(entryDoc[e], new)
    BY DEF BookInv, DocumentsAreCurrent, IsCurrent
  <1>2. CASE book.entry[e] \notin EntryRow
    BY <1>1, <1>2 DEF documentFromAddressBookEntryByID, UpdateDocuments
  <1>3. CASE book.entry[e] \in EntryRow
    <2>1. new \in EntryDocument /\ new # NoEntry
      BY <1>3, DocumentTyped, BookConstants DEF BookInv
    <2>2. entryDoc[e] # NoEntry
      BY <1>1, <2>1 DEF UpdateDocuments
    <2>3. ASSUME book.entry[e].user # None
          PROVE  /\ new.row.user = book.entry[e].user
                 /\ new.active = book.active[book.entry[e].user]
                 /\ new.visibleBy = visibleByForUser(book, book.entry[e].user)
      BY <1>3, <2>3 DEF documentFromAddressBookEntryByID, documentFromAddressBookEntry
    <2> QED
      BY <1>1, <1>3, <2>1, <2>2, <2>3 DEF UpdateDocuments, documentFromAddressBookEntry
  <1> QED
    BY <1>2, <1>3

\* Tables, documents and transactions have their types.
LEMMA BookInvTypes == BookInv => BookTypeOK
  BY DEF BookInv, BookTypeOK, BookTables, BookTxInv

\* Entries, documents and transactions of the address book stay well typed.
THEOREM BookTypesCorrect == BookSpec => []BookTypeOK
  BY BookInvTypes, BookInvariant, PTL

\* Who is shown an entry while documents are current.
LEMMA BookInvViews == BookInv => ViewsAgree
  <1> SUFFICES ASSUME BookInv PROVE ViewsAgree
    OBVIOUS
  <1> SUFFICES ASSUME NEW caller \in BookCallers, NEW f \in FiltersFromQuery(VisibleBy(caller))
               PROVE  LET listed == handleGetAllAddressBookEntries(f)
                          own == EntriesOf(book, {None} \cup (IF caller.any THEN {} ELSE {caller.user}))
                      IN  /\ handleSearchAddressBookEntries(f) \ (own \cup missed) = listed \ (own \cup missed)
                          /\ f.byUser = None /\ f.inactive =>
                                 listed = {e \in BookEntries : handleGetAddressBookEntryByID(caller, e)}
    BY DEF ViewsAgree
  <1> DEFINE own == EntriesOf(book, {None} \cup (IF caller.any THEN {} ELSE {caller.user}))
             by == VisibleBy(caller)
  <1>1. /\ f.byUser \in BookUsers \cup {None}
        /\ f.forOperation = None
        /\ f.excludeGlobal = FALSE
        /\ f.visibleBy = by
        /\ f.inactive \in BOOLEAN
    BY DEF FiltersFromQuery
  <1>2. /\ by \in BookUsers \cup {None}
        /\ by = None <=> caller.any
        /\ by # None => by = caller.user
        /\ None \notin BookUsers
    BY BookConstants DEF VisibleBy
  <1>3. book \in BookTables
    BY DEF BookInv
  <1>4. ASSUME NEW e \in BookEntries, e \notin own, e \notin missed
        PROVE  e \in SearchAddressBookEntries(entryDoc, f) <=> e \in AddressBookEntries(book, f)
    <2>1. CASE book.entry[e] \notin EntryRow
      BY <1>4, <2>1, CurrentDocument DEF SearchAddressBookEntries, AddressBookEntries
    <2>2. CASE book.entry[e] \in EntryRow
      <3> DEFINE u == book.entry[e].user
      <3>1. /\ u \in BookUsers
            /\ u # None
            /\ by # u
        BY <1>2, <1>4, <2>2 DEF EntriesOf, EntryRow
      <3>2. /\ entryDoc[e] # NoEntry
            /\ entryDoc[e].row.user = u
            /\ entryDoc[e].active = book.active[u]
            /\ entryDoc[e].visibleBy = visibleByForUser(book, u)
        BY <1>4, <2>2, <3>1, CurrentDocument
      <3>3. by # None => (by \in visibleByForUser(book, u) <=> \E o \in BookOps : {by, u} \subseteq book.members[o])
        BY <1>2, <3>1 DEF visibleByForUser
      <3>4. book.active[u] \in BOOLEAN
        BY <1>3, <3>1 DEF BookTables
      <3>5. e \in SearchAddressBookEntries(entryDoc, f) <=>
               /\ f.byUser # None => u = f.byUser
               /\ by # None => by \in visibleByForUser(book, u)
               /\ ~f.inactive => book.active[u] = TRUE
        BY <1>1, <3>1, <3>2 DEF SearchAddressBookEntries
      <3>6. e \in AddressBookEntries(book, f) <=>
               /\ f.byUser # None => u = f.byUser
               /\ by # None => \E o \in BookOps : {by, u} \subseteq book.members[o]
               /\ ~f.inactive => book.active[u]
        BY <1>1, <2>2, <3>1 DEF AddressBookEntries
      <3> QED
        BY <3>3, <3>4, <3>5, <3>6
    <2> QED
      BY <2>1, <2>2
  <1>5. /\ SearchAddressBookEntries(entryDoc, f) \subseteq BookEntries
        /\ AddressBookEntries(book, f) \subseteq BookEntries
    BY DEF SearchAddressBookEntries, AddressBookEntries
  <1>6. handleSearchAddressBookEntries(f) \ (own \cup missed) = handleGetAllAddressBookEntries(f) \ (own \cup missed)
    BY <1>4, <1>5 DEF handleSearchAddressBookEntries, handleGetAllAddressBookEntries
  <1>7. ASSUME f.byUser = None, f.inactive, NEW e \in BookEntries
        PROVE  e \in AddressBookEntries(book, f) <=> handleGetAddressBookEntryByID(caller, e)
    BY <1>1, <1>7 DEF AddressBookEntries, handleGetAddressBookEntryByID, EntryByIDFound, isUserVisibleBy
  <1> QED
    BY <1>5, <1>6, <1>7 DEF handleGetAllAddressBookEntries

\* One entry, the list and the search agree on who sees what.
THEOREM ViewsAgreeCorrect == BookSpec => []ViewsAgree
  BY BookInvViews, BookInvariant, PTL
-----------------------------------------------------------------------------
(* Intel.                                                                  *)

Statuses == {"none", "active", "failure", "success"}
IntelTables == [valid : [IntelIDs -> BOOLEAN \cup {NoIntel}], delivery : [Pairs -> Statuses],
                owner : [IntelEntries -> IntelUsers \cup {NoOwner, GoneEntry}]]
IntelChanges == [valid : UNION {[S -> BOOLEAN] : S \in SUBSET IntelIDs},
                 delivery : UNION {[S -> Statuses] : S \in SUBSET Pairs},
                 owner : UNION {[S -> IntelUsers \cup {GoneEntry}] : S \in SUBSET IntelEntries}]
IntelTxType == [pc : {"idle", "write"}, change : IntelChanges,
                docs : UNION {[S -> IntelDocument \cup {NoIntel}] : S \in SUBSET IntelIDs}, alone : BOOLEAN]

\* What a running transaction is going to write to the index tells of nothing that it leaves alone, and, when nothing
\* has overtaken it, is what the tables will be.
IntelTxInv(tx) ==
    /\ tx \in IntelTxType
    /\ DOMAIN tx.docs \subseteq Affected(tx.change)
    /\ tx.pc = "write" /\ tx.alone => tx.docs = Documents(intelDB, tx.change, DOMAIN tx.docs)
IntelInv ==
    /\ intelDB \in IntelTables
    /\ unrefreshed \subseteq IntelIDs
    /\ intelDoc \in [IntelIDs -> IntelDocument \cup {NoIntel}]
    /\ DOMAIN intelTx = IntelTxs
    /\ \A r \in IntelTxs : IntelTxInv(intelTx[r])
    /\ IntelDocumentsAreCurrent

\* Rows set by a change, over those there are.
LEMMA Overridden ==
  ASSUME NEW T, NEW X, NEW g \in [X -> T], NEW f \in UNION {[S -> T] : S \in SUBSET X}
  PROVE  /\ Over(f, g) \in [X -> T]
         /\ \A x \in X : Over(f, g)[x] = IF x \in DOMAIN f THEN f[x] ELSE g[x]
  BY DEF Over

\* A change keeps the types of the tables, and all it says nothing of.
LEMMA AppliedTables ==
  ASSUME NEW db \in IntelTables, NEW c \in IntelChanges
  PROVE  /\ Applied(db, c) \in IntelTables
         /\ \A i \in IntelIDs : i \notin Affected(c) => 
               /\ Applied(db, c).valid[i] = db.valid[i]
               /\ \A e \in IntelEntries : Applied(db, c).delivery[<<i, e>>] = db.delivery[<<i, e>>]
  <1>1. /\ db.valid \in [IntelIDs -> BOOLEAN \cup {NoIntel}]
        /\ db.delivery \in [Pairs -> Statuses]
        /\ db.owner \in [IntelEntries -> IntelUsers \cup {NoOwner, GoneEntry}]
    BY DEF IntelTables
  <1>2. /\ c.valid \in UNION {[S -> BOOLEAN \cup {NoIntel}] : S \in SUBSET IntelIDs}
        /\ c.delivery \in UNION {[S -> Statuses] : S \in SUBSET Pairs}
        /\ c.owner \in UNION {[S -> IntelUsers \cup {NoOwner, GoneEntry}] : S \in SUBSET IntelEntries}
    BY DEF IntelChanges
  <1>3. /\ Over(c.valid, db.valid) \in [IntelIDs -> BOOLEAN \cup {NoIntel}]
        /\ \A i \in IntelIDs : i \notin DOMAIN c.valid => Over(c.valid, db.valid)[i] = db.valid[i]
    BY <1>1, <1>2 DEF Over
  <1>4. /\ Over(c.delivery, db.delivery) \in [Pairs -> Statuses]
        /\ \A p \in Pairs : p \notin DOMAIN c.delivery => Over(c.delivery, db.delivery)[p] = db.delivery[p]
    BY <1>1, <1>2 DEF Over
  <1>5. Over(c.owner, db.owner) \in [IntelEntries -> IntelUsers \cup {NoOwner, GoneEntry}]
    BY <1>1, <1>2, Overridden
  <1>6. ASSUME NEW i \in IntelIDs, NEW e \in IntelEntries, i \notin Affected(c)
        PROVE  <<i, e>> \in Pairs /\ <<i, e>> \notin DOMAIN c.delivery
    BY <1>6 DEF Pairs, Affected
  <1>7. \A i \in IntelIDs : i \notin Affected(c) => i \notin DOMAIN c.valid
    BY DEF Affected
  <1> QED
    BY <1>3, <1>4, <1>5, <1>6, <1>7 DEF Applied, IntelTables

\* There is a document exactly if there is an intel.
LEMMA IntelDocumentTyped ==
  ASSUME NEW db \in IntelTables, NEW i \in IntelIDs
  PROVE  IF db.valid[i] = NoIntel THEN documentFromIntelByID(db, i) = NoIntel
         ELSE documentFromIntelByID(db, i) \in IntelDocument /\ documentFromIntelByID(db, i) # NoIntel
  <1>1. db.valid[i] \in BOOLEAN \cup {NoIntel}
    BY DEF IntelTables
  <1>2. db.valid[i] # NoIntel => documentFromIntelByID(db, i) \in IntelDocument
    BY <1>1 DEF documentFromIntelByID, IntelDocument
  <1>3. NoIntel \notin IntelDocument
    BY IntelConstants
  <1>4. db.valid[i] = NoIntel => documentFromIntelByID(db, i) = NoIntel
    BY DEF documentFromIntelByID
  <1> QED
    BY <1>2, <1>3, <1>4

\* Documents tell nothing of what a change leaves alone, and nothing of who owns the entries.
LEMMA SameDocument ==
  ASSUME NEW db, NEW other, NEW i, db.valid[i] = other.valid[i],
         \A e \in IntelEntries : db.delivery[<<i, e>>] = other.delivery[<<i, e>>]
  PROVE  documentFromIntelByID(db, i) = documentFromIntelByID(other, i)
  BY DEF documentFromIntelByID

\* What a transaction is going to write to the index has the types of the index.
LEMMA DocumentsTyped ==
  ASSUME NEW db \in IntelTables, NEW c \in IntelChanges, NEW is \in SUBSET IntelIDs
  PROVE  Documents(db, c, is) \in [is -> IntelDocument \cup {NoIntel}]
  BY AppliedTables, IntelDocumentTyped DEF Documents

\* Only intel is affected.
LEMMA AffectedTyped ==
  ASSUME NEW c \in IntelChanges
  PROVE  Affected(c) \subseteq IntelIDs
  BY DEF IntelChanges, Affected, Pairs

\* Transactions that have written nothing.
LEMMA IdleIntelTyped == IntelTxInv(IdleIntelTx)
  <1>1. /\ Nothing \in UNION {[S -> BOOLEAN] : S \in SUBSET IntelIDs}
        /\ Nothing \in UNION {[S -> Statuses] : S \in SUBSET Pairs}
        /\ Nothing \in UNION {[S -> IntelUsers \cup {GoneEntry}] : S \in SUBSET IntelEntries}
        /\ Nothing \in UNION {[S -> IntelDocument \cup {NoIntel}] : S \in SUBSET IntelIDs}
        /\ DOMAIN Nothing = {}
    <2>1. \A T : Nothing \in [{} -> T]
      BY DEF Nothing
    <2>2. {} \in SUBSET IntelIDs /\ {} \in SUBSET Pairs /\ {} \in SUBSET IntelEntries
      OBVIOUS
    <2> QED
      BY <2>1, <2>2 DEF Nothing
  <1>2. IdleIntelTx \in IntelTxType
    BY <1>1 DEF IdleIntelTx, IntelTxType, IntelChanges, IntelChange
  <1> QED
    BY <1>1, <1>2 DEF IntelTxInv, IdleIntelTx

\* No intel, and no documents.
LEMMA IntelInvInit == IntelInit => IntelInv
  <1> SUFFICES ASSUME IntelInit PROVE IntelInv
    OBVIOUS
  <1>1. intelDB \in IntelTables
    BY DEF IntelInit, IntelTables, Statuses
  <1>2. IntelDocumentsAreCurrent
    BY DEF IntelInit, IntelDocumentsAreCurrent, documentFromIntelByID
  <1> QED
    BY <1>1, <1>2, IdleIntelTyped DEF IntelInit, IntelInv

\* Steps that touch neither the tables nor the index.
LEMMA IntelInvTx ==
  ASSUME IntelInv, NEW r \in IntelTxs, NEW tx, IntelTxInv(tx), intelTx' = [intelTx EXCEPT ![r] = tx],
         UNCHANGED <<intelDB, intelDoc, unrefreshed>>
  PROVE  IntelInv'
  <1>1. \A q \in IntelTxs : IntelTxInv(intelTx'[q])
    BY DEF IntelInv
  <1>2. \A q \in IntelTxs : IntelTxInv(intelTx[q])'
    BY <1>1 DEF IntelTxInv
  <1> QED
    BY <1>2 DEF IntelInv, IntelDocumentsAreCurrent

\* A transaction that writes makes its documents from the tables as they are.
LEMMA IntelInvWrite ==
  ASSUME IntelInv, NEW r \in IntelTxs, NEW c \in IntelChanges, NEW is \in SUBSET Affected(c), WriteIntel(r, c, is)
  PROVE  IntelInv'
  <1> DEFINE tx == [pc |-> "write", change |-> c, alone |-> TRUE, docs |-> Documents(intelDB, c, is)]
  <1>1. intelDB \in IntelTables /\ is \in SUBSET IntelIDs
    BY AffectedTyped DEF IntelInv
  <1>2. /\ Documents(intelDB, c, is) \in UNION {[S -> IntelDocument \cup {NoIntel}] : S \in SUBSET IntelIDs}
        /\ DOMAIN Documents(intelDB, c, is) = is
    BY <1>1, DocumentsTyped
  <1>3. IntelTxInv(tx)
    BY <1>2 DEF IntelTxInv, IntelTxType
  <1>4. intelTx' = [intelTx EXCEPT ![r] = tx] /\ UNCHANGED <<intelDB, intelDoc, unrefreshed>>
    BY DEF WriteIntel
  <1> QED
    BY <1>3, <1>4, IntelInvTx

\* Committing, alone or after others: what is refreshed is current, what is not affected still is.
LEMMA IntelInvCommit ==
  ASSUME IntelInv, NEW r \in IntelTxs, CommitIntelTx(r)
  PROVE  IntelInv'
  <1> DEFINE c == intelTx[r].change
             docs == intelTx[r].docs
  <1>1. /\ intelDB \in IntelTables
        /\ c \in IntelChanges
        /\ docs \in UNION {[S -> IntelDocument \cup {NoIntel}] : S \in SUBSET IntelIDs}
        /\ DOMAIN docs \subseteq Affected(c)
        /\ unrefreshed \subseteq IntelIDs
        /\ intelDoc \in [IntelIDs -> IntelDocument \cup {NoIntel}]
        /\ Affected(c) \subseteq IntelIDs
    BY AffectedTyped DEF IntelInv, IntelTxInv, IntelTxType
  <1>2. intelDB' = Applied(intelDB, c) /\ intelDB' \in IntelTables
    BY <1>1, AppliedTables DEF CommitIntelTx
  <1>3. /\ intelDoc' \in [IntelIDs -> IntelDocument \cup {NoIntel}]
        /\ \A i \in IntelIDs : intelDoc'[i] = IF i \in DOMAIN docs THEN docs[i] ELSE intelDoc[i]
    <2>1. intelDoc' = Over(docs, intelDoc)
      BY DEF CommitIntelTx
    <2> QED
      BY <1>1, <2>1 DEF Over
  <1>4. unrefreshed' \subseteq IntelIDs
    BY <1>1 DEF CommitIntelTx
  <1>5. ASSUME NEW i \in IntelIDs, i \notin Affected(c)
        PROVE  documentFromIntelByID(intelDB', i) = documentFromIntelByID(intelDB, i)
    BY <1>1, <1>2, <1>5, AppliedTables, SameDocument
  <1>6. \A q \in IntelTxs : IntelTxInv(intelTx[q])'
    <2> SUFFICES ASSUME NEW q \in IntelTxs PROVE IntelTxInv(intelTx[q])'
      OBVIOUS
    <2>1. CASE q = r
      <3>1. intelTx'[q] = IdleIntelTx
        BY <2>1 DEF CommitIntelTx
      <3>2. intelTx'[q].pc = "idle"
        BY <3>1 DEF IdleIntelTx
      <3> QED
        BY <3>1, <3>2, IdleIntelTyped DEF IntelTxInv
    <2>2. CASE q # r
      <3>1. IntelTxInv(intelTx[q])
        BY DEF IntelInv
      <3>2. intelTx'[q] = [intelTx[q] EXCEPT !.alone = intelTx[q].alone /\ ~(Affected(c) # {})]
        BY <2>2 DEF CommitIntelTx
      <3>3. /\ intelTx'[q] \in IntelTxType
            /\ intelTx'[q].pc = intelTx[q].pc /\ intelTx'[q].docs = intelTx[q].docs
            /\ intelTx'[q].change = intelTx[q].change
            /\ intelTx'[q].alone <=> (intelTx[q].alone /\ Affected(c) = {})
        BY <3>1, <3>2 DEF IntelTxInv, IntelTxType
      <3>4. ASSUME Affected(c) = {}, NEW d \in IntelChanges, NEW is \in SUBSET IntelIDs
            PROVE  Documents(intelDB', d, is) = Documents(intelDB, d, is)
        <4>1. intelDB'.valid = intelDB.valid /\ intelDB'.delivery = intelDB.delivery
          <5>1. DOMAIN c.valid = {} /\ DOMAIN c.delivery = {}
            BY <3>4 DEF Affected
          <5>2. Over(c.valid, intelDB.valid) = intelDB.valid /\ Over(c.delivery, intelDB.delivery) = intelDB.delivery
            BY <1>1, <5>1 DEF Over, IntelTables
          <5> QED
            BY <1>2, <5>2 DEF Applied
        <4>2. Applied(intelDB', d).valid = Applied(intelDB, d).valid /\ Applied(intelDB', d).delivery = Applied(intelDB, d).delivery
          BY <4>1 DEF Applied
        <4>3. \A i \in is : documentFromIntelByID(Applied(intelDB', d), i) = documentFromIntelByID(Applied(intelDB, d), i)
          BY <4>2, SameDocument
        <4> QED
          BY <4>3 DEF Documents
      <3>5. /\ intelTx[q].change \in IntelChanges
            /\ DOMAIN intelTx[q].docs \in SUBSET IntelIDs
        BY <3>1 DEF IntelTxInv, IntelTxType
      <3> QED
        BY <3>1, <3>3, <3>4, <3>5 DEF IntelTxInv
    <2> QED
      BY <2>1, <2>2
  <1>7. ASSUME NEW i \in IntelIDs, i \notin unrefreshed'
        PROVE  intelDoc'[i] = documentFromIntelByID(intelDB', i)
    <2>1. CASE i \in DOMAIN docs
      <3>1. intelTx[r].alone /\ docs = Documents(intelDB, c, DOMAIN docs)
        BY <1>1, <1>7, <2>1 DEF CommitIntelTx, IntelInv, IntelTxInv
      <3>2. docs[i] = documentFromIntelByID(intelDB', i)
        BY <1>2, <2>1, <3>1 DEF Documents
      <3> QED
        BY <1>3, <2>1, <3>2
    <2>2. CASE i \notin DOMAIN docs
      <3>1. i \notin unrefreshed /\ i \notin Affected(c)
        BY <1>7, <2>2 DEF CommitIntelTx
      <3> QED
        BY <1>3, <1>5, <2>2, <3>1 DEF IntelInv, IntelDocumentsAreCurrent
    <2> QED
      BY <2>1, <2>2
  <1>8. DOMAIN intelTx' = IntelTxs
    BY DEF CommitIntelTx
  <1> QED
    BY <1>2, <1>3, <1>4, <1>6, <1>7, <1>8 DEF IntelInv, IntelDocumentsAreCurrent

\* Every step of requests and of deliveries keeps the invariant.
LEMMA IntelInvNext == IntelInv /\ [IntelNext]_intelVars => IntelInv'
  <1> SUFFICES ASSUME IntelInv, [IntelNext]_intelVars PROVE IntelInv'
    OBVIOUS
  <1>1. /\ Nothing \in UNION {[S -> BOOLEAN] : S \in SUBSET IntelIDs}
        /\ Nothing \in UNION {[S -> Statuses] : S \in SUBSET Pairs}
        /\ Nothing \in UNION {[S -> IntelUsers \cup {GoneEntry}] : S \in SUBSET IntelEntries}
    BY IdleIntelTyped DEF IntelTxInv, IdleIntelTx, IntelTxType, IntelChanges, IntelChange
  <1>2. ASSUME NEW v \in UNION {[S -> BOOLEAN] : S \in SUBSET IntelIDs}, NEW d \in UNION {[S -> Statuses] : S \in SUBSET Pairs},
               NEW o \in UNION {[S -> IntelUsers \cup {GoneEntry}] : S \in SUBSET IntelEntries}
        PROVE  IntelChange(v, d, o) \in IntelChanges
    BY <1>2 DEF IntelChange, IntelChanges
  <1>3. /\ \A i \in IntelIDs, valid \in BOOLEAN : Row(i, valid) \in UNION {[S -> BOOLEAN] : S \in SUBSET IntelIDs}
        /\ \A pair \in Pairs, status \in Statuses : Row(pair, status) \in UNION {[S -> Statuses] : S \in SUBSET Pairs}
        /\ \A e \in IntelEntries, u \in IntelUsers \cup {GoneEntry} :
               Row(e, u) \in UNION {[S -> IntelUsers \cup {GoneEntry}] : S \in SUBSET IntelEntries}
    <2>1. ASSUME NEW X, NEW T, NEW x \in X, NEW to \in T
          PROVE  Row(x, to) \in UNION {[S -> T] : S \in SUBSET X}
      <3>1. {x} \in SUBSET X /\ Row(x, to) \in [{x} -> T]
        BY DEF Row
      <3> QED
        BY <3>1
    <2> QED
      BY <2>1
  <1>4. ASSUME NEW r \in IntelTxs, NEW i \in IntelIDs, NEW by, NEW deliverTo \in SUBSET IntelEntries, NEW failed,
               CreateIntel(r, by, i, deliverTo, failed)
        PROVE  IntelInv'
    <2> DEFINE d == [pair \in {i} \X deliverTo |-> IF pair[2] \in failed THEN "failure" ELSE "active"]
    <2>1. {i} \X deliverTo \in SUBSET Pairs
      BY DEF Pairs
    <2>2. d \in [{i} \X deliverTo -> Statuses]
      BY DEF Statuses
    <2>3. d \in UNION {[S -> Statuses] : S \in SUBSET Pairs}
      BY <2>1, <2>2
    <2>4. Row(i, TRUE) \in UNION {[S -> BOOLEAN] : S \in SUBSET IntelIDs} /\ DOMAIN Row(i, TRUE) = {i}
      BY <1>3 DEF Row
    <2>5. IntelChange(Row(i, TRUE), d, Nothing) \in IntelChanges
      BY <1>1, <1>2, <2>3, <2>4
    <2>6. i \in Affected(IntelChange(Row(i, TRUE), d, Nothing))
      BY <2>4 DEF Affected, IntelChange
    <2> QED
      BY <1>4, <2>5, <2>6, IntelInvWrite DEF CreateIntel
  <1>5. ASSUME NEW r \in IntelTxs, NEW i \in IntelIDs, NEW by, InvalidateIntelByID(r, i, by)
        PROVE  IntelInv'
    <2>1. Row(i, FALSE) \in UNION {[S -> BOOLEAN] : S \in SUBSET IntelIDs} /\ DOMAIN Row(i, FALSE) = {i}
      BY <1>3 DEF Row
    <2>2. IntelChange(Row(i, FALSE), Nothing, Nothing) \in IntelChanges
      BY <1>1, <1>2, <2>1
    <2>3. i \in Affected(IntelChange(Row(i, FALSE), Nothing, Nothing))
      BY <2>1 DEF Affected, IntelChange
    <2> QED
      BY <1>5, <2>2, <2>3, IntelInvWrite DEF InvalidateIntelByID
  <1>6. ASSUME NEW r \in IntelTxs, NEW i \in IntelIDs, NEW e \in IntelEntries, NEW success \in BOOLEAN,
               EndDelivery(r, i, e, success)
        PROVE  IntelInv'
    <2> DEFINE status == IF success THEN "success" ELSE "failure"
               c == IntelChange(Nothing, Row(<<i, e>>, status), Nothing)
    <2>1. <<i, e>> \in Pairs /\ status \in Statuses
      BY DEF Pairs, Statuses
    <2>2. c \in IntelChanges
      BY <1>1, <1>2, <1>3, <2>1
    <2>3. <<i, e>> \in DOMAIN c.delivery /\ <<i, e>>[1] = i
      BY DEF Row, IntelChange
    <2>4. i \in Affected(c)
      BY <2>3 DEF Affected
    <2> QED
      BY <1>6, <2>2, <2>4, IntelInvWrite DEF EndDelivery
  <1>7. ASSUME NEW r \in IntelTxs, NEW e \in IntelEntries, NEW u \in IntelUsers, AssignEntry(r, e, u)
        PROVE  IntelInv'
    <2>1. IntelChange(Nothing, Nothing, Row(e, u)) \in IntelChanges
      BY <1>1, <1>2, <1>3
    <2> QED
      BY <1>7, <2>1, IntelInvWrite DEF AssignEntry
  <1>8. ASSUME NEW r \in IntelTxs, NEW e \in IntelEntries, DeleteEntry(r, e)
        PROVE  IntelInv'
    <2> DEFINE to == {pair \in Pairs : pair[2] = e /\ intelDB.delivery[pair] # "none"}
               d == [pair \in to |-> "none"]
    <2>1. to \in SUBSET Pairs /\ d \in [to -> Statuses]
      BY DEF Statuses
    <2>2. d \in UNION {[S -> Statuses] : S \in SUBSET Pairs}
      BY <2>1
    <2>3. IntelChange(Nothing, d, Row(e, GoneEntry)) \in IntelChanges
      BY <1>1, <1>2, <1>3, <2>2
    <2> QED
      BY <1>8, <2>3, IntelInvWrite DEF DeleteEntry
  <1>9. ASSUME NEW r \in IntelTxs, AbortIntelTx(r)
        PROVE  IntelInv'
    BY <1>9, IdleIntelTyped, IntelInvTx DEF AbortIntelTx
  <1>10. ASSUME RebuildIntelSearch
         PROVE  IntelInv'
    <2>1. /\ intelDoc' = [i \in IntelIDs |-> documentFromIntelByID(intelDB, i)]
          /\ unrefreshed' = {}
          /\ UNCHANGED <<intelDB, intelTx>>
      BY <1>10 DEF RebuildIntelSearch
    <2>2. intelDoc' \in [IntelIDs -> IntelDocument \cup {NoIntel}]
      BY <2>1, IntelDocumentTyped DEF IntelInv
    <2>3. \A r \in IntelTxs : IntelTxInv(intelTx[r])'
      BY <2>1 DEF IntelInv, IntelTxInv
    <2> QED
      BY <2>1, <2>2, <2>3 DEF IntelInv, IntelDocumentsAreCurrent
  <1>11. CASE UNCHANGED intelVars
    BY <1>11 DEF intelVars, IntelInv, IntelTxInv, IntelDocumentsAreCurrent
  <1> QED
    BY <1>4, <1>5, <1>6, <1>7, <1>8, <1>9, <1>10, <1>11, IntelInvCommit
       DEF IntelNext, handleCreateIntel, handleInvalidateIntelByID, handleRebuildIntelSearch

\* The invariant of the intel holds for all intel, entries, users and transactions.
THEOREM IntelInvariant == IntelSpec => []IntelInv
  BY IntelInvInit, IntelInvNext, PTL DEF IntelSpec

\* The invariant implies what is said of types and documents.
LEMMA IntelInvCurrent == IntelInv => IntelTypeOK /\ IntelDocumentsAreCurrent
  BY DEF IntelInv, IntelTypeOK, IntelTables, Statuses

\* Documents of intel tell the state of it and of its deliveries, for any number of transactions at a
\* time, but for what unrefreshed lists.
THEOREM IntelDocumentsAreCurrentCorrect == IntelSpec => [](IntelTypeOK /\ IntelDocumentsAreCurrent)
  BY IntelInvCurrent, IntelInvariant, PTL

\* An intel is listed if it is found, its document being current.
LEMMA ListedIfFound ==
  ASSUME IntelInv, NEW f \in intelFiltersFromRequest, NEW i \in IntelIDs, i \notin unrefreshed
  PROVE  i \in ListIntel(intelDB, f) <=> i \in SearchIntel(intelDB, intelDoc, f)
  <1>1. intelDB \in IntelTables /\ intelDoc[i] = documentFromIntelByID(intelDB, i)
    BY DEF IntelInv, IntelDocumentsAreCurrent
  <1>2. f.deliveryFor \subseteq IntelEntries /\ f.deliveredTo \subseteq IntelEntries /\ i \in f.like
    BY DEF intelFiltersFromRequest
  <1>3. CASE intelDB.valid[i] = NoIntel
    BY <1>3 DEF ListIntel, SearchIntel, ShownHit
  <1>4. CASE intelDB.valid[i] # NoIntel
    <2>1. intelDoc[i] # NoIntel
      BY <1>1, <1>4, IntelDocumentTyped
    <2>2. /\ intelDoc[i].valid = intelDB.valid[i]
          /\ intelDoc[i].deliveryForEntries = {e \in IntelEntries : intelDB.delivery[<<i, e>>] # "none"}
          /\ intelDoc[i].deliveredToEntries = {e \in IntelEntries : intelDB.delivery[<<i, e>>] = "success"}
      BY <1>1, <1>4 DEF documentFromIntelByID
    <2>3. /\ f.deliveryFor \cap intelDoc[i].deliveryForEntries # {} <=> HasDelivery(intelDB, i, f.deliveryFor)
          /\ f.deliveredTo \cap intelDoc[i].deliveredToEntries # {} <=> Delivered(intelDB, i, f.deliveredTo)
      BY <1>2, <2>2 DEF HasDelivery, Delivered
    <2>4. i \in Hits(intelDoc, f) <=>
             /\ f.includeInvalid \/ intelDB.valid[i]
             /\ f.deliveryFor # {} => HasDelivery(intelDB, i, f.deliveryFor)
             /\ f.deliveredTo # {} => Delivered(intelDB, i, f.deliveredTo)
      BY <1>2, <2>1, <2>2, <2>3 DEF Hits
    <2>5. i \in ListIntel(intelDB, f) <=>
             /\ f.includeInvalid \/ intelDB.valid[i]
             /\ f.deliveryFor # {} => HasDelivery(intelDB, i, f.deliveryFor)
             /\ f.deliveredTo # {} => Delivered(intelDB, i, f.deliveredTo)
      BY <1>2, <1>4 DEF ListIntel
    <2> QED
      BY <1>4, <2>4, <2>5 DEF SearchIntel, ShownHit
  <1> QED
    BY <1>3, <1>4

\* What is shown is shown because of a delivery.
LEMMA IntelInvShown == IntelInv => OnlyOwnIntelIsShown
  <1> SUFFICES ASSUME IntelInv PROVE OnlyOwnIntelIsShown
    OBVIOUS
  <1> SUFFICES ASSUME NEW caller \in IntelCallers, NEW f \in intelFiltersFromRequest
               PROVE  LET listed == handleGetAllIntel(caller, f)
                          found == handleSearchIntel(caller, f)
                      IN  /\ \A i \in listed \cup found : handleGetIntelByID(caller, i)
                          /\ found \ unrefreshed = listed \ unrefreshed
    BY DEF OnlyOwnIntelIsShown
  <1> DEFINE own == EntriesByUser(intelDB, caller.user)
  <1>1. own \subseteq IntelEntries
    BY DEF EntriesByUser
  <1>2. ASSUME NEW g \in FiltersUsed(intelDB, caller, f)
        PROVE  /\ g \in intelFiltersFromRequest
               /\ LimitToUser(caller) => g.deliveryFor # {} /\ g.deliveryFor \subseteq own
    <2>1. CASE ~LimitToUser(caller)
      BY <1>2, <2>1 DEF FiltersUsed
    <2>2. CASE LimitToUser(caller)
      <3>1. own # {} /\ g = Limited(intelDB, caller, f)
        BY <1>2, <2>2 DEF FiltersUsed
      <3>2. CASE own \cap f.deliveryFor = {}
        BY <1>1, <3>1, <3>2 DEF Limited, intelFiltersFromRequest
      <3>3. CASE own \cap f.deliveryFor # {}
        <4>1. g = [f EXCEPT !.deliveryFor = f.deliveryFor \cap own]
          BY <3>1, <3>3 DEF Limited
        <4> QED
          BY <1>1, <3>3, <4>1 DEF intelFiltersFromRequest
      <3> QED
        BY <3>2, <3>3
    <2> QED
      BY <2>1, <2>2
  <1>3. ASSUME NEW g \in FiltersUsed(intelDB, caller, f), NEW i,
               i \in ListIntel(intelDB, g) \/ i \in SearchIntel(intelDB, intelDoc, g)
        PROVE  handleGetIntelByID(caller, i)
    <2>1. /\ intelDB.valid[i] # NoIntel
          /\ g.deliveryFor # {} => HasDelivery(intelDB, i, g.deliveryFor)
      BY <1>3 DEF ListIntel, SearchIntel, ShownHit
    <2> QED
      BY <1>2, <2>1 DEF handleGetIntelByID, IntelByID, HasDelivery
  <1>4. ASSUME NEW g \in FiltersUsed(intelDB, caller, f), NEW i, i \notin unrefreshed
        PROVE  i \in ListIntel(intelDB, g) <=> i \in SearchIntel(intelDB, intelDoc, g)
    <2>1. g \in intelFiltersFromRequest
      BY <1>2
    <2>2. i \in ListIntel(intelDB, g) \/ i \in SearchIntel(intelDB, intelDoc, g) => i \in IntelIDs
      BY <2>1 DEF ListIntel, SearchIntel, Hits, intelFiltersFromRequest
    <2> QED
      BY <1>4, <2>1, <2>2, ListedIfFound
  <1> QED
    BY <1>3, <1>4 DEF handleGetAllIntel, handleSearchIntel

\* Whatever filters and documents are, only intel delivered to the entries of the user is shown.
THEOREM OnlyOwnIntelIsShownCorrect == IntelSpec => []OnlyOwnIntelIsShown
  BY IntelInvShown, IntelInvariant, PTL
-----------------------------------------------------------------------------
(* Search synchronisation.                                                 *)

Batches == [Docs -> Contents \cup {Absent}]
ProcessorState == [pc : {"idle", "next", "emptied", "retrieved", "handled"}, batch : Batches \cup {<<>>}, others : SUBSET Docs]
SearchTypes == /\ table \in [Docs -> Contents \cup {Absent}] /\ index \in [Docs -> Contents \cup {Absent}]
               /\ actions \in Seq(Action)
               /\ processor \in [Instances -> ProcessorState]
               /\ gaveUp \subseteq Docs /\ overtaken \subseteq Docs

\* The row of a document is locked until its change is committed: only the last action of a document
\* is not, and the last that is tells what the table does.  There is one rebuild at a time; what a
\* processor has locked is the oldest of its document.
QueueInv ==
    /\ \A i, k \in 1..Len(actions) : i < k /\ actions[i].doc = actions[k].doc => actions[i].committed /\ actions[i].doc # All
    /\ \A i \in 1..Len(actions) : actions[i].doc = All => actions[i].committed
    /\ \A i \in 1..Len(actions) : actions[i].by # Nobody =>
           actions[i].committed /\ \A k \in 1..Len(actions) : k < i => actions[k].doc # actions[i].doc
    /\ \A i \in 1..Len(actions) : 
           /\ actions[i].committed /\ actions[i].doc # All
           /\ \A k \in 1..Len(actions) : i < k /\ actions[k].committed => actions[k].doc # actions[i].doc
           => actions[i].content = table[actions[i].doc]
\* Processors work on one action each, on the one for everything while they rebuild.
WorkInv ==
    /\ \A i, k \in 1..Len(actions) : actions[i].by = actions[k].by /\ actions[i].by # Nobody => i = k
    /\ \A i \in 1..Len(actions) : actions[i].by # Nobody => processor[actions[i].by].pc # "idle"
    /\ \A p \in Instances : processor[p].pc \in {"emptied", "retrieved"} =>
           \E i \in 1..Len(actions) : actions[i].by = p /\ actions[i].doc = All
    /\ \A p \in Instances : processor[p].pc = "retrieved" => processor[p].batch \in Batches

Done(i) == actions[i].by # Nobody /\ processor[actions[i].by].pc = "handled"
Settled(d) == /\ d \notin gaveUp
              /\ \A i \in 1..Len(actions) : actions[i].doc = d /\ actions[i].committed => Done(i)
Rebuilding == \E i \in 1..Len(actions) : actions[i].doc = All /\ ~Done(i)

\* What is in the index, or will be when a rebuild has sent its batch, if all that is committed has
\* been written.
IndexInv ==
    /\ ~Rebuilding => \A d \in Docs \ overtaken : Settled(d) => index[d] = table[d]
    /\ \A p \in Instances : processor[p].pc = "emptied" =>
           \A d \in Docs : Settled(d) /\ table[d] = Absent => index[d] = Absent
    /\ \A p \in Instances : processor[p].pc = "retrieved" =>
           \A d \in Docs \ processor[p].others :
               Settled(d) => table[d] = IF processor[p].batch[d] = Absent THEN index[d] ELSE processor[p].batch[d]
SearchInv == SearchTypes /\ QueueInv /\ WorkInv /\ IndexInv

\* The actions left when the i-th is removed.
LEMMA Removed ==
  ASSUME NEW S, NEW s \in Seq(S), NEW i \in 1..Len(s)
  PROVE  /\ RemoveAt(s, i) \in Seq(S)
         /\ Len(RemoveAt(s, i)) = Len(s) - 1
         /\ \A k \in 1..(Len(s) - 1) : RemoveAt(s, i)[k] = s[IF k < i THEN k ELSE k + 1]
  <1> DEFINE n == Len(s)
             front == SubSeq(s, 1, i - 1)
             back == SubSeq(s, i + 1, n)
  <1>1. n \in Nat /\ \A k \in 1..n : s[k] \in S
    BY ElementOfSeq, LenProperties
  <1>2. /\ front \in Seq(S) /\ Len(front) = i - 1
        /\ \A k \in 1..(i - 1) : front[k] = s[k]
    <2>1. \A k \in 1..(i - 1) : s[k] \in S
      BY <1>1
    <2>2. i - 1 \in Int /\ 1 \in Int
      BY <1>1
    <2> QED
      BY <1>1, <2>1, <2>2, SubSeqProperties
  <1>3. /\ back \in Seq(S) /\ Len(back) = n - i
        /\ \A k \in 1..(n - i) : back[k] = s[i + k]
    <2>1. \A k \in (i + 1)..n : s[k] \in S
      BY <1>1
    <2>2. i + 1 \in Int /\ n \in Int
      BY <1>1
    <2>3. /\ back \in Seq(S) /\ Len(back) = IF i + 1 <= n THEN n - (i + 1) + 1 ELSE 0
          /\ \A k \in 1..(n - (i + 1) + 1) : back[k] = s[i + 1 + k - 1]
      BY <2>1, <2>2, SubSeqProperties
    <2> QED
      BY <1>1, <2>3
  <1>4. RemoveAt(s, i) = front \o back
    BY DEF RemoveAt
  <1> HIDE DEF front, back
  <1>5. /\ front \o back \in Seq(S) /\ Len(front \o back) = Len(front) + Len(back)
        /\ \A k \in 1..(Len(front) + Len(back)) :
               (front \o back)[k] = IF k <= Len(front) THEN front[k] ELSE back[k - Len(front)]
    BY <1>2, <1>3, ConcatProperties
  <1>6. Len(front) + Len(back) = n - 1
    BY <1>1, <1>2, <1>3
  <1>7. ASSUME NEW k \in 1..(n - 1)
        PROVE  (front \o back)[k] = s[IF k < i THEN k ELSE k + 1]
    <2>1. CASE k < i
      BY <1>1, <1>2, <1>5, <1>6, <2>1
    <2>2. CASE ~(k < i)
      <3>1. ~(k <= Len(front)) /\ k - Len(front) \in 1..(n - i) /\ i + (k - Len(front)) = k + 1
        BY <1>1, <1>2, <2>2
      <3> QED
        BY <1>3, <1>5, <1>6, <2>2, <3>1
    <2> QED
      BY <2>1, <2>2
  <1> QED
    BY <1>4, <1>5, <1>6, <1>7

\* Fields of an action in the table.
LEMMA ActionTyped ==
  ASSUME SearchTypes, NEW i \in 1..Len(actions)
  PROVE  /\ actions[i] \in Action
         /\ actions[i].doc \in Docs \cup {All} /\ actions[i].content \in Contents \cup {Absent}
         /\ actions[i].by \in Instances \cup {Nobody}
         /\ Len(actions) \in Nat
  <1>1. actions[i] \in Action /\ Len(actions) \in Nat
    BY ElementOfSeq, LenProperties DEF SearchTypes
  <1> QED
    BY <1>1 DEF Action

\* Fields of what the steps of a processor make of it.
LEMMA IdleStates ==
  /\ Idle \in ProcessorState /\ Idle.pc = "idle"
  /\ \A pc \in {"next", "emptied", "retrieved", "handled"} :
         /\ [Idle EXCEPT !.pc = pc] \in ProcessorState
         /\ [Idle EXCEPT !.pc = pc].pc = pc
         /\ \A batch \in Batches : 
                /\ [Idle EXCEPT !.pc = pc, !.batch = batch] \in ProcessorState
                /\ [Idle EXCEPT !.pc = pc, !.batch = batch].pc = pc
                /\ [Idle EXCEPT !.pc = pc, !.batch = batch].batch = batch
                /\ [Idle EXCEPT !.pc = pc, !.batch = batch].others = {}
  BY DEF Idle, ProcessorState

\* No actions.
LEMMA SearchInvInit == SearchInit => SearchInv
  <1> SUFFICES ASSUME SearchInit PROVE SearchInv
    OBVIOUS
  <1>1. actions \in Seq(Action) /\ Len(actions) = 0 /\ 1..Len(actions) = {}
    BY EmptySeq DEF SearchInit
  <1>2. \A p \in Instances : processor[p].pc = "idle"
    BY IdleStates DEF SearchInit
  <1>3. SearchTypes
    BY <1>1, IdleStates DEF SearchInit, SearchTypes
  <1>4. QueueInv /\ WorkInv
    BY <1>1, <1>2 DEF QueueInv, WorkInv
  <1>5. IndexInv
    BY <1>2 DEF IndexInv, SearchInit
  <1> QED
    BY <1>3, <1>4, <1>5 DEF SearchInv

\* An action is added that nothing waits for yet: a change that is not committed.
LEMMA SearchInvAdd ==
  ASSUME SearchInv, NEW d \in Docs, NEW content \in Contents \cup {Absent}, SafeAddOrUpdateDocument(d, content)
  PROVE  SearchInv'
  <1> DEFINE a == [doc |-> d, content |-> content, remainingTries |-> RemainingTries,
                   failed |-> FALSE, committed |-> FALSE, by |-> Nobody]
             n == Len(actions)
  <1>1. SearchTypes /\ actions \in Seq(Action) /\ n \in Nat
    BY LenProperties DEF SearchInv, SearchTypes
  <1>2. a \in Action
    BY SearchConstants DEF Action
  <1>3. /\ actions' = Append(actions, a)
        /\ \A i \in 1..n : actions[i].doc = d => actions[i].committed
        /\ UNCHANGED <<table, index, processor, searchFaults, gaveUp, overtaken>>
    BY DEF SafeAddOrUpdateDocument, scheduleSafeAction
  <1>4. /\ actions' \in Seq(Action) /\ Len(actions') = n + 1
        /\ \A i \in 1..n : actions'[i] = actions[i]
        /\ actions'[n + 1] = a
    BY <1>1, <1>2, <1>3, AppendProperties
  <1>5. SearchTypes'
    BY <1>3, <1>4 DEF SearchInv, SearchTypes
  <1>6. /\ a.doc = d /\ d # All /\ ~a.committed /\ a.by = Nobody
        /\ \A i \in 1..(n + 1) : i \in 1..n \/ i = n + 1
        /\ 1..n \subseteq 1..(n + 1) /\ n + 1 \in 1..(n + 1) /\ \A i \in 1..n : i < n + 1 /\ ~(n + 1 < i)
    BY <1>1, SearchConstants
  <1> HIDE DEF a, n
  <1>7. QueueInv'
    BY <1>3, <1>4, <1>6 DEF SearchInv, QueueInv
  <1>8. WorkInv'
    BY <1>3, <1>4, <1>6 DEF SearchInv, WorkInv
  <1>9. /\ \A e \in Docs : Settled(e)' => Settled(e)
        /\ Rebuilding => Rebuilding'
    BY <1>3, <1>4, <1>6 DEF Settled, Rebuilding, Done, n
  <1>10. IndexInv'
    BY <1>3, <1>9 DEF SearchInv, IndexInv
  <1> QED
    BY <1>5, <1>7, <1>8, <1>10 DEF SearchInv

\* A rebuild waits behind all actions.
LEMMA SearchInvRebuild == SearchInv /\ SafeRebuildIndex => SearchInv'
  <1> SUFFICES ASSUME SearchInv, SafeRebuildIndex PROVE SearchInv'
    OBVIOUS
  <1> DEFINE a == [doc |-> All, content |-> Absent, remainingTries |-> RemainingTries,
                   failed |-> FALSE, committed |-> TRUE, by |-> Nobody]
             n == Len(actions)
  <1>1. SearchTypes /\ actions \in Seq(Action) /\ n \in Nat
    BY LenProperties DEF SearchInv, SearchTypes
  <1>2. a \in Action
    BY SearchConstants DEF Action
  <1>3. /\ actions' = Append(actions, a)
        /\ \A i \in 1..n : actions[i].doc # All
        /\ UNCHANGED <<table, index, processor, searchFaults, gaveUp, overtaken>>
    BY DEF SafeRebuildIndex, scheduleSafeAction
  <1>4. /\ actions' \in Seq(Action) /\ Len(actions') = n + 1
        /\ \A i \in 1..n : actions'[i] = actions[i]
        /\ actions'[n + 1] = a
    BY <1>1, <1>2, <1>3, AppendProperties
  <1>5. SearchTypes'
    BY <1>3, <1>4 DEF SearchInv, SearchTypes
  <1>6. /\ a.doc = All /\ a.committed /\ a.by = Nobody
        /\ \A i \in 1..(n + 1) : i \in 1..n \/ i = n + 1
        /\ 1..n \subseteq 1..(n + 1) /\ n + 1 \in 1..(n + 1) /\ \A i \in 1..n : i < n + 1 /\ ~(n + 1 < i)
    BY <1>1
  <1> HIDE DEF a, n
  <1>7. QueueInv'
    BY <1>3, <1>4, <1>6 DEF SearchInv, QueueInv
  <1>8. WorkInv'
    BY <1>3, <1>4, <1>6 DEF SearchInv, WorkInv
  <1>9. Rebuilding' /\ \A p \in Instances : processor[p].pc \notin {"emptied", "retrieved"}
    BY <1>3, <1>4, <1>6 DEF Rebuilding, Done, SearchInv, WorkInv, n
  <1>10. IndexInv'
    BY <1>3, <1>9 DEF IndexInv
  <1> QED
    BY <1>5, <1>7, <1>8, <1>10 DEF SearchInv

\* A change is committed, and waits for its document to be written.
LEMMA SearchInvCommit ==
  ASSUME SearchInv, NEW i \in 1..Len(actions), CommitChange(i)
  PROVE  SearchInv'
  <1> DEFINE n == Len(actions)
             d == actions[i].doc
  <1>1. /\ ~actions[i].committed
        /\ actions' = [actions EXCEPT ![i].committed = TRUE]
        /\ table' = [table EXCEPT ![d] = actions[i].content]
        /\ UNCHANGED <<index, processor, searchFaults, gaveUp, overtaken>>
    BY DEF CommitChange
  <1>2. /\ actions[i] \in Action /\ d \in Docs /\ n \in Nat /\ actions[i].content \in Contents \cup {Absent}
        /\ actions[i].by = Nobody
    BY <1>1, ActionTyped DEF SearchInv, QueueInv
  <1>3. [actions[i] EXCEPT !.committed = TRUE] \in Action
    BY <1>2 DEF Action
  <1>4. /\ actions' \in Seq(Action) /\ Len(actions') = n
        /\ \A k \in 1..n : k # i => actions'[k] = actions[k]
        /\ actions'[i] = [actions[i] EXCEPT !.committed = TRUE]
    <2>1. PICK a \in Action : a = [actions[i] EXCEPT !.committed = TRUE]
      BY <1>3
    <2>2. actions' = [actions EXCEPT ![i] = a]
      BY <1>1, <2>1
    <2>3. actions \in Seq(Action)
      BY DEF SearchInv, SearchTypes
    <2>4. /\ [actions EXCEPT ![i] = a] \in Seq(Action) /\ Len([actions EXCEPT ![i] = a]) = Len(actions)
          /\ \A k \in 1..Len(actions) : [actions EXCEPT ![i] = a][k] = IF k = i THEN a ELSE actions[k]
      BY <2>3, ExceptSeq
    <2> QED
      BY <2>1, <2>2, <2>4
  <1>5. /\ actions'[i].doc = d /\ actions'[i].content = actions[i].content /\ actions'[i].by = Nobody
        /\ actions'[i].committed
    BY <1>2, <1>4 DEF Action
  <1>6. SearchTypes'
    BY <1>1, <1>2, <1>4 DEF SearchInv, SearchTypes
  <1>7. /\ table'[d] = actions[i].content
        /\ \A e \in Docs : e # d => table'[e] = table[e]
    BY <1>1, <1>2 DEF SearchInv, SearchTypes
  <1>8. QueueInv'
    <2>1. \A k \in 1..n : k # i /\ actions[k].doc = d => k < i /\ actions[k].committed
      BY <1>1, <1>2 DEF SearchInv, QueueInv
    <2>2. \A k \in 1..n : actions'[k].doc = actions[k].doc /\ actions'[k].by = actions[k].by
                        /\ actions'[k].content = actions[k].content /\ (actions[k].committed => actions'[k].committed)
      BY <1>2, <1>4, <1>5
    <2>3. \A k, l \in 1..n : k < l /\ actions'[k].doc = actions'[l].doc => actions'[k].committed /\ actions'[k].doc # All
      BY <2>2 DEF SearchInv, QueueInv
    <2>4. \A k \in 1..n : actions'[k].doc = All => actions'[k].committed
      BY <2>2 DEF SearchInv, QueueInv
    <2>5. \A k \in 1..n : actions'[k].by # Nobody =>
             actions'[k].committed /\ \A l \in 1..n : l < k => actions'[l].doc # actions'[k].doc
      BY <2>2 DEF SearchInv, QueueInv
    <2>6. ASSUME NEW k \in 1..n, actions'[k].committed, actions'[k].doc # All,
                 \A l \in 1..n : k < l /\ actions'[l].committed => actions'[l].doc # actions'[k].doc
          PROVE  actions'[k].content = table'[actions'[k].doc]
      <3>1. CASE k = i
        BY <1>2, <1>5, <1>7, <3>1
      <3>2. CASE k # i
        <4>1. actions[k].doc # d
          BY <1>4, <1>5, <2>1, <2>6, <3>2
        <4>2. actions'[k] = actions[k] /\ actions[k].doc \in Docs
          BY <1>4, <2>6, <3>2, ActionTyped DEF SearchInv
        <4>3. \A l \in 1..n : k < l /\ actions[l].committed => actions[l].doc # actions[k].doc
          BY <2>2, <2>6, <4>2
        <4> QED
          BY <1>7, <2>6, <4>1, <4>2, <4>3 DEF SearchInv, QueueInv
      <3> QED
        BY <3>1, <3>2
    <2> QED
      BY <1>4, <2>3, <2>4, <2>5, <2>6 DEF QueueInv
  <1>9. WorkInv'
    <2>1. \A k \in 1..n : actions'[k].doc = actions[k].doc /\ actions'[k].by = actions[k].by
      BY <1>2, <1>4, <1>5
    <2> QED
      BY <1>1, <1>4, <2>1 DEF SearchInv, WorkInv
  <1>10. /\ ~Settled(d)'
         /\ \A e \in Docs : Settled(e)' => Settled(e)
         /\ Rebuilding => Rebuilding'
    <2>1. \A k \in 1..n : Done(k)' <=> Done(k)
      BY <1>1, <1>2, <1>4, <1>5 DEF Done
    <2>2. ~Done(i)
      BY <1>2 DEF Done
    <2> QED
      BY <1>1, <1>2, <1>4, <1>5, <2>1, <2>2 DEF Settled, Rebuilding
  <1>11. IndexInv'
    BY <1>1, <1>7, <1>10 DEF SearchInv, IndexInv
  <1> QED
    BY <1>6, <1>8, <1>9, <1>11 DEF SearchInv

\* An action leaves the table: one that is not committed, or one that a processor works on.
LEMMA SearchInvRemove ==
  ASSUME SearchInv, NEW i \in 1..Len(actions), actions' = RemoveAt(actions, i), UNCHANGED <<table, index, overtaken>>,
         gaveUp' \subseteq Docs, gaveUp \subseteq gaveUp',
         \/ ~actions[i].committed /\ UNCHANGED processor
         \/ \E p \in Instances : actions[i].by = p /\ processor' = [processor EXCEPT ![p] = Idle],
         \/ ~actions[i].committed
         \/ Done(i)
         \/ IF actions[i].doc = All THEN gaveUp' = Docs ELSE actions[i].doc \in gaveUp'
  PROVE  SearchInv'
  <1> DEFINE n == Len(actions)
             old(k) == IF k < i THEN k ELSE k + 1
  <1>1. n \in Nat /\ n - 1 \in Nat
    BY LenProperties DEF SearchInv, SearchTypes
  <1>2. /\ actions' \in Seq(Action) /\ Len(actions') = n - 1
        /\ \A k \in 1..(n - 1) : actions'[k] = actions[old(k)]
    BY Removed, ZenonT(60) DEF SearchInv, SearchTypes
  <1>3. /\ \A k \in 1..(n - 1) : old(k) \in 1..n /\ old(k) # i
        /\ \A k, l \in 1..(n - 1) : (k < l <=> old(k) < old(l)) /\ (old(k) = old(l) => k = l)
    BY <1>1
  <1>4. \A j \in 1..n : j # i => \E k \in 1..(n - 1) : old(k) = j
    <2> SUFFICES ASSUME NEW j \in 1..n, j # i
                 PROVE  \E k \in 1..(n - 1) : old(k) = j
      OBVIOUS
    <2>1. CASE j < i
      <3>1. j \in 1..(n - 1) /\ old(j) = j
        BY <1>1, <2>1
      <3> QED
        BY <3>1
    <2>2. CASE ~(j < i)
      <3>1. j - 1 \in 1..(n - 1) /\ old(j - 1) = j
        BY <1>1, <2>2
      <3> QED
        BY <3>1
    <2> QED
      BY <2>1, <2>2
  <1> HIDE DEF old
  <1>5. \A j \in 1..n : j # i /\ actions[j].by # Nobody => processor'[actions[j].by] = processor[actions[j].by]
    <2>1. \A j \in 1..n : actions[j].by \in Instances \cup {Nobody}
      BY ActionTyped DEF SearchInv
    <2>2. \A j \in 1..n : j # i /\ actions[j].by # Nobody => actions[j].by # actions[i].by
      BY DEF SearchInv, WorkInv
    <2> QED
      BY <2>1, <2>2 DEF SearchInv, SearchTypes
  <1>6. /\ processor' \in [Instances -> ProcessorState]
        /\ \A p \in Instances : processor'[p].pc \in {"emptied", "retrieved"} => processor'[p] = processor[p] /\ actions[i].by # p
    <2>1. CASE ~actions[i].committed /\ UNCHANGED processor
      <3>1. actions[i].by = Nobody /\ Nobody \notin Instances
        BY <2>1, SearchConstants DEF SearchInv, QueueInv
      <3> QED
        BY <2>1, <3>1 DEF SearchInv, SearchTypes
    <2>2. CASE \E p \in Instances : actions[i].by = p /\ processor' = [processor EXCEPT ![p] = Idle]
      <3>1. PICK p \in Instances : actions[i].by = p /\ processor' = [processor EXCEPT ![p] = Idle]
        BY <2>2
      <3>2. /\ processor \in [Instances -> ProcessorState] /\ Idle \in ProcessorState /\ Idle.pc = "idle"
        BY IdleStates DEF SearchInv, SearchTypes
      <3>3. /\ processor' \in [Instances -> ProcessorState]
            /\ processor'[p].pc = "idle"
            /\ \A q \in Instances : q # p => processor'[q] = processor[q]
        BY <3>1, <3>2
      <3> QED
        BY <3>1, <3>3
    <2> QED
      BY <2>1, <2>2
  <1>7. SearchTypes'
    BY <1>2, <1>6 DEF SearchInv, SearchTypes
  <1>8. QueueInv'
    <2>1. ASSUME NEW k \in 1..(n - 1), NEW l \in 1..(n - 1), k < l, actions'[k].doc = actions'[l].doc
          PROVE  actions'[k].committed /\ actions'[k].doc # All
      <3>1. /\ actions'[k] = actions[old(k)] /\ actions'[l] = actions[old(l)]
            /\ old(k) \in 1..n /\ old(l) \in 1..n /\ old(k) < old(l)
        BY <1>2, <1>3, <2>1
      <3> QED
        BY <2>1, <3>1 DEF SearchInv, QueueInv
    <2>2. ASSUME NEW k \in 1..(n - 1), actions'[k].doc = All PROVE actions'[k].committed
      <3>1. actions'[k] = actions[old(k)] /\ old(k) \in 1..n
        BY <1>2, <1>3
      <3> QED
        BY <2>2, <3>1 DEF SearchInv, QueueInv
    <2>3. \A k \in 1..(n - 1) : actions'[k].by # Nobody =>
             actions'[k].committed /\ \A l \in 1..(n - 1) : l < k => actions'[l].doc # actions'[k].doc
      <3> SUFFICES ASSUME NEW k \in 1..(n - 1), actions'[k].by # Nobody
                   PROVE  actions'[k].committed /\ \A l \in 1..(n - 1) : l < k => actions'[l].doc # actions'[k].doc
        OBVIOUS
      <3>1. actions'[k] = actions[old(k)] /\ old(k) \in 1..n
        BY <1>2, <1>3
      <3>2. actions[old(k)].committed /\ \A j \in 1..n : j < old(k) => actions[j].doc # actions[old(k)].doc
        BY <3>1 DEF SearchInv, QueueInv
      <3>3. \A l \in 1..(n - 1) : l < k => old(l) < old(k) /\ actions'[l] = actions[old(l)] /\ old(l) \in 1..n
        BY <1>2, <1>3
      <3> QED
        BY <3>1, <3>2, <3>3
    <2>4. ASSUME NEW k \in 1..(n - 1), actions'[k].committed, actions'[k].doc # All,
                 \A l \in 1..(n - 1) : k < l /\ actions'[l].committed => actions'[l].doc # actions'[k].doc
          PROVE  actions'[k].content = table'[actions'[k].doc]
      <3>1. actions'[k] = actions[old(k)] /\ old(k) \in 1..n
        BY <1>2, <1>3
      <3>2. ASSUME NEW j \in 1..n, old(k) < j, actions[j].committed
            PROVE  actions[j].doc # actions[old(k)].doc
        <4>1. CASE j = i
          <5>1. actions[i].by # Nobody
            BY <3>2, <4>1, SearchConstants
          <5> QED
            BY <3>1, <3>2, <4>1, <5>1 DEF SearchInv, QueueInv
        <4>2. CASE j # i
          <5>1. PICK l \in 1..(n - 1) : old(l) = j
            BY <1>4, <4>2
          <5>2. k < l /\ actions'[l] = actions[j]
            BY <1>2, <1>3, <3>2, <5>1
          <5> QED
            BY <2>4, <3>1, <3>2, <5>2
        <4> QED
          BY <4>1, <4>2
      <3> QED
        BY <2>4, <3>1, <3>2 DEF SearchInv, QueueInv
    <2> QED
      BY <1>2, <2>1, <2>2, <2>3, <2>4 DEF QueueInv
  <1>9. WorkInv'
    <2>1. ASSUME NEW k \in 1..(n - 1), NEW l \in 1..(n - 1), actions'[k].by = actions'[l].by, actions'[k].by # Nobody
          PROVE  k = l
      <3>1. /\ actions'[k] = actions[old(k)] /\ actions'[l] = actions[old(l)]
            /\ old(k) \in 1..n /\ old(l) \in 1..n
        BY <1>2, <1>3
      <3>2. old(k) = old(l)
        BY <2>1, <3>1 DEF SearchInv, WorkInv
      <3> QED
        BY <1>3, <3>2
    <2>2. \A k \in 1..(n - 1) : actions'[k].by # Nobody => processor'[actions'[k].by].pc # "idle"
      BY <1>2, <1>3, <1>5 DEF SearchInv, WorkInv
    <2>3. ASSUME NEW p \in Instances, processor'[p].pc \in {"emptied", "retrieved"}
          PROVE  \E k \in 1..(n - 1) : actions'[k].by = p /\ actions'[k].doc = All
      <3>1. PICK j \in 1..n : actions[j].by = p /\ actions[j].doc = All
        BY <1>6, <2>3 DEF SearchInv, WorkInv
      <3>2. PICK k \in 1..(n - 1) : old(k) = j
        BY <1>4, <1>6, <2>3, <3>1
      <3> QED
        BY <1>2, <3>1, <3>2
    <2>4. \A p \in Instances : processor'[p].pc = "retrieved" => processor'[p].batch \in Batches
      BY <1>6 DEF SearchInv, WorkInv
    <2> QED
      BY <1>2, <2>1, <2>2, <2>3, <2>4 DEF WorkInv
  <1>10. \A k \in 1..(n - 1) : Done(k)' <=> Done(old(k))
    BY <1>2, <1>3, <1>5 DEF Done
  <1>11. ASSUME NEW d \in Docs, Settled(d)'
         PROVE  Settled(d)
    <2>1. ASSUME NEW j \in 1..n, actions[j].doc = d, actions[j].committed
          PROVE  Done(j)
      <3>1. CASE j = i
        <4>1. d # All /\ d \notin gaveUp'
          BY <1>11, SearchConstants DEF Settled
        <4> QED
          BY <2>1, <3>1, <4>1
      <3>2. CASE j # i
        <4>1. PICK k \in 1..(n - 1) : old(k) = j
          BY <1>4, <3>2
        <4>2. actions'[k] = actions[j]
          BY <1>2, <4>1
        <4>3. Done(k)'
          BY <1>2, <1>11, <2>1, <4>2 DEF Settled
        <4> QED
          BY <1>10, <4>1, <4>3
      <3> QED
        BY <3>1, <3>2
    <2> QED
      BY <1>11, <2>1 DEF Settled
  <1>12. Rebuilding => Rebuilding' \/ gaveUp' = Docs
    <2> SUFFICES ASSUME Rebuilding, gaveUp' # Docs PROVE Rebuilding'
      OBVIOUS
    <2>1. PICK j \in 1..n : actions[j].doc = All /\ ~Done(j)
      BY DEF Rebuilding
    <2>2. j # i
      BY <2>1 DEF SearchInv, QueueInv
    <2>3. PICK k \in 1..(n - 1) : old(k) = j
      BY <1>4, <2>2
    <2>4. actions'[k].doc = All /\ ~Done(k)'
      BY <1>2, <1>10, <2>1, <2>3
    <2> QED
      BY <1>2, <2>4 DEF Rebuilding
  <1>13. gaveUp' = Docs => \A d \in Docs : ~Settled(d)'
    BY DEF Settled
  <1>14. IndexInv'
    BY <1>6, <1>11, <1>12, <1>13 DEF SearchInv, IndexInv
  <1> QED
    BY <1>7, <1>8, <1>9, <1>14 DEF SearchInv

\* A processor ends or fails, leaving its action to all; what else there is to the action is no matter.
LEMMA SearchInvUnlock ==
  ASSUME SearchInv, NEW i \in 1..Len(actions), NEW p \in Instances, actions[i].by = p,
         actions' \in Seq(Action), Len(actions') = Len(actions),
         \A k \in 1..Len(actions) :
             /\ actions'[k].doc = actions[k].doc /\ actions'[k].content = actions[k].content
             /\ actions'[k].committed = actions[k].committed
             /\ actions'[k].by = IF k = i THEN Nobody ELSE actions[k].by,
         processor' = [processor EXCEPT ![p] = Idle], UNCHANGED <<table, index, gaveUp, overtaken>>
  PROVE  SearchInv'
  <1> DEFINE n == Len(actions)
  <1>1. /\ processor' \in [Instances -> ProcessorState]
        /\ processor'[p].pc = "idle"
        /\ \A q \in Instances : q # p => processor'[q] = processor[q]
    BY IdleStates, ZenonT(60) DEF SearchInv, SearchTypes
  <1>2. SearchTypes'
    BY <1>1 DEF SearchInv, SearchTypes
  <1>3. QueueInv'
    <2>1. \A k \in 1..n : actions'[k].by # Nobody =>
             actions'[k].committed /\ \A l \in 1..n : l < k => actions'[l].doc # actions'[k].doc
      BY DEF SearchInv, QueueInv
    <2>2. \A k, l \in 1..n : k < l /\ actions'[k].doc = actions'[l].doc => actions'[k].committed /\ actions'[k].doc # All
      BY DEF SearchInv, QueueInv
    <2>3. \A k \in 1..n : actions'[k].doc = All => actions'[k].committed
      BY DEF SearchInv, QueueInv
    <2>4. ASSUME NEW k \in 1..n, actions'[k].committed, actions'[k].doc # All,
                 \A l \in 1..n : k < l /\ actions'[l].committed => actions'[l].doc # actions'[k].doc
          PROVE  actions'[k].content = table'[actions'[k].doc]
      <3>1. \A l \in 1..n : k < l /\ actions[l].committed => actions[l].doc # actions[k].doc
        BY <2>4
      <3> QED
        BY <2>4, <3>1 DEF SearchInv, QueueInv
    <2> QED
      BY <2>1, <2>2, <2>3, <2>4 DEF QueueInv
  <1>4. /\ \A k \in 1..n : k # i => actions[k].by # p
        /\ \A k \in 1..n : actions[k].by \in Instances \cup {Nobody}
        /\ p # Nobody
    BY ActionTyped, SearchConstants DEF SearchInv, WorkInv
  <1>5. WorkInv'
    BY <1>1, <1>4, SMTT(30) DEF SearchInv, WorkInv
  <1>6. \A k \in 1..n : Done(k)' => Done(k)
    BY <1>1, <1>4 DEF Done
  <1>7. /\ \A d \in Docs : Settled(d)' => Settled(d)
        /\ Rebuilding => Rebuilding'
    BY <1>6 DEF Settled, Rebuilding
  <1>8. \A q \in Instances : processor'[q].pc # "idle" => processor'[q] = processor[q]
    BY <1>1
  <1>9. IndexInv'
    BY <1>7, <1>8 DEF SearchInv, IndexInv
  <1> QED
    BY <1>2, <1>3, <1>5, <1>9 DEF SearchInv

\* takeNext locks the oldest action of its document.
LEMMA SearchInvTake ==
  ASSUME SearchInv, NEW p \in Instances, NEW i \in 1..Len(actions), takeNext(p, i)
  PROVE  SearchInv'
  <1> DEFINE n == Len(actions)
  <1>1. /\ processor[p].pc = "idle" /\ OldestOfGroup(i) /\ actions[i].by = Nobody
        /\ actions' = [actions EXCEPT ![i] = [actions[i] EXCEPT !.by = p]]
        /\ processor' = [processor EXCEPT ![p] = [processor[p] EXCEPT !.pc = "next"]]
        /\ UNCHANGED <<table, index, gaveUp, overtaken>>
    BY DEF takeNext, Next_
  <1>2. actions[i] \in Action /\ n \in Nat /\ actions \in Seq(Action)
    BY ActionTyped DEF SearchInv, SearchTypes
  <1>3. [actions[i] EXCEPT !.by = p] \in Action
    BY <1>2 DEF Action
  <1>4. /\ actions' \in Seq(Action) /\ Len(actions') = n
        /\ \A k \in 1..n : k # i => actions'[k] = actions[k]
        /\ actions'[i] = [actions[i] EXCEPT !.by = p]
    <2>1. PICK a \in Action : a = [actions[i] EXCEPT !.by = p]
      BY <1>3
    <2>2. actions' = [actions EXCEPT ![i] = a]
      BY <1>1, <2>1
    <2>3. /\ [actions EXCEPT ![i] = a] \in Seq(Action) /\ Len([actions EXCEPT ![i] = a]) = Len(actions)
          /\ \A k \in 1..Len(actions) : [actions EXCEPT ![i] = a][k] = IF k = i THEN a ELSE actions[k]
      BY <1>2, ExceptSeq
    <2> QED
      BY <2>1, <2>2, <2>3
  <1>5. \A k \in 1..n :
             /\ actions'[k].doc = actions[k].doc /\ actions'[k].content = actions[k].content
             /\ actions'[k].committed = actions[k].committed
             /\ actions'[k].by = IF k = i THEN p ELSE actions[k].by
    BY <1>2, <1>4 DEF Action
  <1>6. /\ processor' \in [Instances -> ProcessorState]
        /\ processor'[p].pc = "next"
        /\ \A q \in Instances : q # p => processor'[q] = processor[q]
    <2>1. processor[p] \in ProcessorState /\ processor \in [Instances -> ProcessorState]
      BY DEF SearchInv, SearchTypes
    <2>2. [processor[p] EXCEPT !.pc = "next"] \in ProcessorState /\ [processor[p] EXCEPT !.pc = "next"].pc = "next"
      BY <2>1 DEF ProcessorState
    <2> QED
      BY <1>1, <2>1, <2>2
  <1>7. SearchTypes'
    BY <1>1, <1>4, <1>6 DEF SearchInv, SearchTypes
  <1>8. /\ \A k \in 1..n : actions[k].by # p
        /\ \A k \in 1..n : actions[k].by \in Instances \cup {Nobody}
        /\ p # Nobody
    BY <1>1, ActionTyped, SearchConstants DEF SearchInv, WorkInv
  <1>9. actions[i].committed /\ \A k \in 1..n : k < i => actions[k].doc # actions[i].doc
    <2>1. actions[i].committed /\ \A k \in 1..(i - 1) : actions[k].committed => actions[k].doc # actions[i].doc
      BY <1>1 DEF OldestOfGroup
    <2>2. \A k \in 1..n : k < i => k \in 1..(i - 1)
      BY <1>2
    <2> QED
      BY <2>1, <2>2 DEF SearchInv, QueueInv
  <1>10. QueueInv'
    <2>1. \A k \in 1..n : actions'[k].by # Nobody =>
             actions'[k].committed /\ \A l \in 1..n : l < k => actions'[l].doc # actions'[k].doc
      BY <1>5, <1>9 DEF SearchInv, QueueInv
    <2>2. \A k, l \in 1..n : k < l /\ actions'[k].doc = actions'[l].doc => actions'[k].committed /\ actions'[k].doc # All
      BY <1>5 DEF SearchInv, QueueInv
    <2>3. \A k \in 1..n : actions'[k].doc = All => actions'[k].committed
      BY <1>5 DEF SearchInv, QueueInv
    <2>4. ASSUME NEW k \in 1..n, actions'[k].committed, actions'[k].doc # All,
                 \A l \in 1..n : k < l /\ actions'[l].committed => actions'[l].doc # actions'[k].doc
          PROVE  actions'[k].content = table'[actions'[k].doc]
      <3>1. \A l \in 1..n : k < l /\ actions[l].committed => actions[l].doc # actions[k].doc
        BY <1>5, <2>4
      <3> QED
        BY <1>1, <1>5, <2>4, <3>1 DEF SearchInv, QueueInv
    <2> QED
      BY <1>4, <2>1, <2>2, <2>3, <2>4 DEF QueueInv
  <1>11. WorkInv'
    <2>1. \A k, l \in 1..n : actions'[k].by = actions'[l].by /\ actions'[k].by # Nobody => k = l
      BY <1>5, <1>8 DEF SearchInv, WorkInv
    <2>2. \A k \in 1..n : actions'[k].by # Nobody => processor'[actions'[k].by].pc # "idle"
      BY <1>5, <1>6, <1>8 DEF SearchInv, WorkInv
    <2>3. ASSUME NEW q \in Instances, processor'[q].pc \in {"emptied", "retrieved"}
          PROVE  /\ processor'[q] = processor[q]
                 /\ \E k \in 1..n : actions'[k].by = q /\ actions'[k].doc = All
      <3>1. q # p /\ processor'[q] = processor[q]
        BY <1>6, <2>3
      <3>2. PICK k \in 1..n : actions[k].by = q /\ actions[k].doc = All
        BY <2>3, <3>1 DEF SearchInv, WorkInv
      <3>3. k # i
        BY <1>1, <3>2, SearchConstants
      <3> QED
        BY <1>5, <3>1, <3>2, <3>3
    <2>4. \A q \in Instances : processor'[q].pc = "retrieved" => processor'[q].batch \in Batches
      BY <2>3 DEF SearchInv, WorkInv
    <2> QED
      BY <1>4, <2>1, <2>2, <2>3, <2>4 DEF WorkInv
  <1>12. \A k \in 1..n : Done(k)' <=> Done(k)
    BY <1>1, <1>5, <1>6, <1>8 DEF Done
  <1>13. /\ \A d \in Docs : Settled(d)' => Settled(d)
         /\ Rebuilding => Rebuilding'
    BY <1>1, <1>4, <1>5, <1>12 DEF Settled, Rebuilding
  <1>14. IndexInv'
    BY <1>1, <1>6, <1>13 DEF SearchInv, IndexInv
  <1> QED
    BY <1>7, <1>10, <1>11, <1>14 DEF SearchInv

\* A document is written: when nothing else is committed of it, what the table tells.
LEMMA SearchInvHandle ==
  ASSUME SearchInv, NEW p \in Instances, NEW i \in 1..Len(actions), handleActionTypeAddOrUpdateDocument(p, i)
  PROVE  SearchInv'
  <1> DEFINE n == Len(actions)
             d == actions[i].doc
  <1>1. /\ actions[i].by = p /\ d # All /\ processor[p].pc = "next"
        /\ index' = [index EXCEPT ![d] = actions[i].content]
        /\ processor' = [q \in Instances |->
                            IF q = p THEN [Idle EXCEPT !.pc = "handled"]
                            ELSE IF processor[q].pc = "retrieved" THEN [processor[q] EXCEPT !.others = processor[q].others \cup {d}]
                            ELSE processor[q]]
        /\ overtaken' = overtaken \ {d} /\ gaveUp' = gaveUp \ {d}
        /\ UNCHANGED <<table, actions>>
    BY DEF handleActionTypeAddOrUpdateDocument
  <1>2. d \in Docs /\ n \in Nat /\ actions[i].content \in Contents \cup {Absent} /\ p # Nobody
    BY <1>1, ActionTyped, SearchConstants DEF SearchInv
  <1>3. /\ processor' \in [Instances -> ProcessorState]
        /\ processor'[p].pc = "handled"
        /\ \A q \in Instances : q # p => processor'[q].pc = processor[q].pc /\ processor'[q].batch = processor[q].batch
        /\ \A q \in Instances : q # p /\ processor[q].pc = "retrieved" => processor'[q].others = processor[q].others \cup {d}
    <2>1. \A q \in Instances : processor[q] \in ProcessorState
      BY DEF SearchInv, SearchTypes
    <2>2. [Idle EXCEPT !.pc = "handled"] \in ProcessorState /\ [Idle EXCEPT !.pc = "handled"].pc = "handled"
      BY IdleStates
    <2>3. \A q \in Instances :
             /\ [processor[q] EXCEPT !.others = processor[q].others \cup {d}] \in ProcessorState
             /\ [processor[q] EXCEPT !.others = processor[q].others \cup {d}].pc = processor[q].pc
             /\ [processor[q] EXCEPT !.others = processor[q].others \cup {d}].batch = processor[q].batch
             /\ [processor[q] EXCEPT !.others = processor[q].others \cup {d}].others = processor[q].others \cup {d}
      BY <1>2, <2>1 DEF ProcessorState
    <2> QED
      BY <1>1, <2>1, <2>2, <2>3
  <1>4. SearchTypes'
    BY <1>1, <1>2, <1>3 DEF SearchInv, SearchTypes
  <1>5. QueueInv'
    BY <1>1 DEF SearchInv, QueueInv
  <1>6. /\ \A k \in 1..n : k # i => actions[k].by # p
        /\ \A k \in 1..n : actions[k].by \in Instances \cup {Nobody}
    BY <1>1, <1>2, ActionTyped DEF SearchInv, WorkInv
  <1>7. WorkInv'
    BY <1>1, <1>3, <1>6 DEF SearchInv, WorkInv
  <1>8. \A k \in 1..n : k # i => (Done(k)' <=> Done(k))
    BY <1>1, <1>3, <1>6 DEF Done
  <1>9. /\ \A e \in Docs : e # d /\ Settled(e)' => Settled(e)
        /\ Rebuilding => Rebuilding'
    BY <1>1, <1>8 DEF Settled, Rebuilding
  <1>10. ASSUME Settled(d)' PROVE index'[d] = table[d]
    <2>1. \A k \in 1..n : i < k /\ actions[k].committed => actions[k].doc # d
      <3> SUFFICES ASSUME NEW k \in 1..n, i < k, actions[k].committed, actions[k].doc = d PROVE FALSE
        OBVIOUS
      <3>1. actions[k].by # Nobody
        BY <1>1, <1>10 DEF Settled, Done
      <3> QED
        BY <3>1 DEF SearchInv, QueueInv
    <2>2. actions[i].content = table[d]
      BY <1>1, <1>2, <2>1 DEF SearchInv, QueueInv
    <2> QED
      BY <1>1, <1>2, <2>2 DEF SearchInv, SearchTypes
  <1>11. \A e \in Docs : e # d => index'[e] = index[e]
    BY <1>1, <1>2 DEF SearchInv, SearchTypes
  <1>12. IndexInv'
    <2>1. ~Rebuilding' => \A e \in Docs \ overtaken' : Settled(e)' => index'[e] = table'[e]
      BY <1>1, <1>9, <1>10, <1>11 DEF SearchInv, IndexInv
    <2>2. ASSUME NEW q \in Instances, processor'[q].pc = "emptied", NEW e \in Docs, Settled(e)', table'[e] = Absent
          PROVE  index'[e] = Absent
      BY <1>1, <1>3, <1>9, <1>10, <1>11, <2>2 DEF SearchInv, IndexInv
    <2>3. ASSUME NEW q \in Instances, processor'[q].pc = "retrieved", NEW e \in Docs \ processor'[q].others, Settled(e)'
          PROVE  table'[e] = IF processor'[q].batch[e] = Absent THEN index'[e] ELSE processor'[q].batch[e]
      <3>1. q # p /\ e # d /\ e \notin processor[q].others
        BY <1>3, <2>3
      <3> QED
        BY <1>1, <1>3, <1>9, <1>11, <2>3, <3>1 DEF SearchInv, IndexInv
    <2> QED
      BY <2>1, <2>2, <2>3 DEF IndexInv
  <1> QED
    BY <1>4, <1>5, <1>7, <1>12 DEF SearchInv

\* A rebuild empties the index, the tries of all starting anew with it.
LEMMA SearchInvDelete ==
  ASSUME SearchInv, NEW p \in Instances, NEW i \in 1..Len(actions), DeleteAllDocuments(p, i)
  PROVE  SearchInv'
  <1> DEFINE n == Len(actions)
  <1>1. /\ actions[i].by = p /\ actions[i].doc = All /\ processor[p].pc = "next"
        /\ index' = [d \in Docs |-> Absent]
        /\ processor' = [processor EXCEPT ![p] = [Idle EXCEPT !.pc = "emptied"]]
        /\ gaveUp' = {}
        /\ UNCHANGED <<table, actions, overtaken>>
    BY DEF DeleteAllDocuments, Step
  <1>2. /\ processor' \in [Instances -> ProcessorState]
        /\ processor'[p].pc = "emptied"
        /\ \A q \in Instances : q # p => processor'[q] = processor[q]
    <2>1. PICK state \in ProcessorState : state = [Idle EXCEPT !.pc = "emptied"] /\ state.pc = "emptied"
      BY IdleStates
    <2> QED
      BY <1>1, <2>1 DEF SearchInv, SearchTypes
  <1>3. SearchTypes'
    BY <1>1, <1>2 DEF SearchInv, SearchTypes
  <1>4. QueueInv'
    BY <1>1 DEF SearchInv, QueueInv
  <1>5. WorkInv'
    <2>1. \A k \in 1..n : actions[k].by # Nobody => processor'[actions[k].by].pc # "idle"
      BY <1>2, ActionTyped DEF SearchInv, WorkInv
    <2> QED
      BY <1>1, <1>2, <2>1 DEF SearchInv, WorkInv
  <1>6. ~Done(i)' /\ Rebuilding'
    BY <1>1, <1>2 DEF Done, Rebuilding
  <1>7. \A q \in Instances : processor'[q].pc # "retrieved"
    <2> SUFFICES ASSUME NEW q \in Instances, processor'[q].pc = "retrieved" PROVE FALSE
      OBVIOUS
    <2>1. q # p /\ processor[q].pc = "retrieved"
      BY <1>2
    <2>2. PICK k \in 1..n : actions[k].by = q /\ actions[k].doc = All
      BY <2>1 DEF SearchInv, WorkInv
    <2>3. k # i /\ i \in Nat /\ k \in Nat
      BY <1>1, <2>1, <2>2
    <2> QED
      BY <1>1, <2>2, <2>3 DEF SearchInv, QueueInv
  <1>8. IndexInv'
    BY <1>1, <1>6, <1>7 DEF IndexInv
  <1> QED
    BY <1>3, <1>4, <1>5, <1>8 DEF SearchInv

\* The batch is made of all that is committed.
LEMMA SearchInvRetrieve ==
  ASSUME SearchInv, NEW p \in Instances, documentRetriever(p)
  PROVE  SearchInv'
  <1> DEFINE n == Len(actions)
  <1>1. /\ processor[p].pc = "emptied"
        /\ processor' = [processor EXCEPT ![p] = [Idle EXCEPT !.pc = "retrieved", !.batch = table]]
        /\ UNCHANGED <<table, actions, index, overtaken, gaveUp>>
    BY DEF documentRetriever, Step
  <1>2. table \in Batches
    BY DEF SearchInv, SearchTypes, Batches
  <1>3. /\ processor' \in [Instances -> ProcessorState]
        /\ processor'[p].pc = "retrieved" /\ processor'[p].batch = table /\ processor'[p].others = {}
        /\ \A q \in Instances : q # p => processor'[q] = processor[q]
    <2>1. PICK state \in ProcessorState :
             /\ state = [Idle EXCEPT !.pc = "retrieved", !.batch = table]
             /\ state.pc = "retrieved" /\ state.batch = table /\ state.others = {}
      BY <1>2, IdleStates
    <2> QED
      BY <1>1, <2>1 DEF SearchInv, SearchTypes
  <1>4. SearchTypes'
    BY <1>1, <1>3 DEF SearchInv, SearchTypes
  <1>5. QueueInv'
    BY <1>1 DEF SearchInv, QueueInv
  <1>6. WorkInv'
    <2>1. \A k \in 1..n : actions[k].by # Nobody => processor'[actions[k].by].pc # "idle"
      BY <1>3, ActionTyped DEF SearchInv, WorkInv
    <2> QED
      BY <1>1, <1>2, <1>3, <2>1 DEF SearchInv, WorkInv
  <1>7. \A k \in 1..n : Done(k)' <=> Done(k)
    BY <1>1, <1>3, ActionTyped DEF SearchInv, Done
  <1>8. /\ \A d \in Docs : Settled(d)' => Settled(d)
        /\ Rebuilding => Rebuilding'
    BY <1>1, <1>7 DEF Settled, Rebuilding
  <1>9. IndexInv'
    BY <1>1, <1>3, <1>8 DEF SearchInv, IndexInv
  <1> QED
    BY <1>4, <1>5, <1>6, <1>9 DEF SearchInv

\* When the batch is sent the index is as the tables were when it was made, or newer.
LEMMA SearchInvBatch ==
  ASSUME SearchInv, NEW p \in Instances, UpdateDocumentsInBatch(p)
  PROVE  SearchInv'
  <1> DEFINE n == Len(actions)
             batch == processor[p].batch
  <1>1. /\ processor[p].pc = "retrieved"
        /\ index' = [d \in Docs |-> IF batch[d] = Absent THEN index[d] ELSE batch[d]]
        /\ overtaken' = processor[p].others
        /\ processor' = [processor EXCEPT ![p] = [Idle EXCEPT !.pc = "handled"]]
        /\ UNCHANGED <<table, actions, gaveUp>>
    BY DEF UpdateDocumentsInBatch, Step
  <1>2. /\ batch \in [Docs -> Contents \cup {Absent}]
        /\ processor[p].others \subseteq Docs
    BY <1>1 DEF SearchInv, SearchTypes, WorkInv, Batches, ProcessorState
  <1>3. /\ processor' \in [Instances -> ProcessorState]
        /\ processor'[p].pc = "handled"
        /\ \A q \in Instances : q # p => processor'[q] = processor[q]
    BY <1>1, IdleStates, ZenonT(60) DEF SearchInv, SearchTypes
  <1>4. SearchTypes'
    BY <1>1, <1>2, <1>3 DEF SearchInv, SearchTypes
  <1>5. QueueInv'
    BY <1>1 DEF SearchInv, QueueInv
  <1>6. WorkInv'
    <2>1. \A k \in 1..n : actions[k].by # Nobody => processor'[actions[k].by].pc # "idle"
      BY <1>3, ActionTyped DEF SearchInv, WorkInv
    <2> QED
      BY <1>1, <1>3, <2>1 DEF SearchInv, WorkInv
  <1>7. PICK i \in 1..n : actions[i].by = p /\ actions[i].doc = All
    BY <1>1 DEF SearchInv, WorkInv
  <1>8. \A k \in 1..n : k # i => actions[k].by # p /\ actions[k].doc # All
    <2>1. n \in Nat
      BY LenProperties DEF SearchInv, SearchTypes
    <2> QED
      BY <1>7, <2>1, SearchConstants DEF SearchInv, WorkInv, QueueInv
  <1>9. \A k \in 1..n : k # i => (Done(k)' <=> Done(k))
    BY <1>1, <1>3, <1>8, ActionTyped DEF SearchInv, Done
  <1>10. \A d \in Docs : Settled(d)' => Settled(d)
    BY <1>1, <1>7, <1>9, SearchConstants DEF Settled
  <1>11. \A q \in Instances : processor'[q].pc \notin {"emptied", "retrieved"}
    <2> SUFFICES ASSUME NEW q \in Instances, processor'[q].pc \in {"emptied", "retrieved"} PROVE FALSE
      OBVIOUS
    <2>1. q # p /\ processor[q].pc \in {"emptied", "retrieved"}
      BY <1>3
    <2>2. PICK k \in 1..n : actions[k].by = q /\ actions[k].doc = All
      BY <2>1 DEF SearchInv, WorkInv
    <2> QED
      BY <1>7, <1>8, <2>1, <2>2
  <1>12. \A d \in Docs \ overtaken' : Settled(d)' => index'[d] = table[d]
    BY <1>1, <1>10 DEF SearchInv, IndexInv
  <1>13. IndexInv'
    BY <1>1, <1>11, <1>12 DEF IndexInv
  <1> QED
    BY <1>4, <1>5, <1>6, <1>13 DEF SearchInv

\* The engine fails: the action is left to be tried once more, or given up.
LEMMA SearchInvFail ==
  ASSUME SearchInv, NEW p \in Instances, NEW i \in 1..Len(actions), WriteFailure(p, i)
  PROVE  SearchInv'
  <1>1. /\ actions[i].by = p
        /\ processor' = [processor EXCEPT ![p] = Idle]
        /\ UNCHANGED <<table, index, overtaken>>
    BY DEF WriteFailure
  <1>2. actions[i] \in Action /\ actions[i].doc \in Docs \cup {All} /\ actions \in Seq(Action)
    BY ActionTyped DEF SearchInv, SearchTypes
  <1>3. CASE actions[i].remainingTries > 1
    <2>1. /\ actions' = [actions EXCEPT ![i] = [actions[i] EXCEPT !.by = Nobody, !.failed = TRUE, !.remainingTries = actions[i].remainingTries - 1]]
          /\ UNCHANGED gaveUp
      BY <1>2, <1>3 DEF WriteFailure
    <2>2. PICK a \in Action : a = [actions[i] EXCEPT !.by = Nobody, !.failed = TRUE, !.remainingTries = actions[i].remainingTries - 1]
      <3>1. actions[i].remainingTries - 1 \in 1..RemainingTries
        BY <1>2, <1>3, SearchConstants DEF Action
      <3> QED
        BY <1>2, <3>1 DEF Action
    <2>3. /\ [actions EXCEPT ![i] = a] \in Seq(Action) /\ Len([actions EXCEPT ![i] = a]) = Len(actions)
          /\ \A k \in 1..Len(actions) : [actions EXCEPT ![i] = a][k] = IF k = i THEN a ELSE actions[k]
      BY <1>2, ExceptSeq
    <2>4. a.doc = actions[i].doc /\ a.content = actions[i].content /\ a.committed = actions[i].committed /\ a.by = Nobody
      BY <1>2, <2>2 DEF Action
    <2>5. /\ actions' \in Seq(Action) /\ Len(actions') = Len(actions)
          /\ \A k \in 1..Len(actions) :
                 /\ actions'[k].doc = actions[k].doc /\ actions'[k].content = actions[k].content
                 /\ actions'[k].committed = actions[k].committed
                 /\ actions'[k].by = IF k = i THEN Nobody ELSE actions[k].by
      BY <2>1, <2>2, <2>3, <2>4
    <2> QED
      BY <1>1, <2>1, <2>5, SearchInvUnlock
  <1>4. CASE ~(actions[i].remainingTries > 1)
    <2>1. /\ actions' = RemoveAt(actions, i)
          /\ gaveUp' = gaveUp \cup (IF actions[i].doc = All THEN Docs ELSE {actions[i].doc})
      BY <1>4 DEF WriteFailure
    <2>2. gaveUp \subseteq Docs
      BY DEF SearchInv, SearchTypes
    <2>3. /\ gaveUp' \subseteq Docs /\ gaveUp \subseteq gaveUp'
          /\ IF actions[i].doc = All THEN gaveUp' = Docs ELSE actions[i].doc \in gaveUp'
      BY <1>2, <2>1, <2>2
    <2> QED
      BY <1>1, <2>1, <2>3, SearchInvRemove
  <1> QED
    BY <1>3, <1>4

\* A processor ends, and others see its action.
LEMMA SearchInvRestart ==
  ASSUME SearchInv, NEW p \in Instances, NEW i \in 1..Len(actions), Restart(p, i)
  PROVE  SearchInv'
  <1>1. /\ actions[i].by = p
        /\ actions' = [actions EXCEPT ![i] = [actions[i] EXCEPT !.by = Nobody]]
        /\ processor' = [processor EXCEPT ![p] = Idle]
        /\ UNCHANGED <<table, index, gaveUp, overtaken>>
    BY DEF Restart
  <1>2. actions[i] \in Action /\ actions \in Seq(Action)
    BY ActionTyped DEF SearchInv, SearchTypes
  <1>3. PICK a \in Action : a = [actions[i] EXCEPT !.by = Nobody]
    BY <1>2 DEF Action
  <1>4. /\ [actions EXCEPT ![i] = a] \in Seq(Action) /\ Len([actions EXCEPT ![i] = a]) = Len(actions)
        /\ \A k \in 1..Len(actions) : [actions EXCEPT ![i] = a][k] = IF k = i THEN a ELSE actions[k]
    BY <1>2, ExceptSeq
  <1>5. a.doc = actions[i].doc /\ a.content = actions[i].content /\ a.committed = actions[i].committed /\ a.by = Nobody
    BY <1>2, <1>3 DEF Action
  <1>6. /\ actions' \in Seq(Action) /\ Len(actions') = Len(actions)
        /\ \A k \in 1..Len(actions) :
               /\ actions'[k].doc = actions[k].doc /\ actions'[k].content = actions[k].content
               /\ actions'[k].committed = actions[k].committed
               /\ actions'[k].by = IF k = i THEN Nobody ELSE actions[k].by
    BY <1>1, <1>3, <1>4, <1>5
  <1> QED
    BY <1>1, <1>6, SearchInvUnlock

\* Every step of transactions and processors keeps the invariant.
LEMMA SearchInvNext == SearchInv /\ [SearchNext]_searchVars => SearchInv'
  <1> SUFFICES ASSUME SearchInv, [SearchNext]_searchVars PROVE SearchInv'
    OBVIOUS
  <1>1. ASSUME NEW d \in Docs, NEW content \in Contents \cup {Absent}, SafeAddOrUpdateDocument(d, content)
        PROVE  SearchInv'
    BY <1>1, SearchInvAdd
  <1>2. ASSUME NEW i \in 1..Len(actions), AbortChange(i)
        PROVE  SearchInv'
    <2>1. gaveUp \subseteq Docs
      BY DEF SearchInv, SearchTypes
    <2> QED
      BY <1>2, <2>1, SearchInvRemove DEF AbortChange
  <1>3. ASSUME NEW i \in 1..Len(actions), NEW p \in Instances, WriteResult(p, i)
        PROVE  SearchInv'
    <2>1. gaveUp \subseteq Docs /\ Done(i)
      BY <1>3, SearchConstants DEF SearchInv, SearchTypes, WriteResult, Done
    <2> QED
      BY <1>3, <2>1, SearchInvRemove DEF WriteResult
  <1>4. CASE UNCHANGED searchVars
    BY <1>4 DEF searchVars, SearchInv, SearchTypes, QueueInv, WorkInv, IndexInv, Settled, Rebuilding, Done
  <1>5. ASSUME NEW p \in Instances, run(p)
        PROVE  SearchInv'
    BY <1>3, <1>5, SearchInvTake, SearchInvHandle, SearchInvDelete, SearchInvRetrieve, SearchInvBatch, SearchInvRestart
       DEF run, Panic
  <1> QED
    BY <1>1, <1>2, <1>4, <1>5, SearchInvRebuild, SearchInvCommit, SearchInvFail, SearchInvRestart
       DEF SearchNext, SafeDeleteDocumentByID, Crash

\* The invariant of the synchronisation holds for any documents, instances, tries and bounds.
THEOREM SearchInvariant == SearchInit /\ [][SearchNext]_searchVars => []SearchInv
  BY SearchInvInit, SearchInvNext, PTL

\* When nothing is left to do for a document, the index has what is committed.
LEMMA SearchInvCatchesUp == SearchInv => SearchTypeOK /\ IndexCatchesUp
  <1>1. ASSUME SearchInv PROVE SearchTypeOK
    <2>1. \A i \in DOMAIN actions : actions[i] \in Action
      BY <1>1, ElementOfSeq, LenProperties DEF SearchInv, SearchTypes
    <2>2. Range(actions) \subseteq Action
      BY <2>1 DEF Range
    <2> QED
      BY <1>1, <2>2 DEF SearchTypeOK, SearchInv, SearchTypes
  <1>2. ASSUME SearchInv PROVE IndexCatchesUp
    <2> SUFFICES ASSUME NEW d \in Docs, d \notin gaveUp, d \notin overtaken,
                        \A a \in Range(actions) : a.committed => a.doc \notin {d, All}
                 PROVE  index[d] = table[d]
      BY DEF IndexCatchesUp
    <2>1. \A i \in 1..Len(actions) : actions[i] \in Range(actions)
      BY <1>2, LenProperties DEF Range, SearchInv, SearchTypes
    <2>2. Settled(d) /\ ~Rebuilding
      BY <1>2, <2>1 DEF Settled, Rebuilding, SearchInv, QueueInv
    <2> QED
      BY <1>2, <2>2 DEF SearchInv, IndexInv
  <1> QED
    BY <1>1, <1>2

\* The index has what is committed of every document for which nothing is left to do, whatever was retried,
\* done twice or rebuilt meanwhile.
THEOREM IndexCatchesUpCorrect == SearchSpec => [](SearchTypeOK /\ IndexCatchesUp)
  BY SearchInvCatchesUp, SearchInvariant, PTL DEF SearchSpec
-----------------------------------------------------------------------------
(* All of them.                                                            *)

replicationVars == <<part, inboxVars, bookVars, intelVars, searchVars>>

\* A step of the whole is one of a part.
LEMMA PartsStep ==
  [Next]_replicationVars => /\ UNCHANGED part
                            /\ [InboxNext]_inboxVars
                            /\ [BookNext]_bookVars
                            /\ [IntelNext]_intelVars
                            /\ [SearchNext]_searchVars
  BY DEF Next, replicationVars

ReplicationInv == /\ part \in Parts
                  /\ InboxTypeOK /\ InboxInv /\ BookInv /\ IntelInv /\ SearchInv

\* The invariants of the parts hold side by side.
LEMMA ReplicationInvariant == Init /\ [][Next]_replicationVars => []ReplicationInv
  <1>1. Init => ReplicationInv
    BY InboxTypeInit, InboxInvInit, BookInvInit, IntelInvInit, SearchInvInit DEF Init, ReplicationInv
  <1>2. ReplicationInv /\ [Next]_replicationVars => ReplicationInv'
    <2>1. InboxInv => LocksInv
      BY DEF InboxInv
    <2> QED
      BY <2>1, PartsStep, InboxTypeNext, InboxInvNext, BookInvNext, IntelInvNext, SearchInvNext DEF ReplicationInv
  <1> QED
    BY <1>1, <1>2, PTL

\* Every variable of what follows others has its type.
THEOREM ReplicationTypesCorrect == Init /\ [][Next]_replicationVars => []TypesOK
  <1>1. ReplicationInv => TypesOK
    BY BookInvTypes, IntelInvCurrent, SearchInvCatchesUp DEF ReplicationInv, TypesOK, Parts
  <1> QED
    BY <1>1, ReplicationInvariant, PTL

\* Search documents tell what their tables do, and the index follows the actions that carry them.
THEOREM SearchFollowsTablesCorrect == Init /\ [][Next]_replicationVars => []SearchFollowsTables
  <1>1. ReplicationInv => SearchFollowsTables
    BY IntelInvCurrent, SearchInvCatchesUp DEF ReplicationInv, SearchFollowsTables, Parts, BookInv
  <1> QED
    BY <1>1, ReplicationInvariant, PTL

\* Lists, searches and requests by id agree on what somebody without the permission for everything
\* is shown.
THEOREM ShownIsPermittedCorrect == Init /\ [][Next]_replicationVars => []ShownIsPermitted
  <1>1. ReplicationInv => ShownIsPermitted
    BY BookInvViews, IntelInvShown DEF ReplicationInv, ShownIsPermitted, Parts
  <1> QED
    BY <1>1, ReplicationInvariant, PTL
=============================================================================
