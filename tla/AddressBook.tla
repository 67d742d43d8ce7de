----------------------------- MODULE AddressBook -----------------------------
(***************************************************************************)
(* The address book of logistics-svc and its search index.  A document    *)
(* repeats what its entry, the user and the operation of the entry and     *)
(* the members of operations tell; each change refreshes, within its       *)
(* transaction, the documents of the entries it looks up, from reads at    *)
(* READ COMMITTED.  Documents reach the index in the order of the commits  *)
(* (module SearchSync).  What the deletion of an entry does to deliveries  *)
(* and channels is in module IntelDelivery.                                *)
(***************************************************************************)
CONSTANTS BookEntries, BookUsers, BookOps,  \* ids
          BookRows,     \* what entries may be set to
          BookCallers,  \* who asks: a user, and whether all permissions for entries of others are granted
          BookRequests, BookHandlers,  \* changes by requests and by events at the same time
          None, NoEntry, RemovedEntry

BookTxs == BookRequests \cup BookHandlers

EntryRow == [user : BookUsers \cup {None}, op : BookOps \cup {None}]
\* addressBookEntrySearchDocument: what the document of an entry tells.
EntryDocument == [row : EntryRow, active : BOOLEAN \cup {None}, visibleBy : SUBSET BookUsers,
                  archived : BOOLEAN \cup {None}]
ASSUME BookConstants == /\ BookRows \subseteq EntryRow
                        /\ BookCallers \subseteq [user : BookUsers, any : BOOLEAN]
                        /\ None \notin BookUsers \cup BookOps \cup BOOLEAN
                        /\ NoEntry \notin EntryRow \cup EntryDocument /\ RemovedEntry \notin EntryRow /\ NoEntry # RemovedEntry

VARIABLES book,      \* the tables: entries, whether users are active and operations archived, members
          entryDoc,  \* the index
          bookTx,    \* the running transactions
          missed     \* entries whose documents may be older than the tables

bookVars == <<book, entryDoc, bookTx, missed>>

EntriesOf(b, users) == {e \in BookEntries : b.entry[e] \in EntryRow /\ b.entry[e].user \in users}
EntriesFor(b, o) == {e \in BookEntries : b.entry[e] \in EntryRow /\ b.entry[e].op = o}
-----------------------------------------------------------------------------
(* Who sees whom.                                                          *)

\* Mutant: one operation is taken for all.
VisibleByEverybody(b, u) == BookUsers \ {u}
visibleByForUser(b, u) == {v \in BookUsers \ {u} : \E o \in BookOps : {u, v} \subseteq b.members[o]}

isUserVisibleBy(b, u, by) == \E o \in BookOps : {u, by} \subseteq b.members[o]

\* AddressBookEntryByID, visible-by being the caller without the permission.
EntryByIDFound(b, e, by) ==
    /\ b.entry[e] \in EntryRow
    /\ by # None /\ b.entry[e].user # None => isUserVisibleBy(b, b.entry[e].user, by)

\* AddressBookEntries.  An entry for the given operation would have to be global as well, due to
\* the place of a parenthesis.
ForOperation(b, e, o) == b.entry[e].op = o /\ b.entry[e].op = None
AddressBookEntries(b, f) ==
    {e \in BookEntries :
        /\ b.entry[e] \in EntryRow
        /\ f.byUser # None => b.entry[e].user = f.byUser
        /\ f.forOperation # None => ForOperation(b, e, f.forOperation)
        /\ f.excludeGlobal => b.entry[e].op # None
        /\ f.visibleBy # None /\ b.entry[e].user # None =>
               \E o \in BookOps : {f.visibleBy, b.entry[e].user} \subseteq b.members[o]
        /\ ~f.inactive /\ b.entry[e].user # None => b.active[b.entry[e].user]}

documentFromAddressBookEntry(row, active, visibleBy, archived) ==
    [row |-> row, active |-> active, visibleBy |-> visibleBy, archived |-> archived]

documentFromAddressBookEntryByID(b, e) ==
    LET row == b.entry[e]
    IN  IF row \notin EntryRow THEN NoEntry
        ELSE documentFromAddressBookEntry(
                 row,
                 IF row.user = None THEN None ELSE b.active[row.user],
                 IF row.user = None THEN {} ELSE visibleByForUser(b, row.user),
                 IF row.op = None THEN None ELSE b.archived[row.op])

\* The engine updates a document: what the new one lacks stays as it was, which is the user of an
\* entry that has none any more and its operation.
UpdateDocuments(old, new) ==
    IF NoEntry \in {old, new} THEN new
    ELSE LET user == IF new.row.user = None THEN old ELSE new
             op == IF new.row.op = None THEN old ELSE new
         IN  documentFromAddressBookEntry([user |-> user.row.user, op |-> op.row.op],
                                          user.active, user.visibleBy, op.archived)
\* A document tells what its entry is, besides what it keeps.
IsCurrent(doc, new) == doc = UpdateDocuments(doc, new)

\* SearchAddressBookEntries.  Left out are filters for operations: it is up to the search engine
\* what it takes for equal to null.
SearchAddressBookEntries(docs, f) ==
    {e \in BookEntries :
        /\ docs[e] # NoEntry
        /\ f.byUser # None => docs[e].row.user = f.byUser
        /\ f.visibleBy # None => f.visibleBy \in docs[e].visibleBy
        /\ ~f.inactive => docs[e].row.user = None \/ docs[e].active = TRUE}

\* addressBookEntryFiltersFromQuery, and what the handlers make of the permission.
FiltersFromQuery(by) ==
    [byUser : BookUsers \cup {None}, forOperation : {None}, excludeGlobal : {FALSE},
     visibleBy : {by}, inactive : BOOLEAN]
VisibleBy(caller) == IF caller.any THEN None ELSE caller.user
-----------------------------------------------------------------------------
(* Changes: of an entry, a user, an operation or its members.              *)

EntryChange(e, row) == [kind |-> "entry", id |-> e, to |-> row]
UserChange(u, active) == [kind |-> "active", id |-> u, to |-> active]
OperationChange(o, archived) == [kind |-> "archived", id |-> o, to |-> archived]
MembersChange(o, members) == [kind |-> "members", id |-> o, to |-> members]

Changed(b, c) == [b EXCEPT ![c.kind][c.id] = c.to]

\* UpdateUser looks up its entries excluding global ones.
RefreshedByUser(b, u) ==
    AddressBookEntries(b, [byUser |-> u, forOperation |-> None, excludeGlobal |-> TRUE,
                           visibleBy |-> None, inactive |-> TRUE])
\* Mutant: those who have left the operation are forgotten.
RefreshedByNewMembers(b, o, members) == EntriesOf(b, members)
\* Without new members nothing is refreshed.
RefreshedByMembers(b, o, members) ==
    IF members = {} THEN {} ELSE EntriesOf(b, b.members[o] \cup members)

Refreshed(b, c) ==
    CASE c.kind = "entry" -> {c.id}
      [] c.kind = "active" -> RefreshedByUser(b, c.id)
      [] c.kind = "archived" -> {}
      [] c.kind = "members" -> RefreshedByMembers(b, c.id, c.to)

\* What is known to be left out, and everything whose document tells of the change.
LeftOut(b, c) ==
    CASE c.kind = "entry" -> {}
      [] c.kind = "active" -> EntriesOf(b, {c.id}) \cap EntriesFor(b, None)
      [] c.kind = "archived" -> EntriesFor(b, c.id)
      [] c.kind = "members" -> IF c.to = {} THEN EntriesOf(b, b.members[c.id]) ELSE {}
Concerned(b, c) ==
    CASE c.kind = "entry" -> {c.id}
      [] c.kind = "active" -> EntriesOf(b, {c.id})
      [] c.kind = "archived" -> EntriesFor(b, c.id)
      [] c.kind = "members" -> EntriesOf(b, b.members[c.id] \cup c.to)
-----------------------------------------------------------------------------
IdleBookTx == [pc |-> "idle", change |-> UserChange(None, None), docs |-> [e \in {} |-> NoEntry], alone |-> FALSE]

BookInit == /\ book = [entry |-> [e \in BookEntries |-> NoEntry], active |-> [u \in BookUsers |-> TRUE],
                       archived |-> [o \in BookOps |-> FALSE], members |-> [o \in BookOps |-> {}]]
            /\ entryDoc = [e \in BookEntries |-> NoEntry]
            /\ bookTx = [r \in BookTxs |-> IdleBookTx]
            /\ missed = {}

StepBookTx(r, tx) == bookTx' = [bookTx EXCEPT ![r] = tx] /\ UNCHANGED <<book, entryDoc, missed>>

\* The row is written, and locked, and the documents are made from what is committed by then.
Write(r, c) ==
    /\ \A q \in BookTxs \ {r} : bookTx[q].pc = "write" => bookTx[q].change.id # c.id
    /\ StepBookTx(r, [pc |-> "write", change |-> c, alone |-> TRUE,
                      docs |-> [e \in Refreshed(book, c) |->
                                   documentFromAddressBookEntryByID(Changed(book, c), e)]])

CreateAddressBookEntry(r, e, row) ==
    /\ bookTx[r].pc = "idle"
    /\ book.entry[e] = NoEntry
    /\ Write(r, EntryChange(e, row))

\* UpdateAddressBookEntry and DeleteAddressBookEntryWithChannelsByID read the entry first.
CheckEntry(r, e, row, limitToUser) ==
    /\ bookTx[r].pc = "idle"
    /\ book.entry[e] \in EntryRow
    /\ limitToUser # None => book.entry[e].user = limitToUser
    /\ StepBookTx(r, [IdleBookTx EXCEPT !.pc = "checked", !.change = EntryChange(e, row)])
UpdateAddressBookEntry(r, e, row, limitToUser) == CheckEntry(r, e, row, limitToUser)
DeleteAddressBookEntry(r, e, limitToUser) == CheckEntry(r, e, RemovedEntry, limitToUser)
WriteEntry(r) ==
    /\ bookTx[r].pc = "checked"
    /\ book.entry[bookTx[r].change.id] \in EntryRow
    /\ Write(r, bookTx[r].change)

\* The handlers of events, one at a time for a user or an operation.
UpdateUser(r, u, active) ==
    /\ bookTx[r].pc = "idle"
    /\ Write(r, UserChange(u, active))
UpdateOperation(r, o, archived) ==
    /\ bookTx[r].pc = "idle"
    /\ Write(r, OperationChange(o, archived))
UpdateOperationMembersByOperation(r, o, members) ==
    /\ bookTx[r].pc = "idle"
    /\ Write(r, MembersChange(o, members))

CommitBookTx(r) ==
    LET c == bookTx[r].change
    IN  /\ bookTx[r].pc = "write"
        /\ book' = Changed(book, c)
        /\ entryDoc' = [e \in BookEntries |->
                           IF e \in DOMAIN bookTx[r].docs THEN UpdateDocuments(entryDoc[e], bookTx[r].docs[e]) ELSE entryDoc[e]]
        /\ missed' = IF bookTx[r].alone THEN (missed \ DOMAIN bookTx[r].docs) \cup LeftOut(book, c)
                     ELSE missed \cup Concerned(book, c) \cup DOMAIN bookTx[r].docs
        /\ bookTx' = [q \in BookTxs |-> IF q = r THEN IdleBookTx ELSE [bookTx[q] EXCEPT !.alone = FALSE]]
AbortBookTx(r) ==
    /\ bookTx[r].pc # "idle"
    /\ StepBookTx(r, IdleBookTx)

\* rebuildAddressBookEntrySearchIndex, as one step.
RebuildAddressBookEntrySearch ==
    /\ entryDoc' = [e \in BookEntries |-> documentFromAddressBookEntryByID(book, e)]
    /\ missed' = {}
    /\ UNCHANGED <<book, bookTx>>

\* The endpoints.
handleCreateAddressBookEntry(caller, r, e, row) ==
    /\ row.user = caller.user \/ caller.any
    /\ CreateAddressBookEntry(r, e, row)
handleUpdateAddressBookEntry(caller, r, e, row) == UpdateAddressBookEntry(r, e, row, VisibleBy(caller))
handleDeleteAddressBookEntryByID(caller, r, e) == DeleteAddressBookEntry(r, e, VisibleBy(caller))
handleRebuildAddressBookEntrySearch(caller) == caller.any /\ RebuildAddressBookEntrySearch
\* What a request for one entry, for the list and for a search shows.
handleGetAddressBookEntryByID(caller, e) == EntryByIDFound(book, e, VisibleBy(caller))
handleGetAllAddressBookEntries(f) == AddressBookEntries(book, f)
handleSearchAddressBookEntries(f) == SearchAddressBookEntries(entryDoc, f)

BookNext ==
    \/ \E caller \in BookCallers, e \in BookEntries, r \in BookRequests :
        \/ \E row \in BookRows : \/ handleCreateAddressBookEntry(caller, r, e, row)
                                 \/ handleUpdateAddressBookEntry(caller, r, e, row)
        \/ handleDeleteAddressBookEntryByID(caller, r, e)
    \/ \E caller \in BookCallers : handleRebuildAddressBookEntrySearch(caller)
    \/ \E r \in BookHandlers :
        \* Whether users without an entry are active is no matter.
        \/ \E u \in {row.user : row \in BookRows} \ {None}, active \in BOOLEAN : UpdateUser(r, u, active)
        \/ \E o \in BookOps : \/ \E archived \in BOOLEAN : UpdateOperation(r, o, archived)
                              \/ \E members \in SUBSET BookUsers : UpdateOperationMembersByOperation(r, o, members)
    \/ \E r \in BookTxs : WriteEntry(r) \/ CommitBookTx(r) \/ AbortBookTx(r)

BookSpec == BookInit /\ [][BookNext]_bookVars
-----------------------------------------------------------------------------
(* Properties.                                                             *)

BookTypeOK == /\ book.entry \in [BookEntries -> EntryRow \cup {NoEntry, RemovedEntry}]
              /\ book.active \in [BookUsers -> BOOLEAN] /\ book.archived \in [BookOps -> BOOLEAN]
              /\ book.members \in [BookOps -> SUBSET BookUsers]
              /\ entryDoc \in [BookEntries -> EntryDocument \cup {NoEntry}]
              /\ \A r \in BookTxs : bookTx[r].pc \in {"idle", "checked", "write"}
              /\ missed \subseteq BookEntries

\* Every change refreshes the documents that tell of it, except for global entries of a changed
\* user, entries of a changed operation, those of members when a list becomes empty, and what
\* another transaction has changed meanwhile.
DocumentsAreCurrent ==
    \A e \in BookEntries \ missed : IsCurrent(entryDoc[e], documentFromAddressBookEntryByID(book, e))

\* One entry, the list and the search agree on who sees what, up to what missed and the inactive
\* users explain - only that the search hides one's own entries, and takes those without a user
\* for hidden or for those of the user they had.
ViewsAgree ==
    \A caller \in BookCallers : \A f \in FiltersFromQuery(VisibleBy(caller)) :
        LET listed == handleGetAllAddressBookEntries(f)
            own == EntriesOf(book, {None} \cup (IF caller.any THEN {} ELSE {caller.user}))
        IN  /\ handleSearchAddressBookEntries(f) \ (own \cup missed) = listed \ (own \cup missed)
            /\ f.byUser = None /\ f.inactive =>
                   listed = {e \in BookEntries : handleGetAddressBookEntryByID(caller, e)}
=============================================================================
