-------------------------------- MODULE Intel --------------------------------
(***************************************************************************)
(* Intel of logistics-svc: who may create, invalidate and see it, and its  *)
(* search index.  A document repeats for which entries there are           *)
(* deliveries and which have succeeded; it is written anew with every      *)
(* change of the intel or of one of its deliveries, from reads at READ     *)
(* COMMITTED.  How deliveries get on is in module IntelDelivery, here they *)
(* end in some way; documents reach the index in the order of the commits  *)
(* (module SearchSync).                                                    *)
(***************************************************************************)
CONSTANTS IntelIDs, IntelEntries, IntelUsers,
          IntelMembers,  \* members of the operation of an intel
          IntelCallers,  \* users, with the permissions they have
          IntelTxs,      \* transactions at the same time
          NoIntel, NoOwner, GoneEntry

IntelPermissions == {"CreateIntel", "InvalidateIntel", "ViewAnyIntel", "RebuildSearchIndex"}
\* What the document of an intel tells.
IntelDocument == [valid : BOOLEAN, deliveryForEntries : SUBSET IntelEntries, deliveredToEntries : SUBSET IntelEntries]
ASSUME IntelConstants == /\ IntelMembers \in [IntelIDs -> SUBSET IntelUsers]
                         /\ IntelCallers \subseteq [user : IntelUsers, granted : SUBSET IntelPermissions]
                         /\ NoOwner \notin IntelUsers /\ GoneEntry \notin IntelUsers /\ NoOwner # GoneEntry
                         /\ NoIntel \notin BOOLEAN \cup IntelDocument

VARIABLES intelDB,     \* the tables: is_valid of intel, deliveries by intel and entry, users of entries
          intelDoc,    \* the index
          intelTx,     \* the running transactions
          unrefreshed  \* intel whose documents may be older than the tables

intelVars == <<intelDB, intelDoc, intelTx, unrefreshed>>

Pairs == IntelIDs \X IntelEntries
HasDelivery(db, i, es) == \E e \in es : db.delivery[<<i, e>>] # "none"
Delivered(db, i, es) == \E e \in es : db.delivery[<<i, e>>] = "success"
EntriesByUser(db, u) == {e \in IntelEntries : db.owner[e] = u}

documentFromIntelByID(db, i) ==
    IF db.valid[i] = NoIntel THEN NoIntel
    ELSE [valid |-> db.valid[i],
          deliveryForEntries |-> {e \in IntelEntries : db.delivery[<<i, e>>] # "none"},
          deliveredToEntries |-> {e \in IntelEntries : db.delivery[<<i, e>>] = "success"}]
-----------------------------------------------------------------------------
(* Views.                                                                  *)

\* like: the intel that fits the filters for what never changes (creator, operation, type, importance).
intelFiltersFromRequest ==
    [like : {IntelIDs}, includeInvalid : BOOLEAN,
     deliveryFor : SUBSET IntelEntries, deliveredTo : SUBSET IntelEntries]

LimitToUser(caller) == "ViewAnyIntel" \notin caller.granted

IntelByID(db, caller, i) ==
    /\ db.valid[i] # NoIntel
    /\ LimitToUser(caller) => HasDelivery(db, i, EntriesByUser(db, caller.user))

\* Mutant: filters are limited only if they ask for nobody in particular.
LimitedUnlessAsked(db, caller, f) ==
    IF f.deliveryFor = {} THEN [f EXCEPT !.deliveryFor = EntriesByUser(db, caller.user)] ELSE f

\* limitIntelFiltersToUser; a user without an entry is shown nothing.
Limited(db, caller, f) ==
    LET own == EntriesByUser(db, caller.user)
    IN  IF own \cap f.deliveryFor = {} THEN [f EXCEPT !.deliveryFor = own]
        ELSE [f EXCEPT !.deliveryFor = @ \cap own]
FiltersUsed(db, caller, f) ==
    IF ~LimitToUser(caller) THEN {f}
    ELSE IF EntriesByUser(db, caller.user) = {} THEN {} ELSE {Limited(db, caller, f)}

ListIntel(db, f) ==
    {i \in f.like : /\ db.valid[i] # NoIntel
                    /\ f.includeInvalid \/ db.valid[i]
                    /\ f.deliveryFor # {} => HasDelivery(db, i, f.deliveryFor)
                    /\ f.deliveredTo # {} => Delivered(db, i, f.deliveredTo)}

\* What the engine finds.
Hits(docs, f) ==
    {i \in f.like : /\ docs[i] # NoIntel
                    /\ f.includeInvalid \/ docs[i].valid
                    /\ f.deliveryFor # {} => f.deliveryFor \cap docs[i].deliveryForEntries # {}
                    /\ f.deliveredTo # {} => f.deliveredTo \cap docs[i].deliveredToEntries # {}}
\* "For safety", the query asks for the deliveries once more.
ShownHit(db, i, f) ==
    /\ db.valid[i] # NoIntel
    /\ f.deliveryFor # {} => HasDelivery(db, i, f.deliveryFor)
SearchIntel(db, docs, f) == {i \in Hits(docs, f) : ShownHit(db, i, f)}

handleGetIntelByID(caller, i) == IntelByID(intelDB, caller, i)
handleGetAllIntel(caller, f) == UNION {ListIntel(intelDB, g) : g \in FiltersUsed(intelDB, caller, f)}
handleSearchIntel(caller, f) == UNION {SearchIntel(intelDB, intelDoc, g) : g \in FiltersUsed(intelDB, caller, f)}
-----------------------------------------------------------------------------
(* Transactions.  A change sets some rows, and locks them.                 *)

Nothing == [x \in {} |-> NoIntel]
Row(x, to) == [y \in {x} |-> to]
Over(new, rows) == [x \in DOMAIN rows |-> IF x \in DOMAIN new THEN new[x] ELSE rows[x]]
IntelChange(valid, delivery, owner) == [valid |-> valid, delivery |-> delivery, owner |-> owner]
Applied(db, c) == [valid |-> Over(c.valid, db.valid), delivery |-> Over(c.delivery, db.delivery), owner |-> Over(c.owner, db.owner)]
RowsOf(c) == DOMAIN c.valid \cup DOMAIN c.delivery \cup DOMAIN c.owner
\* The intel whose documents tell of the change.
Affected(c) == DOMAIN c.valid \cup {pair[1] : pair \in DOMAIN c.delivery}

IdleIntelTx == [pc |-> "idle", change |-> IntelChange(Nothing, Nothing, Nothing), docs |-> Nothing, alone |-> TRUE]

IntelInit == /\ intelDB = [valid |-> [i \in IntelIDs |-> NoIntel], delivery |-> [pair \in Pairs |-> "none"],
                           owner |-> [e \in IntelEntries |-> NoOwner]]
             /\ intelDoc = [i \in IntelIDs |-> NoIntel]
             /\ intelTx = [r \in IntelTxs |-> IdleIntelTx]
             /\ unrefreshed = {}

\* Mutant: documents are made as of before the change.
DocumentsBefore(db, c, is) == [i \in is |-> documentFromIntelByID(db, i)]
\* addOrUpdateIntelInSearch: from what is committed by now and the transaction's own changes.
Documents(db, c, is) == [i \in is |-> documentFromIntelByID(Applied(db, c), i)]

WriteIntel(r, c, refreshed) ==
    /\ intelTx[r].pc = "idle"
    /\ \A q \in IntelTxs \ {r} : RowsOf(intelTx[q].change) \cap RowsOf(c) = {}
    /\ intelTx' = [intelTx EXCEPT ![r] = [pc |-> "write", change |-> c, alone |-> TRUE,
                                          docs |-> Documents(intelDB, c, refreshed)]]
    /\ UNCHANGED <<intelDB, intelDoc, unrefreshed>>

\* scheduleDeliveriesForIntel: no foreign key binds the recipients; deliveries without any
\* channel to try fail at once.
CreateIntel(r, by, i, deliverTo, failed) ==
    /\ intelDB.valid[i] = NoIntel
    /\ by \in IntelMembers[i]
    /\ WriteIntel(r, IntelChange(Row(i, TRUE), [pair \in {i} \X deliverTo |-> IF pair[2] \in failed THEN "failure" ELSE "active"],
                                 Nothing), {i})

\* Again for what is invalid already.
InvalidateIntelByID(r, i, by) ==
    /\ intelDB.valid[i] # NoIntel
    /\ by \in IntelMembers[i]
    /\ WriteIntel(r, IntelChange(Row(i, FALSE), Nothing, Nothing), {i})

\* UpdateIntelDeliveryStatusByDelivery.  Inactive deliveries may only become delivered.
EndDelivery(r, i, e, success) ==
    /\ intelDB.delivery[<<i, e>>] = "active" \/ (success /\ intelDB.delivery[<<i, e>>] # "none")
    /\ WriteIntel(r, IntelChange(Nothing, Row(<<i, e>>, IF success THEN "success" ELSE "failure"), Nothing), {i})

\* UpdateAddressBookEntry, for what it does to the views.
AssignEntry(r, e, u) ==
    /\ intelDB.owner[e] # GoneEntry
    /\ WriteIntel(r, IntelChange(Nothing, Nothing, Row(e, u)), {})

\* DeleteAddressBookEntryWithChannelsByID, refreshing no document.  It fails for deliveries that
\* have attempts, which this module does not tell apart.
DeleteEntry(r, e) ==
    LET to == {pair \in Pairs : pair[2] = e /\ intelDB.delivery[pair] # "none"}
    IN  /\ intelDB.owner[e] # GoneEntry
        /\ \A pair \in to : intelDB.delivery[pair] # "active"
        /\ WriteIntel(r, IntelChange(Nothing, [pair \in to |-> "none"], Row(e, GoneEntry)), {})

CommitIntelTx(r) ==
    LET tx == intelTx[r]
        seen == Affected(tx.change) # {}
    IN  /\ tx.pc = "write"
        /\ intelDB' = Applied(intelDB, tx.change)
        /\ intelDoc' = Over(tx.docs, intelDoc)
        /\ unrefreshed' = IF tx.alone THEN (unrefreshed \ DOMAIN tx.docs) \cup (Affected(tx.change) \ DOMAIN tx.docs)
                          ELSE unrefreshed \cup Affected(tx.change)
        /\ intelTx' = [q \in IntelTxs |-> IF q = r THEN IdleIntelTx ELSE [intelTx[q] EXCEPT !.alone = @ /\ ~seen]]
AbortIntelTx(r) ==
    /\ intelTx[r].pc = "write"
    /\ intelTx' = [intelTx EXCEPT ![r] = IdleIntelTx]
    /\ UNCHANGED <<intelDB, intelDoc, unrefreshed>>

\* rebuildIntelSearchIndex, as one step.
RebuildIntelSearch ==
    /\ intelDoc' = [i \in IntelIDs |-> documentFromIntelByID(intelDB, i)]
    /\ unrefreshed' = {}
    /\ UNCHANGED <<intelDB, intelTx>>

handleCreateIntel(caller, r, i, deliverTo, failed) ==
    "CreateIntel" \in caller.granted /\ CreateIntel(r, caller.user, i, deliverTo, failed)
handleInvalidateIntelByID(caller, r, i) == "InvalidateIntel" \in caller.granted /\ InvalidateIntelByID(r, i, caller.user)
handleRebuildIntelSearch(caller) == "RebuildSearchIndex" \in caller.granted /\ RebuildIntelSearch

IntelNext ==
    \/ \E caller \in IntelCallers :
        \/ \E r \in IntelTxs, i \in IntelIDs :
            \/ \E deliverTo \in SUBSET IntelEntries : \E failed \in SUBSET deliverTo :
                   handleCreateIntel(caller, r, i, deliverTo, failed)
            \/ handleInvalidateIntelByID(caller, r, i)
        \/ handleRebuildIntelSearch(caller)
    \/ \E r \in IntelTxs :
        \/ \E e \in IntelEntries :
            \/ \E i \in IntelIDs, success \in BOOLEAN : EndDelivery(r, i, e, success)
            \/ \E u \in IntelUsers : AssignEntry(r, e, u)
            \/ DeleteEntry(r, e)
        \/ CommitIntelTx(r) \/ AbortIntelTx(r)

IntelSpec == IntelInit /\ [][IntelNext]_intelVars
-----------------------------------------------------------------------------
(* Properties.                                                             *)

IntelTypeOK == /\ intelDB.valid \in [IntelIDs -> BOOLEAN \cup {NoIntel}]
               /\ intelDB.delivery \in [Pairs -> {"none", "active", "failure", "success"}]
               /\ intelDB.owner \in [IntelEntries -> IntelUsers \cup {NoOwner, GoneEntry}]
               /\ intelDoc \in [IntelIDs -> IntelDocument \cup {NoIntel}]
               /\ unrefreshed \subseteq IntelIDs

\* The document of an intel tells the state of it and its deliveries, as the comment of
\* addOrUpdateIntelInSearch demands - but for what was changed by two transactions at a time, and
\* deliveries deleted together with their recipient.
IntelDocumentsAreCurrent ==
    \A i \in IntelIDs \ unrefreshed : intelDoc[i] = documentFromIntelByID(intelDB, i)

\* Whatever the filters ask for and however old the documents are: who may not view any intel is
\* shown, by the list and by a search, only intel a request by id would show as well, which is
\* intel with a delivery to one of the user's entries of now.  With documents up to date, search
\* and list agree.
OnlyOwnIntelIsShown ==
    \A caller \in IntelCallers, f \in intelFiltersFromRequest :
        LET listed == handleGetAllIntel(caller, f)
            found == handleSearchIntel(caller, f)
        IN  /\ \A i \in listed \cup found : handleGetIntelByID(caller, i)
            /\ found \ unrefreshed = listed \ unrefreshed
=============================================================================
