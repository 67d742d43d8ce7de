---------------------------- MODULE AutoDelivery ----------------------------
(***************************************************************************)
(* The list of address book entries with auto-delivery enabled            *)
(* (logistics-svc, store/address_book.go).  Each change clears the whole  *)
(* list with a DELETE ... RETURNING and writes it anew; a change of one   *)
(* entry does so twice.                                                    *)
(*                                                                         *)
(* At READ COMMITTED a DELETE sees the rows committed when it starts,     *)
(* waits for those another transaction has deleted and skips them if that *)
(* one commits; what it inserted instead is not seen.  The events about   *)
(* the change are committed with it.                                       *)
(***************************************************************************)
EXTENDS Naturals, FiniteSets

CONSTANTS Entries,
          Txs    \* transactions running at the same time

VARIABLES rows,   \* committed entries of auto_intel_delivery_address_book_entries
          tx,     \* the running changes
          told    \* per entry: what the newest event about it says

autoVars == <<rows, tx, told>>

\* entries: the one entry or the list to be set; snapshot: rows the current DELETE is
\* going to delete; locked: rows deleted by this transaction; new: rows to insert;
\* cleared: what the second DELETE returned; alone: no other change has overlapped it.
Tx == [pc : {"idle", "clear", "set", "reset", "insert", "commit"}, single : BOOLEAN, enabled : BOOLEAN,
       alone : BOOLEAN, entries : SUBSET Entries, snapshot : SUBSET Entries, locked : SUBSET Entries,
       new : SUBSET Entries, cleared : SUBSET Entries]
IdleTx == [pc |-> "idle", single |-> FALSE, enabled |-> FALSE, alone |-> FALSE, entries |-> {}, snapshot |-> {},
           locked |-> {}, new |-> {}, cleared |-> {}]

AutoTypeOK == /\ rows \subseteq Entries
              /\ tx \in [Txs -> Tx]
              /\ told \in [Entries -> BOOLEAN]

AutoInit == /\ rows = {}
            /\ tx = [t \in Txs |-> IdleTx]
            /\ told = [e \in Entries |-> FALSE]

\* Another transaction has deleted one of the rows, or inserted one of them.
HeldByOther(t, es) ==
    \E u \in Txs \ {t} : \/ tx[u].locked \cap es # {}
                         \/ tx[u].pc = "commit" /\ tx[u].new \cap es # {}
\* Mutant: the old entries are read without a lock.
ReadUnlocked(t, es) == FALSE

DeletedByOther(t, es) == \E u \in Txs \ {t} : tx[u].locked \cap es # {}

\* A transaction starts: whatever else is running is no longer alone.
Start(t, change) ==
    /\ tx[t].pc = "idle"
    /\ tx' = [u \in Txs |-> IF u # t THEN [tx[u] EXCEPT !.alone = FALSE]
                            ELSE [change EXCEPT !.alone = \A v \in Txs : tx[v].pc = "idle"]]
    /\ UNCHANGED <<rows, told>>

\* SetAutoDeliveryEnabledForAddressBookEntry: the first DELETE starts.
SetOne(t, e, on) ==
    Start(t, [IdleTx EXCEPT !.pc = "clear", !.single = TRUE, !.enabled = on,
                            !.entries = {e}, !.snapshot = rows])

\* Mutants: the other entries are not kept; the entries are nested.
NewOnlyGiven(old, e, on) == IF on THEN e ELSE {}
NewNested(old, e, on) == (old \ e) \cup (IF on THEN {e} ELSE {})

\* The entries that stay enabled, and the given one if it is to be enabled.
NewWithEnabled(old, e, on) == (old \ e) \cup (IF on THEN e ELSE {})

\* The first DELETE has all its rows.
FirstClear(t) ==
    /\ tx[t].pc = "clear"
    /\ ~DeletedByOther(t, tx[t].snapshot)
    /\ tx' = [tx EXCEPT ![t].pc = "set", ![t].locked = tx[t].snapshot, ![t].snapshot = {},
                        ![t].new = NewWithEnabled(tx[t].snapshot, tx[t].entries, tx[t].enabled)]
    /\ UNCHANGED <<rows, told>>

\* SetAddressBookEntriesWithAutoDeliveryEnabled called for a list.
SetList(t, es) ==
    Start(t, [IdleTx EXCEPT !.pc = "set", !.entries = es, !.new = es])

\* Its DELETE starts; rows this transaction has deleted are not seen.
StartClear(t) ==
    /\ tx[t].pc = "set"
    /\ tx' = [tx EXCEPT ![t].pc = "reset", ![t].snapshot = rows \ tx[t].locked]
    /\ UNCHANGED <<rows, told>>

\* Its DELETE has all its rows.  All of them are returned, the enabled ones included.
Clear(t) ==
    /\ tx[t].pc = "reset"
    /\ ~DeletedByOther(t, tx[t].snapshot)
    /\ tx' = [tx EXCEPT ![t].pc = "insert", ![t].locked = @ \cup tx[t].snapshot,
                        ![t].cleared = tx[t].snapshot, ![t].snapshot = {}]
    /\ UNCHANGED <<rows, told>>

\* The INSERT, if the primary key allows it.
Insert(t) ==
    /\ tx[t].pc = "insert"
    /\ ~HeldByOther(t, tx[t].new)
    /\ tx[t].new \cap (rows \ tx[t].locked) = {}
    /\ tx' = [tx EXCEPT ![t].pc = "commit"]
    /\ UNCHANGED <<rows, told>>

\* Mutant: the entry of a change of one entry is announced as enabled, as those of a list are.
AnnouncedAsList(t) ==
    [e \in Entries |-> IF e \in tx[t].cleared THEN FALSE ELSE e \in tx[t].entries \/ told[e]]

\* First the enabled entries are announced, then the ones returned as disabled.
Announced(t) ==
    [e \in Entries |->
        IF tx[t].single THEN (IF e \in tx[t].entries THEN tx[t].enabled ELSE told[e])
        ELSE IF e \in tx[t].cleared THEN FALSE
        ELSE e \in tx[t].entries \/ told[e]]

Commit(t) ==
    /\ tx[t].pc = "commit"
    /\ rows' = (rows \ tx[t].locked) \cup tx[t].new
    /\ told' = Announced(t)
    /\ tx' = [u \in Txs |-> IF u = t THEN IdleTx
                            ELSE [tx[u] EXCEPT !.snapshot = @ \ tx[t].locked]]

\* A duplicate key, a deadlock or a failure of the database.
Abort(t) ==
    /\ tx[t].pc # "idle"
    /\ tx' = [tx EXCEPT ![t] = IdleTx]
    /\ UNCHANGED <<rows, told>>

AutoNext ==
    \E t \in Txs :
        \/ \E e \in Entries, on \in BOOLEAN : SetOne(t, e, on)
        \/ \E es \in SUBSET Entries : SetList(t, es)
        \/ FirstClear(t) \/ StartClear(t) \/ Clear(t) \/ Insert(t) \/ Commit(t) \/ Abort(t)

AutoSpec == AutoInit /\ [][AutoNext]_autoVars
-----------------------------------------------------------------------------
(* Properties.                                                             *)

\* What the services were told is what the table says.
Consistent == \A e \in Entries : told[e] <=> e \in rows

\* SetAutoDeliveryEnabledForAddressBookEntry "sets auto intel delivery enabled for the
\* address book entry with the given id": a change of one entry that no other change
\* overlaps leaves the others as they are, although it rewrites the whole list.
LoneChangeSetsOneEntry ==
    [][\A t \in Txs : (Commit(t) /\ tx[t].single /\ tx[t].alone) =>
            /\ \A e \in Entries \ tx[t].entries : e \in rows <=> e \in rows'
            /\ \A e \in tx[t].entries : e \in rows' <=> tx[t].enabled]_autoVars

\* An entry becomes enabled only because the change that is committed asks for it: rewriting
\* the list never brings back an entry that somebody else disabled meanwhile.
NobodyEnabledUnasked ==
    [][\A t \in Txs : Commit(t) =>
            rows' \ rows \subseteq (IF tx[t].enabled \/ ~tx[t].single THEN tx[t].entries ELSE {})]_autoVars

\* Services that rely on the events (open-intel-delivery-notifier-svc) keep the same list:
\* a lone change of one entry announces what it did.
LoneChangeIsAnnounced ==
    [][\A t \in Txs : (Commit(t) /\ tx[t].single /\ tx[t].alone /\ Consistent) => Consistent']_autoVars
=============================================================================
