----------------------------- MODULE Permissions -----------------------------
(***************************************************************************)
(* The permissions granted to users (permission-svc) and the copy         *)
(* api-gateway-svc keeps of them.  As in module Operations a list is      *)
(* replaced by DELETE and INSERT, but a unique index holds for the user   *)
(* and the name of the permission: an INSERT waits for a transaction that *)
(* has inserted or deleted the same permission, and fails if it is there. *)
(***************************************************************************)
EXTENDS Naturals, Sequences, SequencesExt

CONSTANTS Grantees,    \* users, created before
          Grants,      \* names of permissions
          GrantReqs,   \* requests running at the same time
          Granters,    \* what each caller may do
          MaxGrantEvents,  \* bound: events per user that api-gateway-svc has not handled
          NoGrantee

GrantRow == [name : Grants, by : GrantReqs]

ASSUME GrantConstants == /\ Granters \subseteq SUBSET {"UpdatePermissions"}
                         /\ MaxGrantEvents \in Nat
                         /\ NoGrantee \notin Grantees

VARIABLES grantRows,    \* table permissions, per user
          grantTx,      \* the running requests
          grantEvents,  \* per user: lists that were told and api-gateway-svc has not handled yet
          grantCopy,    \* its table permissions
          mixed         \* users whose newest list was written while another was being written

grantVars == <<grantRows, grantTx, grantEvents, grantCopy, mixed>>

\* snapshot: rows the DELETE is going to delete; gone: rows it has deleted; inserted: new rows.
GrantTx == [pc : {"idle", "clear", "insert", "commit"}, user : Grantees \cup {NoGrantee}, list : SUBSET Grants,
            snapshot : SUBSET GrantRow, gone : SUBSET GrantRow, inserted : SUBSET GrantRow, alone : BOOLEAN]
IdleGrantTx == [pc |-> "idle", user |-> NoGrantee, list |-> {}, snapshot |-> {}, gone |-> {},
                inserted |-> {}, alone |-> FALSE]

NamesOf(rows) == {row.name : row \in rows}
Others(r) == {q \in GrantReqs \ {r} : grantTx[q].user = grantTx[r].user}

GrantInit == /\ grantRows = [u \in Grantees |-> {}]
             /\ grantTx = [r \in GrantReqs |-> IdleGrantTx]
             /\ grantEvents = [u \in Grantees |-> <<>>]
             /\ grantCopy = [u \in Grantees |-> {}]
             /\ mixed = {}

StepGrantTx(r, tx) ==
    /\ grantTx' = [grantTx EXCEPT ![r] = tx]
    /\ UNCHANGED <<grantRows, grantEvents, grantCopy, mixed>>
-----------------------------------------------------------------------------
\* UpdatePermissionsByUser, for an existing user: the DELETE starts.
UpdatePermissionsByUser(r, u, list) ==
    /\ grantTx[r].pc = "idle"
    /\ grantTx' = [q \in GrantReqs |->
           IF q = r THEN [IdleGrantTx EXCEPT !.pc = "clear", !.user = u, !.list = list, !.snapshot = grantRows[u],
                                             !.alone = \A p \in GrantReqs : grantTx[p].user # u]
           ELSE IF grantTx[q].user = u THEN [grantTx[q] EXCEPT !.alone = FALSE]
           ELSE grantTx[q]]
    /\ UNCHANGED <<grantRows, grantEvents, grantCopy, mixed>>

\* It waits for the rows that others have deleted.
ClearGrants(r) ==
    /\ grantTx[r].pc = "clear"
    /\ \A q \in Others(r) : grantTx[q].gone \cap grantTx[r].snapshot = {}
    /\ StepGrantTx(r, [grantTx[r] EXCEPT !.pc = "insert", !.gone = grantTx[r].snapshot, !.snapshot = {}])

InsertGrants(r) ==
    LET tx == grantTx[r]
    IN  /\ tx.pc = "insert"
        /\ NamesOf(grantRows[tx.user] \ tx.gone) \cap tx.list = {}
        /\ \A q \in Others(r) : NamesOf(grantTx[q].inserted) \cap tx.list = {}
        /\ StepGrantTx(r, [tx EXCEPT !.pc = "commit", !.inserted = [name : tx.list, by : {r}]])

\* Mutant: the event is forgotten when the list is empty.
ListToldUnlessEmpty(list) == IF list = {} THEN <<>> ELSE <<list>>
\* NotifyPermissionsUpdated
ListTold(list) == <<list>>

CommitGrants(r) ==
    LET tx == grantTx[r]
        u == tx.user
    IN  /\ tx.pc = "commit"
        /\ Len(grantEvents[u]) < MaxGrantEvents
        /\ grantRows' = [grantRows EXCEPT ![u] = (@ \ tx.gone) \cup tx.inserted]
        /\ grantEvents' = [grantEvents EXCEPT ![u] = @ \o ListTold(tx.list)]
        /\ mixed' = IF tx.alone THEN mixed \ {u} ELSE mixed \cup {u}
        /\ grantTx' = [q \in GrantReqs |->
               IF q = r THEN IdleGrantTx
               ELSE IF q \in Others(r) THEN [grantTx[q] EXCEPT !.snapshot = @ \ tx.gone]
               ELSE grantTx[q]]
        /\ UNCHANGED grantCopy

\* A permission that is already there, or a failure of the database.
AbortGrants(r) ==
    /\ grantTx[r].pc # "idle"
    /\ StepGrantTx(r, IdleGrantTx)

handleUpdatePermissionsByUser(may, r, u, list) ==
    "UpdatePermissions" \in may /\ UpdatePermissionsByUser(r, u, list)

\* api-gateway-svc replaces its list.
HandleGrantEvent(u) ==
    /\ grantEvents[u] # <<>>
    /\ grantCopy' = [grantCopy EXCEPT ![u] = Head(grantEvents[u])]
    /\ grantEvents' = [grantEvents EXCEPT ![u] = Tail(@)]
    /\ UNCHANGED <<grantRows, grantTx, mixed>>

GrantNext ==
    \/ \E may \in Granters, r \in GrantReqs, u \in Grantees, list \in SUBSET Grants :
           handleUpdatePermissionsByUser(may, r, u, list)
    \/ \E r \in GrantReqs : ClearGrants(r) \/ InsertGrants(r) \/ CommitGrants(r) \/ AbortGrants(r)
    \/ \E u \in Grantees : HandleGrantEvent(u)

GrantSpec == GrantInit /\ [][GrantNext]_grantVars
-----------------------------------------------------------------------------
(* Properties.                                                             *)

GrantTypeOK == /\ \A u \in Grantees : grantRows[u] \subseteq GrantRow /\ Len(grantEvents[u]) <= MaxGrantEvents
               /\ grantTx \in [GrantReqs -> GrantTx]
               /\ grantCopy \in [Grantees -> SUBSET Grants]
               /\ mixed \subseteq Grantees

\* UpdatePermissionsByUser "updates and notifies about changed permissions": a permission is
\* granted once, and what api-gateway-svc is going to let a user do has been granted; nothing else
\* is, unless the newest list was written while another one was.
GrantsAsTold ==
    \A u \in Grantees :
        LET told == IF grantEvents[u] = <<>> THEN grantCopy[u] ELSE Last(grantEvents[u])
        IN  /\ \A row, other \in grantRows[u] : row.name = other.name => row = other
            /\ told \subseteq NamesOf(grantRows[u])
            /\ u \in mixed \/ told = NamesOf(grantRows[u])
=============================================================================
