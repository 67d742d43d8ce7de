----------------------------- MODULE Operations -----------------------------
(***************************************************************************)
(* Operations, their members and the search index of operation-svc, and  *)
(* the copies other services keep of them.                                *)
(*                                                                         *)
(* A list of members is replaced by deleting all rows of the operation    *)
(* and inserting new ones.  No key forbids a user to be there twice, and  *)
(* at READ COMMITTED a DELETE sees only rows committed when it starts and *)
(* skips those that another transaction has deleted meanwhile: a row is a *)
(* user and the request that inserted it.  Changes of the index are       *)
(* committed with the rows and applied in this order (module SearchSync). *)
(***************************************************************************)
EXTENDS Naturals, Sequences

CONSTANTS Ops, People,
          Operation,    \* what is known of an operation: title, start, end, whether it is archived
          OpReqs,       \* requests running at the same time
          Callers,      \* the permissions of each caller
          OpListeners,  \* services whose copies are looked at
          MaxOpEvents,  \* bound: nothing is told while that many events of an operation wait
          NoOp

OpPermissions == {"CreateOperation", "UpdateOperation", "UpdateOperationMembers"}
OpDocument == [op : Operation, members : SUBSET People]
MemberRow == [user : People, by : OpReqs]

VARIABLES op,          \* table operations
          memberRows,  \* table operation_members, per operation
          opTx,        \* the running requests
          document,    \* the search index
          opListener,  \* the service whose copy is looked at
          opEvents,    \* per operation: what was told about it and opListener has not handled yet
          opCopy,      \* its copy
          lastTold,    \* the newest list of members that was told
          torn,        \* operations whose newest list was written while another was being written
          unindexed    \* operations whose newest change made no document of what it left

opVars == <<op, memberRows, opTx, document, opListener, opEvents, opCopy, lastTold, torn, unindexed>>

\* snapshot: rows the DELETE is going to delete; gone: rows it has deleted; op: the operation or
\* the details to be written; members: the list asked for, or read for the document; alone: nothing
\* else has changed the operation meanwhile.
OpTx == [pc : {"idle", "clear", "insert", "commit", "update"}, id : Ops \cup {NoOp},
         snapshot : SUBSET MemberRow, gone : SUBSET MemberRow, members : SUBSET People,
         op : Operation \cup {NoOp}, alone : BOOLEAN]
IdleOpTx == [pc |-> "idle", id |-> NoOp, snapshot |-> {}, gone |-> {}, members |-> {}, op |-> NoOp,
             alone |-> FALSE]

ASSUME OperationConstants == /\ Callers \subseteq SUBSET OpPermissions
                             /\ OpListeners \subseteq {"group", "logistics", "radio", "openintel"}
                             /\ MaxOpEvents \in Nat
                             /\ NoOp \notin Ops \cup Operation \cup OpDocument \cup {"exists"}

Stored(o) == op[o] # NoOp
MembersOf(o) == {row.user : row \in memberRows[o]}
-----------------------------------------------------------------------------
(* What the services make of an event about an operation.                  *)

GroupOpEvents == {"created", "members"}
LogisticsOpEvents == {"created", "updated", "members"}
RadioOpEvents == {"members"}
OpenIntelOpEvents == {"created", "updated", "members"}
OpEventsOf(s) == CASE s = "group" -> GroupOpEvents [] s = "logistics" -> LogisticsOpEvents
                   [] s = "radio" -> RadioOpEvents [] s = "openintel" -> OpenIntelOpEvents

\* group-svc keeps only that the operation exists, radio-delivery-svc not even that.
GroupCopyOf(details) == "exists"
LogisticsCopyOf(details) == details
RadioCopyOf(details) == NoOp
OpenIntelCopyOf(details) == details
CopyOf(s, details) ==
    IF details = NoOp THEN NoOp
    ELSE CASE s = "group" -> GroupCopyOf(details) [] s = "logistics" -> LogisticsCopyOf(details)
           [] s = "radio" -> RadioCopyOf(details) [] s = "openintel" -> OpenIntelCopyOf(details)

\* Members are replaced; they refer to the operation where the service has a table of operations.
GroupCopiesMembers(c, members) == [c EXCEPT !.members = members]
LogisticsCopiesMembers(c, members) == [c EXCEPT !.members = members]
RadioCopiesMembers(c, members) == [c EXCEPT !.members = members]
OpenIntelCopiesMembers(c, members) == [c EXCEPT !.members = members]
CopyMembers(s, c, members) ==
    CASE s = "group" -> GroupCopiesMembers(c, members) [] s = "logistics" -> LogisticsCopiesMembers(c, members)
      [] s = "radio" -> RadioCopiesMembers(c, members) [] s = "openintel" -> OpenIntelCopiesMembers(c, members)

OpCopied(s, c, event) ==
    IF event.type \notin OpEventsOf(s) THEN c
    ELSE IF event.type = "members" THEN CopyMembers(s, c, event.members)
    ELSE [c EXCEPT !.op = CopyOf(s, event.op)]

OpHandleable(s, c, event) ==
    event.type \in OpEventsOf(s) /\ s # "radio" => (event.type = "created") = (c.op = NoOp)

HandleOpEvent(o) ==
    /\ opEvents[o] # <<>>
    /\ OpHandleable(opListener, opCopy[o], Head(opEvents[o]))
    /\ opCopy' = [opCopy EXCEPT ![o] = OpCopied(opListener, @, Head(opEvents[o]))]
    /\ opEvents' = [opEvents EXCEPT ![o] = Tail(@)]
    /\ UNCHANGED <<op, memberRows, opTx, document, opListener, lastTold, torn, unindexed>>
-----------------------------------------------------------------------------
OpInit == /\ op = [o \in Ops |-> NoOp]
          /\ memberRows = [o \in Ops |-> {}]
          /\ opTx = [r \in OpReqs |-> IdleOpTx]
          /\ document = [o \in Ops |-> NoOp]
          /\ opListener \in OpListeners
          /\ opEvents = [o \in Ops |-> <<>>]
          /\ opCopy = [o \in Ops |-> [op |-> NoOp, members |-> {}]]
          /\ lastTold = [o \in Ops |-> {}]
          /\ torn = {}
          /\ unindexed = {}

CreatedEvent(details) == [type |-> "created", op |-> details]
UpdatedEvent(details) == [type |-> "updated", op |-> details]
MembersEvent(members) == [type |-> "members", members |-> members]
TellOperation(o, events) ==
    /\ Len(opEvents[o]) < MaxOpEvents
    /\ opEvents' = [opEvents EXCEPT ![o] = @ \o events]

\* A transaction starts: whatever else is changing the operation is no longer alone.
StartOpTx(r, change) ==
    /\ opTx[r].pc = "idle"
    /\ opTx' = [q \in OpReqs |->
                   IF q = r THEN [change EXCEPT !.alone = \A p \in OpReqs : opTx[p].id # change.id]
                   ELSE IF opTx[q].id = change.id THEN [opTx[q] EXCEPT !.alone = FALSE]
                   ELSE opTx[q]]
    /\ UNCHANGED <<op, memberRows, document, opListener, opEvents, opCopy, lastTold, torn, unindexed>>
StepOpTx(r, tx) ==
    /\ opTx' = [opTx EXCEPT ![r] = tx]
    /\ UNCHANGED <<op, memberRows, document, opListener, opEvents, opCopy, lastTold, torn, unindexed>>

\* The row and its document.
InsertOperation(o, details) ==
    /\ ~Stored(o)
    /\ op' = [op EXCEPT ![o] = details]
    /\ document' = [document EXCEPT ![o] = [op |-> details, members |-> MembersOf(o)]]

\* CreateOperation: nobody is a member yet, and this is told as well.
CreateOperation(o, details) ==
    /\ InsertOperation(o, details)
    /\ TellOperation(o, <<CreatedEvent(details), MembersEvent({})>>)
    /\ UNCHANGED <<memberRows, opTx, opListener, opCopy, lastTold, torn, unindexed>>

\* UpdateOperation: the row is updated, which locks it, and the members are read.
UpdateOperation(r, o, details) ==
    /\ Stored(o)
    /\ \A q \in OpReqs : opTx[q].pc = "update" => opTx[q].id # o
    /\ StartOpTx(r, [IdleOpTx EXCEPT !.pc = "update", !.id = o, !.op = details, !.members = MembersOf(o)])

\* Mutant: the document is made without the members.
DocumentWithoutMembers(r) == [op |-> opTx[r].op, members |-> {}]
DocumentOf(r) == [op |-> opTx[r].op, members |-> opTx[r].members]

CommitUpdate(r) ==
    LET o == opTx[r].id
    IN  /\ opTx[r].pc = "update"
        /\ op' = [op EXCEPT ![o] = opTx[r].op]
        /\ document' = [document EXCEPT ![o] = DocumentOf(r)]
        /\ TellOperation(o, <<UpdatedEvent(opTx[r].op)>>)
        /\ unindexed' = IF opTx[r].alone THEN unindexed \ {o} ELSE unindexed \cup {o}
        /\ opTx' = [opTx EXCEPT ![r] = IdleOpTx]
        /\ UNCHANGED <<memberRows, opListener, opCopy, lastTold, torn>>

\* UpdateOperationMembersByOperation: the DELETE starts.
StartUpdateMembers(r, o, members) ==
    /\ Stored(o)
    /\ StartOpTx(r, [IdleOpTx EXCEPT !.pc = "clear", !.id = o, !.members = members, !.snapshot = memberRows[o]])

\* It has all its rows; those another transaction has deleted are waited for.
ClearMembers(r) ==
    /\ opTx[r].pc = "clear"
    /\ \A q \in OpReqs \ {r} : opTx[q].id = opTx[r].id => opTx[q].gone \cap opTx[r].snapshot = {}
    /\ StepOpTx(r, [opTx[r] EXCEPT !.pc = "insert", !.gone = opTx[r].snapshot, !.snapshot = {}])

\* The INSERT, and the operation is read for the document; an empty list needs neither.
InsertMembers(r) ==
    /\ opTx[r].pc = "insert"
    /\ StepOpTx(r, [opTx[r] EXCEPT !.pc = "commit", !.op = IF opTx[r].members = {} THEN NoOp ELSE op[opTx[r].id]])

\* Mutant: rows of members that stay are not deleted.
RowsWithOld(r, o) == memberRows[o] \cup [user : opTx[r].members, by : {r}]
RowsAfter(r, o) == (memberRows[o] \ opTx[r].gone) \cup [user : opTx[r].members, by : {r}]

CommitMembers(r) ==
    LET o == opTx[r].id
        indexed == opTx[r].alone /\ opTx[r].op # NoOp
    IN  /\ opTx[r].pc = "commit"
        /\ memberRows' = [memberRows EXCEPT ![o] = RowsAfter(r, o)]
        /\ document' = IF opTx[r].op = NoOp THEN document ELSE [document EXCEPT ![o] = DocumentOf(r)]
        /\ TellOperation(o, <<MembersEvent(opTx[r].members)>>)
        /\ lastTold' = [lastTold EXCEPT ![o] = opTx[r].members]
        /\ torn' = IF opTx[r].alone THEN torn \ {o} ELSE torn \cup {o}
        /\ unindexed' = IF indexed THEN unindexed \ {o} ELSE unindexed \cup {o}
        /\ opTx' = [q \in OpReqs |-> IF q = r THEN IdleOpTx
                                     ELSE IF opTx[q].id = o THEN [opTx[q] EXCEPT !.snapshot = @ \ opTx[r].gone]
                                     ELSE opTx[q]]
        /\ UNCHANGED <<op, opListener, opCopy>>

AbortOpTx(r) ==
    /\ opTx[r].pc # "idle"
    /\ StepOpTx(r, IdleOpTx)

\* The endpoints.
handleCreateOperation(granted, o, details) ==
    "CreateOperation" \in granted /\ CreateOperation(o, details)
handleUpdateOperation(granted, r, o, details) ==
    "UpdateOperation" \in granted /\ UpdateOperation(r, o, details)
handleUpdateOperationMembers(granted, r, o, members) ==
    "UpdateOperationMembers" \in granted /\ StartUpdateMembers(r, o, members)

OpNext ==
    \/ \E granted \in Callers, o \in Ops :
        \/ \E details \in Operation : handleCreateOperation(granted, o, details)
        \/ \E r \in OpReqs, details \in Operation : handleUpdateOperation(granted, r, o, details)
        \/ \E r \in OpReqs, members \in SUBSET People : handleUpdateOperationMembers(granted, r, o, members)
    \/ \E r \in OpReqs : \/ ClearMembers(r) \/ InsertMembers(r) \/ CommitMembers(r)
                         \/ CommitUpdate(r) \/ AbortOpTx(r)
    \/ \E o \in Ops : HandleOpEvent(o)

OpSpec == OpInit /\ [][OpNext]_opVars
-----------------------------------------------------------------------------
(* Properties.                                                             *)

OpTypeOK == /\ op \in [Ops -> Operation \cup {NoOp}]
            /\ memberRows \in [Ops -> SUBSET MemberRow]
            /\ opTx \in [OpReqs -> OpTx]
            /\ document \in [Ops -> OpDocument \cup {NoOp}]
            /\ opListener \in OpListeners
            /\ \A o \in Ops : Len(opEvents[o]) <= MaxOpEvents + 1
            /\ lastTold \in [Ops -> SUBSET People]
            /\ torn \subseteq Ops /\ unindexed \subseteq Ops

\* UpdateOperationMembersByOperation "updates the members for the operation with the given id and
\* notifies of the updated member list": whoever the other services take for a member is one, and
\* nobody else is, unless the newest list was written while another one was.
MembersAsTold ==
    \A o \in Ops : /\ lastTold[o] \subseteq MembersOf(o)
                   /\ o \in torn \/ MembersOf(o) = lastTold[o]

\* The document of an operation shows its details and its members after every change that nothing
\* overlapped, except the one that empties the list.
DocumentIsCurrent ==
    \A o \in Ops : Stored(o) /\ o \notin unindexed =>
                        document[o] = [op |-> op[o], members |-> MembersOf(o)]

\* The events not yet handled that the service takes the details, and the members, from.
DetailsTold(o) == {i \in DOMAIN opEvents[o] : opEvents[o][i].type \in OpEventsOf(opListener) \ {"members"}}
MembersTold(o) == {i \in DOMAIN opEvents[o] : opEvents[o][i].type = "members"}
NewestOf(events, i) == i \in events /\ \A j \in events : j <= i

\* The events not yet handled make of a service's copy what operation-svc has told: the newest that
\* tells of the details, or of the members, tells what they are, and if there is none the copy has
\* them already.  No event is refused for an operation that is missing or known already.
OpCopiesFollow ==
    \A o \in Ops :
        /\ \A i \in DOMAIN opEvents[o] :
               /\ NewestOf(DetailsTold(o), i) =>
                      CopyOf(opListener, opEvents[o][i].op) = CopyOf(opListener, op[o])
               /\ NewestOf(MembersTold(o), i) => opEvents[o][i].members = lastTold[o]
               /\ opListener # "radio" =>
                      (opEvents[o][i].type = "created") = (i = 1 /\ opCopy[o].op = NoOp)
        /\ DetailsTold(o) = {} => opCopy[o].op = CopyOf(opListener, op[o])
        /\ MembersTold(o) = {} => opCopy[o].members = lastTold[o]
=============================================================================
