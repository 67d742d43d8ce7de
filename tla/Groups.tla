------------------------------- MODULE Groups -------------------------------
(***************************************************************************)
(* Groups of users (group-svc) and the copy logistics-svc keeps of them.  *)
(* Members of a group that belongs to an operation are meant to be        *)
(* members of the operation: requests check this against group-svc's list *)
(* of members, and the handler of a new list removes from the groups      *)
(* whoever has left the operation.                                         *)
(*                                                                         *)
(* All reads are plain ones at READ COMMITTED.  The row of a group is     *)
(* locked from its UPDATE or DELETE to the commit; its members change     *)
(* under this lock only, so that what follows it is one step.             *)
(***************************************************************************)
EXTENDS Naturals, Sequences

CONSTANTS Groups,          \* ids of groups
          GroupOps,        \* operations, known to group-svc
          GroupUsers,
          GroupReqs,       \* requests running at the same time
          GroupCallers,    \* the permissions of each caller
          MaxGroupEvents,  \* bound: events per group that logistics-svc has not handled
          Global,          \* the operation of a group without one
          NoGroup, Deleted

GroupPermissions == {"CreateGroup", "UpdateGroup", "DeleteGroup"}
Group == [op : GroupOps \cup {Global}, members : SUBSET GroupUsers]

ASSUME GroupConstants == /\ GroupCallers \subseteq SUBSET GroupPermissions
                         /\ MaxGroupEvents \in Nat
                         /\ Global \notin GroupOps
                         /\ NoGroup \notin Group /\ Deleted \notin Group /\ NoGroup # Deleted

VARIABLES group,        \* tables groups and members
          opMembers,    \* table operation_members
          groupTx,      \* the running requests
          listTx,       \* per operation: the handling of a new list of members
          groupEvents,  \* per group: what was told about it and logistics-svc has not handled yet
          groupCopy,    \* logistics-svc's tables groups and group_members
          raced         \* groups another transaction has changed beneath the last one

groupVars == <<group, opMembers, groupTx, listTx, groupEvents, groupCopy, raced>>

\* old: the members as UpdateGroup has read them; alone: nothing has committed since it started.
GroupTx == [pc : {"idle", "create", "update", "write"}, id : Groups \cup {NoGroup},
            want : Group \cup {NoGroup}, old : SUBSET GroupUsers, alone : BOOLEAN]
IdleGroupTx == [pc |-> "idle", id |-> NoGroup, want |-> NoGroup, old |-> {}, alone |-> FALSE]

\* plan: the groups to be written and what as; was: their members as UpdateGroup has read them.
NoPlan == [g \in Groups |-> NoGroup]
ListTx == [pc : {"idle", "update", "write"}, new : SUBSET GroupUsers,
           plan : [Groups -> Group \cup {NoGroup}], was : [Groups -> SUBSET GroupUsers], alone : BOOLEAN]
IdleListTx == [pc |-> "idle", new |-> {}, plan |-> NoPlan, was |-> [g \in Groups |-> {}], alone |-> FALSE]

Exists(g) == group[g] \in Group
Planned(o) == {g \in Groups : listTx[o].plan[g] # NoGroup}

GroupInit == /\ group = [g \in Groups |-> NoGroup]
             /\ opMembers = [o \in GroupOps |-> {}]
             /\ groupTx = [r \in GroupReqs |-> IdleGroupTx]
             /\ listTx = [o \in GroupOps |-> IdleListTx]
             /\ groupEvents = [g \in Groups |-> <<>>]
             /\ groupCopy = [g \in Groups |-> NoGroup]
             /\ raced = {}
-----------------------------------------------------------------------------
(* Steps of transactions.                                                  *)

\* NotifyGroupCreated, NotifyGroupUpdated and NotifyGroupDeleted.
GroupCreated(row) == [type |-> "created", row |-> row]
GroupUpdated(row) == [type |-> "updated", row |-> row]
GroupDeleted == [type |-> "deleted", row |-> Deleted]
TellGroups(events) ==
    /\ \A g \in DOMAIN events : Len(groupEvents[g]) < MaxGroupEvents
    /\ groupEvents' = [g \in Groups |-> IF g \in DOMAIN events THEN Append(groupEvents[g], events[g])
                                        ELSE groupEvents[g]]

StepGroupTx(r, tx) ==
    /\ groupTx' = [groupTx EXCEPT ![r] = tx]
    /\ UNCHANGED <<group, opMembers, listTx, groupEvents, groupCopy, raced>>
StepListTx(o, tx) ==
    /\ listTx' = [listTx EXCEPT ![o] = tx]
    /\ UNCHANGED <<group, opMembers, groupTx, groupEvents, groupCopy, raced>>

\* After a commit no other running transaction is alone.
Disturbed(txs, idle) == [i \in DOMAIN txs |-> IF txs[i].pc = "idle" THEN idle
                                              ELSE [txs[i] EXCEPT !.alone = FALSE]]
CommitGroupTx(r) ==
    /\ groupTx' = [Disturbed(groupTx, IdleGroupTx) EXCEPT ![r] = IdleGroupTx]
    /\ listTx' = Disturbed(listTx, IdleListTx)
    /\ UNCHANGED <<opMembers, groupCopy>>

\* Mutant: members that are not in the new list stay.
MembersAdded(now, old, want) == now \cup (want \ old)
\* What UpdateGroup makes of the members, old being those it has read before.
MembersWritten(now, old, want) == (now \cup (want \ old)) \ (old \ want)
\* Inserting a member that another transaction has inserted meanwhile fails.
MembersInsertable(now, old, want) == (want \ old) \cap now = {}
-----------------------------------------------------------------------------
(* Requests.                                                               *)

\* Mutant: the members are not compared with those of the operation.
MembersUnchecked(row) == TRUE
\* assureUsersMemberOfOperation
MembersAssured(row) == row.op # Global => row.members \subseteq opMembers[row.op]

CreateGroup(r, g, row) ==
    /\ groupTx[r].pc = "idle"
    /\ group[g] = NoGroup
    /\ \A q \in GroupReqs : groupTx[q].id # g
    /\ MembersAssured(row)
    /\ StepGroupTx(r, [pc |-> "create", id |-> g, want |-> row, old |-> {}, alone |-> TRUE])

CommitCreate(r) ==
    LET g == groupTx[r].id
    IN  /\ groupTx[r].pc = "create"
        /\ group' = [group EXCEPT ![g] = groupTx[r].want]
        /\ TellGroups([x \in {g} |-> GroupCreated(groupTx[r].want)])
        /\ raced' = IF groupTx[r].alone THEN raced ELSE raced \cup {g}
        /\ CommitGroupTx(r)

UpdateGroup(r, g, row) ==
    /\ groupTx[r].pc = "idle"
    /\ MembersAssured(row)
    /\ StepGroupTx(r, [pc |-> "update", id |-> g, want |-> row, old |-> {}, alone |-> TRUE])

\* GroupByID for the current members.
ReadGroup(r) ==
    /\ groupTx[r].pc = "update"
    /\ Exists(groupTx[r].id)
    /\ StepGroupTx(r, [groupTx[r] EXCEPT !.pc = "write", !.old = group[groupTx[r].id].members])

CommitUpdateGroup(r) ==
    LET g == groupTx[r].id
        want == groupTx[r].want
    IN  /\ groupTx[r].pc = "write"
        /\ Exists(g)
        /\ MembersInsertable(group[g].members, groupTx[r].old, want.members)
        /\ group' = [group EXCEPT ![g] = [op |-> want.op,
                         members |-> MembersWritten(@.members, groupTx[r].old, want.members)]]
        /\ TellGroups([x \in {g} |-> GroupUpdated(want)])
        /\ raced' = IF groupTx[r].alone THEN raced \ {g} ELSE raced \cup {g}
        /\ CommitGroupTx(r)

DeleteGroupByID(g) ==
    /\ Exists(g)
    /\ group' = [group EXCEPT ![g] = Deleted]
    /\ TellGroups([x \in {g} |-> GroupDeleted])
    /\ groupTx' = Disturbed(groupTx, IdleGroupTx)
    /\ listTx' = Disturbed(listTx, IdleListTx)
    /\ UNCHANGED <<opMembers, groupCopy, raced>>

\* Not found, a member inserted twice, or a failure of the database.
AbortGroupTx(r) ==
    /\ groupTx[r].pc # "idle"
    /\ StepGroupTx(r, IdleGroupTx)

\* The endpoints.
handleCreateGroup(granted, r, g, row) == "CreateGroup" \in granted /\ CreateGroup(r, g, row)
handleUpdateGroup(granted, r, g, row) == "UpdateGroup" \in granted /\ UpdateGroup(r, g, row)
handleDeleteGroupByID(granted, g) == "DeleteGroup" \in granted /\ DeleteGroupByID(g)
-----------------------------------------------------------------------------
(* UpdateOperationMembersByOperation, the handler of operation-svc's       *)
(* lists, one at a time for an operation.  One that fails changes nothing  *)
(* and is handled again.                                                   *)

\* The groups of the operation that somebody has to leave.
GroupsToLeave(o, removed) ==
    {g \in Groups : Exists(g) /\ group[g].op = o /\ group[g].members \cap removed # {}}

PlanGroups(o, new) ==
    LET removed == opMembers[o] \ new
    IN  /\ listTx[o].pc = "idle"
        /\ StepListTx(o, [IdleListTx EXCEPT
               !.pc = "update", !.new = new, !.alone = TRUE,
               !.plan = [g \in Groups |-> IF g \in GroupsToLeave(o, removed)
                                          THEN [op |-> o, members |-> group[g].members \ removed]
                                          ELSE NoGroup]])

ReadGroups(o) ==
    /\ listTx[o].pc = "update"
    /\ \A g \in Planned(o) : Exists(g)
    /\ StepListTx(o, [listTx[o] EXCEPT
           !.pc = "write",
           !.was = [g \in Groups |-> IF g \in Planned(o) THEN group[g].members ELSE {}]])

\* The groups, the list itself, and the events.
CommitMembersList(o) ==
    LET tx == listTx[o]
    IN  /\ tx.pc = "write"
        /\ \A g \in Planned(o) :
               Exists(g) /\ MembersInsertable(group[g].members, tx.was[g], tx.plan[g].members)
        /\ group' = [g \in Groups |->
               IF g \in Planned(o)
               THEN [op |-> tx.plan[g].op,
                     members |-> MembersWritten(group[g].members, tx.was[g], tx.plan[g].members)]
               ELSE group[g]]
        /\ opMembers' = [opMembers EXCEPT ![o] = tx.new]
        /\ TellGroups([g \in Planned(o) |-> GroupUpdated(tx.plan[g])])
        /\ raced' = IF tx.alone THEN raced
                    ELSE raced \cup {g \in Groups : group'[g] \in Group /\ group'[g].op = o}
        /\ groupTx' = Disturbed(groupTx, IdleGroupTx)
        /\ listTx' = [Disturbed(listTx, IdleListTx) EXCEPT ![o] = IdleListTx]
        /\ UNCHANGED groupCopy

FailMembersList(o) ==
    /\ listTx[o].pc # "idle"
    /\ StepListTx(o, IdleListTx)
-----------------------------------------------------------------------------
(* logistics-svc.                                                          *)

\* CreateGroup, UpdateGroup and DeleteGroupByID there; members are replaced.  (What else the
\* deletion of a group does is in module IntelDelivery.)
CopiedGroup(copied, event) == event.row
GroupHandleable(copied, event) == event.type = "created" => copied = NoGroup

HandleGroupEvent(g) ==
    /\ groupEvents[g] # <<>>
    /\ GroupHandleable(groupCopy[g], Head(groupEvents[g]))
    /\ groupCopy' = [groupCopy EXCEPT ![g] = CopiedGroup(@, Head(groupEvents[g]))]
    /\ groupEvents' = [groupEvents EXCEPT ![g] = Tail(@)]
    /\ UNCHANGED <<group, opMembers, groupTx, listTx, raced>>

GroupNext ==
    \/ \E granted \in GroupCallers, g \in Groups :
        \/ \E r \in GroupReqs, row \in Group : \/ handleCreateGroup(granted, r, g, row)
                                               \/ handleUpdateGroup(granted, r, g, row)
        \/ handleDeleteGroupByID(granted, g)
    \/ \E r \in GroupReqs : \/ CommitCreate(r) \/ ReadGroup(r) \/ CommitUpdateGroup(r) \/ AbortGroupTx(r)
    \/ \E o \in GroupOps : \/ \E new \in SUBSET GroupUsers : PlanGroups(o, new)
                           \/ ReadGroups(o) \/ CommitMembersList(o) \/ FailMembersList(o)
    \/ \E g \in Groups : HandleGroupEvent(g)

GroupSpec == GroupInit /\ [][GroupNext]_groupVars
-----------------------------------------------------------------------------
(* Properties.                                                             *)

GroupTypeOK == /\ group \in [Groups -> Group \cup {NoGroup, Deleted}]
               /\ opMembers \in [GroupOps -> SUBSET GroupUsers]
               /\ groupTx \in [GroupReqs -> GroupTx]
               /\ listTx \in [GroupOps -> ListTx]
               /\ groupCopy \in [Groups -> Group \cup {NoGroup, Deleted}]
               /\ raced \subseteq Groups

\* "If group is assigned to operation, assure that all members are also part of the operation"
\* (controller/groups.go): they are, as long as no request and no new list of members has
\* committed between the reads and the commit of the last change.
GroupsWithinOperation ==
    \A g \in Groups \ raced : Exists(g) /\ group[g].op # Global => group[g].members \subseteq opMembers[group[g].op]

\* What logistics-svc makes of the events is the group itself: always as to whether it exists and
\* its operation, and as to its members unless UpdateGroup has read a list that changed beneath it.
\* Each event tells the whole group, so that the newest is what counts, and none is refused.
GroupsAsTold ==
    \A g \in Groups :
        LET told == IF groupEvents[g] = <<>> THEN groupCopy[g]
                    ELSE groupEvents[g][Len(groupEvents[g])].row
        IN  /\ (told \in Group) = Exists(g)
            /\ Exists(g) => told.op = group[g].op
            /\ g \notin raced => told = group[g]
            /\ \A i \in DOMAIN groupEvents[g] :
                   groupEvents[g][i].type = "created" => i = 1 /\ groupCopy[g] = NoGroup
=============================================================================
