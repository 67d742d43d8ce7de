---------------------------- MODULE MCConcurrent ----------------------------
(* Instances for TLC of the components whose transactions overlap.  They   *)
(* share no state; a behaviour belongs to one of them, its part.           *)
EXTENDS Outbox, AutoDelivery, UserRecords, Operations, Groups, Sessions, Permissions, DeliveryMirror, TLC

CONSTANTS s1, s2, t1, u1, u2

VARIABLE part

Parts == {"outbox", "auto", "users", "operations", "groups", "sessions", "permissions", "mirror"}

OneTopic == s1 :> t1 @@ s2 :> t1
\* An admin, and a user who may change others but not their flags.
MCTokens == {[user |-> u1, admin |-> TRUE, granted |-> {}], [user |-> u2, admin |-> FALSE, granted |-> {"UpdateUser"}]}
\* Who may do everything, and who nothing.
MCCallers == {OpPermissions, {}}
MCGroupCallers == {GroupPermissions, {}}
MCGranters == {{"UpdatePermissions"}, {}}
\* One delivery, which all attempts are for.
OneDelivery == [x \in MirrorAttempts |-> CHOOSE d \in MirrorDeliveries : TRUE]
OneRecipient == [d \in MirrorDeliveries |-> CHOOSE x \in MirrorEntries : TRUE]

Init == /\ part \in Parts
        /\ OutboxInit /\ AutoInit /\ UserInit /\ OpInit /\ GroupInit /\ SessionInit /\ GrantInit /\ MirrorInit
        \* What a part may start with does not matter to the others.
        /\ part # "users" => listener = "group"
        /\ part # "operations" => opListener = "radio"
        /\ part # "sessions" => \A u \in Holders : holder[u].pass = CHOOSE pass \in HolderPasses : TRUE

Next == /\ UNCHANGED part
        /\ IF part = "outbox" THEN OutboxNext ELSE UNCHANGED outboxVars
        /\ IF part = "auto" THEN AutoNext ELSE UNCHANGED autoVars
        /\ IF part = "users" THEN UserNext ELSE UNCHANGED userVars
        /\ IF part = "operations" THEN OpNext ELSE UNCHANGED opVars
        /\ IF part = "groups" THEN GroupNext ELSE UNCHANGED groupVars
        /\ IF part = "sessions" THEN SessionNext ELSE UNCHANGED sessionVars
        /\ IF part = "permissions" THEN GrantNext ELSE UNCHANGED grantVars
        /\ IF part = "mirror" THEN MirrorNext ELSE UNCHANGED mirrorVars

\* What is interchangeable within a part; parts share the values, which keeps the group small.
Symmetric == Permutations(Workers) \cup Permutations(Producers) \cup Permutations(Operation)

\* Every variable of the part has its type.
TypesOK == CASE part = "outbox" -> OutboxTypeOK
             [] part = "auto" -> AutoTypeOK
             [] part = "users" -> UserTypeOK
             [] part = "operations" -> OpTypeOK
             [] part = "groups" -> GroupTypeOK
             [] part = "sessions" -> SessionTypeOK
             [] part = "permissions" -> GrantTypeOK
             [] part = "mirror" -> MirrorTypeOK

\* Services that keep copies of accounts, operations, groups, permissions and deliveries get to know
\* every change of them, in the order in which they were committed: the events they have not handled
\* yet make of their copies what the owner has stored or, for lists that were written at the same
\* time, told.  The documents of operations follow as well, unless changes overlap, and who lists open
\* deliveries is told of every change of the copies.
CopiesFollowOwners == CASE part = "users" -> CopiesFollow
                        [] part = "operations" -> OpCopiesFollow /\ DocumentIsCurrent
                        [] part = "groups" -> GroupsAsTold
                        [] part = "permissions" -> GrantsAsTold
                        [] part = "mirror" -> MirrorFollows
                        [] part \in {"outbox", "auto", "sessions"} -> TRUE
=============================================================================
