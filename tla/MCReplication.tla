---------------------------- MODULE MCReplication ----------------------------
(* Instances for TLC of what follows others: the inbox its topics, search  *)
(* documents the tables, the index the documents.  They share no state; a  *)
(* behaviour belongs to one of them, its part.                             *)
EXTENDS Inbox, AddressBook, Intel, SearchSync, TLC

CONSTANTS s1, s2, t1, u1, u2, o1, i1

VARIABLE part

Parts == {"inbox", "book", "intel", "search"}

OneTopic == s1 :> t1 @@ s2 :> t1
NoNeeds == [s \in Segments |-> {}]
\* Who may do everything, and who sees no more than what concerns them.
MCBookCallers == {[user |-> u1, any |-> TRUE], [user |-> u2, any |-> FALSE]}
\* An entry of a user for an operation or for all, and one of nobody.
MCBookRows == {[user |-> u1, op |-> o1], [user |-> u1, op |-> None], [user |-> None, op |-> None]}
MCIntelMembers == i1 :> {u1}
MCIntelCallers == {[user |-> u1, granted |-> IntelPermissions], [user |-> u2, granted |-> {"CreateIntel"}]}

Init == part \in Parts /\ InboxInit /\ BookInit /\ IntelInit /\ SearchInit

Next == /\ UNCHANGED part
        /\ IF part = "inbox" THEN InboxNext ELSE UNCHANGED inboxVars
        /\ IF part = "book" THEN BookNext ELSE UNCHANGED bookVars
        /\ IF part = "intel" THEN IntelNext ELSE UNCHANGED intelVars
        /\ IF part = "search" THEN SearchNext ELSE UNCHANGED searchVars

\* Processors are what the inbox has two of, entries are those of the intel; parts share the values.
Symmetric == Permutations(Processors) \cup Permutations(IntelEntries) \cup Permutations(Docs)

\* Every variable of the part has its type.
TypesOK == CASE part = "inbox" -> InboxTypeOK
             [] part = "book" -> BookTypeOK
             [] part = "intel" -> IntelTypeOK
             [] part = "search" -> SearchTypeOK

\* Search documents tell what their tables do, and the index follows the actions that carry them.
SearchFollowsTables == CASE part = "book" -> DocumentsAreCurrent
                         [] part = "intel" -> IntelDocumentsAreCurrent
                         [] part = "search" -> IndexCatchesUp
                         [] part = "inbox" -> TRUE

\* Lists, searches and requests by id agree on what somebody without the permission for everything
\* is shown.
ShownIsPermitted == CASE part = "book" -> ViewsAgree
                      [] part = "intel" -> OnlyOwnIntelIsShown
                      [] part \in {"inbox", "search"} -> TRUE
=============================================================================
