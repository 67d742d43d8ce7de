--------------------------- MODULE AccountsProofs ---------------------------
(***************************************************************************)
(* Accounts, what their users may do, and their sessions, for any users,   *)
(* permissions, tokens and requests at the same time.                      *)
(***************************************************************************)
EXTENDS UserRecords, Permissions, Sessions, SequenceTheorems, TLAPS

-----------------------------------------------------------------------------
(* Accounts.                                                               *)

\* Variables that AdminStands depends on.
AccountsTypeOK == account \in [Users -> Account \cup {NoUser}]
RequestsTypeOK == userTx \in [UserReqs -> UserTx]

IsAdmin(u) == /\ Known(u) /\ account[u].name = AdminName
              /\ account[u].admin /\ account[u].active

\* Where anybody is, there is the admin.
AdminExists == (\E u \in Users : Known(u)) => \E u \in Users : IsAdmin(u)
\* What the unique index assures.
NamesDiffer == \A u, v \in Users : Known(u) /\ Known(v) /\ account[u].name = account[v].name => u = v
\* What a request has found out still holds when it writes: the name of the admin is only left or
\* taken by requests that read it.
WriteIsSafe(tx) == /\ tx.user \in Users /\ tx.want \in Details /\ Known(tx.user)
                   /\ account[tx.user].name = AdminName =>
                          tx.want.name = AdminName /\ tx.want.admin /\ tx.want.active
WritesAreSafe == \A r \in UserReqs : userTx[r].pc = "write" => WriteIsSafe(userTx[r])

AdminInv == AccountsTypeOK /\ RequestsTypeOK /\ AdminExists /\ NamesDiffer /\ WritesAreSafe
-----------------------------------------------------------------------------
(* What the actions do to accounts and requests.                           *)

\* A new account whose name is free; the first one is that of the admin.
Inserted(u, row) ==
    /\ u \in Users /\ row \in Account
    /\ ~Known(u) /\ NameFree(u, row.name)
    /\ (\E v \in Users : Known(v)) \/ (row.name = AdminName /\ row.admin /\ row.active)
    /\ account' = [account EXCEPT ![u] = row]

\* Another row for an account; that of the admin keeps what makes it one.
Rewritten(u, row) ==
    /\ u \in Users /\ row \in Account
    /\ Known(u) /\ NameFree(u, row.name)
    /\ account[u].name = AdminName => row.name = AdminName /\ row.admin /\ row.active
    /\ account' = [account EXCEPT ![u] = row]

AccountsStep == \/ account' = account
                \/ \E u \in Users, row \in Account : Inserted(u, row) \/ Rewritten(u, row)

\* Requests begin to write only what is safe.
RequestsStep == \A r \in UserReqs : userTx'[r].pc = "write" => WriteIsSafe(userTx'[r])
Effects == AccountsStep /\ RequestsStep /\ RequestsTypeOK'

\* A record of the table.
LEMMA RowIsKnown ==
  ASSUME UserConstants, NEW row \in Account
  PROVE  row # NoUser /\ row.name \in Names
  BY DEF UserConstants, Account

\* A request that ends leaves the others alone.
LEMMA EndEffect ==
  ASSUME AdminInv, NEW r \in UserReqs, EndUserTx(r)
  PROVE  RequestsStep /\ RequestsTypeOK'
  <1>1. IdleUserTx \in UserTx
    BY DEF IdleUserTx, UserTx
  <1>2. RequestsTypeOK'
    BY <1>1 DEF EndUserTx, AdminInv, RequestsTypeOK
  <1>3. ASSUME NEW q \in UserReqs, userTx'[q].pc = "write" PROVE userTx'[q] = userTx[q]
    BY <1>3 DEF EndUserTx, IdleUserTx, AdminInv, RequestsTypeOK
  <1> QED
    BY <1>2, <1>3 DEF RequestsStep, AdminInv, WritesAreSafe

\* A request that begins must have something safe to write.
LEMMA BeginEffect ==
  ASSUME AdminInv, NEW r \in UserReqs, NEW tx \in UserTx,
         tx.pc = "write" => WriteIsSafe(tx),
         userTx' = [userTx EXCEPT ![r] = tx]
  PROVE  RequestsStep /\ RequestsTypeOK'
  BY DEF AdminInv, RequestsTypeOK, RequestsStep, WritesAreSafe

\* Requests that are not looked at.
LEMMA KeptEffect ==
  ASSUME AdminInv, userTx' = userTx
  PROVE  RequestsStep /\ RequestsTypeOK'
  BY DEF AdminInv, RequestsTypeOK, RequestsStep, WritesAreSafe

\* Beginning to change an account: the checks are about the account as it is.
LEMMA UpdateBegins ==
  ASSUME UserConstants, AdminInv, NEW r \in UserReqs, NEW token \in Tokens, NEW u \in Users,
         NEW details \in Details, BeginUpdateUser(r, token, u, details)
  PROVE  Effects
  <1> DEFINE tx == [pc |-> "write", user |-> u, want |-> details,
                    mayAdmin |-> Allowed(token, "SetAdminUser"),
                    mayActive |-> Allowed(token, "SetUserActiveState")]
  <1>1. userTx' = [userTx EXCEPT ![r] = tx] /\ account' = account
    BY DEF BeginUpdateUser
  <1>2. Allowed(token, "SetAdminUser") \in BOOLEAN /\ Allowed(token, "SetUserActiveState") \in BOOLEAN
    BY DEF Allowed
  <1>3. tx \in UserTx
    BY <1>2 DEF UserTx
  <1>4. WriteIsSafe(tx)
    BY DEF BeginUpdateUser, ChangeAllowed, WriteIsSafe
  <1> QED
    BY <1>1, <1>3, <1>4, BeginEffect DEF Effects, AccountsStep

\* Beginning to deactivate an account: it is not that of the admin.
LEMMA DeactivationBegins ==
  ASSUME UserConstants, AdminInv, NEW r \in UserReqs, NEW token \in Tokens, NEW u \in Users,
         BeginSetInactive(r, token, u)
  PROVE  Effects
  <1> DEFINE tx == [pc |-> "write", user |-> u,
                    want |-> [name |-> account[u].name, admin |-> account[u].admin, active |-> FALSE],
                    mayAdmin |-> FALSE, mayActive |-> TRUE]
  <1>1. userTx' = [userTx EXCEPT ![r] = tx] /\ account' = account
    BY DEF BeginSetInactive
  <1>2. account[u] \in Account
    BY DEF BeginSetInactive, Known, AdminInv, AccountsTypeOK
  <1>3. tx.want \in Details
    BY <1>2 DEF Account, Details
  <1>4. tx \in UserTx
    BY <1>3 DEF UserTx
  <1>5. WriteIsSafe(tx)
    BY <1>3 DEF BeginSetInactive, WriteIsSafe
  <1> QED
    BY <1>1, <1>4, <1>5, BeginEffect DEF Effects, AccountsStep

\* Writing: what was checked earlier is safe still.
LEMMA WriteEffect ==
  ASSUME UserConstants, AdminInv, NEW r \in UserReqs, FinishUserTx(r)
  PROVE  Effects
  <1> DEFINE u == userTx[r].user
             want == userTx[r].want
             row == [name |-> want.name, admin |-> want.admin, active |-> want.active,
                     pass |-> account[u].pass]
  <1>1. WriteIsSafe(userTx[r])
    BY DEF FinishUserTx, AdminInv, WritesAreSafe
  <1>2. u \in Users /\ want \in Details /\ Known(u)
    BY <1>1 DEF WriteIsSafe
  <1>3. account[u] \in Account
    BY <1>2 DEF Known, AdminInv, AccountsTypeOK
  <1>4. row \in Account
    BY <1>2, <1>3 DEF Account, Details
  <1>5. account' = [account EXCEPT ![u] = row] /\ NameFree(u, row.name)
    BY DEF FinishUserTx, WriteUser
  <1>6. Rewritten(u, row)
    BY <1>1, <1>2, <1>4, <1>5 DEF Rewritten, WriteIsSafe
  <1>7. RequestsStep /\ RequestsTypeOK'
    BY EndEffect DEF FinishUserTx
  <1> QED
    BY <1>2, <1>4, <1>6, <1>7 DEF Effects, AccountsStep

\* Another password leaves the rest of an account alone.
LEMMA PassEffect ==
  ASSUME UserConstants, AdminInv, NEW token \in Tokens, NEW u \in Users, NEW pass \in Passes,
         UpdateUserPassByUserID(token, u, pass)
  PROVE  Effects
  <1> DEFINE row == [account[u] EXCEPT !.pass = pass]
  <1>1. Known(u) /\ account' = [account EXCEPT ![u] = row] /\ userTx' = userTx
    BY DEF UpdateUserPassByUserID
  <1>2. account[u] \in Account
    BY <1>1 DEF Known, AdminInv, AccountsTypeOK
  <1>3. /\ row \in Account /\ row.name = account[u].name
        /\ row.admin = account[u].admin /\ row.active = account[u].active
    BY <1>2 DEF Account
  <1>4. NameFree(u, row.name)
    BY <1>1, <1>3 DEF NameFree, AdminInv, NamesDiffer
  <1>5. account[u].name = AdminName => account[u].admin /\ account[u].active
    BY <1>1 DEF AdminInv, AdminExists, NamesDiffer, IsAdmin
  <1>6. Rewritten(u, row)
    BY <1>1, <1>3, <1>4, <1>5 DEF Rewritten
  <1> QED
    BY <1>1, <1>3, <1>6, KeptEffect DEF Effects, AccountsStep

\* Who creates an account has one, but for the admin.
LEMMA CreateEffect ==
  ASSUME UserConstants, AdminInv, NEW token \in Tokens, NEW u \in Users, NEW row \in Account,
         CreateUser(token, u, row)
  PROVE  Effects
  <1>1. token.user \in Users /\ Known(token.user)
    BY DEF CreateUser, MayCreateUser, Allowed, UserConstants, Token
  <1>2. Inserted(u, row) /\ userTx' = userTx
    BY <1>1 DEF CreateUser, InsertUser, Inserted
  <1> QED
    BY <1>2, KeptEffect DEF Effects, AccountsStep

\* The account of the admin.
LEMMA CreateAdminEffect ==
  ASSUME UserConstants, AdminInv, NEW r \in UserReqs, NEW u \in Users, CreateAdminUser(r, u)
  PROVE  Effects
  <1> DEFINE row == [name |-> AdminName, admin |-> TRUE, active |-> TRUE, pass |-> AdminPass]
  <1>1. row \in Account
    BY DEF UserConstants, Account
  <1>2. Inserted(u, row)
    BY <1>1 DEF CreateAdminUser, InsertUser, Inserted
  <1>3. RequestsStep /\ RequestsTypeOK'
    BY EndEffect DEF CreateAdminUser
  <1> QED
    BY <1>1, <1>2, <1>3 DEF Effects, AccountsStep

\* Every step is one of these.
LEMMA NextEffects ==
  ASSUME UserConstants, AdminInv, [UserNext]_userVars
  PROVE  Effects
  <1>1. ASSUME NEW r \in UserReqs, AssureAdminUser(r) PROVE Effects
    <2> DEFINE tx == [userTx[r] EXCEPT !.pc = "assure"]
    <2>1. tx \in UserTx /\ tx.pc # "write"
      BY DEF AdminInv, RequestsTypeOK, UserTx
    <2>2. userTx' = [userTx EXCEPT ![r] = tx] /\ account' = account
      BY <1>1 DEF AssureAdminUser
    <2> QED
      BY <2>1, <2>2, BeginEffect DEF Effects, AccountsStep
  <1>2. ASSUME NEW r \in UserReqs, AbortUserTx(r) PROVE Effects
    BY <1>2, EndEffect DEF AbortUserTx, Effects, AccountsStep
  <1>3. ASSUME NEW u \in Users, HandleUserEvent(u) PROVE Effects
    BY <1>3, KeptEffect DEF HandleUserEvent, Effects, AccountsStep
  <1>4. CASE UNCHANGED userVars
    BY <1>4, KeptEffect DEF userVars, Effects, AccountsStep
  <1> QED
    BY <1>1, <1>2, <1>3, <1>4, UpdateBegins, DeactivationBegins, WriteEffect, PassEffect,
       CreateEffect, CreateAdminEffect DEF UserNext
-----------------------------------------------------------------------------
(* The effects keep the invariant.                                         *)

\* One account changes, and it keeps being one.
LEMMA ChangedAccount ==
  ASSUME UserConstants, AdminInv, NEW u \in Users, NEW row \in Account,
         account' = [account EXCEPT ![u] = row]
  PROVE  /\ AccountsTypeOK'
         /\ account'[u] = row /\ Known(u)'
         /\ \A v \in Users \ {u} : account'[v] = account[v] /\ (Known(v)' <=> Known(v))
  BY RowIsKnown DEF AdminInv, AccountsTypeOK, Known

\* A name that is free differs from all others.
LEMMA NamesStep ==
  ASSUME UserConstants, AdminInv, NEW u \in Users, NEW row \in Account,
         account' = [account EXCEPT ![u] = row], NameFree(u, row.name)
  PROVE  NamesDiffer'
  <1>1. SUFFICES ASSUME NEW v \in Users, NEW w \in Users, Known(v)', Known(w)',
                        account'[v].name = account'[w].name, v # w
                 PROVE  FALSE
    BY DEF NamesDiffer, Known
  <1>2. CASE v # u /\ w # u
    BY <1>1, <1>2, ChangedAccount DEF AdminInv, NamesDiffer
  <1>3. CASE v = u \/ w = u
    BY <1>1, <1>3, ChangedAccount, ZenonT(60) DEF NameFree
  <1> QED
    BY <1>2, <1>3

\* A new account.
LEMMA InsertStep ==
  ASSUME UserConstants, AdminInv, NEW u \in Users, NEW row \in Account, Inserted(u, row)
  PROVE  AdminExists' /\ (\A tx \in UserTx : WriteIsSafe(tx) => WriteIsSafe(tx)')
  <1>1. account' = [account EXCEPT ![u] = row] /\ ~Known(u)
    BY DEF Inserted
  <1>2. AdminExists'
    <2>1. CASE \E v \in Users : Known(v)
      <3>1. PICK w \in Users : IsAdmin(w)
        BY <2>1 DEF AdminInv, AdminExists
      <3>2. IsAdmin(w)'
        BY <1>1, <3>1, ChangedAccount DEF IsAdmin
      <3> QED
        BY <3>2 DEF AdminExists
    <2>2. CASE row.name = AdminName /\ row.admin /\ row.active
      <3>1. IsAdmin(u)'
        BY <1>1, <2>2, ChangedAccount DEF IsAdmin
      <3> QED
        BY <3>1 DEF AdminExists
    <2> QED
      BY <2>1, <2>2 DEF Inserted
  <1>3. ASSUME NEW tx \in UserTx, WriteIsSafe(tx) PROVE WriteIsSafe(tx)'
    BY <1>1, <1>3, ChangedAccount DEF WriteIsSafe
  <1> QED
    BY <1>2, <1>3

\* An account that is written: only that of the admin can have its name.
LEMMA RewriteStep ==
  ASSUME UserConstants, AdminInv, NEW u \in Users, NEW row \in Account, Rewritten(u, row)
  PROVE  AdminExists' /\ (\A tx \in UserTx : WriteIsSafe(tx) => WriteIsSafe(tx)')
  <1>1. account' = [account EXCEPT ![u] = row] /\ Known(u) /\ NameFree(u, row.name)
    BY DEF Rewritten
  <1>2. PICK w \in Users : IsAdmin(w)
    BY <1>1 DEF AdminInv, AdminExists
  <1>3. IsAdmin(w)'
    <2>1. CASE w = u
      <3>1. row.name = AdminName /\ row.admin /\ row.active
        BY <1>2, <2>1 DEF Rewritten, IsAdmin
      <3>2. account'[u] = row /\ Known(u)'
        BY <1>1, ChangedAccount
      <3> QED
        BY <2>1, <3>1, <3>2 DEF IsAdmin
    <2>2. CASE w # u
      BY <1>1, <1>2, <2>2, ChangedAccount DEF IsAdmin
    <2> QED
      BY <2>1, <2>2
  <1>4. row.name = AdminName => account[u].name = AdminName
    BY <1>1, <1>2 DEF NameFree, IsAdmin
  <1>5. ASSUME NEW tx \in UserTx, WriteIsSafe(tx) PROVE WriteIsSafe(tx)'
    BY <1>1, <1>4, <1>5, ChangedAccount DEF WriteIsSafe
  <1> QED
    BY <1>3, <1>5 DEF AdminExists

LEMMA EffectsKeep ==
  ASSUME UserConstants, AdminInv, Effects
  PROVE  AdminInv'
  <1>1. RequestsTypeOK'
    BY DEF Effects
  <1>2. CASE account' = account
    <2>1. AccountsTypeOK' /\ AdminExists' /\ NamesDiffer'
      BY <1>2 DEF AdminInv, AccountsTypeOK, AdminExists, NamesDiffer, IsAdmin, Known
    <2>2. WritesAreSafe'
      BY <1>2 DEF Effects, RequestsStep, WritesAreSafe, WriteIsSafe, Known
    <2> QED
      BY <1>1, <2>1, <2>2 DEF AdminInv
  <1>3. ASSUME NEW u \in Users, NEW row \in Account, Inserted(u, row) \/ Rewritten(u, row)
        PROVE  AdminInv'
    <2>1. account' = [account EXCEPT ![u] = row] /\ NameFree(u, row.name)
      BY <1>3 DEF Inserted, Rewritten
    <2>2. AccountsTypeOK' /\ NamesDiffer'
      BY <2>1, ChangedAccount, NamesStep
    <2>3. AdminExists' /\ (\A tx \in UserTx : WriteIsSafe(tx) => WriteIsSafe(tx)')
      BY <1>3, InsertStep, RewriteStep
    <2>4. \A r \in UserReqs : userTx'[r] \in UserTx
      BY <1>1 DEF RequestsTypeOK
    <2>5. ASSUME NEW r \in UserReqs, userTx'[r].pc = "write" PROVE WriteIsSafe(userTx[r])'
      <3>1. PICK tx \in UserTx : tx = userTx'[r]
        BY <2>4
      <3>2. WriteIsSafe(tx)
        BY <2>5, <3>1 DEF Effects, RequestsStep
      <3>3. WriteIsSafe(tx)'
        BY <2>3, <3>2
      <3> QED
        BY <3>1, <3>3 DEF WriteIsSafe, Known
    <2> QED
      BY <1>1, <2>2, <2>3, <2>5 DEF AdminInv, WritesAreSafe
  <1> QED
    BY <1>2, <1>3 DEF Effects, AccountsStep


LEMMA AdminInvInit == UserInit => AdminInv
  <1> SUFFICES ASSUME UserInit PROVE AdminInv
    OBVIOUS
  <1>1. AccountsTypeOK /\ \A u \in Users : ~Known(u)
    BY DEF UserInit, AccountsTypeOK, Known
  <1>2. RequestsTypeOK /\ \A r \in UserReqs : userTx[r].pc # "write"
    BY DEF UserInit, RequestsTypeOK, IdleUserTx, UserTx
  <1> QED
    BY <1>1, <1>2 DEF AdminInv, AdminExists, NamesDiffer, WritesAreSafe

LEMMA AdminInvNext == AdminInv /\ [UserNext]_userVars => AdminInv'
  BY UserConstants, NextEffects, EffectsKeep

\* The admin stands: AssureAdminUser makes its account before anybody else can make one, and no
\* change takes it its name, its rights or its activity, whichever requests overlap.
THEOREM AdminStandsCorrect == UserSpec => []AdminStands
  <1>1. AdminInv => AdminStands
    BY DEF AdminInv, AdminExists, NamesDiffer, IsAdmin, AdminStands
  <1> QED
    BY AdminInvInit, AdminInvNext, <1>1, PTL DEF UserSpec
-----------------------------------------------------------------------------
(* What services that keep accounts are told.                              *)

\* UserTypeOK as to events and copies.
UserEvent == [type : GatewayHears, row : Account]
Views == {View(listener, row) : row \in Account \cup {NoUser}}
CopiesOK == /\ listener \in Listeners
            /\ userEvents \in [Users -> Seq(UserEvent)]
            /\ \A u \in Users : Len(userEvents[u]) <= MaxUserEvents
            /\ copy \in [Users -> Views]
CopyInv == CopiesOK /\ CopiesFollow

\* CopiesFollow for a user.
FollowsOf(u) ==
    /\ \A i \in DOMAIN userEvents[u] :
           /\ Handleable(listener, Told(u, i - 1), userEvents[u][i])
           /\ Copied(listener, Told(u, i - 1), userEvents[u][i]) = Told(u, i)
    /\ Told(u, Len(userEvents[u])) = View(listener, account[u])

LEMMA CopiesFollowEach == CopiesFollow <=> \A u \in Users : FollowsOf(u)
  BY DEF CopiesFollow, FollowsOf

\* A service that does not hear of a kind of changes does not keep what they change.
LEMMA HeardIsKept ==
  ASSUME NEW s \in Listeners
  PROVE  /\ Keeps[s] \subseteq {"name", "admin", "active", "pass"} /\ "created" \in Hears[s]
         /\ "updated" \notin Hears[s] => Keeps[s] = {}
         /\ "pass" \notin Hears[s] => "pass" \notin Keeps[s]
  <1>1. s \in {"gateway", "operation", "logistics", "radio", "inapp", "openintel", "group", "permission"}
    BY KnownListeners DEF Keeps
  <1> QED
    BY <1>1 DEF Keeps, Hears, GatewayKeeps, GatewayHears, OperationKeeps, OperationHears, LogisticsKeeps,
       LogisticsHears, RadioKeeps, RadioHears, InAppKeeps, InAppHears, OpenIntelKeeps, OpenIntelHears,
       GroupKeeps, GroupHears, PermissionKeeps, PermissionHears

\* A change of an account and the event that tells it.
Change(was, event) ==
    /\ event.row \in Account
    /\ \/ event.type = "created" /\ was = NoUser
       \/ event.type = "updated" /\ was \in Account /\ event.row.pass = was.pass
       \/ /\ event.type = "pass" /\ was \in Account
          /\ event.row.name = was.name /\ event.row.admin = was.admin /\ event.row.active = was.active

\* The event makes of what is kept of the account before the change what is kept of it after that.
LEMMA ChangeCopied ==
  ASSUME UserConstants, NEW s \in Listeners, NEW was, NEW event, Change(was, event)
  PROVE  /\ Handleable(s, View(s, was), event)
         /\ Copied(s, View(s, was), event) = View(s, event.row)
  <1>1. View(s, event.row) = [f \in Keeps[s] |-> event.row[f]]
    BY DEF Change, View, UserConstants
  <1>2. CASE event.type = "created" /\ was = NoUser
    BY <1>1, <1>2, HeardIsKept DEF Handleable, Copied, View
  <1>3. CASE was \in Account
    <2>1. View(s, was) = [f \in Keeps[s] |-> was[f]] /\ View(s, was) # NoUser
      BY <1>3, KnownListeners DEF View, UserConstants
    <2>2. CASE event.type = "updated" /\ event.row.pass = was.pass
      <3>1. Handleable(s, View(s, was), event)
        BY <2>1, <2>2 DEF Handleable
      <3>2. CASE "updated" \notin Hears[s]
        BY <1>1, <2>1, <2>2, <3>1, <3>2, HeardIsKept DEF Copied
      <3>3. CASE "updated" \in Hears[s]
        <4>1. Copied(s, View(s, was), event) = [f \in Keeps[s] |-> IF f = "pass" THEN View(s, was)[f] ELSE event.row[f]]
          BY <2>2, <3>3 DEF Copied
        <4>2. ASSUME NEW f \in Keeps[s]
              PROVE  (IF f = "pass" THEN View(s, was)[f] ELSE event.row[f]) = event.row[f]
          <5>1. View(s, was)[f] = was[f]
            BY <2>1
          <5>2. was["pass"] = event.row["pass"]
            BY <2>2
          <5> QED
            BY <5>1, <5>2
        <4> QED
          BY <1>1, <3>1, <4>1, <4>2
      <3> QED
        BY <3>2, <3>3
    <2>3. CASE /\ event.type = "pass"
               /\ event.row.name = was.name /\ event.row.admin = was.admin /\ event.row.active = was.active
      <3>1. Handleable(s, View(s, was), event)
        BY <2>1, <2>3 DEF Handleable
      <3>2. \A f \in Keeps[s] : f # "pass" => View(s, was)[f] = event.row[f]
        <4> SUFFICES ASSUME NEW f \in Keeps[s], f # "pass" PROVE View(s, was)[f] = event.row[f]
          OBVIOUS
        <4>1. View(s, was)[f] = was[f]
          BY <2>1
        <4>2. f \in {"name", "admin", "active"}
          BY HeardIsKept
        <4>3. was["name"] = event.row["name"] /\ was["admin"] = event.row["admin"] /\ was["active"] = event.row["active"]
          BY <2>3
        <4> QED
          BY <4>1, <4>2, <4>3
      <3>3. CASE "pass" \notin Hears[s]
        <4>1. Copied(s, View(s, was), event) = View(s, was)
          BY <2>3, <3>3 DEF Copied
        <4>2. \A f \in Keeps[s] : View(s, was)[f] = event.row[f]
          BY <3>2, <3>3, HeardIsKept
        <4>3. [f \in Keeps[s] |-> was[f]] = [f \in Keeps[s] |-> event.row[f]]
          BY <2>1, <4>2
        <4> QED
          BY <1>1, <2>1, <3>1, <4>1, <4>3
      <3>4. CASE "pass" \in Hears[s]
        <4>1. Copied(s, View(s, was), event) = [f \in Keeps[s] |-> IF f # "pass" THEN View(s, was)[f] ELSE event.row[f]]
          BY <2>3, <3>4 DEF Copied
        <4> QED
          BY <1>1, <3>1, <3>2, <4>1
      <3> QED
        BY <3>3, <3>4
    <2> QED
      BY <1>3, <2>2, <2>3 DEF Change, UserConstants
  <1> QED
    BY <1>2, <1>3 DEF Change

\* Accounts are as they were.
LEMMA SameCopies ==
  ASSUME CopyInv, UNCHANGED <<account, listener, userEvents, copy>>
  PROVE  CopyInv'
  <1>1. Views' = Views
    BY DEF Views
  <1>2. \A u \in Users : FollowsOf(u)'
    <2> SUFFICES ASSUME NEW u \in Users PROVE FollowsOf(u)'
      OBVIOUS
    <2>1. FollowsOf(u)
      BY CopiesFollowEach DEF CopyInv
    <2> QED
      BY <2>1 DEF FollowsOf, Told
  <1>3. CopiesFollow'
    BY <1>2 DEF CopiesFollow, FollowsOf
  <1> QED
    BY <1>1, <1>3 DEF CopyInv, CopiesOK

\* A change that is told.
LEMMA ToldChange ==
  ASSUME UserConstants, AdminInv, CopyInv, NEW u \in Users, NEW type \in GatewayHears, NEW row \in Account,
         TellUser(u, type, row), Change(account[u], [type |-> type, row |-> row]),
         account' = [account EXCEPT ![u] = row], UNCHANGED <<listener, copy>>
  PROVE  CopyInv'
  <1>1. PICK s \in Seq(UserEvent) : s = userEvents[u]
    BY DEF CopyInv, CopiesOK
  <1>2. PICK event \in UserEvent : event = [type |-> type, row |-> row]
    BY DEF UserEvent
  <1>3. PICK n \in Nat : n = Len(s)
    BY LenProperties
  <1>4. PICK t : t = Append(s, event)
    OBVIOUS
  <1>5. t \in Seq(UserEvent) /\ Len(t) = n + 1 /\ (\A i \in 1..n : t[i] = s[i]) /\ t[n + 1] = event
    BY <1>3, <1>4, AppendProperties
  <1>6. /\ userEvents' = [userEvents EXCEPT ![u] = t] /\ userEvents'[u] = t
        /\ (\A v \in Users \ {u} : userEvents'[v] = userEvents[v]) /\ Len(s) < MaxUserEvents
        /\ userEvents' = [v \in Users |-> userEvents'[v]]
    BY <1>1, <1>2, <1>4 DEF TellUser, CopyInv, CopiesOK
  <1>7. account'[u] = row /\ \A v \in Users \ {u} : account'[v] = account[v]
    BY DEF AdminInv, AccountsTypeOK
  <1>8. CopiesOK'
    <2>1. \A v \in Users : userEvents'[v] \in Seq(UserEvent)
      <3>1. \A v \in Users : userEvents[v] \in Seq(UserEvent)
        BY DEF CopyInv, CopiesOK
      <3> QED
        BY <1>5, <1>6, <3>1
    <2>2. \A v \in Users : Len(userEvents'[v]) <= MaxUserEvents
      BY <1>3, <1>5, <1>6 DEF CopyInv, CopiesOK, UserConstants
    <2>3. userEvents' \in [Users -> Seq(UserEvent)]
      BY <1>6, <2>1
    <2>4. Views' = Views
      BY DEF Views, View
    <2> QED
      BY <2>2, <2>3, <2>4 DEF CopyInv, CopiesOK
  <1>9. ASSUME NEW v \in Users \ {u} PROVE FollowsOf(v)'
    <2>1. FollowsOf(v)
      BY CopiesFollowEach DEF CopyInv
    <2>2. /\ userEvents'[v] = userEvents[v] /\ copy'[v] = copy[v]
          /\ account'[v] = account[v] /\ listener' = listener
      BY <1>6, <1>7
    <2> QED
      BY <2>1, <2>2 DEF FollowsOf, Told
  <1>10. /\ \A i \in DOMAIN t :
                /\ Handleable(listener', Told(u, i - 1)', t[i])
                /\ Copied(listener', Told(u, i - 1)', t[i]) = Told(u, i)'
         /\ Told(u, Len(t))' = View(listener', account'[u])
    <2>1. \A i \in 0..n : Told(u, i)' = Told(u, i)
      <3> SUFFICES ASSUME NEW i \in 0..n PROVE Told(u, i)' = Told(u, i)
        OBVIOUS
      <3>1. i = 0 \/ i \in 1..n
        BY <1>3
      <3>2. i \in 1..n => t[i].row = s[i].row
        BY <1>5
      <3> QED
        BY <1>1, <1>6, <3>1, <3>2 DEF Told, View
    <2>2. Told(u, n) = View(listener, account[u])
      BY <1>1, <1>3 DEF CopyInv, CopiesFollow
    <2>3. Told(u, n + 1)' = View(listener, row)
      <3>1. t[n + 1].row = row /\ n + 1 # 0
        BY <1>2, <1>3, <1>5
      <3> QED
        BY <1>6, <3>1 DEF Told
    <2>4. /\ Handleable(listener, View(listener, account[u]), event)
          /\ Copied(listener, View(listener, account[u]), event) = View(listener, event.row)
      BY <1>2, ChangeCopied DEF CopyInv, CopiesOK
    <2>5. event.row = row
      BY <1>2
    <2>6. ASSUME NEW i \in DOMAIN t
          PROVE  /\ Handleable(listener', Told(u, i - 1)', t[i])
                 /\ Copied(listener', Told(u, i - 1)', t[i]) = Told(u, i)'
      <3>1. i \in 1..(n + 1)
        BY <1>5, LenProperties
      <3>2. CASE i = n + 1
        <4>1. i - 1 = n /\ t[i] = event /\ n \in 0..n
          BY <1>5, <3>2
        <4>2. Told(u, i - 1)' = View(listener, account[u])
          BY <2>1, <2>2, <4>1
        <4> QED
          BY <2>3, <2>4, <2>5, <3>2, <4>1, <4>2
      <3>3. CASE i # n + 1
        <4>1. i \in 1..n /\ i \in 0..n /\ i - 1 \in 0..n
          BY <3>1, <3>3
        <4>2. t[i] = s[i] /\ i \in DOMAIN s
          BY <1>3, <1>5, <4>1, LenProperties
        <4>3. /\ Handleable(listener, Told(u, i - 1), s[i])
              /\ Copied(listener, Told(u, i - 1), s[i]) = Told(u, i)
          BY <1>1, <4>2 DEF CopyInv, CopiesFollow
        <4> QED
          BY <2>1, <4>1, <4>2, <4>3
      <3> QED
        BY <3>2, <3>3
    <2> QED
      BY <1>5, <1>7, <2>3, <2>6
  <1>11. FollowsOf(u)'
    BY <1>6, <1>10 DEF FollowsOf
  <1>12. \A v \in Users : FollowsOf(v)'
    BY <1>9, <1>11
  <1>13. CopiesFollow'
    BY <1>12 DEF CopiesFollow, FollowsOf
  <1> QED
    BY <1>8, <1>13 DEF CopyInv

\* A service handles the event about a user that is next.
LEMMA HandledChange ==
  ASSUME UserConstants, CopyInv, NEW u \in Users, HandleUserEvent(u)
  PROVE  CopyInv'
  <1>1. PICK s \in Seq(UserEvent) : s = userEvents[u]
    BY DEF CopyInv, CopiesOK
  <1>2. PICK n \in Nat : n = Len(s)
    BY LenProperties
  <1>3. s # <<>> /\ n # 0
    BY <1>1, <1>2, EmptySeq DEF HandleUserEvent
  <1>4. PICK t : t = Tail(s)
    OBVIOUS
  <1>5. /\ Head(s) = s[1] /\ Head(s) \in UserEvent /\ t \in Seq(UserEvent) /\ Len(t) = n - 1
        /\ \A i \in 1..(n - 1) : t[i] = s[i + 1]
    BY <1>2, <1>3, <1>4, HeadTailProperties, ElementOfSeq
  <1>6. Copied(listener, copy[u], s[1]) = View(listener, s[1].row)
    <2>1. 1 \in DOMAIN s
      BY <1>2, <1>3, LenProperties
    <2>2. Copied(listener, Told(u, 1 - 1), s[1]) = Told(u, 1)
      BY <1>1, <2>1 DEF CopyInv, CopiesFollow
    <2>3. Told(u, 1 - 1) = copy[u] /\ Told(u, 1) = View(listener, s[1].row)
      BY <1>1 DEF Told
    <2> QED
      BY <2>2, <2>3
  <1>7. /\ copy'[u] = View(listener, s[1].row) /\ userEvents'[u] = t
        /\ (\A v \in Users \ {u} : copy'[v] = copy[v] /\ userEvents'[v] = userEvents[v])
        /\ userEvents' = [v \in Users |-> userEvents'[v]] /\ copy' = [v \in Users |-> copy'[v]]
        /\ UNCHANGED <<account, listener>>
    <2>1. /\ copy' = [copy EXCEPT ![u] = Copied(listener, copy[u], s[1])]
          /\ userEvents' = [userEvents EXCEPT ![u] = t]
          /\ UNCHANGED <<account, listener>>
      BY <1>1, <1>4, <1>5 DEF HandleUserEvent
    <2> QED
      BY <1>6, <2>1 DEF CopyInv, CopiesOK
  <1>8. CopiesOK'
    <2>1. \A v \in Users : userEvents'[v] \in Seq(UserEvent)
      <3>1. \A v \in Users : userEvents[v] \in Seq(UserEvent)
        BY DEF CopyInv, CopiesOK
      <3> QED
        BY <1>5, <1>7, <3>1
    <2>2. \A v \in Users : Len(userEvents'[v]) <= MaxUserEvents
      <3>1. \A v \in Users : Len(userEvents[v]) <= MaxUserEvents
        BY DEF CopyInv, CopiesOK
      <3>2. n <= MaxUserEvents /\ MaxUserEvents \in Nat
        BY <1>1, <1>2, <3>1 DEF UserConstants
      <3>3. Len(t) <= MaxUserEvents
        BY <1>5, <3>2
      <3> QED
        BY <1>7, <3>1, <3>3
    <2>3. userEvents' \in [Users -> Seq(UserEvent)]
      BY <1>7, <2>1
    <2>4. Views' = Views
      BY <1>7 DEF Views
    <2>5. View(listener, s[1].row) \in Views
      BY <1>5 DEF Views, UserEvent
    <2>6. copy' \in [Users -> Views]
      BY <1>7, <2>5 DEF CopyInv, CopiesOK
    <2> QED
      BY <1>7, <2>2, <2>3, <2>4, <2>6 DEF CopyInv, CopiesOK
  <1>9. ASSUME NEW v \in Users \ {u} PROVE FollowsOf(v)'
    <2>1. FollowsOf(v)
      BY CopiesFollowEach DEF CopyInv
    <2>2. /\ userEvents'[v] = userEvents[v] /\ copy'[v] = copy[v]
          /\ account'[v] = account[v] /\ listener' = listener
      BY <1>7
    <2> QED
      BY <2>1, <2>2 DEF FollowsOf, Told
  <1>10. \A i \in 0..(n - 1) : Told(u, i)' = Told(u, i + 1)
    <2> SUFFICES ASSUME NEW i \in 0..(n - 1) PROVE Told(u, i)' = Told(u, i + 1)
      OBVIOUS
    <2>1. Told(u, i + 1) = View(listener, s[i + 1].row)
      BY <1>1 DEF Told
    <2>2. CASE i = 0
      BY <1>7, <2>1, <2>2 DEF Told
    <2>3. CASE i # 0
      <3>1. i \in 1..(n - 1)
        BY <2>3
      <3>2. t[i] = s[i + 1]
        BY <1>5, <3>1
      <3> QED
        BY <1>7, <2>1, <2>3, <3>2 DEF Told
    <2> QED
      BY <2>2, <2>3
  <1>11. ASSUME NEW i \in DOMAIN t
         PROVE  /\ Handleable(listener, Told(u, i - 1)', t[i])
                /\ Copied(listener, Told(u, i - 1)', t[i]) = Told(u, i)'
    <2>1. i \in 1..(n - 1) /\ i \in 0..(n - 1) /\ i - 1 \in 0..(n - 1) /\ (i + 1) - 1 = i /\ (i - 1) + 1 = i
      BY <1>5, LenProperties
    <2>2. t[i] = s[i + 1] /\ i + 1 \in DOMAIN s
      BY <1>2, <1>5, <2>1, LenProperties
    <2>3. /\ Handleable(listener, Told(u, (i + 1) - 1), s[i + 1])
          /\ Copied(listener, Told(u, (i + 1) - 1), s[i + 1]) = Told(u, i + 1)
      BY <1>1, <2>2 DEF CopyInv, CopiesFollow
    <2>4. Told(u, i - 1)' = Told(u, i) /\ Told(u, i)' = Told(u, i + 1)
      BY <1>10, <2>1
    <2> QED
      BY <2>1, <2>2, <2>3, <2>4
  <1>12. Told(u, Len(t))' = View(listener, account[u])
    <2>1. Len(t) \in 0..(n - 1) /\ Len(t) + 1 = n
      BY <1>3, <1>5
    <2>2. Told(u, n) = View(listener, account[u])
      BY <1>1, <1>2 DEF CopyInv, CopiesFollow
    <2> QED
      BY <1>10, <2>1, <2>2
  <1>13. FollowsOf(u)'
    BY <1>7, <1>11, <1>12 DEF FollowsOf
  <1>14. \A v \in Users : FollowsOf(v)'
    BY <1>9, <1>13
  <1>15. CopiesFollow'
    BY <1>14 DEF CopiesFollow, FollowsOf
  <1> QED
    BY <1>8, <1>15 DEF CopyInv

\* Whatever a request writes is a change of the account as it is, told as what it is.
LEMMA InsertTold ==
  ASSUME UserConstants, AdminInv, CopyInv, NEW u \in Users, NEW row \in Account, InsertUser(u, row)
  PROVE  CopyInv'
  <1>1. Change(account[u], [type |-> "created", row |-> row])
    BY DEF InsertUser, Known, Change
  <1>2. "created" \in GatewayHears
    BY DEF GatewayHears
  <1> QED
    BY <1>1, <1>2, ToldChange DEF InsertUser

LEMMA WriteTold ==
  ASSUME UserConstants, AdminInv, CopyInv, NEW u \in Users, NEW details \in Details, WriteUser(u, details)
  PROVE  CopyInv'
  <1>1. PICK was \in Account : was = account[u]
    BY DEF WriteUser, Known, AdminInv, AccountsTypeOK
  <1>2. PICK row \in Account : row = [name |-> details.name, admin |-> details.admin, active |-> details.active,
                                      pass |-> was.pass]
    BY DEF Details, Account
  <1>3. account' = [account EXCEPT ![u] = row] /\ account'[u] = row
    BY <1>1, <1>2 DEF WriteUser, AdminInv, AccountsTypeOK
  <1>4. TellUser(u, "updated", row) /\ UNCHANGED <<listener, copy>>
    BY <1>3 DEF WriteUser
  <1>5. row.pass = was.pass
    BY <1>2
  <1>6. Change(account[u], [type |-> "updated", row |-> row])
    BY <1>1, <1>5 DEF Change
  <1>7. "updated" \in GatewayHears
    BY DEF GatewayHears
  <1> QED
    BY <1>3, <1>4, <1>6, <1>7, ToldChange

LEMMA PassTold ==
  ASSUME UserConstants, AdminInv, CopyInv, NEW token \in Tokens, NEW u \in Users, NEW pass \in Passes,
         UpdateUserPassByUserID(token, u, pass)
  PROVE  CopyInv'
  <1>1. PICK was \in Account : was = account[u]
    BY DEF UpdateUserPassByUserID, Known, AdminInv, AccountsTypeOK
  <1>2. PICK row \in Account : row = [was EXCEPT !.pass = pass]
    BY DEF Account
  <1>3. account' = [account EXCEPT ![u] = row] /\ account'[u] = row
    BY <1>1, <1>2 DEF UpdateUserPassByUserID, AdminInv, AccountsTypeOK
  <1>4. TellUser(u, "pass", row) /\ UNCHANGED <<listener, copy>>
    BY <1>3 DEF UpdateUserPassByUserID
  <1>5. row.name = was.name /\ row.admin = was.admin /\ row.active = was.active
    BY <1>2 DEF Account
  <1>6. Change(account[u], [type |-> "pass", row |-> row])
    BY <1>1, <1>5 DEF Change
  <1>7. "pass" \in GatewayHears
    BY DEF GatewayHears
  <1> QED
    BY <1>3, <1>4, <1>6, <1>7, ToldChange

LEMMA CopyInvInit == ASSUME UserConstants, UserInit PROVE CopyInv
  <1>1. <<>> \in Seq(UserEvent) /\ Len(<<>>) = 0 /\ DOMAIN <<>> = {}
    OBVIOUS
  <1>2. NoUser \in Views
    BY DEF Views, View
  <1>3. CopiesOK
    BY <1>1, <1>2 DEF UserInit, CopiesOK, UserConstants
  <1>4. CopiesFollow
    BY <1>1 DEF UserInit, CopiesFollow, Told, View
  <1> QED
    BY <1>3, <1>4 DEF CopyInv

LEMMA CopyInvNext == ASSUME UserConstants, AdminInv, CopyInv, [UserNext]_userVars PROVE CopyInv'
  <1>1. CASE UNCHANGED userVars
    BY <1>1, SameCopies DEF userVars
  <1>2. ASSUME NEW r \in UserReqs, FinishUserTx(r) PROVE CopyInv'
    <2>1. userTx[r].user \in Users /\ userTx[r].want \in Details
      BY <1>2 DEF FinishUserTx, AdminInv, WritesAreSafe, WriteIsSafe
    <2> QED
      BY <1>2, <2>1, WriteTold DEF FinishUserTx
  <1>3. ASSUME NEW r \in UserReqs, NEW u \in Users, CreateAdminUser(r, u) PROVE CopyInv'
    <2>1. [name |-> AdminName, admin |-> TRUE, active |-> TRUE, pass |-> AdminPass] \in Account
      BY DEF UserConstants, Account
    <2> QED
      BY <1>3, <2>1, InsertTold DEF CreateAdminUser
  <1>4. ASSUME NEW r \in UserReqs, AssureAdminUser(r) \/ AbortUserTx(r) PROVE CopyInv'
    BY <1>4, SameCopies DEF AssureAdminUser, AbortUserTx
  <1>5. ASSUME NEW token \in Tokens, NEW u \in Users, NEW r \in UserReqs, BeginSetInactive(r, token, u) PROVE CopyInv'
    BY <1>5, SameCopies DEF BeginSetInactive
  <1>6. ASSUME NEW token \in Tokens, NEW u \in Users, NEW r \in UserReqs, NEW details \in Details,
               BeginUpdateUser(r, token, u, details)
        PROVE  CopyInv'
    BY <1>6, SameCopies DEF BeginUpdateUser
  <1>7. ASSUME NEW token \in Tokens, NEW u \in Users, NEW row \in Account, CreateUser(token, u, row) PROVE CopyInv'
    BY <1>7, InsertTold DEF CreateUser
  <1>8. CASE UserNext
    BY <1>2, <1>3, <1>4, <1>5, <1>6, <1>7, <1>8, PassTold, HandledChange DEF UserNext
  <1> QED
    BY <1>1, <1>8

LEMMA CopyInvFollows == AdminInv /\ CopyInv => UserTypeOK /\ CopiesFollow
  BY DEF AdminInv, AccountsTypeOK, RequestsTypeOK, CopyInv, CopiesOK, UserEvent, Views, UserTypeOK

\* Accounts, requests and copies have their types, and a service that keeps accounts gets to know every change of
\* what it keeps: the events it has not handled make of its copies what user-svc has stored.
THEOREM CopiesFollowCorrect == UserSpec => [](UserTypeOK /\ CopiesFollow)
  <1>1. UserInit => AdminInv /\ CopyInv
    BY AdminInvInit, CopyInvInit, UserConstants
  <1>2. AdminInv /\ CopyInv /\ [UserNext]_userVars => (AdminInv /\ CopyInv)'
    BY AdminInvNext, CopyInvNext, UserConstants
  <1> QED
    BY <1>1, <1>2, CopyInvFollows, PTL DEF UserSpec
-----------------------------------------------------------------------------
(* Permissions.                                                            *)

\* GrantTypeOK, and what is on its way.
GrantTypes == /\ grantRows \in [Grantees -> SUBSET GrantRow]
              /\ grantTx \in [GrantReqs -> GrantTx]
              /\ grantEvents \in [Grantees -> Seq(SUBSET Grants)]
              /\ \A u \in Grantees : Len(grantEvents[u]) <= MaxGrantEvents
              /\ grantCopy \in [Grantees -> SUBSET Grants]
              /\ mixed \subseteq Grantees

\* A request that runs is about somebody, and has inserted what it is asked for or nothing yet.
GrantRequestOK(r) ==
    /\ grantTx[r].pc = "idle" => grantTx[r].user = NoGrantee /\ ~grantTx[r].alone
    /\ grantTx[r].pc # "idle" => grantTx[r].user \in Grantees
    /\ grantTx[r].inserted = IF grantTx[r].pc = "commit" THEN [name : grantTx[r].list, by : {r}] ELSE {}
\* One that is alone is going to delete, or has deleted, all there is.
GrantAloneOK(r) == grantTx[r].alone =>
    /\ \A q \in GrantReqs \ {r} : grantTx[q].user # grantTx[r].user
    /\ grantTx[r].pc = "clear" => grantTx[r].snapshot = grantRows[grantTx[r].user]
    /\ grantTx[r].pc \in {"insert", "commit"} => grantTx[r].gone = grantRows[grantTx[r].user]
\* The unique index: what has been inserted is neither there nor inserted by others.
InsertedIsNew(r) == grantTx[r].pc = "commit" =>
    /\ \A row \in grantRows[grantTx[r].user] \ grantTx[r].gone : row.name \notin grantTx[r].list
    /\ \A q \in GrantReqs \ {r} : grantTx[q].pc = "commit" /\ grantTx[q].user = grantTx[r].user =>
           grantTx[q].list \cap grantTx[r].list = {}
GrantRequestsOK == \A r \in GrantReqs : GrantRequestOK(r) /\ GrantAloneOK(r) /\ InsertedIsNew(r)
GrantInv == GrantTypes /\ GrantRequestsOK /\ GrantsAsTold

\* Requests that do nothing.
LEMMA IdleGrantTyped ==
  /\ IdleGrantTx \in GrantTx /\ IdleGrantTx.pc = "idle" /\ IdleGrantTx.user = NoGrantee
  /\ IdleGrantTx.alone = FALSE /\ IdleGrantTx.inserted = {}
  BY DEF IdleGrantTx, GrantTx

\* Only requests have changed.
LEMMA GrantTxStep ==
  ASSUME GrantInv, UNCHANGED <<grantRows, grantEvents, grantCopy, mixed>>,
         grantTx' \in [GrantReqs -> GrantTx], GrantRequestsOK'
  PROVE  GrantInv'
  BY DEF GrantInv, GrantTypes, GrantsAsTold

\* A request goes on, with the same user and list.
LEMMA GrantGoesOn ==
  ASSUME GrantInv, NEW r \in GrantReqs, NEW x \in GrantTx, StepGrantTx(r, x),
         grantTx[r].pc # "idle", x.pc \in {"insert", "commit"}, x.user = grantTx[r].user, x.alone = grantTx[r].alone,
         x.inserted = IF x.pc = "commit" THEN [name : x.list, by : {r}] ELSE {},
         x.alone => x.gone = grantRows[x.user],
         x.pc = "commit" =>
             /\ \A row \in grantRows[x.user] \ x.gone : row.name \notin x.list
             /\ \A q \in GrantReqs \ {r} : grantTx[q].pc = "commit" /\ grantTx[q].user = x.user =>
                    grantTx[q].list \cap x.list = {}
  PROVE  GrantInv'
  <1>1. /\ grantTx'[r] = x /\ \A q \in GrantReqs \ {r} : grantTx'[q] = grantTx[q]
        /\ grantTx' \in [GrantReqs -> GrantTx]
        /\ UNCHANGED <<grantRows, grantEvents, grantCopy, mixed>>
    BY DEF StepGrantTx, GrantInv, GrantTypes
  <1>2. \A q \in GrantReqs : grantTx'[q].user = grantTx[q].user /\ grantTx'[q].alone = grantTx[q].alone
    BY <1>1
  <1>3. ASSUME NEW q \in GrantReqs PROVE GrantRequestOK(q)'
    <2>1. GrantRequestOK(q)
      BY DEF GrantInv, GrantRequestsOK
    <2>2. CASE q = r
      BY <1>1, <2>1, <2>2 DEF GrantRequestOK
    <2>3. CASE q # r
      BY <1>1, <2>1, <2>3 DEF GrantRequestOK
    <2> QED
      BY <2>2, <2>3
  <1>4. ASSUME NEW q \in GrantReqs PROVE GrantAloneOK(q)'
    <2> SUFFICES ASSUME grantTx[q].alone PROVE GrantAloneOK(q)'
      BY <1>2 DEF GrantAloneOK
    <2>1. \A p \in GrantReqs \ {q} : grantTx'[p].user # grantTx'[q].user
      BY <1>2 DEF GrantInv, GrantRequestsOK, GrantAloneOK
    <2> QED
      BY <1>1, <2>1 DEF GrantInv, GrantRequestsOK, GrantAloneOK
  <1>5. ASSUME NEW q \in GrantReqs PROVE InsertedIsNew(q)'
    <2>1. CASE q = r
      BY <1>1, <2>1 DEF InsertedIsNew
    <2>2. CASE q # r
      <3> SUFFICES ASSUME grantTx[q].pc = "commit" PROVE InsertedIsNew(q)'
        BY <1>1, <2>2 DEF InsertedIsNew
      <3>1. x.pc = "commit" /\ x.user = grantTx[q].user => x.list \cap grantTx[q].list = {}
        BY <2>2
      <3> QED
        BY <1>1, <2>2, <3>1 DEF GrantInv, GrantRequestsOK, InsertedIsNew
    <2> QED
      BY <2>1, <2>2
  <1> QED
    BY <1>1, <1>3, <1>4, <1>5, GrantTxStep DEF GrantRequestsOK

\* The DELETE starts, and others that concern the same user are no longer alone.
LEMMA GrantStartStep ==
  ASSUME GrantInv, NEW r \in GrantReqs, NEW u \in Grantees, NEW list \in SUBSET Grants,
         UpdatePermissionsByUser(r, u, list)
  PROVE  GrantInv'
  <1> DEFINE b == \A p \in GrantReqs : grantTx[p].user # u
  <1>1. grantRows[u] \in SUBSET GrantRow
    BY DEF GrantInv, GrantTypes
  <1>2. PICK x \in GrantTx : x = [IdleGrantTx EXCEPT !.pc = "clear", !.user = u, !.list = list,
                                                     !.snapshot = grantRows[u], !.alone = b]
    BY <1>1, IdleGrantTyped DEF IdleGrantTx, GrantTx
  <1>3. x.pc = "clear" /\ x.user = u /\ x.snapshot = grantRows[u] /\ x.alone = b /\ x.inserted = {}
    BY <1>2, IdleGrantTyped DEF IdleGrantTx, GrantTx
  <1>4. /\ grantTx[r].pc = "idle" /\ UNCHANGED <<grantRows, grantEvents, grantCopy, mixed>>
        /\ grantTx' = [q \in GrantReqs |-> IF q = r THEN x
                                           ELSE IF grantTx[q].user = u THEN [grantTx[q] EXCEPT !.alone = FALSE]
                                           ELSE grantTx[q]]
    BY <1>2 DEF UpdatePermissionsByUser
  <1>5. \A q \in GrantReqs : grantTx[q] \in GrantTx /\ [grantTx[q] EXCEPT !.alone = FALSE] \in GrantTx
    BY DEF GrantInv, GrantTypes, GrantTx
  <1>6. grantTx' \in [GrantReqs -> GrantTx] /\ grantTx'[r] = x
    BY <1>4, <1>5
  <1>7. \A q \in GrantReqs \ {r} :
             /\ grantTx'[q].pc = grantTx[q].pc /\ grantTx'[q].user = grantTx[q].user
             /\ grantTx'[q].list = grantTx[q].list /\ grantTx'[q].gone = grantTx[q].gone
             /\ grantTx'[q].inserted = grantTx[q].inserted
             /\ grantTx'[q].alone => grantTx'[q] = grantTx[q] /\ grantTx[q].user # u
    BY <1>4, <1>5 DEF GrantTx
  <1>8. ASSUME NEW q \in GrantReqs PROVE GrantRequestOK(q)'
    <2>1. CASE q = r
      BY <1>3, <1>6, <2>1 DEF GrantRequestOK
    <2>2. CASE q # r
      <3>1. grantTx'[q].alone => grantTx[q].alone
        BY <1>7, <2>2
      <3> QED
        BY <1>7, <2>2, <3>1 DEF GrantInv, GrantRequestsOK, GrantRequestOK
    <2> QED
      BY <2>1, <2>2
  <1>9. ASSUME NEW q \in GrantReqs PROVE GrantAloneOK(q)'
    <2>1. CASE q = r
      BY <1>3, <1>4, <1>6, <1>7, <2>1 DEF GrantAloneOK
    <2>2. CASE q # r
      <3> SUFFICES ASSUME grantTx'[q].alone PROVE GrantAloneOK(q)'
        BY DEF GrantAloneOK
      <3>1. grantTx'[q] = grantTx[q] /\ grantTx[q].user # u /\ grantTx[q].alone
        BY <1>7, <2>2
      <3>2. \A p \in GrantReqs \ {q} : grantTx'[p].user # grantTx'[q].user
        BY <1>3, <1>6, <1>7, <2>2, <3>1 DEF GrantInv, GrantRequestsOK, GrantAloneOK
      <3> QED
        BY <1>4, <3>1, <3>2 DEF GrantInv, GrantRequestsOK, GrantAloneOK
    <2> QED
      BY <2>1, <2>2
  <1>10. ASSUME NEW q \in GrantReqs PROVE InsertedIsNew(q)'
    <2>1. CASE q = r
      BY <1>3, <1>6, <2>1 DEF InsertedIsNew
    <2>2. CASE q # r
      BY <1>3, <1>4, <1>6, <1>7, <2>2 DEF GrantInv, GrantRequestsOK, InsertedIsNew
    <2> QED
      BY <2>1, <2>2
  <1> QED
    BY <1>4, <1>6, <1>8, <1>9, <1>10, GrantTxStep DEF GrantRequestsOK

LEMMA GrantClearStep ==
  ASSUME GrantInv, NEW r \in GrantReqs, ClearGrants(r)
  PROVE  GrantInv'
  <1>1. grantTx[r] \in GrantTx /\ grantTx[r].pc = "clear"
    BY DEF GrantInv, GrantTypes, ClearGrants
  <1>2. PICK x \in GrantTx : x = [grantTx[r] EXCEPT !.pc = "insert", !.gone = grantTx[r].snapshot, !.snapshot = {}]
    BY <1>1 DEF GrantTx
  <1>3. /\ x.pc = "insert" /\ x.user = grantTx[r].user /\ x.alone = grantTx[r].alone
        /\ x.gone = grantTx[r].snapshot /\ x.inserted = grantTx[r].inserted
    BY <1>1, <1>2 DEF GrantTx
  <1>4. x.alone => x.gone = grantRows[x.user]
    BY <1>1, <1>3 DEF GrantInv, GrantRequestsOK, GrantAloneOK
  <1>5. x.inserted = {}
    BY <1>1, <1>3 DEF GrantInv, GrantRequestsOK, GrantRequestOK
  <1>6. StepGrantTx(r, x)
    BY <1>2 DEF ClearGrants
  <1> QED
    BY <1>1, <1>3, <1>4, <1>5, <1>6, GrantGoesOn

\* The INSERT meets no permission that is there or is being inserted.
LEMMA GrantInsertStep ==
  ASSUME GrantInv, NEW r \in GrantReqs, InsertGrants(r)
  PROVE  GrantInv'
  <1> DEFINE new == [name : grantTx[r].list, by : {r}]
  <1>1. /\ grantTx[r] \in GrantTx /\ grantTx[r].pc = "insert" /\ grantTx[r].user \in Grantees
        /\ grantTx[r].list \in SUBSET Grants
    BY DEF GrantInv, GrantTypes, InsertGrants, GrantRequestsOK, GrantRequestOK, GrantTx
  <1>2. new \in SUBSET GrantRow
    BY <1>1 DEF GrantRow
  <1>3. PICK x \in GrantTx : x = [grantTx[r] EXCEPT !.pc = "commit", !.inserted = new]
    BY <1>1, <1>2 DEF GrantTx
  <1>4. /\ x.pc = "commit" /\ x.user = grantTx[r].user /\ x.alone = grantTx[r].alone /\ x.list = grantTx[r].list
        /\ x.gone = grantTx[r].gone /\ x.inserted = new
    BY <1>1, <1>3 DEF GrantTx
  <1>5. x.alone => x.gone = grantRows[x.user]
    BY <1>1, <1>4 DEF GrantInv, GrantRequestsOK, GrantAloneOK
  <1>6. \A row \in grantRows[x.user] \ x.gone : row.name \notin x.list
    BY <1>4 DEF InsertGrants, NamesOf
  <1>7. ASSUME NEW q \in GrantReqs \ {r}, grantTx[q].pc = "commit", grantTx[q].user = x.user
        PROVE  grantTx[q].list \cap x.list = {}
    <2>1. NamesOf(grantTx[q].inserted) \cap x.list = {}
      BY <1>4, <1>7 DEF InsertGrants, Others
    <2>2. grantTx[q].inserted = [name : grantTx[q].list, by : {q}]
      BY <1>7 DEF GrantInv, GrantRequestsOK, GrantRequestOK
    <2>3. \A n \in grantTx[q].list : n \in NamesOf(grantTx[q].inserted)
      <3> SUFFICES ASSUME NEW n \in grantTx[q].list PROVE n \in {row.name : row \in grantTx[q].inserted}
        BY DEF NamesOf
      <3>1. PICK row : row = [name |-> n, by |-> q] /\ row \in grantTx[q].inserted
        BY <2>2
      <3>2. row.name = n
        BY <3>1
      <3> QED
        BY <3>1, <3>2
    <2> QED
      BY <2>1, <2>3
  <1>8. StepGrantTx(r, x)
    BY <1>3 DEF InsertGrants
  <1>9. x.inserted = [name : x.list, by : {r}]
    BY <1>4
  <1> HIDE DEF new
  <1> QED
    BY <1>1, <1>4, <1>5, <1>6, <1>7, <1>8, <1>9, GrantGoesOn

LEMMA GrantAbortStep ==
  ASSUME GrantInv, NEW r \in GrantReqs, AbortGrants(r)
  PROVE  GrantInv'
  <1>1. /\ grantTx'[r] = IdleGrantTx /\ \A q \in GrantReqs \ {r} : grantTx'[q] = grantTx[q]
        /\ grantTx' \in [GrantReqs -> GrantTx]
        /\ UNCHANGED <<grantRows, grantEvents, grantCopy, mixed>>
    BY IdleGrantTyped DEF AbortGrants, StepGrantTx, GrantInv, GrantTypes
  <1>2. ASSUME NEW q \in GrantReqs PROVE GrantRequestOK(q)'
    BY <1>1, IdleGrantTyped DEF GrantInv, GrantRequestsOK, GrantRequestOK
  <1>3. ASSUME NEW q \in GrantReqs PROVE GrantAloneOK(q)'
    <2>1. CASE q = r
      BY <1>1, <2>1, IdleGrantTyped DEF GrantAloneOK
    <2>2. CASE q # r
      <3> SUFFICES ASSUME grantTx[q].alone PROVE GrantAloneOK(q)'
        BY <1>1, <2>2 DEF GrantAloneOK
      <3>1. grantTx[q].user # NoGrantee
        BY GrantConstants DEF GrantInv, GrantRequestsOK, GrantRequestOK
      <3>2. \A p \in GrantReqs \ {q} : grantTx'[p].user # grantTx'[q].user
        BY <1>1, <2>2, <3>1, IdleGrantTyped DEF GrantInv, GrantRequestsOK, GrantAloneOK
      <3> QED
        BY <1>1, <2>2, <3>2 DEF GrantInv, GrantRequestsOK, GrantAloneOK
    <2> QED
      BY <2>1, <2>2
  <1>4. ASSUME NEW q \in GrantReqs PROVE InsertedIsNew(q)'
    BY <1>1, IdleGrantTyped DEF GrantInv, GrantRequestsOK, InsertedIsNew
  <1> QED
    BY <1>1, <1>2, <1>3, <1>4, GrantTxStep DEF GrantRequestsOK

\* The new list is there, is told, and is what the others see.
LEMMA GrantCommitStep ==
  ASSUME GrantInv, NEW r \in GrantReqs, CommitGrants(r)
  PROVE  GrantInv'
  <1>0. PICK u \in Grantees, list \in SUBSET Grants, gone \in SUBSET GrantRow :
            u = grantTx[r].user /\ list = grantTx[r].list /\ gone = grantTx[r].gone
    BY DEF CommitGrants, GrantInv, GrantTypes, GrantRequestsOK, GrantRequestOK, GrantTx
  <1> DEFINE new == [name : list, by : {r}]
             others(q) == IF q \in Others(r) THEN [grantTx[q] EXCEPT !.snapshot = @ \ gone] ELSE grantTx[q]
  <1>1. grantTx[r].pc = "commit" /\ grantTx[r].inserted = new /\ new \in SUBSET GrantRow
    <2>1. new \in SUBSET GrantRow
      BY DEF GrantRow
    <2> QED
      BY <1>0, <2>1 DEF CommitGrants, GrantInv, GrantRequestsOK, GrantRequestOK
  <1>2. /\ Len(grantEvents[u]) < MaxGrantEvents
        /\ grantRows' = [grantRows EXCEPT ![u] = (grantRows[u] \ gone) \cup new]
        /\ grantEvents' = [grantEvents EXCEPT ![u] = grantEvents[u] \o <<list>>]
        /\ mixed' = IF grantTx[r].alone THEN mixed \ {u} ELSE mixed \cup {u}
        /\ grantTx' = [q \in GrantReqs |-> IF q = r THEN IdleGrantTx ELSE others(q)]
        /\ UNCHANGED grantCopy
    BY <1>0, <1>1 DEF CommitGrants, ListTold
  <1>3. /\ grantRows'[u] = (grantRows[u] \ gone) \cup new
        /\ \A v \in Grantees \ {u} : grantRows'[v] = grantRows[v] /\ grantEvents'[v] = grantEvents[v]
        /\ grantEvents'[u] = grantEvents[u] \o <<list>>
    BY <1>2 DEF GrantInv, GrantTypes
  <1>4. ASSUME NEW q \in GrantReqs
        PROVE  /\ others(q) \in GrantTx /\ others(q).pc = grantTx[q].pc /\ others(q).user = grantTx[q].user
               /\ others(q).list = grantTx[q].list /\ others(q).gone = grantTx[q].gone
               /\ others(q).inserted = grantTx[q].inserted /\ others(q).alone = grantTx[q].alone
               /\ q # r /\ grantTx[q].user # u => others(q) = grantTx[q]
    BY <1>0 DEF GrantInv, GrantTypes, GrantTx, Others
  <1>5. grantTx' \in [GrantReqs -> GrantTx] /\ grantTx'[r] = IdleGrantTx
        /\ \A q \in GrantReqs \ {r} : grantTx'[q] = others(q)
    BY <1>2, <1>4, IdleGrantTyped
  <1>6. /\ grantEvents'[u] \in Seq(SUBSET Grants) /\ Len(grantEvents'[u]) = Len(grantEvents[u]) + 1
        /\ grantEvents'[u][Len(grantEvents[u]) + 1] = list /\ Len(grantEvents[u]) \in Nat
    <2>1. grantEvents[u] \in Seq(SUBSET Grants) /\ <<list>> \in Seq(SUBSET Grants) /\ Len(<<list>>) = 1 /\ <<list>>[1] = list
      BY DEF GrantInv, GrantTypes
    <2>2. Len(grantEvents[u]) \in Nat
      BY <2>1, LenProperties
    <2>3. /\ grantEvents[u] \o <<list>> \in Seq(SUBSET Grants)
          /\ Len(grantEvents[u] \o <<list>>) = Len(grantEvents[u]) + 1
          /\ (grantEvents[u] \o <<list>>)[Len(grantEvents[u]) + 1] = <<list>>[1]
      BY <2>1, <2>2, ConcatProperties
    <2> QED
      BY <1>3, <2>1, <2>2, <2>3
  <1>7. GrantTypes'
    <2>1. grantRows' \in [Grantees -> SUBSET GrantRow]
      BY <1>1, <1>2 DEF GrantInv, GrantTypes
    <2>2. grantEvents' = [v \in Grantees |-> IF v = u THEN grantEvents'[u] ELSE grantEvents[v]]
      BY <1>2, <1>3 DEF GrantInv, GrantTypes
    <2>3. grantEvents' \in [Grantees -> Seq(SUBSET Grants)]
      BY <1>6, <2>2 DEF GrantInv, GrantTypes
    <2>4. \A v \in Grantees : Len(grantEvents'[v]) <= MaxGrantEvents
      BY <1>2, <1>3, <1>6, GrantConstants DEF GrantInv, GrantTypes
    <2> QED
      BY <1>2, <1>5, <2>1, <2>3, <2>4 DEF GrantInv, GrantTypes
  <1>8. /\ \A row \in new : row.name \in list /\ row.by = r /\ row = [name |-> row.name, by |-> r]
        /\ \A n \in list : [name |-> n, by |-> r] \in new
    OBVIOUS
  <1>9. \A row \in grantRows[u] \ gone : row.name \notin list
    BY <1>0, <1>1 DEF GrantInv, GrantRequestsOK, InsertedIsNew
  <1>10. \A row, other \in grantRows'[u] : row.name = other.name => row = other
    <2> SUFFICES ASSUME NEW row \in grantRows'[u], NEW other \in grantRows'[u], row.name = other.name
                 PROVE  row = other
      OBVIOUS
    <2>1. CASE row \in new /\ other \in new
      BY <1>8, <2>1
    <2>2. CASE row \in grantRows[u] \ gone /\ other \in grantRows[u] \ gone
      BY <2>2 DEF GrantInv, GrantsAsTold
    <2>3. CASE row \in new /\ other \in grantRows[u] \ gone
      BY <1>8, <1>9, <2>3
    <2>4. CASE row \in grantRows[u] \ gone /\ other \in new
      BY <1>8, <1>9, <2>4
    <2> QED
      BY <1>3, <2>1, <2>2, <2>3, <2>4
  <1>11. list \subseteq NamesOf(grantRows'[u])
    <2> SUFFICES ASSUME NEW n \in list PROVE n \in {row.name : row \in grantRows'[u]}
      BY DEF NamesOf
    <2>1. PICK row \in grantRows'[u] : row = [name |-> n, by |-> r]
      BY <1>3, <1>8
    <2>2. row.name = n
      BY <2>1
    <2> QED
      BY <2>1, <2>2
  <1>12. ASSUME grantTx[r].alone PROVE NamesOf(grantRows'[u]) \subseteq list
    <2>1. gone = grantRows[u]
      BY <1>0, <1>1, <1>12 DEF GrantInv, GrantRequestsOK, GrantAloneOK
    <2>2. grantRows'[u] = new
      BY <1>3, <2>1
    <2> QED
      BY <1>8, <2>2 DEF NamesOf
  <1>13. GrantsAsTold'
    <2> DEFINE toldTo(v) == IF grantEvents[v] = <<>> THEN grantCopy[v] ELSE Last(grantEvents[v])
    <2>1. ASSUME NEW v \in Grantees \ {u}
          PROVE  /\ \A row, other \in grantRows'[v] : row.name = other.name => row = other
                 /\ toldTo(v)' \subseteq NamesOf(grantRows'[v])
                 /\ v \in mixed' \/ toldTo(v)' = NamesOf(grantRows'[v])
      BY <1>2, <1>3 DEF GrantInv, GrantsAsTold
    <2>2. toldTo(u)' = list
      <3>1. grantEvents'[u] # <<>>
        BY <1>6
      <3> QED
        BY <1>6, <3>1 DEF Last
    <2>3. /\ \A row, other \in grantRows'[u] : row.name = other.name => row = other
          /\ toldTo(u)' \subseteq NamesOf(grantRows'[u])
          /\ u \in mixed' \/ toldTo(u)' = NamesOf(grantRows'[u])
      BY <1>2, <1>10, <1>11, <1>12, <2>2
    <2>4. \A v \in Grantees :
              /\ \A row, other \in grantRows'[v] : row.name = other.name => row = other
              /\ toldTo(v)' \subseteq NamesOf(grantRows'[v])
              /\ v \in mixed' \/ toldTo(v)' = NamesOf(grantRows'[v])
      BY <2>1, <2>3
    <2> QED
      BY <2>4 DEF GrantsAsTold, NamesOf
  <1>14. ASSUME NEW q \in GrantReqs PROVE GrantRequestOK(q)'
    <2>1. CASE q = r
      BY <1>5, <2>1, IdleGrantTyped DEF GrantRequestOK
    <2>2. CASE q # r
      <3>1. grantTx'[q] = others(q) /\ GrantRequestOK(q)
        BY <1>5, <2>2 DEF GrantInv, GrantRequestsOK
      <3> QED
        BY <1>4, <3>1 DEF GrantRequestOK
    <2> QED
      BY <2>1, <2>2
  <1>15. ASSUME NEW q \in GrantReqs PROVE GrantAloneOK(q)'
    <2>1. CASE q = r
      BY <1>5, <2>1, IdleGrantTyped DEF GrantAloneOK
    <2>2. CASE q # r
      <3> SUFFICES ASSUME grantTx[q].alone PROVE GrantAloneOK(q)'
        BY <1>4, <1>5, <2>2 DEF GrantAloneOK
      <3>1. \A p \in GrantReqs \ {q} : grantTx[p].user # grantTx[q].user
        BY DEF GrantInv, GrantRequestsOK, GrantAloneOK
      <3>2. grantTx[q].user # u /\ grantTx'[q] = grantTx[q] /\ grantTx[q].user \in Grantees
        BY <1>0, <1>4, <1>5, <2>2, <3>1 DEF GrantInv, GrantRequestsOK, GrantRequestOK
      <3>3. \A p \in GrantReqs \ {q} : grantTx'[p].user # grantTx'[q].user
        <4> SUFFICES ASSUME NEW p \in GrantReqs \ {q} PROVE grantTx'[p].user # grantTx'[q].user
          OBVIOUS
        <4>1. CASE p = r
          BY <1>5, <3>2, <4>1, IdleGrantTyped, GrantConstants
        <4>2. CASE p # r
          BY <1>4, <1>5, <3>1, <3>2, <4>2
        <4> QED
          BY <4>1, <4>2
      <3>4. grantRows'[grantTx[q].user] = grantRows[grantTx[q].user]
        BY <1>3, <3>2
      <3> QED
        BY <3>2, <3>3, <3>4 DEF GrantInv, GrantRequestsOK, GrantAloneOK
    <2> QED
      BY <2>1, <2>2
  <1>16. ASSUME NEW q \in GrantReqs PROVE InsertedIsNew(q)'
    <2>1. CASE q = r
      BY <1>5, <2>1, IdleGrantTyped DEF InsertedIsNew
    <2>2. CASE q # r
      <3> SUFFICES ASSUME grantTx[q].pc = "commit" PROVE InsertedIsNew(q)'
        BY <1>4, <1>5, <2>2 DEF InsertedIsNew
      <3>1. InsertedIsNew(q) /\ grantTx[q].user \in Grantees
        BY DEF GrantInv, GrantRequestsOK, GrantRequestOK
      <3>2. /\ grantTx'[q].pc = "commit" /\ grantTx'[q].user = grantTx[q].user
            /\ grantTx'[q].list = grantTx[q].list /\ grantTx'[q].gone = grantTx[q].gone
        BY <1>4, <1>5, <2>2
      <3>3. ASSUME NEW row \in grantRows'[grantTx[q].user] \ grantTx[q].gone PROVE row.name \notin grantTx[q].list
        <4>1. CASE grantTx[q].user # u
          BY <1>3, <3>1, <3>3, <4>1 DEF InsertedIsNew
        <4>2. CASE grantTx[q].user = u
          <5>1. list \cap grantTx[q].list = {}
            BY <1>0, <1>1, <2>2, <3>1, <4>2 DEF InsertedIsNew
          <5>2. CASE row \in new
            BY <1>8, <5>1, <5>2
          <5>3. CASE row \in grantRows[u] \ gone
            BY <3>1, <3>3, <4>2, <5>3 DEF InsertedIsNew
          <5> QED
            BY <1>3, <3>3, <4>2, <5>2, <5>3
        <4> QED
          BY <4>1, <4>2
      <3>4. \A p \in GrantReqs \ {q} : grantTx'[p].pc = "commit" =>
                p # r /\ grantTx[p].pc = "commit" /\ grantTx'[p].user = grantTx[p].user /\ grantTx'[p].list = grantTx[p].list
        BY <1>4, <1>5, IdleGrantTyped
      <3> QED
        BY <3>1, <3>2, <3>3, <3>4 DEF InsertedIsNew
    <2> QED
      BY <2>1, <2>2
  <1> QED
    BY <1>7, <1>13, <1>14, <1>15, <1>16 DEF GrantInv, GrantRequestsOK

\* api-gateway-svc takes the list.
LEMMA GrantHandleStep ==
  ASSUME GrantInv, NEW u \in Grantees, HandleGrantEvent(u)
  PROVE  GrantInv'
  <1> DEFINE n == Len(grantEvents[u])
  <1>1. /\ grantEvents[u] \in Seq(SUBSET Grants) /\ grantEvents[u] # <<>>
        /\ grantCopy'[u] = Head(grantEvents[u]) /\ grantEvents'[u] = Tail(grantEvents[u])
        /\ \A v \in Grantees \ {u} : grantCopy'[v] = grantCopy[v] /\ grantEvents'[v] = grantEvents[v]
        /\ grantEvents' = [v \in Grantees |-> IF v = u THEN grantEvents'[u] ELSE grantEvents[v]]
        /\ grantCopy' = [v \in Grantees |-> IF v = u THEN grantCopy'[u] ELSE grantCopy[v]]
        /\ UNCHANGED <<grantRows, grantTx, mixed>>
    BY DEF HandleGrantEvent, GrantInv, GrantTypes
  <1>2. /\ n \in Nat /\ n > 0
        /\ Head(grantEvents[u]) \in SUBSET Grants /\ Head(grantEvents[u]) = grantEvents[u][1]
        /\ Tail(grantEvents[u]) \in Seq(SUBSET Grants) /\ Len(Tail(grantEvents[u])) = n - 1
        /\ \A i \in 1..(n - 1) : Tail(grantEvents[u])[i] = grantEvents[u][i + 1]
    BY <1>1, EmptySeq, LenProperties, HeadTailProperties
  <1>3. \A v \in Grantees : Len(grantEvents'[v]) <= MaxGrantEvents
    <2>1. Len(grantEvents'[u]) <= MaxGrantEvents
      <3>1. n <= MaxGrantEvents /\ MaxGrantEvents \in Nat
        BY GrantConstants DEF GrantInv, GrantTypes
      <3> QED
        BY <1>1, <1>2, <3>1
    <2> QED
      BY <1>1, <2>1 DEF GrantInv, GrantTypes
  <1>4. GrantTypes'
    <2>1. grantEvents' \in [Grantees -> Seq(SUBSET Grants)]
      <3>1. \A v \in Grantees : grantEvents[v] \in Seq(SUBSET Grants)
        BY DEF GrantInv, GrantTypes
      <3>2. \A v \in Grantees : grantEvents'[v] \in Seq(SUBSET Grants)
        BY <1>1, <1>2, <3>1
      <3>3. grantEvents' = [v \in Grantees |-> grantEvents'[v]]
        BY <1>1
      <3> QED
        BY <3>2, <3>3
    <2>2. grantCopy' \in [Grantees -> SUBSET Grants]
      BY <1>1, <1>2, ZenonT(60) DEF GrantInv, GrantTypes
    <2> QED
      BY <1>1, <1>3, <2>1, <2>2 DEF GrantInv, GrantTypes
  <1> DEFINE toldTo(v) == IF grantEvents[v] = <<>> THEN grantCopy[v] ELSE Last(grantEvents[v])
  <1>5. toldTo(u)' = toldTo(u)
    <2>1. toldTo(u) = grantEvents[u][n]
      BY <1>1 DEF Last
    <2>2. CASE n = 1
      <3>1. grantEvents'[u] = <<>>
        BY <1>1, <1>2, <2>2, EmptySeq
      <3> QED
        BY <1>1, <1>2, <2>1, <2>2, <3>1
    <2>3. CASE n # 1
      <3>1. n - 1 \in 1..(n - 1) /\ (n - 1) + 1 = n /\ n \in Nat
        <4>1. n \in Nat /\ n > 0
          BY <1>2
        <4> HIDE DEF n
        <4> QED
          BY <2>3, <4>1
      <3>2. Len(grantEvents'[u]) = n - 1 /\ n - 1 # 0 /\ grantEvents'[u][n - 1] = grantEvents[u][n]
        BY <1>1, <1>2, <3>1
      <3>3. grantEvents'[u] # <<>>
        BY <3>2
      <3> QED
        BY <2>1, <3>2, <3>3 DEF Last
    <2> QED
      BY <2>2, <2>3
  <1>6. \A v \in Grantees : toldTo(v)' = toldTo(v)
    BY <1>1, <1>5
  <1>7. GrantsAsTold'
    BY <1>1, <1>6 DEF GrantInv, GrantsAsTold, NamesOf
  <1>8. GrantRequestsOK'
    BY <1>1 DEF GrantInv, GrantRequestsOK, GrantRequestOK, GrantAloneOK, InsertedIsNew
  <1> QED
    BY <1>4, <1>7, <1>8 DEF GrantInv

\* Nobody may do anything.
LEMMA GrantInvInit == GrantInit => GrantInv
  <1> SUFFICES ASSUME GrantInit PROVE GrantInv
    OBVIOUS
  <1>1. <<>> \in Seq(SUBSET Grants) /\ Len(<<>>) = 0
    OBVIOUS
  <1>2. GrantTypes
    BY <1>1, IdleGrantTyped, GrantConstants DEF GrantInit, GrantTypes
  <1>3. GrantRequestsOK
    BY IdleGrantTyped DEF GrantInit, GrantRequestsOK, GrantRequestOK, GrantAloneOK, InsertedIsNew
  <1>4. GrantsAsTold
    BY DEF GrantInit, GrantsAsTold, NamesOf
  <1> QED
    BY <1>2, <1>3, <1>4 DEF GrantInv

\* Every step of requests and of api-gateway-svc keeps the invariant.
LEMMA GrantInvNext == GrantInv /\ [GrantNext]_grantVars => GrantInv'
  <1> SUFFICES ASSUME GrantInv, [GrantNext]_grantVars PROVE GrantInv'
    OBVIOUS
  <1>1. CASE UNCHANGED grantVars
    BY <1>1 DEF grantVars, GrantInv, GrantTypes, GrantRequestsOK, GrantRequestOK, GrantAloneOK, InsertedIsNew,
       GrantsAsTold, NamesOf
  <1>2. CASE GrantNext
    BY <1>2, GrantStartStep, GrantClearStep, GrantInsertStep, GrantCommitStep, GrantAbortStep, GrantHandleStep
    DEF GrantNext, handleUpdatePermissionsByUser
  <1> QED
    BY <1>1, <1>2

\* A permission is granted once, and what api-gateway-svc is going to let a user do has been granted.
THEOREM GrantsAsToldCorrect == GrantSpec => []GrantsAsTold
  <1>1. GrantInv => GrantsAsTold
    BY DEF GrantInv
  <1> QED
    BY <1>1, GrantInvInit, GrantInvNext, PTL DEF GrantSpec

LEMMA GrantInvTypes == GrantInv => GrantTypeOK
  BY DEF GrantInv, GrantTypes, GrantTypeOK
-----------------------------------------------------------------------------
(* Sessions.                                                               *)

\* Requests have a token, and the session they have made or read.
RequestsTyped ==
    \A r \in GateReqs : /\ gate[r].pc # "idle" => gate[r].token \in SessionTokens
                        /\ gate[r].pc \in {"login", "fill"} => gate[r].session \in Session
\* Nobody has seen a token that has not been given out.
NewIsUnseen(t) ==
    session[t] = Unused => /\ cache[t] = NoHolder
                           /\ \A r \in GateReqs : gate[r].token = t => gate[r].pc = "login"
\* A token is given out once.
GivenOutOnce(t) ==
    \A r, q \in GateReqs : gate[r].pc = "login" /\ gate[r].token = t =>
        /\ session[t] = Unused
        /\ gate[q].pc = "login" /\ gate[q].token = t => q = r

\* The rest holds for tokens that were not looked up or given out while their sessions were ended.
CachedIsOpen(t) == cache[t] # NoHolder => Open(t) /\ cache[t] = session[t].user
OpenIsCurrent(t) == Open(t) => holder[session[t].user] = [active |-> TRUE, pass |-> session[t].pass]
\* Whose sessions are being ended is not in the cache, and nobody is about to put it there.
EndedIsUncached(t) ==
    Open(t) /\ signOut[session[t].user] # NoHolder => cache[t] = NoHolder /\ ~Running({"lookup", "fill"}, t)
FillsAreCurrent(t) ==
    \A r \in GateReqs : gate[r].pc = "fill" /\ gate[r].token = t => Open(t) /\ gate[r].session = session[t]
LoginsAreCurrent(t) ==
    \A r \in GateReqs : gate[r].pc = "login" /\ gate[r].token = t =>
        /\ holder[gate[r].session.user] = [active |-> TRUE, pass |-> gate[r].session.pass]
        /\ signOut[gate[r].session.user] = NoHolder
LogoutsAreAlone(t) == Running({"logout"}, t) => cache[t] = NoHolder /\ ~Running({"lookup", "fill"}, t)

TokenSafe(t) == /\ CachedIsOpen(t) /\ OpenIsCurrent(t) /\ EndedIsUncached(t)
                /\ FillsAreCurrent(t) /\ LoginsAreCurrent(t) /\ LogoutsAreAlone(t)
Given == \A t \in SessionTokens : NewIsUnseen(t) /\ GivenOutOnce(t)
Safe == \A t \in SessionTokens \ overlapped : TokenSafe(t)

SessionInv == SessionTypeOK /\ RequestsTyped /\ Given /\ Safe
-----------------------------------------------------------------------------
(* One lemma per action.                                                   *)

\* Nothing else has these values.
LEMMA IdleTyped ==
  ASSUME SessionConstants
  PROVE  IdleGate \in GateTx /\ IdleGate.pc = "idle" /\ IdleGate.token \notin SessionTokens
  BY DEF SessionConstants, IdleGate, GateTx

\* A token is given out.
LEMMA LoginStep ==
  ASSUME SessionConstants, SessionInv, NEW r \in GateReqs, NEW t1 \in SessionTokens, NEW u1 \in Holders,
         NEW pass \in HolderPasses,
         Login(r, t1, u1, pass)
  PROVE  SessionInv'
  <1> DEFINE tx == [pc |-> "login", token |-> t1, session |-> [user |-> u1, pass |-> pass]]
  <1>a. tx \in GateTx /\ gate' = [gate EXCEPT ![r] = tx]
    BY DEF Login, MayLogIn, StepGate, GateTx, Session
  <1>1. SessionTypeOK'
    <2>1. gate' \in [GateReqs -> GateTx]
      BY <1>a DEF SessionInv, SessionTypeOK
    <2>2. overlapped' \subseteq SessionTokens
      BY DEF Login, SessionInv, SessionTypeOK
    <2> QED
      BY <2>1, <2>2 DEF Login, SessionInv, SessionTypeOK
  <1>2. RequestsTyped'
    BY <1>a DEF SessionInv, RequestsTyped, Session
  <1>3. ASSUME NEW t \in SessionTokens PROVE NewIsUnseen(t)' /\ GivenOutOnce(t)'
    <2>1. NewIsUnseen(t)'
      BY DEF Login, MayLogIn, StepGate, SessionInv, Given, NewIsUnseen
    <2>2. GivenOutOnce(t)'
      BY DEF Login, MayLogIn, StepGate, Running, SessionInv, Given, GivenOutOnce
    <2> QED
      BY <2>1, <2>2
  <1>4. ASSUME NEW t \in SessionTokens, t \notin overlapped' PROVE TokenSafe(t)'
    <2>1. t \notin overlapped /\ TokenSafe(t) /\ NewIsUnseen(t) /\ GivenOutOnce(t)
      BY <1>4 DEF Login, SessionInv, Safe, Given
    <2>2. CachedIsOpen(t)'
      BY <1>4, <2>1 DEF Login, MayLogIn, Open, TokenSafe, CachedIsOpen
    <2>3. OpenIsCurrent(t)'
      BY <1>4, <2>1 DEF Login, MayLogIn, Open, TokenSafe, OpenIsCurrent
    <2>4. EndedIsUncached(t)'
      BY <1>4, <2>1 DEF Login, MayLogIn, StepGate, Open, Running, TokenSafe, EndedIsUncached
    <2>5. FillsAreCurrent(t)'
      BY <1>4, <2>1 DEF Login, MayLogIn, StepGate, Open, TokenSafe, FillsAreCurrent
    <2>6. LoginsAreCurrent(t)'
      BY <1>4, <2>1 DEF Login, MayLogIn, StepGate, SessionInv, SessionTypeOK, Holder, TokenSafe,
         LoginsAreCurrent
    <2>7. LogoutsAreAlone(t)'
      BY <1>4, <2>1 DEF Login, MayLogIn, StepGate, Running, TokenSafe, LogoutsAreAlone
    <2> QED
      BY <2>2, <2>3, <2>4, <2>5, <2>6, <2>7 DEF TokenSafe
  <1> QED
    BY <1>1, <1>2, <1>3, <1>4 DEF SessionInv, Given, Safe

\* A session begins.
LEMMA CommitLoginStep ==
  ASSUME SessionConstants, SessionInv, NEW r \in GateReqs,
         CommitLogin(r)
  PROVE  SessionInv'
  <1>1. SessionTypeOK'
    BY DEF CommitLogin, StepGate, IdleGate, SessionInv, SessionTypeOK, GateTx
  <1>2. RequestsTyped'
    BY DEF CommitLogin, StepGate, IdleGate, SessionInv, RequestsTyped
  <1>3. ASSUME NEW t \in SessionTokens PROVE NewIsUnseen(t)' /\ GivenOutOnce(t)'
    <2>1. NewIsUnseen(t)'
      BY DEF CommitLogin, StepGate, IdleGate, SessionInv, RequestsTyped, Given, NewIsUnseen
    <2>2. GivenOutOnce(t)'
      BY DEF CommitLogin, StepGate, IdleGate, SessionInv, SessionTypeOK, Given, GivenOutOnce
    <2> QED
      BY <2>1, <2>2
  <1>4. ASSUME NEW t \in SessionTokens, t \notin overlapped' PROVE TokenSafe(t)'
    <2>1. t \notin overlapped /\ TokenSafe(t) /\ NewIsUnseen(t) /\ GivenOutOnce(t)
      BY <1>4 DEF CommitLogin, SessionInv, Safe, Given
    <2>2. CachedIsOpen(t)'
      BY <1>4, <2>1 DEF CommitLogin, Open, TokenSafe, CachedIsOpen, GivenOutOnce
    <2>3. OpenIsCurrent(t)'
      BY <1>4, <2>1 DEF CommitLogin, Open, SessionInv, SessionTypeOK, TokenSafe, OpenIsCurrent,
         LoginsAreCurrent
    <2>4. EndedIsUncached(t)'
      BY <1>4, <2>1 DEF CommitLogin, StepGate, IdleGate, Open, Running, TokenSafe, EndedIsUncached,
         NewIsUnseen, GivenOutOnce
    <2>5. FillsAreCurrent(t)'
      BY <1>4, <2>1 DEF CommitLogin, StepGate, IdleGate, Open, TokenSafe, FillsAreCurrent,
         GivenOutOnce
    <2>6. LoginsAreCurrent(t)'
      BY <1>4, <2>1 DEF CommitLogin, StepGate, IdleGate, TokenSafe, LoginsAreCurrent
    <2>7. LogoutsAreAlone(t)'
      BY <1>4, <2>1 DEF CommitLogin, StepGate, IdleGate, Running, TokenSafe, LogoutsAreAlone
    <2> QED
      BY <2>2, <2>3, <2>4, <2>5, <2>6, <2>7 DEF TokenSafe
  <1> QED
    BY <1>1, <1>2, <1>3, <1>4 DEF SessionInv, Given, Safe

\* A token leaves the cache.
LEMMA LogoutStep ==
  ASSUME SessionConstants, SessionInv, NEW r \in GateReqs, NEW t1 \in SessionTokens,
         Logout(r, t1)
  PROVE  SessionInv'
  <1>1. SessionTypeOK'
    BY DEF Logout, StepGate, IdleGate, SessionInv, SessionTypeOK, GateTx
  <1>2. RequestsTyped'
    BY DEF Logout, StepGate, SessionInv, RequestsTyped
  <1>3. ASSUME NEW t \in SessionTokens PROVE NewIsUnseen(t)' /\ GivenOutOnce(t)'
    <2>1. NewIsUnseen(t)'
      BY DEF Logout, StepGate, SessionInv, Given, NewIsUnseen
    <2>2. GivenOutOnce(t)'
      BY DEF Logout, StepGate, SessionInv, Given, GivenOutOnce
    <2> QED
      BY <2>1, <2>2
  <1>4. ASSUME NEW t \in SessionTokens, t \notin overlapped' PROVE TokenSafe(t)'
    <2>1. t \notin overlapped /\ TokenSafe(t) /\ NewIsUnseen(t) /\ GivenOutOnce(t)
      BY <1>4 DEF Logout, SessionInv, Safe, Given
    <2>2. CachedIsOpen(t)'
      BY <1>4, <2>1 DEF Logout, Open, TokenSafe, CachedIsOpen
    <2>3. OpenIsCurrent(t)'
      BY <1>4, <2>1 DEF Logout, Open, TokenSafe, OpenIsCurrent
    <2>4. EndedIsUncached(t)'
      BY <1>4, <2>1 DEF Logout, StepGate, Open, Running, TokenSafe, EndedIsUncached
    <2>5. FillsAreCurrent(t)'
      BY <1>4, <2>1 DEF Logout, StepGate, Open, TokenSafe, FillsAreCurrent
    <2>6. LoginsAreCurrent(t)'
      BY <1>4, <2>1 DEF Logout, StepGate, TokenSafe, LoginsAreCurrent
    <2>7. LogoutsAreAlone(t)'
      BY <1>4, <2>1 DEF Logout, StepGate, Running, SessionInv, SessionTypeOK, TokenSafe,
         LogoutsAreAlone
    <2> QED
      BY <2>2, <2>3, <2>4, <2>5, <2>6, <2>7 DEF TokenSafe
  <1> QED
    BY <1>1, <1>2, <1>3, <1>4 DEF SessionInv, Given, Safe

\* A session ends.
LEMMA CommitLogoutStep ==
  ASSUME SessionConstants, SessionInv, NEW r \in GateReqs,
         CommitLogout(r)
  PROVE  SessionInv'
  <1>1. SessionTypeOK'
    BY DEF CommitLogout, StepGate, IdleGate, SessionInv, SessionTypeOK, GateTx
  <1>2. RequestsTyped'
    BY DEF CommitLogout, StepGate, IdleGate, SessionInv, RequestsTyped
  <1>3. ASSUME NEW t \in SessionTokens PROVE NewIsUnseen(t)' /\ GivenOutOnce(t)'
    <2>1. NewIsUnseen(t)'
      BY DEF CommitLogout, StepGate, IdleGate, SessionInv, Given, NewIsUnseen
    <2>2. GivenOutOnce(t)'
      BY DEF CommitLogout, StepGate, IdleGate, SessionInv, Given, NewIsUnseen, GivenOutOnce
    <2> QED
      BY <2>1, <2>2
  <1>4. ASSUME NEW t \in SessionTokens, t \notin overlapped' PROVE TokenSafe(t)'
    <2>1. t \notin overlapped /\ TokenSafe(t) /\ NewIsUnseen(t) /\ GivenOutOnce(t)
      BY <1>4 DEF CommitLogout, SessionInv, Safe, Given
    <2>2. CachedIsOpen(t)'
      BY <1>4, <2>1 DEF CommitLogout, Open, Running, TokenSafe, CachedIsOpen, LogoutsAreAlone
    <2>3. OpenIsCurrent(t)'
      BY <1>4, <2>1 DEF CommitLogout, Open, SessionInv, SessionTypeOK, TokenSafe, OpenIsCurrent
    <2>4. EndedIsUncached(t)'
      BY <1>4, <2>1 DEF CommitLogout, StepGate, IdleGate, Open, Running, TokenSafe, EndedIsUncached
    <2>5. FillsAreCurrent(t)'
      BY <1>4, <2>1 DEF CommitLogout, StepGate, IdleGate, Open, Running, TokenSafe, FillsAreCurrent,
         LogoutsAreAlone
    <2>6. LoginsAreCurrent(t)'
      BY <1>4, <2>1 DEF CommitLogout, StepGate, IdleGate, TokenSafe, LoginsAreCurrent
    <2>7. LogoutsAreAlone(t)'
      BY <1>4, <2>1 DEF CommitLogout, StepGate, IdleGate, Running, TokenSafe, LogoutsAreAlone
    <2> QED
      BY <2>2, <2>3, <2>4, <2>5, <2>6, <2>7 DEF TokenSafe
  <1> QED
    BY <1>1, <1>2, <1>3, <1>4 DEF SessionInv, Given, Safe

\* A token is not in the cache.
LEMMA LookupStep ==
  ASSUME SessionConstants, SessionInv, NEW r \in GateReqs, NEW t1 \in SessionTokens,
         Lookup(r, t1)
  PROVE  SessionInv'
  <1>1. SessionTypeOK'
    BY DEF Lookup, StepGate, IdleGate, SessionInv, SessionTypeOK, GateTx
  <1>2. RequestsTyped'
    BY DEF Lookup, StepGate, SessionInv, RequestsTyped
  <1>3. ASSUME NEW t \in SessionTokens PROVE NewIsUnseen(t)' /\ GivenOutOnce(t)'
    <2>1. NewIsUnseen(t)'
      BY DEF Lookup, StepGate, SessionInv, Given, NewIsUnseen
    <2>2. GivenOutOnce(t)'
      BY DEF Lookup, StepGate, SessionInv, Given, GivenOutOnce
    <2> QED
      BY <2>1, <2>2
  <1>4. ASSUME NEW t \in SessionTokens, t \notin overlapped' PROVE TokenSafe(t)'
    <2>1. t \notin overlapped /\ TokenSafe(t) /\ NewIsUnseen(t) /\ GivenOutOnce(t)
      BY <1>4 DEF Lookup, SessionInv, Safe, Given
    <2>2. CachedIsOpen(t)'
      BY <1>4, <2>1 DEF Lookup, Open, TokenSafe, CachedIsOpen
    <2>3. OpenIsCurrent(t)'
      BY <1>4, <2>1 DEF Lookup, Open, TokenSafe, OpenIsCurrent
    <2>4. EndedIsUncached(t)'
      BY <1>4, <2>1 DEF Lookup, StepGate, Open, Running, TokenSafe, EndedIsUncached
    <2>5. FillsAreCurrent(t)'
      BY <1>4, <2>1 DEF Lookup, StepGate, Open, TokenSafe, FillsAreCurrent
    <2>6. LoginsAreCurrent(t)'
      BY <1>4, <2>1 DEF Lookup, StepGate, TokenSafe, LoginsAreCurrent
    <2>7. LogoutsAreAlone(t)'
      BY <1>4, <2>1 DEF Lookup, StepGate, Running, TokenSafe, LogoutsAreAlone
    <2> QED
      BY <2>2, <2>3, <2>4, <2>5, <2>6, <2>7 DEF TokenSafe
  <1> QED
    BY <1>1, <1>2, <1>3, <1>4 DEF SessionInv, Given, Safe

\* The session of a token is found, or not.
LEMMA ReadSessionStep ==
  ASSUME SessionConstants, SessionInv, NEW r \in GateReqs,
         ReadSession(r)
  PROVE  SessionInv'
  <1>a. gate' \in [GateReqs -> GateTx]
    <2> DEFINE tx == IF Open(gate[r].token)
                     THEN [gate[r] EXCEPT !.pc = "fill", !.session = session[gate[r].token]]
                     ELSE IdleGate
    <2>1. tx \in GateTx
      BY IdleTyped DEF ReadSession, Open, SessionInv, SessionTypeOK, GateTx
    <2> QED
      BY <2>1 DEF ReadSession, StepGate, SessionInv, SessionTypeOK
  <1>1. SessionTypeOK'
    BY <1>a DEF ReadSession, SessionInv, SessionTypeOK
  <1>2. RequestsTyped'
    BY DEF ReadSession, StepGate, IdleGate, Open, SessionInv, RequestsTyped
  <1>3. ASSUME NEW t \in SessionTokens PROVE NewIsUnseen(t)' /\ GivenOutOnce(t)'
    <2>1. NewIsUnseen(t)'
      BY DEF ReadSession, StepGate, IdleGate, SessionInv, Given, NewIsUnseen
    <2>2. GivenOutOnce(t)'
      BY DEF ReadSession, StepGate, IdleGate, SessionInv, Given, GivenOutOnce
    <2> QED
      BY <2>1, <2>2
  <1>4. ASSUME NEW t \in SessionTokens, t \notin overlapped' PROVE TokenSafe(t)'
    <2>1. t \notin overlapped /\ TokenSafe(t) /\ NewIsUnseen(t) /\ GivenOutOnce(t)
      BY <1>4 DEF ReadSession, SessionInv, Safe, Given
    <2>2. CachedIsOpen(t)'
      BY <1>4, <2>1 DEF ReadSession, Open, TokenSafe, CachedIsOpen
    <2>3. OpenIsCurrent(t)'
      BY <1>4, <2>1 DEF ReadSession, Open, TokenSafe, OpenIsCurrent
    <2>4. EndedIsUncached(t)'
      BY <1>4, <2>1 DEF ReadSession, StepGate, IdleGate, Open, Running, TokenSafe, EndedIsUncached
    <2>5. FillsAreCurrent(t)'
      BY <1>4, <2>1 DEF ReadSession, StepGate, IdleGate, Open, TokenSafe, FillsAreCurrent
    <2>6. LoginsAreCurrent(t)'
      BY <1>4, <2>1 DEF ReadSession, StepGate, IdleGate, TokenSafe, LoginsAreCurrent
    <2>7. LogoutsAreAlone(t)'
      BY <1>4, <2>1 DEF ReadSession, StepGate, IdleGate, Running, TokenSafe, LogoutsAreAlone
    <2> QED
      BY <2>2, <2>3, <2>4, <2>5, <2>6, <2>7 DEF TokenSafe
  <1> QED
    BY <1>1, <1>2, <1>3, <1>4 DEF SessionInv, Given, Safe

\* The cache is told of a session.
LEMMA FillCacheStep ==
  ASSUME SessionConstants, SessionInv, NEW r \in GateReqs,
         FillCache(r)
  PROVE  SessionInv'
  <1>1. SessionTypeOK'
    BY DEF FillCache, StepGate, IdleGate, SessionInv, SessionTypeOK, RequestsTyped, GateTx, Session
  <1>2. RequestsTyped'
    BY DEF FillCache, StepGate, IdleGate, SessionInv, RequestsTyped
  <1>3. ASSUME NEW t \in SessionTokens PROVE NewIsUnseen(t)' /\ GivenOutOnce(t)'
    <2>1. NewIsUnseen(t)'
      BY DEF FillCache, StepGate, IdleGate, SessionInv, Given, NewIsUnseen
    <2>2. GivenOutOnce(t)'
      BY DEF FillCache, StepGate, IdleGate, SessionInv, Given, GivenOutOnce
    <2> QED
      BY <2>1, <2>2
  <1>4. ASSUME NEW t \in SessionTokens, t \notin overlapped' PROVE TokenSafe(t)'
    <2>1. t \notin overlapped /\ TokenSafe(t) /\ NewIsUnseen(t) /\ GivenOutOnce(t)
      BY <1>4 DEF FillCache, SessionInv, Safe, Given
    <2>2. CachedIsOpen(t)'
      BY <1>4, <2>1 DEF FillCache, Open, TokenSafe, CachedIsOpen, FillsAreCurrent
    <2>3. OpenIsCurrent(t)'
      BY <1>4, <2>1 DEF FillCache, Open, TokenSafe, OpenIsCurrent
    <2>4. EndedIsUncached(t)'
      BY <1>4, <2>1 DEF FillCache, StepGate, IdleGate, Open, Running, TokenSafe, EndedIsUncached
    <2>5. FillsAreCurrent(t)'
      BY <1>4, <2>1 DEF FillCache, StepGate, IdleGate, Open, TokenSafe, FillsAreCurrent
    <2>6. LoginsAreCurrent(t)'
      BY <1>4, <2>1 DEF FillCache, StepGate, IdleGate, TokenSafe, LoginsAreCurrent
    <2>7. LogoutsAreAlone(t)'
      BY <1>4, <2>1 DEF FillCache, StepGate, IdleGate, Running, TokenSafe, LogoutsAreAlone
    <2> QED
      BY <2>2, <2>3, <2>4, <2>5, <2>6, <2>7 DEF TokenSafe
  <1> QED
    BY <1>1, <1>2, <1>3, <1>4 DEF SessionInv, Given, Safe

\* A request is given up.
LEMMA AbortGateStep ==
  ASSUME SessionConstants, SessionInv, NEW r \in GateReqs,
         AbortGate(r)
  PROVE  SessionInv'
  <1>1. SessionTypeOK'
    BY DEF AbortGate, StepGate, IdleGate, SessionInv, SessionTypeOK, GateTx
  <1>2. RequestsTyped'
    BY DEF AbortGate, StepGate, IdleGate, SessionInv, RequestsTyped
  <1>3. ASSUME NEW t \in SessionTokens PROVE NewIsUnseen(t)' /\ GivenOutOnce(t)'
    <2>1. NewIsUnseen(t)'
      BY DEF AbortGate, StepGate, IdleGate, SessionInv, Given, NewIsUnseen
    <2>2. GivenOutOnce(t)'
      BY DEF AbortGate, StepGate, IdleGate, SessionInv, Given, GivenOutOnce
    <2> QED
      BY <2>1, <2>2
  <1>4. ASSUME NEW t \in SessionTokens, t \notin overlapped' PROVE TokenSafe(t)'
    <2>1. t \notin overlapped /\ TokenSafe(t) /\ NewIsUnseen(t) /\ GivenOutOnce(t)
      BY <1>4 DEF AbortGate, SessionInv, Safe, Given
    <2>2. CachedIsOpen(t)'
      BY <1>4, <2>1 DEF AbortGate, Open, TokenSafe, CachedIsOpen
    <2>3. OpenIsCurrent(t)'
      BY <1>4, <2>1 DEF AbortGate, Open, TokenSafe, OpenIsCurrent
    <2>4. EndedIsUncached(t)'
      BY <1>4, <2>1 DEF AbortGate, StepGate, IdleGate, Open, Running, TokenSafe, EndedIsUncached
    <2>5. FillsAreCurrent(t)'
      BY <1>4, <2>1 DEF AbortGate, StepGate, IdleGate, Open, TokenSafe, FillsAreCurrent
    <2>6. LoginsAreCurrent(t)'
      BY <1>4, <2>1 DEF AbortGate, StepGate, IdleGate, TokenSafe, LoginsAreCurrent
    <2>7. LogoutsAreAlone(t)'
      BY <1>4, <2>1 DEF AbortGate, StepGate, IdleGate, Running, TokenSafe, LogoutsAreAlone
    <2> QED
      BY <2>2, <2>3, <2>4, <2>5, <2>6, <2>7 DEF TokenSafe
  <1> QED
    BY <1>1, <1>2, <1>3, <1>4 DEF SessionInv, Given, Safe

\* Sessions of a user leave the cache.
LEMMA SignOutStep ==
  ASSUME SessionConstants, SessionInv, NEW u1 \in Holders, NEW change \in Holder,
         SignOut(u1, change)
  PROVE  SessionInv'
  <1>1. SessionTypeOK'
    BY DEF SignOut, CacheWithout, Running, SessionInv, SessionTypeOK, RequestsTyped
  <1>2. RequestsTyped'
    BY DEF SignOut, CacheWithout, SessionInv, RequestsTyped
  <1>3. ASSUME NEW t \in SessionTokens PROVE NewIsUnseen(t)' /\ GivenOutOnce(t)'
    <2>1. NewIsUnseen(t)'
      BY DEF SignOut, CacheWithout, SessionInv, Given, NewIsUnseen
    <2>2. GivenOutOnce(t)'
      BY DEF SignOut, CacheWithout, SessionInv, Given, GivenOutOnce
    <2> QED
      BY <2>1, <2>2
  <1>4. ASSUME NEW t \in SessionTokens, t \notin overlapped' PROVE TokenSafe(t)'
    <2>1. t \notin overlapped /\ TokenSafe(t) /\ NewIsUnseen(t) /\ GivenOutOnce(t)
      BY <1>4 DEF SignOut, SessionInv, Safe, Given
    <2>2. CachedIsOpen(t)'
      BY <1>4, <2>1 DEF SignOut, CacheWithout, Open, TokenSafe, CachedIsOpen
    <2>3. OpenIsCurrent(t)'
      BY <1>4, <2>1 DEF SignOut, CacheWithout, Open, TokenSafe, OpenIsCurrent
    <2>4. EndedIsUncached(t)'
      BY <1>4, <2>1 DEF SignOut, CacheWithout, Open, OpenOf, Running, TokenSafe, EndedIsUncached
    <2>5. FillsAreCurrent(t)'
      BY <1>4, <2>1 DEF SignOut, CacheWithout, Open, TokenSafe, FillsAreCurrent
    <2>6. LoginsAreCurrent(t)'
      BY <1>4, <2>1 DEF SignOut, CacheWithout, TokenSafe, LoginsAreCurrent
    <2>7. LogoutsAreAlone(t)'
      BY <1>4, <2>1 DEF SignOut, CacheWithout, Running, TokenSafe, LogoutsAreAlone
    <2> QED
      BY <2>2, <2>3, <2>4, <2>5, <2>6, <2>7 DEF TokenSafe
  <1> QED
    BY <1>1, <1>2, <1>3, <1>4 DEF SessionInv, Given, Safe

\* Sessions of a user end with the change of the user.
LEMMA CommitSignOutStep ==
  ASSUME SessionConstants, SessionInv, NEW u1 \in Holders,
         CommitSignOut(u1)
  PROVE  SessionInv'
  <1>1. SessionTypeOK'
    BY DEF CommitSignOut, SessionInv, SessionTypeOK
  <1>2. RequestsTyped'
    BY DEF CommitSignOut, SessionInv, RequestsTyped
  <1>3. ASSUME NEW t \in SessionTokens PROVE NewIsUnseen(t)' /\ GivenOutOnce(t)'
    <2>1. NewIsUnseen(t)'
      BY DEF CommitSignOut, SessionInv, Given, NewIsUnseen
    <2>2. GivenOutOnce(t)'
      BY DEF CommitSignOut, Open, OpenOf, SessionInv, Given, GivenOutOnce
    <2> QED
      BY <2>1, <2>2
  <1>4. ASSUME NEW t \in SessionTokens, t \notin overlapped' PROVE TokenSafe(t)'
    <2>1. t \notin overlapped /\ TokenSafe(t) /\ NewIsUnseen(t) /\ GivenOutOnce(t)
      BY <1>4 DEF CommitSignOut, SessionInv, Safe, Given
    <2>2. CachedIsOpen(t)'
      BY <1>4, <2>1 DEF CommitSignOut, Open, OpenOf, TokenSafe, CachedIsOpen, EndedIsUncached
    <2>3. OpenIsCurrent(t)'
      BY <1>4, <2>1 DEF CommitSignOut, Open, OpenOf, SessionInv, SessionTypeOK, Session, TokenSafe,
         OpenIsCurrent
    <2>4. EndedIsUncached(t)'
      BY <1>4, <2>1 DEF CommitSignOut, Open, Running, TokenSafe, EndedIsUncached
    <2>5. FillsAreCurrent(t)'
      BY <1>4, <2>1 DEF CommitSignOut, Open, OpenOf, Running, TokenSafe, EndedIsUncached,
         FillsAreCurrent
    <2>6. LoginsAreCurrent(t)'
      BY <1>4, <2>1 DEF CommitSignOut, TokenSafe, LoginsAreCurrent
    <2>7. LogoutsAreAlone(t)'
      BY <1>4, <2>1 DEF CommitSignOut, Running, TokenSafe, LogoutsAreAlone
    <2> QED
      BY <2>2, <2>3, <2>4, <2>5, <2>6, <2>7 DEF TokenSafe
  <1> QED
    BY <1>1, <1>2, <1>3, <1>4 DEF SessionInv, Given, Safe

\* The change of a user is rolled back.
LEMMA FailSignOutStep ==
  ASSUME SessionConstants, SessionInv, NEW u1 \in Holders,
         FailSignOut(u1)
  PROVE  SessionInv'
  <1>1. SessionTypeOK'
    BY DEF FailSignOut, SessionInv, SessionTypeOK
  <1>2. RequestsTyped'
    BY DEF FailSignOut, SessionInv, RequestsTyped
  <1>3. ASSUME NEW t \in SessionTokens PROVE NewIsUnseen(t)' /\ GivenOutOnce(t)'
    <2>1. NewIsUnseen(t)'
      BY DEF FailSignOut, SessionInv, Given, NewIsUnseen
    <2>2. GivenOutOnce(t)'
      BY DEF FailSignOut, SessionInv, Given, GivenOutOnce
    <2> QED
      BY <2>1, <2>2
  <1>4. ASSUME NEW t \in SessionTokens, t \notin overlapped' PROVE TokenSafe(t)'
    <2>1. t \notin overlapped /\ TokenSafe(t) /\ NewIsUnseen(t) /\ GivenOutOnce(t)
      BY <1>4 DEF FailSignOut, SessionInv, Safe, Given
    <2>2. CachedIsOpen(t)'
      BY <1>4, <2>1 DEF FailSignOut, Open, TokenSafe, CachedIsOpen
    <2>3. OpenIsCurrent(t)'
      BY <1>4, <2>1 DEF FailSignOut, Open, TokenSafe, OpenIsCurrent
    <2>4. EndedIsUncached(t)'
      BY <1>4, <2>1 DEF FailSignOut, Open, Running, TokenSafe, EndedIsUncached
    <2>5. FillsAreCurrent(t)'
      BY <1>4, <2>1 DEF FailSignOut, Open, TokenSafe, FillsAreCurrent
    <2>6. LoginsAreCurrent(t)'
      BY <1>4, <2>1 DEF FailSignOut, TokenSafe, LoginsAreCurrent
    <2>7. LogoutsAreAlone(t)'
      BY <1>4, <2>1 DEF FailSignOut, Running, TokenSafe, LogoutsAreAlone
    <2> QED
      BY <2>2, <2>3, <2>4, <2>5, <2>6, <2>7 DEF TokenSafe
  <1> QED
    BY <1>1, <1>2, <1>3, <1>4 DEF SessionInv, Given, Safe

\* An active user is a user.
LEMMA ActivatedTyped ==
  ASSUME NEW h \in Holder
  PROVE  [h EXCEPT !.active = TRUE] \in Holder
  BY DEF Holder

\* Nothing happens to who is active.
LEMMA ActivatedSame ==
  ASSUME NEW h \in Holder, NEW p, h = [active |-> TRUE, pass |-> p]
  PROVE  [h EXCEPT !.active = TRUE] = h
  BY DEF Holder

\* A user becomes active.
LEMMA ActivateStep ==
  ASSUME SessionConstants, SessionInv, NEW u1 \in Holders, signOut[u1] = NoHolder,
         holder' = [holder EXCEPT ![u1].active = TRUE] /\ UNCHANGED <<session, cache, gate, signOut, overlapped>>
  PROVE  SessionInv'
  <1> DEFINE row == [holder[u1] EXCEPT !.active = TRUE]
  <1>h. holder[u1] \in Holder
    BY DEF SessionInv, SessionTypeOK
  <1>a. row \in Holder
    BY <1>h, ActivatedTyped
  <1>c. ASSUME NEW p, holder[u1] = [active |-> TRUE, pass |-> p] PROVE row = holder[u1]
    BY <1>h, <1>c, ActivatedSame
  <1>b. /\ holder' = [holder EXCEPT ![u1] = row] /\ holder'[u1] = row
        /\ \A u \in Holders : u # u1 => holder'[u] = holder[u]
    BY DEF SessionInv, SessionTypeOK
  <1> HIDE DEF row
  <1>1. SessionTypeOK'
    BY <1>a, <1>b DEF SessionInv, SessionTypeOK
  <1>2. RequestsTyped'
    BY DEF SessionInv, RequestsTyped
  <1>3. ASSUME NEW t \in SessionTokens PROVE NewIsUnseen(t)' /\ GivenOutOnce(t)'
    <2>1. NewIsUnseen(t)'
      BY DEF SessionInv, Given, NewIsUnseen
    <2>2. GivenOutOnce(t)'
      BY DEF SessionInv, Given, GivenOutOnce
    <2> QED
      BY <2>1, <2>2
  <1>4. ASSUME NEW t \in SessionTokens, t \notin overlapped' PROVE TokenSafe(t)'
    <2>1. t \notin overlapped /\ TokenSafe(t) /\ NewIsUnseen(t) /\ GivenOutOnce(t)
      BY <1>4 DEF SessionInv, Safe, Given
    <2>2. CachedIsOpen(t)'
      BY <1>a, <1>b, <1>c, <1>4, <2>1 DEF Open, TokenSafe, CachedIsOpen
    <2>3. OpenIsCurrent(t)'
      BY <1>a, <1>b, <1>c, <1>4, <2>1 DEF Open, Session, TokenSafe, OpenIsCurrent
    <2>4. EndedIsUncached(t)'
      BY <1>a, <1>b, <1>c, <1>4, <2>1 DEF Open, Running, TokenSafe, EndedIsUncached
    <2>5. FillsAreCurrent(t)'
      BY <1>a, <1>b, <1>c, <1>4, <2>1 DEF Open, TokenSafe, FillsAreCurrent
    <2>6. LoginsAreCurrent(t)'
      BY <1>a, <1>b, <1>c, <1>4, <2>1 DEF TokenSafe, LoginsAreCurrent
    <2>7. LogoutsAreAlone(t)'
      BY <1>a, <1>b, <1>c, <1>4, <2>1 DEF Running, TokenSafe, LogoutsAreAlone
    <2> QED
      BY <2>2, <2>3, <2>4, <2>5, <2>6, <2>7 DEF TokenSafe
  <1> QED
    BY <1>1, <1>2, <1>3, <1>4 DEF SessionInv, Given, Safe


LEMMA SessionInvInit == SessionInit => SessionInv
  <1> SUFFICES ASSUME SessionInit PROVE SessionInv
    OBVIOUS
  <1>1. SessionTypeOK
    BY SessionConstants, IdleTyped DEF SessionInit, SessionTypeOK
  <1>2. RequestsTyped /\ Given
    BY SessionConstants, IdleTyped DEF SessionInit, RequestsTyped, Given, NewIsUnseen, GivenOutOnce, IdleGate
  <1>3. Safe
    BY SessionConstants, IdleTyped DEF SessionInit, Safe, TokenSafe, CachedIsOpen, OpenIsCurrent, EndedIsUncached,
       FillsAreCurrent, LoginsAreCurrent, LogoutsAreAlone, Open, Running, IdleGate
  <1> QED
    BY <1>1, <1>2, <1>3 DEF SessionInv

LEMMA SessionInvNext == SessionInv /\ [SessionNext]_sessionVars => SessionInv'
  <1> SUFFICES ASSUME SessionInv, [SessionNext]_sessionVars PROVE SessionInv'
    OBVIOUS
  <1> USE SessionConstants
  <1>1. CASE UNCHANGED sessionVars
    BY <1>1 DEF sessionVars, SessionInv, SessionTypeOK, RequestsTyped, Given, Safe, NewIsUnseen, GivenOutOnce,
       TokenSafe, CachedIsOpen, OpenIsCurrent, EndedIsUncached, FillsAreCurrent, LoginsAreCurrent,
       LogoutsAreAlone, Open, Running
  <1>2. ASSUME NEW u \in Holders, NEW active \in BOOLEAN, UpdateUserActive(u, active) PROVE SessionInv'
    <2>1. [holder[u] EXCEPT !.active = FALSE] \in Holder
      BY DEF SessionInv, SessionTypeOK, Holder
    <2> QED
      BY <1>2, <2>1, SignOutStep, ActivateStep DEF UpdateUserActive
  <1>3. ASSUME NEW u \in Holders, NEW pass \in HolderPasses, UpdatePass(u, pass) PROVE SessionInv'
    <2>1. [holder[u] EXCEPT !.pass = pass] \in Holder
      BY DEF SessionInv, SessionTypeOK, Holder
    <2> QED
      BY <1>3, <2>1, SignOutStep DEF UpdatePass
  <1> QED
    BY <1>1, <1>2, <1>3, LoginStep, CommitLoginStep, LogoutStep, CommitLogoutStep, LookupStep, ReadSessionStep,
       FillCacheStep, AbortGateStep, CommitSignOutStep, FailSignOutStep DEF SessionNext

\* Whoever is let through has a session of now: the handlers of changed users take the cache and
\* the table along, whatever requests overlap with them, but for tokens looked up or given out
\* meanwhile.
THEOREM SessionsAreCurrentCorrect == SessionSpec => []SessionsAreCurrent
  <1>1. SessionInv => SessionsAreCurrent
    <2> SUFFICES ASSUME SessionInv, NEW t \in SessionTokens \ overlapped, Authenticated(t)
                 PROVE  /\ Open(t)
                        /\ holder[session[t].user] = [active |-> TRUE, pass |-> session[t].pass]
                        /\ cache[t] \in {NoHolder, session[t].user}
      BY DEF SessionsAreCurrent
    <2> QED
      BY DEF SessionInv, Safe, TokenSafe, CachedIsOpen, OpenIsCurrent, Authenticated
  <1> QED
    BY SessionInvInit, SessionInvNext, <1>1, SessionConstants, PTL DEF SessionSpec
=============================================================================
