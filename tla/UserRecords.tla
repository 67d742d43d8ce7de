----------------------------- MODULE UserRecords -----------------------------
(***************************************************************************)
(* Accounts (user-svc) and the copies of them that the other services     *)
(* keep.  A change is checked against a read of the account that takes no *)
(* lock and then writes every column, so two changes may overlap.  The    *)
(* event about a change is committed with it; the events about one user   *)
(* reach a service in this order (module Inbox), those about different    *)
(* users in any order.                                                     *)
(*                                                                         *)
(* Other services do not affect each other's copies: listener is any one  *)
(* of them.  First and last names are treated like the username, without  *)
(* its rules, and left out.                                                *)
(***************************************************************************)
EXTENDS Naturals, Sequences

CONSTANTS Users,          \* ids
          Names,          \* usernames, AdminName among them
          AdminName,
          Passes,         \* hashed passwords
          UserReqs,       \* requests running at the same time
          Tokens,         \* of the users that make requests
          AdminPass,      \* the default password of the admin
          MaxUserEvents,  \* bound: events per user that have not been handled
          Listeners,      \* services whose copies are looked at
          NoUser

UserPermissions == {"CreateUser", "SetAdminUser", "UpdateUser", "UpdateUserPass", "SetUserActiveState"}
Token == [user : Users, admin : BOOLEAN, granted : SUBSET UserPermissions]
Account == [name : Names, admin : BOOLEAN, active : BOOLEAN, pass : Passes]
Details == [name : Names, admin : BOOLEAN, active : BOOLEAN]

ASSUME UserConstants == /\ AdminName \in Names
                        /\ AdminPass \in Passes
                        /\ Tokens \subseteq Token
                        /\ NoUser \notin Account \cup Details \cup Users
                        /\ MaxUserEvents \in Nat

VARIABLES account,     \* table users
          userTx,      \* what a running request has checked and is going to write
          listener,    \* the service whose copy is looked at
          userEvents,  \* per user: what was told about it and listener has not handled yet
          copy         \* its table users

userVars == <<account, userTx, listener, userEvents, copy>>

UserTx == [pc : {"idle", "write", "assure"}, user : Users \cup {NoUser}, want : Details \cup {NoUser},
           mayAdmin : BOOLEAN, mayActive : BOOLEAN]
IdleUserTx == [pc |-> "idle", user |-> NoUser, want |-> NoUser, mayAdmin |-> FALSE, mayActive |-> FALSE]

Known(u) == account[u] # NoUser
\* The unique index of the table.
NameFree(u, name) == \A v \in Users \ {u} : Known(v) => account[v].name # name
-----------------------------------------------------------------------------
(* What the services keep of an account, and which events they react to.  *)

GatewayKeeps == {"name", "admin", "active", "pass"}
GatewayHears == {"created", "updated", "pass"}
OperationKeeps == {"name", "active"}
OperationHears == {"created", "updated"}
LogisticsKeeps == {"name", "active"}
LogisticsHears == {"created", "updated"}
RadioKeeps == {"name", "active"}
RadioHears == {"created", "updated"}
InAppKeeps == {"name", "active"}
InAppHears == {"created", "updated"}
OpenIntelKeeps == {"name", "active"}
OpenIntelHears == {"created", "updated"}
\* Only that the user exists.
GroupKeeps == {}
GroupHears == {"created"}
PermissionKeeps == {}
PermissionHears == {"created"}

Keeps == [gateway |-> GatewayKeeps, operation |-> OperationKeeps, logistics |-> LogisticsKeeps,
          radio |-> RadioKeeps, inapp |-> InAppKeeps, openintel |-> OpenIntelKeeps,
          group |-> GroupKeeps, permission |-> PermissionKeeps]
Hears == [gateway |-> GatewayHears, operation |-> OperationHears, logistics |-> LogisticsHears,
          radio |-> RadioHears, inapp |-> InAppHears, openintel |-> OpenIntelHears,
          group |-> GroupHears, permission |-> PermissionHears]

ASSUME KnownListeners == /\ Listeners \subseteq DOMAIN Keeps
                         /\ \A s \in Listeners, row \in Account : [f \in Keeps[s] |-> row[f]] # NoUser

View(s, row) == IF row = NoUser THEN NoUser ELSE [f \in Keeps[s] |-> row[f]]

UserTypeOK == /\ account \in [Users -> Account \cup {NoUser}]
              /\ userTx \in [UserReqs -> UserTx]
              /\ \A u \in Users : /\ userEvents[u] \in Seq([type : GatewayHears, row : Account])
                                  /\ Len(userEvents[u]) <= MaxUserEvents
                                  /\ copy[u] \in {View(listener, row) : row \in Account \cup {NoUser}}

UserInit == /\ account = [u \in Users |-> NoUser]
            /\ userTx = [r \in UserReqs |-> IdleUserTx]
            /\ listener \in Listeners
            /\ userEvents = [u \in Users |-> <<>>]
            /\ copy = [u \in Users |-> NoUser]
-----------------------------------------------------------------------------
(* user-svc.                                                               *)

\* Mutant: the event is left out.
TellNobody(u, type, row) == UNCHANGED userEvents

\* NotifyUserCreated, NotifyUserUpdated, NotifyUserPassUpdated: the whole account is told.
TellUser(u, type, row) ==
    /\ Len(userEvents[u]) < MaxUserEvents
    /\ userEvents' = [userEvents EXCEPT ![u] = Append(@, [type |-> type, row |-> row])]

Allowed(token, p) == Known(token.user) /\ (token.admin \/ p \in token.granted)
MayCreateUser(token, admin) == /\ Allowed(token, "CreateUser")
                               /\ admin => Allowed(token, "SetAdminUser")
MayUpdateUser(token, u) == Known(token.user) /\ (token.user = u \/ Allowed(token, "UpdateUser"))
MayUpdatePass(token, u) == Known(token.user) /\ (token.user = u \/ Allowed(token, "UpdateUserPass"))
MaySetInactive(token) == Allowed(token, "SetUserActiveState")

EndUserTx(r) == userTx' = [userTx EXCEPT ![r] = IdleUserTx]

\* The INSERT: the id is new, the username must be.
InsertUser(u, row) ==
    /\ ~Known(u)
    /\ NameFree(u, row.name)
    /\ account' = [account EXCEPT ![u] = row]
    /\ TellUser(u, "created", row)
    /\ UNCHANGED <<listener, copy>>

\* The UPDATE of all columns but the password.
WriteUser(u, details) ==
    /\ Known(u)
    /\ NameFree(u, details.name)
    /\ account' = [account EXCEPT ![u] = [name |-> details.name, admin |-> details.admin,
                                          active |-> details.active, pass |-> account[u].pass]]
    /\ TellUser(u, "updated", account'[u])
    /\ UNCHANGED <<listener, copy>>

CreateUser(token, u, row) ==
    /\ MayCreateUser(token, row.admin)
    /\ row.active
    /\ InsertUser(u, row)
    /\ UNCHANGED userTx

\* When user-svc starts, several instances of it at the same time: no account has the name.
AssureAdminUser(r) ==
    /\ userTx[r].pc = "idle"
    /\ \A u \in Users : Known(u) => account[u].name # AdminName
    /\ userTx' = [userTx EXCEPT ![r].pc = "assure"]
    /\ UNCHANGED <<account, listener, userEvents, copy>>

CreateAdminUser(r, u) ==
    /\ userTx[r].pc = "assure"
    /\ InsertUser(u, [name |-> AdminName, admin |-> TRUE, active |-> TRUE, pass |-> AdminPass])
    /\ EndUserTx(r)

\* Mutant: the account of the admin may be renamed.
ChangeAllowedForAnyName(was, details, mayAdmin, mayActive) ==
    /\ was.admin = details.admin \/ mayAdmin
    /\ was.name = AdminName => details.active /\ details.admin
    /\ was.active = details.active \/ mayActive

\* What UpdateUser asks of the account it has read.
ChangeAllowed(was, details, mayAdmin, mayActive) ==
    /\ was.admin = details.admin \/ mayAdmin
    /\ was.name = AdminName => details.name = AdminName /\ details.active /\ details.admin
    /\ was.active = details.active \/ mayActive

\* UpdateUser up to its checks.
BeginUpdateUser(r, token, u, details) ==
    LET mayAdmin == Allowed(token, "SetAdminUser")
        mayActive == Allowed(token, "SetUserActiveState")
    IN  /\ userTx[r].pc = "idle"
        /\ MayUpdateUser(token, u)
        /\ Known(u)
        /\ ChangeAllowed(account[u], details, mayAdmin, mayActive)
        /\ userTx' = [userTx EXCEPT ![r] = [pc |-> "write", user |-> u, want |-> details,
                                            mayAdmin |-> mayAdmin, mayActive |-> mayActive]]
        /\ UNCHANGED <<account, listener, userEvents, copy>>

\* SetUserInactiveByID: the account is read and is going to be written as it was read.
BeginSetInactive(r, token, u) ==
    /\ userTx[r].pc = "idle"
    /\ MaySetInactive(token)
    /\ Known(u)
    /\ account[u].name # AdminName
    /\ userTx' = [userTx EXCEPT ![r] = [pc |-> "write", user |-> u,
                                        want |-> [name |-> account[u].name, admin |-> account[u].admin,
                                                 active |-> FALSE],
                                        mayAdmin |-> FALSE, mayActive |-> TRUE]]
    /\ UNCHANGED <<account, listener, userEvents, copy>>

\* The rest of UpdateUser and SetUserInactiveByID.
FinishUserTx(r) ==
    /\ userTx[r].pc = "write"
    /\ WriteUser(userTx[r].user, userTx[r].want)
    /\ EndUserTx(r)

\* A taken username or a failure of the database.
AbortUserTx(r) ==
    /\ userTx[r].pc # "idle"
    /\ EndUserTx(r)
    /\ UNCHANGED <<account, listener, userEvents, copy>>

UpdateUserPassByUserID(token, u, pass) ==
    /\ MayUpdatePass(token, u)
    /\ Known(u)
    /\ account' = [account EXCEPT ![u].pass = pass]
    /\ TellUser(u, "pass", account'[u])
    /\ UNCHANGED <<userTx, listener, copy>>
-----------------------------------------------------------------------------
(* The copies.                                                             *)

\* Mutant: the password of the event is taken for that of the account.
CopyWhole(s, row, event) == View(s, event.row)

\* What a handler makes of its copy of the account.
Copied(s, row, event) ==
    IF event.type \notin Hears[s] THEN row
    ELSE [f \in Keeps[s] |-> IF (f = "pass") = (event.type = "updated") /\ event.type # "created"
                             THEN row[f] ELSE event.row[f]]

\* A user is created once and must exist to be updated; otherwise the handler fails, and the
\* event and all others about this user wait.
Handleable(s, row, event) == event.type \in Hears[s] => (event.type = "created") = (row = NoUser)

HandleUserEvent(u) ==
    /\ userEvents[u] # <<>>
    /\ Handleable(listener, copy[u], Head(userEvents[u]))
    /\ copy' = [copy EXCEPT ![u] = Copied(listener, @, Head(userEvents[u]))]
    /\ userEvents' = [userEvents EXCEPT ![u] = Tail(@)]
    /\ UNCHANGED <<account, userTx, listener>>

UserNext ==
    \/ \E token \in Tokens, u \in Users :
        \/ \E row \in Account : CreateUser(token, u, row)
        \/ \E r \in UserReqs, details \in Details : BeginUpdateUser(r, token, u, details)
        \/ \E r \in UserReqs : BeginSetInactive(r, token, u)
        \/ \E pass \in Passes : UpdateUserPassByUserID(token, u, pass)
    \/ \E r \in UserReqs :
        \/ AssureAdminUser(r) \/ FinishUserTx(r) \/ AbortUserTx(r)
        \/ \E u \in Users : CreateAdminUser(r, u)
    \/ \E u \in Users : HandleUserEvent(u)

UserSpec == UserInit /\ [][UserNext]_userVars
-----------------------------------------------------------------------------
(* Properties.                                                             *)

\* "The user with that username is immutable" (adminUsername): from its creation on there is
\* exactly one account with the name of the admin, and it stays active and an admin, although
\* every change writes what it has read before.
AdminStands ==
    (\E u \in Users : Known(u)) =>
        \E u \in Users : /\ Known(u)
                         /\ account[u].name = AdminName /\ account[u].admin /\ account[u].active
                         /\ \A v \in Users \ {u} : Known(v) => account[v].name # AdminName

\* What the account was after the first i of the events not yet handled, as the service sees it.
Told(u, i) == IF i = 0 THEN copy[u] ELSE View(listener, userEvents[u][i].row)

\* The events not yet handled make of a service's copy what user-svc has stored, whatever
\* requests overlap: no change goes untold, none is told in the wrong order, and none is refused.
\* Each makes of what the account was before it what it was after it, and the newest what it is.
CopiesFollow ==
    \A u \in Users :
        /\ \A i \in DOMAIN userEvents[u] :
               /\ Handleable(listener, Told(u, i - 1), userEvents[u][i])
               /\ Copied(listener, Told(u, i - 1), userEvents[u][i]) = Told(u, i)
        /\ Told(u, Len(userEvents[u])) = View(listener, account[u])
=============================================================================
