------------------------------ MODULE Sessions ------------------------------
(***************************************************************************)
(* The sessions of api-gateway-svc: a table of tokens and a Redis cache   *)
(* before it whose entries never expire.  Redis takes no part in the      *)
(* transactions, and a token is enough to be let through: whether its     *)
(* user is still active is asked at login only.                            *)
(***************************************************************************)
CONSTANTS Holders,        \* users
          HolderPasses,
          SessionTokens,  \* each is given out once
          GateReqs,       \* requests running at the same time
          NoHolder, Unused, Closed

Holder == [active : BOOLEAN, pass : HolderPasses]
\* A session also tells the password it was opened with.
Session == [user : Holders, pass : HolderPasses]

VARIABLES holder,     \* table users
          session,    \* table session_tokens
          cache,      \* Redis
          gate,       \* the running requests
          signOut,    \* per user: the change whose handler is ending the sessions
          overlapped  \* tokens looked up or given out while their sessions were being ended

sessionVars == <<holder, session, cache, gate, signOut, overlapped>>

GateTx == [pc : {"idle", "login", "lookup", "fill", "logout"}, token : SessionTokens \cup {Unused},
           session : Session \cup {Unused}]
IdleGate == [pc |-> "idle", token |-> Unused, session |-> Unused]

ASSUME SessionConstants == /\ NoHolder \notin Holder \cup Holders
                           /\ Unused \notin Session \cup SessionTokens
                           /\ Closed \notin Session /\ Closed # Unused

Open(t) == session[t] \in Session
OpenOf(u) == {t \in SessionTokens : Open(t) /\ session[t].user = u}
Running(pcs, t) == \E r \in GateReqs : gate[r].pc \in pcs /\ gate[r].token = t

SessionInit == /\ holder \in [Holders -> {h \in Holder : h.active}]
               /\ session = [t \in SessionTokens |-> Unused]
               /\ cache = [t \in SessionTokens |-> NoHolder]
               /\ gate = [r \in GateReqs |-> IdleGate]
               /\ signOut = [u \in Holders |-> NoHolder]
               /\ overlapped = {}

StepGate(r, tx) == gate' = [gate EXCEPT ![r] = tx]
-----------------------------------------------------------------------------
(* Login and logout.                                                       *)

\* Mutant: inactive users may log in.
MayLogInAnyway(u, pass) == holder[u].pass = pass
MayLogIn(u, pass) == holder[u].active /\ holder[u].pass = pass

Login(r, t, u, pass) ==
    /\ gate[r].pc = "idle"
    /\ session[t] = Unused /\ ~Running({"login"}, t)
    /\ MayLogIn(u, pass)
    /\ StepGate(r, [pc |-> "login", token |-> t, session |-> [user |-> u, pass |-> pass]])
    /\ overlapped' = IF signOut[u] = NoHolder THEN overlapped ELSE overlapped \cup {t}
    /\ UNCHANGED <<holder, session, cache, signOut>>

\* StoreSessionTokenForUser
CommitLogin(r) ==
    /\ gate[r].pc = "login"
    /\ session' = [session EXCEPT ![gate[r].token] = gate[r].session]
    /\ StepGate(r, IdleGate)
    /\ UNCHANGED <<holder, cache, signOut, overlapped>>

\* GetAndDeleteUserIDBySessionToken: first from the cache, ...
Logout(r, t) ==
    /\ gate[r].pc = "idle"
    /\ session[t] # Unused
    /\ cache' = [cache EXCEPT ![t] = NoHolder]
    /\ StepGate(r, [IdleGate EXCEPT !.pc = "logout", !.token = t])
    /\ overlapped' = IF Running({"lookup", "fill"}, t) THEN overlapped \cup {t} ELSE overlapped
    /\ UNCHANGED <<holder, session, signOut>>

\* ... then from the table, where a session that has ended is not found.
CommitLogout(r) ==
    /\ gate[r].pc = "logout"
    /\ session' = [session EXCEPT ![gate[r].token] = Closed]
    /\ StepGate(r, IdleGate)
    /\ UNCHANGED <<holder, cache, signOut, overlapped>>
-----------------------------------------------------------------------------
(* Proxy: whose token is it?                                               *)

\* UserIDBySessionToken, when the token is not in the cache.
Lookup(r, t) ==
    /\ gate[r].pc = "idle"
    /\ session[t] # Unused
    /\ cache[t] = NoHolder
    /\ StepGate(r, [IdleGate EXCEPT !.pc = "lookup", !.token = t])
    /\ overlapped' = IF \/ Running({"logout"}, t)
                        \/ Open(t) /\ signOut[session[t].user] # NoHolder
                     THEN overlapped \cup {t} ELSE overlapped
    /\ UNCHANGED <<holder, session, cache, signOut>>

ReadSession(r) ==
    LET t == gate[r].token
    IN  /\ gate[r].pc = "lookup"
        /\ StepGate(r, IF Open(t) THEN [gate[r] EXCEPT !.pc = "fill", !.session = session[t]] ELSE IdleGate)
        /\ UNCHANGED <<holder, session, cache, signOut, overlapped>>

FillCache(r) ==
    /\ gate[r].pc = "fill"
    /\ cache' = [cache EXCEPT ![gate[r].token] = gate[r].session.user]
    /\ StepGate(r, IdleGate)
    /\ UNCHANGED <<holder, session, signOut, overlapped>>

AbortGate(r) ==
    /\ gate[r].pc # "idle"
    /\ StepGate(r, IdleGate)
    /\ UNCHANGED <<holder, session, cache, signOut, overlapped>>

\* gatherProxyToken: the token is that of a user if the cache or the table says so.
Authenticated(t) == cache[t] # NoHolder \/ Open(t)
-----------------------------------------------------------------------------
(* The handlers of changed users.                                          *)

\* Mutant: the cache is forgotten.
CacheAsBefore(u) == cache
\* DeleteSessionTokensByUser: the tokens found in the table leave the cache, ...
CacheWithout(u) == [t \in SessionTokens |-> IF t \in OpenOf(u) THEN NoHolder ELSE cache[t]]

SignOut(u, change) ==
    /\ signOut[u] = NoHolder
    /\ signOut' = [signOut EXCEPT ![u] = change]
    /\ cache' = CacheWithout(u)
    /\ overlapped' = overlapped
           \cup {t \in OpenOf(u) : Running({"lookup", "fill"}, t)}
           \cup {gate[r].token : r \in {q \in GateReqs : gate[q].pc = "login" /\ gate[q].session.user = u}}
    /\ UNCHANGED <<holder, session, gate>>

\* ... and all of the user's tokens leave the table, as the change is committed.
CommitSignOut(u) ==
    /\ signOut[u] # NoHolder
    /\ session' = [t \in SessionTokens |-> IF t \in OpenOf(u) THEN Closed ELSE session[t]]
    /\ holder' = [holder EXCEPT ![u] = signOut[u]]
    /\ signOut' = [signOut EXCEPT ![u] = NoHolder]
    /\ UNCHANGED <<cache, gate, overlapped>>

FailSignOut(u) ==
    /\ signOut[u] # NoHolder
    /\ signOut' = [signOut EXCEPT ![u] = NoHolder]
    /\ UNCHANGED <<holder, session, cache, gate, overlapped>>

\* UpdateUser: sessions end only if the user has become inactive.
UpdateUserActive(u, active) ==
    \/ ~active /\ SignOut(u, [holder[u] EXCEPT !.active = FALSE])
    \/ /\ active
       /\ signOut[u] = NoHolder
       /\ holder' = [holder EXCEPT ![u].active = TRUE]
       /\ UNCHANGED <<session, cache, gate, signOut, overlapped>>
UpdatePass(u, pass) == SignOut(u, [holder[u] EXCEPT !.pass = pass])

SessionNext ==
    \/ \E r \in GateReqs :
        \/ \E t \in SessionTokens : \/ \E u \in Holders, pass \in HolderPasses : Login(r, t, u, pass)
                                    \/ Logout(r, t) \/ Lookup(r, t)
        \/ CommitLogin(r) \/ CommitLogout(r) \/ ReadSession(r) \/ FillCache(r) \/ AbortGate(r)
    \/ \E u \in Holders : \/ \E active \in BOOLEAN : UpdateUserActive(u, active)
                          \/ \E pass \in HolderPasses : UpdatePass(u, pass)
                          \/ CommitSignOut(u) \/ FailSignOut(u)

SessionSpec == SessionInit /\ [][SessionNext]_sessionVars
-----------------------------------------------------------------------------
(* Properties.                                                             *)

SessionTypeOK == /\ holder \in [Holders -> Holder]
                 /\ session \in [SessionTokens -> Session \cup {Unused, Closed}]
                 /\ cache \in [SessionTokens -> Holders \cup {NoHolder}]
                 /\ gate \in [GateReqs -> GateTx]
                 /\ signOut \in [Holders -> Holder \cup {NoHolder}]
                 /\ overlapped \subseteq SessionTokens

\* Whoever is let through has a session, opened with the present password by a user who is still
\* active - unless the token was looked up or given out while such sessions were being ended.
SessionsAreCurrent ==
    \A t \in SessionTokens \ overlapped :
        Authenticated(t) => /\ Open(t)
                            /\ holder[session[t].user] = [active |-> TRUE, pass |-> session[t].pass]
                            /\ cache[t] \in {NoHolder, session[t].user}
=============================================================================
