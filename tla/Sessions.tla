------------------------------ MODULE Sessions ------------------------------
(***************************************************************************)
(* The refresh tokens of one user: their rows in PostgreSQL, the sessions  *)
(* in Redis with the set that lists them, and the concurrent requests that *)
(* log in, exchange a token for a new one, log out or end all sessions     *)
(* (apps/api/src/auth/auth.service.ts, refresh-session.service.ts,         *)
(* password-reset.service.ts, workspaces/workspaces.service.ts).  The      *)
(* super owner's tokens take the same course.                              *)
(***************************************************************************)
EXTENDS Integers, FiniteSets

CONSTANTS
  Tokens,      \* refresh tokens, by their hash
  Requests,    \* requests being served at the same time
  NoToken,
  MaxTroubles  \* bound: calls that fail, requests that break off, sessions that lapse

ASSUME SessionsAssumption ==
  /\ NoToken \notin Tokens
  /\ MaxTroubles \in Nat

VARIABLES
  row,        \* RefreshToken rows: none, live (revokedAt is null) or revoked
  session,    \* keys refresh:<hash>
  index,      \* members of refresh:user:<id>
  request,
  handed,     \* history: tokens that were in a response
  from, root, \* history: the token it was exchanged for, the token of the login
  loggedOut,  \* history: tokens whose logout has removed all it removes
  budget

stored == <<row, session, index>>
history == <<from, root, handed, loggedOut>>
vars == <<stored, request, history, budget>>

-----------------------------------------------------------------------------

\* An exchange that has claimed its token and may still hand out or release.
Exchanging == {"create", "storeKey", "storeIndex", "undo", "sign", "release",
               "dropKey", "dropIndex", "answer"}
Places == Exchanging \union
  {"idle", "session", "claim", "retire", "outRow", "outKey", "outIndex",
   "endRows", "endList", "endKeys"}

\* token is what the client presented, fresh the token being issued, keys what
\* deleteAllForUser has read, known whether logout found the session; late is
\* history: the request came after a logout of its token.
Request == [at : Places, token : Tokens \union {NoToken}, fresh : Tokens \union {NoToken},
            keys : SUBSET Tokens, known : BOOLEAN, late : BOOLEAN]

Idle == [at |-> "idle", token |-> NoToken, fresh |-> NoToken, keys |-> {},
         known |-> FALSE, late |-> FALSE]

TypeOK ==
  /\ row \in [Tokens -> {"none", "live", "revoked"}]
  /\ session \subseteq Tokens /\ index \subseteq Tokens
  /\ request \in [Requests -> Request]
  /\ handed \subseteq Tokens /\ loggedOut \subseteq Tokens
  /\ from \in [Tokens -> Tokens \union {NoToken}]
  /\ root \in [Tokens -> Tokens]
  /\ budget \in Nat

Init ==
  /\ row = [t \in Tokens |-> "none"]
  /\ session = {} /\ index = {}
  /\ request = [r \in Requests |-> Idle]
  /\ handed = {} /\ loggedOut = {}
  /\ from = [t \in Tokens |-> NoToken]
  /\ root = [t \in Tokens |-> t]
  /\ budget = MaxTroubles

At(r, place) == request[r].at = place
Token(r) == request[r].token
Fresh(r) == request[r].fresh

Trouble == budget > 0 /\ budget' = budget - 1
Goto(r, place) == request' = [request EXCEPT ![r].at = place]
Close(r) == request' = [request EXCEPT ![r] = Idle]

\* The update of a row whose revokedAt is null.
Revoke(t) == row' = [row EXCEPT ![t] = IF @ = "live" THEN "revoked" ELSE @]

-----------------------------------------------------------------------------
(* refresh: from the presented token to the claim. *)

\* Reads the row and decides: a revoked token ends all sessions, an expired one
\* is revoked, any other goes on to its session.  Whether expiresAt has passed
\* is left open, for any token at any time.
BeginRefresh(r, t) ==
  /\ At(r, "idle")
  /\ t \in handed
  /\ \E place \in IF row[t] = "revoked" THEN {"endRows"} ELSE {"retire", "session"} :
       request' = [request EXCEPT ![r] =
         [Idle EXCEPT !.at = place, !.token = t, !.late = t \in loggedOut]]
  /\ UNCHANGED <<stored, history, budget>>

ReadSession(r) ==
  /\ At(r, "session")
  /\ Goto(r, IF Token(r) \in session THEN "claim" ELSE "retire")
  /\ UNCHANGED <<stored, history, budget>>

\* revokeRefreshToken of a token that has expired or lost its session.
Retire(r) ==
  /\ At(r, "retire")
  /\ Revoke(Token(r))
  /\ Close(r)
  /\ UNCHANGED <<session, index, history, budget>>

\* The account or the membership of the session may not use tokens any more.
Refuse(r) ==
  /\ At(r, "claim")
  /\ Close(r)
  /\ UNCHANGED <<stored, history, budget>>

\* Mutant: the row that was read a moment ago decides.
ClaimableAsRead(t) == row[t] # "none"
Claimable(t) == row[t] = "live"

\* The conditional update; whoever changes no row is turned away.
Claim(r) ==
  /\ At(r, "claim")
  /\ IF Claimable(Token(r))
     THEN row' = [row EXCEPT ![Token(r)] = "revoked"] /\ Goto(r, "create")
     ELSE Close(r) /\ UNCHANGED row
  /\ UNCHANGED <<session, index, history, budget>>

-----------------------------------------------------------------------------
(* issueTokens, for a login or a change of tenant, and for a refresh. *)

\* The password was right, or the member changes to another workspace.
BeginLogin(r) ==
  /\ At(r, "idle")
  /\ request' = [request EXCEPT ![r] = [Idle EXCEPT !.at = "create"]]
  /\ UNCHANGED <<stored, history, budget>>

\* The row of the new token f is written.
Insert(r, f) ==
  /\ row' = [row EXCEPT ![f] = "live"]
  /\ from' = [from EXCEPT ![f] = Token(r)]
  /\ root' = [root EXCEPT ![f] = IF Token(r) = NoToken THEN f ELSE root[Token(r)]]

Create(r, f) ==
  /\ At(r, "create")
  /\ row[f] = "none"
  /\ Insert(r, f)
  /\ request' = [request EXCEPT ![r].at = "storeKey", ![r].fresh = f]
  /\ UNCHANGED <<session, index, handed, loggedOut, budget>>

\* Mutant: the session is stored under the hash of the presented token.
StoreKeyOfPresented(r) ==
  /\ At(r, "storeKey")
  /\ session' = session \union {Token(r)}
  /\ Goto(r, "storeIndex")
  /\ UNCHANGED <<row, index, history, budget>>

StoreKey(r) ==
  /\ At(r, "storeKey")
  /\ session' = session \union {Fresh(r)}
  /\ Goto(r, "storeIndex")
  /\ UNCHANGED <<row, index, history, budget>>

StoreIndex(r) ==
  /\ At(r, "storeIndex")
  /\ index' = index \union {Fresh(r)}
  /\ Goto(r, "sign")
  /\ UNCHANGED <<row, session, history, budget>>

Sign(r) ==
  /\ At(r, "sign")
  /\ Goto(r, IF Token(r) = NoToken THEN "answer" ELSE "dropKey")
  /\ UNCHANGED <<stored, history, budget>>

-----------------------------------------------------------------------------
(* Issuing fails. *)

\* issueTokens rejects: refresh catches it and goes on to release its claim.
Rejects(r) == IF Token(r) = NoToken THEN Close(r) ELSE Goto(r, "release")

\* The insertion fails, before or after it took effect.
CreateFails(r, f) ==
  /\ At(r, "create")
  /\ row[f] = "none"
  /\ Trouble
  /\ Insert(r, f) \/ UNCHANGED <<row, from, root>>
  /\ Rejects(r)
  /\ UNCHANGED <<session, index, handed, loggedOut>>

\* store() fails in one of its two calls, before or after that took effect.
StoreFails(r) ==
  /\ \/ At(r, "storeKey") /\ session' \in {session, session \union {Fresh(r)}} /\ UNCHANGED index
     \/ At(r, "storeIndex") /\ index' \in {index, index \union {Fresh(r)}} /\ UNCHANGED session
  /\ Trouble
  /\ Goto(r, "undo")
  /\ UNCHANGED <<row, history>>

\* The new row is revoked, unless that fails as well.
Undo(r) ==
  /\ At(r, "undo")
  /\ \/ Revoke(Fresh(r)) /\ UNCHANGED budget
     \/ Trouble /\ UNCHANGED row
  /\ Rejects(r)
  /\ UNCHANGED <<session, index, history>>

SignFails(r) ==
  /\ At(r, "sign")
  /\ Trouble
  /\ Rejects(r)
  /\ UNCHANGED <<stored, history>>

\* The presented token is given back its row, whatever that says by now.
Release(r) ==
  /\ At(r, "release")
  /\ row' = [row EXCEPT ![Token(r)] = "live"]
  /\ Close(r)
  /\ UNCHANGED <<session, index, history, budget>>

-----------------------------------------------------------------------------
(* refresh: the old session goes, the new token is handed out. *)

DropKey(r) ==
  /\ At(r, "dropKey")
  /\ session' = session \ {Token(r)}
  /\ Goto(r, "dropIndex")
  /\ UNCHANGED <<row, index, history, budget>>

DropIndex(r) ==
  /\ At(r, "dropIndex")
  /\ index' = index \ {Token(r)}
  /\ Goto(r, "answer")
  /\ UNCHANGED <<row, session, history, budget>>

Answer(r) ==
  /\ At(r, "answer")
  /\ handed' = handed \union {Fresh(r)}
  /\ Close(r)
  /\ UNCHANGED <<stored, from, root, loggedOut, budget>>

-----------------------------------------------------------------------------
(* logout. *)

\* Reads the session, whose user is needed to take the token off the index.
BeginLogout(r, t) ==
  /\ At(r, "idle")
  /\ t \in handed
  /\ request' = [request EXCEPT ![r] =
       [Idle EXCEPT !.at = "outRow", !.token = t, !.known = t \in session]]
  /\ UNCHANGED <<stored, history, budget>>

LogoutRow(r) ==
  /\ At(r, "outRow")
  /\ Revoke(Token(r))
  /\ Goto(r, "outKey")
  /\ UNCHANGED <<session, index, history, budget>>

LoggedOut(r) == loggedOut' = loggedOut \union {Token(r)} /\ Close(r)

\* Mutant: logout relies on the revoked row and lets the session lapse.
LogoutKeepsKey(r) ==
  /\ At(r, "outKey")
  /\ LoggedOut(r)
  /\ UNCHANGED <<stored, handed, from, root, budget>>

LogoutKey(r) ==
  /\ At(r, "outKey")
  /\ session' = session \ {Token(r)}
  /\ IF request[r].known
     THEN Goto(r, "outIndex") /\ UNCHANGED loggedOut
     ELSE LoggedOut(r)
  /\ UNCHANGED <<row, index, handed, from, root, budget>>

LogoutIndex(r) ==
  /\ At(r, "outIndex")
  /\ index' = index \ {Token(r)}
  /\ LoggedOut(r)
  /\ UNCHANGED <<row, session, handed, from, root, budget>>

-----------------------------------------------------------------------------
(* All sessions of the user end: a revoked token was presented, or a         *)
(* password was changed, reset by mail or reset by an administrator.         *)

BeginEndAll(r) ==
  /\ At(r, "idle")
  /\ Goto(r, "endRows")
  /\ UNCHANGED <<stored, history, budget>>

RevokeAll(r) ==
  /\ At(r, "endRows")
  /\ row' = [t \in Tokens |-> IF row[t] = "live" THEN "revoked" ELSE row[t]]
  /\ Goto(r, "endList")
  /\ UNCHANGED <<session, index, history, budget>>

ListKeys(r) ==
  /\ At(r, "endList")
  /\ request' = [request EXCEPT ![r].at = "endKeys", ![r].keys = index]
  /\ UNCHANGED <<stored, history, budget>>

\* One DEL removes the sessions that were listed, and the index itself.
DeleteKeys(r) ==
  /\ At(r, "endKeys")
  /\ session' = session \ request[r].keys
  /\ index' = {}
  /\ Close(r)
  /\ UNCHANGED <<row, history, budget>>

-----------------------------------------------------------------------------
(* Time, and requests that end where they are. *)

\* The seven days of a session in Redis are over.
Lapse(t) ==
  /\ t \in session
  /\ Trouble
  /\ session' = session \ {t}
  /\ UNCHANGED <<row, index, request, history>>

\* The process dies, or a call outside of the try blocks fails.
Abort(r) ==
  /\ ~At(r, "idle")
  /\ Trouble
  /\ Close(r)
  /\ UNCHANGED <<stored, history>>

Issue(r) ==
  \/ \E f \in Tokens : Create(r, f) \/ CreateFails(r, f)
  \/ StoreKey(r) \/ StoreIndex(r) \/ Sign(r)
  \/ StoreFails(r) \/ Undo(r) \/ SignFails(r)

Exchange(r) ==
  \/ ReadSession(r) \/ Retire(r) \/ Refuse(r) \/ Claim(r)
  \/ Release(r) \/ DropKey(r) \/ DropIndex(r) \/ Answer(r)

End(r) ==
  \/ LogoutRow(r) \/ LogoutKey(r) \/ LogoutIndex(r)
  \/ RevokeAll(r) \/ ListKeys(r) \/ DeleteKeys(r)

Next ==
  \/ \E r \in Requests :
       \/ BeginLogin(r) \/ BeginEndAll(r)
       \/ \E t \in Tokens : BeginRefresh(r, t) \/ BeginLogout(r, t)
       \/ Issue(r) \/ Exchange(r) \/ End(r) \/ Abort(r)
  \/ \E t \in Tokens : Lapse(t)

Spec == Init /\ [][Next]_vars

-----------------------------------------------------------------------------
(* Properties. *)

\* A login never forks: of the tokens that clients hold and that descend from
\* one login, at most one is live, however refreshes race, fail while issuing
\* and release their claims.
OneLivePerLogin ==
  \A a, b \in handed :
    row[a] = "live" /\ row[b] = "live" /\ root[a] = root[b] => a = b

\* A token buys at most one other, over its whole life: also when an exchange
\* failed, released the token and another exchange was made.
ExchangedOnce ==
  \A a, b \in handed : from[a] = from[b] /\ from[a] # NoToken => a = b

\* A token presented after its logout was carried out never gets as far as an
\* exchange, even if a refresh that was under way released its row again.
LoggedOutStaysOut ==
  \A r \in Requests : request[r].late => request[r].at \notin Exchanging
=============================================================================
