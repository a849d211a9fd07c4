--------------------------- MODULE SessionsProofs ---------------------------
(* Proofs about Sessions that hold for every value of its constants. *)
EXTENDS Sessions, TLAPS

\* The new token of the exchange has its row.
NewRowStands == Exchanging \ {"create", "release"}
\* Places that only a request that presented a token comes to.
Presented == {"session", "claim", "retire", "release", "dropKey", "dropIndex",
              "outRow", "outKey", "outIndex"}

\* The requests that may still add a live token to a login, and which login.
Holding(r) == request[r].at \in Exchanging /\ (Token(r) # NoToken \/ ~At(r, "create"))
Origin(r) == IF Token(r) = NoToken THEN Fresh(r) ELSE root[Token(r)]

Formed(r) ==
  /\ Token(r) # NoToken => Token(r) \in handed
  /\ request[r].at \in Presented => Token(r) # NoToken
  /\ request[r].late =>
       Token(r) \in loggedOut /\ request[r].at \notin Exchanging \union {"claim"}

\* What the row of the token being exchanged, and of the new one, say.
Rows ==
  /\ \A t \in handed : row[t] # "none"
  /\ \A t \in Tokens : row[t] # "none" => row[root[t]] # "none"
  /\ \A r \in Requests :
       /\ request[r].at \in Exchanging /\ Token(r) # NoToken => row[Token(r)] = "revoked"
       /\ request[r].at \in NewRowStands =>
            /\ Fresh(r) \in Tokens \ handed
            /\ row[Fresh(r)] # "none"
            /\ root[Fresh(r)] = Origin(r)
            /\ from[Fresh(r)] = Token(r)

\* Live tokens that are held by clients, and requests that may add one, all
\* belong to different logins.
Chains ==
  /\ OneLivePerLogin
  /\ \A r \in Requests, a \in handed :
       Holding(r) /\ row[a] = "live" => root[a] # Origin(r)
  /\ \A r, s \in Requests : Holding(r) /\ Holding(s) /\ Origin(r) = Origin(s) => r = s

\* A token that bought another one is revoked, and nobody can release it.
Spent ==
  /\ ExchangedOnce
  /\ \A a \in handed : from[a] # NoToken =>
       /\ row[from[a]] = "revoked"
       /\ \A r \in Requests : request[r].at \in Exchanging => Token(r) # from[a]

Gone ==
  /\ \A t \in loggedOut : t \in handed /\ t \notin session
  /\ \A r \in Requests : At(r, "outIndex") => Token(r) \notin session

Inv ==
  /\ TypeOK
  /\ \A r \in Requests : Formed(r)
  /\ Rows /\ Chains /\ Spent /\ Gone

LEMMA Initially == Init => Inv
<1> SUFFICES ASSUME Init PROVE Inv
  OBVIOUS
<1> USE DEF Init, Idle
<1>1. TypeOK
  BY SessionsAssumption DEF TypeOK, Request, Places
<1>2. \A r \in Requests : Formed(r)
  BY DEF Formed, Presented, Token, Exchanging
<1>3. Rows
  BY DEF Rows, Exchanging, NewRowStands
<1>4. Chains /\ Spent /\ Gone
  BY DEF Chains, Spent, Gone, OneLivePerLogin, ExchangedOnce, Holding, Exchanging, At
<1>5. QED BY <1>1, <1>2, <1>3, <1>4 DEF Inv

-----------------------------------------------------------------------------
(* What Goto and Close do to the requests. *)

LEMMA Going ==
  ASSUME TypeOK, NEW r \in Requests, NEW place \in Places, Goto(r, place)
  PROVE  /\ request' \in [Requests -> Request]
         /\ request'[r].at = place
         /\ request'[r].token = request[r].token /\ request'[r].fresh = request[r].fresh
         /\ request'[r].late = request[r].late
         /\ \A s \in Requests \ {r} : request'[s] = request[s]
<1>1. [request[r] EXCEPT !.at = place] \in Request
  BY DEF TypeOK, Request
<1>2. QED BY <1>1 DEF TypeOK, Request, Goto

LEMMA Closing ==
  ASSUME TypeOK, NEW r \in Requests, Close(r)
  PROVE  /\ request' \in [Requests -> Request]
         /\ request'[r] = Idle
         /\ \A s \in Requests \ {r} : request'[s] = request[s]
<1>1. Idle \in Request
  BY DEF Idle, Request, Places
<1>2. QED BY <1>1 DEF TypeOK, Close

-----------------------------------------------------------------------------
(* Steps that neither claim, create, release nor hand out a token. *)

\* The request goes on with what it has, starts a login, or exchanges nothing.
Continues(r) ==
  /\ Formed(r)'
  /\ request'[r].at \in Exchanging =>
       \/ request'[r].at = "create" /\ request'[r].token = NoToken
       \/ /\ request[r].at \in Exchanging
          /\ request'[r].token = request[r].token /\ request'[r].fresh = request[r].fresh
          /\ request'[r].at \in NewRowStands => request[r].at \in NewRowStands
          /\ request[r].token = NoToken /\ request[r].at = "create" =>
               request'[r].at = "create"
  /\ request'[r].at = "outIndex" => request'[r].token \notin session'

Quiet ==
  /\ handed' = handed /\ from' = from /\ root' = root
  /\ \A t \in Tokens : row'[t] = row[t] \/ (row[t] = "live" /\ row'[t] = "revoked")
  /\ \A t \in handed : t \in session' => t \in session
  /\ loggedOut \subseteq loggedOut'
  /\ \A t \in loggedOut' \ loggedOut : t \in handed /\ t \notin session'
  /\ \A r \in Requests : request'[r] = request[r] \/ Continues(r)

LEMMA QuietStep ==
  ASSUME Inv, TypeOK', Quiet
  PROVE  Inv'
<1>1. \A r \in Requests : Formed(r)'
  BY DEF Inv, Quiet, Continues, Formed, Token, TypeOK
<1>2. Rows'
  <2>1. \A t \in handed' : row'[t] # "none"
    BY DEF Inv, Rows, Quiet, TypeOK
  <2>2. \A t \in Tokens : row'[t] # "none" => row'[root'[t]] # "none"
    BY DEF Inv, Rows, Quiet, TypeOK
  <2>3. ASSUME NEW r \in Requests, request'[r].at \in Exchanging, Token(r)' # NoToken
        PROVE  row'[Token(r)'] = "revoked"
    <3>1. request[r].at \in Exchanging /\ Token(r)' = Token(r)
      BY <2>3 DEF Quiet, Continues, Token
    <3>2. QED BY <2>3, <3>1 DEF Inv, Rows, Quiet, TypeOK, Token, Request
  <2>4. ASSUME NEW r \in Requests, request'[r].at \in NewRowStands
        PROVE  /\ Fresh(r)' \in Tokens \ handed' /\ row'[Fresh(r)'] # "none"
               /\ root'[Fresh(r)'] = Origin(r)' /\ from'[Fresh(r)'] = Token(r)'
    <3>1. request[r].at \in NewRowStands /\ Token(r)' = Token(r) /\ Fresh(r)' = Fresh(r)
      BY <2>4 DEF Quiet, Continues, Token, Fresh, NewRowStands, Exchanging
    <3>2. QED BY <2>4, <3>1 DEF Inv, Rows, Quiet, TypeOK, Origin
  <2>5. QED BY <2>1, <2>2, <2>3, <2>4 DEF Rows, Token, Fresh
<1>3. \A r \in Requests : Holding(r)' => Holding(r) /\ Origin(r)' = Origin(r)
  BY DEF Quiet, Continues, Holding, Origin, Token, Fresh, At
<1>4. Chains'
  <2>1. OneLivePerLogin'
    BY DEF Inv, Chains, OneLivePerLogin, Quiet, TypeOK
  <2>2. \A r \in Requests, a \in handed' :
          Holding(r)' /\ row'[a] = "live" => root'[a] # Origin(r)'
    BY <1>3 DEF Inv, Chains, Quiet, TypeOK
  <2>3. QED BY <1>3, <2>1, <2>2 DEF Inv, Chains
<1>5. Spent'
  <2>1. ExchangedOnce'
    BY DEF Inv, Spent, ExchangedOnce, Quiet
  <2>2. ASSUME NEW a \in handed', from'[a] # NoToken
        PROVE  row'[from'[a]] = "revoked"
    BY <2>2 DEF Inv, Spent, Quiet, TypeOK
  <2>3. ASSUME NEW a \in handed', from'[a] # NoToken,
               NEW r \in Requests, request'[r].at \in Exchanging
        PROVE  Token(r)' # from'[a]
    <3>1. Token(r)' = NoToken \/ (request[r].at \in Exchanging /\ Token(r)' = Token(r))
      BY <2>3 DEF Quiet, Continues, Token
    <3>2. QED BY <2>3, <3>1 DEF Inv, Spent, Quiet
  <2>4. QED BY <2>1, <2>2, <2>3 DEF Spent, Token
<1>6. Gone'
  <2>1. \A t \in loggedOut' : t \in handed' /\ t \notin session'
    BY DEF Inv, Gone, Quiet
  <2>2. ASSUME NEW r \in Requests, At(r, "outIndex")'
        PROVE  Token(r)' \notin session'
    <3>1. CASE request'[r] = request[r]
      BY <2>2, <3>1 DEF Inv, Gone, Quiet, At, Token, Formed, Presented
    <3>2. QED BY <2>2, <3>1 DEF Quiet, Continues, At, Token
  <2>3. QED BY <2>1, <2>2 DEF Gone
<1>7. QED BY <1>1, <1>2, <1>4, <1>5, <1>6 DEF Inv

\* The steps of one request r that are quiet.
LEMMA QuietRequest ==
  ASSUME Inv, NEW r \in Requests,
         request' \in [Requests -> Request],
         \A s \in Requests \ {r} : request'[s] = request[s],
         Continues(r),
         UNCHANGED <<handed, from, root>>,
         row' \in [Tokens -> {"none", "live", "revoked"}],
         \A t \in Tokens : row'[t] = row[t] \/ (row[t] = "live" /\ row'[t] = "revoked"),
         session' \subseteq Tokens, \A t \in handed : t \in session' => t \in session,
         index' \subseteq Tokens,
         loggedOut' = loggedOut \/
           (Token(r) \in handed \ session' /\ loggedOut' = loggedOut \union {Token(r)}),
         budget' \in Nat
  PROVE  Inv'
<1>1. TypeOK'
  BY DEF Inv, TypeOK
<1>2. Quiet
  BY DEF Quiet
<1>3. QED BY <1>1, <1>2, QuietStep

\* A request that has just opened, or that has closed, exchanges nothing.
LEMMA NothingExchanged ==
  ASSUME NEW r \in Requests, request'[r] = Idle
  PROVE  Continues(r)
BY DEF Continues, Formed, Idle, Token, Presented, Exchanging

LEMMA TroubleType == ASSUME TypeOK, Trouble \/ UNCHANGED budget PROVE budget' \in Nat
BY DEF TypeOK, Trouble

LEMMA RevokeType ==
  ASSUME TypeOK, NEW t \in Tokens, Revoke(t)
  PROVE  /\ row' \in [Tokens -> {"none", "live", "revoked"}]
         /\ \A u \in Tokens : row'[u] = row[u] \/ (row[u] = "live" /\ row'[u] = "revoked")
BY DEF TypeOK, Revoke

\* The frame of a request that presents token t.
LEMMA OpeningType ==
  ASSUME NEW place \in Places, NEW t \in Tokens, NEW b \in BOOLEAN
  PROVE  /\ [Idle EXCEPT !.at = place, !.token = t, !.late = b] \in Request
         /\ [Idle EXCEPT !.at = place, !.token = t, !.known = b] \in Request
BY DEF Request, Idle, Places

LEMMA Beginning ==
  ASSUME Inv, NEW r \in Requests,
         BeginLogin(r) \/ BeginEndAll(r)
           \/ \E t \in Tokens : BeginRefresh(r, t) \/ BeginLogout(r, t)
  PROVE  Inv'
<1> USE DEF Inv, TypeOK
<1>0. TypeOK
  OBVIOUS
<1>1. CASE BeginLogin(r)
  <2>1. [Idle EXCEPT !.at = "create"] \in Request
    BY DEF Request, Idle, Places, Exchanging
  <2>2. request' \in [Requests -> Request] /\ request'[r] = [Idle EXCEPT !.at = "create"]
        /\ \A s \in Requests \ {r} : request'[s] = request[s]
    BY <1>1, <2>1 DEF BeginLogin
  <2>3. Continues(r)
    BY <2>2 DEF Continues, Formed, Token, Idle, Presented
  <2>4. QED BY <1>1, <2>2, <2>3, QuietRequest DEF BeginLogin, stored, history
<1>2. CASE BeginEndAll(r)
  <2>1. Goto(r, "endRows") /\ "endRows" \in Places
    BY <1>2 DEF BeginEndAll, Places
  <2>2. Continues(r)
    BY <1>2, <2>1, <1>0, Going DEF Continues, Formed, Token, Presented, Exchanging, BeginEndAll, history, At
  <2>3. QED BY <1>0, <1>2, <2>1, <2>2, Going, QuietRequest DEF BeginEndAll, stored, history
<1>3. ASSUME NEW t \in Tokens, BeginRefresh(r, t) PROVE Inv'
  <2>1. PICK place \in {"endRows", "retire", "session"} :
          request' = [request EXCEPT ![r] =
            [Idle EXCEPT !.at = place, !.token = t, !.late = t \in loggedOut]]
    BY <1>3 DEF BeginRefresh
  <2>2. [Idle EXCEPT !.at = place, !.token = t, !.late = t \in loggedOut] \in Request
    <3>1. place \in Places /\ (t \in loggedOut) \in BOOLEAN
      BY DEF Places
    <3>2. QED BY <3>1, OpeningType
  <2>3. request' \in [Requests -> Request] /\ request'[r].at = place
        /\ request'[r].token = t /\ request'[r].late = (t \in loggedOut)
        /\ \A s \in Requests \ {r} : request'[s] = request[s]
    BY <2>1, <2>2 DEF Idle
  <2>4. t \in handed /\ UNCHANGED <<stored, history, budget>>
    BY <1>3 DEF BeginRefresh
  <2>5. Continues(r)
    BY <2>3, <2>4, SessionsAssumption DEF Continues, Formed, Token, Exchanging, history
  <2>6. QED BY <2>3, <2>4, <2>5, QuietRequest DEF stored, history
<1>4. ASSUME NEW t \in Tokens, BeginLogout(r, t) PROVE Inv'
  <2>1. [Idle EXCEPT !.at = "outRow", !.token = t, !.known = t \in session] \in Request
    <3>1. "outRow" \in Places /\ (t \in session) \in BOOLEAN
      BY DEF Places
    <3>2. QED BY <3>1, OpeningType
  <2>2. request' \in [Requests -> Request] /\ request'[r].at = "outRow"
        /\ request'[r].token = t /\ ~request'[r].late
        /\ \A s \in Requests \ {r} : request'[s] = request[s]
    BY <1>4, <2>1 DEF BeginLogout, Idle
  <2>3. t \in handed /\ UNCHANGED <<stored, history, budget>>
    BY <1>4 DEF BeginLogout
  <2>4. Continues(r)
    BY <2>2, <2>3, SessionsAssumption DEF Continues, Formed, Token, Exchanging, history
  <2>5. QED BY <2>2, <2>3, <2>4, QuietRequest DEF stored, history
<1>5. QED BY <1>1, <1>2, <1>3, <1>4

\* A request that closes, whatever it had done.
LEMMA Closed ==
  ASSUME Inv, NEW r \in Requests, Close(r),
         UNCHANGED <<session, index, history>>,
         row' \in [Tokens -> {"none", "live", "revoked"}],
         \A t \in Tokens : row'[t] = row[t] \/ (row[t] = "live" /\ row'[t] = "revoked"),
         budget' \in Nat
  PROVE  Inv'
<1>1. TypeOK
  BY DEF Inv
<1>2. request' \in [Requests -> Request] /\ request'[r] = Idle
      /\ \A s \in Requests \ {r} : request'[s] = request[s]
  BY <1>1, Closing
<1>3. Continues(r)
  BY <1>2, NothingExchanged
<1>4. QED BY <1>1, <1>2, <1>3, QuietRequest DEF TypeOK, history

\* A request that goes on to another place with the tokens it has.
LEMMA Moved ==
  ASSUME Inv, NEW r \in Requests, NEW place \in Places, Goto(r, place),
         place \in Exchanging =>
           /\ request[r].at \in Exchanging
           /\ place \in NewRowStands => request[r].at \in NewRowStands
           /\ ~(Token(r) = NoToken /\ request[r].at = "create"),
         place \in Presented => Token(r) # NoToken,
         place = "claim" => ~request[r].late,
         place = "outIndex" => Token(r) \notin session',
         UNCHANGED history,
         row' \in [Tokens -> {"none", "live", "revoked"}],
         \A t \in Tokens : row'[t] = row[t] \/ (row[t] = "live" /\ row'[t] = "revoked"),
         session' \subseteq Tokens, \A t \in handed : t \in session' => t \in session,
         index' \subseteq Tokens,
         budget' \in Nat
  PROVE  Inv'
<1>1. TypeOK /\ Formed(r)
  BY DEF Inv
<1>2. /\ request' \in [Requests -> Request]
      /\ request'[r].at = place
      /\ request'[r].token = request[r].token /\ request'[r].fresh = request[r].fresh
      /\ request'[r].late = request[r].late
      /\ \A s \in Requests \ {r} : request'[s] = request[s]
  BY <1>1, Going
<1>3. Formed(r)'
  BY <1>1, <1>2 DEF Formed, Token, history
<1>4. Continues(r)
  BY <1>2, <1>3 DEF Continues, Token
<1>5. QED BY <1>2, <1>4, QuietRequest DEF history

\* issueTokens has rejected.
LEMMA Rejected ==
  ASSUME Inv, NEW r \in Requests, Rejects(r), request[r].at \in Exchanging,
         UNCHANGED history,
         row' \in [Tokens -> {"none", "live", "revoked"}],
         \A t \in Tokens : row'[t] = row[t] \/ (row[t] = "live" /\ row'[t] = "revoked"),
         UNCHANGED <<session, index>>,
         budget' \in Nat
  PROVE  Inv'
<1>1. CASE Token(r) = NoToken
  BY <1>1, Closed DEF Rejects
<1>2. CASE Token(r) # NoToken
  <2>1. Goto(r, "release") /\ "release" \in Places
    BY <1>2 DEF Rejects, Places, Exchanging
  <2>2. "release" \notin NewRowStands /\ "release" \in Exchanging
    BY DEF NewRowStands, Exchanging
  <2>3. QED BY <1>2, <2>1, <2>2, Moved DEF Inv, TypeOK
<1>3. QED BY <1>1, <1>2

\* The token of a request that presented one.
LEMMA PresentedToken ==
  ASSUME Inv, NEW r \in Requests, request[r].at \in Presented
  PROVE  Token(r) # NoToken /\ Token(r) \in handed /\ Token(r) \in Tokens
BY DEF Inv, TypeOK, Formed

LEMMA FreshToken ==
  ASSUME Inv, NEW r \in Requests, request[r].at \in NewRowStands
  PROVE  Fresh(r) \in Tokens \ handed
BY DEF Inv, Rows

LEMMA QuietExchange ==
  ASSUME Inv, NEW r \in Requests,
         ReadSession(r) \/ Retire(r) \/ Refuse(r) \/ DropKey(r) \/ DropIndex(r)
  PROVE  Inv'
<1> USE DEF At, history, stored
<1>0. TypeOK
  BY DEF Inv
<1>1. CASE ReadSession(r)
  <2>1. PICK place \in {"claim", "retire"} :
          Goto(r, place) /\ (place = "claim" => Token(r) \in session)
    BY <1>1 DEF ReadSession
  <2>2. request[r].at \in Presented
    BY <1>1 DEF ReadSession, Presented
  <2>3. Token(r) # NoToken /\ (place = "claim" => ~request[r].late)
    BY <2>1, <2>2, PresentedToken DEF Inv, Formed, Gone
  <2>4. place \in Places /\ place \notin Exchanging /\ place # "outIndex"
    BY DEF Places, Exchanging
  <2>5. QED BY <1>0, <1>1, <2>1, <2>3, <2>4, Moved DEF ReadSession, TypeOK
<1>2. CASE Retire(r)
  <2>1. Token(r) \in Tokens
    BY <1>2, PresentedToken DEF Retire, Presented
  <2>2. QED BY <1>0, <1>2, <2>1, RevokeType, Closed DEF Retire, TypeOK
<1>3. CASE Refuse(r)
  BY <1>0, <1>3, Closed DEF Refuse, TypeOK
<1>4. CASE DropKey(r)
  <2>1. Token(r) # NoToken
    BY <1>4, PresentedToken DEF DropKey, Presented
  <2>2. "dropIndex" \in Places /\ request[r].at \in NewRowStands /\ request[r].at \in Exchanging
    BY <1>4 DEF DropKey, Places, Exchanging, NewRowStands
  <2>3. session' \subseteq session
    BY <1>4 DEF DropKey
  <2>4. QED BY <1>0, <1>4, <2>1, <2>2, <2>3, Moved DEF DropKey, TypeOK
<1>5. CASE DropIndex(r)
  <2>1. Token(r) # NoToken
    BY <1>5, PresentedToken DEF DropIndex, Presented
  <2>2. "answer" \in Places /\ request[r].at \in NewRowStands /\ request[r].at \in Exchanging
    BY <1>5 DEF DropIndex, Places, Exchanging, NewRowStands
  <2>3. index' \subseteq index
    BY <1>5 DEF DropIndex
  <2>4. QED BY <1>0, <1>5, <2>1, <2>2, <2>3, Moved DEF DropIndex, TypeOK
<1>6. QED BY <1>1, <1>2, <1>3, <1>4, <1>5

LEMMA QuietIssue ==
  ASSUME Inv, NEW r \in Requests,
         \/ StoreKey(r) \/ StoreIndex(r) \/ Sign(r)
         \/ StoreFails(r) \/ Undo(r) \/ SignFails(r)
  PROVE  Inv'
<1> USE DEF At, history, stored
<1>0. TypeOK
  BY DEF Inv
<1>1. request[r].at \in NewRowStands /\ request[r].at \in Exchanging /\ request[r].at # "create"
  BY DEF StoreKey, StoreIndex, Sign, StoreFails, Undo, SignFails, NewRowStands, Exchanging
<1>2. Fresh(r) \in Tokens \ handed
  BY <1>1, FreshToken
<1>3. budget' \in Nat
  BY <1>0, TroubleType DEF StoreKey, StoreIndex, Sign, StoreFails, Undo, SignFails
<1>4. {"storeIndex", "sign", "undo", "dropKey", "answer"} \subseteq Places
  BY DEF Places, Exchanging
<1>5. CASE StoreKey(r)
  <2>1. Goto(r, "storeIndex") /\ "storeIndex" \notin Presented
    BY <1>5 DEF StoreKey, Presented
  <2>2. session' \subseteq Tokens /\ \A t \in handed : t \in session' => t \in session
    BY <1>0, <1>2, <1>5 DEF StoreKey, TypeOK
  <2>3. QED BY <1>0, <1>1, <1>3, <1>4, <1>5, <2>1, <2>2, Moved DEF StoreKey, TypeOK
<1>6. CASE StoreIndex(r)
  <2>1. Goto(r, "sign") /\ "sign" \notin Presented
    BY <1>6 DEF StoreIndex, Presented
  <2>2. index' \subseteq Tokens
    BY <1>0, <1>2, <1>6 DEF StoreIndex, TypeOK
  <2>3. QED BY <1>0, <1>1, <1>3, <1>4, <1>6, <2>1, <2>2, Moved DEF StoreIndex, TypeOK
<1>7. CASE Sign(r)
  <2>1. PICK place \in {"answer", "dropKey"} :
          Goto(r, place) /\ (place = "dropKey" => Token(r) # NoToken)
    BY <1>7 DEF Sign
  <2>2. "answer" \notin Presented
    BY DEF Presented
  <2>3. QED BY <1>0, <1>1, <1>3, <1>4, <1>7, <2>1, <2>2, Moved DEF Sign, TypeOK
<1>8. CASE StoreFails(r)
  <2>1. Goto(r, "undo") /\ "undo" \notin Presented
    BY <1>8 DEF StoreFails, Presented
  <2>2. session' \subseteq Tokens /\ \A t \in handed : t \in session' => t \in session
    BY <1>0, <1>2, <1>8 DEF StoreFails, TypeOK
  <2>3. index' \subseteq Tokens
    BY <1>0, <1>2, <1>8 DEF StoreFails, TypeOK
  <2>4. QED BY <1>0, <1>1, <1>3, <1>4, <1>8, <2>1, <2>2, <2>3, Moved DEF StoreFails, TypeOK
<1>9. CASE Undo(r)
  <2>1. /\ row' \in [Tokens -> {"none", "live", "revoked"}]
        /\ \A t \in Tokens : row'[t] = row[t] \/ (row[t] = "live" /\ row'[t] = "revoked")
    <3>1. CASE Revoke(Fresh(r))
      BY <1>0, <1>2, <3>1, RevokeType
    <3>2. CASE UNCHANGED row
      BY <1>0, <3>2 DEF TypeOK
    <3>3. QED BY <1>9, <3>1, <3>2 DEF Undo
  <2>2. QED BY <1>1, <1>3, <1>9, <2>1, Rejected DEF Undo
<1>10. CASE SignFails(r)
  BY <1>0, <1>1, <1>3, <1>10, Rejected DEF SignFails, TypeOK
<1>11. QED BY <1>5, <1>6, <1>7, <1>8, <1>9, <1>10

LEMMA Ending ==
  ASSUME Inv, NEW r \in Requests, End(r)
  PROVE  Inv'
<1> USE DEF At, stored
<1>0. TypeOK
  BY DEF Inv
<1>1. {"outKey", "outIndex", "endList"} \subseteq Places \ Exchanging
  BY DEF Places, Exchanging
<1>2. CASE LogoutRow(r)
  <2>1. Token(r) \in Tokens /\ Token(r) # NoToken
    BY <1>2, PresentedToken DEF LogoutRow, Presented
  <2>2. QED BY <1>0, <1>1, <1>2, <2>1, RevokeType, Moved DEF LogoutRow, TypeOK
<1>3. CASE LogoutKey(r)
  <2>1. Token(r) \in handed /\ Token(r) # NoToken
    BY <1>3, PresentedToken DEF LogoutKey, Presented
  <2>2. session' \subseteq Tokens /\ session' \subseteq session /\ Token(r) \notin session'
    BY <1>0, <1>3 DEF LogoutKey, TypeOK
  <2>3. CASE request[r].known
    BY <1>0, <1>1, <1>3, <2>1, <2>2, <2>3, Moved DEF LogoutKey, TypeOK, history
  <2>4. CASE ~request[r].known
    <3>1. /\ request' \in [Requests -> Request] /\ request'[r] = Idle
          /\ \A s \in Requests \ {r} : request'[s] = request[s]
      BY <1>0, <1>3, <2>4, Closing DEF LogoutKey, LoggedOut
    <3>2. Continues(r)
      BY <3>1, NothingExchanged
    <3>3. loggedOut' = loggedOut \union {Token(r)} /\ Token(r) \in handed \ session'
      BY <1>3, <2>1, <2>2, <2>4 DEF LogoutKey, LoggedOut
    <3>4. QED BY <1>0, <1>3, <2>2, <3>1, <3>2, <3>3, QuietRequest DEF LogoutKey, TypeOK
  <2>5. QED BY <2>3, <2>4
<1>4. CASE LogoutIndex(r)
  <2>1. Token(r) \in handed /\ Token(r) \notin session
    BY <1>4, PresentedToken DEF LogoutIndex, Presented, Inv, Gone
  <2>2. /\ request' \in [Requests -> Request] /\ request'[r] = Idle
        /\ \A s \in Requests \ {r} : request'[s] = request[s]
    BY <1>0, <1>4, Closing DEF LogoutIndex, LoggedOut
  <2>3. Continues(r)
    BY <2>2, NothingExchanged
  <2>4. loggedOut' = loggedOut \union {Token(r)} /\ Token(r) \in handed \ session'
    BY <1>4, <2>1 DEF LogoutIndex, LoggedOut
  <2>5. index' \subseteq Tokens
    BY <1>0, <1>4 DEF LogoutIndex, TypeOK
  <2>6. QED BY <1>0, <1>4, <2>2, <2>3, <2>4, <2>5, QuietRequest DEF LogoutIndex, TypeOK
<1>5. CASE RevokeAll(r)
  <2>1. /\ row' \in [Tokens -> {"none", "live", "revoked"}]
        /\ \A t \in Tokens : row'[t] = row[t] \/ (row[t] = "live" /\ row'[t] = "revoked")
    BY <1>0, <1>5 DEF RevokeAll, TypeOK
  <2>2. "endList" \notin Presented
    BY DEF Presented
  <2>3. QED BY <1>0, <1>1, <1>5, <2>1, <2>2, Moved DEF RevokeAll, TypeOK
<1>6. CASE ListKeys(r)
  <2>1. [[request[r] EXCEPT !.at = "endKeys"] EXCEPT !.keys = index] \in Request
    <3>1. [request[r] EXCEPT !.at = "endKeys"] \in Request
      BY <1>0 DEF TypeOK, Request, Places
    <3>2. QED BY <1>0, <3>1 DEF TypeOK, Request
  <2>2. /\ request' \in [Requests -> Request]
        /\ request'[r] = [[request[r] EXCEPT !.at = "endKeys"] EXCEPT !.keys = index]
        /\ \A s \in Requests \ {r} : request'[s] = request[s]
    BY <1>0, <1>6, <2>1 DEF ListKeys, TypeOK
  <2>3. request'[r].at = "endKeys" /\ request'[r].token = request[r].token
        /\ request'[r].late = request[r].late
    BY <1>0, <2>2 DEF TypeOK, Request
  <2>4. Formed(r)
    BY DEF Inv
  <2>5. Continues(r)
    BY <1>6, <2>3, <2>4 DEF ListKeys, Continues, Formed, Token, Presented, Exchanging, history
  <2>6. QED BY <1>0, <1>6, <2>2, <2>5, QuietRequest DEF ListKeys, TypeOK, history
<1>7. CASE DeleteKeys(r)
  <2>1. /\ request' \in [Requests -> Request] /\ request'[r] = Idle
        /\ \A s \in Requests \ {r} : request'[s] = request[s]
    BY <1>0, <1>7, Closing DEF DeleteKeys
  <2>2. Continues(r)
    BY <2>1, NothingExchanged
  <2>3. session' \subseteq session /\ index' = {}
    BY <1>7 DEF DeleteKeys
  <2>4. QED BY <1>0, <1>7, <2>1, <2>2, <2>3, QuietRequest DEF DeleteKeys, TypeOK, history
<1>8. QED BY <1>2, <1>3, <1>4, <1>5, <1>6, <1>7 DEF End

LEMMA BreakingOff ==
  ASSUME Inv, (\E r \in Requests : Abort(r)) \/ (\E t \in Tokens : Lapse(t))
  PROVE  Inv'
<1>0. TypeOK
  BY DEF Inv
<1>1. ASSUME NEW r \in Requests, Abort(r) PROVE Inv'
  <2>1. budget' \in Nat
    BY <1>0, <1>1, TroubleType DEF Abort
  <2>2. QED BY <1>0, <1>1, <2>1, Closed DEF Abort, stored, history, TypeOK
<1>2. ASSUME NEW t \in Tokens, Lapse(t) PROVE Inv'
  <2>1. TypeOK'
    BY <1>0, <1>2, TroubleType DEF Lapse, TypeOK, history
  <2>2. Quiet
    BY <1>2 DEF Lapse, Quiet, history
  <2>3. QED BY <2>1, <2>2, QuietStep
<1>3. QED BY <1>1, <1>2

-----------------------------------------------------------------------------
(* Steps that change who may add a live token to a login. *)

\* Two requests never exchange the same token.
LEMMA OneExchangeEach ==
  ASSUME Inv, NEW r \in Requests, NEW s \in Requests,
         request[r].at \in Exchanging, request[s].at \in Exchanging,
         Token(r) # NoToken, Token(s) = Token(r)
  PROVE  s = r
<1>1. Holding(r) /\ Holding(s) /\ Origin(r) = Origin(s)
  BY DEF Holding, Origin
<1>2. QED BY <1>1 DEF Inv, Chains

LEMMA Claiming ==
  ASSUME Inv, NEW r \in Requests, Claim(r)
  PROVE  Inv'
<1>0. TypeOK
  BY DEF Inv
<1>1. Token(r) \in handed /\ Token(r) \in Tokens /\ Token(r) # NoToken
  BY PresentedToken DEF Claim, At, Presented
<1>2. CASE row[Token(r)] # "live"
  BY <1>0, <1>2, Closed DEF Claim, Claimable, TypeOK, history
<1>3. CASE row[Token(r)] = "live"
  <2>1. row' = [row EXCEPT ![Token(r)] = "revoked"] /\ Goto(r, "create")
        /\ UNCHANGED <<session, index, history, budget>> /\ request[r].at = "claim"
    BY <1>3 DEF Claim, Claimable, At
  <2>2. /\ request' \in [Requests -> Request]
        /\ request'[r].at = "create"
        /\ request'[r].token = request[r].token /\ request'[r].fresh = request[r].fresh
        /\ request'[r].late = request[r].late
        /\ \A s \in Requests \ {r} : request'[s] = request[s]
    BY <1>0, <2>1, Going DEF Places, Exchanging
  <2>3. TypeOK'
    BY <1>0, <2>1, <2>2 DEF TypeOK, history
  <2>4. \A s \in Requests : Formed(s)'
    BY <2>1, <2>2 DEF Inv, Formed, Token, history, Presented
  <2>5. \A t \in Tokens : row'[t] = IF t = Token(r) THEN "revoked" ELSE row[t]
    BY <1>0, <1>1, <2>1 DEF TypeOK
  <2>6. Rows'
    <3>1. \A t \in handed' : row'[t] # "none"
      BY <1>0, <2>1, <2>5 DEF Inv, Rows, TypeOK, history
    <3>2. \A t \in Tokens : row'[t] # "none" => row'[root'[t]] # "none"
      BY <1>0, <1>3, <2>1, <2>5 DEF Inv, Rows, TypeOK, history
    <3>3. ASSUME NEW s \in Requests, request'[s].at \in Exchanging, Token(s)' # NoToken
          PROVE  row'[Token(s)'] = "revoked"
      BY <1>0, <2>1, <2>2, <2>5, <3>3 DEF Inv, Rows, TypeOK, Token, Request
    <3>4. ASSUME NEW s \in Requests, request'[s].at \in NewRowStands
          PROVE  /\ Fresh(s)' \in Tokens \ handed' /\ row'[Fresh(s)'] # "none"
                 /\ root'[Fresh(s)'] = Origin(s)' /\ from'[Fresh(s)'] = Token(s)'
      <4>1. s # r
        BY <2>2, <3>4 DEF NewRowStands
      <4>2. QED BY <1>0, <2>1, <2>2, <2>5, <3>4, <4>1
              DEF Inv, Rows, TypeOK, Token, Fresh, Origin, history
    <3>5. QED BY <3>1, <3>2, <3>3, <3>4 DEF Rows, Token, Fresh
  <2>7. \A s \in Requests \ {r} : Holding(s)' = Holding(s) /\ Origin(s)' = Origin(s)
    BY <2>1, <2>2 DEF Holding, Origin, Token, Fresh, At, history
  <2>8. Holding(r)' /\ Origin(r)' = root[Token(r)]
    BY <1>1, <2>1, <2>2 DEF Holding, Origin, Token, Exchanging, history
  <2>9. \A s \in Requests : Holding(s) => Origin(s) # root[Token(r)]
    BY <1>1, <1>3 DEF Inv, Chains
  <2>10. Chains'
    <3>1. OneLivePerLogin'
      BY <1>0, <2>1, <2>5 DEF Inv, Chains, OneLivePerLogin, TypeOK, history
    <3>2. ASSUME NEW s \in Requests, NEW a \in handed', Holding(s)', row'[a] = "live"
          PROVE  root'[a] # Origin(s)'
      <4>1. a \in handed /\ row[a] = "live" /\ a # Token(r) /\ root' = root
        BY <1>0, <2>1, <2>5, <3>2 DEF TypeOK, history
      <4>2. CASE s = r
        BY <1>1, <1>3, <2>8, <4>1, <4>2 DEF Inv, Chains, OneLivePerLogin
      <4>3. CASE s # r
        BY <2>7, <3>2, <4>1, <4>3 DEF Inv, Chains
      <4>4. QED BY <4>2, <4>3
    <3>3. \A s, u \in Requests : Holding(s)' /\ Holding(u)' /\ Origin(s)' = Origin(u)' => s = u
      BY <2>7, <2>8, <2>9 DEF Inv, Chains
    <3>4. QED BY <3>1, <3>2, <3>3 DEF Chains
  <2>11. Spent'
    <3>1. ExchangedOnce'
      BY <2>1 DEF Inv, Spent, ExchangedOnce, history
    <3>2. ASSUME NEW a \in handed', from'[a] # NoToken
          PROVE  /\ row'[from'[a]] = "revoked"
                 /\ \A s \in Requests : request'[s].at \in Exchanging => Token(s)' # from'[a]
      <4>1. a \in handed /\ from'[a] = from[a] /\ from[a] \in Tokens
        BY <1>0, <2>1, <3>2 DEF TypeOK, history
      <4>2. row[from[a]] = "revoked"
        BY <3>2, <4>1 DEF Inv, Spent
      <4>3. Token(r)' # from[a]
        BY <1>3, <2>2, <4>2 DEF Token
      <4>4. QED BY <2>2, <2>5, <3>2, <4>1, <4>2, <4>3 DEF Inv, Spent, Token
    <3>3. QED BY <3>1, <3>2 DEF Spent, Token
  <2>12. Gone'
    BY <2>1, <2>2 DEF Inv, Gone, At, Token, history
  <2>13. QED BY <2>3, <2>4, <2>6, <2>10, <2>11, <2>12 DEF Inv
<1>4. QED BY <1>2, <1>3

LEMMA Releasing ==
  ASSUME Inv, NEW r \in Requests, Release(r)
  PROVE  Inv'
<1>0. TypeOK
  BY DEF Inv
<1>1. Token(r) \in handed /\ Token(r) \in Tokens /\ Token(r) # NoToken
  BY PresentedToken DEF Release, At, Presented
<1>2. /\ request[r].at \in Exchanging /\ request[r].at = "release"
      /\ UNCHANGED <<session, index, history, budget>>
  BY DEF Release, At, Exchanging
<1>3. /\ request' \in [Requests -> Request] /\ request'[r] = Idle
      /\ \A s \in Requests \ {r} : request'[s] = request[s]
  BY <1>0, Closing DEF Release
<1>4. \A t \in Tokens : row'[t] = IF t = Token(r) THEN "live" ELSE row[t]
  BY <1>0, <1>1 DEF Release, TypeOK
<1>5. TypeOK'
  BY <1>0, <1>2, <1>3 DEF Release, TypeOK, history
<1>6. \A s \in Requests : Formed(s)'
  BY <1>2, <1>3 DEF Inv, Formed, Token, history, Idle, Presented
<1>7. request'[r].at \notin Exchanging
  BY <1>3 DEF Idle, Exchanging
<1>8. \A s \in Requests \ {r} : request[s].at \in Exchanging => Token(s) # Token(r)
  BY <1>1, <1>2, OneExchangeEach
<1>9. Holding(r) /\ Origin(r) = root[Token(r)]
  BY <1>1, <1>2 DEF Holding, Origin
<1>10. Rows'
  <2>1. \A t \in handed' : row'[t] # "none"
    BY <1>0, <1>2, <1>4 DEF Inv, Rows, TypeOK, history
  <2>2. \A t \in Tokens : row'[t] # "none" => row'[root'[t]] # "none"
    BY <1>0, <1>1, <1>2, <1>4 DEF Inv, Rows, TypeOK, history
  <2>3. ASSUME NEW s \in Requests, request'[s].at \in Exchanging, Token(s)' # NoToken
        PROVE  row'[Token(s)'] = "revoked"
    <3>1. s # r /\ request'[s] = request[s] /\ Token(s) # Token(r) /\ Token(s) \in Tokens
      BY <1>0, <1>3, <1>7, <1>8, <2>3 DEF Token, TypeOK, Request
    <3>2. QED BY <1>4, <2>3, <3>1 DEF Inv, Rows, Token
  <2>4. ASSUME NEW s \in Requests, request'[s].at \in NewRowStands
        PROVE  /\ Fresh(s)' \in Tokens \ handed' /\ row'[Fresh(s)'] # "none"
               /\ root'[Fresh(s)'] = Origin(s)' /\ from'[Fresh(s)'] = Token(s)'
    <3>1. s # r
      BY <1>7, <2>4 DEF NewRowStands
    <3>2. QED BY <1>0, <1>2, <1>3, <1>4, <2>4, <3>1
            DEF Inv, Rows, TypeOK, Token, Fresh, Origin, history
  <2>5. QED BY <2>1, <2>2, <2>3, <2>4 DEF Rows, Token, Fresh
<1>11. \A s \in Requests : Holding(s)' => s # r /\ Holding(s) /\ Origin(s)' = Origin(s)
  BY <1>2, <1>3, <1>7 DEF Holding, Origin, Token, Fresh, At, history
<1>12. Chains'
  <2>1. ASSUME NEW a \in handed, row'[a] = "live", a # Token(r)
        PROVE  row[a] = "live" /\ root[a] # root[Token(r)]
    BY <1>0, <1>4, <1>9, <2>1 DEF Inv, Chains, TypeOK
  <2>2. OneLivePerLogin'
    BY <1>0, <1>2, <2>1 DEF Inv, Chains, OneLivePerLogin, TypeOK, history
  <2>3. ASSUME NEW s \in Requests, NEW a \in handed', Holding(s)', row'[a] = "live"
        PROVE  root'[a] # Origin(s)'
    <3>1. CASE a = Token(r)
      BY <1>2, <1>9, <1>11, <2>3, <3>1 DEF Inv, Chains, history
    <3>2. CASE a # Token(r)
      BY <1>2, <1>11, <2>1, <2>3, <3>2 DEF Inv, Chains, history
    <3>3. QED BY <3>1, <3>2
  <2>4. \A s, u \in Requests : Holding(s)' /\ Holding(u)' /\ Origin(s)' = Origin(u)' => s = u
    BY <1>11 DEF Inv, Chains
  <2>5. QED BY <2>2, <2>3, <2>4 DEF Chains
<1>13. Spent'
  <2>1. ExchangedOnce'
    BY <1>2 DEF Inv, Spent, ExchangedOnce, history
  <2>2. ASSUME NEW a \in handed', from'[a] # NoToken
        PROVE  /\ row'[from'[a]] = "revoked"
               /\ \A s \in Requests : request'[s].at \in Exchanging => Token(s)' # from'[a]
    <3>1. a \in handed /\ from'[a] = from[a] /\ from[a] \in Tokens
      BY <1>0, <1>2, <2>2 DEF TypeOK, history
    <3>2. row[from[a]] = "revoked" /\ Token(r) # from[a]
      BY <1>2, <2>2, <3>1 DEF Inv, Spent
    <3>3. QED BY <1>3, <1>4, <1>7, <2>2, <3>1, <3>2 DEF Inv, Spent, Token
  <2>3. QED BY <2>1, <2>2 DEF Spent, Token
<1>14. Gone'
  BY <1>2, <1>3 DEF Inv, Gone, At, Token, history, Idle
<1>15. QED BY <1>5, <1>6, <1>10, <1>12, <1>13, <1>14 DEF Inv

\* The row of a new token is written: the request goes on to store its
\* session, closes, or has to release what it claimed.
LEMMA Inserting ==
  ASSUME Inv, NEW r \in Requests, NEW f \in Tokens,
         request[r].at = "create", row[f] = "none", Insert(r, f),
         UNCHANGED <<session, index, handed, loggedOut>>, budget' \in Nat,
         request' \in [Requests -> Request],
         \A s \in Requests \ {r} : request'[s] = request[s],
         \/ /\ request'[r].at = "storeKey" /\ request'[r].token = request[r].token
            /\ request'[r].fresh = f /\ request'[r].late = request[r].late
         \/ /\ request'[r].at = "release" /\ request'[r].token = request[r].token
            /\ request'[r].late = request[r].late /\ Token(r) # NoToken
         \/ request'[r] = Idle
  PROVE  Inv'
<1> USE DEF Token, Fresh
<1>0. TypeOK
  BY DEF Inv
<1>1. f \notin handed
  BY DEF Inv, Rows
<1>2. request[r].at \in Exchanging /\ (Token(r) # NoToken => Token(r) \in handed)
  BY DEF Inv, Formed, Exchanging
<1>3. Token(r) \in Tokens \union {NoToken}
  BY <1>0 DEF TypeOK, Request
<1>4. TypeOK'
  BY <1>0, <1>3 DEF Insert, TypeOK
<1>5. /\ \A t \in Tokens : row'[t] = IF t = f THEN "live" ELSE row[t]
      /\ \A t \in Tokens \ {f} : from'[t] = from[t] /\ root'[t] = root[t]
      /\ from'[f] = Token(r)
      /\ root'[f] = IF Token(r) = NoToken THEN f ELSE root[Token(r)]
  BY <1>0 DEF Insert, TypeOK
<1>6. \A s \in Requests : Formed(s)'
  BY <1>2 DEF Inv, Formed, Idle, Presented, Exchanging
<1>7. \A s \in Requests \ {r} : Holding(s)' = Holding(s) /\ (Holding(s) => Origin(s)' = Origin(s))
  <2> SUFFICES ASSUME NEW s \in Requests \ {r}
               PROVE  Holding(s)' = Holding(s) /\ (Holding(s) => Origin(s)' = Origin(s))
    OBVIOUS
  <2>1. Token(s) # NoToken => Token(s) \in Tokens \ {f}
    BY <1>0, <1>1 DEF Inv, Formed, TypeOK
  <2>2. QED BY <1>5, <2>1 DEF Holding, Origin, At
<1>8. Holding(r)' => \/ Token(r) # NoToken /\ Holding(r) /\ Origin(r)' = Origin(r)
                     \/ Token(r) = NoToken /\ request'[r].at = "storeKey" /\ Origin(r)' = f
  BY <1>0, <1>1, <1>2, <1>5 DEF Holding, Origin, At, Idle, Exchanging, TypeOK
<1>9. \A t \in Tokens : row[t] # "none" => root[t] # f
  BY DEF Inv, Rows
<1>10. \A s \in Requests \ {r} : Holding(s) => Origin(s) # f
  <2> SUFFICES ASSUME NEW s \in Requests \ {r}, Holding(s) PROVE Origin(s) # f
    OBVIOUS
  <2>1. CASE Token(s) = NoToken
    <3>1. request[s].at \in NewRowStands
      BY <1>0, <2>1, PresentedToken DEF Holding, NewRowStands, At, Presented
    <3>2. row[Fresh(s)] # "none" /\ Origin(s) = Fresh(s)
      BY <2>1, <3>1 DEF Inv, Rows, Origin
    <3>3. QED BY <3>2
  <2>2. CASE Token(s) # NoToken
    <3>1. Token(s) \in Tokens /\ row[Token(s)] # "none" /\ Origin(s) = root[Token(s)]
      BY <1>0, <2>2 DEF Inv, Formed, Rows, TypeOK, Origin
    <3>2. QED BY <1>9, <3>1
  <2>3. QED BY <2>1, <2>2
<1>11. Rows'
  <2>1. \A t \in handed' : row'[t] # "none"
    BY <1>0, <1>5 DEF Inv, Rows, TypeOK
  <2>2. ASSUME NEW t \in Tokens, row'[t] # "none"
        PROVE  row'[root'[t]] # "none"
    <3>1. CASE t # f
      BY <1>0, <1>5, <2>2, <3>1 DEF Inv, Rows, TypeOK
    <3>2. CASE t = f /\ Token(r) = NoToken
      BY <1>5, <3>2
    <3>3. CASE t = f /\ Token(r) # NoToken
      <4>1. Token(r) \in Tokens /\ row[Token(r)] # "none"
        BY <1>0, <1>2, <3>3 DEF Inv, Rows, TypeOK
      <4>2. root[Token(r)] \in Tokens /\ row[root[Token(r)]] # "none"
        BY <1>0, <4>1 DEF Inv, Rows, TypeOK
      <4>3. QED BY <1>5, <3>3, <4>2
    <3>4. QED BY <3>1, <3>2, <3>3
  <2>3. ASSUME NEW s \in Requests, request'[s].at \in Exchanging, Token(s)' # NoToken
        PROVE  row'[Token(s)'] = "revoked"
    <3>1. Token(s)' = Token(s) /\ request[s].at \in Exchanging
      BY <1>2, <2>3 DEF Idle, Exchanging
    <3>2. row[Token(s)] = "revoked" /\ Token(s) \in Tokens
      BY <1>0, <2>3, <3>1 DEF Inv, Rows, Formed, TypeOK
    <3>3. QED BY <1>5, <3>1, <3>2
  <2>4. ASSUME NEW s \in Requests, request'[s].at \in NewRowStands
        PROVE  /\ Fresh(s)' \in Tokens \ handed' /\ row'[Fresh(s)'] # "none"
               /\ root'[Fresh(s)'] = Origin(s)' /\ from'[Fresh(s)'] = Token(s)'
    <3>1. CASE s = r
      <4>1. /\ request'[r].at = "storeKey" /\ request'[r].token = request[r].token
            /\ request'[r].fresh = f
        BY <2>4, <3>1 DEF NewRowStands, Idle, Exchanging
      <4>2. root'[f] = Origin(r)'
        BY <1>0, <1>1, <1>2, <1>5, <4>1 DEF Origin, TypeOK
      <4>3. QED BY <1>1, <1>5, <3>1, <4>1, <4>2
    <3>2. CASE s # r
      <4>1. request'[s] = request[s] /\ request[s].at \in NewRowStands
        BY <2>4, <3>2
      <4>2. /\ Fresh(s) \in Tokens \ handed /\ row[Fresh(s)] # "none"
            /\ root[Fresh(s)] = Origin(s) /\ from[Fresh(s)] = Token(s)
        BY <4>1 DEF Inv, Rows
      <4>3. Holding(s)
        BY <4>1 DEF Holding, NewRowStands, At
      <4>4. QED BY <1>5, <1>7, <3>2, <4>1, <4>2, <4>3
    <3>3. QED BY <3>1, <3>2
  <2>5. QED BY <2>1, <2>2, <2>3, <2>4 DEF Rows
<1>12. \A a \in handed : row'[a] = row[a] /\ root'[a] = root[a] /\ from'[a] = from[a]
  BY <1>0, <1>1, <1>5 DEF TypeOK
<1>13. Chains'
  <2>1. OneLivePerLogin'
    BY <1>12 DEF Inv, Chains, OneLivePerLogin
  <2>2. ASSUME NEW s \in Requests, NEW a \in handed', Holding(s)', row'[a] = "live"
        PROVE  root'[a] # Origin(s)'
    <3>1. row[a] = "live" /\ root'[a] = root[a] /\ a \in handed /\ root[a] # f
      BY <1>0, <1>9, <1>12, <2>2 DEF TypeOK
    <3>2. CASE s # r
      BY <1>7, <2>2, <3>1, <3>2 DEF Inv, Chains
    <3>3. CASE s = r
      BY <1>8, <2>2, <3>1, <3>3 DEF Inv, Chains
    <3>4. QED BY <3>2, <3>3
  <2>3. ASSUME NEW s \in Requests, NEW u \in Requests,
               Holding(s)', Holding(u)', Origin(s)' = Origin(u)'
        PROVE  s = u
    BY <1>7, <1>8, <1>10, <2>3 DEF Inv, Chains
  <2>4. QED BY <2>1, <2>2, <2>3 DEF Chains
<1>14. Spent'
  <2>1. ExchangedOnce'
    BY <1>12 DEF Inv, Spent, ExchangedOnce
  <2>2. ASSUME NEW a \in handed', from'[a] # NoToken
        PROVE  /\ row'[from'[a]] = "revoked"
               /\ \A s \in Requests : request'[s].at \in Exchanging => Token(s)' # from'[a]
    <3>1. a \in handed /\ from'[a] = from[a] /\ from[a] \in Tokens
      BY <1>0, <1>12, <2>2 DEF TypeOK
    <3>2. row[from[a]] = "revoked"
          /\ \A s \in Requests : request[s].at \in Exchanging => Token(s) # from[a]
      BY <2>2, <3>1 DEF Inv, Spent
    <3>3. row'[from[a]] = "revoked"
      BY <1>5, <3>1, <3>2
    <3>4. QED BY <1>2, <2>2, <3>1, <3>2, <3>3 DEF Idle
  <2>3. QED BY <2>1, <2>2 DEF Spent
<1>15. Gone'
  BY DEF Inv, Gone, At, Idle
<1>16. QED BY <1>4, <1>6, <1>11, <1>13, <1>14, <1>15 DEF Inv

LEMMA Creating ==
  ASSUME Inv, NEW r \in Requests, NEW f \in Tokens, Create(r, f) \/ CreateFails(r, f)
  PROVE  Inv'
<1>0. TypeOK
  BY DEF Inv
<1>1. request[r].at = "create" /\ row[f] = "none" /\ request[r].at \in Exchanging
  BY DEF Create, CreateFails, At, Exchanging
<1>2. CASE Create(r, f)
  <2>1. [[request[r] EXCEPT !.at = "storeKey"] EXCEPT !.fresh = f] \in Request
    <3>1. [request[r] EXCEPT !.at = "storeKey"] \in Request
      BY <1>0 DEF TypeOK, Request, Places, Exchanging
    <3>2. QED BY <3>1 DEF Request
  <2>2. /\ request' \in [Requests -> Request]
        /\ request'[r] = [[request[r] EXCEPT !.at = "storeKey"] EXCEPT !.fresh = f]
        /\ \A s \in Requests \ {r} : request'[s] = request[s]
    BY <1>0, <1>2, <2>1 DEF Create, TypeOK
  <2>3. /\ request'[r].at = "storeKey" /\ request'[r].token = request[r].token
        /\ request'[r].fresh = f /\ request'[r].late = request[r].late
    BY <1>0, <2>2 DEF TypeOK, Request
  <2>4. QED BY <1>0, <1>1, <1>2, <2>2, <2>3, Inserting DEF Create, TypeOK
<1>3. CASE CreateFails(r, f)
  <2>1. budget' \in Nat
    BY <1>0, <1>3, TroubleType DEF CreateFails
  <2>2. CASE Insert(r, f)
    <3>1. CASE Token(r) = NoToken
      <4>1. Close(r)
        BY <1>3, <3>1 DEF CreateFails, Rejects
      <4>2. QED BY <1>0, <1>1, <1>3, <2>1, <2>2, <4>1, Closing, Inserting DEF CreateFails
    <3>2. CASE Token(r) # NoToken
      <4>1. Goto(r, "release") /\ "release" \in Places
        BY <1>3, <3>2 DEF CreateFails, Rejects, Places, Exchanging
      <4>2. QED BY <1>0, <1>1, <1>3, <2>1, <2>2, <3>2, <4>1, Going, Inserting DEF CreateFails
    <3>3. QED BY <3>1, <3>2
  <2>3. CASE UNCHANGED <<row, from, root>>
    BY <1>0, <1>1, <1>3, <2>1, <2>3, Rejected DEF CreateFails, history, TypeOK
  <2>4. QED BY <1>3, <2>2, <2>3 DEF CreateFails
<1>4. QED BY <1>2, <1>3

LEMMA Answering ==
  ASSUME Inv, NEW r \in Requests, Answer(r)
  PROVE  Inv'
<1>0. TypeOK
  BY DEF Inv
<1>1. request[r].at = "answer" /\ request[r].at \in Exchanging /\ request[r].at \in NewRowStands
  BY DEF Answer, At, Exchanging, NewRowStands
<1> DEFINE f == Fresh(r)
<1>2. /\ f \in Tokens \ handed /\ row[f] # "none"
      /\ root[f] = Origin(r) /\ from[f] = Token(r)
  BY <1>1 DEF Inv, Rows
<1>3. Holding(r)
  BY <1>1 DEF Holding, At
<1>4. handed' = handed \union {f} /\ UNCHANGED <<stored, from, root, loggedOut, budget>>
  BY DEF Answer
<1>5. /\ request' \in [Requests -> Request] /\ request'[r] = Idle
      /\ \A s \in Requests \ {r} : request'[s] = request[s]
  BY <1>0, Closing DEF Answer
<1> HIDE DEF f
<1>6. TypeOK'
  BY <1>0, <1>2, <1>4, <1>5 DEF TypeOK, stored
<1>7. \A s \in Requests : Formed(s)'
  BY <1>4, <1>5 DEF Inv, Formed, Token, Idle, Presented
<1>8. \A s \in Requests : request'[s].at \in Exchanging =>
        s # r /\ request'[s] = request[s] /\ request[s].at \in Exchanging
  BY <1>5 DEF Idle, Exchanging
<1>9. \A s \in Requests : Holding(s)' => s # r /\ Holding(s) /\ Origin(s)' = Origin(s)
  BY <1>4, <1>8 DEF Holding, Origin, Token, Fresh, At
<1>10. Rows'
  <2>1. \A t \in handed' : row'[t] # "none"
    BY <1>2, <1>4 DEF Inv, Rows, stored
  <2>2. \A t \in Tokens : row'[t] # "none" => row'[root'[t]] # "none"
    BY <1>4 DEF Inv, Rows, stored
  <2>3. ASSUME NEW s \in Requests, request'[s].at \in Exchanging, Token(s)' # NoToken
        PROVE  row'[Token(s)'] = "revoked"
    BY <1>4, <1>8, <2>3 DEF Inv, Rows, Token, stored
  <2>4. ASSUME NEW s \in Requests, request'[s].at \in NewRowStands
        PROVE  /\ Fresh(s)' \in Tokens \ handed' /\ row'[Fresh(s)'] # "none"
               /\ root'[Fresh(s)'] = Origin(s)' /\ from'[Fresh(s)'] = Token(s)'
    <3>1. s # r /\ request'[s] = request[s] /\ request[s].at \in NewRowStands
      BY <1>8, <2>4 DEF NewRowStands
    <3>2. /\ Fresh(s) \in Tokens \ handed /\ row[Fresh(s)] # "none"
          /\ root[Fresh(s)] = Origin(s) /\ from[Fresh(s)] = Token(s) /\ Holding(s)
      BY <3>1 DEF Inv, Rows, Holding, NewRowStands, At
    <3>3. Origin(s) # Origin(r)
      BY <1>3, <3>1, <3>2 DEF Inv, Chains
    <3>4. Fresh(s) # f
      BY <1>2, <3>2, <3>3
    <3>5. Origin(s)' = Origin(s) /\ Fresh(s)' = Fresh(s) /\ Token(s)' = Token(s)
      BY <1>4, <3>1 DEF Origin, Fresh, Token
    <3>6. QED BY <1>4, <3>2, <3>4, <3>5 DEF stored
  <2>5. QED BY <2>1, <2>2, <2>3, <2>4 DEF Rows, Token, Fresh
<1>11. Chains'
  <2>1. \A a \in handed : row[a] = "live" => root[a] # root[f]
    BY <1>2, <1>3 DEF Inv, Chains
  <2>2. OneLivePerLogin'
    BY <1>4, <2>1 DEF Inv, Chains, OneLivePerLogin, stored
  <2>3. ASSUME NEW s \in Requests, NEW a \in handed', Holding(s)', row'[a] = "live"
        PROVE  root'[a] # Origin(s)'
    BY <1>2, <1>3, <1>4, <1>9, <2>3 DEF Inv, Chains, stored
  <2>4. \A s, u \in Requests : Holding(s)' /\ Holding(u)' /\ Origin(s)' = Origin(u)' => s = u
    BY <1>9 DEF Inv, Chains
  <2>5. QED BY <2>2, <2>3, <2>4 DEF Chains
<1>12. Spent'
  <2>1. \A a \in handed : from[f] # NoToken => from[a] # from[f]
    BY <1>1, <1>2 DEF Inv, Spent
  <2>2. ExchangedOnce'
    BY <1>4, <2>1 DEF Inv, Spent, ExchangedOnce
  <2>3. ASSUME NEW a \in handed', from'[a] # NoToken
        PROVE  /\ row'[from'[a]] = "revoked"
               /\ \A s \in Requests : request'[s].at \in Exchanging => Token(s)' # from'[a]
    <3>1. CASE a = f
      <4>1. from'[a] = Token(r) /\ Token(r) # NoToken
        BY <1>2, <1>4, <2>3, <3>1
      <4>2. row[Token(r)] = "revoked"
        BY <1>1, <4>1 DEF Inv, Rows
      <4>3. \A s \in Requests \ {r} : request[s].at \in Exchanging => Token(s) # Token(r)
        BY <1>1, <4>1, OneExchangeEach
      <4>4. QED BY <1>4, <1>8, <4>1, <4>2, <4>3 DEF Token, stored
    <3>2. CASE a # f
      BY <1>4, <1>8, <2>3, <3>2 DEF Inv, Spent, Token, stored
    <3>3. QED BY <3>1, <3>2
  <2>4. QED BY <2>2, <2>3 DEF Spent, Token
<1>13. Gone'
  BY <1>4, <1>5 DEF Inv, Gone, At, Token, Idle, stored
<1>14. QED BY <1>6, <1>7, <1>10, <1>11, <1>12, <1>13 DEF Inv

-----------------------------------------------------------------------------

LEMMA Stuttering == Inv /\ UNCHANGED vars => Inv'
<1> SUFFICES ASSUME Inv, UNCHANGED vars PROVE Inv'
  OBVIOUS
<1>1. TypeOK' /\ Quiet
  BY DEF Inv, TypeOK, Quiet, vars, stored, history
<1>2. QED BY <1>1, QuietStep

LEMMA Stepping == Inv /\ [Next]_vars => Inv'
<1> SUFFICES ASSUME Inv, [Next]_vars PROVE Inv'
  OBVIOUS
<1>1. ASSUME NEW r \in Requests, Issue(r) PROVE Inv'
  BY <1>1, Creating, QuietIssue DEF Issue
<1>2. ASSUME NEW r \in Requests, Exchange(r) PROVE Inv'
  BY <1>2, QuietExchange, Claiming, Releasing, Answering DEF Exchange
<1>3. ASSUME NEW r \in Requests,
             BeginLogin(r) \/ BeginEndAll(r)
               \/ \E t \in Tokens : BeginRefresh(r, t) \/ BeginLogout(r, t)
      PROVE  Inv'
  BY <1>3, Beginning
<1>4. QED BY <1>1, <1>2, <1>3, Ending, BreakingOff, Stuttering DEF Next

THEOREM Invariance == Spec => []Inv
BY Initially, Stepping, PTL DEF Spec

\* Every state of the sessions is well formed.
THEOREM TypeCorrect == Spec => []TypeOK
<1>1. Inv => TypeOK
  BY DEF Inv
<1>2. QED BY <1>1, Invariance, PTL

\* However many requests refresh, fail, break off, log out or end all sessions
\* at once, a login has at most one live token in the hands of clients.
THEOREM LoginsNeverFork == Spec => []OneLivePerLogin
<1>1. Inv => OneLivePerLogin
  BY DEF Inv, Chains
<1>2. QED BY <1>1, Invariance, PTL

\* A token is exchanged for at most one other, even after failed exchanges.
THEOREM TokensAreExchangedOnce == Spec => []ExchangedOnce
<1>1. Inv => ExchangedOnce
  BY DEF Inv, Spent
<1>2. QED BY <1>1, Invariance, PTL

\* A token that was logged out is not exchanged by any later request.
THEOREM LogoutsHold == Spec => []LoggedOutStaysOut
<1>1. Inv => LoggedOutStaysOut
  BY DEF Inv, Formed, LoggedOutStaysOut
<1>2. QED BY <1>1, Invariance, PTL
=============================================================================
