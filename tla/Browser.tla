------------------------------- MODULE Browser -------------------------------
(***************************************************************************)
(* The session of one user in one browser (apps/web): its cookies, shared   *)
(* by the tabs; the route handlers of the web server, which hold the tokens *)
(* in HttpOnly cookies (app/api/v1); the middleware that decides which page *)
(* is shown; and in every tab the client that refreshes after a 401         *)
(* (app/lib/api-client.ts).  A request carries the cookies of the time it   *)
(* is sent, is served, and its answer arrives: three steps.  The API's own  *)
(* side of a session is in Sessions; here an exchange is one step.          *)
(***************************************************************************)
EXTENDS Integers, FiniteSets

CONSTANTS
  Tabs,
  Reqs,         \* slots for requests under way
  BrTokens,     \* how many sessions the API may issue
  BrBounds      \* the scenarios: how often each thing may happen

BrEvents == {"logins", "calls", "refreshes", "logouts", "switches", "expiries", "faults", "opens", "revokes"}

ASSUME BrowserAssumption == BrTokens \in Nat \ {0} /\ BrBounds \subseteq [BrEvents -> Nat]

VARIABLES
  super,       \* is the user the platform's super owner
  granted,     \* the API's sessions: state and workspace
  cookie,      \* the browser's cookies
  tab,         \* the page of every tab, and the call that waits for a refresh
  req,         \* the requests under way
  signedIn,    \* has the user signed in, and not out since
  excuse,      \* what happened that ends a session or undoes a logout
  expelled,    \* was a tab sent to the login page while its session was alive
  brLeft

brVars == <<super, granted, cookie, tab, req, signedIn, excuse, expelled, brLeft>>

Issued == 1..BrTokens
Homes == {"none", "A", "B"}          \* no workspace, or one of two
Pages == {"login", "select", "app", "super"}
Pending == {"none", "call", "strict", "switch"}
ReqKinds == {"call", "strict", "switch", "refresh", "login", "logout"}
NoReq == <<>>
NoCookies == [access |-> 0, refresh |-> 0, marked |-> FALSE, home |-> "none"]

BrTypeOK ==
  /\ super \in BOOLEAN /\ signedIn \in BOOLEAN /\ expelled \in BOOLEAN
  /\ granted \in [Issued -> [state : {"unused", "live", "spent"}, home : Homes]]
  /\ cookie \in [access : 0..BrTokens, refresh : 0..BrTokens, marked : BOOLEAN, home : Homes]
  /\ tab \in [Tabs -> [page : Pages, waits : Pending]]
  /\ \A r \in Reqs : req[r] # NoReq =>
       req[r] \in [kind : ReqKinds, tab : Tabs \union {"gone"}, pc : {"sent", "ok", "refused", "error"},
                   carried : [access : 0..BrTokens, refresh : 0..BrTokens, marked : BOOLEAN, home : Homes],
                   token : 0..BrTokens, again : BOOLEAN]
  /\ excuse \subseteq {"revoked", "left", "overlap", "lost", "crossed"}
  /\ brLeft \in [BrEvents -> Nat]

BrInit ==
  /\ super \in BOOLEAN
  /\ granted = [n \in Issued |-> [state |-> "unused", home |-> "none"]]
  /\ cookie = NoCookies
  /\ tab = [t \in Tabs |-> [page |-> "login", waits |-> "none"]]
  /\ req = [r \in Reqs |-> NoReq]
  /\ signedIn = FALSE /\ excuse = {} /\ expelled = FALSE
  /\ brLeft \in BrBounds

BrUses(e) == brLeft[e] > 0 /\ brLeft' = [brLeft EXCEPT ![e] = @ - 1]
Alive(n) == n # 0 /\ granted[n].state = "live"
Underway(r) == req[r] # NoReq
Refreshing(t) == \E r \in Reqs : Underway(r) /\ req[r].kind = "refresh" /\ req[r].tab = t
Sent(kind, t, again) ==
  [kind |-> kind, tab |-> t, pc |-> "sent", carried |-> cookie, token |-> 0, again |-> again]

-----------------------------------------------------------------------------
(* Which page the middleware shows. *)

\* The access token if there is one, else, for a browser that can refresh, the markers.
Known(c) == c.access # 0 \/ (c.refresh # 0 /\ (c.marked \/ c.home # "none"))
HomeKnown(c) == IF c.access # 0 /\ granted[c.access].home # "none" THEN granted[c.access].home ELSE c.home
Routed(page, c) ==
  IF (page = "app" /\ ~Known(c)) \/ (page = "super" /\ ~(Known(c) /\ super)) THEN "login"
  ELSE IF page = "app" /\ HomeKnown(c) = "none" THEN "select"
  ELSE page

\* A page that is loaded afresh leaves its requests unanswered.
Leaves(t, reqs) ==
  [r \in Reqs |-> IF reqs[r] # NoReq /\ reqs[r].tab = t THEN [reqs[r] EXCEPT !.tab = "gone"] ELSE reqs[r]]

OpenPage(t, page) ==
  /\ BrUses("opens") /\ tab[t].waits = "none"
  /\ tab' = [tab EXCEPT ![t].page = Routed(page, cookie)]
  /\ req' = Leaves(t, req)
  /\ UNCHANGED <<super, granted, cookie, signedIn, excuse, expelled>>

-----------------------------------------------------------------------------
(* Sending. *)

BeginSignIn(t, r) ==
  /\ tab[t].page = "login" /\ ~Underway(r) /\ ~signedIn /\ BrUses("logins")
  /\ \A q \in Reqs : Underway(q) => req[q].tab # t
  /\ req' = [req EXCEPT ![r] = Sent("login", t, FALSE)]
  /\ UNCHANGED <<super, granted, cookie, tab, signedIn, excuse, expelled>>

\* Any call of the API; the callers of authorizedFetch are strict, the switch of the
\* workspace is offered on its own page.
BeginCall(t, r, kind) ==
  /\ ~Underway(r) /\ tab[t].waits = "none"
  /\ \A q \in Reqs : Underway(q) /\ req[q].tab = t => req[q].kind = "refresh"
  /\ IF kind = "switch" THEN tab[t].page = "select" /\ BrUses("switches")
     ELSE tab[t].page # "login" /\ BrUses("calls")
  /\ req' = [req EXCEPT ![r] = Sent(kind, t, FALSE)]
  /\ UNCHANGED <<super, granted, cookie, tab, signedIn, excuse, expelled>>

Startable(t) == ~Refreshing(t)

\* Before the access token expires, when a page of the application is shown.
ProactiveRefresh(t, r) ==
  /\ tab[t].page = "app" /\ ~Underway(r) /\ Startable(t) /\ BrUses("refreshes")
  /\ req' = [req EXCEPT ![r] = Sent("refresh", t, FALSE)]
  /\ UNCHANGED <<super, granted, cookie, tab, signedIn, excuse, expelled>>

PressLogout(t, r) ==
  /\ tab[t].page = "app" /\ ~Underway(r) /\ BrUses("logouts")
  /\ req' = [req EXCEPT ![r] = Sent("logout", t, FALSE)]
  /\ UNCHANGED <<super, granted, cookie, tab, signedIn, excuse, expelled>>

-----------------------------------------------------------------------------
(* Serving. *)

Answers(r, status, n) == req' = [req EXCEPT ![r].pc = status, ![r].token = n]
Unused(n) == granted[n].state = "unused" /\ \A m \in Issued : m < n => granted[m].state # "unused"
Overlaps(r) ==
  \/ req[r].carried.refresh # cookie.refresh
  \/ \E q \in Reqs : /\ Underway(q) /\ req[q].kind = "refresh" /\ req[q].tab # req[r].tab
                   /\ req[q].carried.refresh = req[r].carried.refresh

\* A refresh token is exchanged once.
ServeRefresh(r) ==
  /\ Underway(r) /\ req[r].kind = "refresh" /\ req[r].pc = "sent"
  /\ LET old == req[r].carried.refresh IN
     \/ /\ ~Alive(old)
        /\ Answers(r, "refused", 0)
        /\ UNCHANGED granted
     \/ /\ Alive(old)
        /\ \E n \in Issued :
             /\ Unused(n)
             /\ granted' = [granted EXCEPT ![old].state = "spent", ![n] = [state |-> "live", home |-> granted[old].home]]
             /\ Answers(r, "ok", n)
  /\ excuse' = excuse \union (IF Overlaps(r) THEN {"overlap"} ELSE {}) \union (IF req[r].tab = "gone" THEN {"lost"} ELSE {})
  /\ UNCHANGED <<super, cookie, tab, signedIn, expelled, brLeft>>

\* The session that is switched from stays alive.
ServeCall(r) ==
  /\ Underway(r) /\ req[r].kind \in {"call", "strict", "switch"} /\ req[r].pc = "sent"
  /\ LET admitted == req[r].carried.access # 0 IN
     IF admitted /\ req[r].kind = "switch"
     THEN \E n \in Issued, h \in Homes \ {"none"} :
            /\ Unused(n)
            /\ granted' = [granted EXCEPT ![n] = [state |-> "live", home |-> h]]
            /\ Answers(r, "ok", n)
     ELSE /\ Answers(r, IF admitted THEN "ok" ELSE "refused", 0)
          /\ UNCHANGED granted
  /\ UNCHANGED <<super, cookie, tab, signedIn, excuse, expelled, brLeft>>

ServeLogin(r) ==
  /\ Underway(r) /\ req[r].kind = "login" /\ req[r].pc = "sent"
  /\ \E n \in Issued :
       /\ Unused(n)
       /\ granted' = [granted EXCEPT ![n] = [state |-> "live", home |-> IF super THEN "none" ELSE "A"]]
       /\ Answers(r, "ok", n)
  /\ UNCHANGED <<super, cookie, tab, signedIn, excuse, expelled, brLeft>>

\* The answer clears the cookies whatever the API says.
ServeLogout(r) ==
  /\ Underway(r) /\ req[r].kind = "logout" /\ req[r].pc = "sent"
  /\ LET old == req[r].carried.refresh IN
     \/ granted' = IF Alive(old) THEN [granted EXCEPT ![old].state = "spent"] ELSE granted
     \/ UNCHANGED granted
  /\ Answers(r, "ok", 0)
  /\ excuse' = excuse \union {"left"}
  /\ UNCHANGED <<super, cookie, tab, signedIn, expelled, brLeft>>

\* The API or the web server fails before it acts, or the answer is lost.
ServeFails(r) ==
  /\ Underway(r) /\ req[r].pc \in {"sent", "ok"} /\ BrUses("faults")
  /\ Answers(r, "error", req[r].token)
  /\ excuse' = IF req[r].kind = "refresh" /\ req[r].pc = "ok" THEN excuse \union {"lost"} ELSE excuse
  /\ UNCHANGED <<super, granted, cookie, tab, signedIn, expelled>>

-----------------------------------------------------------------------------
(* Answers. *)

Arrived(r, kind, status) == Underway(r) /\ req[r].kind = kind /\ req[r].pc = status /\ req[r].tab # "gone"
Cleared(r) == [req EXCEPT ![r] = NoReq]

\* An answer to a page that is gone.
Dropped(r) ==
  /\ Underway(r) /\ req[r].tab = "gone" /\ req[r].pc # "sent"
  /\ req' = Cleared(r)
  /\ excuse' = IF req[r].kind = "refresh" /\ req[r].pc = "ok" THEN excuse \union {"lost"} ELSE excuse
  /\ UNCHANGED <<super, granted, cookie, tab, signedIn, expelled, brLeft>>

Cookies(n, home) == [access |-> n, refresh |-> n, marked |-> TRUE, home |-> home]
Unmarked(c) == [c EXCEPT !.marked = FALSE, !.home = "none"]

\* handleLogoutRedirect: the markers go, the page is loaded afresh.
Expel(t, c, reqs) ==
  /\ cookie' = Unmarked(c)
  /\ tab' = [tab EXCEPT ![t] = [page |-> "login", waits |-> "none"]]
  /\ req' = Leaves(t, reqs)

\* Whatever is still on its way belongs to an earlier session.
SignedIn(r) ==
  /\ Arrived(r, "login", "ok")
  /\ cookie' = Cookies(req[r].token, granted[req[r].token].home)
  /\ tab' = [tab EXCEPT ![req[r].tab].page = Routed(IF super THEN "super" ELSE "select", cookie')]
  /\ req' = Cleared(r)
  /\ signedIn' = TRUE
  /\ excuse' = IF \E q \in Reqs \ {r} : Underway(q) THEN excuse \union {"crossed"}
               ELSE IF Alive(req[r].token) THEN {} ELSE excuse
  /\ UNCHANGED <<super, granted, expelled, brLeft>>

SignInFailed(r) ==
  /\ Arrived(r, "login", "error")
  /\ req' = Cleared(r)
  /\ UNCHANGED <<super, granted, cookie, tab, signedIn, excuse, expelled, brLeft>>

\* Answers that the caller takes; a super owner does not stay on the page of workspaces.
CallAnswered(r) ==
  /\ \E kind \in {"call", "strict"}, status \in {"ok", "error"} : Arrived(r, kind, status)
  /\ LET t == req[r].tab IN
     tab' = IF super /\ tab[t].page = "select" /\ req[r].pc = "ok"
            THEN [tab EXCEPT ![t].page = Routed("super", cookie)] ELSE tab
  /\ req' = Cleared(r)
  /\ UNCHANGED <<super, granted, cookie, signedIn, excuse, expelled, brLeft>>

Switched(r) ==
  /\ Arrived(r, "switch", "ok")
  /\ cookie' = Cookies(req[r].token, granted[req[r].token].home)
  /\ tab' = [tab EXCEPT ![req[r].tab].page = Routed("app", cookie')]
  /\ req' = Cleared(r)
  /\ UNCHANGED <<super, granted, signedIn, excuse, expelled, brLeft>>

SwitchFailed(r) ==
  /\ Arrived(r, "switch", "error")
  /\ req' = Cleared(r)
  /\ UNCHANGED <<super, granted, cookie, tab, signedIn, excuse, expelled, brLeft>>

\* A first 401 waits for a refresh, the tab's own if there is one.
CallRefused(r) ==
  /\ \E kind \in {"call", "strict", "switch"} : Arrived(r, kind, "refused")
  /\ ~req[r].again
  /\ LET t == req[r].tab IN
     /\ tab' = [tab EXCEPT ![t].waits = req[r].kind]
     /\ req' = [req EXCEPT ![r] = IF Startable(t) THEN Sent("refresh", t, FALSE) ELSE NoReq]
  /\ UNCHANGED <<super, granted, cookie, signedIn, excuse, expelled, brLeft>>

\* A second one is an error, for authorizedFetch the end of the session.
CallRefusedAgain(r) ==
  /\ \E kind \in {"call", "strict", "switch"} : Arrived(r, kind, "refused")
  /\ req[r].again
  /\ IF req[r].kind = "strict" THEN Expel(req[r].tab, cookie, Cleared(r))
     ELSE req' = Cleared(r) /\ UNCHANGED <<cookie, tab>>
  /\ UNCHANGED <<super, granted, signedIn, excuse, expelled, brLeft>>

\* The answer sets the cookies, with the markers that the request carried; the call that
\* waited is sent again.
Refreshed(r) ==
  /\ Arrived(r, "refresh", "ok")
  /\ LET t == req[r].tab IN
     /\ cookie' = Cookies(req[r].token, req[r].carried.home)
     /\ req' = [req EXCEPT ![r] = IF tab[t].waits = "none" THEN NoReq
                                  ELSE [Sent(tab[t].waits, t, TRUE) EXCEPT !.carried = cookie']]
     /\ tab' = [tab EXCEPT ![t].waits = "none"]
  /\ UNCHANGED <<super, granted, signedIn, excuse, expelled, brLeft>>

\* A refusal clears the cookies unless none was sent; it and any other failure expel the
\* tab whose call waited.
RefreshFailed(r) ==
  /\ \E status \in {"refused", "error"} : Arrived(r, "refresh", status)
  /\ LET t == req[r].tab
         left == IF req[r].pc = "refused" /\ req[r].carried.refresh # 0 THEN NoCookies ELSE cookie IN
     IF tab[t].waits = "none"
     THEN cookie' = left /\ req' = Cleared(r) /\ UNCHANGED <<tab, expelled>>
     ELSE Expel(t, left, Cleared(r)) /\ expelled' = (expelled \/ Alive(left.refresh))
  /\ UNCHANGED <<super, granted, signedIn, excuse, brLeft>>

\* Mutant: the cookie of the refresh token stays.
ClearedButRefresh == [NoCookies EXCEPT !.refresh = cookie.refresh]
ClearedAll == NoCookies

\* Cleared, unless the web server failed; the tab goes to the login page in any case.
SignedOut(r) ==
  /\ Arrived(r, "logout", "ok") \/ Arrived(r, "logout", "error")
  /\ Expel(req[r].tab, IF req[r].pc = "ok" THEN ClearedAll ELSE cookie, Cleared(r))
  /\ signedIn' = FALSE
  /\ excuse' = excuse \union (IF req[r].pc = "error" \/ \E q \in Reqs \ {r} : Underway(q) THEN {"crossed"} ELSE {})
  /\ UNCHANGED <<super, granted, expelled, brLeft>>

-----------------------------------------------------------------------------

\* The access token and its cookie last a quarter of an hour.
AccessExpires ==
  /\ cookie.access # 0 /\ BrUses("expiries")
  /\ cookie' = [cookie EXCEPT !.access = 0]
  /\ UNCHANGED <<super, granted, tab, req, signedIn, excuse, expelled>>

\* All sessions of the user end: a new password, a removed membership.
SessionsRevoked ==
  /\ BrUses("revokes")
  /\ granted' = [n \in Issued |-> IF granted[n].state = "live" THEN [granted[n] EXCEPT !.state = "spent"] ELSE granted[n]]
  /\ excuse' = excuse \union {"revoked"}
  /\ UNCHANGED <<super, cookie, tab, req, signedIn, expelled>>

BrNext ==
  \/ AccessExpires \/ SessionsRevoked
  \/ \E t \in Tabs :
       \/ \E page \in Pages : OpenPage(t, page)
       \/ \E r \in Reqs :
            \/ BeginSignIn(t, r) \/ ProactiveRefresh(t, r) \/ PressLogout(t, r)
            \/ \E kind \in {"call", "strict", "switch"} : BeginCall(t, r, kind)
  \/ \E r \in Reqs :
       \/ ServeRefresh(r) \/ ServeCall(r) \/ ServeLogin(r) \/ ServeLogout(r) \/ ServeFails(r) \/ Dropped(r)
       \/ SignedIn(r) \/ SignInFailed(r) \/ CallAnswered(r) \/ Switched(r) \/ SwitchFailed(r)
       \/ CallRefused(r) \/ CallRefusedAgain(r) \/ Refreshed(r) \/ RefreshFailed(r) \/ SignedOut(r)

BrSpec == BrInit /\ [][BrNext]_brVars

-----------------------------------------------------------------------------
(* Properties. *)

\* A user who signed in keeps a session that can be refreshed, or its successor is on
\* the way, until he signs out, the sessions are revoked, two tabs exchange the same token, the answer
\* of an exchange is lost, or an answer to an earlier session was still on its way when he signed in.
StaysSignedIn ==
  signedIn /\ excuse = {} =>
    \/ Alive(cookie.refresh)
    \/ \E r \in Reqs : Underway(r) /\ req[r].kind = "refresh" /\ req[r].pc = "ok" /\ req[r].carried.refresh = cookie.refresh

\* After a logout the browser holds no session, unless another answer was on its way then or
\* at the sign-in.
LogoutHolds == ~signedIn /\ "crossed" \notin excuse => cookie.refresh = 0 /\ cookie.access = 0
=============================================================================
