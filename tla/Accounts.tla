------------------------------ MODULE Accounts ------------------------------
(***************************************************************************)
(* One account: signing in with a password and, when enrolled, a code of   *)
(* an authenticator (apps/api/src/auth/auth.service.ts); the lockout after *)
(* failed attempts (login-attempt.service.ts); the reset of a forgotten    *)
(* password by a mailed link (password-reset.service.ts); changing the     *)
(* password; enrolling and removing the authenticator.  Every request is a *)
(* sequence of calls of the database and of Redis, and requests overlap.   *)
(* A session is its refresh token's row and its access token.  All that    *)
(* opens one is here: signing in, refreshing, changing the workspace.  The *)
(* sessions in Redis, logouts and lapses are in Sessions.                  *)
(***************************************************************************)
EXTENDS Integers, FiniteSets

CONSTANTS
  AcRequests,       \* slots for requests under way
  MaxFailed,      \* failed attempts that lock the account
  AcBounds        \* the scenarios: how many sign-ins, links, changes... there may be

AcEvents == {"logins", "refreshes", "switches", "links", "resets", "changes", "codes", "faults"}
ASSUME AccountsAssumption ==
  /\ IsFiniteSet(AcRequests) /\ MaxFailed \in Nat \ {0}
  /\ AcBounds \subseteq [AcEvents -> Nat]

VARIABLES
  password,   \* counts the passwords the account has had
  secret,     \* the authenticator: 0 for none, and is it enrolled
  failures,   \* the counter of failed attempts, whether it expires, and how many requests
              \* could not read it
  sessions,   \* the rows: the password of the sign-in they go back to, are they live, does the
              \* access token work, and did they outlive the end of all sessions (history); how
              \* many were made, how often all were ended
  links,      \* the reset links: those that work, the one on record, those mailed, how often
              \* each was used, and were two asked for at once
  ac,         \* the requests under way
  halted,     \* what was left undone by a request that broke off
  acLeft

acVars == <<password, secret, failures, sessions, links, ac, halted, acLeft>>

AcKinds == {"login", "refresh", "switch", "link", "reset", "change", "setup", "enroll", "remove"}
AcSteps == {"locked", "compare", "count", "expire", "clear", "issue", "release",
            "unlink", "link", "record", "mail", "claim", "forget", "write", "revoke", "unlock"}
\* seen: the password, secret or link that the request has read; mine: its own link, or the
\* session it exchanges; began: how often all sessions had been ended when it read that.
AcRequest == [kind : AcKinds, pc : AcSteps, seen : Nat, mine : Nat, on : BOOLEAN, began : Nat]
None == <<>>
AcSession == [n : Nat, password : Nat, live : BOOLEAN, access : BOOLEAN, late : BOOLEAN]

AcTypeOK ==
  /\ password \in Nat /\ secret \in [n : Nat, on : BOOLEAN]
  /\ failures \in [count : Nat, expires : BOOLEAN, unread : Nat]
  /\ sessions \in [rows : SUBSET AcSession, made : Nat, ends : Nat]
  /\ links \in [alive : SUBSET Nat, latest : Nat, mailed : SUBSET Nat, used : SUBSET Nat,
                again : BOOLEAN, crossed : BOOLEAN, issued : Nat]
  /\ \A r \in AcRequests : ac[r] # None => ac[r] \in AcRequest
  /\ halted \subseteq {"expire", "revoke", "link"}
  /\ acLeft \in [AcEvents -> Nat]

AcInit ==
  /\ password = 1 /\ secret = [n |-> 0, on |-> FALSE]
  /\ failures = [count |-> 0, expires |-> FALSE, unread |-> 0]
  /\ sessions = [rows |-> {}, made |-> 0, ends |-> 0]
  /\ links = [alive |-> {}, latest |-> 0, mailed |-> {}, used |-> {}, again |-> FALSE, crossed |-> FALSE,
              issued |-> 0]
  /\ ac = [r \in AcRequests |-> None]
  /\ halted = {}
  /\ acLeft \in AcBounds

AcUses(e) == acLeft[e] > 0 /\ acLeft' = [acLeft EXCEPT ![e] = @ - 1]
Opens(r, kind, step, seen, mine, on) ==
  /\ ac[r] = None
  /\ ac' = [ac EXCEPT ![r] = [kind |-> kind, pc |-> step, seen |-> seen, mine |-> mine, on |-> on,
                                   began |-> sessions.ends]]
AcAt(r, kind, step) == ac[r] # None /\ ac[r].kind = kind /\ ac[r].pc = step
Then(r, step) == ac' = [ac EXCEPT ![r].pc = step]
NoFailures == [failures EXCEPT !.count = 0, !.expires = FALSE]
Over(r) == ac' = [ac EXCEPT ![r] = None]
AcFault == AcUses("faults")

-----------------------------------------------------------------------------
(* Signing in. *)

\* The account is read once; the password that is compared is the one read here.
StartLogin(r) ==
  /\ AcUses("logins")
  /\ Opens(r, "login", "locked", password, secret.n, secret.on)
  /\ UNCHANGED <<password, secret, failures, sessions, links, halted>>

Locked(count) == count >= MaxFailed

\* A counter that cannot be read does not lock.
AssertNotLocked(r) ==
  /\ AcAt(r, "login", "locked")
  /\ \/ /\ IF Locked(failures.count) THEN Over(r) ELSE Then(r, "compare")
        /\ UNCHANGED <<failures, acLeft>>
     \/ Then(r, "compare") /\ AcFault /\ failures' = [failures EXCEPT !.unread = @ + 1]
  /\ UNCHANGED <<password, secret, sessions, links, halted>>

\* A wrong password or code is counted; a missing code ends the request.
Compare(r) ==
  /\ AcAt(r, "login", "compare")
  /\ \/ Then(r, "count")
     \/ ac[r].on /\ Over(r)
     \/ Then(r, "clear")
  /\ UNCHANGED <<password, secret, failures, sessions, links, halted, acLeft>>

First(count) == count = 1

RecordFailure(r) ==
  /\ AcAt(r, "login", "count")
  /\ \/ /\ failures' = [failures EXCEPT !.count = @ + 1]
        /\ IF First(failures.count + 1) THEN Then(r, "expire") ELSE Over(r)
        /\ UNCHANGED acLeft
     \/ AcFault /\ Over(r) /\ UNCHANGED failures
  /\ UNCHANGED <<password, secret, sessions, links, halted>>

ExpireLater(r) ==
  /\ AcAt(r, "login", "expire")
  /\ failures' = [failures EXCEPT !.expires = failures.count > 0]
  /\ Over(r)
  /\ UNCHANGED <<password, secret, sessions, links, halted, acLeft>>

FailuresExpire ==
  /\ failures.expires /\ failures' = NoFailures
  /\ UNCHANGED <<password, secret, sessions, links, ac, halted, acLeft>>

ClearFailures(r) ==
  /\ AcAt(r, "login", "clear")
  /\ failures' = NoFailures
  /\ Then(r, "issue")
  /\ UNCHANGED <<password, secret, sessions, links, halted, acLeft>>

-----------------------------------------------------------------------------
(* Opening a session: by a sign-in, for an older one, for another workspace. *)

\* A refresh token is presented; one whose row is not live any more ends all sessions.
StartRefresh(r, s) ==
  /\ s \in sessions.rows /\ AcUses("refreshes")
  /\ Opens(r, "refresh", IF s.live THEN "claim" ELSE "revoke", s.password, s.n, s.late)
  /\ UNCHANGED <<password, secret, failures, sessions, links, halted>>

\* Mutant: the row that was read a moment ago decides.
ExchangeableAsRead(s) == TRUE
Exchangeable(s) == s.live

\* The conditional update of the row; whoever changes none is turned away.
ClaimSession(r) ==
  /\ AcAt(r, "refresh", "claim")
  /\ \E s \in sessions.rows :
       /\ s.n = ac[r].mine
       /\ IF Exchangeable(s)
          THEN /\ sessions' = [sessions EXCEPT !.rows = (@ \ {s}) \union {[s EXCEPT !.live = FALSE]}]
               /\ ac' = [ac EXCEPT ![r].pc = "issue", ![r].on = s.late, ![r].began = sessions.ends]
          ELSE Over(r) /\ UNCHANGED sessions
  /\ UNCHANGED <<password, secret, failures, links, halted, acLeft>>

\* An access token is looked at by itself: no row and no session is asked for.
StartSwitch(r, s) ==
  /\ s \in sessions.rows /\ s.access /\ AcUses("switches")
  /\ Opens(r, "switch", "issue", s.password, 0, FALSE)
  /\ UNCHANGED <<password, secret, failures, sessions, links, halted>>

AccessLapses(s) ==
  /\ s \in sessions.rows /\ s.access
  /\ sessions' = [sessions EXCEPT !.rows = (@ \ {s}) \union {[s EXCEPT !.access = FALSE]}]
  /\ UNCHANGED <<password, secret, failures, links, ac, halted, acLeft>>

\* It opens, or brings back, a session of an older password: it was past its checks when all
\* sessions were ended, or exchanges one that had outlived that, or came by an access token.
Outlives(x) ==
  x.seen # password /\ (x.kind = "switch" \/ (x.kind = "refresh" /\ x.on) \/ x.began # sessions.ends)

Issues(r) == \E kind \in {"login", "refresh", "switch"} : AcAt(r, kind, "issue")
Opened(x) ==
  [sessions EXCEPT !.made = @ + 1,
                   !.rows = @ \union {[n |-> sessions.made + 1, password |-> x.seen, live |-> TRUE,
                                      access |-> TRUE, late |-> Outlives(x)]}]

IssueTokens(r) ==
  /\ Issues(r)
  /\ sessions' = Opened(ac[r])
  /\ Over(r)
  /\ UNCHANGED <<password, secret, failures, links, halted, acLeft>>

\* Issuing fails, before or after the new row is there: a refresh gives its token back ...
IssueFails(r) ==
  /\ Issues(r) /\ AcFault
  /\ sessions' \in {sessions, Opened(ac[r])}
  /\ IF ac[r].kind = "refresh" THEN Then(r, "release") ELSE Over(r)
  /\ UNCHANGED <<password, secret, failures, links, halted>>

\* ... whatever its row says by now.
ReleaseToken(r) ==
  /\ AcAt(r, "refresh", "release")
  /\ sessions' = [sessions EXCEPT !.rows =
       {IF s.n = ac[r].mine THEN [s EXCEPT !.live = TRUE, !.late = @ \/ Outlives(ac[r])] ELSE s : s \in @}]
  /\ Over(r)
  /\ UNCHANGED <<password, secret, failures, links, halted, acLeft>>

-----------------------------------------------------------------------------
(* A forgotten password. *)

\* The link on record is read ...
RequestReset(r) ==
  /\ AcUses("links")
  /\ Opens(r, "link", IF links.latest = 0 THEN "link" ELSE "unlink", links.latest, links.issued + 1, FALSE)
  /\ links' = [links EXCEPT !.issued = @ + 1,
                            !.crossed = @ \/ \E q \in AcRequests : ac[q] # None /\ ac[q].kind = "link"]
  /\ UNCHANGED <<password, secret, failures, sessions, halted>>

Without(alive, link) == alive \ {link}

\* ... and ended, ...
DropPrevious(r) ==
  /\ AcAt(r, "link", "unlink")
  /\ links' = [links EXCEPT !.alive = Without(@, ac[r].seen)]
  /\ Then(r, "link")
  /\ UNCHANGED <<password, secret, failures, sessions, halted, acLeft>>

\* ... the new one is stored, ...
StoreLink(r) ==
  /\ AcAt(r, "link", "link")
  /\ links' = [links EXCEPT !.alive = @ \union {ac[r].mine}]
  /\ Then(r, "record")
  /\ UNCHANGED <<password, secret, failures, sessions, halted, acLeft>>

\* ... put on record ...
RecordLink(r) ==
  /\ AcAt(r, "link", "record")
  /\ links' = [links EXCEPT !.latest = ac[r].mine]
  /\ Then(r, "mail")
  /\ UNCHANGED <<password, secret, failures, sessions, halted, acLeft>>

\* ... and mailed, if the mail gets through.
MailLink(r) ==
  /\ AcAt(r, "link", "mail")
  /\ \/ links' = [links EXCEPT !.mailed = @ \union {ac[r].mine}] /\ UNCHANGED acLeft
     \/ AcFault /\ UNCHANGED links
  /\ Over(r)
  /\ UNCHANGED <<password, secret, failures, sessions, halted>>

\* A link is opened while it works.
BeginReset(r, link) ==
  /\ link \in links.mailed \intersect links.alive /\ AcUses("resets")
  /\ Opens(r, "reset", "claim", link, 0, FALSE)
  /\ UNCHANGED <<password, secret, failures, sessions, links, halted>>

Claimed(link) == link \in links.alive

\* Only one request removes it.
ClaimLink(r) ==
  /\ AcAt(r, "reset", "claim")
  /\ IF Claimed(ac[r].seen)
     THEN /\ links' = [links EXCEPT !.alive = @ \ {ac[r].seen}, !.again = @ \/ ac[r].seen \in links.used,
                                    !.used = @ \union {ac[r].seen}]
          /\ Then(r, "forget")
     ELSE Over(r) /\ UNCHANGED links
  /\ UNCHANGED <<password, secret, failures, sessions, halted, acLeft>>

\* The record goes, even if a newer link is on it.
ForgetLink(r) ==
  /\ AcAt(r, "reset", "forget")
  /\ links' = [links EXCEPT !.latest = 0, !.crossed = @ \/ links.latest # ac[r].seen]
  /\ Then(r, "write")
  /\ UNCHANGED <<password, secret, failures, sessions, halted, acLeft>>

\* The keys have the same time to live, and the record is written last.
LinkExpires(link) ==
  /\ link \in links.alive
  /\ links' = [links EXCEPT !.alive = Without(@, link)]
  /\ UNCHANGED <<password, secret, failures, sessions, ac, halted, acLeft>>

RecordExpires ==
  /\ links.latest # 0 /\ links.latest \notin links.alive
  /\ links' = [links EXCEPT !.latest = 0]
  /\ UNCHANGED <<password, secret, failures, sessions, ac, halted, acLeft>>

-----------------------------------------------------------------------------
(* A new password, by the link, or from a session.            *)

BeginChange(r) ==
  /\ AcUses("changes") /\ Opens(r, "change", "write", password, 0, FALSE)
  /\ UNCHANGED <<password, secret, failures, sessions, links, halted>>

\* An owner or an administrator sets it for a member of lower rank, of this tenant only.
BeginMemberReset(r) ==
  /\ AcUses("changes") /\ Opens(r, "change", "write", password, 0, FALSE)
  /\ UNCHANGED <<password, secret, failures, sessions, links, halted>>

WritePassword(r) ==
  /\ \E kind \in {"reset", "change"} : AcAt(r, kind, "write")
  /\ password' = password + 1
  /\ Then(r, "revoke")
  /\ UNCHANGED <<secret, failures, sessions, links, halted, acLeft>>

Ended(s) == [s EXCEPT !.live = FALSE]

\* Rows, not access tokens.
RevokeSessions(r) ==
  /\ \E kind \in {"reset", "change", "refresh"} : AcAt(r, kind, "revoke")
  /\ sessions' = [sessions EXCEPT !.rows = {Ended(s) : s \in @}, !.ends = @ + 1]
  /\ IF ac[r].kind = "reset" THEN Then(r, "unlock") ELSE Over(r)
  /\ UNCHANGED <<password, secret, failures, links, halted, acLeft>>

\* A reset ends the lockout.
Unlock(r) ==
  /\ AcAt(r, "reset", "unlock")
  /\ failures' = NoFailures
  /\ Over(r)
  /\ UNCHANGED <<password, secret, sessions, links, halted, acLeft>>

-----------------------------------------------------------------------------
(* The authenticator. *)

\* Setting up a new one is refused while one is enrolled; enrolling and removing need a
\* code of the one there is.  Each reads the account, then writes it.
BeginCodes(r, kind) ==
  /\ AcUses("codes")
  /\ IF kind = "setup" THEN ~secret.on ELSE secret.n # 0
  /\ Opens(r, kind, "write", secret.n, secret.n + 1, secret.on)
  /\ UNCHANGED <<password, secret, failures, sessions, links, halted>>

WriteSecret(r) ==
  /\ \/ AcAt(r, "setup", "write") /\ secret' = [n |-> ac[r].mine, on |-> FALSE]
     \/ AcAt(r, "enroll", "write") /\ secret' = [secret EXCEPT !.on = TRUE]
     \/ AcAt(r, "remove", "write") /\ secret' = [n |-> 0, on |-> FALSE]
  /\ Over(r)
  /\ UNCHANGED <<password, failures, sessions, links, halted, acLeft>>

-----------------------------------------------------------------------------
\* A call fails, or the process ends, and with it the request.
RequestBreaksOff(r) ==
  /\ ac[r] # None /\ AcFault
  /\ halted' = halted \union (IF ac[r].pc = "expire" THEN {"expire"} ELSE {})
                      \union (IF ac[r].pc = "revoke" /\ ac[r].kind # "refresh" THEN {"revoke"} ELSE {})
                      \union (IF ac[r].pc = "record" THEN {"link"} ELSE {})
  /\ Over(r)
  /\ UNCHANGED <<password, secret, failures, sessions, links>>

AcNext ==
  \/ FailuresExpire \/ RecordExpires
  \/ \E link \in links.alive : LinkExpires(link)
  \/ \E s \in sessions.rows : AccessLapses(s)
  \/ \E r \in AcRequests :
       \/ StartLogin(r) \/ AssertNotLocked(r) \/ Compare(r) \/ RecordFailure(r) \/ ExpireLater(r)
       \/ ClearFailures(r)
       \/ \E s \in sessions.rows : StartRefresh(r, s) \/ StartSwitch(r, s)
       \/ ClaimSession(r) \/ IssueTokens(r) \/ IssueFails(r) \/ ReleaseToken(r)
       \/ RequestReset(r) \/ DropPrevious(r) \/ StoreLink(r) \/ RecordLink(r) \/ MailLink(r)
       \/ \E link \in links.alive : BeginReset(r, link)
       \/ ClaimLink(r) \/ ForgetLink(r) \/ BeginChange(r) \/ BeginMemberReset(r) \/ WritePassword(r) \/ RevokeSessions(r)
       \/ Unlock(r)
       \/ \E kind \in {"setup", "enroll", "remove"} : BeginCodes(r, kind)
       \/ WriteSecret(r)
       \/ RequestBreaksOff(r)

AcSpec == AcInit /\ [][AcNext]_acVars

-----------------------------------------------------------------------------
(* Properties. *)

\* Failed attempts pass the limit only by the requests that read the counter together,
\* or could not read it, and a counter in use expires, unless the request that raised it
\* from nothing broke off right then: no account stays locked for good.
LockoutHolds ==
  /\ failures.count < MaxFailed + Cardinality(AcRequests) + failures.unread
  /\ failures.count > 0 => \/ failures.expires \/ "expire" \in halted
                           \/ \E r \in AcRequests : AcAt(r, "login", "expire")

\* A reset link works once, and once a newer one has been mailed an older one does not
\* work, unless links were asked for, or used, at the same time, or a request broke off
\* before it put its link on record.
OneLinkWorks ==
  /\ ~links.again
  /\ (/\ ~links.crossed /\ "link" \notin halted
      /\ \A r \in AcRequests : ac[r] = None \/ ac[r].kind # "link") => Cardinality(links.alive) <= 1

\* When a new password is in force and all sessions have been ended, a live one that goes
\* back to an older password was opened, or given back, by a request that was past its checks
\* by then (a sign-in that had read the older password, a refresh that had claimed its token),
\* by a change of workspace with an access token from before, or in exchange for such a one: a
\* refresh that claims its token afterwards gets nothing.
Expelling(r) == ac[r] # None /\ ac[r].pc = "revoke" /\ ac[r].kind # "refresh"
OldPasswordIsOut ==
  \A s \in sessions.rows : s.live /\ s.password # password =>
    s.late \/ "revoke" \in halted \/ \E r \in AcRequests : Expelling(r)
=============================================================================
