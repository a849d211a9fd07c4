---------------------------- MODULE PeopleProofs ----------------------------
(* Proofs about the components of MCPeople that hold for every value of their  *)
(* constants, and the properties of the run that follow from them.             *)
EXTENDS MCPeople, SessionsProofs, ConnectionsProofs, FiniteSetTheorems, TLAPS

-----------------------------------------------------------------------------
(* Accounts: the lockout, reset links and passwords.                         *)

AcLinks == [alive : SUBSET Nat, latest : Nat, mailed : SUBSET Nat, used : SUBSET Nat,
            again : BOOLEAN, crossed : BOOLEAN, issued : Nat]

PasswordTyped == password \in Nat /\ sessions \in [rows : SUBSET AcSession, made : Nat, ends : Nat]
SecretTyped == secret \in [n : Nat, on : BOOLEAN]
FailuresTyped == failures \in [count : Nat, expires : BOOLEAN, unread : Nat]
LinksTyped == links \in AcLinks
RequestsTyped ==
  /\ ac \in [AcRequests -> AcRequest \union {None}] /\ halted \subseteq {"expire", "revoke", "link"}
  /\ acLeft \in [AcEvents -> Nat]

AcTyped == PasswordTyped /\ SecretTyped /\ FailuresTyped /\ LinksTyped /\ RequestsTyped

\* The sign-ins that have passed the lock and are not yet counted.
IsGuess(x) == x # None /\ x.kind = "login" /\ x.pc \in {"compare", "count"}
Guessing == {r \in AcRequests : IsGuess(ac[r])}
GuessesBounded == failures.count + Cardinality(Guessing) < MaxFailed + Cardinality(AcRequests) + failures.unread
CounterExpires ==
  failures.count > 0 => \/ failures.expires \/ "expire" \in halted
                        \/ \E r \in AcRequests : AcAt(r, "login", "expire")

\* A link is stored under a number no link had before, and is used up when it is claimed.
Storing(x) == x # None /\ x.kind = "link" /\ x.pc \in {"unlink", "link"}
LinksAreNew ==
  /\ \A n \in links.alive \union links.used : 0 < n /\ n <= links.issued
  /\ \A r \in AcRequests : Storing(ac[r]) =>
       /\ 0 < ac[r].mine /\ ac[r].mine <= links.issued
       /\ ac[r].mine \notin links.alive \union links.used
       /\ \A q \in AcRequests \ {r} : Storing(ac[q]) => ac[q].mine # ac[r].mine
ClaimedOnce ==
  /\ ~links.again /\ links.alive \intersect links.used = {}
  /\ \A r \in AcRequests : AcAt(r, "reset", "forget") => ac[r].seen \in links.used

\* Requests of links that have not met: one at a time, and the link that works is the one on
\* record, unless it is about to be put there.
IsLink(x) == x # None /\ x.kind = "link"
InOrder ==
  ~links.crossed /\ "link" \notin halted =>
    /\ \A r, q \in AcRequests : IsLink(ac[r]) /\ IsLink(ac[q]) => r = q
    /\ (\A r \in AcRequests : ~AcAt(r, "link", "record")) => links.alive \subseteq {links.latest}
    /\ \A r \in AcRequests :
         /\ AcAt(r, "link", "unlink") => links.alive \subseteq {ac[r].seen}
         /\ AcAt(r, "link", "link") => links.alive = {}
         /\ AcAt(r, "link", "record") => links.alive \subseteq {ac[r].mine}

\* No request has begun after the last end of all sessions; and unless one is ending them, or
\* broke off there, a sign-in and a refresh that has claimed its token go back to the password
\* in force, or to a time before that end.
Carries(x) == x # None /\ (x.kind = "login" \/ (x.kind = "refresh" /\ x.pc \in {"issue", "release"}))
Traced(x) == x.seen = password \/ x.began # sessions.ends \/ (x.kind = "refresh" /\ x.on)
NoneEnding == "revoke" \notin halted /\ \A r \in AcRequests : ~Expelling(r)
\* All rows of one token go back to one password, and so does the refresh that presents it.
Presents(x) == x.mine <= sessions.made /\ \A s \in sessions.rows : s.n = x.mine => s.password = x.seen
TokenRows ==
  /\ \A s \in sessions.rows : s.n <= sessions.made
  /\ \A s, t \in sessions.rows : s.n = t.n => s.password = t.password
  /\ \A r \in AcRequests : ac[r] # None /\ ac[r].kind = "refresh" => Presents(ac[r])
LineageKept ==
  /\ \A r \in AcRequests : ac[r] # None => ac[r].began <= sessions.ends
  /\ NoneEnding => \A r \in AcRequests : Carries(ac[r]) => Traced(ac[r])
  /\ TokenRows /\ OldPasswordIsOut

\* What a request becomes when it begins, or goes on.
GoesOn(x, new) ==
  \/ /\ new.began = sessions.ends /\ (Carries(new) => new.seen = password)
     /\ new.kind = "refresh" => Presents(new)
  \/ /\ x # None /\ x.kind # "refresh"
     /\ new.kind = x.kind /\ new.seen = x.seen /\ new.began = x.began

AcInv == AcTyped /\ GuessesBounded /\ CounterExpires /\ LinksAreNew /\ ClaimedOnce /\ InOrder /\ LineageKept

-----------------------------------------------------------------------------

LEMMA GuessingIsFinite ==
  ASSUME AcInv
  PROVE  /\ IsFiniteSet(Guessing) /\ Cardinality(Guessing) \in Nat
         /\ Cardinality(AcRequests) \in Nat /\ Cardinality(Guessing) <= Cardinality(AcRequests)
<1>1. Guessing \subseteq AcRequests /\ IsFiniteSet(AcRequests)
  BY AccountsAssumption DEF Guessing
<1>2. IsFiniteSet(Guessing) /\ Cardinality(Guessing) <= Cardinality(AcRequests)
  BY <1>1, FS_Subset
<1>3. QED BY <1>1, <1>2, FS_CardinalityType

\* A request moves on; the others stay.
LEMMA RequestMoves ==
  ASSUME AcInv, NEW r \in AcRequests, NEW new \in AcRequest \union {None}, ac' = [ac EXCEPT ![r] = new],
         halted' \subseteq {"expire", "revoke", "link"}, acLeft' \in [AcEvents -> Nat]
  PROVE  /\ RequestsTyped'
         /\ ac'[r] = new /\ \A q \in AcRequests \ {r} : ac'[q] = ac[q]
  BY DEF AcInv, AcTyped, RequestsTyped

LEMMA GuessingMoves ==
  ASSUME AcInv, NEW r \in AcRequests, NEW new \in AcRequest \union {None}, ac' = [ac EXCEPT ![r] = new]
  PROVE  /\ IsFiniteSet(Guessing') /\ Cardinality(Guessing') \in Nat
         /\ Cardinality(Guessing') <= Cardinality(AcRequests)
         /\ IsGuess(new) => Cardinality(Guessing') <= Cardinality(Guessing) + 1
         /\ IsGuess(new) /\ IsGuess(ac[r]) => Cardinality(Guessing') = Cardinality(Guessing)
         /\ ~IsGuess(new) => Cardinality(Guessing') <= Cardinality(Guessing)
         /\ ~IsGuess(new) /\ IsGuess(ac[r]) => Cardinality(Guessing') = Cardinality(Guessing) - 1
<1>1. ac'[r] = new /\ \A q \in AcRequests \ {r} : ac'[q] = ac[q]
  BY DEF AcInv, AcTyped, RequestsTyped
<1>2. IsFiniteSet(Guessing) /\ Cardinality(Guessing) \in Nat
  BY GuessingIsFinite
<1>3. Guessing' \subseteq AcRequests /\ IsFiniteSet(AcRequests)
  BY AccountsAssumption DEF Guessing
<1>4. IsFiniteSet(Guessing') /\ Cardinality(Guessing') <= Cardinality(AcRequests)
  BY <1>3, FS_Subset
<1>5. Cardinality(Guessing') \in Nat
  BY <1>4, FS_CardinalityType
<1>6. CASE IsGuess(new)
  <2>1. Guessing' = Guessing \union {r} /\ (IsGuess(ac[r]) <=> r \in Guessing)
    BY <1>1, <1>6 DEF Guessing, IsGuess
  <2>2. Cardinality(Guessing \union {r}) = IF r \in Guessing THEN Cardinality(Guessing) ELSE Cardinality(Guessing) + 1
    BY <1>2, FS_AddElement
  <2>3. QED BY <1>2, <1>4, <1>5, <1>6, <2>1, <2>2
<1>7. CASE ~IsGuess(new)
  <2>1. Guessing' = Guessing \ {r} /\ (IsGuess(ac[r]) <=> r \in Guessing)
    BY <1>1, <1>7 DEF Guessing, IsGuess
  <2>2. Cardinality(Guessing \ {r}) = IF r \in Guessing THEN Cardinality(Guessing) - 1 ELSE Cardinality(Guessing)
    BY <1>2, FS_RemoveElement
  <2>3. QED BY <1>2, <1>4, <1>5, <1>7, <2>1, <2>2
<1>8. QED BY <1>6, <1>7

LEMMA LeftType == ASSUME AcInv, NEW e \in AcEvents, AcUses(e) PROVE acLeft' \in [AcEvents -> Nat]
  BY DEF AcInv, AcTyped, RequestsTyped, AcUses

\* A step of a request that is not a sign-in, as far as the lockout goes.
LEMMA NoLogin ==
  ASSUME AcInv, NEW r \in AcRequests, NEW new \in AcRequest \union {None}, ac' = [ac EXCEPT ![r] = new],
         failures' = failures, halted \subseteq halted', ~IsGuess(new),
         AcAt(r, "login", "expire") => "expire" \in halted'
  PROVE  FailuresTyped' /\ GuessesBounded' /\ CounterExpires'
<1>1. ac'[r] = new /\ \A q \in AcRequests \ {r} : ac'[q] = ac[q]
  BY DEF AcInv, AcTyped, RequestsTyped
<1>2. GuessesBounded'
  <2>1. Cardinality(Guessing') <= Cardinality(Guessing) /\ Cardinality(Guessing') \in Nat
    BY GuessingMoves
  <2>2. Cardinality(Guessing) \in Nat /\ Cardinality(AcRequests) \in Nat
    BY GuessingIsFinite
  <2>3. failures.count + Cardinality(Guessing) < MaxFailed + Cardinality(AcRequests) + failures.unread
    BY DEF AcInv, GuessesBounded
  <2>4. failures.count \in Nat /\ failures.unread \in Nat /\ MaxFailed \in Nat
    BY AccountsAssumption DEF AcInv, AcTyped, FailuresTyped
  <2>5. failures.count + Cardinality(Guessing') < MaxFailed + Cardinality(AcRequests) + failures.unread
    BY <2>1, <2>2, <2>3, <2>4
  <2>6. QED BY <2>5 DEF GuessesBounded
<1>3. CounterExpires'
  BY <1>1 DEF AcInv, CounterExpires, AcAt
<1>4. QED BY <1>2, <1>3 DEF AcInv, AcTyped, FailuresTyped

\* A step of a request that is not about links.
LEMMA NoLink ==
  ASSUME AcInv, NEW r \in AcRequests, NEW new \in AcRequest \union {None}, ac' = [ac EXCEPT ![r] = new],
         links' = links, halted \subseteq halted', ~IsLink(new),
         AcAt(r, "link", "record") => "link" \in halted',
         new # None => ~(new.kind = "reset" /\ new.pc = "forget")
  PROVE  LinksTyped' /\ LinksAreNew' /\ ClaimedOnce' /\ InOrder'
<1>1. ac'[r] = new /\ \A q \in AcRequests \ {r} : ac'[q] = ac[q]
  BY DEF AcInv, AcTyped, RequestsTyped
<1>2. LinksAreNew' /\ ClaimedOnce'
  BY <1>1 DEF AcInv, LinksAreNew, ClaimedOnce, Storing, IsLink, AcAt
<1>3. InOrder'
  <2> SUFFICES ASSUME ~links.crossed, "link" \notin halted'
               PROVE  /\ \A p, q \in AcRequests : IsLink(ac'[p]) /\ IsLink(ac'[q]) => p = q
                      /\ (\A p \in AcRequests : ~AcAt(p, "link", "record")') => links.alive \subseteq {links.latest}
                      /\ \A p \in AcRequests :
                           /\ AcAt(p, "link", "unlink")' => links.alive \subseteq {ac'[p].seen}
                           /\ AcAt(p, "link", "link")' => links.alive = {}
                           /\ AcAt(p, "link", "record")' => links.alive \subseteq {ac'[p].mine}
    BY DEF InOrder
  <2>1. /\ \A p, q \in AcRequests : IsLink(ac[p]) /\ IsLink(ac[q]) => p = q
        /\ (\A p \in AcRequests : ~AcAt(p, "link", "record")) => links.alive \subseteq {links.latest}
        /\ \A p \in AcRequests :
             /\ AcAt(p, "link", "unlink") => links.alive \subseteq {ac[p].seen}
             /\ AcAt(p, "link", "link") => links.alive = {}
             /\ AcAt(p, "link", "record") => links.alive \subseteq {ac[p].mine}
    BY DEF AcInv, InOrder
  <2>2. \A p \in AcRequests : IsLink(ac'[p]) => p # r /\ ac'[p] = ac[p]
    BY <1>1
  <2>3. \A p \in AcRequests \ {r} : ac'[p] = ac[p]
    BY <1>1
  <2>4. ~AcAt(r, "link", "record")
    BY DEF AcAt, IsLink
  <2>5. (\A p \in AcRequests : ~AcAt(p, "link", "record")') => (\A p \in AcRequests : ~AcAt(p, "link", "record"))
    BY <2>3, <2>4 DEF AcAt
  <2>6. \A p, q \in AcRequests : IsLink(ac'[p]) /\ IsLink(ac'[q]) => p = q
    BY <2>1, <2>2
  <2>7. \A p \in AcRequests :
             /\ AcAt(p, "link", "unlink")' => links.alive \subseteq {ac'[p].seen}
             /\ AcAt(p, "link", "link")' => links.alive = {}
             /\ AcAt(p, "link", "record")' => links.alive \subseteq {ac'[p].mine}
    BY <2>1, <2>2 DEF AcAt, IsLink
  <2>8. QED BY <2>1, <2>5, <2>6, <2>7
<1>4. QED BY <1>2, <1>3 DEF AcInv, AcTyped, LinksTyped

\* A step that writes no password and ends or opens no session.
LEMMA NoPassword ==
  ASSUME AcInv, NEW r \in AcRequests, NEW new \in AcRequest \union {None}, ac' = [ac EXCEPT ![r] = new],
         UNCHANGED <<password, sessions>>, halted \subseteq halted', new = None \/ GoesOn(ac[r], new),
         Expelling(r) => "revoke" \in halted'
  PROVE  PasswordTyped' /\ LineageKept'
<1>1. ac'[r] = new /\ \A q \in AcRequests \ {r} : ac'[q] = ac[q]
  BY DEF AcInv, AcTyped, RequestsTyped
<1>2. sessions.ends \in Nat
  BY DEF AcInv, AcTyped, PasswordTyped
<1>3. \A q \in AcRequests : ac'[q] # None => ac'[q].began <= sessions.ends
  BY <1>1, <1>2 DEF AcInv, LineageKept, GoesOn
<1>4. NoneEnding' => NoneEnding
  BY <1>1 DEF NoneEnding, Expelling
<1>5. ASSUME NoneEnding', NEW q \in AcRequests, Carries(ac'[q]) PROVE Traced(ac'[q])
  <2>1. CASE q # r
    BY <1>1, <1>4, <1>5, <2>1 DEF AcInv, LineageKept
  <2>2. CASE q = r
    BY <1>1, <1>4, <1>5, <2>2 DEF AcInv, LineageKept, GoesOn, Carries, Traced
  <2>3. QED BY <2>1, <2>2
<1>6. OldPasswordIsOut'
  BY <1>1 DEF AcInv, LineageKept, OldPasswordIsOut, Expelling
<1>7. PasswordTyped'
  BY DEF AcInv, AcTyped, PasswordTyped
<1>8. TokenRows'
  <2>1. \A q \in AcRequests : ac[q] # None /\ ac[q].kind = "refresh" => Presents(ac[q])
    BY DEF AcInv, LineageKept, TokenRows
  <2>2. \A q \in AcRequests : ac'[q] # None /\ ac'[q].kind = "refresh" => Presents(ac'[q])
    BY <1>1, <2>1 DEF GoesOn
  <2>3. QED BY <2>2 DEF AcInv, LineageKept, TokenRows, Presents
<1>9. QED BY <1>3, <1>5, <1>6, <1>7, <1>8 DEF LineageKept, Traced

\* A step of a request that touches neither the counter, nor links, nor passwords.
LEMMA AccountsQuiet ==
  ASSUME AcInv, NEW r \in AcRequests, NEW new \in AcRequest \union {None}, ac' = [ac EXCEPT ![r] = new],
         UNCHANGED <<password, failures, sessions, links, halted>>, acLeft' \in [AcEvents -> Nat], SecretTyped',
         ~IsGuess(new), ~IsLink(new), new # None => ~(new.kind = "reset" /\ new.pc = "forget"),
         ac[r] # None => ac[r].pc \notin {"expire", "record", "revoke"}, new = None \/ GoesOn(ac[r], new)
  PROVE  AcInv'
<1>1. RequestsTyped'
  BY RequestMoves DEF AcInv, AcTyped, RequestsTyped
<1>2. FailuresTyped' /\ GuessesBounded' /\ CounterExpires'
  BY NoLogin DEF AcAt
<1>3. LinksTyped' /\ LinksAreNew' /\ ClaimedOnce' /\ InOrder'
  <2>1. ~AcAt(r, "link", "record")
    BY DEF AcAt
  <2>2. QED BY <2>1, NoLink
<1>4. PasswordTyped' /\ LineageKept'
  BY NoPassword DEF Expelling
<1>5. QED BY <1>1, <1>2, <1>3, <1>4 DEF AcInv, AcTyped

\* A step of a sign-in.
LEMMA LoginStep ==
  ASSUME AcInv, NEW r \in AcRequests, NEW new \in AcRequest \union {None}, ac' = [ac EXCEPT ![r] = new],
         UNCHANGED <<password, secret, sessions, links, halted>>, acLeft' \in [AcEvents -> Nat],
         ac[r].kind = "login" /\ ac[r].pc # "revoke", new # None => new.kind = "login",
         new = None \/ GoesOn(ac[r], new), FailuresTyped', GuessesBounded', CounterExpires'
  PROVE  AcInv'
<1>1. RequestsTyped'
  BY RequestMoves DEF AcInv, AcTyped, RequestsTyped
<1>2. LinksTyped' /\ LinksAreNew' /\ ClaimedOnce' /\ InOrder'
  <2>1. ~AcAt(r, "link", "record") /\ ~IsLink(new)
    BY DEF IsLink, AcAt
  <2>2. QED BY <2>1, NoLink
<1>3. PasswordTyped' /\ LineageKept'
  BY NoPassword DEF Expelling
<1>4. SecretTyped'
  BY DEF AcInv, AcTyped, SecretTyped
<1>5. QED BY <1>1, <1>2, <1>3, <1>4 DEF AcInv, AcTyped

\* A step of a request that asks for a link, or uses one.
LEMMA LinkStep ==
  ASSUME AcInv, NEW r \in AcRequests, NEW new \in AcRequest \union {None}, ac' = [ac EXCEPT ![r] = new],
         UNCHANGED <<password, secret, sessions, failures, halted>>, acLeft' \in [AcEvents -> Nat],
         ac[r] # None => ac[r].pc \notin {"expire", "revoke"}, ~IsGuess(new),
         new = None \/ GoesOn(ac[r], new),
         LinksTyped', LinksAreNew', ClaimedOnce', InOrder'
  PROVE  AcInv'
<1>1. RequestsTyped'
  BY RequestMoves DEF AcInv, AcTyped, RequestsTyped
<1>2. FailuresTyped' /\ GuessesBounded' /\ CounterExpires'
  BY NoLogin DEF AcAt
<1>3. PasswordTyped' /\ LineageKept'
  BY NoPassword DEF Expelling
<1>4. SecretTyped'
  BY DEF AcInv, AcTyped, SecretTyped
<1>5. QED BY <1>1, <1>2, <1>3, <1>4 DEF AcInv, AcTyped

LEMMA AccountsInitially == AcInit => AcInv
<1> SUFFICES ASSUME AcInit PROVE AcInv
  OBVIOUS
<1>1. AcTyped
  BY AccountsAssumption DEF AcInit, AcTyped, PasswordTyped, SecretTyped, FailuresTyped, LinksTyped, RequestsTyped, AcLinks
<1>2. GuessesBounded
  <2>1. Guessing = {}
    BY DEF AcInit, Guessing, IsGuess
  <2>2. Cardinality(Guessing) = 0
    BY <2>1, FS_EmptySet
  <2>3. Cardinality(AcRequests) \in Nat
    BY AccountsAssumption, FS_CardinalityType
  <2>4. QED BY <2>2, <2>3, AccountsAssumption DEF AcInit, GuessesBounded
<1>3. CounterExpires /\ LineageKept
  BY DEF AcInit, CounterExpires, LineageKept, OldPasswordIsOut, Carries, TokenRows
<1>4. LinksAreNew /\ ClaimedOnce /\ InOrder
  BY DEF AcInit, LinksAreNew, ClaimedOnce, InOrder, Storing, IsLink, AcAt
<1>5. QED BY <1>1, <1>2, <1>3, <1>4 DEF AcInv

-----------------------------------------------------------------------------
(* Signing in, step by step.                                                 *)

LEMMA StartLoginKeeps ==
  ASSUME AcInv, NEW r \in AcRequests, StartLogin(r)
  PROVE  AcInv'
<1> DEFINE new == [kind |-> "login", pc |-> "locked", seen |-> password, mine |-> secret.n, on |-> secret.on,
                   began |-> sessions.ends]
<1>1. new \in AcRequest /\ ~IsGuess(new) /\ ~IsLink(new) /\ new.kind = "login" /\ GoesOn(ac[r], new)
  BY DEF AcInv, AcTyped, PasswordTyped, SecretTyped, AcRequest, AcKinds, AcSteps, IsGuess, IsLink, GoesOn
<1>2. ac[r] = None /\ ac' = [ac EXCEPT ![r] = new]
  BY DEF StartLogin, Opens
<1> HIDE DEF new
<1>3. UNCHANGED <<password, secret, failures, sessions, links, halted>> /\ acLeft' \in [AcEvents -> Nat]
  BY LeftType DEF StartLogin, AcEvents
<1>4. SecretTyped'
  BY <1>3 DEF AcInv, AcTyped, SecretTyped
<1>5. QED BY <1>1, <1>2, <1>3, <1>4, AccountsQuiet

\* A request at one step, and at another.
LEMMA RequestAt ==
  ASSUME AcInv, NEW r \in AcRequests, NEW kind, NEW step, AcAt(r, kind, step)
  PROVE  ac[r] \in AcRequest /\ ac[r].kind = kind /\ ac[r].pc = step /\ ac[r] # None
  BY DEF AcInv, AcTyped, RequestsTyped, AcAt

LEMMA RequestGoes ==
  ASSUME NEW x \in AcRequest, NEW step \in AcSteps
  PROVE  LET new == [x EXCEPT !.pc = step] IN
         /\ new \in AcRequest /\ new.pc = step
         /\ new.kind = x.kind /\ new.seen = x.seen /\ new.mine = x.mine /\ new # None
         /\ new.on = x.on /\ new.began = x.began
         /\ x.kind # "refresh" => GoesOn(x, new)
  BY DEF AcRequest, None, GoesOn

\* What is known of the numbers.
LEMMA Numbers ==
  ASSUME AcInv
  PROVE  /\ failures.count \in Nat /\ failures.unread \in Nat /\ MaxFailed \in Nat \ {0}
         /\ Cardinality(AcRequests) \in Nat /\ Cardinality(Guessing) \in Nat
         /\ Cardinality(Guessing) <= Cardinality(AcRequests)
         /\ failures.count + Cardinality(Guessing) < MaxFailed + Cardinality(AcRequests) + failures.unread
  BY GuessingIsFinite, AccountsAssumption DEF AcInv, AcTyped, FailuresTyped, GuessesBounded

LEMMA AssertNotLockedKeeps ==
  ASSUME AcInv, NEW r \in AcRequests, AssertNotLocked(r)
  PROVE  AcInv'
<1> DEFINE new == [ac[r] EXCEPT !.pc = "compare"]
<1>0. AcAt(r, "login", "locked")
  BY DEF AssertNotLocked
<1>1. ac[r] \in AcRequest /\ ac[r].kind = "login" /\ ac[r].pc = "locked" /\ ~IsGuess(ac[r])
  BY <1>0, RequestAt DEF IsGuess
<1>7. new \in AcRequest /\ new.kind = "login" /\ GoesOn(ac[r], new) /\ IsGuess(new)
  <2>1. "compare" \in AcSteps
    BY DEF AcSteps
  <2>2. new \in AcRequest /\ new.pc = "compare" /\ new.kind = ac[r].kind /\ new.mine = ac[r].mine /\ new # None
    /\ GoesOn(ac[r], new)
    BY <1>1, <2>1, RequestGoes
  <2>3. QED BY <1>1, <2>2 DEF IsGuess
<1>2. UNCHANGED <<password, secret, sessions, links, halted>>
  BY DEF AssertNotLocked
<1>3. CASE Over(r) /\ UNCHANGED <<failures, acLeft>>
  <2>1. ac' = [ac EXCEPT ![r] = None] /\ acLeft' \in [AcEvents -> Nat] /\ SecretTyped'
    BY <1>2, <1>3 DEF Over, AcInv, AcTyped, RequestsTyped, SecretTyped
  <2>2. ~IsGuess(None) /\ ~IsLink(None)
    BY DEF IsGuess, IsLink
  <2>3. QED BY <1>1, <1>2, <1>3, <2>1, <2>2, AccountsQuiet
<1>4. CASE ~Locked(failures.count) /\ Then(r, "compare") /\ UNCHANGED <<failures, acLeft>>
  <2>1. ac' = [ac EXCEPT ![r] = new] /\ acLeft' \in [AcEvents -> Nat]
    BY <1>4 DEF Then, AcInv, AcTyped, RequestsTyped
  <2> HIDE DEF new
  <2>2. Cardinality(Guessing') \in Nat /\ Cardinality(Guessing') <= Cardinality(AcRequests)
    BY <1>1, <1>7, <2>1, GuessingMoves
  <2>3. failures.count < MaxFailed
    BY <1>4, Numbers DEF Locked
  <2>4. GuessesBounded'
    BY <1>4, <2>2, <2>3, Numbers DEF GuessesBounded
  <2>5. FailuresTyped' /\ CounterExpires'
    BY <1>1, <1>2, <1>4, <1>7, <2>1 DEF AcInv, AcTyped, RequestsTyped, FailuresTyped, CounterExpires, AcAt
  <2>6. QED BY <1>1, <1>2, <1>7, <2>1, <2>4, <2>5, LoginStep
<1>5. CASE Then(r, "compare") /\ AcFault /\ failures' = [failures EXCEPT !.unread = @ + 1]
  <2>1. ac' = [ac EXCEPT ![r] = new] /\ acLeft' \in [AcEvents -> Nat]
    BY <1>5, LeftType DEF Then, AcFault, AcEvents
  <2> HIDE DEF new
  <2>2. Cardinality(Guessing') \in Nat /\ Cardinality(Guessing') <= Cardinality(Guessing) + 1
    BY <1>1, <1>7, <2>1, GuessingMoves
  <2>3. FailuresTyped' /\ failures'.count = failures.count /\ failures'.unread = failures.unread + 1
        /\ failures'.expires = failures.expires
    BY <1>5 DEF AcInv, AcTyped, FailuresTyped
  <2>4. GuessesBounded'
    BY <2>2, <2>3, Numbers DEF GuessesBounded
  <2>5. CounterExpires'
    BY <1>1, <1>2, <1>7, <2>1, <2>3 DEF AcInv, AcTyped, RequestsTyped, CounterExpires, AcAt
  <2>6. QED BY <1>1, <1>2, <1>7, <2>1, <2>3, <2>4, <2>5, LoginStep
<1>6. QED BY <1>3, <1>4, <1>5 DEF AssertNotLocked

LEMMA CompareKeeps ==
  ASSUME AcInv, NEW r \in AcRequests, Compare(r)
  PROVE  AcInv'
<1>0. AcAt(r, "login", "compare")
  BY DEF Compare
<1>1. ac[r] \in AcRequest /\ ac[r].kind = "login" /\ ac[r].pc = "compare" /\ IsGuess(ac[r])
  BY <1>0, RequestAt DEF IsGuess
<1>2. UNCHANGED <<password, secret, sessions, links, halted, failures>> /\ acLeft' \in [AcEvents -> Nat] /\ SecretTyped'
  BY DEF Compare, AcInv, AcTyped, RequestsTyped, SecretTyped
<1>3. CASE Then(r, "count")
  <2> DEFINE new == [ac[r] EXCEPT !.pc = "count"]
  <2>1. new \in AcRequest /\ new.kind = "login" /\ GoesOn(ac[r], new) /\ IsGuess(new)
    <3>1. "count" \in AcSteps
      BY DEF AcSteps
    <3>2. new \in AcRequest /\ new.pc = "count" /\ new.kind = ac[r].kind /\ new.mine = ac[r].mine /\ new # None
      /\ GoesOn(ac[r], new)
      BY <1>1, <3>1, RequestGoes
    <3>3. QED BY <1>1, <3>2 DEF IsGuess
  <2>2. ac' = [ac EXCEPT ![r] = new]
    BY <1>3 DEF Then
  <2> HIDE DEF new
  <2>3. Cardinality(Guessing') = Cardinality(Guessing)
    BY <1>1, <2>1, <2>2, GuessingMoves
  <2>4. GuessesBounded'
    BY <1>2, <2>3 DEF AcInv, GuessesBounded
  <2>5. FailuresTyped' /\ CounterExpires'
    BY <1>1, <1>2, <2>2 DEF AcInv, AcTyped, RequestsTyped, FailuresTyped, CounterExpires, AcAt
  <2>6. QED BY <1>1, <1>2, <2>1, <2>2, <2>4, <2>5, LoginStep
<1>4. CASE Over(r)
  <2>1. ~IsGuess(None) /\ ~IsLink(None) /\ ac' = [ac EXCEPT ![r] = None]
    BY <1>4 DEF IsGuess, IsLink, Over
  <2>2. QED BY <1>1, <1>2, <2>1, AccountsQuiet
<1>5. CASE Then(r, "clear")
  <2> DEFINE new == [ac[r] EXCEPT !.pc = "clear"]
  <2>1. new \in AcRequest /\ new.kind = "login" /\ GoesOn(ac[r], new) /\ ~IsGuess(new) /\ ~IsLink(new)
    <3>1. "clear" \in AcSteps
      BY DEF AcSteps
    <3>2. new \in AcRequest /\ new.pc = "clear" /\ new.kind = ac[r].kind /\ new.mine = ac[r].mine /\ new # None
      /\ GoesOn(ac[r], new)
      BY <1>1, <3>1, RequestGoes
    <3>3. QED BY <1>1, <3>2 DEF IsGuess, IsLink
  <2>2. ac' = [ac EXCEPT ![r] = new]
    BY <1>5 DEF Then
  <2> HIDE DEF new
  <2>3. QED BY <1>1, <1>2, <2>1, <2>2, AccountsQuiet
<1>6. QED BY <1>3, <1>4, <1>5 DEF Compare

LEMMA NoFailuresType ==
  ASSUME AcInv, failures' = NoFailures
  PROVE  FailuresTyped' /\ failures'.count = 0 /\ failures'.unread = failures.unread /\ CounterExpires'
<1>1. PICK count \in Nat, expires \in BOOLEAN, unread \in Nat :
        failures = [count |-> count, expires |-> expires, unread |-> unread]
  BY DEF AcInv, AcTyped, FailuresTyped
<1>4. failures' = [count |-> 0, expires |-> FALSE, unread |-> unread]
  BY <1>1 DEF NoFailures
<1>2. FailuresTyped' /\ failures'.count = 0 /\ failures'.unread = failures.unread
  BY <1>1, <1>4 DEF FailuresTyped
<1>3. QED BY <1>2 DEF CounterExpires

LEMMA RecordFailureKeeps ==
  ASSUME AcInv, NEW r \in AcRequests, RecordFailure(r)
  PROVE  AcInv'
<1>0. AcAt(r, "login", "count")
  BY DEF RecordFailure
<1>1. ac[r] \in AcRequest /\ ac[r].kind = "login" /\ ac[r].pc = "count" /\ IsGuess(ac[r])
  BY <1>0, RequestAt DEF IsGuess
<1>2. UNCHANGED <<password, secret, sessions, links, halted>> /\ SecretTyped'
  BY DEF RecordFailure, AcInv, AcTyped, SecretTyped
<1>3. ~IsGuess(None) /\ ~IsLink(None)
  BY DEF IsGuess, IsLink
<1>4. CASE AcFault /\ Over(r) /\ UNCHANGED failures
  <2>1. ac' = [ac EXCEPT ![r] = None] /\ acLeft' \in [AcEvents -> Nat]
    BY <1>4, LeftType DEF Over, AcFault, AcEvents
  <2>2. QED BY <1>1, <1>2, <1>3, <1>4, <2>1, AccountsQuiet
<1>5. CASE /\ failures' = [failures EXCEPT !.count = @ + 1]
           /\ IF First(failures.count + 1) THEN Then(r, "expire") ELSE Over(r)
           /\ UNCHANGED acLeft
  <2>1. /\ FailuresTyped' /\ failures'.count = failures.count + 1
        /\ failures'.unread = failures.unread /\ failures'.expires = failures.expires
        /\ acLeft' \in [AcEvents -> Nat]
    BY <1>5 DEF AcInv, AcTyped, FailuresTyped, RequestsTyped
  <2>2. ASSUME NEW new \in AcRequest \union {None}, ac' = [ac EXCEPT ![r] = new], ~IsGuess(new),
               new # None => new.kind = "login" /\ GoesOn(ac[r], new),
               failures.count = 0 => new # None /\ new.pc = "expire"
        PROVE  AcInv'
    <3>1. Cardinality(Guessing') = Cardinality(Guessing) - 1
      BY <1>1, <2>2, GuessingMoves
    <3>2. GuessesBounded'
      BY <2>1, <3>1, Numbers DEF GuessesBounded
    <3>3. ac'[r] = new /\ \A q \in AcRequests \ {r} : ac'[q] = ac[q]
      BY <2>2 DEF AcInv, AcTyped, RequestsTyped
    <3>4. CounterExpires'
      <4>1. CASE failures.count = 0
        BY <2>2, <3>3, <4>1 DEF CounterExpires, AcAt
      <4>2. CASE failures.count > 0
        BY <1>1, <1>2, <2>1, <3>3, <4>2 DEF AcInv, CounterExpires, AcAt
      <4>3. QED BY <4>1, <4>2, Numbers
    <3>5. QED BY <1>1, <1>2, <2>1, <2>2, <3>2, <3>4, LoginStep
  <2>3. CASE failures.count = 0
    <3> DEFINE new == [ac[r] EXCEPT !.pc = "expire"]
    <3>1. new \in AcRequest /\ new.kind = "login" /\ GoesOn(ac[r], new) /\ ~IsGuess(new) /\ new # None /\ new.pc = "expire"
      <4>1. "expire" \in AcSteps
        BY DEF AcSteps
      <4>2. new \in AcRequest /\ new.pc = "expire" /\ new.kind = ac[r].kind /\ new.mine = ac[r].mine /\ new # None
        /\ GoesOn(ac[r], new)
        BY <1>1, <4>1, RequestGoes
      <4>3. QED BY <1>1, <4>2 DEF IsGuess
    <3>2. ac' = [ac EXCEPT ![r] = new]
      BY <1>5, <2>3 DEF First, Then
    <3> HIDE DEF new
    <3>3. QED BY <2>2, <3>1, <3>2
  <2>4. CASE failures.count > 0
    <3>1. ~First(failures.count + 1)
      BY <2>4, Numbers DEF First
    <3>2. ac' = [ac EXCEPT ![r] = None]
      BY <1>5, <3>1, Zenon DEF Over
    <3>3. failures.count # 0 /\ None \in AcRequest \union {None}
      BY <2>4
    <3>4. QED BY <1>3, <2>2, <3>2, <3>3, Zenon
  <2>5. QED BY <2>3, <2>4, Numbers
<1>6. QED BY <1>4, <1>5 DEF RecordFailure

LEMMA ExpireLaterKeeps ==
  ASSUME AcInv, NEW r \in AcRequests, ExpireLater(r)
  PROVE  AcInv'
<1>0. AcAt(r, "login", "expire")
  BY DEF ExpireLater
<1>1. ac[r] \in AcRequest /\ ac[r].kind = "login" /\ ac[r].pc = "expire"
  BY <1>0, RequestAt
<1>2. UNCHANGED <<password, secret, sessions, links, halted>> /\ acLeft' \in [AcEvents -> Nat]
      /\ ac' = [ac EXCEPT ![r] = None] /\ ~IsGuess(None)
  BY DEF ExpireLater, Over, IsGuess, AcInv, AcTyped, RequestsTyped
<1>9. PICK b : b = (failures.count > 0)
  OBVIOUS
<1>3. b \in BOOLEAN /\ failures' = [failures EXCEPT !.expires = b]
  BY <1>9 DEF ExpireLater
<1>4. FailuresTyped' /\ failures'.count = failures.count /\ failures'.unread = failures.unread /\ failures'.expires = b
  BY <1>3 DEF AcInv, AcTyped, FailuresTyped
<1>5. CounterExpires'
  BY <1>9, <1>4 DEF CounterExpires
<1>6. Cardinality(Guessing') <= Cardinality(Guessing) /\ Cardinality(Guessing') \in Nat
  BY <1>2, GuessingMoves
<1>7. GuessesBounded'
  BY <1>4, <1>6, Numbers DEF GuessesBounded
<1>8. QED BY <1>1, <1>2, <1>4, <1>5, <1>7, LoginStep

LEMMA FailuresExpireKeeps ==
  ASSUME AcInv, FailuresExpire
  PROVE  AcInv'
<1>1. UNCHANGED <<password, secret, sessions, links, ac, halted, acLeft>> /\ failures' = NoFailures
  BY DEF FailuresExpire
<1>2. FailuresTyped' /\ failures'.count = 0 /\ failures'.unread = failures.unread /\ CounterExpires'
  BY <1>1, NoFailuresType
<1>3. Guessing' = Guessing
  BY <1>1 DEF Guessing
<1>4. GuessesBounded'
  BY <1>2, <1>3, Numbers DEF GuessesBounded
<1>5. /\ PasswordTyped' /\ SecretTyped' /\ LinksTyped' /\ RequestsTyped'
      /\ LinksAreNew' /\ ClaimedOnce' /\ InOrder' /\ LineageKept'
  BY <1>1 DEF AcInv, AcTyped, PasswordTyped, SecretTyped, LinksTyped, RequestsTyped,
              LinksAreNew, ClaimedOnce, InOrder, LineageKept, NoneEnding, Carries, Traced, Expelling, TokenRows, Presents, OldPasswordIsOut, AcAt
<1>6. QED BY <1>2, <1>4, <1>5 DEF AcInv, AcTyped

LEMMA ClearFailuresKeeps ==
  ASSUME AcInv, NEW r \in AcRequests, ClearFailures(r)
  PROVE  AcInv'
<1>0. AcAt(r, "login", "clear")
  BY DEF ClearFailures
<1>1. ac[r] \in AcRequest /\ ac[r].kind = "login" /\ ac[r].pc = "clear"
  BY <1>0, RequestAt
<1> DEFINE new == [ac[r] EXCEPT !.pc = "issue"]
<1>2. new \in AcRequest /\ new.kind = "login" /\ GoesOn(ac[r], new) /\ ~IsGuess(new)
  <2>1. "issue" \in AcSteps
    BY DEF AcSteps
  <2>2. new \in AcRequest /\ new.pc = "issue" /\ new.kind = ac[r].kind /\ new.mine = ac[r].mine /\ new # None
    /\ GoesOn(ac[r], new)
    BY <1>1, <2>1, RequestGoes
  <2>3. QED BY <1>1, <2>2 DEF IsGuess
<1>3. /\ UNCHANGED <<password, secret, sessions, links, halted>> /\ acLeft' \in [AcEvents -> Nat]
      /\ ac' = [ac EXCEPT ![r] = new] /\ failures' = NoFailures
  BY DEF ClearFailures, Then, AcInv, AcTyped, RequestsTyped
<1> HIDE DEF new
<1>4. FailuresTyped' /\ failures'.count = 0 /\ failures'.unread = failures.unread /\ CounterExpires'
  BY <1>3, NoFailuresType
<1>5. Cardinality(Guessing') <= Cardinality(Guessing) /\ Cardinality(Guessing') \in Nat
  BY <1>2, <1>3, GuessingMoves
<1>6. GuessesBounded'
  BY <1>4, <1>5, Numbers DEF GuessesBounded
<1>7. QED BY <1>1, <1>2, <1>3, <1>4, <1>6, LoginStep

-----------------------------------------------------------------------------
(* Sessions that are opened, exchanged and given back.                       *)

LEMMA SessionsKnown ==
  ASSUME AcInv
  PROVE  /\ sessions \in [rows : SUBSET AcSession, made : Nat, ends : Nat]
         /\ sessions.rows \subseteq AcSession /\ sessions.made \in Nat /\ sessions.ends \in Nat /\ password \in Nat
  BY DEF AcInv, AcTyped, PasswordTyped

\* A step of a request that touches the sessions, as far as the counter and the links go.
LEMMA PasswordStep ==
  ASSUME AcInv, NEW r \in AcRequests, NEW new \in AcRequest \union {None}, ac' = [ac EXCEPT ![r] = new],
         UNCHANGED <<secret, failures, links, halted>>, acLeft' \in [AcEvents -> Nat],
         ac[r] # None => ac[r].pc \notin {"expire", "record"},
         ~IsGuess(new), ~IsLink(new), new # None => ~(new.kind = "reset" /\ new.pc = "forget"),
         PasswordTyped', LineageKept'
  PROVE  AcInv'
<1>1. RequestsTyped'
  BY RequestMoves DEF AcInv, AcTyped, RequestsTyped
<1>2. ~AcAt(r, "link", "record") /\ ~AcAt(r, "login", "expire")
  BY DEF AcAt
<1>3. FailuresTyped' /\ GuessesBounded' /\ CounterExpires'
  BY <1>2, NoLogin
<1>4. LinksTyped' /\ LinksAreNew' /\ ClaimedOnce' /\ InOrder'
  BY <1>2, NoLink
<1>5. SecretTyped'
  BY DEF AcInv, AcTyped, SecretTyped
<1>6. QED BY <1>1, <1>3, <1>4, <1>5 DEF AcInv, AcTyped

\* Rows keep their tokens and passwords, or one is added under a new number.
LEMMA RowsChange ==
  ASSUME AcInv, sessions'.made = sessions.made,
         \A s \in sessions'.rows : \E t \in sessions.rows : t.n = s.n /\ t.password = s.password,
         \A q \in AcRequests : \/ ac'[q] = ac[q] \/ ac'[q] = None
                               \/ ac'[q].kind = "refresh" => Presents(ac'[q])
  PROVE  TokenRows'
BY DEF AcInv, LineageKept, TokenRows, Presents

LEMMA RowAdded ==
  ASSUME AcInv, NEW opened, opened.n = sessions.made + 1, sessions'.made = sessions.made + 1,
         sessions'.rows = sessions.rows \union {opened},
         \A q \in AcRequests : \/ ac'[q] = ac[q] \/ ac'[q] = None
                               \/ ac'[q] \in AcRequest /\ (ac'[q].kind = "refresh" => Presents(ac'[q]))
  PROVE  TokenRows'
<1>1. \A s \in sessions.rows : s.n \in Nat /\ s.n <= sessions.made
  BY SessionsKnown DEF AcInv, LineageKept, TokenRows, AcSession
<1>2. ASSUME NEW q \in AcRequests, ac'[q] # None, ac'[q].kind = "refresh" PROVE Presents(ac[q])'
  <2>1. ac'[q] \in AcRequest /\ Presents(ac'[q])
    BY <1>2 DEF AcInv, AcTyped, RequestsTyped, LineageKept, TokenRows
  <2>2. ac'[q].mine \in Nat
    BY <2>1 DEF AcRequest
  <2>3. QED BY <2>1, <2>2, SessionsKnown DEF Presents
<1>3. /\ \A s \in sessions'.rows : s.n <= sessions'.made
      /\ \A s, t \in sessions'.rows : s.n = t.n => s.password = t.password
  BY <1>1, SessionsKnown DEF AcInv, LineageKept, TokenRows
<1>4. QED BY <1>2, <1>3 DEF TokenRows

\* A step that opens, exchanges or lets go sessions, and ends none.
LEMMA SessionsMove ==
  ASSUME AcInv, UNCHANGED password, sessions'.ends = sessions.ends, NoneEnding' = NoneEnding, TokenRows',
         \A q \in AcRequests : \/ ac'[q] = ac[q] \/ ac'[q] = None
                               \/ ac'[q].began <= sessions.ends /\ (NoneEnding /\ Carries(ac'[q]) => Traced(ac'[q])),
         \A s \in sessions'.rows : s.live /\ s.password # password => s.late \/ ~NoneEnding
  PROVE  LineageKept'
<1>1. \A q \in AcRequests : ac'[q] # None => ac'[q].began <= sessions'.ends
  BY DEF AcInv, LineageKept
<1>2. ASSUME NoneEnding', NEW q \in AcRequests, Carries(ac[q])' PROVE Traced(ac[q])'
  BY <1>2 DEF AcInv, LineageKept, Carries, Traced
<1>3. OldPasswordIsOut'
  BY DEF OldPasswordIsOut, NoneEnding
<1>4. QED BY <1>1, <1>2, <1>3 DEF LineageKept

\* The same for requests: what one becomes, and whether one is ending sessions.
LEMMA OthersStay ==
  ASSUME AcInv, NEW r \in AcRequests, NEW new \in AcRequest \union {None}, ac' = [ac EXCEPT ![r] = new],
         UNCHANGED halted, ~Expelling(r), new # None => new.pc # "revoke" \/ new.kind = "refresh"
  PROVE  /\ ac'[r] = new /\ \A q \in AcRequests \ {r} : ac'[q] = ac[q]
         /\ NoneEnding' = NoneEnding
<1>1. ac'[r] = new /\ \A q \in AcRequests \ {r} : ac'[q] = ac[q]
  BY DEF AcInv, AcTyped, RequestsTyped
<1>2. \A q \in AcRequests : Expelling(q)' <=> Expelling(q)
  BY <1>1 DEF Expelling
<1>3. QED BY <1>1, <1>2 DEF NoneEnding

LEMMA StartRefreshKeeps ==
  ASSUME AcInv, NEW r \in AcRequests, NEW s \in sessions.rows, StartRefresh(r, s)
  PROVE  AcInv'
<1> DEFINE new == [kind |-> "refresh", pc |-> IF s.live THEN "claim" ELSE "revoke", seen |-> s.password,
                   mine |-> s.n, on |-> s.late, began |-> sessions.ends]
<1>1. s \in AcSession /\ s.n \in Nat /\ s.password \in Nat /\ s.late \in BOOLEAN /\ sessions.ends \in Nat
  BY SessionsKnown DEF AcSession
<1>2. new \in AcRequest
  BY <1>1 DEF AcRequest, AcKinds, AcSteps
<1>3. Presents(new)
  BY DEF AcInv, LineageKept, TokenRows, Presents
<1>4. ~IsGuess(new) /\ ~IsLink(new) /\ new.kind # "reset" /\ GoesOn(ac[r], new)
  BY <1>3 DEF IsGuess, IsLink, GoesOn, Carries
<1>5. /\ ac[r] = None /\ ac' = [ac EXCEPT ![r] = new] /\ acLeft' \in [AcEvents -> Nat]
      /\ UNCHANGED <<password, secret, failures, sessions, links, halted>>
  BY LeftType DEF StartRefresh, Opens, AcEvents
<1> HIDE DEF new
<1>6. SecretTyped'
  BY <1>5 DEF AcInv, AcTyped, SecretTyped
<1>7. QED BY <1>2, <1>4, <1>5, <1>6, AccountsQuiet

LEMMA StartSwitchKeeps ==
  ASSUME AcInv, NEW r \in AcRequests, NEW s \in sessions.rows, StartSwitch(r, s)
  PROVE  AcInv'
<1> DEFINE new == [kind |-> "switch", pc |-> "issue", seen |-> s.password, mine |-> 0, on |-> FALSE,
                   began |-> sessions.ends]
<1>1. s.password \in Nat /\ sessions.ends \in Nat
  BY SessionsKnown DEF AcSession
<1>2. new \in AcRequest /\ ~IsGuess(new) /\ ~IsLink(new) /\ new.kind # "reset" /\ GoesOn(ac[r], new)
  BY <1>1 DEF AcRequest, AcKinds, AcSteps, IsGuess, IsLink, GoesOn, Carries
<1>3. /\ ac[r] = None /\ ac' = [ac EXCEPT ![r] = new] /\ acLeft' \in [AcEvents -> Nat]
      /\ UNCHANGED <<password, secret, failures, sessions, links, halted>>
  BY LeftType DEF StartSwitch, Opens, AcEvents
<1> HIDE DEF new
<1>4. SecretTyped'
  BY <1>3 DEF AcInv, AcTyped, SecretTyped
<1>5. QED BY <1>2, <1>3, <1>4, AccountsQuiet

LEMMA ClaimSessionKeeps ==
  ASSUME AcInv, NEW r \in AcRequests, ClaimSession(r)
  PROVE  AcInv'
<1>0. AcAt(r, "refresh", "claim")
  BY DEF ClaimSession
<1>1. ac[r] \in AcRequest /\ ac[r].kind = "refresh" /\ ac[r].pc = "claim" /\ ac[r] # None
  BY <1>0, RequestAt
<1>2. /\ UNCHANGED <<password, secret, failures, links, halted>> /\ acLeft' \in [AcEvents -> Nat] /\ SecretTyped'
  BY DEF ClaimSession, AcInv, AcTyped, RequestsTyped, SecretTyped
<1>3. CASE Over(r) /\ UNCHANGED sessions
  <2>1. ac' = [ac EXCEPT ![r] = None] /\ ~IsGuess(None) /\ ~IsLink(None)
    BY <1>3 DEF Over, IsGuess, IsLink
  <2>2. QED BY <1>1, <1>2, <1>3, <2>1, AccountsQuiet
<1>4. ASSUME NEW s \in sessions.rows, s.n = ac[r].mine, s.live,
             sessions' = [sessions EXCEPT !.rows = (@ \ {s}) \union {[s EXCEPT !.live = FALSE]}],
             ac' = [ac EXCEPT ![r].pc = "issue", ![r].on = s.late, ![r].began = sessions.ends]
      PROVE  AcInv'
  <2> DEFINE new == [ac[r] EXCEPT !.pc = "issue", !.on = s.late, !.began = sessions.ends]
  <2> DEFINE spent == [s EXCEPT !.live = FALSE]
  <2>1. s \in AcSession /\ s.late \in BOOLEAN
    BY SessionsKnown DEF AcSession
  <2>2. ac' = [ac EXCEPT ![r] = new]
    BY <1>4 DEF AcInv, AcTyped, RequestsTyped
  <2>3. spent \in AcSession /\ ~spent.live /\ spent.n = s.n /\ spent.password = s.password
    BY <2>1 DEF AcSession
  <2>4. /\ sessions'.rows = (sessions.rows \ {s}) \union {spent} /\ sessions'.made = sessions.made
        /\ sessions'.ends = sessions.ends /\ PasswordTyped'
    BY <1>2, <1>4, <2>3, SessionsKnown DEF PasswordTyped
  <2>5. new \in AcRequest /\ ~IsGuess(new) /\ ~IsLink(new) /\ new # None /\ new.kind = "refresh" /\ new.pc = "issue"
        /\ new.began = sessions.ends /\ new.seen = ac[r].seen /\ new.mine = ac[r].mine /\ (new.on <=> s.late)
    <3> DEFINE one == [ac[r] EXCEPT !.pc = "issue"]
    <3> DEFINE two == [one EXCEPT !.on = s.late]
    <3>1. /\ one \in AcRequest /\ one.kind = "refresh" /\ one.pc = "issue" /\ one.seen = ac[r].seen
          /\ one.mine = ac[r].mine
      BY <1>1 DEF AcRequest, AcSteps
    <3>2. /\ two \in AcRequest /\ two.kind = "refresh" /\ two.pc = "issue" /\ two.seen = ac[r].seen
          /\ two.mine = ac[r].mine /\ (two.on <=> s.late)
      <4> HIDE DEF one
      <4>1. QED BY <2>1, <3>1 DEF AcRequest
    <3>3. new = [two EXCEPT !.began = sessions.ends]
      BY <1>1 DEF AcRequest
    <3> HIDE DEF one, two, new
    <3>4. /\ new \in AcRequest /\ new.kind = "refresh" /\ new.pc = "issue" /\ new.seen = ac[r].seen
          /\ new.mine = ac[r].mine /\ (new.on <=> s.late) /\ new.began = sessions.ends
      BY <3>2, <3>3, SessionsKnown DEF AcRequest
    <3>5. ~IsGuess(new) /\ ~IsLink(new)
      BY <3>4 DEF IsGuess, IsLink
    <3>6. new # None
      <4>1. \A x \in AcRequest : "kind" \in DOMAIN x
        BY DEF AcRequest
      <4>2. DOMAIN None = {}
        BY DEF None
      <4>3. QED BY <3>4, <4>1, <4>2
    <3>7. QED BY <3>4, <3>5, <3>6
  <2>6. Presents(ac[r])
    BY <1>1 DEF AcInv, LineageKept, TokenRows
  <2>7. s.password = ac[r].seen
    BY <1>4, <2>6 DEF Presents
  <2>8. Presents(new)
    BY <2>5, <2>6 DEF Presents
  <2>9. NoneEnding => Traced(new)
    <3>1. NoneEnding /\ s.password # password => s.late
      BY <1>4 DEF AcInv, LineageKept, OldPasswordIsOut, NoneEnding
    <3>2. QED BY <2>5, <2>7, <3>1 DEF Traced
  <2> HIDE DEF new, spent
  <2>10. /\ ac'[r] = new /\ \A q \in AcRequests \ {r} : ac'[q] = ac[q]
         /\ NoneEnding' = NoneEnding
    <3>1. ~Expelling(r)
      BY <1>1 DEF Expelling
    <3>2. QED BY <1>2, <2>2, <2>5, <3>1, OthersStay
  <2>11. TokenRows'
    <3>1. \A t \in sessions'.rows : \E u \in sessions.rows : u.n = t.n /\ u.password = t.password
      BY <2>3, <2>4
    <3>2. \A q \in AcRequests : ac'[q] = ac[q] \/ Presents(ac'[q])
      BY <2>8, <2>10
    <3>3. QED BY <2>4, <3>1, <3>2, RowsChange
  <2>12. LineageKept'
    <3>1. \A t \in sessions'.rows : t.live /\ t.password # password => t.late \/ ~NoneEnding
      BY <2>3, <2>4 DEF AcInv, LineageKept, OldPasswordIsOut, NoneEnding
    <3>2. \A q \in AcRequests : \/ ac'[q] = ac[q]
                                \/ ac'[q].began <= sessions.ends /\ (NoneEnding /\ Carries(ac'[q]) => Traced(ac'[q]))
      BY <2>5, <2>9, <2>10, SessionsKnown
    <3>3. QED BY <1>2, <2>4, <2>10, <2>11, <3>1, <3>2, SessionsMove
  <2>13. QED BY <1>1, <1>2, <2>2, <2>4, <2>5, <2>12, PasswordStep
<1>5. QED BY <1>3, <1>4 DEF ClaimSession, Exchangeable

LEMMA AccessLapsesKeeps ==
  ASSUME AcInv, NEW s \in sessions.rows, AccessLapses(s)
  PROVE  AcInv'
<1>1. UNCHANGED <<password, secret, failures, links, ac, halted, acLeft>>
  BY DEF AccessLapses
<1>2. s \in AcSession
  BY SessionsKnown
<1> DEFINE lapsed == [s EXCEPT !.access = FALSE]
<1>3. /\ lapsed \in AcSession /\ lapsed.n = s.n /\ lapsed.password = s.password
      /\ (lapsed.live <=> s.live) /\ (lapsed.late <=> s.late)
  BY <1>2 DEF AcSession
<1>4. /\ sessions'.rows = (sessions.rows \ {s}) \union {lapsed} /\ sessions'.made = sessions.made
      /\ sessions'.ends = sessions.ends /\ PasswordTyped'
  BY <1>1, <1>3, SessionsKnown DEF PasswordTyped, AccessLapses
<1> HIDE DEF lapsed
<1>5. NoneEnding' = NoneEnding
  BY <1>1 DEF NoneEnding, Expelling
<1>6. TokenRows'
  BY <1>1, <1>3, <1>4, RowsChange
<1>7. \A t \in sessions'.rows : t.live /\ t.password # password => t.late \/ ~NoneEnding
  BY <1>3, <1>4 DEF AcInv, LineageKept, OldPasswordIsOut, NoneEnding
<1>8. LineageKept'
  BY <1>1, <1>4, <1>5, <1>6, <1>7, SessionsMove
<1>9. /\ SecretTyped' /\ FailuresTyped' /\ RequestsTyped' /\ LinksTyped'
      /\ GuessesBounded' /\ CounterExpires' /\ LinksAreNew' /\ ClaimedOnce' /\ InOrder'
  BY <1>1 DEF AcInv, AcTyped, SecretTyped, FailuresTyped, RequestsTyped, LinksTyped,
              GuessesBounded, Guessing, CounterExpires, LinksAreNew, ClaimedOnce, InOrder, AcAt
<1>10. QED BY <1>4, <1>8, <1>9 DEF AcInv, AcTyped

\* A session is opened, or not; the request is over, or gives its token back.
LEMMA OpeningKeeps ==
  ASSUME AcInv, NEW r \in AcRequests, Issues(r), NEW new \in AcRequest \union {None}, ac' = [ac EXCEPT ![r] = new],
         new # None => /\ ac[r].kind = "refresh" /\ new.kind = "refresh" /\ new.pc = "release"
                       /\ new.seen = ac[r].seen /\ new.mine = ac[r].mine /\ new.on = ac[r].on
                       /\ new.began = ac[r].began,
         sessions' = sessions \/ sessions' = Opened(ac[r]),
         UNCHANGED <<password, secret, failures, links, halted>>, acLeft' \in [AcEvents -> Nat]
  PROVE  AcInv'
<1>1. ac[r] \in AcRequest /\ ac[r].kind \in {"login", "refresh", "switch"} /\ ac[r].pc = "issue" /\ ac[r] # None
      /\ ac[r].seen \in Nat
  BY RequestAt DEF Issues, AcRequest
<1>2. ~Expelling(r) /\ ~IsGuess(new) /\ ~IsLink(new)
  BY <1>1 DEF Expelling, IsGuess, IsLink
<1>3. ac'[r] = new /\ (\A q \in AcRequests \ {r} : ac'[q] = ac[q]) /\ NoneEnding' = NoneEnding
  BY <1>2, OthersStay
<1>4. new # None => Presents(new)
  BY <1>1 DEF AcInv, LineageKept, TokenRows, Presents
<1>5. NoneEnding /\ ac[r].kind # "switch" => Traced(ac[r])
  BY <1>1 DEF AcInv, LineageKept, Carries
<1>6. \A q \in AcRequests :
        \/ ac'[q] = ac[q] \/ ac'[q] = None
        \/ ac'[q].began <= sessions.ends /\ (NoneEnding /\ Carries(ac'[q]) => Traced(ac'[q]))
  BY <1>1, <1>3, <1>5 DEF Traced, AcInv, LineageKept
<1>7. PasswordTyped' /\ LineageKept'
  <2>1. CASE sessions' = sessions
    <3>1. TokenRows'
      BY <1>3, <1>4, <2>1, RowsChange
    <3>2. \A t \in sessions'.rows : t.live /\ t.password # password => t.late \/ ~NoneEnding
      BY <2>1 DEF AcInv, LineageKept, OldPasswordIsOut, NoneEnding
    <3>3. QED BY <1>3, <1>6, <2>1, <3>1, <3>2, SessionsMove DEF AcInv, AcTyped, PasswordTyped
  <2>2. CASE sessions' = Opened(ac[r])
    <3>1. PICK late \in BOOLEAN : late = Outlives(ac[r])
      BY DEF Outlives
    <3> DEFINE opened == [n |-> sessions.made + 1, password |-> ac[r].seen, live |-> TRUE, access |-> TRUE, late |-> late]
    <3>2. opened \in AcSession /\ opened.n = sessions.made + 1 /\ opened.password = ac[r].seen /\ opened.late = late
      BY <1>1, SessionsKnown DEF AcSession
    <3>3. sessions' = [sessions EXCEPT !.made = @ + 1, !.rows = @ \union {opened}]
      BY <2>2, <3>1, Zenon DEF Opened
    <3> HIDE DEF opened
    <3>4. /\ sessions'.made = sessions.made + 1 /\ sessions'.rows = sessions.rows \union {opened}
          /\ sessions'.ends = sessions.ends /\ PasswordTyped'
      <4>1. sessions' = [[sessions EXCEPT !.made = sessions.made + 1] EXCEPT !.rows = sessions.rows \union {opened}]
        BY <3>3, SessionsKnown
      <4>2. [sessions EXCEPT !.made = sessions.made + 1] \in [rows : SUBSET AcSession, made : Nat, ends : Nat]
        BY SessionsKnown
      <4>3. sessions' \in [rows : SUBSET AcSession, made : Nat, ends : Nat]
        BY <3>2, <4>1, <4>2, SessionsKnown
      <4>4. QED BY <3>3, <4>3, SessionsKnown DEF PasswordTyped
    <3>5. TokenRows'
      BY <1>3, <1>4, <3>2, <3>4, RowAdded
    <3>6. NoneEnding /\ ac[r].seen # password => late
      <4>1. NoneEnding /\ ac[r].seen # password => Outlives(ac[r])
        BY <1>1, <1>5 DEF Traced, Outlives
      <4>2. QED BY <3>1, <4>1
    <3>7. \A t \in sessions'.rows : t.live /\ t.password # password => t.late \/ ~NoneEnding
      BY <3>2, <3>4, <3>6 DEF AcInv, LineageKept, OldPasswordIsOut, NoneEnding
    <3>8. QED BY <1>3, <1>6, <3>4, <3>5, <3>7, SessionsMove
  <2>3. QED BY <2>1, <2>2
<1>8. QED BY <1>1, <1>2, <1>7, PasswordStep

LEMMA IssueTokensKeeps ==
  ASSUME AcInv, NEW r \in AcRequests, IssueTokens(r)
  PROVE  AcInv'
<1>1. /\ UNCHANGED <<password, secret, failures, links, halted>> /\ acLeft' \in [AcEvents -> Nat]
      /\ ac' = [ac EXCEPT ![r] = None] /\ sessions' = Opened(ac[r]) /\ Issues(r)
  BY DEF IssueTokens, Over, AcInv, AcTyped, RequestsTyped
<1>2. QED BY <1>1, OpeningKeeps

LEMMA IssueFailsKeeps ==
  ASSUME AcInv, NEW r \in AcRequests, IssueFails(r)
  PROVE  AcInv'
<1>1. /\ UNCHANGED <<password, secret, failures, links, halted>> /\ acLeft' \in [AcEvents -> Nat] /\ Issues(r)
      /\ sessions' = sessions \/ sessions' = Opened(ac[r])
  BY LeftType DEF IssueFails, AcFault, AcEvents
<1>2. CASE Over(r)
  BY <1>1, <1>2, OpeningKeeps DEF Over
<1>3. CASE ac[r].kind = "refresh" /\ Then(r, "release")
  <2> DEFINE new == [ac[r] EXCEPT !.pc = "release"]
  <2>1. ac[r] \in AcRequest
    BY <1>1, RequestAt DEF Issues
  <2>2. "release" \in AcSteps
    BY DEF AcSteps
  <2>3. /\ new \in AcRequest /\ new.pc = "release" /\ new.kind = ac[r].kind /\ new.seen = ac[r].seen
        /\ new.mine = ac[r].mine /\ new.on = ac[r].on /\ new.began = ac[r].began
    BY <2>1, <2>2, RequestGoes
  <2>4. ac' = [ac EXCEPT ![r] = new]
    BY <1>3 DEF Then
  <2> HIDE DEF new
  <2>5. QED BY <1>1, <1>3, <2>3, <2>4, OpeningKeeps
<1>4. QED BY <1>2, <1>3 DEF IssueFails

LEMMA ReleaseTokenKeeps ==
  ASSUME AcInv, NEW r \in AcRequests, ReleaseToken(r)
  PROVE  AcInv'
<1>0. AcAt(r, "refresh", "release")
  BY DEF ReleaseToken
<1>1. ac[r] \in AcRequest /\ ac[r].kind = "refresh" /\ ac[r].pc = "release" /\ ac[r] # None
  BY <1>0, RequestAt
<1>2. /\ UNCHANGED <<password, secret, failures, links, halted>> /\ acLeft' \in [AcEvents -> Nat]
      /\ ac' = [ac EXCEPT ![r] = None] /\ ~IsGuess(None) /\ ~IsLink(None) /\ ~Expelling(r)
  BY <1>1 DEF ReleaseToken, Over, AcInv, AcTyped, RequestsTyped, IsGuess, IsLink, Expelling
<1>3. (\A q \in AcRequests : ac'[q] = ac[q] \/ ac'[q] = None) /\ NoneEnding' = NoneEnding
  BY <1>2, OthersStay
<1>4. PICK out \in BOOLEAN : out = Outlives(ac[r])
  BY DEF Outlives
<1> DEFINE Given(s) == IF s.n = ac[r].mine THEN [s EXCEPT !.live = TRUE, !.late = @ \/ out] ELSE s
<1>5. sessions' = [sessions EXCEPT !.rows = {Given(s) : s \in @}]
  BY <1>4, Zenon DEF ReleaseToken
<1>6. ASSUME NEW s \in sessions.rows
      PROVE  /\ Given(s) \in AcSession /\ Given(s).n = s.n /\ Given(s).password = s.password
             /\ Given(s).live => \/ s.live /\ (Given(s).late <=> s.late)
                                 \/ s.n = ac[r].mine /\ (Given(s).late <=> s.late \/ out)
  <2>1. s \in AcSession /\ s.late \in BOOLEAN
    BY SessionsKnown DEF AcSession
  <2>2. PICK both \in BOOLEAN : both = (s.late \/ out)
    OBVIOUS
  <2>3. CASE s.n = ac[r].mine
    <3>1. Given(s) = [[s EXCEPT !.live = TRUE] EXCEPT !.late = both]
      BY <2>1, <2>2, <2>3 DEF AcSession
    <3>2. [s EXCEPT !.live = TRUE] \in AcSession
      BY <2>1 DEF AcSession
    <3> HIDE DEF Given
    <3>3. Given(s) \in AcSession /\ Given(s).n = s.n /\ Given(s).password = s.password /\ (Given(s).late <=> both)
      BY <2>1, <3>1, <3>2 DEF AcSession
    <3>4. QED BY <2>2, <2>3, <3>3
  <2>4. CASE s.n # ac[r].mine
    BY <2>1, <2>4 DEF AcSession
  <2>5. QED BY <2>3, <2>4
<1> HIDE DEF Given
<1>7. /\ sessions'.rows = {Given(s) : s \in sessions.rows} /\ sessions'.made = sessions.made
      /\ sessions'.ends = sessions.ends /\ PasswordTyped'
  BY <1>2, <1>5, <1>6, SessionsKnown DEF PasswordTyped
<1>8. TokenRows'
  <2>1. \A s \in sessions'.rows : \E t \in sessions.rows : t.n = s.n /\ t.password = s.password
    BY <1>6, <1>7
  <2>2. QED BY <1>3, <1>7, <2>1, RowsChange
<1>9. ASSUME NEW s \in sessions.rows, Given(s).live, Given(s).password # password, NoneEnding
      PROVE  Given(s).late
  <2>1. CASE s.live /\ (Given(s).late <=> s.late)
    BY <1>6, <1>9, <2>1 DEF AcInv, LineageKept, OldPasswordIsOut, NoneEnding
  <2>2. CASE s.n = ac[r].mine /\ (Given(s).late <=> s.late \/ out)
    <3>1. s.password = ac[r].seen
      BY <1>1, <2>2 DEF AcInv, LineageKept, TokenRows, Presents
    <3>2. Traced(ac[r])
      BY <1>1, <1>9 DEF AcInv, LineageKept, Carries
    <3>3. Outlives(ac[r])
      BY <1>1, <1>6, <1>9, <3>1, <3>2 DEF Traced, Outlives
    <3>4. out
      BY <1>4, <3>3
    <3>5. QED BY <2>2, <3>4
  <2>3. QED BY <1>6, <1>9, <2>1, <2>2
<1>10. LineageKept'
  <2>1. \A t \in sessions'.rows : t.live /\ t.password # password => t.late \/ ~NoneEnding
    BY <1>7, <1>9
  <2>2. QED BY <1>2, <1>3, <1>7, <1>8, <2>1, SessionsMove
<1>11. QED BY <1>1, <1>2, <1>7, <1>10, PasswordStep

-----------------------------------------------------------------------------
(* A forgotten password, step by step.                                       *)

LEMMA RequestResetKeeps ==
  ASSUME AcInv, NEW r \in AcRequests, RequestReset(r)
  PROVE  AcInv'
<1> DEFINE new == [kind |-> "link", pc |-> IF links.latest = 0 THEN "link" ELSE "unlink",
                   seen |-> links.latest, mine |-> links.issued + 1, on |-> FALSE,
                   began |-> sessions.ends]
<1>1. /\ UNCHANGED <<password, secret, failures, sessions, halted>> /\ acLeft' \in [AcEvents -> Nat]
      /\ ac' = [ac EXCEPT ![r] = new] /\ ac[r] = None
  BY LeftType DEF RequestReset, Opens, AcEvents
<1>2. PICK c : c = (links.crossed \/ \E q \in AcRequests : ac[q] # None /\ ac[q].kind = "link")
  OBVIOUS
<1>3. c \in BOOLEAN /\ links' = [links EXCEPT !.issued = @ + 1, !.crossed = c]
  BY <1>2 DEF RequestReset
<1>4. links \in AcLinks
  BY DEF AcInv, AcTyped, LinksTyped
<1>5. /\ links' \in AcLinks /\ links'.issued = links.issued + 1 /\ links'.crossed = c
      /\ links'.alive = links.alive /\ links'.used = links.used /\ links'.again = links.again
      /\ links'.latest = links.latest /\ links.issued \in Nat /\ links.latest \in Nat
      /\ links.alive \subseteq Nat /\ links.used \subseteq Nat
  <2>1. links.issued \in Nat /\ links.latest \in Nat /\ links.alive \subseteq Nat /\ links.used \subseteq Nat
    BY <1>4 DEF AcLinks
  <2>2. links' = [[links EXCEPT !.issued = links.issued + 1] EXCEPT !.crossed = c]
    BY <1>3, <1>4 DEF AcLinks
  <2>3. [links EXCEPT !.issued = links.issued + 1] \in AcLinks
    BY <1>4, <2>1 DEF AcLinks
  <2>4. links' \in AcLinks
    BY <1>3, <2>2, <2>3 DEF AcLinks
  <2>5. QED BY <1>3, <1>4, <2>1, <2>2, <2>4 DEF AcLinks
<1>6. /\ new \in AcRequest /\ ~IsGuess(new) /\ IsLink(new) /\ Storing(new) /\ new.kind = "link" /\ GoesOn(ac[r], new)
      /\ new.seen = links.latest /\ new.mine = links.issued + 1
      /\ new.pc = (IF links.latest = 0 THEN "link" ELSE "unlink")
  BY <1>5 DEF AcInv, AcTyped, PasswordTyped, AcRequest, AcKinds, AcSteps, IsGuess, IsLink, Storing, None, GoesOn, Carries
<1> HIDE DEF new
<1>7. ac'[r] = new /\ \A q \in AcRequests \ {r} : ac'[q] = ac[q]
  BY <1>1 DEF AcInv, AcTyped, RequestsTyped
<1>8. \A q \in AcRequests : Storing(ac[q]) => ac[q].mine <= links.issued /\ ac[q].mine \in Int
  <2> SUFFICES ASSUME NEW q \in AcRequests, Storing(ac[q])
               PROVE  ac[q].mine <= links.issued /\ ac[q].mine \in Int
    OBVIOUS
  <2>1. ac[q] \in AcRequest
    BY DEF AcInv, AcTyped, RequestsTyped, Storing
  <2>2. ac[q].mine <= links.issued
    BY DEF AcInv, LinksAreNew
  <2>3. QED BY <2>1, <2>2 DEF AcRequest
<1>9. LinksAreNew'
  <2>1. \A n \in links'.alive \union links'.used : 0 < n /\ n <= links'.issued
    <3>1. \A n \in links.alive \union links.used : 0 < n /\ n <= links.issued /\ n \in Nat
      BY <1>5 DEF AcInv, LinksAreNew
    <3>2. QED BY <1>5, <3>1
  <2>2. links.issued + 1 \notin links.alive \union links.used
    BY <1>5 DEF AcInv, LinksAreNew
  <2>3. ASSUME NEW p \in AcRequests, Storing(ac'[p])
        PROVE  /\ 0 < ac'[p].mine /\ ac'[p].mine <= links'.issued
               /\ ac'[p].mine \notin links'.alive \union links'.used
               /\ \A q \in AcRequests \ {p} : Storing(ac'[q]) => ac'[q].mine # ac'[p].mine
    <3>1. CASE p = r
      <4>1. ac'[p].mine = links.issued + 1
        BY <1>6, <1>7, <3>1
      <4>2. \A q \in AcRequests \ {p} : Storing(ac'[q]) => ac'[q].mine # ac'[p].mine
        BY <1>5, <1>7, <1>8, <3>1, <4>1
      <4>3. QED BY <1>5, <2>2, <4>1, <4>2
    <3>2. CASE p # r
      <4>1. Storing(ac[p]) /\ ac'[p] = ac[p]
        BY <1>7, <2>3, <3>2
      <4>2. /\ 0 < ac[p].mine /\ ac[p].mine <= links.issued
            /\ ac[p].mine \notin links.alive \union links.used
            /\ \A q \in AcRequests \ {p} : Storing(ac[q]) => ac[q].mine # ac[p].mine
        BY <4>1 DEF AcInv, LinksAreNew
      <4>3. \A q \in AcRequests \ {p} : Storing(ac'[q]) => ac'[q].mine # ac'[p].mine
        BY <1>5, <1>6, <1>7, <1>8, <4>1, <4>2
      <4>4. QED BY <1>5, <1>8, <4>1, <4>2, <4>3
    <3>3. QED BY <3>1, <3>2
  <2>4. QED BY <2>1, <2>3 DEF LinksAreNew
<1>10. ClaimedOnce'
  BY <1>5, <1>6, <1>7 DEF AcInv, ClaimedOnce, AcAt
<1>11. InOrder'
  <2> SUFFICES ASSUME ~links'.crossed, "link" \notin halted
               PROVE  /\ \A p, q \in AcRequests : IsLink(ac'[p]) /\ IsLink(ac'[q]) => p = q
                      /\ (\A p \in AcRequests : ~AcAt(p, "link", "record")') => links'.alive \subseteq {links'.latest}
                      /\ \A p \in AcRequests :
                           /\ AcAt(p, "link", "unlink")' => links'.alive \subseteq {ac'[p].seen}
                           /\ AcAt(p, "link", "link")' => links'.alive = {}
                           /\ AcAt(p, "link", "record")' => links'.alive \subseteq {ac'[p].mine}
    BY <1>1 DEF InOrder
  <2>1. ~links.crossed /\ \A q \in AcRequests : ~IsLink(ac[q])
    BY <1>2, <1>5 DEF IsLink
  <2>2. links.alive \subseteq {links.latest}
    BY <2>1 DEF AcInv, InOrder, AcAt, IsLink
  <2>3. links.latest = 0 => links.alive = {}
    BY <2>2 DEF AcInv, LinksAreNew
  <2>4. \A q \in AcRequests : IsLink(ac'[q]) => q = r
    BY <1>7, <2>1
  <2>5. ASSUME NEW p \in AcRequests
        PROVE  /\ AcAt(p, "link", "unlink")' => links'.alive \subseteq {ac'[p].seen}
               /\ AcAt(p, "link", "link")' => links'.alive = {}
               /\ AcAt(p, "link", "record")' => links'.alive \subseteq {ac'[p].mine}
    BY <1>5, <1>6, <1>7, <2>2, <2>3, <2>4 DEF AcAt, IsLink
  <2>6. QED BY <1>5, <2>2, <2>4, <2>5
<1>12. QED BY <1>1, <1>4, <1>5, <1>6, <1>9, <1>10, <1>11, LinkStep DEF LinksTyped

\* What is known of the links, and of a request that works on them.
LEMMA LinksKnown ==
  ASSUME AcInv
  PROVE  /\ links \in AcLinks /\ links.alive \subseteq Nat /\ links.used \subseteq Nat
         /\ \A n \in links.alive \union links.used : 0 < n /\ n <= links.issued
         /\ ~links.again /\ links.alive \intersect links.used = {}
  BY DEF AcInv, AcTyped, LinksTyped, AcLinks, LinksAreNew, ClaimedOnce

\* A request of a link moves on, or ends, when it has stored its own.
LEMMA StillNew ==
  ASSUME AcInv, NEW r \in AcRequests, NEW new \in AcRequest \union {None}, ac' = [ac EXCEPT ![r] = new],
         links'.issued = links.issued, links'.alive \subseteq links.alive, links'.used = links.used,
         links'.again = links.again,
         Storing(new) => Storing(ac[r]) /\ new.mine = ac[r].mine, new # None => new.kind = "link"
  PROVE  LinksAreNew' /\ ClaimedOnce'
<1>1. ac'[r] = new /\ \A q \in AcRequests \ {r} : ac'[q] = ac[q]
  BY DEF AcInv, AcTyped, RequestsTyped
<1>2. \A q \in AcRequests : Storing(ac'[q]) => Storing(ac[q]) /\ ac'[q].mine = ac[q].mine
  BY <1>1
<1>3. LinksAreNew'
  BY <1>2 DEF AcInv, LinksAreNew
<1>4. ClaimedOnce'
  BY <1>1 DEF AcInv, ClaimedOnce, AcAt
<1>5. QED BY <1>3, <1>4

LEMMA DropPreviousKeeps ==
  ASSUME AcInv, NEW r \in AcRequests, DropPrevious(r)
  PROVE  AcInv'
<1>0. AcAt(r, "link", "unlink")
  BY DEF DropPrevious
<1>1. ac[r] \in AcRequest /\ ac[r].kind = "link" /\ ac[r].pc = "unlink" /\ ac[r] # None /\ ac[r].seen \in Nat
  BY <1>0, RequestAt DEF AcRequest
<1> DEFINE new == [ac[r] EXCEPT !.pc = "link"]
<1>2. new \in AcRequest /\ new.kind = "link" /\ new.pc = "link" /\ new.mine = ac[r].mine /\ ~IsGuess(new) /\ GoesOn(ac[r], new)
  <2>1. "link" \in AcSteps
    BY DEF AcSteps
  <2>2. new \in AcRequest /\ new.pc = "link" /\ new.kind = ac[r].kind /\ new.mine = ac[r].mine /\ new # None
    /\ GoesOn(ac[r], new)
    BY <1>1, <2>1, RequestGoes
  <2>3. QED BY <1>1, <2>2 DEF IsGuess
<1>3. /\ UNCHANGED <<password, secret, failures, sessions, halted>> /\ acLeft' \in [AcEvents -> Nat]
      /\ ac' = [ac EXCEPT ![r] = new] /\ links' = [links EXCEPT !.alive = @ \ {ac[r].seen}]
  BY DEF DropPrevious, Then, Without, AcInv, AcTyped, RequestsTyped
<1> HIDE DEF new
<1>4. /\ links' \in AcLinks /\ links'.alive = links.alive \ {ac[r].seen} /\ links'.issued = links.issued
      /\ links'.used = links.used /\ links'.again = links.again /\ links'.crossed = links.crossed
      /\ links'.latest = links.latest
  BY <1>3, LinksKnown DEF AcLinks
<1>5. LinksAreNew' /\ ClaimedOnce'
  <2>1. Storing(ac[r])
    BY <1>1 DEF Storing
  <2>2. QED BY <1>2, <1>3, <1>4, <2>1, StillNew
<1>6. ac'[r] = new /\ \A q \in AcRequests \ {r} : ac'[q] = ac[q]
  BY <1>3 DEF AcInv, AcTyped, RequestsTyped
<1>7. InOrder'
  <2> SUFFICES ASSUME ~links.crossed, "link" \notin halted
               PROVE  /\ \A p, q \in AcRequests : IsLink(ac'[p]) /\ IsLink(ac'[q]) => p = q
                      /\ links'.alive = {}
    BY <1>3, <1>4 DEF InOrder
  <2>1. \A p, q \in AcRequests : IsLink(ac[p]) /\ IsLink(ac[q]) => p = q
    BY DEF AcInv, InOrder
  <2>2. links.alive \subseteq {ac[r].seen}
    BY <1>0 DEF AcInv, InOrder
  <2>3. \A q \in AcRequests : IsLink(ac'[q]) => IsLink(ac[q])
    BY <1>1, <1>6 DEF IsLink
  <2>4. QED BY <1>4, <2>1, <2>2, <2>3
<1>8. QED BY <1>1, <1>2, <1>3, <1>4, <1>5, <1>7, LinkStep DEF LinksTyped


LEMMA StoreLinkKeeps ==
  ASSUME AcInv, NEW r \in AcRequests, StoreLink(r)
  PROVE  AcInv'
<1>0. AcAt(r, "link", "link")
  BY DEF StoreLink
<1>1. ac[r] \in AcRequest /\ ac[r].kind = "link" /\ ac[r].pc = "link" /\ ac[r] # None /\ ac[r].mine \in Nat
  BY <1>0, RequestAt DEF AcRequest
<1> DEFINE new == [ac[r] EXCEPT !.pc = "record"]
<1>2. /\ new \in AcRequest /\ new.kind = "link" /\ new.pc = "record" /\ new.mine = ac[r].mine
      /\ ~IsGuess(new) /\ ~Storing(new) /\ IsLink(new) /\ GoesOn(ac[r], new)
  <2>1. "record" \in AcSteps
    BY DEF AcSteps
  <2>2. new \in AcRequest /\ new.pc = "record" /\ new.kind = ac[r].kind /\ new.mine = ac[r].mine /\ new # None
    /\ GoesOn(ac[r], new)
    BY <1>1, <2>1, RequestGoes
  <2>3. QED BY <1>1, <2>2 DEF IsGuess, Storing, IsLink
<1>3. /\ UNCHANGED <<password, secret, failures, sessions, halted>> /\ acLeft' \in [AcEvents -> Nat]
      /\ ac' = [ac EXCEPT ![r] = new] /\ links' = [links EXCEPT !.alive = @ \union {ac[r].mine}]
  BY DEF StoreLink, Then, AcInv, AcTyped, RequestsTyped
<1> HIDE DEF new
<1>4. /\ links' \in AcLinks /\ links'.alive = links.alive \union {ac[r].mine} /\ links'.issued = links.issued
      /\ links'.used = links.used /\ links'.again = links.again /\ links'.crossed = links.crossed
      /\ links'.latest = links.latest
  BY <1>1, <1>3, LinksKnown DEF AcLinks
<1>5. ac'[r] = new /\ \A q \in AcRequests \ {r} : ac'[q] = ac[q]
  BY <1>3 DEF AcInv, AcTyped, RequestsTyped
<1>6. /\ 0 < ac[r].mine /\ ac[r].mine <= links.issued
      /\ ac[r].mine \notin links.alive \union links.used
      /\ \A q \in AcRequests \ {r} : Storing(ac[q]) => ac[q].mine # ac[r].mine
  <2>1. Storing(ac[r])
    BY <1>1 DEF Storing
  <2>2. QED BY <2>1 DEF AcInv, LinksAreNew
<1>7. LinksAreNew'
  <2>1. \A p \in AcRequests : Storing(ac'[p]) => p # r /\ ac'[p] = ac[p]
    BY <1>2, <1>5
  <2>2. \A n \in links'.alive \union links'.used : 0 < n /\ n <= links'.issued
    BY <1>4, <1>6, LinksKnown
  <2>3. QED BY <1>4, <1>6, <2>1, <2>2 DEF AcInv, LinksAreNew
<1>8. ClaimedOnce'
  BY <1>2, <1>4, <1>5, <1>6 DEF AcInv, ClaimedOnce, AcAt
<1>9. InOrder'
  <2> SUFFICES ASSUME ~links.crossed, "link" \notin halted
               PROVE  /\ \A p, q \in AcRequests : IsLink(ac'[p]) /\ IsLink(ac'[q]) => p = q
                      /\ ~(\A p \in AcRequests : ~AcAt(p, "link", "record")')
                      /\ \A p \in AcRequests : IsLink(ac'[p]) => p = r
                      /\ links'.alive \subseteq {ac'[r].mine}
    BY <1>2, <1>3, <1>4, <1>5 DEF InOrder, AcAt, IsLink
  <2>1. \A p, q \in AcRequests : IsLink(ac[p]) /\ IsLink(ac[q]) => p = q
    BY DEF AcInv, InOrder
  <2>2. links.alive = {}
    BY <1>0 DEF AcInv, InOrder
  <2>3. \A q \in AcRequests : IsLink(ac'[q]) => IsLink(ac[q])
    BY <1>1, <1>5 DEF IsLink
  <2>4. AcAt(r, "link", "record")'
    BY <1>2, <1>5 DEF AcAt, IsLink
  <2>5. IsLink(ac[r])
    BY <1>1 DEF IsLink
  <2>6. QED BY <1>2, <1>4, <1>5, <2>1, <2>2, <2>3, <2>4, <2>5
<1>10. QED BY <1>1, <1>2, <1>3, <1>4, <1>7, <1>8, <1>9, LinkStep DEF LinksTyped

LEMMA RecordLinkKeeps ==
  ASSUME AcInv, NEW r \in AcRequests, RecordLink(r)
  PROVE  AcInv'
<1>0. AcAt(r, "link", "record")
  BY DEF RecordLink
<1>1. ac[r] \in AcRequest /\ ac[r].kind = "link" /\ ac[r].pc = "record" /\ ac[r] # None /\ ac[r].mine \in Nat
  BY <1>0, RequestAt DEF AcRequest
<1> DEFINE new == [ac[r] EXCEPT !.pc = "mail"]
<1>2. /\ new \in AcRequest /\ new.kind = "link" /\ new.pc = "mail" /\ ~IsGuess(new) /\ ~Storing(new) /\ GoesOn(ac[r], new)
  <2>1. "mail" \in AcSteps
    BY DEF AcSteps
  <2>2. new \in AcRequest /\ new.kind = "link" /\ new.pc = "mail" /\ GoesOn(ac[r], new)
    BY <1>1, <2>1, RequestGoes
  <2> HIDE DEF new
  <2>3. QED BY <2>2 DEF IsGuess, Storing
<1>3. /\ UNCHANGED <<password, secret, failures, sessions, halted>> /\ acLeft' \in [AcEvents -> Nat]
      /\ ac' = [ac EXCEPT ![r] = new] /\ links' = [links EXCEPT !.latest = ac[r].mine]
  BY DEF RecordLink, Then, AcInv, AcTyped, RequestsTyped
<1> HIDE DEF new
<1>4. /\ links' \in AcLinks /\ links'.alive = links.alive /\ links'.issued = links.issued
      /\ links'.used = links.used /\ links'.again = links.again /\ links'.crossed = links.crossed
      /\ links'.latest = ac[r].mine
  BY <1>1, <1>3, LinksKnown DEF AcLinks
<1>5. LinksAreNew' /\ ClaimedOnce'
  BY <1>2, <1>3, <1>4, StillNew
<1>6. ac'[r] = new /\ \A q \in AcRequests \ {r} : ac'[q] = ac[q]
  BY <1>3 DEF AcInv, AcTyped, RequestsTyped
<1>7. InOrder'
  <2> SUFFICES ASSUME ~links.crossed, "link" \notin halted
               PROVE  /\ \A p, q \in AcRequests : IsLink(ac'[p]) /\ IsLink(ac'[q]) => p = q
                      /\ links.alive \subseteq {links'.latest}
                      /\ \A p \in AcRequests : IsLink(ac'[p]) => p = r
    BY <1>2, <1>3, <1>4, <1>6 DEF InOrder, AcAt, IsLink
  <2>1. \A p, q \in AcRequests : IsLink(ac[p]) /\ IsLink(ac[q]) => p = q
    BY DEF AcInv, InOrder
  <2>2. links.alive \subseteq {ac[r].mine}
    BY <1>0 DEF AcInv, InOrder
  <2>3. IsLink(ac[r]) /\ \A q \in AcRequests : IsLink(ac'[q]) => IsLink(ac[q])
    BY <1>1, <1>6 DEF IsLink
  <2>4. QED BY <1>4, <2>1, <2>2, <2>3
<1>8. QED BY <1>1, <1>2, <1>3, <1>4, <1>5, <1>7, LinkStep DEF LinksTyped

\* The links keep their order when fewer of them work, or none is on its way any more.
LEMMA StillInOrder ==
  ASSUME AcInv, NEW r \in AcRequests, NEW new \in AcRequest \union {None}, ac' = [ac EXCEPT ![r] = new],
         ~AcAt(r, "link", "record"), ~IsLink(new),
         links'.alive \subseteq links.alive, links'.latest = links.latest, links'.crossed = links.crossed,
         halted' = halted
  PROVE  InOrder'
<1>1. ac'[r] = new /\ \A q \in AcRequests \ {r} : ac'[q] = ac[q]
  BY DEF AcInv, AcTyped, RequestsTyped
<1>2. \A q \in AcRequests : IsLink(ac'[q]) => q # r /\ ac'[q] = ac[q]
  BY <1>1
<1> SUFFICES ASSUME ~links.crossed, "link" \notin halted
             PROVE  /\ \A p, q \in AcRequests : IsLink(ac'[p]) /\ IsLink(ac'[q]) => p = q
                    /\ (\A p \in AcRequests : ~AcAt(p, "link", "record")') => links'.alive \subseteq {links.latest}
                    /\ \A p \in AcRequests :
                         /\ AcAt(p, "link", "unlink")' => links'.alive \subseteq {ac'[p].seen}
                         /\ AcAt(p, "link", "link")' => links'.alive = {}
                         /\ AcAt(p, "link", "record")' => links'.alive \subseteq {ac'[p].mine}
  BY DEF InOrder
<1>3. /\ \A p, q \in AcRequests : IsLink(ac[p]) /\ IsLink(ac[q]) => p = q
      /\ (\A p \in AcRequests : ~AcAt(p, "link", "record")) => links.alive \subseteq {links.latest}
      /\ \A p \in AcRequests :
           /\ AcAt(p, "link", "unlink") => links.alive \subseteq {ac[p].seen}
           /\ AcAt(p, "link", "link") => links.alive = {}
           /\ AcAt(p, "link", "record") => links.alive \subseteq {ac[p].mine}
  BY DEF AcInv, InOrder
<1>4. (\A p \in AcRequests : ~AcAt(p, "link", "record")') => (\A p \in AcRequests : ~AcAt(p, "link", "record"))
  BY <1>1 DEF AcAt
<1>5. \A p \in AcRequests : /\ AcAt(p, "link", "unlink")' => links'.alive \subseteq {ac'[p].seen}
                            /\ AcAt(p, "link", "link")' => links'.alive = {}
                            /\ AcAt(p, "link", "record")' => links'.alive \subseteq {ac'[p].mine}
  BY <1>2, <1>3 DEF AcAt, IsLink
<1>6. QED BY <1>2, <1>3, <1>4, <1>5

LEMMA MailLinkKeeps ==
  ASSUME AcInv, NEW r \in AcRequests, MailLink(r)
  PROVE  AcInv'
<1>0. AcAt(r, "link", "mail")
  BY DEF MailLink
<1>1. ac[r] \in AcRequest /\ ac[r].kind = "link" /\ ac[r].pc = "mail" /\ ac[r].mine \in Nat
  BY <1>0, RequestAt DEF AcRequest
<1>2. /\ UNCHANGED <<password, secret, failures, sessions, halted>> /\ acLeft' \in [AcEvents -> Nat]
      /\ ac' = [ac EXCEPT ![r] = None] /\ ~IsGuess(None) /\ ~IsLink(None) /\ ~Storing(None)
  BY LeftType DEF MailLink, Over, AcFault, AcEvents, AcInv, AcTyped, RequestsTyped, IsGuess, IsLink, Storing
<1>3. /\ links' \in AcLinks /\ links'.alive = links.alive /\ links'.issued = links.issued
      /\ links'.used = links.used /\ links'.again = links.again /\ links'.crossed = links.crossed
      /\ links'.latest = links.latest
  BY <1>1, LinksKnown DEF AcLinks, MailLink
<1>4. LinksAreNew' /\ ClaimedOnce'
  BY <1>2, <1>3, StillNew
<1>5. InOrder'
  <2>1. ~AcAt(r, "link", "record")
    BY <1>1 DEF AcAt
  <2>2. QED BY <1>2, <1>3, <2>1, StillInOrder
<1>6. QED BY <1>1, <1>2, <1>3, <1>4, <1>5, LinkStep DEF LinksTyped

LEMMA BeginResetKeeps ==
  ASSUME AcInv, NEW r \in AcRequests, NEW link \in links.alive, BeginReset(r, link)
  PROVE  AcInv'
<1> DEFINE new == [kind |-> "reset", pc |-> "claim", seen |-> link, mine |-> 0, on |-> FALSE,
                   began |-> sessions.ends]
<1>1. link \in Nat
  BY LinksKnown
<1>2. /\ new \in AcRequest /\ ~IsGuess(new) /\ ~IsLink(new) /\ ~(new.kind = "reset" /\ new.pc = "forget")
      /\ GoesOn(ac[r], new)
  BY <1>1 DEF AcInv, AcTyped, PasswordTyped, AcRequest, AcKinds, AcSteps, IsGuess, IsLink, GoesOn, Carries
<1>3. /\ ac[r] = None /\ ac' = [ac EXCEPT ![r] = new] /\ acLeft' \in [AcEvents -> Nat]
      /\ UNCHANGED <<password, secret, failures, sessions, links, halted>>
  BY LeftType DEF BeginReset, Opens, AcEvents
<1> HIDE DEF new
<1>4. SecretTyped'
  BY <1>3 DEF AcInv, AcTyped, SecretTyped
<1>5. QED BY <1>2, <1>3, <1>4, AccountsQuiet

LEMMA ClaimLinkKeeps ==
  ASSUME AcInv, NEW r \in AcRequests, ClaimLink(r)
  PROVE  AcInv'
<1>0. AcAt(r, "reset", "claim")
  BY DEF ClaimLink
<1>1. ac[r] \in AcRequest /\ ac[r].kind = "reset" /\ ac[r].pc = "claim" /\ ac[r] # None /\ ac[r].seen \in Nat
  BY <1>0, RequestAt DEF AcRequest
<1>2. UNCHANGED <<password, secret, failures, sessions, halted>> /\ acLeft' \in [AcEvents -> Nat] /\ SecretTyped'
  BY DEF ClaimLink, AcInv, AcTyped, RequestsTyped, SecretTyped
<1>3. CASE ~Claimed(ac[r].seen)
  <2>1. links' = links /\ ac' = [ac EXCEPT ![r] = None] /\ ~IsGuess(None) /\ ~IsLink(None)
    BY <1>3 DEF ClaimLink, Over, IsGuess, IsLink
  <2>2. QED BY <1>1, <1>2, <2>1, AccountsQuiet
<1>4. CASE Claimed(ac[r].seen)
  <2> DEFINE new == [ac[r] EXCEPT !.pc = "forget"]
  <2>1. /\ new \in AcRequest /\ new.kind = "reset" /\ new.pc = "forget" /\ new.seen = ac[r].seen
        /\ ~IsGuess(new) /\ ~IsLink(new) /\ ~Storing(new) /\ GoesOn(ac[r], new)
    BY <1>1, RequestGoes DEF AcSteps, IsGuess, IsLink, Storing
  <2>2. ac[r].seen \in links.alive /\ ac[r].seen \notin links.used /\ links.again = FALSE
    BY <1>4, LinksKnown DEF Claimed, AcLinks
  <2>3. (links.again \/ ac[r].seen \in links.used) = FALSE
    BY <2>2
  <2>4. /\ ac' = [ac EXCEPT ![r] = new]
        /\ links' = [links EXCEPT !.alive = @ \ {ac[r].seen}, !.again = links.again \/ ac[r].seen \in links.used,
                                  !.used = @ \union {ac[r].seen}]
    BY <1>4, LinksKnown DEF ClaimLink, Then, AcLinks
  <2> HIDE DEF new
  <2>5. /\ links' \in AcLinks /\ links'.alive = links.alive \ {ac[r].seen} /\ links'.issued = links.issued
        /\ links'.used = links.used \union {ac[r].seen} /\ links'.again = FALSE /\ links'.crossed = links.crossed
        /\ links'.latest = links.latest
    BY <1>1, <2>3, <2>4, LinksKnown DEF AcLinks
  <2>6. ac'[r] = new /\ \A q \in AcRequests \ {r} : ac'[q] = ac[q]
    BY <2>4 DEF AcInv, AcTyped, RequestsTyped
  <2>7. LinksAreNew'
    <3>1. \A p \in AcRequests : Storing(ac'[p]) => p # r /\ ac'[p] = ac[p]
      BY <2>1, <2>6
    <3>2. links'.alive \union links'.used = links.alive \union links.used
      BY <2>2, <2>5
    <3>3. QED BY <2>5, <3>1, <3>2 DEF AcInv, LinksAreNew
  <2>8. ClaimedOnce'
    BY <2>1, <2>5, <2>6, LinksKnown DEF AcInv, ClaimedOnce, AcAt
  <2>9. InOrder'
    <3>1. ~AcAt(r, "link", "record")
      BY <1>1 DEF AcAt
    <3>2. QED BY <1>2, <2>1, <2>4, <2>5, <3>1, StillInOrder
  <2>10. QED BY <1>1, <1>2, <2>1, <2>4, <2>5, <2>7, <2>8, <2>9, LinkStep DEF LinksTyped
<1>5. QED BY <1>3, <1>4


LEMMA ForgetLinkKeeps ==
  ASSUME AcInv, NEW r \in AcRequests, ForgetLink(r)
  PROVE  AcInv'
<1>0. AcAt(r, "reset", "forget")
  BY DEF ForgetLink
<1>1. ac[r] \in AcRequest /\ ac[r].kind = "reset" /\ ac[r].pc = "forget" /\ ac[r] # None /\ ac[r].seen \in links.used
  BY <1>0, RequestAt DEF AcInv, ClaimedOnce
<1> DEFINE new == [ac[r] EXCEPT !.pc = "write"]
<1>2. /\ new \in AcRequest /\ new.kind = "reset" /\ new.pc = "write" /\ GoesOn(ac[r], new)
      /\ ~IsGuess(new) /\ ~IsLink(new) /\ ~Storing(new)
  BY <1>1, RequestGoes DEF AcSteps, IsGuess, IsLink, Storing
<1>3. /\ UNCHANGED <<password, secret, failures, sessions, halted>> /\ acLeft' \in [AcEvents -> Nat]
      /\ ac' = [ac EXCEPT ![r] = new]
  BY DEF ForgetLink, Then, AcInv, AcTyped, RequestsTyped
<1> HIDE DEF new
<1>4. PICK c : c = (links.crossed \/ links.latest # ac[r].seen)
  OBVIOUS
<1>5. c \in BOOLEAN /\ links' = [links EXCEPT !.latest = 0, !.crossed = c]
  BY <1>4 DEF ForgetLink
<1>6. /\ links' \in AcLinks /\ links'.alive = links.alive /\ links'.issued = links.issued
      /\ links'.used = links.used /\ links'.again = links.again /\ links'.crossed = c /\ links'.latest = 0
  <2>1. [links EXCEPT !.latest = 0] \in AcLinks /\ links' = [[links EXCEPT !.latest = 0] EXCEPT !.crossed = c]
    BY <1>5, LinksKnown DEF AcLinks
  <2>2. links' \in AcLinks
    BY <1>5, <2>1 DEF AcLinks
  <2>3. QED BY <1>5, <2>2, LinksKnown DEF AcLinks
<1>7. ac'[r] = new /\ \A q \in AcRequests \ {r} : ac'[q] = ac[q]
  BY <1>3 DEF AcInv, AcTyped, RequestsTyped
<1>8. LinksAreNew' /\ ClaimedOnce'
  BY <1>2, <1>6, <1>7 DEF AcInv, LinksAreNew, ClaimedOnce, AcAt
<1>9. InOrder'
  <2>1. CASE c
    BY <1>6, <2>1 DEF InOrder
  <2>2. CASE ~c
    <3>1. ~links.crossed /\ links.latest = ac[r].seen
      BY <1>4, <2>2
    <3>2. links.latest \notin links.alive
      BY <1>1, <3>1, LinksKnown
    <3>3. \A q \in AcRequests : IsLink(ac'[q]) => q # r /\ ac'[q] = ac[q]
      BY <1>2, <1>7
    <3> SUFFICES ASSUME "link" \notin halted
                 PROVE  /\ \A p, q \in AcRequests : IsLink(ac'[p]) /\ IsLink(ac'[q]) => p = q
                        /\ (\A p \in AcRequests : ~AcAt(p, "link", "record")') => links'.alive \subseteq {links'.latest}
                        /\ \A p \in AcRequests :
                             /\ AcAt(p, "link", "unlink")' => links'.alive \subseteq {ac'[p].seen}
                             /\ AcAt(p, "link", "link")' => links'.alive = {}
                             /\ AcAt(p, "link", "record")' => links'.alive \subseteq {ac'[p].mine}
      BY <1>3 DEF InOrder
    <3>4. /\ \A p, q \in AcRequests : IsLink(ac[p]) /\ IsLink(ac[q]) => p = q
          /\ (\A p \in AcRequests : ~AcAt(p, "link", "record")) => links.alive \subseteq {links.latest}
          /\ \A p \in AcRequests :
               /\ AcAt(p, "link", "unlink") => links.alive \subseteq {ac[p].seen}
               /\ AcAt(p, "link", "link") => links.alive = {}
               /\ AcAt(p, "link", "record") => links.alive \subseteq {ac[p].mine}
      BY <3>1 DEF AcInv, InOrder
    <3>5. (\A p \in AcRequests : ~AcAt(p, "link", "record")') => (\A p \in AcRequests : ~AcAt(p, "link", "record"))
      BY <1>1, <1>7 DEF AcAt
    <3>6. (\A p \in AcRequests : ~AcAt(p, "link", "record")') => links'.alive = {}
      BY <1>6, <3>2, <3>4, <3>5
    <3>7. \A p \in AcRequests : /\ AcAt(p, "link", "unlink")' => links'.alive \subseteq {ac'[p].seen}
                                /\ AcAt(p, "link", "link")' => links'.alive = {}
                                /\ AcAt(p, "link", "record")' => links'.alive \subseteq {ac'[p].mine}
      BY <1>6, <3>3, <3>4 DEF AcAt, IsLink
    <3>8. QED BY <3>3, <3>4, <3>6, <3>7
  <2>3. QED BY <2>1, <2>2
<1>10. QED BY <1>1, <1>2, <1>3, <1>6, <1>8, <1>9, LinkStep DEF LinksTyped

\* Links expire by themselves.
LEMMA OnlyLinks ==
  ASSUME AcInv, UNCHANGED <<password, secret, failures, sessions, ac, halted, acLeft>>,
         LinksTyped', LinksAreNew', ClaimedOnce', InOrder'
  PROVE  AcInv'
<1>1. /\ PasswordTyped' /\ SecretTyped' /\ FailuresTyped' /\ RequestsTyped'
      /\ GuessesBounded' /\ CounterExpires'
  BY DEF AcInv, AcTyped, PasswordTyped, SecretTyped, FailuresTyped, RequestsTyped, GuessesBounded, Guessing,
         CounterExpires, AcAt
<1>2. LineageKept'
  BY DEF AcInv, LineageKept, NoneEnding, Carries, Traced, Expelling, TokenRows, Presents, OldPasswordIsOut
<1>3. QED BY <1>1, <1>2 DEF AcInv, AcTyped

LEMMA LinkExpiresKeeps ==
  ASSUME AcInv, NEW link \in links.alive, LinkExpires(link)
  PROVE  AcInv'
<1>1. UNCHANGED <<password, secret, failures, sessions, ac, halted, acLeft>>
      /\ links' = [links EXCEPT !.alive = links.alive \ {link}]
  BY LinksKnown DEF LinkExpires, Without, AcLinks
<1>2. /\ links' \in AcLinks /\ links'.alive = links.alive \ {link} /\ links'.issued = links.issued
      /\ links'.used = links.used /\ links'.again = links.again /\ links'.crossed = links.crossed
      /\ links'.latest = links.latest
  BY <1>1, LinksKnown DEF AcLinks
<1>3. LinksAreNew' /\ ClaimedOnce'
  BY <1>1, <1>2 DEF AcInv, LinksAreNew, ClaimedOnce, AcAt
<1>4. InOrder'
  BY <1>1, <1>2 DEF AcInv, InOrder, AcAt
<1>5. QED BY <1>1, <1>2, <1>3, <1>4, OnlyLinks DEF LinksTyped

LEMMA RecordExpiresKeeps ==
  ASSUME AcInv, RecordExpires
  PROVE  AcInv'
<1>1. UNCHANGED <<password, secret, failures, sessions, ac, halted, acLeft>>
      /\ links' = [links EXCEPT !.latest = 0] /\ links.latest \notin links.alive
  BY DEF RecordExpires
<1>2. /\ links' \in AcLinks /\ links'.alive = links.alive /\ links'.issued = links.issued
      /\ links'.used = links.used /\ links'.again = links.again /\ links'.crossed = links.crossed
  BY <1>1, LinksKnown DEF AcLinks
<1>3. LinksAreNew' /\ ClaimedOnce'
  BY <1>1, <1>2 DEF AcInv, LinksAreNew, ClaimedOnce, AcAt
<1>4. InOrder'
  BY <1>1, <1>2 DEF AcInv, InOrder, AcAt
<1>5. QED BY <1>1, <1>2, <1>3, <1>4, OnlyLinks DEF LinksTyped

-----------------------------------------------------------------------------
(* Passwords and authenticators, step by step.                               *)

LEMMA BeginChangeKeeps ==
  ASSUME AcInv, NEW r \in AcRequests, BeginChange(r) \/ BeginMemberReset(r)
  PROVE  AcInv'
<1> DEFINE new == [kind |-> "change", pc |-> "write", seen |-> password, mine |-> 0, on |-> FALSE,
                   began |-> sessions.ends]
<1>1. new \in AcRequest /\ ~IsGuess(new) /\ ~IsLink(new) /\ new.kind = "change" /\ GoesOn(ac[r], new)
  BY DEF AcInv, AcTyped, PasswordTyped, AcRequest, AcKinds, AcSteps, IsGuess, IsLink, GoesOn, Carries
<1>2. /\ ac[r] = None /\ ac' = [ac EXCEPT ![r] = new] /\ acLeft' \in [AcEvents -> Nat]
      /\ UNCHANGED <<password, secret, failures, sessions, links, halted>>
  BY LeftType DEF BeginChange, BeginMemberReset, Opens, AcEvents
<1> HIDE DEF new
<1>3. SecretTyped'
  BY <1>2 DEF AcInv, AcTyped, SecretTyped
<1>4. QED BY <1>1, <1>2, <1>3, AccountsQuiet

LEMMA WritePasswordKeeps ==
  ASSUME AcInv, NEW r \in AcRequests, WritePassword(r)
  PROVE  AcInv'
<1>1. ac[r] \in AcRequest /\ ac[r].kind \in {"reset", "change"} /\ ac[r].pc = "write" /\ ac[r] # None
  BY RequestAt DEF WritePassword
<1> DEFINE new == [ac[r] EXCEPT !.pc = "revoke"]
<1>2. /\ new \in AcRequest /\ new.kind \in {"reset", "change"} /\ new.pc = "revoke" /\ new # None
      /\ new.began = ac[r].began /\ ~IsGuess(new) /\ ~IsLink(new)
  <2>1. "revoke" \in AcSteps
    BY DEF AcSteps
  <2>2. /\ new \in AcRequest /\ new.kind = ac[r].kind /\ new.pc = "revoke" /\ new # None
        /\ new.began = ac[r].began
    BY <1>1, <2>1, RequestGoes
  <2>3. QED BY <1>1, <2>2 DEF IsGuess, IsLink
<1>3. /\ UNCHANGED <<secret, failures, sessions, links, halted>> /\ acLeft' \in [AcEvents -> Nat]
      /\ ac' = [ac EXCEPT ![r] = new] /\ password' = password + 1
  BY DEF WritePassword, Then, AcInv, AcTyped, RequestsTyped
<1> HIDE DEF new
<1>4. ac'[r] = new /\ \A q \in AcRequests \ {r} : ac'[q] = ac[q]
  BY <1>3 DEF AcInv, AcTyped, RequestsTyped
<1>5. Expelling(r)'
  BY <1>2, <1>4 DEF Expelling
<1>6. \A q \in AcRequests : ac'[q] # None => ac'[q].began <= sessions'.ends
  BY <1>1, <1>2, <1>3, <1>4 DEF AcInv, LineageKept
<1>7. TokenRows'
  BY <1>2, <1>3, <1>4 DEF AcInv, LineageKept, TokenRows, Presents
<1>8. ~NoneEnding' /\ OldPasswordIsOut'
  BY <1>5 DEF NoneEnding, OldPasswordIsOut
<1>9. LineageKept'
  BY <1>6, <1>7, <1>8 DEF LineageKept
<1>10. PasswordTyped'
  BY <1>3, SessionsKnown DEF PasswordTyped
<1>11. QED BY <1>1, <1>2, <1>3, <1>9, <1>10, PasswordStep

LEMMA RevokeSessionsKeeps ==
  ASSUME AcInv, NEW r \in AcRequests, RevokeSessions(r)
  PROVE  AcInv'
<1>1. ac[r] \in AcRequest /\ ac[r].kind \in {"reset", "change", "refresh"} /\ ac[r].pc = "revoke" /\ ac[r] # None
  BY RequestAt DEF RevokeSessions
<1>2. /\ UNCHANGED <<password, secret, failures, links, halted>> /\ acLeft' \in [AcEvents -> Nat]
      /\ sessions' = [sessions EXCEPT !.rows = {Ended(s) : s \in @}, !.ends = @ + 1]
  BY DEF RevokeSessions, AcInv, AcTyped, RequestsTyped
<1>3. ASSUME NEW s \in sessions.rows
      PROVE  Ended(s) \in AcSession /\ ~Ended(s).live /\ Ended(s).n = s.n /\ Ended(s).password = s.password
  BY SessionsKnown DEF Ended, AcSession
<1>4. /\ sessions'.rows = {Ended(s) : s \in sessions.rows} /\ sessions'.made = sessions.made
      /\ sessions'.ends = sessions.ends + 1 /\ PasswordTyped'
  <2> DEFINE ended == {Ended(s) : s \in sessions.rows}
  <2>1. ended \subseteq AcSession
    BY <1>3
  <2>2. sessions' = [[sessions EXCEPT !.rows = ended] EXCEPT !.ends = sessions.ends + 1]
    BY <1>2, SessionsKnown
  <2> HIDE DEF ended
  <2>3. [sessions EXCEPT !.rows = ended] \in [rows : SUBSET AcSession, made : Nat, ends : Nat]
    BY <2>1, SessionsKnown
  <2>4. PICK more \in Nat : more = sessions.ends + 1
    BY SessionsKnown
  <2>5. sessions' \in [rows : SUBSET AcSession, made : Nat, ends : Nat]
    BY <2>2, <2>3, <2>4
  <2>6. sessions'.rows = ended /\ sessions'.made = sessions.made /\ sessions'.ends = sessions.ends + 1
    BY <2>2, <2>3, SessionsKnown
  <2>7. PasswordTyped'
    BY <1>2, <2>5, SessionsKnown DEF PasswordTyped
  <2>8. ended = {Ended(s) : s \in sessions.rows}
    BY DEF ended
  <2> HIDE DEF PasswordTyped
  <2>9. QED BY <2>6, <2>7, <2>8, Zenon
<1>5. ASSUME NEW new \in AcRequest \union {None}, ac' = [ac EXCEPT ![r] = new],
             new # None => new.kind = "reset" /\ new.pc = "unlock" /\ new.began = ac[r].began
      PROVE  AcInv'
  <2>1. ac'[r] = new /\ \A q \in AcRequests \ {r} : ac'[q] = ac[q]
    BY <1>5 DEF AcInv, AcTyped, RequestsTyped
  <2>2. TokenRows'
    <3>1. \A s \in sessions'.rows : \E t \in sessions.rows : t.n = s.n /\ t.password = s.password
      BY <1>3, <1>4
    <3>2. \A q \in AcRequests : \/ ac'[q] = ac[q] \/ ac'[q] = None
                                \/ ac'[q].kind = "refresh" => Presents(ac'[q])
      BY <1>5, <2>1
    <3>3. QED BY <1>4, <3>1, <3>2, RowsChange
  <2>3. \A q \in AcRequests : ac'[q] # None => ac'[q].began <= sessions.ends /\ ac'[q].began \in Nat
    <3>1. \A q \in AcRequests : ac[q] # None => ac[q].began <= sessions.ends /\ ac[q].began \in Nat
      BY DEF AcInv, AcTyped, RequestsTyped, LineageKept, AcRequest
    <3>2. QED BY <1>1, <1>5, <2>1, <3>1
  <2>4. \A q \in AcRequests : ac'[q] # None => ac'[q].began <= sessions'.ends /\ ac'[q].began # sessions'.ends
    BY <1>4, <2>3, SessionsKnown
  <2>5. OldPasswordIsOut'
    BY <1>3, <1>4 DEF OldPasswordIsOut
  <2>6. LineageKept'
    BY <2>2, <2>4, <2>5 DEF LineageKept, Traced, Carries
  <2>7. ~IsGuess(new) /\ ~IsLink(new) /\ (new # None => ~(new.kind = "reset" /\ new.pc = "forget"))
    BY <1>5 DEF IsGuess, IsLink
  <2>8. QED BY <1>1, <1>2, <1>4, <1>5, <2>6, <2>7, PasswordStep
<1>6. CASE Over(r)
  BY <1>5, <1>6 DEF Over
<1>7. CASE ac[r].kind = "reset" /\ Then(r, "unlock")
  <2> DEFINE new == [ac[r] EXCEPT !.pc = "unlock"]
  <2>1. "unlock" \in AcSteps
    BY DEF AcSteps
  <2>2. new \in AcRequest /\ new.kind = ac[r].kind /\ new.pc = "unlock" /\ new.began = ac[r].began
    BY <1>1, <2>1, RequestGoes
  <2>3. ac' = [ac EXCEPT ![r] = new]
    BY <1>7 DEF Then
  <2> HIDE DEF new
  <2>4. QED BY <1>5, <1>7, <2>2, <2>3
<1>8. QED BY <1>6, <1>7 DEF RevokeSessions

LEMMA UnlockKeeps ==
  ASSUME AcInv, NEW r \in AcRequests, Unlock(r)
  PROVE  AcInv'
<1>0. AcAt(r, "reset", "unlock")
  BY DEF Unlock
<1>1. ac[r] \in AcRequest /\ ac[r].kind = "reset" /\ ac[r].pc = "unlock"
  BY <1>0, RequestAt
<1>2. /\ UNCHANGED <<password, secret, sessions, links, halted>> /\ acLeft' \in [AcEvents -> Nat]
      /\ ac' = [ac EXCEPT ![r] = None] /\ failures' = NoFailures /\ ~IsGuess(None) /\ ~IsLink(None)
  BY DEF Unlock, Over, AcInv, AcTyped, RequestsTyped, IsGuess, IsLink
<1>3. FailuresTyped' /\ failures'.count = 0 /\ failures'.unread = failures.unread /\ CounterExpires'
  BY <1>2, NoFailuresType
<1>4. Cardinality(Guessing') <= Cardinality(Guessing) /\ Cardinality(Guessing') \in Nat
  BY <1>2, GuessingMoves
<1>5. GuessesBounded'
  BY <1>3, <1>4, Numbers DEF GuessesBounded
<1>6. RequestsTyped' /\ SecretTyped'
  BY <1>2, RequestMoves DEF AcInv, AcTyped, RequestsTyped, SecretTyped
<1>7. LinksTyped' /\ LinksAreNew' /\ ClaimedOnce' /\ InOrder'
  BY <1>1, <1>2, NoLink DEF AcAt
<1>8. PasswordTyped' /\ LineageKept'
  <2>1. ~Expelling(r)
    BY <1>1 DEF Expelling
  <2>2. QED BY <1>2, <2>1, NoPassword
<1>9. QED BY <1>3, <1>5, <1>6, <1>7, <1>8 DEF AcInv, AcTyped

LEMMA BeginCodesKeeps ==
  ASSUME AcInv, NEW r \in AcRequests, NEW kind \in {"setup", "enroll", "remove"}, BeginCodes(r, kind)
  PROVE  AcInv'
<1> DEFINE new == [kind |-> kind, pc |-> "write", seen |-> secret.n, mine |-> secret.n + 1, on |-> secret.on,
                   began |-> sessions.ends]
<1>1. new \in AcRequest /\ ~IsGuess(new) /\ ~IsLink(new) /\ new.kind # "reset" /\ GoesOn(ac[r], new)
  BY DEF AcInv, AcTyped, PasswordTyped, SecretTyped, AcRequest, AcKinds, AcSteps, IsGuess, IsLink, GoesOn, Carries
<1>2. /\ ac[r] = None /\ ac' = [ac EXCEPT ![r] = new] /\ acLeft' \in [AcEvents -> Nat]
      /\ UNCHANGED <<password, secret, failures, sessions, links, halted>>
  BY LeftType DEF BeginCodes, Opens, AcEvents
<1> HIDE DEF new
<1>3. SecretTyped'
  BY <1>2 DEF AcInv, AcTyped, SecretTyped
<1>4. QED BY <1>1, <1>2, <1>3, AccountsQuiet

LEMMA WriteSecretKeeps ==
  ASSUME AcInv, NEW r \in AcRequests, WriteSecret(r)
  PROVE  AcInv'
<1>1. ac[r] \in AcRequest /\ ac[r].kind \in {"setup", "enroll", "remove"} /\ ac[r].pc = "write" /\ ac[r].mine \in Nat
  BY RequestAt DEF WriteSecret, AcRequest
<1>2. /\ UNCHANGED <<password, failures, sessions, links, halted>> /\ acLeft' \in [AcEvents -> Nat]
      /\ ac' = [ac EXCEPT ![r] = None] /\ ~IsGuess(None) /\ ~IsLink(None)
  BY DEF WriteSecret, Over, AcInv, AcTyped, RequestsTyped, IsGuess, IsLink
<1>3. SecretTyped'
  <2>1. PICK n \in Nat, on \in BOOLEAN : secret = [n |-> n, on |-> on]
    BY DEF AcInv, AcTyped, SecretTyped
  <2>2. PICK m \in Nat, off \in BOOLEAN : secret' = [n |-> m, on |-> off]
    <3>1. CASE secret' = [n |-> ac[r].mine, on |-> FALSE]
      BY <1>1, <3>1
    <3>2. CASE secret' = [secret EXCEPT !.on = TRUE]
      <4>1. secret' = [n |-> n, on |-> TRUE]
        BY <2>1, <3>2
      <4>2. QED BY <4>1
    <3>3. CASE secret' = [n |-> 0, on |-> FALSE]
      BY <3>3
    <3>4. QED BY <3>1, <3>2, <3>3 DEF WriteSecret
  <2>3. QED BY <2>2 DEF SecretTyped
<1>4. QED BY <1>1, <1>2, <1>3, AccountsQuiet

LEMMA RequestBreaksOffKeeps ==
  ASSUME AcInv, NEW r \in AcRequests, RequestBreaksOff(r)
  PROVE  AcInv'
<1>1. /\ UNCHANGED <<password, secret, failures, sessions, links>> /\ acLeft' \in [AcEvents -> Nat]
      /\ ac' = [ac EXCEPT ![r] = None] /\ ~IsGuess(None) /\ ~IsLink(None)
  BY LeftType DEF RequestBreaksOff, Over, AcFault, AcEvents, IsGuess, IsLink
<1>2. /\ halted \subseteq halted' /\ halted' \subseteq {"expire", "revoke", "link"}
      /\ ac[r].pc = "expire" => "expire" \in halted'
      /\ Expelling(r) => "revoke" \in halted'
      /\ ac[r].pc = "record" => "link" \in halted'
  BY DEF RequestBreaksOff, AcInv, AcTyped, RequestsTyped, Expelling
<1>3. RequestsTyped' /\ SecretTyped'
  BY <1>1, <1>2, RequestMoves DEF AcInv, AcTyped, RequestsTyped, SecretTyped
<1>4. FailuresTyped' /\ GuessesBounded' /\ CounterExpires'
  BY <1>1, <1>2, NoLogin DEF AcAt
<1>5. LinksTyped' /\ LinksAreNew' /\ ClaimedOnce' /\ InOrder'
  BY <1>1, <1>2, NoLink DEF AcAt
<1>6. PasswordTyped' /\ LineageKept'
  BY <1>1, <1>2, NoPassword
<1>7. QED BY <1>3, <1>4, <1>5, <1>6 DEF AcInv, AcTyped

LEMMA AccountsStepKeeps ==
  ASSUME AcInv, [AcNext]_acVars
  PROVE  AcInv'
<1>1. CASE UNCHANGED acVars
  BY <1>1 DEF acVars, AcInv, AcTyped, PasswordTyped, SecretTyped, FailuresTyped, LinksTyped, RequestsTyped,
              GuessesBounded, Guessing, CounterExpires, LinksAreNew, ClaimedOnce, InOrder, LineageKept, NoneEnding, Carries, Traced, Expelling, TokenRows, Presents, OldPasswordIsOut, AcAt
<1>2. CASE AcNext
  BY <1>2, FailuresExpireKeeps, LinkExpiresKeeps, StartLoginKeeps, AssertNotLockedKeeps, CompareKeeps,
     RecordFailureKeeps, ExpireLaterKeeps, ClearFailuresKeeps, StartRefreshKeeps, StartSwitchKeeps,
     ClaimSessionKeeps, AccessLapsesKeeps, IssueTokensKeeps, IssueFailsKeeps, ReleaseTokenKeeps,
     RecordExpiresKeeps, RequestResetKeeps,
     DropPreviousKeeps, StoreLinkKeeps, RecordLinkKeeps, MailLinkKeeps, BeginResetKeeps, ClaimLinkKeeps,
     ForgetLinkKeeps, BeginChangeKeeps, WritePasswordKeeps, RevokeSessionsKeeps, UnlockKeeps, BeginCodesKeeps,
     WriteSecretKeeps, RequestBreaksOffKeeps DEF AcNext
<1>3. QED BY <1>1, <1>2

LEMMA AcTypesHold == AcInv => AcTypeOK
  BY DEF AcInv, AcTyped, PasswordTyped, SecretTyped, FailuresTyped, LinksTyped, RequestsTyped, AcLinks, AcTypeOK

LEMMA CredentialsFollow == AcInv => LockoutHolds /\ OneLinkWorks /\ OldPasswordIsOut
<1> SUFFICES ASSUME AcInv PROVE LockoutHolds /\ OneLinkWorks
  BY DEF AcInv, LineageKept
<1>1. LockoutHolds
  <2>1. failures.count < MaxFailed + Cardinality(AcRequests) + failures.unread
    BY Numbers
  <2>2. QED BY <2>1 DEF AcInv, CounterExpires, LockoutHolds
<1>2. ASSUME ~links.crossed, "link" \notin halted, \A r \in AcRequests : ac[r] = None \/ ac[r].kind # "link"
      PROVE  Cardinality(links.alive) <= 1
  <2>1. \A r \in AcRequests : ~AcAt(r, "link", "record")
    BY <1>2 DEF AcAt
  <2>2. links.alive \subseteq {links.latest}
    BY <1>2, <2>1 DEF AcInv, InOrder
  <2>3. IsFiniteSet({links.latest}) /\ Cardinality({links.latest}) = 1
    BY FS_Singleton
  <2>4. Cardinality(links.alive) <= Cardinality({links.latest})
    BY <2>2, <2>3, FS_Subset
  <2>5. QED BY <2>3, <2>4
<1>3. OneLinkWorks
  BY <1>2, LinksKnown DEF OneLinkWorks
<1>4. QED BY <1>1, <1>3

-----------------------------------------------------------------------------
(* An account is locked after the failed attempts it allows and those under way      *)
(* together, and not for good; a reset link works once, and the newest only; and once *)
(* a new password has ended all sessions, a live one of an older password comes from  *)
(* a request that was past its checks by then, or from an access token of before: for *)
(* any number of requests, attempts, sessions and links, except where a request broke *)
(* off, or two crossed.                                                               *)
THEOREM CredentialsAreHeld == PeopleSpec => []CredentialsHold
<1> DEFINE I == part = "accounts" => AcInv
<1>1. PeopleInit => I
  BY AccountsInitially DEF PeopleInit
<1>2. I /\ [PeopleNext]_peVars => I'
  <2> SUFFICES ASSUME I, [PeopleNext]_peVars, part' = "accounts"
               PROVE  AcInv'
    OBVIOUS
  <2>1. part = "accounts" /\ [AcNext]_acVars
    BY DEF PeopleNext, peVars
  <2>2. QED BY <2>1, AccountsStepKeeps
<1>3. I => CredentialsHold
  BY CredentialsFollow DEF CredentialsHold
<1>4. QED BY <1>1, <1>2, <1>3, PTL DEF PeopleSpec


-----------------------------------------------------------------------------
(* Members: owners, seats and workspaces, invitations.                       *)

MbRow == [role : Roles, active : BOOLEAN]
MbInvite == [status : InviteStatus, person : People, space : Workspaces, role : Roles, due : BOOLEAN, joined : Nat]
MbOp == [kind : MbKinds, pc : {"check", "count", "write", "revoke"}, space : Workspaces, person : People,
         role : Roles, invite : SUBSET Invitations]
OwnerRow == [role |-> "OWNER", active |-> TRUE]

TenantTyped ==
  /\ plan \in Plans /\ badge \in [People -> Roles \union {"none"}]
  /\ channel \in [Channels -> [state : {"none", "open", "deleted"}, space : Workspaces]]
  /\ shaken \subseteq {"owner", "plan"} /\ mbLeft \in [MbEvents -> Nat]
SpaceTyped == space \in [Workspaces -> {"none", "open", "deleted"}]
MemberTyped ==
  /\ member \in [Workspaces -> [People -> MbRow]] /\ account \subseteq People
  /\ \A w \in Workspaces, p \in People : member[w][p].active => p \in account
InviteTyped == invite \in [Invitations -> MbInvite]
OpTyped == op \in [Ops -> MbOp \union {NoOp}]

\* The requests that have counted seats or workspaces and will add one; the removals of an
\* owner that have counted another one.
IsJoin(x) == x # NoOp /\ x.kind = "accept" /\ x.pc = "write"
IsSpace(x) == x # NoOp /\ x.kind = "space"
IsRemoval(x) == x # NoOp /\ x.kind = "remove" /\ x.pc = "write" /\ x.role = "OWNER"
JoiningOps == {o \in Ops : IsJoin(op[o])}
SpaceOps == {o \in Ops : IsSpace(op[o])}

SeatsKept == "plan" \notin shaken => Cardinality(Seats) + Cardinality(JoiningOps) < MaxAgents[plan] + Cardinality(Ops)
SpacesKept ==
  "plan" \notin shaken => Cardinality(OpenSpaces) + Cardinality(SpaceOps) < MaxWorkspaces[plan] + Cardinality(Ops)
OwnersKept ==
  "owner" \notin shaken =>
    /\ Owners # {} /\ \A a \in Owners : space[a[1]] = "open"
    /\ \A o \in Ops : IsRemoval(op[o]) => \E a, b \in Owners : a # b
InvitesKept ==
  /\ \A i \in Invitations :
       /\ invite[i].joined <= 1 /\ (invite[i].status = "none" => invite[i].joined = 0)
       /\ invite[i].joined = 1 =>
            /\ invite[i].person \in account
            /\ \A k \in Invitations \ {i} : invite[k].person = invite[i].person => invite[k].joined = 0
  /\ \A o \in Ops : op[o] # NoOp /\ op[o].kind = "accept" =>
       \A i \in op[o].invite : invite[i].status # "none" /\ invite[i].person = op[o].person

MbTyped == TenantTyped /\ SpaceTyped /\ MemberTyped /\ InviteTyped /\ OpTyped
MbInv == MbTyped /\ SeatsKept /\ SpacesKept /\ OwnersKept /\ InvitesKept

-----------------------------------------------------------------------------

LEMMA PlansAreNumbers ==
  ASSUME MbInv
  PROVE  /\ MaxAgents[plan] \in Nat /\ MaxAgents[plan] >= 2
         /\ MaxWorkspaces[plan] \in Nat /\ MaxWorkspaces[plan] >= 1
<1>1. plan = "small" \/ plan = "large"
  BY DEF MbInv, MbTyped, TenantTyped, Plans
<1>2. QED BY <1>1 DEF MaxAgents, MaxWorkspaces

\* What a step leaves alone.
LEMMA MbSame ==
  ASSUME MbInv, shaken \subseteq shaken'
  PROVE  /\ UNCHANGED <<plan, member>> /\ JoiningOps' \subseteq JoiningOps => SeatsKept'
         /\ UNCHANGED <<plan, space>> /\ SpaceOps' \subseteq SpaceOps => SpacesKept'
         /\ UNCHANGED <<invite, account, op>> => InvitesKept'
         /\ /\ UNCHANGED <<member, space>>
            /\ \A o \in Ops : IsRemoval(op'[o]) => IsRemoval(op[o])
            => OwnersKept'
<1>1. ASSUME UNCHANGED <<plan, member>>, JoiningOps' \subseteq JoiningOps
      PROVE  SeatsKept'
  <2>1. IsFiniteSet(Ops) /\ JoiningOps \subseteq Ops /\ JoiningOps' \subseteq Ops
    BY MembersAssumption DEF JoiningOps
  <2>2. /\ Cardinality(JoiningOps') \in Nat /\ Cardinality(JoiningOps) \in Nat /\ Cardinality(Ops) \in Nat
        /\ Cardinality(JoiningOps') <= Cardinality(JoiningOps)
    BY <1>1, <2>1, OneMoreOrLess
  <2>3. Seats' = Seats /\ Cardinality(Seats) \in Nat
    <3>1. Seats' = Seats /\ Seats \subseteq People /\ IsFiniteSet(People)
      BY <1>1, MembersAssumption DEF Seats
    <3>2. QED BY <3>1, OneMoreOrLess
  <2>4. QED BY <1>1, <2>2, <2>3, PlansAreNumbers DEF MbInv, SeatsKept
<1>2. ASSUME UNCHANGED <<plan, space>>, SpaceOps' \subseteq SpaceOps
      PROVE  SpacesKept'
  <2>1. IsFiniteSet(Ops) /\ SpaceOps \subseteq Ops /\ SpaceOps' \subseteq Ops
    BY MembersAssumption DEF SpaceOps
  <2>2. /\ Cardinality(SpaceOps') \in Nat /\ Cardinality(SpaceOps) \in Nat /\ Cardinality(Ops) \in Nat
        /\ Cardinality(SpaceOps') <= Cardinality(SpaceOps)
    BY <1>2, <2>1, OneMoreOrLess
  <2>3. OpenSpaces' = OpenSpaces /\ Cardinality(OpenSpaces) \in Nat
    <3>1. OpenSpaces' = OpenSpaces /\ OpenSpaces \subseteq Workspaces /\ IsFiniteSet(Workspaces)
      BY <1>2, MembersAssumption DEF OpenSpaces
    <3>2. QED BY <3>1, OneMoreOrLess
  <2>4. QED BY <1>2, <2>2, <2>3, PlansAreNumbers DEF MbInv, SpacesKept
<1>3. ASSUME UNCHANGED <<invite, account, op>>
      PROVE  InvitesKept'
  BY <1>3 DEF MbInv, InvitesKept
<1>4. ASSUME UNCHANGED <<member, space>>, \A o \in Ops : IsRemoval(op'[o]) => IsRemoval(op[o])
      PROVE  OwnersKept'
  <2>1. Owners' = Owners
    BY <1>4 DEF Owners
  <2>2. QED BY <1>4, <2>1 DEF MbInv, OwnersKept
<1>5. QED BY <1>1, <1>2, <1>3, <1>4

\* A request goes on, or ends.
LEMMA OpMoves ==
  ASSUME MbInv, NEW o \in Ops, NEW new \in MbOp \union {NoOp}, op' = [op EXCEPT ![o] = new]
  PROVE  /\ OpTyped' /\ op'[o] = new /\ \A q \in Ops \ {o} : op'[q] = op[q]
         /\ ~IsJoin(new) => JoiningOps' = JoiningOps \ {o}
         /\ ~IsSpace(new) => SpaceOps' = SpaceOps \ {o}
         /\ ~IsRemoval(new) => \A q \in Ops : IsRemoval(op'[q]) => IsRemoval(op[q])
         /\ JoiningOps' \subseteq Ops /\ SpaceOps' \subseteq Ops
<1>1. OpTyped' /\ op'[o] = new /\ \A q \in Ops \ {o} : op'[q] = op[q]
  BY DEF MbInv, MbTyped, OpTyped
<1>2. QED BY <1>1 DEF JoiningOps, SpaceOps

\* One that adds nothing more than the others leaves what it does not touch in order.
LEMMA OpQuiet ==
  ASSUME MbInv, NEW o \in Ops, NEW new \in MbOp \union {NoOp}, op' = [op EXCEPT ![o] = new],
         UNCHANGED <<plan, space, member, account, invite>>, shaken' = shaken, TenantTyped',
         ~IsJoin(new), ~IsSpace(new), ~IsRemoval(new),
         new # NoOp /\ new.kind = "accept" =>
           \A i \in new.invite : invite[i].status # "none" /\ invite[i].person = new.person
  PROVE  MbInv'
<1>1. /\ OpTyped' /\ op'[o] = new /\ \A q \in Ops \ {o} : op'[q] = op[q]
      /\ JoiningOps' \subseteq JoiningOps /\ SpaceOps' \subseteq SpaceOps
      /\ \A q \in Ops : IsRemoval(op'[q]) => IsRemoval(op[q])
  BY OpMoves
<1>2. SeatsKept' /\ SpacesKept' /\ OwnersKept'
  BY <1>1, MbSame
<1>3. InvitesKept'
  BY <1>1 DEF MbInv, InvitesKept
<1>4. SpaceTyped' /\ MemberTyped' /\ InviteTyped'
  BY DEF MbInv, MbTyped, SpaceTyped, MemberTyped, InviteTyped
<1>5. QED BY <1>1, <1>2, <1>3, <1>4 DEF MbInv, MbTyped

\* No step but those of requests is about them.
LEMMA NoOpMoves ==
  ASSUME MbInv, UNCHANGED op
  PROVE  OpTyped' /\ JoiningOps' = JoiningOps /\ SpaceOps' = SpaceOps /\ \A q \in Ops : IsRemoval(op'[q]) => IsRemoval(op[q])
  BY DEF MbInv, MbTyped, OpTyped, JoiningOps, SpaceOps

LEMMA MbUsesType == ASSUME MbInv, NEW e \in MbEvents, MbUses(e) PROVE mbLeft' \in [MbEvents -> Nat]
  BY DEF MbInv, MbTyped, TenantTyped, MbUses

\* A membership is written, and what follows.
SeatWritten(w, p, seat) ==
  /\ member' = [member EXCEPT ![w] = [member[w] EXCEPT ![p] = seat]]
  /\ account \subseteq account' /\ account' \subseteq People /\ (seat.active => p \in account')
SeatFollows(w, p, seat) ==
  /\ MemberTyped' /\ member'[w][p] = seat
  /\ \A v \in Workspaces, q \in People : v # w \/ q # p => member'[v][q] = member[v][q]
  /\ Owners \ {<<w, p>>} \subseteq Owners' /\ Owners' \subseteq Owners \union {<<w, p>>}
  /\ <<w, p>> \in Owners' <=> seat = OwnerRow
  /\ Seats' \subseteq Seats \union {p}
  /\ (seat.active => member[w][p].active) => Seats' \subseteq Seats

LEMMA MemberMoves ==
  ASSUME MbInv, NEW w \in Workspaces, NEW p \in People, NEW seat \in MbRow, SeatWritten(w, p, seat)
  PROVE  SeatFollows(w, p, seat)
<1> USE DEF SeatWritten
<1>1. member' \in [Workspaces -> [People -> MbRow]] /\ member'[w][p] = seat
      /\ \A v \in Workspaces, q \in People : v # w \/ q # p => member'[v][q] = member[v][q]
  BY DEF MbInv, MbTyped, MemberTyped
<1>2. MemberTyped'
  <2>1. \A v \in Workspaces, q \in People : member[v][q].active => q \in account
    BY DEF MbInv, MbTyped, MemberTyped
  <2>2. \A v \in Workspaces, q \in People : member'[v][q].active => q \in account'
    BY <1>1, <2>1
  <2>3. QED BY <1>1, <2>2 DEF MemberTyped
<1>3. \A a \in Workspaces \X People : a # <<w, p>> => (a \in Owners' <=> a \in Owners)
  <2> SUFFICES ASSUME NEW v \in Workspaces, NEW q \in People, <<v, q>> # <<w, p>>
               PROVE  <<v, q>> \in Owners' <=> <<v, q>> \in Owners
    OBVIOUS
  <2>1. member'[v][q] = member[v][q]
    BY <1>1
  <2>2. QED BY <2>1 DEF Owners
<1>4. Owners \subseteq Workspaces \X People /\ Owners' \subseteq Workspaces \X People
  BY DEF Owners
<1>5. <<w, p>> \in Owners' <=> seat = OwnerRow
  BY <1>1 DEF Owners, OwnerRow
<1>6. Seats' \subseteq Seats \union {p} /\ ((seat.active => member[w][p].active) => Seats' \subseteq Seats)
  <2>1. ASSUME NEW q \in Seats', q # p PROVE q \in Seats
    BY <1>1, <2>1 DEF Seats
  <2>2. ASSUME seat.active => member[w][p].active, p \in Seats' PROVE p \in Seats
    <3>1. PICK v \in Workspaces : member'[v][p].active
      BY <2>2 DEF Seats
    <3>2. member[v][p].active
      BY <1>1, <2>2, <3>1
    <3>3. QED BY <3>2 DEF Seats
  <2>3. QED BY <2>1, <2>2
<1>7. QED BY <1>1, <1>2, <1>3, <1>4, <1>5, <1>6 DEF SeatFollows


-----------------------------------------------------------------------------
(* The tenant, step by step.                                                 *)

LEMMA MembersInitially == MbInit => MbInv
<1> SUFFICES ASSUME MbInit PROVE MbInv
  OBVIOUS
<1>1. PICK other \in People \ {Founder}, role \in {"OWNER", "ADMIN"} :
        /\ member = [w \in Workspaces |-> [p \in People |->
                      CASE w = Home /\ p = Founder -> [role |-> "OWNER", active |-> TRUE]
                        [] w = Home /\ p = other -> [role |-> role, active |-> TRUE]
                        [] OTHER -> NoMember]]
        /\ badge = [p \in People |-> CASE p = Founder -> "OWNER" [] p = other -> role [] OTHER -> "none"]
        /\ account = {Founder, other}
  BY DEF MbInit
<1>2. TenantTyped
  BY <1>1, MembersAssumption DEF MbInit, TenantTyped, Roles
<1>3. /\ \A w \in Workspaces, p \in People : member[w][p] =
            CASE w = Home /\ p = Founder -> [role |-> "OWNER", active |-> TRUE]
              [] w = Home /\ p = other -> [role |-> role, active |-> TRUE]
              [] OTHER -> NoMember
      /\ member \in [Workspaces -> [People -> MbRow]]
  BY <1>1 DEF MbRow, Roles, NoMember
<1>4. \A w \in Workspaces, p \in People : member[w][p].active => w = Home /\ p \in {Founder, other}
  BY <1>3 DEF NoMember
<1>5. MemberTyped
  BY <1>1, <1>3, <1>4, MembersAssumption DEF MemberTyped
<1>6. SpaceTyped /\ InviteTyped /\ OpTyped
  BY MembersAssumption DEF MbInit, SpaceTyped, InviteTyped, OpTyped, MbInvite, InviteStatus, Roles
<1>7. IsFiniteSet(Ops) /\ Cardinality(Ops) \in Nat /\ Cardinality(Ops) >= 1
  <2>1. IsFiniteSet(Ops) /\ Cardinality(Ops) \in Nat /\ Ops # {}
    BY MembersAssumption, FS_CardinalityType
  <2>2. Cardinality(Ops) # 0
    BY <2>1, FS_EmptySet
  <2>3. QED BY <2>1, <2>2
<1>8. JoiningOps = {} /\ SpaceOps = {} /\ Cardinality({}) = 0
  BY FS_EmptySet DEF MbInit, JoiningOps, SpaceOps, IsJoin, IsSpace
<1>9. MaxAgents[plan] >= 2 /\ MaxAgents[plan] \in Nat /\ MaxWorkspaces[plan] >= 1 /\ MaxWorkspaces[plan] \in Nat
  <2>1. plan = "small" \/ plan = "large"
    BY DEF MbInit, Plans
  <2>2. QED BY <2>1 DEF MaxAgents, MaxWorkspaces
<1>10. SeatsKept
  <2>1. Seats \subseteq {Founder} \union {other}
    BY <1>4 DEF Seats
  <2>2. IsFiniteSet({Founder}) /\ Cardinality({Founder}) = 1
    BY FS_Singleton
  <2>3. IsFiniteSet(People) /\ {Founder} \subseteq People /\ Seats \subseteq People
    BY MembersAssumption DEF Seats
  <2>4. Cardinality(Seats) <= Cardinality({Founder}) + 1 /\ Cardinality(Seats) \in Nat
    BY <2>1, <2>3, OneMoreOrLess
  <2>5. QED BY <1>7, <1>8, <1>9, <2>2, <2>4 DEF SeatsKept
<1>11. SpacesKept
  <2>1. OpenSpaces = {Home}
    BY MembersAssumption DEF MbInit, OpenSpaces
  <2>2. Cardinality({Home}) = 1
    BY FS_Singleton
  <2>3. QED BY <1>7, <1>8, <1>9, <2>1, <2>2 DEF SpacesKept
<1>12. OwnersKept
  <2>1. <<Home, Founder>> \in Owners
    BY <1>3, MembersAssumption DEF Owners
  <2>2. \A a \in Owners : space[a[1]] = "open"
    BY <1>4 DEF Owners, MbInit
  <2>3. \A o \in Ops : ~IsRemoval(op[o])
    BY DEF MbInit, IsRemoval
  <2>4. QED BY <2>1, <2>2, <2>3 DEF OwnersKept
<1>13. InvitesKept
  BY DEF MbInit, InvitesKept
<1>14. QED BY <1>2, <1>5, <1>6, <1>10, <1>11, <1>12, <1>13 DEF MbInv, MbTyped

\* A step that is about neither requests nor memberships.
LEMMA TenantStep ==
  ASSUME MbInv, UNCHANGED <<member, account, op>>, TenantTyped', SpaceTyped', InviteTyped', InvitesKept',
         shaken \subseteq shaken', SeatsKept', SpacesKept', OwnersKept'
  PROVE  MbInv'
  BY NoOpMoves DEF MbInv, MbTyped, MemberTyped

LEMMA SignInKeeps ==
  ASSUME MbInv, NEW p \in People, SignIn(p)
  PROVE  MbInv'
<1>1. UNCHANGED <<plan, space, member, account, invite, channel, op, shaken, mbLeft>>
  BY DEF SignIn
<1>2. PICK w \in Workspaces : badge' = [badge EXCEPT ![p] = member[w][p].role]
  BY DEF SignIn, OpenSpaces
<1>3. TenantTyped'
  <2>1. member[w][p].role \in Roles
    BY DEF MbInv, MbTyped, MemberTyped, MbRow
  <2>2. QED BY <1>1, <1>2, <2>1 DEF MbInv, MbTyped, TenantTyped
<1>4. SeatsKept' /\ SpacesKept' /\ InvitesKept' /\ OwnersKept'
  BY <1>1, MbSame, NoOpMoves
<1>5. QED BY <1>1, <1>3, <1>4, TenantStep DEF MbInv, MbTyped, SpaceTyped, InviteTyped

LEMMA UpdatePlanKeeps ==
  ASSUME MbInv, NEW new \in Plans, UpdatePlan(new)
  PROVE  MbInv'
<1>1. /\ UNCHANGED <<space, member, badge, account, invite, channel, op>> /\ mbLeft' \in [MbEvents -> Nat]
      /\ plan' = new /\ shaken' = shaken \union {"plan"}
  BY MbUsesType DEF UpdatePlan, MbEvents
<1>2. TenantTyped' /\ SpaceTyped' /\ InviteTyped'
  BY <1>1 DEF MbInv, MbTyped, TenantTyped, SpaceTyped, InviteTyped
<1>3. SeatsKept' /\ SpacesKept'
  BY <1>1 DEF SeatsKept, SpacesKept
<1>4. InvitesKept' /\ OwnersKept'
  BY <1>1, MbSame, NoOpMoves
<1>5. QED BY <1>1, <1>2, <1>3, <1>4, TenantStep

LEMMA DeleteWorkspaceKeeps ==
  ASSUME MbInv, NEW w \in Workspaces, DeleteWorkspace(w)
  PROVE  MbInv'
<1>1. /\ UNCHANGED <<plan, member, badge, account, invite, channel, op>> /\ mbLeft' \in [MbEvents -> Nat]
      /\ space' = [space EXCEPT ![w] = "deleted"] /\ shaken \subseteq shaken'
      /\ shaken' \subseteq shaken \union {"owner"}
      /\ "owner" \notin shaken' => \A p \in People : <<w, p>> \notin Owners
  BY MbUsesType DEF DeleteWorkspace, MbEvents
<1>2. TenantTyped' /\ SpaceTyped' /\ InviteTyped'
  BY <1>1 DEF MbInv, MbTyped, TenantTyped, SpaceTyped, InviteTyped
<1>3. SeatsKept' /\ InvitesKept'
  BY <1>1, MbSame, NoOpMoves
<1>4. SpacesKept'
  <2>1. /\ OpenSpaces' \subseteq OpenSpaces /\ OpenSpaces \subseteq Workspaces /\ OpenSpaces' \subseteq Workspaces
        /\ IsFiniteSet(Workspaces) /\ SpaceOps \subseteq Ops /\ IsFiniteSet(Ops)
    BY <1>1, MembersAssumption DEF OpenSpaces, MbInv, MbTyped, SpaceTyped, SpaceOps
  <2>2. /\ Cardinality(OpenSpaces') <= Cardinality(OpenSpaces)
        /\ Cardinality(OpenSpaces) \in Nat /\ Cardinality(OpenSpaces') \in Nat
    BY <2>1, OneMoreOrLess
  <2>3. Cardinality(SpaceOps) \in Nat /\ Cardinality(Ops) \in Nat
    BY <2>1, OneMoreOrLess
  <2>4. SpaceOps' = SpaceOps
    BY <1>1, NoOpMoves
  <2>5. QED BY <1>1, <2>2, <2>3, <2>4, PlansAreNumbers DEF MbInv, SpacesKept
<1>5. OwnersKept'
  <2> SUFFICES ASSUME "owner" \notin shaken' PROVE OwnersKept'
    BY DEF OwnersKept
  <2>1. Owners' = Owners
    BY <1>1 DEF Owners
  <2>2. /\ Owners # {} /\ \A a \in Owners : space[a[1]] = "open"
        /\ \A o \in Ops : IsRemoval(op[o]) => \E a, b \in Owners : a # b
    BY <1>1 DEF MbInv, OwnersKept
  <2>3. ASSUME NEW a \in Owners PROVE space'[a[1]] = "open"
    <3>1. a \in Workspaces \X People /\ a[1] # w
      BY <1>1, <2>3 DEF Owners
    <3>2. QED BY <1>1, <2>2, <3>1 DEF MbInv, MbTyped, SpaceTyped
  <2>4. QED BY <1>1, <2>1, <2>2, <2>3 DEF OwnersKept
<1>6. QED BY <1>1, <1>2, <1>3, <1>4, <1>5, TenantStep

LEMMA ChannelsKeep ==
  ASSUME MbInv, NEW c \in Channels, DisconnectChannel(c) \/ \E w \in Workspaces : ConnectChannel(c, w)
  PROVE  MbInv'
<1>1. UNCHANGED <<plan, space, member, badge, account, invite, op, shaken>> /\ mbLeft' \in [MbEvents -> Nat]
  BY MbUsesType DEF DisconnectChannel, ConnectChannel, MbEvents
<1>2. channel' \in [Channels -> [state : {"none", "open", "deleted"}, space : Workspaces]]
  BY DEF MbInv, MbTyped, TenantTyped, DisconnectChannel, ConnectChannel
<1>3. TenantTyped'
  BY <1>1, <1>2 DEF MbInv, MbTyped, TenantTyped
<1>4. SeatsKept' /\ SpacesKept' /\ InvitesKept' /\ OwnersKept'
  BY <1>1, MbSame, NoOpMoves
<1>5. QED BY <1>1, <1>3, <1>4, TenantStep DEF MbInv, MbTyped, SpaceTyped, InviteTyped

-----------------------------------------------------------------------------
(* Invitations, step by step.                                                *)

\* An invitation that is new, or goes on, admits nobody by that.
LEMMA InviteStep ==
  ASSUME MbInv, NEW i \in Invitations, NEW new \in MbInvite, invite' = [invite EXCEPT ![i] = new],
         UNCHANGED <<plan, space, member, badge, account, channel, op, shaken>>, mbLeft' \in [MbEvents -> Nat],
         new.joined = invite[i].joined, new.status # "none",
         invite[i].status = "none" \/ new.person = invite[i].person
  PROVE  MbInv'
<1>1. /\ invite'[i] = new /\ \A k \in Invitations \ {i} : invite'[k] = invite[k]
      /\ InviteTyped'
  BY DEF MbInv, MbTyped, InviteTyped
<1>2. InvitesKept'
  <2>1. /\ \A k \in Invitations :
             /\ invite[k].joined <= 1 /\ (invite[k].status = "none" => invite[k].joined = 0)
             /\ invite[k].joined = 1 =>
                  /\ invite[k].person \in account
                  /\ \A j \in Invitations \ {k} : invite[j].person = invite[k].person => invite[j].joined = 0
        /\ \A o \in Ops : op[o] # NoOp /\ op[o].kind = "accept" =>
             \A k \in op[o].invite : invite[k].status # "none" /\ invite[k].person = op[o].person
    BY DEF MbInv, InvitesKept
  <2>2. \A k \in Invitations :
          /\ invite'[k].joined = invite[k].joined
          /\ invite'[k].joined = 1 => invite'[k].person = invite[k].person
          /\ invite[k].status # "none" => invite'[k].person = invite[k].person /\ invite'[k].status # "none"
          /\ invite'[k].status = "none" => invite[k].status = "none"
    BY <1>1, <2>1
  <2>3. \A k \in Invitations :
          /\ invite'[k].joined <= 1 /\ (invite'[k].status = "none" => invite'[k].joined = 0)
          /\ invite'[k].joined = 1 => invite'[k].person \in account
    BY <2>1, <2>2
  <2>4. ASSUME NEW k \in Invitations, invite'[k].joined = 1, NEW j \in Invitations \ {k},
               invite'[j].person = invite'[k].person
        PROVE  invite'[j].joined = 0
    <3>1. CASE invite[j].person = invite'[j].person
      BY <2>1, <2>2, <2>4, <3>1
    <3>2. CASE invite[j].person # invite'[j].person
      BY <2>1, <2>2, <3>2
    <3>3. QED BY <3>1, <3>2
  <2>5. \A o \in Ops : op[o] # NoOp /\ op[o].kind = "accept" =>
          \A k \in op[o].invite : invite'[k].status # "none" /\ invite'[k].person = op[o].person
    <3>1. \A o \in Ops : op[o] # NoOp => op[o].invite \subseteq Invitations
      BY DEF MbInv, MbTyped, OpTyped, MbOp
    <3>2. QED BY <2>1, <2>2, <3>1
  <2>6. QED BY <2>3, <2>4, <2>5 DEF InvitesKept
<1>3. SeatsKept' /\ SpacesKept' /\ OwnersKept'
  BY MbSame, NoOpMoves
<1>4. TenantTyped' /\ SpaceTyped'
  BY DEF MbInv, MbTyped, TenantTyped, SpaceTyped
<1>5. QED BY <1>1, <1>2, <1>3, <1>4, TenantStep

LEMMA CreateInvitationKeeps ==
  ASSUME MbInv, NEW i \in Invitations, NEW w \in Workspaces, NEW p \in People, NEW role \in {"OWNER", "AGENT"},
         CreateInvitation(i, w, p, role)
  PROVE  MbInv'
<1>1. PICK status \in {"PENDING", "REVOKED"} :
        invite' = [invite EXCEPT ![i] = [invite[i] EXCEPT !.status = status, !.space = w, !.person = p, !.role = role]]
  BY DEF CreateInvitation
<1> DEFINE new == [invite[i] EXCEPT !.status = status, !.space = w, !.person = p, !.role = role]
<1>2. invite[i] \in MbInvite
  BY DEF MbInv, MbTyped, InviteTyped
<1>3. new \in MbInvite /\ new.joined = invite[i].joined /\ new.status # "none"
  BY <1>2 DEF MbInvite, InviteStatus, Roles
<1> HIDE DEF new
<1>4. /\ invite' = [invite EXCEPT ![i] = new] /\ invite[i].status = "none" /\ mbLeft' \in [MbEvents -> Nat]
      /\ UNCHANGED <<plan, space, member, badge, account, channel, op, shaken>>
  BY <1>1, MbUsesType DEF CreateInvitation, MbEvents, new
<1>5. QED BY <1>3, <1>4, InviteStep

LEMMA InvitationGoes ==
  ASSUME MbInv, NEW i \in Invitations, RevokeInvitation(i) \/ InvitationFallsDue(i) \/ VerifyInvitation(i)
  PROVE  MbInv'
<1>1. invite[i] \in MbInvite
  BY DEF MbInv, MbTyped, InviteTyped
<1>2. UNCHANGED <<plan, space, member, badge, account, channel, op, shaken, mbLeft>> /\ mbLeft' \in [MbEvents -> Nat]
  BY DEF RevokeInvitation, InvitationFallsDue, VerifyInvitation, MbInv, MbTyped, TenantTyped
<1>3. CASE RevokeInvitation(i)
  <2> DEFINE new == [invite[i] EXCEPT !.status = "REVOKED"]
  <2>1. new \in MbInvite /\ new.joined = invite[i].joined /\ new.status # "none" /\ new.person = invite[i].person
    BY <1>1 DEF MbInvite, InviteStatus
  <2>2. invite' = [invite EXCEPT ![i] = new]
    BY <1>3 DEF RevokeInvitation
  <2> HIDE DEF new
  <2>3. QED BY <1>2, <2>1, <2>2, InviteStep
<1>4. CASE InvitationFallsDue(i)
  <2> DEFINE new == [invite[i] EXCEPT !.due = TRUE]
  <2>1. new \in MbInvite /\ new.joined = invite[i].joined /\ new.status # "none" /\ new.person = invite[i].person
    BY <1>1, <1>4 DEF MbInvite, InvitationFallsDue
  <2>2. invite' = [invite EXCEPT ![i] = new]
    BY <1>4 DEF InvitationFallsDue
  <2> HIDE DEF new
  <2>3. QED BY <1>2, <2>1, <2>2, InviteStep
<1>5. CASE VerifyInvitation(i)
  <2> DEFINE new == [invite[i] EXCEPT !.status = "EXPIRED"]
  <2>1. new \in MbInvite /\ new.joined = invite[i].joined /\ new.status # "none" /\ new.person = invite[i].person
    BY <1>1 DEF MbInvite, InviteStatus
  <2>2. invite' = [invite EXCEPT ![i] = new]
    BY <1>5 DEF VerifyInvitation
  <2> HIDE DEF new
  <2>3. QED BY <1>2, <2>1, <2>2, InviteStep
<1>6. QED BY <1>3, <1>4, <1>5

-----------------------------------------------------------------------------
(* The requests, step by step.                                               *)

\* A request on its way.
LEMMA OpIs == ASSUME MbInv, NEW o \in Ops, op[o] # NoOp PROVE op[o] \in MbOp
  BY DEF MbInv, MbTyped, OpTyped

LEMMA OpSteps ==
  ASSUME NEW x \in MbOp, NEW step \in {"check", "count", "write", "revoke"}
  PROVE  LET new == [x EXCEPT !.pc = step] IN
           /\ new \in MbOp /\ new.kind = x.kind /\ new.pc = step /\ new.space = x.space /\ new.person = x.person
           /\ new.role = x.role /\ new.invite = x.invite
  BY DEF MbOp

LEMMA NothingUnderWay == ~IsJoin(NoOp) /\ ~IsSpace(NoOp) /\ ~IsRemoval(NoOp)
  BY DEF IsJoin, IsSpace, IsRemoval

\* Workspaces are counted before one is added.
LEMMA BeginCreateWorkspaceKeeps ==
  ASSUME MbInv, NEW o \in Ops, NEW w \in Workspaces, BeginCreateWorkspace(o, w)
  PROVE  MbInv'
<1> DEFINE new == [kind |-> "space", pc |-> "write", space |-> w, person |-> Founder, role |-> "AGENT", invite |-> {}]
<1>1. new \in MbOp /\ new.kind = "space"
  BY MembersAssumption DEF MbOp, MbKinds, Roles
<1>2. /\ op' = [op EXCEPT ![o] = new] /\ mbLeft' \in [MbEvents -> Nat]
      /\ UNCHANGED <<plan, space, member, badge, account, invite, channel, shaken>>
      /\ Cardinality(OpenSpaces) < MaxWorkspaces[plan]
  BY MbUsesType DEF BeginCreateWorkspace, Begins, MbEvents, Room
<1> HIDE DEF new
<1>3. ~IsJoin(new) /\ ~IsRemoval(new)
  BY <1>1 DEF IsJoin, IsRemoval
<1>4. /\ OpTyped' /\ op'[o] = new /\ \A q \in Ops \ {o} : op'[q] = op[q]
      /\ JoiningOps' \subseteq JoiningOps /\ SpaceOps' \subseteq Ops
      /\ \A q \in Ops : IsRemoval(op'[q]) => IsRemoval(op[q])
  BY <1>1, <1>2, <1>3, OpMoves
<1>5. SeatsKept' /\ OwnersKept'
  BY <1>2, <1>4, MbSame
<1>6. SpacesKept'
  <2>1. OpenSpaces \subseteq Workspaces /\ IsFiniteSet(Workspaces) /\ IsFiniteSet(Ops)
    BY MembersAssumption DEF OpenSpaces
  <2>2. Cardinality(OpenSpaces) \in Nat
    BY <2>1, OneMoreOrLess
  <2>3. Cardinality(SpaceOps') \in Nat /\ Cardinality(Ops) \in Nat /\ Cardinality(SpaceOps') <= Cardinality(Ops)
    BY <1>4, <2>1, OneMoreOrLess
  <2>4. OpenSpaces' = OpenSpaces /\ plan' = plan
    BY <1>2 DEF OpenSpaces
  <2>5. QED BY <1>2, <2>2, <2>3, <2>4, PlansAreNumbers DEF SpacesKept
<1>7. InvitesKept'
  BY <1>1, <1>2, <1>4 DEF MbInv, InvitesKept
<1>8. TenantTyped' /\ SpaceTyped' /\ MemberTyped' /\ InviteTyped'
  BY <1>2 DEF MbInv, MbTyped, TenantTyped, SpaceTyped, MemberTyped, InviteTyped
<1>9. QED BY <1>4, <1>5, <1>6, <1>7, <1>8 DEF MbInv, MbTyped

LEMMA CreateWorkspaceKeeps ==
  ASSUME MbInv, NEW o \in Ops, CreateWorkspace(o)
  PROVE  MbInv'
<1>1. /\ op[o] # NoOp /\ op[o].kind = "space" /\ op' = [op EXCEPT ![o] = NoOp]
      /\ space' = [space EXCEPT ![op[o].space] = "open"]
      /\ UNCHANGED <<plan, member, badge, account, invite, channel, shaken, mbLeft>>
  BY DEF CreateWorkspace, OpAt, Done
<1>2. PICK w \in Workspaces : w = op[o].space
  BY <1>1, OpIs DEF MbOp
<1>3. /\ OpTyped' /\ op'[o] = NoOp /\ \A q \in Ops \ {o} : op'[q] = op[q]
      /\ JoiningOps' \subseteq JoiningOps /\ SpaceOps' = SpaceOps \ {o} /\ o \in SpaceOps
      /\ \A q \in Ops : IsRemoval(op'[q]) => IsRemoval(op[q])
  BY <1>1, OpMoves, NothingUnderWay DEF SpaceOps, IsSpace
<1>4. SpaceTyped' /\ (\A v \in Workspaces : space[v] = "open" => space'[v] = "open") /\ OpenSpaces' \subseteq OpenSpaces \union {w}
  BY <1>1, <1>2 DEF MbInv, MbTyped, SpaceTyped, OpenSpaces
<1>5. SeatsKept'
  BY <1>1, <1>3, MbSame
<1>6. SpacesKept'
  <2>1. /\ OpenSpaces \subseteq Workspaces /\ OpenSpaces' \subseteq Workspaces /\ IsFiniteSet(Workspaces)
        /\ SpaceOps \subseteq Ops /\ SpaceOps' \subseteq Ops /\ IsFiniteSet(Ops)
    BY MembersAssumption DEF OpenSpaces, SpaceOps
  <2>2. /\ Cardinality(OpenSpaces) \in Nat /\ Cardinality(OpenSpaces') \in Nat
        /\ Cardinality(OpenSpaces') <= Cardinality(OpenSpaces) + 1
    BY <1>4, <2>1, OneMoreOrLess
  <2>3. /\ Cardinality(SpaceOps') \in Nat /\ Cardinality(SpaceOps) \in Nat /\ Cardinality(Ops) \in Nat
        /\ Cardinality(SpaceOps') <= Cardinality(SpaceOps) - 1
    BY <1>3, <2>1, OneMoreOrLess
  <2>4. QED BY <1>1, <2>2, <2>3, PlansAreNumbers DEF MbInv, SpacesKept
<1>7. OwnersKept'
  <2>1. Owners' = Owners /\ \A a \in Owners : a[1] \in Workspaces
    BY <1>1 DEF Owners
  <2>2. QED BY <1>1, <1>3, <1>4, <2>1 DEF MbInv, OwnersKept
<1>8. InvitesKept'
  BY <1>1, <1>3 DEF MbInv, InvitesKept
<1>9. TenantTyped' /\ MemberTyped' /\ InviteTyped'
  BY <1>1 DEF MbInv, MbTyped, TenantTyped, MemberTyped, InviteTyped
<1>10. QED BY <1>3, <1>4, <1>5, <1>6, <1>7, <1>8, <1>9 DEF MbInv, MbTyped

LEMMA BeginAcceptKeeps ==
  ASSUME MbInv, NEW o \in Ops, NEW i \in Invitations, BeginAccept(o, i)
  PROVE  MbInv'
<1> DEFINE new == [kind |-> "accept", pc |-> "count", space |-> invite[i].space, person |-> invite[i].person,
                   role |-> invite[i].role, invite |-> {i}]
<1>1. invite[i] \in MbInvite /\ invite[i].status = "PENDING"
  BY DEF MbInv, MbTyped, InviteTyped, BeginAccept
<1>2. /\ new \in MbOp /\ new.kind = "accept" /\ new.pc = "count" /\ new.invite = {i}
      /\ new.person = invite[i].person
  BY <1>1 DEF MbInvite, MbOp, MbKinds
<1>3. /\ op' = [op EXCEPT ![o] = new] /\ mbLeft' \in [MbEvents -> Nat]
      /\ UNCHANGED <<plan, space, member, badge, account, invite, channel, shaken>>
  BY MbUsesType DEF BeginAccept, Begins, MbEvents
<1> HIDE DEF new
<1>4. ~IsJoin(new) /\ ~IsSpace(new) /\ ~IsRemoval(new)
  BY <1>2 DEF IsJoin, IsSpace, IsRemoval
<1>5. TenantTyped'
  BY <1>3 DEF MbInv, MbTyped, TenantTyped
<1>6. \A k \in new.invite : invite[k].status # "none" /\ invite[k].person = new.person
  BY <1>1, <1>2
<1>7. QED BY <1>2, <1>3, <1>4, <1>5, <1>6, OpQuiet

\* One that ends.
LEMMA OpEnds ==
  ASSUME MbInv, NEW o \in Ops, op' = [op EXCEPT ![o] = NoOp],
         UNCHANGED <<plan, space, member, account, invite>>, shaken' = shaken, TenantTyped'
  PROVE  MbInv'
  BY OpQuiet, NothingUnderWay

\* Seats are counted before one is taken.
LEMMA CheckSeatsKeeps ==
  ASSUME MbInv, NEW o \in Ops, CheckSeats(o)
  PROVE  MbInv'
<1>1. /\ op[o] # NoOp /\ op[o].kind = "accept" /\ op[o] \in MbOp
      /\ UNCHANGED <<plan, space, member, badge, account, invite, channel, shaken, mbLeft>>
  BY OpIs DEF CheckSeats, OpAt
<1>2. TenantTyped' /\ SpaceTyped' /\ MemberTyped' /\ InviteTyped'
  BY <1>1 DEF MbInv, MbTyped, TenantTyped, SpaceTyped, MemberTyped, InviteTyped
<1>3. CASE ~Room(Cardinality(Seats), MaxAgents[plan])
  <2>1. op' = [op EXCEPT ![o] = NoOp]
    BY <1>3 DEF CheckSeats, Done
  <2>2. QED BY <1>1, <1>2, <2>1, OpEnds
<1>4. CASE Room(Cardinality(Seats), MaxAgents[plan])
  <2> DEFINE new == [op[o] EXCEPT !.pc = "write"]
  <2>1. new \in MbOp /\ new.kind = "accept" /\ new.person = op[o].person /\ new.invite = op[o].invite
    BY <1>1, OpSteps
  <2>2. op' = [op EXCEPT ![o] = new] /\ Cardinality(Seats) < MaxAgents[plan]
    BY <1>4 DEF CheckSeats, Steps, Room
  <2> HIDE DEF new
  <2>3. ~IsSpace(new) /\ ~IsRemoval(new)
    BY <2>1 DEF IsSpace, IsRemoval
  <2>4. /\ OpTyped' /\ op'[o] = new /\ \A q \in Ops \ {o} : op'[q] = op[q]
        /\ JoiningOps' \subseteq Ops /\ SpaceOps' \subseteq SpaceOps
        /\ \A q \in Ops : IsRemoval(op'[q]) => IsRemoval(op[q])
    BY <2>1, <2>2, <2>3, OpMoves
  <2>5. SpacesKept' /\ OwnersKept'
    BY <1>1, <2>4, MbSame
  <2>6. SeatsKept'
    <3>1. Seats \subseteq People /\ IsFiniteSet(People) /\ IsFiniteSet(Ops)
      BY MembersAssumption DEF Seats
    <3>2. Cardinality(Seats) \in Nat
      BY <3>1, OneMoreOrLess
    <3>3. /\ Cardinality(JoiningOps') \in Nat /\ Cardinality(Ops) \in Nat
          /\ Cardinality(JoiningOps') <= Cardinality(Ops)
      BY <2>4, <3>1, OneMoreOrLess
    <3>4. Seats' = Seats /\ plan' = plan
      BY <1>1 DEF Seats
    <3>5. QED BY <2>2, <3>2, <3>3, <3>4, PlansAreNumbers DEF SeatsKept
  <2>7. InvitesKept'
    <3>1. \A k \in new.invite : invite[k].status # "none" /\ invite[k].person = new.person
      BY <1>1, <2>1 DEF MbInv, InvitesKept
    <3>2. QED BY <1>1, <2>1, <2>4, <3>1 DEF MbInv, InvitesKept
  <2>8. QED BY <1>2, <2>4, <2>5, <2>6, <2>7 DEF MbInv, MbTyped
<1>5. QED BY <1>3, <1>4

\* Someone joins: an address that has no account yet, so no invitation admitted it before.
LEMMA JoinKeeps ==
  ASSUME MbInv, NEW o \in Ops, Join(o)
  PROVE  MbInv'
<1>1. /\ op[o] # NoOp /\ op[o].kind = "accept" /\ op[o].pc = "write" /\ op[o] \in MbOp
      /\ op' = [op EXCEPT ![o] = NoOp] /\ UNCHANGED <<plan, space, badge, channel, mbLeft>>
  BY OpIs DEF Join, OpAt, Done
<1>2. PICK w \in Workspaces, p \in People, role \in Roles :
        w = op[o].space /\ p = op[o].person /\ role = op[o].role
  BY <1>1 DEF MbOp
<1>3. PICK i \in Invitations :
        /\ i \in op[o].invite
        /\ IF Joined(p) THEN UNCHANGED <<member, account, invite, shaken>>
           ELSE /\ account' = account \union {p}
                /\ member' = [member EXCEPT ![w][p] = [role |-> role, active |-> TRUE]]
                /\ invite' = [invite EXCEPT ![i].status = "ACCEPTED", ![i].joined = @ + 1]
                /\ shaken' = IF Buried(o) THEN shaken \union {"owner"} ELSE shaken
  BY <1>1, <1>2 DEF Join, MbOp
<1>4. CASE Joined(p)
  <2>1. UNCHANGED <<member, account, invite, shaken>>
    BY <1>3, <1>4
  <2>2. TenantTyped'
    BY <1>1, <2>1 DEF MbInv, MbTyped, TenantTyped
  <2>3. QED BY <1>1, <2>1, <2>2, OpEnds
<1>5. CASE ~Joined(p)
  <2>1. PICK seat \in MbRow : seat = [role |-> role, active |-> TRUE]
    BY DEF MbRow
  <2>2. p \notin account /\ account' = account \union {p} /\ account' \subseteq People
    BY <1>3, <1>5 DEF Joined, MbInv, MbTyped, MemberTyped
  <2>3. member' = [member EXCEPT ![w] = [member[w] EXCEPT ![p] = seat]]
    BY <1>3, <1>5, <2>1
  <2>4. shaken \subseteq shaken' /\ shaken' \subseteq shaken \union {"owner"} /\ ("owner" \notin shaken' => ~Buried(o))
    BY <1>3, <1>5
  <2>5. /\ MemberTyped' /\ member'[w][p] = seat
        /\ \A v \in Workspaces, q \in People : v # w \/ q # p => member'[v][q] = member[v][q]
        /\ Owners \ {<<w, p>>} \subseteq Owners' /\ Owners' \subseteq Owners \union {<<w, p>>}
        /\ <<w, p>> \in Owners' <=> seat = OwnerRow
        /\ Seats' \subseteq Seats \union {p}
    <3>1. SeatWritten(w, p, seat)
      BY <2>2, <2>3 DEF SeatWritten
    <3>2. SeatFollows(w, p, seat)
      BY <3>1, MemberMoves
    <3>3. QED BY <3>2 DEF SeatFollows
  <2>6. /\ OpTyped' /\ op'[o] = NoOp /\ \A q \in Ops \ {o} : op'[q] = op[q]
        /\ JoiningOps' = JoiningOps \ {o} /\ SpaceOps' \subseteq SpaceOps /\ o \in JoiningOps
        /\ \A q \in Ops : IsRemoval(op'[q]) => IsRemoval(op[q])
    BY <1>1, OpMoves, NothingUnderWay DEF JoiningOps, IsJoin
  <2>7. SpacesKept'
    BY <1>1, <2>4, <2>6, MbSame
  <2>8. SeatsKept'
    <3>1. /\ Seats \subseteq People /\ Seats' \subseteq People /\ IsFiniteSet(People)
          /\ JoiningOps \subseteq Ops /\ JoiningOps' \subseteq Ops /\ IsFiniteSet(Ops)
      BY MembersAssumption DEF Seats, JoiningOps
    <3>2. /\ Cardinality(Seats) \in Nat /\ Cardinality(Seats') \in Nat
          /\ Cardinality(Seats') <= Cardinality(Seats) + 1
      BY <2>5, <3>1, OneMoreOrLess
    <3>3. /\ Cardinality(JoiningOps') \in Nat /\ Cardinality(JoiningOps) \in Nat /\ Cardinality(Ops) \in Nat
          /\ Cardinality(JoiningOps') <= Cardinality(JoiningOps) - 1
      BY <2>6, <3>1, OneMoreOrLess
    <3>4. QED BY <1>1, <2>4, <3>2, <3>3, PlansAreNumbers DEF MbInv, SeatsKept
  <2>9. OwnersKept'
    <3> SUFFICES ASSUME "owner" \notin shaken' PROVE OwnersKept'
      BY DEF OwnersKept
    <3>1. /\ Owners # {} /\ \A a \in Owners : space[a[1]] = "open"
          /\ \A q \in Ops : IsRemoval(op[q]) => \E a, b \in Owners : a # b
      BY <2>4 DEF MbInv, OwnersKept
    <3>2. <<w, p>> \notin Owners
      <4>1. ~member[w][p].active
        BY <2>2 DEF MbInv, MbTyped, MemberTyped
      <4>2. QED BY <4>1 DEF Owners
    <3>3. Owners \subseteq Owners'
      BY <2>5, <3>2
    <3>4. <<w, p>> \in Owners' => space[w] = "open"
      <4>1. ASSUME <<w, p>> \in Owners' PROVE role = "OWNER"
        BY <2>1, <2>5, <4>1 DEF OwnerRow
      <4>2. QED BY <1>2, <2>4, <4>1 DEF Buried
    <3>5. \A a \in Owners' : space'[a[1]] = "open"
      BY <1>1, <2>5, <3>1, <3>4
    <3>6. QED BY <2>6, <3>1, <3>3, <3>5 DEF OwnersKept
  <2>10. /\ \A k \in Invitations :
              /\ invite[k].joined <= 1 /\ (invite[k].status = "none" => invite[k].joined = 0)
              /\ invite[k].joined = 1 =>
                   /\ invite[k].person \in account
                   /\ \A j \in Invitations \ {k} : invite[j].person = invite[k].person => invite[j].joined = 0
         /\ \A q \in Ops : op[q] # NoOp /\ op[q].kind = "accept" =>
              \A k \in op[q].invite : invite[k].status # "none" /\ invite[k].person = op[q].person
         /\ \A k \in Invitations : invite[k] \in MbInvite
    BY DEF MbInv, InvitesKept, MbTyped, InviteTyped
  <2> DEFINE new == [invite[i] EXCEPT !.status = "ACCEPTED", !.joined = invite[i].joined + 1]
  <2>11. invite[i].joined = 0 /\ invite[i].person = p
    <3>1. invite[i].person = p
      BY <1>1, <1>2, <1>3, <2>10
    <3>2. invite[i].joined # 1 /\ invite[i].joined <= 1
      BY <2>2, <2>10, <3>1
    <3>3. invite[i].joined \in Nat
      BY <2>10 DEF MbInvite
    <3>4. QED BY <3>1, <3>2, <3>3
  <2>12. new \in MbInvite /\ new.joined = 1 /\ new.status # "none" /\ new.person = p
    <3>1. invite[i] \in MbInvite /\ 0 + 1 = 1 /\ 1 \in Nat /\ "ACCEPTED" \in InviteStatus
      BY <2>10 DEF InviteStatus
    <3>2. new = [invite[i] EXCEPT !.status = "ACCEPTED", !.joined = 1]
      BY <2>11
    <3>3. QED BY <2>11, <3>1, <3>2 DEF MbInvite
  <2>13. invite' = [invite EXCEPT ![i] = new]
    BY <1>3, <1>5
  <2> HIDE DEF new
  <2>14. invite'[i] = new /\ (\A k \in Invitations \ {i} : invite'[k] = invite[k]) /\ InviteTyped'
    BY <2>12, <2>13 DEF MbInv, MbTyped, InviteTyped
  <2>15. \A k \in Invitations \ {i} : invite'[k].person = p => invite'[k].joined = 0
    BY <2>2, <2>10, <2>14 DEF MbInvite
  <2>16. InvitesKept'
    <3>1. \A k \in Invitations :
            /\ invite'[k].joined <= 1 /\ (invite'[k].status = "none" => invite'[k].joined = 0)
            /\ invite'[k].joined = 1 => invite'[k].person \in account'
      BY <2>2, <2>10, <2>12, <2>14
    <3>2. ASSUME NEW k \in Invitations, invite'[k].joined = 1, NEW j \in Invitations \ {k},
                 invite'[j].person = invite'[k].person
          PROVE  invite'[j].joined = 0
      <4>1. CASE k = i
        BY <2>12, <2>14, <2>15, <3>2, <4>1
      <4>2. CASE k # i /\ j = i
        <5>1. invite'[k].person = p
          BY <2>12, <2>14, <3>2, <4>2
        <5>2. QED BY <2>15, <3>2, <4>2, <5>1
      <4>3. CASE k # i /\ j # i
        BY <2>10, <2>14, <3>2, <4>3
      <4>4. QED BY <4>1, <4>2, <4>3
    <3>3. ASSUME NEW q \in Ops, op'[q] # NoOp, op'[q].kind = "accept", NEW k \in op'[q].invite
          PROVE  invite'[k].status # "none" /\ invite'[k].person = op'[q].person
      <4>1. op'[q] = op[q] /\ k \in Invitations
        <5>1. q # o
          BY <2>6, <3>3
        <5>2. op'[q] = op[q]
          BY <2>6, <5>1
        <5>3. QED BY <3>3, <5>2, OpIs DEF MbOp
      <4>2. invite[k].status # "none" /\ invite[k].person = op[q].person
        BY <2>10, <3>3, <4>1
      <4>3. QED BY <2>11, <2>12, <2>14, <4>1, <4>2
    <3>4. QED BY <3>1, <3>2, <3>3 DEF InvitesKept
  <2>17. TenantTyped' /\ SpaceTyped'
    BY <1>1, <2>4 DEF MbInv, MbTyped, TenantTyped, SpaceTyped
  <2>18. QED BY <2>5, <2>6, <2>7, <2>8, <2>9, <2>14, <2>16, <2>17 DEF MbInv, MbTyped
<1>6. QED BY <1>4, <1>5

-----------------------------------------------------------------------------
(* Removals and roles, step by step.                                         *)

LEMMA BeginRemoveKeeps ==
  ASSUME MbInv, NEW o \in Ops, NEW actor \in People, NEW w \in Workspaces, NEW p \in People,
         BeginRemove(o, actor, w, p)
  PROVE  MbInv'
<1> DEFINE step == IF member[w][p].role = "OWNER" THEN "count" ELSE "write"
           new == [kind |-> "remove", pc |-> step, space |-> w, person |-> p, role |-> member[w][p].role, invite |-> {}]
<1>1. member[w][p].role \in Roles /\ step \in {"check", "count", "write", "revoke"}
  BY DEF MbInv, MbTyped, MemberTyped, MbRow
<1>2. /\ new \in MbOp /\ new.kind = "remove" /\ new.role = member[w][p].role /\ new.pc = step
  BY <1>1 DEF MbOp, MbKinds
<1>3. /\ op' = [op EXCEPT ![o] = new] /\ mbLeft' \in [MbEvents -> Nat]
      /\ UNCHANGED <<plan, space, member, badge, account, invite, channel, shaken>>
  BY MbUsesType DEF BeginRemove, Begins, MbEvents
<1>4. new.pc = "write" => new.role # "OWNER"
  BY <1>2
<1> HIDE DEF new
<1>5. ~IsJoin(new) /\ ~IsSpace(new) /\ ~IsRemoval(new)
  BY <1>2, <1>4 DEF IsJoin, IsSpace, IsRemoval
<1>6. TenantTyped'
  BY <1>3 DEF MbInv, MbTyped, TenantTyped
<1>7. new.kind # "accept"
  BY <1>2
<1>8. QED BY <1>2, <1>3, <1>5, <1>6, <1>7, OpQuiet

\* Where there is more than one owner, there are two.
LEMMA AnotherOwner == ASSUME ~LastOwner PROVE \E a, b \in Owners : a # b
<1>1. Owners # {}
  BY FS_EmptySet DEF LastOwner
<1>2. PICK a \in Owners : TRUE
  BY <1>1
<1>3. Owners # {a}
  <2>1. Cardinality({a}) = 1
    BY FS_Singleton
  <2>2. QED BY <2>1 DEF LastOwner
<1>4. QED BY <1>2, <1>3

LEMMA CountOwnersKeeps ==
  ASSUME MbInv, NEW o \in Ops, CountOwners(o)
  PROVE  MbInv'
<1>1. /\ op[o] # NoOp /\ op[o].kind = "remove" /\ op[o] \in MbOp
      /\ UNCHANGED <<plan, space, member, badge, account, invite, channel, shaken, mbLeft>>
  BY OpIs DEF CountOwners, OpAt
<1>2. TenantTyped' /\ SpaceTyped' /\ MemberTyped' /\ InviteTyped'
  BY <1>1 DEF MbInv, MbTyped, TenantTyped, SpaceTyped, MemberTyped, InviteTyped
<1>3. CASE LastOwner
  <2>1. op' = [op EXCEPT ![o] = NoOp]
    BY <1>3 DEF CountOwners, Done
  <2>2. QED BY <1>1, <1>2, <2>1, OpEnds
<1>4. CASE ~LastOwner
  <2> DEFINE new == [op[o] EXCEPT !.pc = "write"]
  <2>1. new \in MbOp /\ new.kind = "remove"
    BY <1>1, OpSteps
  <2>2. op' = [op EXCEPT ![o] = new]
    BY <1>4 DEF CountOwners, Steps
  <2> HIDE DEF new
  <2>3. ~IsSpace(new) /\ ~IsJoin(new)
    BY <2>1 DEF IsSpace, IsJoin
  <2>4. /\ OpTyped' /\ op'[o] = new /\ \A q \in Ops \ {o} : op'[q] = op[q]
        /\ JoiningOps' \subseteq JoiningOps /\ SpaceOps' \subseteq SpaceOps
    BY <2>1, <2>2, <2>3, OpMoves
  <2>5. SpacesKept' /\ SeatsKept'
    BY <1>1, <2>4, MbSame
  <2>6. OwnersKept'
    <3>1. Owners' = Owners
      BY <1>1 DEF Owners
    <3>2. QED BY <1>1, <1>4, <3>1, AnotherOwner DEF MbInv, OwnersKept
  <2>7. InvitesKept'
    BY <1>1, <2>1, <2>4 DEF MbInv, InvitesKept
  <2>8. QED BY <1>2, <2>4, <2>5, <2>6, <2>7 DEF MbInv, MbTyped
<1>5. QED BY <1>3, <1>4

\* A membership of a person with an account changes, but for the owners.
LEMMA SeatChanges ==
  ASSUME MbInv, NEW o \in Ops, NEW new \in MbOp \union {NoOp}, op' = [op EXCEPT ![o] = new],
         NEW w \in Workspaces, NEW p \in People, NEW seat \in MbRow, seat.active => member[w][p].active,
         member' = [member EXCEPT ![w] = [member[w] EXCEPT ![p] = seat]],
         UNCHANGED <<plan, space, badge, account, invite, channel, mbLeft>>,
         shaken \subseteq shaken', shaken' \subseteq shaken \union {"owner"},
         ~IsJoin(new), ~IsSpace(new), new # NoOp => new.kind # "accept",
         SeatFollows(w, p, seat) => OwnersKept'
  PROVE  MbInv'
<1>1. SeatWritten(w, p, seat)
  BY DEF SeatWritten, MbInv, MbTyped, MemberTyped
<1>2. SeatFollows(w, p, seat)
  BY <1>1, MemberMoves
<1>3. MemberTyped' /\ Seats' \subseteq Seats
  BY <1>2 DEF SeatFollows
<1>4. /\ OpTyped' /\ op'[o] = new /\ \A q \in Ops \ {o} : op'[q] = op[q]
      /\ JoiningOps' \subseteq JoiningOps /\ SpaceOps' \subseteq SpaceOps
  BY OpMoves
<1>5. SpacesKept'
  BY <1>4, MbSame
<1>6. SeatsKept'
  <2>1. /\ Seats \subseteq People /\ Seats' \subseteq People /\ IsFiniteSet(People)
        /\ JoiningOps \subseteq Ops /\ JoiningOps' \subseteq Ops /\ IsFiniteSet(Ops)
    BY MembersAssumption DEF Seats, JoiningOps
  <2>2. /\ Cardinality(Seats) \in Nat /\ Cardinality(Seats') \in Nat
        /\ Cardinality(Seats') <= Cardinality(Seats)
    BY <1>3, <2>1, OneMoreOrLess
  <2>3. /\ Cardinality(JoiningOps') \in Nat /\ Cardinality(JoiningOps) \in Nat /\ Cardinality(Ops) \in Nat
        /\ Cardinality(JoiningOps') <= Cardinality(JoiningOps)
    BY <1>4, <2>1, OneMoreOrLess
  <2>4. QED BY <2>2, <2>3, PlansAreNumbers DEF MbInv, SeatsKept
<1>7. InvitesKept'
  BY <1>4 DEF MbInv, InvitesKept
<1>8. TenantTyped' /\ SpaceTyped' /\ InviteTyped'
  BY DEF MbInv, MbTyped, TenantTyped, SpaceTyped, InviteTyped
<1>9. QED BY <1>2, <1>3, <1>4, <1>5, <1>6, <1>7, <1>8 DEF MbInv, MbTyped

LEMMA RemoveMemberKeeps ==
  ASSUME MbInv, NEW o \in Ops, RemoveMember(o)
  PROVE  MbInv'
<1>1. /\ op[o] # NoOp /\ op[o].kind = "remove" /\ op[o].pc = "write" /\ op[o] \in MbOp
      /\ op' = [op EXCEPT ![o] = [op[o] EXCEPT !.pc = "revoke"]]
      /\ UNCHANGED <<plan, space, badge, account, invite, channel, mbLeft>>
  BY OpIs DEF RemoveMember, OpAt, Steps
<1>2. PICK w \in Workspaces, p \in People : w = op[o].space /\ p = op[o].person
  BY <1>1 DEF MbOp
<1>3. PICK others \in BOOLEAN : others <=> \E q \in Ops \ {o} : op[q] # NoOp /\ op[q].kind \in {"remove", "role"}
  OBVIOUS
<1> DEFINE no == FALSE
<1> HIDE DEF no
<1>4. /\ member' = [member EXCEPT ![w][p].active = no]
      /\ shaken' = IF member[w][p].role = "OWNER" /\ (op[o].role # "OWNER" \/ others)
                   THEN shaken \union {"owner"} ELSE shaken
  BY <1>2, <1>3 DEF RemoveMember, no
<1>5. PICK seat \in MbRow : seat = [member[w][p] EXCEPT !.active = no] /\ ~seat.active
  <2>1. PICK held \in MbRow : held = member[w][p]
    BY DEF MbInv, MbTyped, MemberTyped
  <2>2. PICK r \in Roles, a \in BOOLEAN : held = [role |-> r, active |-> a]
    BY DEF MbRow
  <2>3. no \in BOOLEAN /\ ~no
    BY DEF no
  <2>4. [held EXCEPT !.active = no] = [role |-> r, active |-> no]
    BY <2>2
  <2>5. [role |-> r, active |-> no] \in MbRow /\ [role |-> r, active |-> no].active = no
    BY <2>3 DEF MbRow
  <2>6. QED BY <2>1, <2>3, <2>4, <2>5
<1>6. member' = [member EXCEPT ![w] = [member[w] EXCEPT ![p] = seat]]
  BY <1>4, <1>5
<1>7. PICK new \in MbOp : new = [op[o] EXCEPT !.pc = "revoke"] /\ new.kind = "remove" /\ new.pc = "revoke"
  <2> DEFINE x == [op[o] EXCEPT !.pc = "revoke"]
  <2>1. x \in MbOp /\ x.kind = "remove" /\ x.pc = "revoke"
    BY <1>1, OpSteps
  <2> HIDE DEF x
  <2>2. \E new \in MbOp : new = x /\ new.kind = "remove" /\ new.pc = "revoke"
    BY <2>1
  <2>3. QED BY <2>2 DEF x
<1>8. ~IsJoin(new) /\ ~IsSpace(new) /\ ~IsRemoval(new) /\ new.kind # "accept"
  BY <1>7 DEF IsJoin, IsSpace, IsRemoval
<1>9. op' = [op EXCEPT ![o] = new]
  BY <1>1, <1>7
<1>10. /\ op'[o] = new /\ \A q \in Ops \ {o} : op'[q] = op[q]
  BY <1>9, OpMoves
<1>11. shaken \subseteq shaken' /\ shaken' \subseteq shaken \union {"owner"}
  BY <1>4
<1>12. seat.active => member[w][p].active
  BY <1>5
<1>13. ASSUME SeatFollows(w, p, seat)
       PROVE  OwnersKept'
  <2> SUFFICES ASSUME "owner" \notin shaken' PROVE OwnersKept'
    BY DEF OwnersKept
  <2>1. /\ Owners # {} /\ \A a \in Owners : space[a[1]] = "open"
        /\ \A q \in Ops : IsRemoval(op[q]) => \E a, b \in Owners : a # b
    BY <1>11 DEF MbInv, OwnersKept
  <2>2. seat # OwnerRow
    BY <1>5 DEF OwnerRow
  <2>3. Owners' = Owners \ {<<w, p>>}
    BY <1>13, <2>2 DEF SeatFollows
  <2>4. CASE member[w][p].role # "OWNER"
    <3>1. Owners' = Owners
      BY <2>3, <2>4 DEF Owners
    <3>2. \A q \in Ops : IsRemoval(op'[q]) => IsRemoval(op[q])
      BY <1>8, <1>10
    <3>3. QED BY <1>1, <2>1, <3>1, <3>2 DEF OwnersKept
  <2>5. CASE member[w][p].role = "OWNER"
    <3>1. op[o].role = "OWNER" /\ ~others
      BY <1>4, <2>5
    <3>2. IsRemoval(op[o])
      BY <1>1, <3>1 DEF IsRemoval
    <3>3. PICK a \in Owners, b \in Owners : a # b
      BY <2>1, <3>2
    <3>4. Owners' # {} /\ \A c \in Owners' : space'[c[1]] = "open"
      BY <1>1, <2>1, <2>3, <3>3
    <3>5. \A q \in Ops : ~IsRemoval(op'[q])
      BY <1>3, <1>8, <1>10, <3>1 DEF IsRemoval
    <3>6. QED BY <3>4, <3>5 DEF OwnersKept
  <2>6. QED BY <2>4, <2>5
<1>14. QED BY <1>1, <1>6, <1>8, <1>9, <1>11, <1>12, <1>13, SeatChanges

LEMMA RevokeMemberKeeps ==
  ASSUME MbInv, NEW o \in Ops, RevokeMember(o)
  PROVE  MbInv'
<1>1. /\ op[o] # NoOp /\ op' = [op EXCEPT ![o] = NoOp] /\ badge' = [badge EXCEPT ![op[o].person] = "none"]
      /\ UNCHANGED <<plan, space, member, account, invite, channel, shaken, mbLeft>>
  BY DEF RevokeMember, OpAt, Done
<1>2. TenantTyped'
  BY <1>1 DEF MbInv, MbTyped, TenantTyped
<1>3. QED BY <1>1, <1>2, OpEnds

LEMMA BeginRoleChangeKeeps ==
  ASSUME MbInv, NEW o \in Ops, NEW actor \in People, NEW w \in Workspaces, NEW p \in People,
         NEW role \in {"OWNER", "AGENT"}, BeginRoleChange(o, actor, w, p, role)
  PROVE  MbInv'
<1> DEFINE new == [kind |-> "role", pc |-> "write", space |-> w, person |-> p, role |-> role, invite |-> {}]
<1>1. new \in MbOp /\ new.kind = "role"
  BY DEF MbOp, MbKinds, Roles
<1>2. /\ op' = [op EXCEPT ![o] = new] /\ mbLeft' \in [MbEvents -> Nat]
      /\ UNCHANGED <<plan, space, member, badge, account, invite, channel, shaken>>
  BY MbUsesType DEF BeginRoleChange, Begins, MbEvents
<1> HIDE DEF new
<1>3. ~IsJoin(new) /\ ~IsSpace(new) /\ ~IsRemoval(new) /\ new.kind # "accept"
  BY <1>1 DEF IsJoin, IsSpace, IsRemoval
<1>4. TenantTyped'
  BY <1>2 DEF MbInv, MbTyped, TenantTyped
<1>5. QED BY <1>1, <1>2, <1>3, <1>4, OpQuiet

LEMMA ChangeRoleKeeps ==
  ASSUME MbInv, NEW o \in Ops, ChangeRole(o)
  PROVE  MbInv'
<1>1. /\ op[o] # NoOp /\ op[o].kind = "role" /\ op[o] \in MbOp /\ op' = [op EXCEPT ![o] = NoOp]
      /\ UNCHANGED <<plan, space, badge, account, invite, channel, mbLeft>>
  BY OpIs DEF ChangeRole, OpAt, Done
<1>2. PICK w \in Workspaces, p \in People, role \in Roles : w = op[o].space /\ p = op[o].person /\ role = op[o].role
  BY <1>1 DEF MbOp
<1>3. /\ member' = [member EXCEPT ![w][p].role = role]
      /\ shaken' = IF <<w, p>> \in Owners \/ Buried(o) THEN shaken \union {"owner"} ELSE shaken
  BY <1>2 DEF ChangeRole
<1>4. PICK seat \in MbRow : /\ seat = [member[w][p] EXCEPT !.role = role]
                            /\ seat.active = member[w][p].active /\ seat.role = role
  <2>1. PICK held \in MbRow : held = member[w][p]
    BY DEF MbInv, MbTyped, MemberTyped
  <2>2. PICK r \in Roles, a \in BOOLEAN : held = [role |-> r, active |-> a]
    BY DEF MbRow
  <2>3. [held EXCEPT !.role = role] = [role |-> role, active |-> a]
    BY <2>2
  <2>4. [role |-> role, active |-> a] \in MbRow
    BY DEF MbRow
  <2>5. QED BY <2>1, <2>2, <2>3, <2>4
<1>5. member' = [member EXCEPT ![w] = [member[w] EXCEPT ![p] = seat]]
  BY <1>3, <1>4
<1>6. /\ op'[o] = NoOp /\ \A q \in Ops \ {o} : op'[q] = op[q]
  BY <1>1, OpMoves
<1>7. shaken \subseteq shaken' /\ shaken' \subseteq shaken \union {"owner"}
      /\ ("owner" \notin shaken' => <<w, p>> \notin Owners /\ ~Buried(o))
  BY <1>3
<1>8. ASSUME SeatFollows(w, p, seat)
      PROVE  OwnersKept'
  <2> SUFFICES ASSUME "owner" \notin shaken' PROVE OwnersKept'
    BY DEF OwnersKept
  <2>1. /\ Owners # {} /\ \A a \in Owners : space[a[1]] = "open"
        /\ \A q \in Ops : IsRemoval(op[q]) => \E a, b \in Owners : a # b
    BY <1>7 DEF MbInv, OwnersKept
  <2>2. Owners \subseteq Owners' /\ Owners' \subseteq Owners \union {<<w, p>>}
    BY <1>7, <1>8 DEF SeatFollows
  <2>3. <<w, p>> \in Owners' => space[w] = "open"
    <3>1. ASSUME <<w, p>> \in Owners' PROVE role = "OWNER"
      BY <1>4, <1>8, <3>1 DEF SeatFollows, OwnerRow
    <3>2. QED BY <1>2, <1>7, <3>1 DEF Buried
  <2>4. \A a \in Owners' : space'[a[1]] = "open"
    BY <1>1, <2>1, <2>2, <2>3
  <2>5. \A q \in Ops : IsRemoval(op'[q]) => IsRemoval(op[q])
    BY <1>6, NothingUnderWay
  <2>6. QED BY <2>1, <2>2, <2>4, <2>5 DEF OwnersKept
<1>9. seat.active => member[w][p].active
  BY <1>4
<1>10. QED BY <1>1, <1>5, <1>7, <1>8, <1>9, NothingUnderWay, SeatChanges

LEMMA OpFailsKeeps ==
  ASSUME MbInv, NEW o \in Ops, OpFails(o)
  PROVE  MbInv'
<1>1. /\ op' = [op EXCEPT ![o] = NoOp] /\ mbLeft' \in [MbEvents -> Nat]
      /\ UNCHANGED <<plan, space, member, badge, account, invite, channel, shaken>>
  BY MbUsesType DEF OpFails, Done, MbEvents
<1>2. TenantTyped'
  BY <1>1 DEF MbInv, MbTyped, TenantTyped
<1>3. QED BY <1>1, <1>2, OpEnds

LEMMA MembersStepKeeps ==
  ASSUME MbInv, [MbNext]_mbVars
  PROVE  MbInv'
<1>1. CASE \E p \in People : SignIn(p)
  BY <1>1, SignInKeeps
<1>2. CASE \E new \in Plans : UpdatePlan(new)
  BY <1>2, UpdatePlanKeeps
<1>3. CASE \E w \in Workspaces : DeleteWorkspace(w)
  BY <1>3, DeleteWorkspaceKeeps
<1>4. CASE \E c \in Channels : DisconnectChannel(c) \/ \E w \in Workspaces : ConnectChannel(c, w)
  BY <1>4, ChannelsKeep
<1>5. CASE \E i \in Invitations :
        \/ RevokeInvitation(i) \/ InvitationFallsDue(i) \/ VerifyInvitation(i)
        \/ \E w \in Workspaces, p \in People, role \in {"OWNER", "AGENT"} : CreateInvitation(i, w, p, role)
  BY <1>5, InvitationGoes, CreateInvitationKeeps
<1>6. ASSUME NEW o \in Ops, CreateWorkspace(o) \/ CheckSeats(o) \/ Join(o) \/ CountOwners(o) \/ RemoveMember(o)
                            \/ RevokeMember(o) \/ ChangeRole(o) \/ OpFails(o)
      PROVE  MbInv'
  BY <1>6, CreateWorkspaceKeeps, CheckSeatsKeeps, JoinKeeps, CountOwnersKeeps, RemoveMemberKeeps, RevokeMemberKeeps,
     ChangeRoleKeeps, OpFailsKeeps
<1>7. ASSUME NEW o \in Ops, NEW i \in Invitations, BeginAccept(o, i)
      PROVE  MbInv'
  BY <1>7, BeginAcceptKeeps
<1>8. ASSUME NEW o \in Ops, NEW w \in Workspaces,
             \/ BeginCreateWorkspace(o, w)
             \/ \E actor, p \in People :
                  \/ BeginRemove(o, actor, w, p)
                  \/ \E role \in {"OWNER", "AGENT"} : BeginRoleChange(o, actor, w, p, role)
      PROVE  MbInv'
  BY <1>8, BeginCreateWorkspaceKeeps, BeginRemoveKeeps, BeginRoleChangeKeeps
<1>9. CASE UNCHANGED mbVars
  <2>1. TenantTyped' /\ SpaceTyped' /\ MemberTyped' /\ InviteTyped' /\ shaken' = shaken
    BY <1>9 DEF mbVars, MbInv, MbTyped, TenantTyped, SpaceTyped, MemberTyped, InviteTyped
  <2>2. OpTyped' /\ SeatsKept' /\ SpacesKept' /\ OwnersKept' /\ InvitesKept'
    BY <1>9, <2>1, NoOpMoves, MbSame DEF mbVars
  <2>3. QED BY <2>1, <2>2 DEF MbInv, MbTyped
<1>10. QED BY <1>1, <1>2, <1>3, <1>4, <1>5, <1>6, <1>7, <1>8, <1>9 DEF MbNext

LEMMA MbTypesHold == MbInv => MbTypeOK
  BY DEF MbInv, MbTyped, TenantTyped, SpaceTyped, MemberTyped, InviteTyped, OpTyped, MbTypeOK, MbRow, MbInvite, MbOp

LEMMA MembersFollow == MbInv => TenantKeepsAnOwner /\ PlanKept /\ InvitationAdmitsOnce
<1> SUFFICES ASSUME MbInv PROVE TenantKeepsAnOwner /\ PlanKept /\ InvitationAdmitsOnce
  OBVIOUS
<1>1. TenantKeepsAnOwner
  BY DEF MbInv, OwnersKept, TenantKeepsAnOwner
<1>2. PlanKept
  <2> SUFFICES ASSUME "plan" \notin shaken PROVE PlanKept
    BY DEF PlanKept
  <2>1. /\ Cardinality(Seats) + Cardinality(JoiningOps) < MaxAgents[plan] + Cardinality(Ops)
        /\ Cardinality(OpenSpaces) + Cardinality(SpaceOps) < MaxWorkspaces[plan] + Cardinality(Ops)
    BY DEF MbInv, SeatsKept, SpacesKept
  <2>2. /\ Seats \subseteq People /\ OpenSpaces \subseteq Workspaces /\ IsFiniteSet(People) /\ IsFiniteSet(Workspaces)
        /\ JoiningOps \subseteq Ops /\ SpaceOps \subseteq Ops /\ IsFiniteSet(Ops)
    BY MembersAssumption DEF Seats, OpenSpaces, JoiningOps, SpaceOps
  <2>3. /\ Cardinality(Seats) \in Nat /\ Cardinality(OpenSpaces) \in Nat /\ Cardinality(Ops) \in Nat
        /\ Cardinality(JoiningOps) \in Nat /\ Cardinality(SpaceOps) \in Nat
    BY <2>2, OneMoreOrLess
  <2>4. QED BY <2>1, <2>3, PlansAreNumbers DEF PlanKept
<1>3. InvitationAdmitsOnce
  BY DEF MbInv, InvitesKept, InvitationAdmitsOnce
<1>4. QED BY <1>1, <1>2, <1>3

\* A tenant keeps an acting owner, its seats and workspaces stay within its plan, an
\* invitation admits one person, and the store system is connected only when it was tested
\* and the plan has room: for any number of people, workspaces, invitations, connections
\* and requests, except after a change of the plan or of the roles that crossed another.
THEOREM TenancyIsHeld == PeopleSpec => []TenancyHolds
<1> DEFINE I == (part = "members" => MbInv) /\ (part = "connections" => CoInv)
<1>1. PeopleInit => I
  BY MembersInitially, CoInitially DEF PeopleInit
<1>2. I /\ [PeopleNext]_peVars => I'
  <2> SUFFICES ASSUME I, [PeopleNext]_peVars
               PROVE  (part' = "members" => MbInv') /\ (part' = "connections" => CoInv')
    OBVIOUS
  <2>1. ASSUME part' = "members" PROVE MbInv'
    <3>1. part = "members" /\ [MbNext]_mbVars
      BY <2>1 DEF PeopleNext, peVars
    <3>2. QED BY <3>1, MembersStepKeeps
  <2>2. ASSUME part' = "connections" PROVE CoInv'
    <3>1. part = "connections" /\ [CoNext]_coVars
      BY <2>2 DEF PeopleNext, peVars
    <3>2. QED BY <3>1, ConnectionsStepKeeps
  <2>3. QED BY <2>1, <2>2
<1>3. I => TenancyHolds
  BY MembersFollow, ConnectionsFollow DEF TenancyHolds
<1>4. QED BY <1>1, <1>2, <1>3, PTL DEF PeopleSpec


-----------------------------------------------------------------------------
(* Browser: cookies, requests under way, sessions.                           *)

BrCookie == [access : 0..BrTokens, refresh : 0..BrTokens, marked : BOOLEAN, home : Homes]
BrReq == [kind : ReqKinds, tab : Tabs \union {"gone"}, pc : {"sent", "ok", "refused", "error"},
          carried : BrCookie, token : 0..BrTokens, again : BOOLEAN]
BrSession == [state : {"unused", "live", "spent"}, home : Homes]
BrTab == [page : Pages, waits : Pending]

CookieTyped == cookie \in BrCookie
GrantedTyped == granted \in [Issued -> BrSession]
TabTyped == tab \in [Tabs -> BrTab]
ReqTyped == req \in [Reqs -> BrReq \union {NoReq}]
OthersTyped ==
  /\ super \in BOOLEAN /\ signedIn \in BOOLEAN /\ expelled \in BOOLEAN
  /\ excuse \subseteq {"revoked", "left", "overlap", "lost", "crossed"} /\ brLeft \in [BrEvents -> Nat]
BrTyped == CookieTyped /\ GrantedTyped /\ TabTyped /\ ReqTyped /\ OthersTyped

\* Answers that bring a session, that end an exchange, that refuse one; an exchange of a page.
Brings(x) == x # NoReq /\ x.kind \in {"refresh", "switch", "login"} /\ x.pc = "ok"
Exchanged(x) == x # NoReq /\ x.kind = "refresh" /\ x.pc = "ok"
Refuses(x) == x # NoReq /\ x.kind = "refresh" /\ x.pc = "refused" /\ x.tab # "gone"
IsRefresh(x) == x # NoReq /\ x.kind = "refresh" /\ x.tab # "gone"
\* The request of a browser without a session, and what becomes of it.
Unsigned(x) ==
  x # NoReq =>
    x.carried.access = 0 /\ x.carried.refresh = 0 /\ ~(x.kind \in {"refresh", "switch"} /\ x.pc = "ok")
Out == ~signedIn /\ "crossed" \notin excuse

\* A session is brought by one answer, to a browser that does not have it yet.
TokensKept ==
  /\ cookie.refresh # 0 => granted[cookie.refresh].state # "unused"
  /\ \A r \in Reqs : Brings(req[r]) =>
       /\ req[r].token \in Issued /\ granted[req[r].token].state # "unused" /\ req[r].token # cookie.refresh
       /\ \A q \in Reqs \ {r} : Brings(req[q]) => req[q].token # req[r].token
\* Without an excuse it is alive, and nothing that could be exchanged is refused.
AnswersKept ==
  excuse = {} => \A r \in Reqs : /\ Brings(req[r]) => Alive(req[r].token)
                                 /\ Refuses(req[r]) => req[r].carried.refresh = 0
OneRefreshEach ==
  \A q, r \in Reqs : IsRefresh(req[q]) /\ IsRefresh(req[r]) /\ req[q].tab = req[r].tab => q = r
OutKept == Out => cookie.refresh = 0 /\ cookie.access = 0 /\ \A r \in Reqs : Unsigned(req[r])

BrInv == BrTyped /\ TokensKept /\ AnswersKept /\ OneRefreshEach /\ OutKept /\ StaysSignedIn

-----------------------------------------------------------------------------

LEMMA BrNumbers == BrTokens \in Nat /\ 0..BrTokens = Issued \union {0} /\ 0 \notin Issued /\ Issued \subseteq Nat
  BY BrowserAssumption DEF Issued

LEMMA RequestIsSome == \A x \in BrReq : x # NoReq
<1> SUFFICES ASSUME NEW x \in BrReq, x = NoReq PROVE FALSE
  OBVIOUS
<1>1. "kind" \in DOMAIN x
  BY DEF BrReq
<1>2. DOMAIN <<>> = {}
  OBVIOUS
<1>3. QED BY <1>1, <1>2 DEF NoReq

LEMMA ReqKnown ==
  ASSUME BrInv, NEW r \in Reqs, req[r] # NoReq
  PROVE  req[r] \in BrReq /\ req[r].carried \in BrCookie /\ req[r].token \in 0..BrTokens
  BY DEF BrInv, BrTyped, ReqTyped, BrReq

LEMMA CookieKnown ==
  ASSUME BrInv
  PROVE  /\ cookie \in BrCookie /\ (cookie.refresh = 0 \/ cookie.refresh \in Issued)
         /\ (cookie.access = 0 \/ cookie.access \in Issued)
  BY BrNumbers DEF BrInv, BrTyped, CookieTyped, BrCookie

LEMMA BrUsesType == ASSUME BrInv, NEW e \in BrEvents, BrUses(e) PROVE brLeft' \in [BrEvents -> Nat]
  BY DEF BrInv, BrTyped, OthersTyped, BrUses

LEMMA SentIs ==
  ASSUME BrInv, NEW kind \in ReqKinds, NEW t \in Tabs, NEW again \in BOOLEAN
  PROVE  \E new \in BrReq :
           /\ new = Sent(kind, t, again) /\ new.kind = kind /\ new.tab = t /\ new.pc = "sent" /\ new.carried = cookie
           /\ new.token = 0
<1> DEFINE y == Sent(kind, t, again)
<1>1. y \in BrReq /\ y.kind = kind /\ y.tab = t /\ y.pc = "sent" /\ y.carried = cookie /\ y.token = 0
  BY CookieKnown, BrNumbers DEF Sent, BrReq
<1> HIDE DEF y
<1>2. \E new \in BrReq :
           /\ new = y /\ new.kind = kind /\ new.tab = t /\ new.pc = "sent" /\ new.carried = cookie
           /\ new.token = 0
  BY <1>1
<1>3. QED BY <1>2 DEF y

\* What the middleware shows is a page.
LEMMA RoutedIs == ASSUME NEW page \in Pages, NEW c PROVE Routed(page, c) \in Pages
  BY DEF Routed, Pages

LEMMA BrowserInitially == BrInit => BrInv
<1> SUFFICES ASSUME BrInit PROVE BrInv
  OBVIOUS
<1>1. \A r \in Reqs : req[r] = NoReq
  BY DEF BrInit
<1>2. cookie \in BrCookie /\ cookie.refresh = 0 /\ cookie.access = 0
  BY BrNumbers DEF BrInit, NoCookies, BrCookie, Homes
<1>3. GrantedTyped
  BY DEF BrInit, GrantedTyped, BrSession, Homes
<1>4. TabTyped
  BY DEF BrInit, TabTyped, BrTab, Pages, Pending
<1>5. ReqTyped
  BY DEF BrInit, ReqTyped
<1>6. OthersTyped
  <2>1. brLeft \in [BrEvents -> Nat]
    BY BrowserAssumption DEF BrInit
  <2>2. QED BY <2>1 DEF BrInit, OthersTyped
<1>7. TokensKept
  BY <1>1, <1>2 DEF TokensKept, Brings
<1>8. AnswersKept
  BY <1>1 DEF AnswersKept, Brings, Refuses
<1>9. OneRefreshEach
  BY <1>1 DEF OneRefreshEach, IsRefresh
<1>10. OutKept
  BY <1>1, <1>2 DEF OutKept, Unsigned
<1>11. StaysSignedIn
  BY DEF BrInit, StaysSignedIn
<1>12. QED BY <1>2, <1>3, <1>4, <1>5, <1>6, <1>7, <1>8, <1>9, <1>10, <1>11 DEF BrInv, BrTyped, CookieTyped

-----------------------------------------------------------------------------
(* Steps that grant nothing and leave the refresh token in its cookie.       *)

\* A request that goes on, or ends, brings and loses no session.
Harmless(x, y) ==
  /\ Brings(x) => Brings(y) /\ x.token = y.token
  /\ excuse' = {} /\ Refuses(x) => x.carried.refresh = 0
  /\ excuse' = {} /\ Exchanged(y) => Exchanged(x) /\ x.carried.refresh = y.carried.refresh
  /\ Out' => Unsigned(x)

LEMMA SessionStays ==
  ASSUME BrInv, BrTyped', UNCHANGED granted, signedIn' => signedIn, excuse \subseteq excuse',
         cookie'.refresh = cookie.refresh \/ (cookie'.refresh = 0 /\ ~(signedIn' /\ excuse' = {})),
         Out' => cookie'.refresh = 0 /\ cookie'.access = 0,
         \A r \in Reqs : Harmless(req'[r], req[r]), OneRefreshEach'
  PROVE  BrInv'
<1>1. TokensKept'
  BY BrNumbers DEF BrInv, TokensKept, Harmless
<1>2. AnswersKept'
  <2> SUFFICES ASSUME excuse' = {}, NEW r \in Reqs
               PROVE  /\ Brings(req'[r]) => Alive(req'[r].token)
                      /\ Refuses(req'[r]) => req'[r].carried.refresh = 0
    BY DEF AnswersKept, Brings, Refuses, Alive
  <2>1. excuse = {} /\ Harmless(req'[r], req[r])
    OBVIOUS
  <2>2. Brings(req'[r]) => Alive(req[r].token) /\ req'[r].token = req[r].token
    BY <2>1 DEF BrInv, AnswersKept, Harmless
  <2>3. QED BY <2>1, <2>2 DEF Harmless
<1>3. OutKept'
  BY DEF OutKept, Out, Harmless
<1>4. StaysSignedIn'
  <2> SUFFICES ASSUME signedIn', excuse' = {}, ~Alive(cookie'.refresh)
               PROVE  \E r \in Reqs : Exchanged(req'[r]) /\ req'[r].carried.refresh = cookie'.refresh
    BY DEF StaysSignedIn, Exchanged, Underway, Alive
  <2>1. signedIn /\ excuse = {} /\ cookie'.refresh = cookie.refresh /\ ~Alive(cookie.refresh)
    OBVIOUS
  <2>2. PICK r \in Reqs : Exchanged(req[r]) /\ req[r].carried.refresh = cookie.refresh
    BY <2>1 DEF BrInv, StaysSignedIn, Exchanged, Underway
  <2>3. QED BY <2>1, <2>2 DEF Harmless
<1>5. QED BY <1>1, <1>2, <1>3, <1>4 DEF BrInv

\* A request that goes on as it was, for a page that may be gone.
Follows(x, y) ==
  /\ (x = NoReq) <=> (y = NoReq)
  /\ y # NoReq => /\ x.kind = y.kind /\ x.pc = y.pc /\ x.carried = y.carried /\ x.token = y.token
                  /\ x.tab = y.tab \/ x.tab = "gone"

LEMMA FollowingIsHarmless ==
  ASSUME BrInv, NEW r \in Reqs, NEW x, Follows(x, req[r]), excuse \subseteq excuse', signedIn' = signedIn \/ ~Out'
  PROVE  Harmless(x, req[r])
<1>1. Refuses(x) => Refuses(req[r]) /\ x.carried = req[r].carried
  BY DEF Follows, Refuses
<1>2. excuse' = {} => excuse = {}
  OBVIOUS
<1>3. excuse' = {} /\ Refuses(x) => x.carried.refresh = 0
  BY <1>1, <1>2 DEF BrInv, AnswersKept
<1>4. Brings(x) => Brings(req[r]) /\ x.token = req[r].token
  BY DEF Brings, Follows
<1>5. Exchanged(req[r]) => Exchanged(x) /\ x.carried.refresh = req[r].carried.refresh
  BY DEF Exchanged, Follows
<1>6. Out' => Unsigned(x)
  <2>1. Out' => Out
    BY DEF Out
  <2>2. Out => Unsigned(req[r])
    BY DEF BrInv, OutKept
  <2>3. Unsigned(req[r]) => Unsigned(x)
    BY DEF Unsigned, Follows
  <2>4. QED BY <2>1, <2>2, <2>3
<1>7. QED BY <1>3, <1>4, <1>5, <1>6 DEF Harmless

\* The exchanges of the pages when all requests but one follow.
LEMMA RefreshesFollow ==
  ASSUME BrInv, NEW r \in Reqs, \A q \in Reqs \ {r} : Follows(req'[q], req[q]) \/ req'[q] = NoReq,
         IsRefresh(req'[r]) => \A q \in Reqs \ {r} : IsRefresh(req[q]) => req[q].tab # req'[r].tab
  PROVE  OneRefreshEach'
<1>1. \A q \in Reqs \ {r} : IsRefresh(req'[q]) => IsRefresh(req[q]) /\ req'[q].tab = req[q].tab
  BY DEF IsRefresh, Follows
<1> SUFFICES ASSUME NEW q \in Reqs, NEW p \in Reqs, IsRefresh(req'[q]), IsRefresh(req'[p]), req'[q].tab = req'[p].tab
             PROVE  q = p
  BY DEF OneRefreshEach, IsRefresh
<1>2. CASE q # r /\ p # r
  BY <1>1, <1>2 DEF BrInv, OneRefreshEach
<1>3. CASE q = r /\ p # r
  BY <1>1, <1>3
<1>4. CASE q # r /\ p = r
  BY <1>1, <1>4
<1>5. QED BY <1>2, <1>3, <1>4

\* One request goes on, and nothing else that matters changes.
LEMMA OneRequestMoves ==
  ASSUME BrInv, NEW r \in Reqs, NEW new \in BrReq \union {NoReq}, req' = [req EXCEPT ![r] = new],
         UNCHANGED <<super, granted, cookie, signedIn, expelled>>, TabTyped', excuse \subseteq excuse',
         excuse' \subseteq {"revoked", "left", "overlap", "lost", "crossed"}, brLeft' \in [BrEvents -> Nat],
         Harmless(new, req[r]), IsRefresh(new) => \A q \in Reqs \ {r} : IsRefresh(req[q]) => req[q].tab # new.tab
  PROVE  BrInv'
<1>1. ReqTyped' /\ req'[r] = new /\ \A q \in Reqs \ {r} : req'[q] = req[q]
  BY DEF BrInv, BrTyped, ReqTyped
<1>2. BrTyped'
  BY <1>1 DEF BrInv, BrTyped, CookieTyped, GrantedTyped, OthersTyped
<1>3. \A q \in Reqs \ {r} : Follows(req'[q], req[q])
  BY <1>1 DEF Follows
<1>4. \A q \in Reqs : Harmless(req'[q], req[q])
  BY <1>1, <1>3, FollowingIsHarmless
<1>5. OneRefreshEach'
  BY <1>1, <1>3, RefreshesFollow
<1>6. Out' => cookie'.refresh = 0 /\ cookie'.access = 0
  BY DEF BrInv, OutKept, Out
<1>7. QED BY <1>2, <1>4, <1>5, <1>6, SessionStays


-----------------------------------------------------------------------------
(* Sending, step by step.                                                    *)

LEMMA SendKeeps ==
  ASSUME BrInv, NEW t \in Tabs, NEW r \in Reqs, NEW kind \in ReqKinds, ~Exchanged(req[r]),
         req' = [req EXCEPT ![r] = Sent(kind, t, FALSE)], kind = "refresh" => Startable(t),
         UNCHANGED <<super, granted, cookie, signedIn, excuse, expelled>>, TabTyped', brLeft' \in [BrEvents -> Nat]
  PROVE  BrInv'
<1>1. PICK no \in BOOLEAN : no = FALSE
  OBVIOUS
<1>2. PICK new \in BrReq :
        /\ new = Sent(kind, t, no) /\ new.kind = kind /\ new.tab = t /\ new.pc = "sent" /\ new.carried = cookie
        /\ new.token = 0
  BY <1>1, SentIs
<1>3. req' = [req EXCEPT ![r] = new]
  BY <1>1, <1>2
<1>4. Harmless(new, req[r])
  <2>1. ~Brings(new) /\ ~Refuses(new)
    BY <1>2 DEF Brings, Refuses
  <2>2. Out' => Unsigned(new)
    BY <1>2 DEF BrInv, OutKept, Out, Unsigned
  <2>3. QED BY <2>1, <2>2 DEF Harmless
<1>5. IsRefresh(new) => \A q \in Reqs \ {r} : IsRefresh(req[q]) => req[q].tab # new.tab
  BY <1>2 DEF IsRefresh, Startable, Refreshing, Underway
<1>6. excuse' \subseteq {"revoked", "left", "overlap", "lost", "crossed"} /\ excuse \subseteq excuse'
  BY DEF BrInv, BrTyped, OthersTyped
<1>7. QED BY <1>3, <1>4, <1>5, <1>6, OneRequestMoves

LEMMA BeginsKeep ==
  ASSUME BrInv, NEW t \in Tabs, NEW r \in Reqs,
         \/ BeginSignIn(t, r) \/ ProactiveRefresh(t, r) \/ PressLogout(t, r)
         \/ \E kind \in {"call", "strict", "switch"} : BeginCall(t, r, kind)
  PROVE  BrInv'
<1>1. TabTyped
  BY DEF BrInv, BrTyped
<1>2. CASE BeginSignIn(t, r)
  <2>1. req[r] = NoReq /\ req' = [req EXCEPT ![r] = Sent("login", t, FALSE)] /\ "login" \in ReqKinds
        /\ brLeft' \in [BrEvents -> Nat] /\ UNCHANGED <<super, granted, cookie, tab, signedIn, excuse, expelled>>
    BY <1>2, BrUsesType DEF BeginSignIn, Underway, BrEvents, ReqKinds
  <2>2. ~Exchanged(req[r]) /\ TabTyped'
    BY <1>1, <2>1 DEF Exchanged, TabTyped
  <2>3. QED BY <2>1, <2>2, SendKeeps
<1>3. CASE ProactiveRefresh(t, r)
  <2>1. req[r] = NoReq /\ req' = [req EXCEPT ![r] = Sent("refresh", t, FALSE)] /\ "refresh" \in ReqKinds /\ Startable(t)
        /\ brLeft' \in [BrEvents -> Nat] /\ UNCHANGED <<super, granted, cookie, tab, signedIn, excuse, expelled>>
    BY <1>3, BrUsesType DEF ProactiveRefresh, Underway, BrEvents, ReqKinds
  <2>2. ~Exchanged(req[r]) /\ TabTyped'
    BY <1>1, <2>1 DEF Exchanged, TabTyped
  <2>3. QED BY <2>1, <2>2, SendKeeps
<1>4. CASE PressLogout(t, r)
  <2>1. req[r] = NoReq /\ req' = [req EXCEPT ![r] = Sent("logout", t, FALSE)] /\ "logout" \in ReqKinds
        /\ brLeft' \in [BrEvents -> Nat] /\ UNCHANGED <<super, granted, cookie, tab, signedIn, excuse, expelled>>
    BY <1>4, BrUsesType DEF PressLogout, Underway, BrEvents, ReqKinds
  <2>2. ~Exchanged(req[r]) /\ TabTyped'
    BY <1>1, <2>1 DEF Exchanged, TabTyped
  <2>3. QED BY <2>1, <2>2, SendKeeps
<1>5. ASSUME NEW kind \in {"call", "strict", "switch"}, BeginCall(t, r, kind) PROVE BrInv'
  <2>1. req[r] = NoReq /\ req' = [req EXCEPT ![r] = Sent(kind, t, FALSE)] /\ kind \in ReqKinds /\ kind # "refresh"
        /\ brLeft' \in [BrEvents -> Nat] /\ UNCHANGED <<super, granted, cookie, tab, signedIn, excuse, expelled>>
    BY <1>5, BrUsesType DEF BeginCall, Underway, BrEvents, ReqKinds
  <2>2. ~Exchanged(req[r]) /\ TabTyped'
    BY <1>1, <2>1 DEF Exchanged, TabTyped
  <2>3. QED BY <2>1, <2>2, SendKeeps
<1>6. QED BY <1>2, <1>3, <1>4, <1>5

\* Pages that are loaded afresh.
LEMMA LeavesIs ==
  ASSUME NEW t, NEW reqs \in [Reqs -> BrReq \union {NoReq}]
  PROVE  /\ Leaves(t, reqs) \in [Reqs -> BrReq \union {NoReq}]
         /\ \A q \in Reqs : Follows(Leaves(t, reqs)[q], reqs[q])
<1>1. ASSUME NEW q \in Reqs
      PROVE  Leaves(t, reqs)[q] \in BrReq \union {NoReq} /\ Follows(Leaves(t, reqs)[q], reqs[q])
  <2>1. CASE reqs[q] # NoReq /\ reqs[q].tab = t
    <3>1. PICK y \in BrReq : y = reqs[q]
      BY <2>1
    <3> DEFINE x == [y EXCEPT !.tab = "gone"]
    <3>2. /\ x \in BrReq /\ x.kind = y.kind /\ x.pc = y.pc /\ x.carried = y.carried /\ x.token = y.token /\ x.tab = "gone"
      BY DEF BrReq
    <3>3. Leaves(t, reqs)[q] = x
      BY <2>1, <3>1 DEF Leaves
    <3> HIDE DEF x
    <3>4. x # NoReq
      BY <3>2, RequestIsSome
    <3>5. QED BY <2>1, <3>1, <3>2, <3>3, <3>4 DEF Follows
  <2>2. CASE ~(reqs[q] # NoReq /\ reqs[q].tab = t)
    <3>1. Leaves(t, reqs)[q] = reqs[q]
      BY <2>2 DEF Leaves
    <3>2. QED BY <3>1 DEF Follows
  <2>3. QED BY <2>1, <2>2
<1>2. Leaves(t, reqs) = [q \in Reqs |-> Leaves(t, reqs)[q]]
  BY DEF Leaves
<1>3. QED BY <1>1, <1>2

LEMMA OpenPageKeeps ==
  ASSUME BrInv, NEW t \in Tabs, NEW page \in Pages, OpenPage(t, page)
  PROVE  BrInv'
<1>1. /\ req' = Leaves(t, req) /\ tab' = [tab EXCEPT ![t].page = Routed(page, cookie)]
      /\ brLeft' \in [BrEvents -> Nat] /\ UNCHANGED <<super, granted, cookie, signedIn, excuse, expelled>>
  BY BrUsesType DEF OpenPage, BrEvents
<1>2. req \in [Reqs -> BrReq \union {NoReq}]
  BY DEF BrInv, BrTyped, ReqTyped
<1>3. ReqTyped' /\ \A q \in Reqs : Follows(req'[q], req[q])
  BY <1>1, <1>2, LeavesIs DEF ReqTyped
<1>4. TabTyped'
  <2>1. Routed(page, cookie) \in Pages
    BY RoutedIs
  <2>2. QED BY <1>1, <2>1 DEF BrInv, BrTyped, TabTyped, BrTab
<1>5. BrTyped'
  BY <1>1, <1>3, <1>4 DEF BrInv, BrTyped, CookieTyped, GrantedTyped, OthersTyped
<1>6. \A q \in Reqs : Harmless(req'[q], req[q])
  BY <1>1, <1>3, FollowingIsHarmless
<1>7. OneRefreshEach'
  <2>1. \A q \in Reqs : IsRefresh(req'[q]) => IsRefresh(req[q]) /\ req'[q].tab = req[q].tab
    BY <1>3 DEF IsRefresh, Follows
  <2>2. QED BY <2>1 DEF BrInv, OneRefreshEach, IsRefresh
<1>8. Out' => cookie'.refresh = 0 /\ cookie'.access = 0
  BY <1>1 DEF BrInv, OutKept, Out
<1>9. QED BY <1>1, <1>5, <1>6, <1>7, <1>8, SessionStays

-----------------------------------------------------------------------------
(* Serving, step by step.                                                    *)

\* A request gets an answer.
LEMMA AnswerOf ==
  ASSUME BrInv, NEW r \in Reqs, req[r] # NoReq, NEW status \in {"ok", "refused", "error"}, NEW n \in 0..BrTokens,
         Answers(r, status, n)
  PROVE  \E new \in BrReq :
           /\ req' = [req EXCEPT ![r] = new] /\ new.pc = status /\ new.token = n /\ new.kind = req[r].kind
           /\ new.tab = req[r].tab /\ new.carried = req[r].carried /\ new # NoReq
<1>1. PICK x \in BrReq : x = req[r]
  BY ReqKnown
<1> DEFINE y == [x EXCEPT !.pc = status, !.token = n]
<1>2. y \in BrReq /\ y.pc = status /\ y.token = n /\ y.kind = x.kind /\ y.tab = x.tab /\ y.carried = x.carried
  BY DEF BrReq
<1>3. req' = [req EXCEPT ![r] = y]
  BY <1>1 DEF Answers
<1> HIDE DEF y
<1>4. y # NoReq
  BY <1>2, RequestIsSome
<1>5. QED BY <1>1, <1>2, <1>3, <1>4

LEMMA ServeRefusedKeeps ==
  ASSUME BrInv, NEW r \in Reqs, req[r] # NoReq, req[r].pc = "sent", NEW status \in {"ok", "refused"},
         status = "ok" => req[r].kind \notin {"refresh", "switch", "login"}, Answers(r, status, 0),
         UNCHANGED <<super, granted, cookie, tab, signedIn, expelled>>, brLeft' \in [BrEvents -> Nat],
         excuse \subseteq excuse', excuse' \subseteq {"revoked", "left", "overlap", "lost", "crossed"},
         req[r].kind = "refresh" /\ req[r].tab # "gone" /\ excuse' = {} => req[r].carried.refresh = 0
  PROVE  BrInv'
<1>1. 0 \in 0..BrTokens /\ status \in {"ok", "refused", "error"}
  BY BrNumbers
<1>2. PICK new \in BrReq :
           /\ req' = [req EXCEPT ![r] = new] /\ new.pc = status /\ new.token = 0 /\ new.kind = req[r].kind
           /\ new.tab = req[r].tab /\ new.carried = req[r].carried /\ new # NoReq
  BY <1>1, AnswerOf
<1>3. Harmless(new, req[r])
  <2>1. ~Brings(new)
    BY <1>2 DEF Brings
  <2>2. excuse' = {} /\ Refuses(new) => new.carried.refresh = 0
    BY <1>2 DEF Refuses
  <2>3. ~Exchanged(req[r])
    BY DEF Exchanged
  <2>4. Out' => Unsigned(new)
    <3>1. Out' => Out
      BY DEF Out
    <3>2. Out => Unsigned(req[r])
      BY DEF BrInv, OutKept
    <3>3. QED BY <1>2, <3>1, <3>2 DEF Unsigned
  <2>5. QED BY <2>1, <2>2, <2>3, <2>4 DEF Harmless
<1>4. IsRefresh(new) => \A q \in Reqs \ {r} : IsRefresh(req[q]) => req[q].tab # new.tab
  BY <1>2 DEF IsRefresh, BrInv, OneRefreshEach
<1>5. TabTyped'
  BY DEF BrInv, BrTyped, TabTyped
<1>6. QED BY <1>2, <1>3, <1>4, <1>5, OneRequestMoves

\* A new session, brought by one answer; for an exchange the old one ends.
LEMMA SessionGranted ==
  ASSUME BrInv, NEW r \in Reqs, req[r] # NoReq, req[r].pc = "sent", NEW n \in Issued, Unused(n), Answers(r, "ok", n),
         NEW old, granted' \in [Issued -> BrSession], granted'[n].state = "live",
         \A m \in Issued \ {n} : granted'[m] = granted[m] \/ (m = old /\ granted[m].state = "live" /\ granted'[m].state = "spent"),
         UNCHANGED <<super, cookie, tab, signedIn, expelled, brLeft>>, excuse \subseteq excuse',
         excuse' \subseteq {"revoked", "left", "overlap", "lost", "crossed"},
         Out => req[r].kind = "login",
         excuse' = {} => old = cookie.refresh \/ old = 0,
         old # 0 => req[r].kind = "refresh" /\ req[r].carried.refresh = old
  PROVE  BrInv'
<1>1. n \in 0..BrTokens /\ "ok" \in {"ok", "refused", "error"} /\ n # 0 /\ granted[n].state = "unused"
  BY BrNumbers DEF Unused
<1>2. PICK new \in BrReq :
           /\ req' = [req EXCEPT ![r] = new] /\ new.pc = "ok" /\ new.token = n /\ new.kind = req[r].kind
           /\ new.tab = req[r].tab /\ new.carried = req[r].carried /\ new # NoReq
  BY <1>1, AnswerOf
<1>3. ReqTyped' /\ req'[r] = new /\ \A q \in Reqs \ {r} : req'[q] = req[q]
  BY <1>2 DEF BrInv, BrTyped, ReqTyped
<1>4. BrTyped'
  BY <1>3 DEF BrInv, BrTyped, CookieTyped, GrantedTyped, TabTyped, OthersTyped
<1>5. \A m \in Issued : granted[m].state # "unused" => m # n /\ granted'[m].state # "unused"
  BY <1>1
<1>6. \A q \in Reqs \ {r} : Brings(req[q]) => req[q].token \in Issued \ {n} /\ granted'[req[q].token].state # "unused"
  BY <1>5 DEF BrInv, TokensKept
<1>7. cookie.refresh # 0 => cookie.refresh \in Issued /\ granted[cookie.refresh].state # "unused" /\ cookie.refresh # n
  BY <1>5, CookieKnown DEF BrInv, TokensKept
<1>8. TokensKept'
  <2>1. cookie'.refresh # 0 => granted'[cookie'.refresh].state # "unused"
    BY <1>5, <1>7
  <2>2. ASSUME NEW q \in Reqs, Brings(req'[q])
        PROVE  /\ req'[q].token \in Issued /\ granted'[req'[q].token].state # "unused" /\ req'[q].token # cookie'.refresh
               /\ \A p \in Reqs \ {q} : Brings(req'[p]) => req'[p].token # req'[q].token
    <3>1. CASE q = r
      <4>1. req'[q].token = n /\ granted'[n].state # "unused" /\ n # cookie'.refresh
        BY <1>1, <1>2, <1>3, <1>7, <3>1
      <4>2. \A p \in Reqs \ {q} : Brings(req'[p]) => req'[p].token # n
        BY <1>3, <1>6, <3>1
      <4>3. QED BY <4>1, <4>2
    <3>2. CASE q # r
      <4>1. req'[q] = req[q] /\ Brings(req[q])
        BY <1>3, <2>2, <3>2
      <4>2. req[q].token \in Issued /\ req[q].token # n /\ granted'[req[q].token].state # "unused"
        BY <1>6, <3>2, <4>1
      <4>3. req[q].token # cookie'.refresh
        BY <4>1 DEF BrInv, TokensKept
      <4>4. \A p \in Reqs \ {q} : Brings(req'[p]) => req'[p].token # req[q].token
        <5> SUFFICES ASSUME NEW p \in Reqs \ {q}, Brings(req'[p]) PROVE req'[p].token # req[q].token
          OBVIOUS
        <5>1. CASE p = r
          BY <1>2, <1>3, <4>2, <5>1
        <5>2. CASE p # r
          <6>1. req'[p] = req[p] /\ Brings(req[p])
            BY <1>3, <5>2
          <6>2. QED BY <4>1, <6>1 DEF BrInv, TokensKept
        <5>3. QED BY <5>1, <5>2
      <4>5. QED BY <4>1, <4>2, <4>3, <4>4
    <3>3. QED BY <3>1, <3>2
  <2>3. QED BY <2>1, <2>2 DEF TokensKept, Brings
<1>9. AnswersKept'
  <2> SUFFICES ASSUME excuse' = {}, NEW q \in Reqs
               PROVE  /\ Brings(req'[q]) => req'[q].token # 0 /\ granted'[req'[q].token].state = "live"
                      /\ Refuses(req'[q]) => req'[q].carried.refresh = 0
    BY DEF AnswersKept, Brings, Refuses, Alive
  <2>1. CASE q = r
    BY <1>1, <1>2, <1>3, <2>1 DEF Refuses
  <2>2. CASE q # r
    <3>1. req'[q] = req[q] /\ excuse = {}
      BY <1>3, <2>2
    <3>2. Brings(req[q]) => req[q].token # 0 /\ granted[req[q].token].state = "live"
      BY <3>1 DEF BrInv, AnswersKept, Alive
    <3>3. Brings(req[q]) => req[q].token \in Issued \ {n} /\ req[q].token # cookie.refresh
      BY <1>6, <2>2 DEF BrInv, TokensKept
    <3>4. Brings(req[q]) => granted'[req[q].token].state = "live"
      BY <3>2, <3>3
    <3>5. Refuses(req[q]) => req[q].carried.refresh = 0
      BY <3>1 DEF BrInv, AnswersKept
    <3>6. QED BY <3>1, <3>2, <3>4, <3>5
  <2>3. QED BY <2>1, <2>2
<1>10. OneRefreshEach'
  <2>1. \A q \in Reqs \ {r} : Follows(req'[q], req[q])
    BY <1>3 DEF Follows
  <2>2. IsRefresh(new) => \A q \in Reqs \ {r} : IsRefresh(req[q]) => req[q].tab # new.tab
    <3>1. IsRefresh(new) => IsRefresh(req[r]) /\ new.tab = req[r].tab
      BY <1>2 DEF IsRefresh
    <3>2. QED BY <3>1 DEF BrInv, OneRefreshEach
  <2>3. QED BY <1>3, <2>1, <2>2, RefreshesFollow
<1>11. OutKept'
  <2> SUFFICES ASSUME Out' PROVE cookie'.refresh = 0 /\ cookie'.access = 0 /\ \A q \in Reqs : Unsigned(req'[q])
    BY DEF OutKept, Unsigned
  <2>1. Out
    BY DEF Out
  <2>2. cookie.refresh = 0 /\ cookie.access = 0 /\ (\A q \in Reqs : Unsigned(req[q])) /\ req[r].kind = "login"
    BY <2>1 DEF BrInv, OutKept
  <2>3. Unsigned(new)
    BY <1>2, <2>2 DEF Unsigned
  <2>4. QED BY <1>3, <2>2, <2>3
<1>12. StaysSignedIn'
  <2> SUFFICES ASSUME signedIn', excuse' = {}, ~(cookie'.refresh # 0 /\ granted'[cookie'.refresh].state = "live")
               PROVE  \E q \in Reqs : Exchanged(req'[q]) /\ req'[q].carried.refresh = cookie'.refresh
    BY DEF StaysSignedIn, Exchanged, Underway, Alive
  <2>1. signedIn /\ excuse = {} /\ cookie' = cookie
    OBVIOUS
  <2>2. CASE Alive(cookie.refresh)
    <3>1. cookie.refresh \in Issued \ {n} /\ granted[cookie.refresh].state = "live"
      BY <1>7, <2>2 DEF Alive
    <3>2. old = cookie.refresh /\ old # 0
      BY <2>1, <3>1, BrNumbers
    <3>3. Exchanged(new) /\ new.carried.refresh = cookie.refresh
      BY <1>2, <3>2 DEF Exchanged
    <3>4. QED BY <1>3, <2>1, <3>3
  <2>3. CASE ~Alive(cookie.refresh)
    <3>1. PICK q \in Reqs : Exchanged(req[q]) /\ req[q].carried.refresh = cookie.refresh
      BY <2>1, <2>3 DEF BrInv, StaysSignedIn, Exchanged, Underway
    <3>2. q # r
      BY <3>1 DEF Exchanged
    <3>3. QED BY <1>3, <2>1, <3>1, <3>2
  <2>4. QED BY <2>2, <2>3
<1>13. QED BY <1>4, <1>8, <1>9, <1>10, <1>11, <1>12 DEF BrInv


\* The kinds of what happened to a session.
LEMMA ExcuseTyped ==
  ASSUME BrInv
  PROVE  /\ excuse \subseteq {"revoked", "left", "overlap", "lost", "crossed"} /\ brLeft \in [BrEvents -> Nat]
         /\ super \in BOOLEAN /\ expelled \in BOOLEAN /\ signedIn \in BOOLEAN
  BY DEF BrInv, BrTyped, OthersTyped

\* An exchange that nobody disturbs finds its token alive.
LEMMA ExchangeIsAdmitted ==
  ASSUME BrInv, NEW r \in Reqs, req[r] # NoReq, req[r].kind = "refresh", req[r].pc = "sent", req[r].tab # "gone",
         ~Overlaps(r), excuse = {}, ~Alive(req[r].carried.refresh)
  PROVE  req[r].carried.refresh = 0
<1>1. CASE ~signedIn
  <2>1. Out
    BY <1>1 DEF Out
  <2>2. Unsigned(req[r])
    BY <2>1 DEF BrInv, OutKept
  <2>3. QED BY <2>2 DEF Unsigned
<1>2. CASE signedIn
  <2>1. req[r].carried.refresh = cookie.refresh
    BY DEF Overlaps
  <2>2. PICK q \in Reqs : Exchanged(req[q]) /\ req[q].carried.refresh = cookie.refresh
    BY <1>2, <2>1 DEF BrInv, StaysSignedIn, Exchanged, Underway
  <2>3. req[q].tab = req[r].tab
    BY <2>1, <2>2 DEF Overlaps, Exchanged, Underway
  <2>4. q = r
    BY <2>2, <2>3 DEF BrInv, OneRefreshEach, IsRefresh, Exchanged
  <2>5. QED BY <2>2, <2>4 DEF Exchanged
<1>3. QED BY <1>1, <1>2

LEMMA ServeRefreshKeeps ==
  ASSUME BrInv, NEW r \in Reqs, ServeRefresh(r)
  PROVE  BrInv'
<1>1. /\ req[r] # NoReq /\ req[r].kind = "refresh" /\ req[r].pc = "sent"
      /\ UNCHANGED <<super, cookie, tab, signedIn, expelled, brLeft>>
      /\ excuse' = excuse \union (IF Overlaps(r) THEN {"overlap"} ELSE {}) \union (IF req[r].tab = "gone" THEN {"lost"} ELSE {})
  BY DEF ServeRefresh, Underway
<1>2. PICK old \in 0..BrTokens : old = req[r].carried.refresh
  BY <1>1, ReqKnown DEF BrCookie
<1>3. /\ excuse \subseteq excuse' /\ excuse' \subseteq {"revoked", "left", "overlap", "lost", "crossed"}
      /\ excuse' = {} => excuse = {} /\ ~Overlaps(r) /\ req[r].tab # "gone"
  BY <1>1, ExcuseTyped
<1>4. CASE ~Alive(old) /\ Answers(r, "refused", 0) /\ UNCHANGED granted
  <2>1. req[r].kind = "refresh" /\ req[r].tab # "gone" /\ excuse' = {} => req[r].carried.refresh = 0
    BY <1>1, <1>2, <1>3, <1>4, ExchangeIsAdmitted
  <2>2. brLeft' \in [BrEvents -> Nat]
    BY <1>1, ExcuseTyped
  <2>3. QED BY <1>1, <1>3, <1>4, <2>1, <2>2, ServeRefusedKeeps
<1>5. ASSUME Alive(old), NEW n \in Issued, Unused(n), Answers(r, "ok", n),
             granted' = [granted EXCEPT ![old].state = "spent", ![n] = [state |-> "live", home |-> granted[old].home]]
      PROVE  BrInv'
  <2>1. old \in Issued /\ old # 0 /\ granted[old].state = "live" /\ n # old
    BY <1>5, BrNumbers DEF Alive, Unused
  <2>2. granted \in [Issued -> BrSession]
    BY DEF BrInv, BrTyped, GrantedTyped
  <2>3. PICK h \in Homes : h = granted[old].home
    BY <2>1, <2>2 DEF BrSession
  <2>4. /\ granted' \in [Issued -> BrSession] /\ granted'[n].state = "live"
        /\ \A m \in Issued \ {n} : granted'[m] = granted[m] \/ (m = old /\ granted[m].state = "live" /\ granted'[m].state = "spent")
    BY <1>5, <2>1, <2>2, <2>3 DEF BrSession
  <2>5. Out => req[r].kind = "login"
    <3>1. Out => Unsigned(req[r])
      BY DEF BrInv, OutKept
    <3>2. QED BY <1>1, <1>2, <2>1, <3>1 DEF Unsigned
  <2>6. excuse' = {} => old = cookie.refresh \/ old = 0
    BY <1>2, <1>3 DEF Overlaps
  <2>7. old # 0 => req[r].kind = "refresh" /\ req[r].carried.refresh = old
    BY <1>1, <1>2
  <2>8. /\ req[r] # NoReq /\ req[r].pc = "sent" /\ UNCHANGED <<super, cookie, tab, signedIn, expelled, brLeft>>
        /\ excuse \subseteq excuse' /\ excuse' \subseteq {"revoked", "left", "overlap", "lost", "crossed"}
        /\ Unused(n) /\ Answers(r, "ok", n)
    BY <1>1, <1>3, <1>5
  <2>9. QED BY <2>4, <2>5, <2>6, <2>7, <2>8, SessionGranted
<1>6. QED BY <1>2, <1>4, <1>5 DEF ServeRefresh

LEMMA ServeCallKeeps ==
  ASSUME BrInv, NEW r \in Reqs, ServeCall(r)
  PROVE  BrInv'
<1>1. /\ req[r] # NoReq /\ req[r].kind \in {"call", "strict", "switch"} /\ req[r].pc = "sent"
      /\ UNCHANGED <<super, cookie, tab, signedIn, excuse, expelled, brLeft>>
  BY DEF ServeCall, Underway
<1>2. excuse \subseteq excuse' /\ excuse' \subseteq {"revoked", "left", "overlap", "lost", "crossed"} /\ brLeft' \in [BrEvents -> Nat]
  BY <1>1, ExcuseTyped
<1>3. CASE req[r].carried.access # 0 /\ req[r].kind = "switch"
  <2>1. PICK n \in Issued, h \in Homes :
          Unused(n) /\ granted' = [granted EXCEPT ![n] = [state |-> "live", home |-> h]] /\ Answers(r, "ok", n)
    BY <1>3 DEF ServeCall
  <2>2. granted \in [Issued -> BrSession]
    BY DEF BrInv, BrTyped, GrantedTyped
  <2>3. granted' \in [Issued -> BrSession] /\ granted'[n].state = "live" /\ \A m \in Issued \ {n} : granted'[m] = granted[m]
    BY <2>1, <2>2 DEF BrSession
  <2>4. Out => req[r].kind = "login"
    <3>1. Out => Unsigned(req[r])
      BY DEF BrInv, OutKept
    <3>2. QED BY <1>1, <1>3, <3>1 DEF Unsigned
  <2>5. PICK old \in {0} : old = 0
    OBVIOUS
  <2>6. (excuse' = {} => old = cookie.refresh \/ old = 0) /\ (old # 0 => req[r].kind = "refresh" /\ req[r].carried.refresh = old)
    BY <2>5
  <2>7. QED BY <1>1, <1>2, <2>1, <2>3, <2>4, <2>6, SessionGranted
<1>4. CASE ~(req[r].carried.access # 0 /\ req[r].kind = "switch")
  <2>1. PICK status \in {"ok", "refused"} :
          /\ status = (IF req[r].carried.access # 0 THEN "ok" ELSE "refused")
          /\ Answers(r, status, 0) /\ UNCHANGED granted
    BY <1>4 DEF ServeCall
  <2>2. status = "ok" => req[r].kind \notin {"refresh", "switch", "login"}
    BY <1>1, <1>4, <2>1
  <2>3. QED BY <1>1, <1>2, <2>1, <2>2, ServeRefusedKeeps
<1>5. QED BY <1>3, <1>4

LEMMA ServeLoginKeeps ==
  ASSUME BrInv, NEW r \in Reqs, ServeLogin(r)
  PROVE  BrInv'
<1>1. /\ req[r] # NoReq /\ req[r].kind = "login" /\ req[r].pc = "sent"
      /\ UNCHANGED <<super, cookie, tab, signedIn, excuse, expelled, brLeft>>
  BY DEF ServeLogin, Underway
<1>2. excuse \subseteq excuse' /\ excuse' \subseteq {"revoked", "left", "overlap", "lost", "crossed"}
  BY <1>1, ExcuseTyped
<1>3. PICK h \in Homes : h = IF super THEN "none" ELSE "A"
  BY DEF Homes
<1>4. PICK n \in Issued : Unused(n) /\ granted' = [granted EXCEPT ![n] = [state |-> "live", home |-> h]] /\ Answers(r, "ok", n)
  BY <1>3 DEF ServeLogin
<1>5. granted \in [Issued -> BrSession]
  BY DEF BrInv, BrTyped, GrantedTyped
<1>6. granted' \in [Issued -> BrSession] /\ granted'[n].state = "live" /\ \A m \in Issued \ {n} : granted'[m] = granted[m]
  BY <1>4, <1>5 DEF BrSession
<1>7. PICK old \in {0} : old = 0
  OBVIOUS
<1>8. (excuse' = {} => old = cookie.refresh \/ old = 0) /\ (old # 0 => req[r].kind = "refresh" /\ req[r].carried.refresh = old)
  BY <1>7
<1>9. QED BY <1>1, <1>2, <1>4, <1>6, <1>8, SessionGranted

\* Sessions end.
LEMMA SessionsEnd ==
  ASSUME BrInv, BrTyped', UNCHANGED <<cookie, signedIn>>, excuse \subseteq excuse', excuse' # {},
         \A m \in Issued : granted[m].state # "unused" => granted'[m].state # "unused",
         \A q \in Reqs : /\ Brings(req'[q]) => Brings(req[q]) /\ req'[q].token = req[q].token
                         /\ Unsigned(req[q]) => Unsigned(req'[q]),
         OneRefreshEach'
  PROVE  BrInv'
<1>1. TokensKept'
  BY CookieKnown DEF BrInv, TokensKept
<1>2. AnswersKept' /\ StaysSignedIn'
  BY DEF AnswersKept, StaysSignedIn
<1>3. OutKept'
  BY DEF BrInv, OutKept, Out
<1>4. QED BY <1>1, <1>2, <1>3 DEF BrInv

LEMMA ServeLogoutKeeps ==
  ASSUME BrInv, NEW r \in Reqs, ServeLogout(r)
  PROVE  BrInv'
<1>1. /\ req[r] # NoReq /\ req[r].kind = "logout" /\ req[r].pc = "sent" /\ Answers(r, "ok", 0)
      /\ excuse' = excuse \union {"left"} /\ UNCHANGED <<super, cookie, tab, signedIn, expelled, brLeft>>
  BY DEF ServeLogout, Underway
<1>2. 0 \in 0..BrTokens /\ "ok" \in {"ok", "refused", "error"}
  BY BrNumbers
<1>3. PICK new \in BrReq :
           /\ req' = [req EXCEPT ![r] = new] /\ new.pc = "ok" /\ new.token = 0 /\ new.kind = req[r].kind
           /\ new.tab = req[r].tab /\ new.carried = req[r].carried /\ new # NoReq
  BY <1>1, <1>2, AnswerOf
<1>4. ReqTyped' /\ req'[r] = new /\ \A q \in Reqs \ {r} : req'[q] = req[q]
  BY <1>3 DEF BrInv, BrTyped, ReqTyped
<1>5. granted \in [Issued -> BrSession]
  BY DEF BrInv, BrTyped, GrantedTyped
<1>6. GrantedTyped' /\ \A m \in Issued : granted[m].state # "unused" => granted'[m].state # "unused"
  <2>1. PICK old \in 0..BrTokens : old = req[r].carried.refresh
    BY <1>1, ReqKnown DEF BrCookie
  <2>2. granted' = granted \/ (Alive(old) /\ granted' = [granted EXCEPT ![old].state = "spent"])
    BY <2>1 DEF ServeLogout
  <2>3. QED BY <1>5, <2>2 DEF GrantedTyped, BrSession
<1>7. BrTyped'
  <2>1. OthersTyped'
    BY <1>1 DEF BrInv, BrTyped, OthersTyped
  <2>2. QED BY <1>1, <1>4, <1>6, <2>1 DEF BrInv, BrTyped, CookieTyped, TabTyped
<1>8. \A q \in Reqs : /\ Brings(req'[q]) => Brings(req[q]) /\ req'[q].token = req[q].token
                      /\ Unsigned(req[q]) => Unsigned(req'[q])
  <2>1. ~Brings(new) /\ (Unsigned(req[r]) => Unsigned(new))
    BY <1>1, <1>3 DEF Brings, Unsigned
  <2>2. QED BY <1>4, <2>1
<1>9. OneRefreshEach'
  <2>1. ~IsRefresh(new)
    BY <1>1, <1>3 DEF IsRefresh
  <2>2. \A q \in Reqs \ {r} : Follows(req'[q], req[q])
    BY <1>4 DEF Follows
  <2>3. QED BY <1>4, <2>1, <2>2, RefreshesFollow
<1>10. QED BY <1>1, <1>6, <1>7, <1>8, <1>9, SessionsEnd

LEMMA SessionsRevokedKeeps ==
  ASSUME BrInv, SessionsRevoked
  PROVE  BrInv'
<1>1. /\ granted' = [n \in Issued |-> IF granted[n].state = "live" THEN [granted[n] EXCEPT !.state = "spent"] ELSE granted[n]]
      /\ excuse' = excuse \union {"revoked"} /\ UNCHANGED <<super, cookie, tab, req, signedIn, expelled>>
      /\ brLeft' \in [BrEvents -> Nat]
  BY BrUsesType DEF SessionsRevoked, BrEvents
<1>2. granted \in [Issued -> BrSession]
  BY DEF BrInv, BrTyped, GrantedTyped
<1>3. GrantedTyped' /\ \A m \in Issued : granted[m].state # "unused" => granted'[m].state # "unused"
  BY <1>1, <1>2 DEF GrantedTyped, BrSession
<1>4. OthersTyped'
  BY <1>1 DEF BrInv, BrTyped, OthersTyped
<1>5. BrTyped' /\ OneRefreshEach'
  BY <1>1, <1>3, <1>4 DEF BrInv, BrTyped, CookieTyped, TabTyped, ReqTyped, OneRefreshEach
<1>6. QED BY <1>1, <1>3, <1>5, SessionsEnd

LEMMA ServeFailsKeeps ==
  ASSUME BrInv, NEW r \in Reqs, ServeFails(r)
  PROVE  BrInv'
<1>1. /\ req[r] # NoReq /\ Answers(r, "error", req[r].token) /\ UNCHANGED <<super, granted, cookie, tab, signedIn, expelled>>
      /\ brLeft' \in [BrEvents -> Nat]
      /\ excuse' = IF req[r].kind = "refresh" /\ req[r].pc = "ok" THEN excuse \union {"lost"} ELSE excuse
  BY BrUsesType DEF ServeFails, Underway, BrEvents
<1>2. PICK n \in 0..BrTokens : n = req[r].token
  BY <1>1, ReqKnown
<1>3. "error" \in {"ok", "refused", "error"} /\ Answers(r, "error", n)
  BY <1>1, <1>2
<1>4. PICK new \in BrReq :
           /\ req' = [req EXCEPT ![r] = new] /\ new.pc = "error" /\ new.token = n /\ new.kind = req[r].kind
           /\ new.tab = req[r].tab /\ new.carried = req[r].carried /\ new # NoReq
  BY <1>1, <1>3, AnswerOf
<1>5. excuse \subseteq excuse' /\ excuse' \subseteq {"revoked", "left", "overlap", "lost", "crossed"}
  BY <1>1, ExcuseTyped
<1>6. Harmless(new, req[r])
  <2>1. ~Brings(new) /\ ~Refuses(new)
    BY <1>4 DEF Brings, Refuses
  <2>2. Exchanged(req[r]) => excuse' # {}
    BY <1>1 DEF Exchanged
  <2>3. Out' => Unsigned(new)
    <3>1. Out' => Out
      BY <1>1, <1>5 DEF Out
    <3>2. Out => Unsigned(req[r])
      BY DEF BrInv, OutKept
    <3>3. Unsigned(req[r]) => Unsigned(new)
      BY <1>1, <1>4 DEF Unsigned
    <3>4. QED BY <3>1, <3>2, <3>3
  <2>4. QED BY <2>1, <2>2, <2>3 DEF Harmless
<1>7. IsRefresh(new) => \A q \in Reqs \ {r} : IsRefresh(req[q]) => req[q].tab # new.tab
  <2>1. IsRefresh(new) => IsRefresh(req[r]) /\ new.tab = req[r].tab
    BY <1>1, <1>4 DEF IsRefresh
  <2>2. QED BY <2>1 DEF BrInv, OneRefreshEach
<1>8. TabTyped'
  BY <1>1 DEF BrInv, BrTyped, TabTyped
<1>9. QED BY <1>1, <1>4, <1>5, <1>6, <1>7, <1>8, OneRequestMoves


-----------------------------------------------------------------------------
(* Answers, step by step.                                                    *)

\* A request is over that was no exchange.
LEMMA EndIsHarmless ==
  ASSUME NEW y, excuse' = {} => ~Exchanged(y) PROVE Harmless(NoReq, y)
  BY DEF Harmless, Brings, Refuses, Exchanged, Unsigned

LEMMA RequestEnds ==
  ASSUME BrInv, NEW r \in Reqs, excuse' = {} => ~Exchanged(req[r]), req' = Cleared(r),
         UNCHANGED <<super, granted, cookie, signedIn, expelled, brLeft>>, TabTyped', excuse \subseteq excuse',
         excuse' \subseteq {"revoked", "left", "overlap", "lost", "crossed"}
  PROVE  BrInv'
<1>1. Harmless(NoReq, req[r])
  BY EndIsHarmless
<1>2. PICK new \in BrReq \union {NoReq} : new = NoReq
  OBVIOUS
<1>3. req' = [req EXCEPT ![r] = new] /\ Harmless(new, req[r]) /\ ~IsRefresh(new)
  BY <1>1, <1>2 DEF Cleared, IsRefresh
<1>4. brLeft' \in [BrEvents -> Nat]
  BY ExcuseTyped
<1>5. QED BY <1>3, <1>4, OneRequestMoves

LEMMA DroppedKeeps ==
  ASSUME BrInv, NEW r \in Reqs, Dropped(r)
  PROVE  BrInv'
<1>1. /\ req' = Cleared(r) /\ UNCHANGED <<super, granted, cookie, tab, signedIn, expelled, brLeft>>
      /\ excuse' = IF req[r].kind = "refresh" /\ req[r].pc = "ok" THEN excuse \union {"lost"} ELSE excuse
  BY DEF Dropped
<1>2. excuse \subseteq excuse' /\ excuse' \subseteq {"revoked", "left", "overlap", "lost", "crossed"}
  BY <1>1, ExcuseTyped
<1>3. excuse' = {} => ~Exchanged(req[r])
  BY <1>1 DEF Exchanged
<1>4. TabTyped'
  BY <1>1 DEF BrInv, BrTyped, TabTyped
<1>5. QED BY <1>1, <1>2, <1>3, <1>4, RequestEnds

\* The page that an answer arrives at.
LEMMA ArrivedAt ==
  ASSUME BrInv, NEW r \in Reqs, req[r] # NoReq, req[r].tab # "gone"
  PROVE  req[r].tab \in Tabs
  BY ReqKnown DEF BrReq

LEMMA FailuresKeep ==
  ASSUME BrInv, NEW r \in Reqs, SignInFailed(r) \/ SwitchFailed(r)
  PROVE  BrInv'
<1>1. /\ req' = Cleared(r) /\ UNCHANGED <<super, granted, cookie, tab, signedIn, excuse, expelled, brLeft>>
      /\ req[r].kind # "refresh"
  BY DEF SignInFailed, SwitchFailed, Arrived
<1>2. excuse \subseteq excuse' /\ excuse' \subseteq {"revoked", "left", "overlap", "lost", "crossed"}
  BY <1>1, ExcuseTyped
<1>3. TabTyped' /\ ~Exchanged(req[r])
  BY <1>1 DEF BrInv, BrTyped, TabTyped, Exchanged
<1>4. QED BY <1>1, <1>2, <1>3, RequestEnds

LEMMA TabGoes ==
  ASSUME BrInv, NEW t \in Tabs, NEW page \in Pages, tab' = [tab EXCEPT ![t].page = page]
  PROVE  TabTyped'
  BY DEF BrInv, BrTyped, TabTyped, BrTab

LEMMA CallAnsweredKeeps ==
  ASSUME BrInv, NEW r \in Reqs, CallAnswered(r)
  PROVE  BrInv'
<1>1. /\ req' = Cleared(r) /\ UNCHANGED <<super, granted, cookie, signedIn, excuse, expelled, brLeft>>
      /\ req[r] # NoReq /\ req[r].kind # "refresh" /\ req[r].tab # "gone"
  BY DEF CallAnswered, Arrived, Underway
<1>2. excuse \subseteq excuse' /\ excuse' \subseteq {"revoked", "left", "overlap", "lost", "crossed"}
  BY <1>1, ExcuseTyped
<1>3. ~Exchanged(req[r])
  BY <1>1 DEF Exchanged
<1>4. TabTyped'
  <2>1. PICK t \in Tabs : t = req[r].tab
    BY <1>1, ArrivedAt
  <2>2. CASE tab' = tab
    BY <2>2 DEF BrInv, BrTyped, TabTyped
  <2>3. CASE tab' = [tab EXCEPT ![t].page = Routed("super", cookie)]
    <3>1. Routed("super", cookie) \in Pages
      BY RoutedIs DEF Pages
    <3>2. QED BY <2>3, <3>1, TabGoes
  <2>4. QED BY <2>1, <2>2, <2>3 DEF CallAnswered
<1>5. QED BY <1>1, <1>2, <1>3, <1>4, RequestEnds

LEMMA CallRefusedKeeps ==
  ASSUME BrInv, NEW r \in Reqs, CallRefused(r)
  PROVE  BrInv'
<1>1. /\ req[r] # NoReq /\ req[r].kind \in {"call", "strict", "switch"} /\ req[r].tab # "gone"
      /\ UNCHANGED <<super, granted, cookie, signedIn, excuse, expelled, brLeft>>
  BY DEF CallRefused, Arrived, Underway
<1>2. PICK t \in Tabs : t = req[r].tab
  BY <1>1, ArrivedAt
<1>3. PICK kind \in {"call", "strict", "switch"} : kind = req[r].kind
  BY <1>1
<1>4. /\ tab' = [tab EXCEPT ![t].waits = kind]
      /\ req' = [req EXCEPT ![r] = IF Startable(t) THEN Sent("refresh", t, FALSE) ELSE NoReq]
  BY <1>2, <1>3 DEF CallRefused
<1>5. TabTyped'
  BY <1>4 DEF BrInv, BrTyped, TabTyped, BrTab, Pending
<1>6. ~Exchanged(req[r]) /\ brLeft' \in [BrEvents -> Nat]
  BY <1>1, ExcuseTyped DEF Exchanged
<1>7. CASE Startable(t)
  <2>1. req' = [req EXCEPT ![r] = Sent("refresh", t, FALSE)] /\ "refresh" \in ReqKinds
    BY <1>4, <1>7 DEF ReqKinds
  <2>2. QED BY <1>1, <1>5, <1>6, <1>7, <2>1, SendKeeps
<1>8. CASE ~Startable(t)
  <2>1. req' = Cleared(r)
    BY <1>4, <1>8 DEF Cleared
  <2>2. excuse \subseteq excuse' /\ excuse' \subseteq {"revoked", "left", "overlap", "lost", "crossed"}
    BY <1>1, ExcuseTyped
  <2>3. QED BY <1>1, <1>5, <1>6, <2>1, <2>2, RequestEnds
<1>9. QED BY <1>7, <1>8

\* The login page, and what it leaves.
LEMMA ExpelIs ==
  ASSUME BrInv, NEW r \in Reqs, NEW t \in Tabs, NEW c \in BrCookie, Expel(t, c, Cleared(r))
  PROVE  /\ CookieTyped' /\ cookie'.refresh = c.refresh /\ cookie'.access = c.access
         /\ TabTyped' /\ ReqTyped' /\ req'[r] = NoReq
         /\ \A q \in Reqs \ {r} : Follows(req'[q], req[q])
<1>1. CookieTyped' /\ cookie'.refresh = c.refresh /\ cookie'.access = c.access
  <2>1. PICK no \in BOOLEAN : no = FALSE
    OBVIOUS
  <2> DEFINE d == [c EXCEPT !.marked = no, !.home = "none"]
  <2>2. d \in BrCookie /\ d.refresh = c.refresh /\ d.access = c.access
    BY DEF BrCookie, Homes
  <2>3. cookie' = d
    BY <2>1 DEF Expel, Unmarked
  <2> HIDE DEF d
  <2>4. QED BY <2>2, <2>3 DEF CookieTyped
<1>2. TabTyped'
  BY DEF Expel, BrInv, BrTyped, TabTyped, BrTab, Pages, Pending
<1>3. PICK reqs \in [Reqs -> BrReq \union {NoReq}] :
        reqs = Cleared(r) /\ reqs[r] = NoReq /\ \A q \in Reqs \ {r} : reqs[q] = req[q]
  <2>1. /\ Cleared(r) \in [Reqs -> BrReq \union {NoReq}] /\ Cleared(r)[r] = NoReq
        /\ \A q \in Reqs \ {r} : Cleared(r)[q] = req[q]
    BY DEF Cleared, BrInv, BrTyped, ReqTyped
  <2>2. QED BY <2>1, Zenon
<1>4. req' = Leaves(t, reqs)
  BY <1>3 DEF Expel
<1>5. ReqTyped' /\ \A q \in Reqs : Follows(req'[q], reqs[q])
  BY <1>4, LeavesIs DEF ReqTyped
<1>6. QED BY <1>1, <1>2, <1>3, <1>5 DEF Follows

\* An answer ends the session of the page, or only the page.
LEMMA PageExpelled ==
  ASSUME BrInv, NEW r \in Reqs, ~Exchanged(req[r]), NEW t \in Tabs, NEW c \in BrCookie, Expel(t, c, Cleared(r)),
         c = cookie \/ (c.refresh = 0 /\ c.access = 0 /\ excuse # {}),
         UNCHANGED <<super, granted, signedIn, excuse, brLeft>>, expelled' \in BOOLEAN
  PROVE  BrInv'
<1>1. /\ CookieTyped' /\ cookie'.refresh = c.refresh /\ cookie'.access = c.access
      /\ TabTyped' /\ ReqTyped' /\ req'[r] = NoReq
      /\ \A q \in Reqs \ {r} : Follows(req'[q], req[q])
  BY ExpelIs
<1>2. BrTyped'
  <2>1. OthersTyped'
    BY DEF BrInv, BrTyped, OthersTyped
  <2>2. GrantedTyped'
    BY DEF BrInv, BrTyped, GrantedTyped
  <2>3. QED BY <1>1, <2>1, <2>2 DEF BrTyped
<1>3. \A q \in Reqs : Harmless(req'[q], req[q])
  BY <1>1, EndIsHarmless, FollowingIsHarmless
<1>4. OneRefreshEach'
  <2>1. ~IsRefresh(req'[r])
    BY <1>1 DEF IsRefresh
  <2>2. QED BY <1>1, <2>1, RefreshesFollow
<1>5. Out' => cookie'.refresh = 0 /\ cookie'.access = 0
  BY <1>1 DEF BrInv, OutKept, Out
<1>6. cookie'.refresh = cookie.refresh \/ (cookie'.refresh = 0 /\ ~(signedIn' /\ excuse' = {}))
  BY <1>1
<1>7. QED BY <1>2, <1>3, <1>4, <1>5, <1>6, SessionStays

LEMMA CallRefusedAgainKeeps ==
  ASSUME BrInv, NEW r \in Reqs, CallRefusedAgain(r)
  PROVE  BrInv'
<1>1. /\ req[r] # NoReq /\ req[r].kind # "refresh" /\ req[r].tab # "gone"
      /\ UNCHANGED <<super, granted, signedIn, excuse, expelled, brLeft>>
  BY DEF CallRefusedAgain, Arrived, Underway
<1>2. PICK t \in Tabs : t = req[r].tab
  BY <1>1, ArrivedAt
<1>3. ~Exchanged(req[r])
  BY <1>1 DEF Exchanged
<1>4. CASE Expel(t, cookie, Cleared(r))
  <2>1. cookie \in BrCookie /\ expelled' \in BOOLEAN
    BY <1>1, CookieKnown, ExcuseTyped
  <2>2. QED BY <1>1, <1>3, <1>4, <2>1, PageExpelled
<1>5. CASE req' = Cleared(r) /\ UNCHANGED <<cookie, tab>>
  <2>1. excuse \subseteq excuse' /\ excuse' \subseteq {"revoked", "left", "overlap", "lost", "crossed"}
    BY <1>1, ExcuseTyped
  <2>2. TabTyped'
    BY <1>5 DEF BrInv, BrTyped, TabTyped
  <2>3. QED BY <1>1, <1>3, <1>5, <2>1, <2>2, RequestEnds
<1>6. QED BY <1>2, <1>4, <1>5 DEF CallRefusedAgain

LEMMA RefreshFailedKeeps ==
  ASSUME BrInv, NEW r \in Reqs, RefreshFailed(r)
  PROVE  BrInv'
<1>1. /\ req[r] # NoReq /\ req[r].kind = "refresh" /\ req[r].pc \in {"refused", "error"} /\ req[r].tab # "gone"
      /\ UNCHANGED <<super, granted, signedIn, excuse, brLeft>>
  BY DEF RefreshFailed, Arrived, Underway
<1>2. PICK t \in Tabs : t = req[r].tab
  BY <1>1, ArrivedAt
<1>3. ~Exchanged(req[r])
  BY <1>1 DEF Exchanged
<1>4. NoCookies \in BrCookie /\ NoCookies.refresh = 0 /\ NoCookies.access = 0
  BY BrNumbers DEF NoCookies, BrCookie, Homes
<1>5. PICK c \in BrCookie : c = IF req[r].pc = "refused" /\ req[r].carried.refresh # 0 THEN NoCookies ELSE cookie
  BY <1>4, CookieKnown
<1>6. c = cookie \/ (c.refresh = 0 /\ c.access = 0 /\ excuse # {})
  <2>1. req[r].pc = "refused" /\ req[r].carried.refresh # 0 => excuse # {}
    BY <1>1 DEF BrInv, AnswersKept, Refuses
  <2>2. QED BY <1>4, <1>5, <2>1
<1>7. CASE cookie' = c /\ req' = Cleared(r) /\ UNCHANGED <<tab, expelled>>
  <2>1. ReqTyped' /\ req'[r] = NoReq /\ \A q \in Reqs \ {r} : req'[q] = req[q]
    BY <1>7 DEF Cleared, BrInv, BrTyped, ReqTyped
  <2>2. BrTyped'
    <3>1. OthersTyped' /\ GrantedTyped' /\ TabTyped'
      BY <1>1, <1>7 DEF BrInv, BrTyped, OthersTyped, GrantedTyped, TabTyped
    <3>2. CookieTyped'
      BY <1>7 DEF CookieTyped
    <3>3. QED BY <2>1, <3>1, <3>2 DEF BrTyped
  <2>3. \A q \in Reqs \ {r} : Follows(req'[q], req[q])
    BY <2>1 DEF Follows
  <2>4. \A q \in Reqs : Harmless(req'[q], req[q])
    BY <1>1, <1>3, <2>1, <2>3, EndIsHarmless, FollowingIsHarmless
  <2>5. OneRefreshEach'
    <3>1. ~IsRefresh(req'[r])
      BY <2>1 DEF IsRefresh
    <3>2. QED BY <2>3, <3>1, RefreshesFollow
  <2>6. Out' => cookie'.refresh = 0 /\ cookie'.access = 0
    BY <1>1, <1>6, <1>7 DEF BrInv, OutKept, Out
  <2>7. cookie'.refresh = cookie.refresh \/ (cookie'.refresh = 0 /\ ~(signedIn' /\ excuse' = {}))
    BY <1>1, <1>6, <1>7
  <2>8. QED BY <1>1, <2>2, <2>4, <2>5, <2>6, <2>7, SessionStays
<1>8. CASE Expel(t, c, Cleared(r)) /\ expelled' = (expelled \/ Alive(c.refresh))
  <2>1. expelled' \in BOOLEAN
    BY <1>8, Zenon
  <2>2. QED BY <1>1, <1>3, <1>6, <1>8, <2>1, PageExpelled
<1>9. QED BY <1>2, <1>5, <1>7, <1>8 DEF RefreshFailed

LEMMA AccessExpiresKeeps ==
  ASSUME BrInv, AccessExpires
  PROVE  BrInv'
<1>1. /\ cookie' = [cookie EXCEPT !.access = 0] /\ UNCHANGED <<super, granted, tab, req, signedIn, excuse, expelled>>
      /\ brLeft' \in [BrEvents -> Nat]
  BY BrUsesType DEF AccessExpires, BrEvents
<1>2. CookieTyped' /\ cookie'.refresh = cookie.refresh /\ cookie'.access = 0
  BY <1>1, CookieKnown, BrNumbers DEF CookieTyped, BrCookie
<1>3. OthersTyped'
  BY <1>1 DEF BrInv, BrTyped, OthersTyped
<1>4. BrTyped' /\ OneRefreshEach'
  BY <1>1, <1>2, <1>3 DEF BrInv, BrTyped, GrantedTyped, TabTyped, ReqTyped, OneRefreshEach
<1>5. \A q \in Reqs : Harmless(req'[q], req[q])
  <2>1. \A q \in Reqs : Follows(req'[q], req[q])
    BY <1>1 DEF Follows
  <2>2. QED BY <1>1, <2>1, FollowingIsHarmless
<1>6. Out' => cookie'.refresh = 0 /\ cookie'.access = 0
  BY <1>1, <1>2 DEF BrInv, OutKept, Out
<1>7. QED BY <1>1, <1>2, <1>4, <1>5, <1>6, SessionStays

LEMMA SignedOutKeeps ==
  ASSUME BrInv, NEW r \in Reqs, SignedOut(r)
  PROVE  BrInv'
<1>1. /\ req[r] # NoReq /\ req[r].kind = "logout" /\ req[r].pc \in {"ok", "error"} /\ req[r].tab # "gone"
      /\ UNCHANGED <<super, granted, expelled, brLeft>> /\ ~signedIn'
      /\ excuse' = excuse \union (IF req[r].pc = "error" \/ \E q \in Reqs \ {r} : Underway(q) THEN {"crossed"} ELSE {})
  BY DEF SignedOut, Arrived, Underway
<1>2. PICK t \in Tabs : t = req[r].tab
  BY <1>1, ArrivedAt
<1>3. ~Exchanged(req[r])
  BY <1>1 DEF Exchanged
<1>4. PICK c \in BrCookie : c = IF req[r].pc = "ok" THEN ClearedAll ELSE cookie
  BY CookieKnown, BrNumbers DEF ClearedAll, NoCookies, BrCookie, Homes
<1>5. Expel(t, c, Cleared(r))
  BY <1>2, <1>4 DEF SignedOut
<1>6. /\ CookieTyped' /\ cookie'.refresh = c.refresh /\ cookie'.access = c.access
      /\ TabTyped' /\ ReqTyped' /\ req'[r] = NoReq
      /\ \A q \in Reqs \ {r} : Follows(req'[q], req[q])
  BY <1>5, ExpelIs
<1>7. BrTyped'
  <2>1. signedIn' \in BOOLEAN
    BY DEF SignedOut
  <2>2. excuse \subseteq excuse' /\ excuse' \subseteq {"revoked", "left", "overlap", "lost", "crossed"}
    BY <1>1, ExcuseTyped
  <2>3. OthersTyped' /\ GrantedTyped'
    BY <1>1, <2>1, <2>2 DEF BrInv, BrTyped, OthersTyped, GrantedTyped
  <2>4. QED BY <1>6, <2>3 DEF BrTyped
<1>8. Out' => req[r].pc = "ok" /\ \A q \in Reqs \ {r} : req[q] = NoReq
  BY <1>1 DEF Out, Underway
<1>9. \A q \in Reqs : Harmless(req'[q], req[q])
  <2>1. Harmless(req'[r], req[r])
    BY <1>3, <1>6, EndIsHarmless
  <2>2. ASSUME NEW q \in Reqs \ {r} PROVE Harmless(req'[q], req[q])
    <3>1. CASE ~Out'
      BY <1>1, <1>6, <3>1, FollowingIsHarmless
    <3>2. CASE Out'
      <4>1. req[q] = NoReq /\ req'[q] = NoReq
        BY <1>6, <1>8, <3>2 DEF Follows
      <4>2. QED BY <4>1, EndIsHarmless DEF Exchanged
    <3>3. QED BY <3>1, <3>2
  <2>3. QED BY <2>1, <2>2
<1>10. OneRefreshEach'
  <2>1. ~IsRefresh(req'[r])
    BY <1>6 DEF IsRefresh
  <2>2. QED BY <1>6, <2>1, RefreshesFollow
<1>11. Out' => cookie'.refresh = 0 /\ cookie'.access = 0
  BY <1>4, <1>6, <1>8 DEF ClearedAll, NoCookies
<1>12. cookie'.refresh = cookie.refresh \/ (cookie'.refresh = 0 /\ ~(signedIn' /\ excuse' = {}))
  BY <1>1, <1>4, <1>6 DEF ClearedAll, NoCookies
<1>13. QED BY <1>1, <1>7, <1>9, <1>10, <1>11, <1>12, SessionStays


-----------------------------------------------------------------------------
(* Answers that bring a session.                                             *)

\* The browser takes the session of an answer.
LEMMA SessionTaken ==
  ASSUME BrInv, NEW r \in Reqs, NEW new \in BrReq \union {NoReq}, Brings(req[r]), req' = [req EXCEPT ![r] = new],
         new = NoReq \/ (new.pc = "sent" /\ new.kind # "refresh"), CookieTyped', TabTyped', OthersTyped',
         UNCHANGED granted, cookie'.refresh = req[r].token, ~Out',
         excuse' = {} => Alive(req[r].token) /\ (excuse = {} \/ \A q \in Reqs \ {r} : req[q] = NoReq)
  PROVE  BrInv'
<1>1. ReqTyped' /\ req'[r] = new /\ \A q \in Reqs \ {r} : req'[q] = req[q]
  BY DEF BrInv, BrTyped, ReqTyped
<1>2. BrTyped'
  BY <1>1 DEF BrInv, BrTyped, GrantedTyped
<1>3. ~Brings(req'[r]) /\ ~Refuses(req'[r]) /\ ~IsRefresh(req'[r])
  BY <1>1 DEF Brings, Refuses, IsRefresh
<1>4. TokensKept'
  <2>1. granted[req[r].token].state # "unused" /\ \A q \in Reqs \ {r} : Brings(req[q]) => req[q].token # req[r].token
    BY DEF BrInv, TokensKept
  <2>2. \A q \in Reqs : Brings(req'[q]) => q # r /\ Brings(req[q]) /\ req'[q] = req[q]
    BY <1>1, <1>3
  <2>3. \A q \in Reqs : Brings(req[q]) =>
          /\ req[q].token \in Issued /\ granted[req[q].token].state # "unused"
          /\ \A p \in Reqs \ {q} : Brings(req[p]) => req[p].token # req[q].token
    BY DEF BrInv, TokensKept
  <2>4. QED BY <2>1, <2>2, <2>3 DEF TokensKept
<1>5. AnswersKept'
  <2> SUFFICES ASSUME excuse' = {}, NEW q \in Reqs
               PROVE  /\ Brings(req'[q]) => Alive(req'[q].token)
                      /\ Refuses(req'[q]) => req'[q].carried.refresh = 0
    BY DEF AnswersKept, Brings, Refuses, Alive
  <2>1. CASE q = r
    BY <1>3, <2>1
  <2>2. CASE q # r /\ req[q] = NoReq
    BY <1>1, <2>2 DEF Brings, Refuses
  <2>3. CASE q # r /\ req[q] # NoReq
    <3>1. excuse = {}
      BY <2>3
    <3>2. QED BY <1>1, <2>3, <3>1 DEF BrInv, AnswersKept
  <2>4. QED BY <2>1, <2>2, <2>3
<1>6. OneRefreshEach'
  <2>1. \A q \in Reqs \ {r} : Follows(req'[q], req[q])
    BY <1>1 DEF Follows
  <2>2. QED BY <1>3, <2>1, RefreshesFollow
<1>7. OutKept'
  BY DEF OutKept, Out
<1>8. StaysSignedIn'
  <2>1. excuse' = {} => Alive(cookie.refresh)'
    BY DEF Alive
  <2>2. QED BY <2>1 DEF StaysSignedIn
<1>9. QED BY <1>2, <1>4, <1>5, <1>6, <1>7, <1>8 DEF BrInv

LEMMA CookiesIs ==
  ASSUME NEW n \in 0..BrTokens, NEW h \in Homes
  PROVE  Cookies(n, h) \in BrCookie /\ Cookies(n, h).refresh = n
  BY DEF Cookies, BrCookie

LEMMA BroughtIs ==
  ASSUME BrInv, NEW r \in Reqs, Brings(req[r])
  PROVE  /\ req[r].token \in 0..BrTokens /\ req[r].token \in Issued /\ granted[req[r].token].home \in Homes
         /\ req[r].carried.home \in Homes
<1>1. req[r].token \in Issued /\ req[r].carried \in BrCookie
  BY ReqKnown DEF BrInv, TokensKept, Brings
<1>2. granted[req[r].token].home \in Homes
  BY <1>1 DEF BrInv, BrTyped, GrantedTyped, BrSession
<1>3. QED BY <1>1, <1>2, BrNumbers DEF BrCookie

LEMMA SignedInKeeps ==
  ASSUME BrInv, NEW r \in Reqs, SignedIn(r)
  PROVE  BrInv'
<1>1. /\ req[r] # NoReq /\ req[r].kind = "login" /\ req[r].pc = "ok" /\ req[r].tab # "gone" /\ Brings(req[r])
      /\ UNCHANGED <<super, granted, expelled, brLeft>> /\ signedIn' /\ signedIn' \in BOOLEAN
      /\ excuse' = IF \E q \in Reqs \ {r} : Underway(q) THEN excuse \union {"crossed"}
                   ELSE IF Alive(req[r].token) THEN {} ELSE excuse
  BY DEF SignedIn, Arrived, Underway, Brings
<1>2. PICK n \in 0..BrTokens, h \in Homes : n = req[r].token /\ h = granted[req[r].token].home
  BY <1>1, BroughtIs
<1>3. PICK c \in BrCookie : c = Cookies(n, h) /\ c.refresh = n
  BY CookiesIs
<1>4. cookie' = c
  BY <1>2, <1>3 DEF SignedIn
<1>5. CookieTyped' /\ cookie'.refresh = req[r].token
  BY <1>2, <1>3, <1>4 DEF CookieTyped
<1>6. TabTyped'
  <2>1. PICK t \in Tabs : t = req[r].tab
    BY <1>1, ArrivedAt
  <2>2. PICK page \in Pages : page = Routed(IF super THEN "super" ELSE "select", c)
    BY RoutedIs DEF Pages
  <2>3. tab' = [tab EXCEPT ![t].page = page]
    BY <1>4, <2>1, <2>2 DEF SignedIn
  <2>4. QED BY <2>3, TabGoes
<1>7. OthersTyped'
  BY <1>1, ExcuseTyped DEF OthersTyped
<1>8. PICK new \in BrReq \union {NoReq} : new = NoReq
  OBVIOUS
<1>9. req' = [req EXCEPT ![r] = new]
  BY <1>8 DEF SignedIn, Cleared
<1>10. excuse' = {} => Alive(req[r].token) /\ (excuse = {} \/ \A q \in Reqs \ {r} : req[q] = NoReq)
  <2>1. excuse = {} => Alive(req[r].token)
    BY <1>1 DEF BrInv, AnswersKept
  <2>2. QED BY <1>1, <2>1 DEF Underway
<1>11. ~Out'
  BY <1>1 DEF Out
<1>12. UNCHANGED granted /\ Brings(req[r])
  BY <1>1
<1>13. QED BY <1>5, <1>6, <1>7, <1>8, <1>9, <1>10, <1>11, <1>12, SessionTaken

\* An answer to a browser that was signed in.
LEMMA WasSignedIn ==
  ASSUME BrInv, NEW r \in Reqs, Brings(req[r]), req[r].kind # "login", UNCHANGED <<signedIn, excuse>>
  PROVE  /\ ~Out'
         /\ excuse' = {} => Alive(req[r].token) /\ (excuse = {} \/ \A q \in Reqs \ {r} : req[q] = NoReq)
<1>1. ~Unsigned(req[r])
  BY DEF Brings, Unsigned
<1>2. ~Out
  BY <1>1 DEF BrInv, OutKept
<1>3. excuse = {} => Alive(req[r].token)
  BY DEF BrInv, AnswersKept
<1>4. QED BY <1>2, <1>3 DEF Out

LEMMA SwitchedKeeps ==
  ASSUME BrInv, NEW r \in Reqs, Switched(r)
  PROVE  BrInv'
<1>1. /\ req[r] # NoReq /\ req[r].kind = "switch" /\ req[r].pc = "ok" /\ req[r].tab # "gone" /\ Brings(req[r])
      /\ UNCHANGED <<super, granted, signedIn, excuse, expelled, brLeft>>
  BY DEF Switched, Arrived, Underway, Brings
<1>2. PICK n \in 0..BrTokens, h \in Homes : n = req[r].token /\ h = granted[req[r].token].home
  BY <1>1, BroughtIs
<1>3. PICK c \in BrCookie : c = Cookies(n, h) /\ c.refresh = n
  BY CookiesIs
<1>4. cookie' = c
  BY <1>2, <1>3 DEF Switched
<1>5. CookieTyped' /\ cookie'.refresh = req[r].token
  BY <1>2, <1>3, <1>4 DEF CookieTyped
<1>6. TabTyped'
  <2>1. PICK t \in Tabs : t = req[r].tab
    BY <1>1, ArrivedAt
  <2>2. PICK page \in Pages : page = Routed("app", c)
    BY RoutedIs DEF Pages
  <2>3. tab' = [tab EXCEPT ![t].page = page]
    BY <1>4, <2>1, <2>2 DEF Switched
  <2>4. QED BY <2>3, TabGoes
<1>7. OthersTyped'
  BY <1>1, ExcuseTyped DEF OthersTyped
<1>8. PICK new \in BrReq \union {NoReq} : new = NoReq
  OBVIOUS
<1>9. req' = [req EXCEPT ![r] = new]
  BY <1>8 DEF Switched, Cleared
<1>10. ~Out' /\ (excuse' = {} => Alive(req[r].token) /\ (excuse = {} \/ \A q \in Reqs \ {r} : req[q] = NoReq))
  BY <1>1, WasSignedIn
<1>11. UNCHANGED granted /\ Brings(req[r])
  BY <1>1
<1>12. QED BY <1>5, <1>6, <1>7, <1>8, <1>9, <1>10, <1>11, SessionTaken

LEMMA RefreshedKeeps ==
  ASSUME BrInv, NEW r \in Reqs, Refreshed(r)
  PROVE  BrInv'
<1>1. /\ req[r] # NoReq /\ req[r].kind = "refresh" /\ req[r].pc = "ok" /\ req[r].tab # "gone" /\ Brings(req[r])
      /\ UNCHANGED <<super, granted, signedIn, excuse, expelled, brLeft>>
  BY DEF Refreshed, Arrived, Underway, Brings
<1>2. PICK n \in 0..BrTokens, h \in Homes : n = req[r].token /\ h = req[r].carried.home
  BY <1>1, BroughtIs
<1>3. PICK c \in BrCookie : c = Cookies(n, h) /\ c.refresh = n
  BY CookiesIs
<1>4. cookie' = c
  BY <1>2, <1>3 DEF Refreshed
<1>5. CookieTyped' /\ cookie'.refresh = req[r].token
  BY <1>2, <1>3, <1>4 DEF CookieTyped
<1>6. PICK t \in Tabs : t = req[r].tab
  BY <1>1, ArrivedAt
<1>7. TabTyped'
  <2>1. tab' = [tab EXCEPT ![t].waits = "none"]
    BY <1>6 DEF Refreshed
  <2>2. QED BY <2>1 DEF BrInv, BrTyped, TabTyped, BrTab, Pending
<1>8. OthersTyped'
  BY <1>1, ExcuseTyped DEF OthersTyped
<1>9. PICK new \in BrReq \union {NoReq} :
        /\ req' = [req EXCEPT ![r] = new]
        /\ new = NoReq \/ (new.pc = "sent" /\ new.kind # "refresh")
  <2>1. CASE tab[t].waits = "none"
    <3>1. req' = [req EXCEPT ![r] = NoReq]
      BY <1>6, <2>1 DEF Refreshed
    <3>2. QED BY <3>1
  <2>2. CASE tab[t].waits # "none"
    <3>1. PICK kind \in ReqKinds : kind = tab[t].waits /\ kind # "refresh"
      BY <2>2 DEF BrInv, BrTyped, TabTyped, BrTab, Pending, ReqKinds
    <3>2. PICK yes \in BOOLEAN : yes = TRUE
      OBVIOUS
    <3>3. PICK s \in BrReq :
            /\ s = Sent(kind, t, yes) /\ s.kind = kind /\ s.tab = t /\ s.pc = "sent" /\ s.carried = cookie
            /\ s.token = 0
      BY SentIs
    <3>4. req' = [req EXCEPT ![r] = [s EXCEPT !.carried = c]]
      BY <1>4, <1>6, <2>2, <3>1, <3>2, <3>3 DEF Refreshed
    <3> DEFINE y == [s EXCEPT !.carried = c]
    <3>5. y \in BrReq /\ y.pc = "sent" /\ y.kind # "refresh"
      BY <3>1, <3>3 DEF BrReq
    <3> HIDE DEF y
    <3>6. req' = [req EXCEPT ![r] = y]
      BY <3>4 DEF y
    <3>7. QED BY <3>5, <3>6
  <2>3. QED BY <2>1, <2>2
<1>10. ~Out' /\ (excuse' = {} => Alive(req[r].token) /\ (excuse = {} \/ \A q \in Reqs \ {r} : req[q] = NoReq))
  BY <1>1, WasSignedIn
<1>11. UNCHANGED granted /\ Brings(req[r])
  BY <1>1
<1>12. QED BY <1>5, <1>7, <1>8, <1>9, <1>10, <1>11, SessionTaken

-----------------------------------------------------------------------------

LEMMA BrowserStepKeeps == ASSUME BrInv, [BrNext]_brVars PROVE BrInv'
<1>1. CASE UNCHANGED brVars
  BY <1>1 DEF brVars, BrInv, BrTyped, CookieTyped, GrantedTyped, TabTyped, ReqTyped, OthersTyped, TokensKept, AnswersKept,
              OneRefreshEach, OutKept, StaysSignedIn, Alive, Underway, Brings, Refuses, IsRefresh, Unsigned, Out
<1>2. CASE BrNext
  <2>1. CASE AccessExpires
    BY <2>1, AccessExpiresKeeps
  <2>2. CASE SessionsRevoked
    BY <2>2, SessionsRevokedKeeps
  <2>3. ASSUME NEW t \in Tabs, NEW page \in Pages, OpenPage(t, page) PROVE BrInv'
    BY <2>3, OpenPageKeeps
  <2>4. ASSUME NEW t \in Tabs, NEW r \in Reqs,
               \/ BeginSignIn(t, r) \/ ProactiveRefresh(t, r) \/ PressLogout(t, r)
               \/ \E kind \in {"call", "strict", "switch"} : BeginCall(t, r, kind)
        PROVE  BrInv'
    BY <2>4, BeginsKeep
  <2>5. ASSUME NEW r \in Reqs,
               ServeRefresh(r) \/ ServeCall(r) \/ ServeLogin(r) \/ ServeLogout(r) \/ ServeFails(r) \/ Dropped(r)
        PROVE  BrInv'
    BY <2>5, ServeRefreshKeeps, ServeCallKeeps, ServeLoginKeeps, ServeLogoutKeeps, ServeFailsKeeps, DroppedKeeps
  <2>6. ASSUME NEW r \in Reqs, SignedIn(r) \/ SignInFailed(r) \/ CallAnswered(r) \/ Switched(r) \/ SwitchFailed(r)
        PROVE  BrInv'
    BY <2>6, SignedInKeeps, FailuresKeep, CallAnsweredKeeps, SwitchedKeeps
  <2>7. ASSUME NEW r \in Reqs, CallRefused(r) \/ CallRefusedAgain(r) \/ Refreshed(r) \/ RefreshFailed(r) \/ SignedOut(r)
        PROVE  BrInv'
    BY <2>7, CallRefusedKeeps, CallRefusedAgainKeeps, RefreshedKeeps, RefreshFailedKeeps, SignedOutKeeps
  <2>8. QED BY <1>2, <2>1, <2>2, <2>3, <2>4, <2>5, <2>6, <2>7 DEF BrNext
<1>3. QED BY <1>1, <1>2

LEMMA BrTypesHold == BrInv => BrTypeOK
  BY DEF BrInv, BrTyped, CookieTyped, GrantedTyped, TabTyped, ReqTyped, OthersTyped, BrTypeOK, BrCookie, BrReq, BrTab, BrSession

LEMMA BrowserFollows == BrInv => StaysSignedIn /\ LogoutHolds
  BY DEF BrInv, OutKept, Out, LogoutHolds

\* A browser that signed in holds a session that can be refreshed, or its successor is on
\* the way, until its user leaves, the sessions are revoked, two tabs exchange one token or an answer
\* is lost or crosses a sign-in; and it holds none after a logout: for any number of tabs,
\* requests and sessions.
THEOREM SessionIsKept == PeopleSpec => []SessionSurvives
<1> DEFINE I == part = "browser" => BrInv
<1>1. PeopleInit => I
  BY BrowserInitially DEF PeopleInit
<1>2. I /\ [PeopleNext]_peVars => I'
  <2> SUFFICES ASSUME I, [PeopleNext]_peVars, part' = "browser"
               PROVE  BrInv'
    OBVIOUS
  <2>1. part = "browser" /\ [BrNext]_brVars
    BY DEF PeopleNext, peVars
  <2>2. QED BY <2>1, BrowserStepKeeps
<1>3. I => SessionSurvives
  BY BrowserFollows DEF SessionSurvives
<1>4. QED BY <1>1, <1>2, <1>3, PTL DEF PeopleSpec

\* Every state of the sessions, accounts, members, the browser and the connections is well
\* formed.
THEOREM PeopleAreWellTyped == PeopleSpec => []TypesOK
<1> DEFINE I == /\ Inv
                /\ part = "accounts" => AcInv
                /\ part = "members" => MbInv
                /\ part = "browser" => BrInv
                /\ part = "connections" => CoInv
<1>1. PeopleInit => I
  BY Initially, AccountsInitially, MembersInitially, BrowserInitially, CoInitially DEF PeopleInit
<1>2. I /\ [PeopleNext]_peVars => I'
  <2> SUFFICES ASSUME I, [PeopleNext]_peVars PROVE I'
    OBVIOUS
  <2>1. Inv'
    <3>1. [Next]_vars
      BY DEF PeopleNext, peVars
    <3>2. QED BY <3>1, Stepping, Stuttering
  <2>2. ASSUME part' = "accounts" PROVE AcInv'
    <3>1. part = "accounts" /\ [AcNext]_acVars
      BY <2>2 DEF PeopleNext, peVars
    <3>2. QED BY <3>1, AccountsStepKeeps
  <2>3. ASSUME part' = "members" PROVE MbInv'
    <3>1. part = "members" /\ [MbNext]_mbVars
      BY <2>3 DEF PeopleNext, peVars
    <3>2. QED BY <3>1, MembersStepKeeps
  <2>4. ASSUME part' = "browser" PROVE BrInv'
    <3>1. part = "browser" /\ [BrNext]_brVars
      BY <2>4 DEF PeopleNext, peVars
    <3>2. QED BY <3>1, BrowserStepKeeps
  <2>5. ASSUME part' = "connections" PROVE CoInv'
    <3>1. part = "connections" /\ [CoNext]_coVars
      BY <2>5 DEF PeopleNext, peVars
    <3>2. QED BY <3>1, ConnectionsStepKeeps
  <2>6. QED BY <2>1, <2>2, <2>3, <2>4, <2>5
<1>3. I => TypesOK
  <2>1. Inv => TypeOK
    BY DEF Inv
  <2>2. QED BY <2>1, AcTypesHold, MbTypesHold, BrTypesHold, CoTypesHold DEF TypesOK
<1>4. QED BY <1>1, <1>2, <1>3, PTL DEF PeopleSpec
=============================================================================
