---------------------------- MODULE Connections ----------------------------
(***************************************************************************)
(* The connection of a tenant to its store system (ChatWai Connect):       *)
(* apps/api/src/integrations, the console of the super owner               *)
(* (super-admin/integrations-admin.service.ts) and the pages that use them *)
(* (settings/connect-settings.tsx, components/inbox/ConnectLookupPanel).   *)
(* The API names no connection: it takes the newest one that is not        *)
(* disconnected, and decides on rows it has read before it writes.         *)
(* A secret is the number of its writing, per connection, from 1.          *)
(***************************************************************************)
EXTENDS Integers, FiniteSets, FiniteSetsExt

CONSTANTS
  CoTabs,        \* settings pages
  MaxConns,      \* how many connections may be created
  CoBounds       \* the scenarios: how often what happens

CoEvents == {"loads", "creates", "tests", "rotations", "disconnects", "bans", "shop", "searches", "faults"}

ASSUME ConnectionsAssumption == MaxConns \in Nat /\ CoBounds \subseteq [CoEvents -> Nat]

VARIABLES
  planMax,   \* maxIntegrations of the tenant's plan
  conn,      \* the rows, in the order of their creation
  shop,      \* by connection: the secret the store system holds, and does it check signatures
  settings,  \* by tab: the connection it shows, and what it says of it
  ask,       \* by tab: the request under way
  panel,     \* the agent's search panel: is it shown, and what became of the last search
  unproved,  \* the connections whose system or secrets changed since a test passed
  crossed,   \* the connections that two rotations have changed at once
  crowded,   \* were two creations under way at once
  upset,     \* the tabs that an error, another tab or the super owner left behind
  coLeft

coVars == <<planMax, conn, shop, settings, ask, panel, unproved, crossed, crowded, upset, coLeft>>

Conns == 1..MaxConns
NoConn == [state |-> "none", banned |-> FALSE, ok |-> FALSE, secret |-> 0, previous |-> 0, window |-> FALSE,
           despite |-> {}]
NoAsk == [do |-> "nothing", pc |-> "", row |-> 0, sends |-> {}, ok |-> FALSE, calm |-> FALSE, despite |-> {}]
NoView == [loaded |-> FALSE, row |-> 0, ok |-> FALSE, banned |-> FALSE, secret |-> 0]
Empty == [NoView EXCEPT !.loaded = TRUE]
AskSteps == {"", "check", "count", "insert", "read", "health", "probe", "write", "done", "failed"}

CoTypeOK ==
  /\ planMax \in Nat
  /\ \A c \in Conns :
       /\ conn[c].state \in {"none", "live", "gone"} /\ conn[c].secret \in Nat
       /\ conn[c].previous \in 0..conn[c].secret /\ conn[c].despite \subseteq Conns
       /\ shop[c].secret \in 0..conn[c].secret /\ shop[c].checks \in BOOLEAN
  /\ \A t \in CoTabs :
       /\ ask[t].pc \in AskSteps /\ ask[t].row \in 0..MaxConns
       /\ settings[t].row \in 0..MaxConns
  /\ panel \in {"hidden", "shown", "found", "refused"}
  /\ unproved \subseteq Conns /\ crossed \subseteq Conns /\ crowded \in BOOLEAN /\ upset \subseteq CoTabs
  /\ coLeft \in [CoEvents -> Nat]

CoInit ==
  /\ planMax \in {1, 2}
  /\ conn = [c \in Conns |-> NoConn]
  /\ shop = [c \in Conns |-> [secret |-> 0, checks |-> TRUE]]
  /\ settings = [t \in CoTabs |-> NoView]
  /\ ask = [t \in CoTabs |-> NoAsk]
  /\ panel = "hidden"
  /\ unproved = {} /\ crossed = {} /\ crowded = FALSE /\ upset = {}
  /\ coLeft \in CoBounds

-----------------------------------------------------------------------------

CoUses(e) == coLeft[e] > 0 /\ coLeft' = [coLeft EXCEPT ![e] = @ - 1]
Living == {c \in Conns : conn[c].state = "live"}
Newest == IF Living = {} THEN 0 ELSE Max(Living)
Banned == {c \in Conns : conn[c].banned}
CoIdle(t) == ask[t] = NoAsk
AskAt(t, do, step) == ask[t].do = do /\ ask[t].pc = step
AskGoes(t, step) == ask' = [ask EXCEPT ![t].pc = step]
OthersUpset(t) == upset' = upset \union (CoTabs \ {t})
ViewOf(c) == [loaded |-> TRUE, row |-> c, ok |-> conn[c].ok, banned |-> conn[c].banned, secret |-> 0]

\* Both secrets sign until the window of the previous one ends.
Sends(row) == {row.secret} \union (IF row.window THEN {row.previous} ELSE {})
Accepts(c, secrets) == shop[c].checks => shop[c].secret \in secrets

-----------------------------------------------------------------------------
(* The settings page: one request at a time. *)

LoadSettings(t) ==
  /\ CoIdle(t) /\ CoUses("loads")
  /\ settings' = [settings EXCEPT ![t] = IF Newest = 0 THEN Empty ELSE ViewOf(Newest)]
  /\ upset' = upset \ {t}
  /\ UNCHANGED <<planMax, conn, shop, ask, panel, unproved, crossed, crowded>>

\* A load that fails shows the form of a new connection.
LoadSettingsFails(t) ==
  /\ CoIdle(t) /\ ~settings[t].loaded /\ CoUses("faults")
  /\ settings' = [settings EXCEPT ![t] = Empty]
  /\ upset' = upset \union {t}
  /\ UNCHANGED <<planMax, conn, shop, ask, panel, unproved, crossed, crowded>>

Presses(t, what, do, step) ==
  /\ CoIdle(t) /\ settings[t].loaded /\ CoUses(what)
  /\ ask' = [ask EXCEPT ![t] = [NoAsk EXCEPT !.do = do, !.pc = step, !.despite = Banned]]
  /\ UNCHANGED <<planMax, conn, shop, settings, panel, unproved, crossed, upset>>

PressCreate(t) ==
  /\ settings[t].row = 0 /\ Presses(t, "creates", "create", "check")
  /\ crowded' = (crowded \/ \E u \in CoTabs : ask[u].do = "create")
PressTest(t) ==
  /\ settings[t].row # 0 /\ ~settings[t].banned /\ Presses(t, "tests", "test", "read")
  /\ UNCHANGED crowded
PressRotate(t) ==
  settings[t].row # 0 /\ Presses(t, "rotations", "rotate", "read") /\ UNCHANGED crowded
PressDisconnect(t) ==
  settings[t].row # 0 /\ Presses(t, "disconnects", "disconnect", "read") /\ UNCHANGED crowded

\* Disconnected rows count: disconnecting does not lift a suspension.
CountsBans == Banned

CheckBans(t) ==
  /\ AskAt(t, "create", "check")
  /\ AskGoes(t, IF CountsBans # {} THEN "failed" ELSE "count")
  /\ UNCHANGED <<planMax, conn, shop, settings, panel, unproved, crossed, crowded, upset, coLeft>>

HasRoom(n) == n < planMax
CountConns(t) ==
  /\ AskAt(t, "create", "count")
  /\ AskGoes(t, IF HasRoom(Cardinality(Living)) THEN "insert" ELSE "failed")
  /\ UNCHANGED <<planMax, conn, shop, settings, panel, unproved, crossed, crowded, upset, coLeft>>

\* What the writes of a request leave: its answer, or the failure of its audit row.
Answered(t, result) ==
  \/ ask' = [ask EXCEPT ![t] = [result EXCEPT !.pc = "done"]] /\ UNCHANGED coLeft
  \/ ask' = [ask EXCEPT ![t] = [result EXCEPT !.pc = "failed"]] /\ CoUses("faults")

InsertConn(t) ==
  /\ AskAt(t, "create", "insert")
  /\ \E c \in Conns :
       /\ conn[c].state = "none" /\ \A d \in Conns : d < c => conn[d].state # "none"
       /\ conn' = [conn EXCEPT ![c] =
            [NoConn EXCEPT !.state = "live", !.secret = 1, !.despite = ask[t].despite]]
       /\ Answered(t, [ask[t] EXCEPT !.row = c])
  /\ OthersUpset(t)
  /\ UNCHANGED <<planMax, shop, settings, panel, unproved, crossed, crowded>>

\* The other operations read the newest connection first.
ReadConn(t) ==
  /\ \E do \in {"test", "rotate", "disconnect"} : AskAt(t, do, "read")
  /\ ask' = [ask EXCEPT ![t] =
       IF Newest = 0 \/ (ask[t].do = "test" /\ conn[Newest].banned)
       THEN [@ EXCEPT !.pc = "failed"]
       ELSE [@ EXCEPT !.pc = IF ask[t].do = "test" THEN "health" ELSE "write", !.row = Newest,
                      !.sends = IF ask[t].do = "test" THEN Sends(conn[Newest]) ELSE {conn[Newest].secret},
                      !.ok = conn[Newest].ok, !.calm = TRUE]]
  /\ UNCHANGED <<planMax, conn, shop, settings, panel, unproved, crossed, crowded, upset, coLeft>>

\* The test: a signed call that must succeed, and a badly signed one that must not.
CallHealth(t) ==
  /\ AskAt(t, "test", "health")
  /\ \/ /\ Accepts(ask[t].row, ask[t].sends)
        /\ AskGoes(t, "probe") /\ UNCHANGED coLeft
     \/ /\ ~Accepts(ask[t].row, ask[t].sends)
        /\ ask' = [ask EXCEPT ![t].pc = "write", ![t].ok = FALSE] /\ UNCHANGED coLeft
     \/ /\ CoUses("faults")
        /\ ask' = [ask EXCEPT ![t].pc = "write", ![t].ok = FALSE]
  /\ UNCHANGED <<planMax, conn, shop, settings, panel, unproved, crossed, crowded, upset>>

Passes(c) == shop[c].checks
CallBadlySigned(t) ==
  /\ AskAt(t, "test", "probe")
  /\ LET c == ask[t].row IN
     /\ \/ ask' = [ask EXCEPT ![t].pc = "write", ![t].ok = Passes(c)] /\ UNCHANGED coLeft
        \/ ask' = [ask EXCEPT ![t].pc = "write", ![t].ok = FALSE] /\ CoUses("faults")
     /\ unproved' = IF ask[t].calm /\ ask'[t].ok THEN unproved \ {c} ELSE unproved
  /\ UNCHANGED <<planMax, conn, shop, settings, panel, crossed, crowded, upset>>

\* Whatever happened to the row since it was read.
WriteTest(t) ==
  /\ AskAt(t, "test", "write")
  /\ conn' = [conn EXCEPT ![ask[t].row].ok = ask[t].ok]
  /\ Answered(t, ask[t])
  /\ OthersUpset(t)
  /\ UNCHANGED <<planMax, shop, settings, panel, unproved, crossed, crowded>>

\* The secret that was read becomes the previous one; `disturbs` is what a change of the
\* secrets or of the store system means for the tests under way.
Disturbed(c, asks) == [t \in CoTabs |-> IF asks[t].row = c THEN [asks[t] EXCEPT !.calm = FALSE] ELSE asks[t]]
Rotated(row, read) ==
  [row EXCEPT !.secret = @ + 1, !.previous = read, !.window = TRUE]
WriteRotate(t) ==
  /\ AskAt(t, "rotate", "write")
  /\ LET c == ask[t].row IN
     /\ \E read \in ask[t].sends : conn' = [conn EXCEPT ![c] = Rotated(@, read)]
     /\ crossed' = IF conn[c].secret \in ask[t].sends THEN crossed ELSE crossed \union {c}
     /\ unproved' = unproved \union {c}
     /\ \/ ask' = [Disturbed(c, ask) EXCEPT ![t] = [ask[t] EXCEPT !.pc = "done", !.sends = {conn'[c].secret}]]
           /\ UNCHANGED coLeft
        \/ ask' = [Disturbed(c, ask) EXCEPT ![t].pc = "failed"] /\ CoUses("faults")
  /\ OthersUpset(t)
  /\ UNCHANGED <<planMax, shop, settings, panel, crowded>>

\* The page will show the form of a new connection, also when an older one is left.
WriteDisconnect(t) ==
  /\ AskAt(t, "disconnect", "write")
  /\ conn' = [conn EXCEPT ![ask[t].row].state = "gone"]
  /\ Answered(t, ask[t])
  /\ IF Living \subseteq {ask[t].row} THEN OthersUpset(t) ELSE upset' = CoTabs
  /\ UNCHANGED <<planMax, shop, settings, panel, unproved, crossed, crowded>>

\* The answer reaches the page.
LandAnswer(t) ==
  /\ ask[t].pc = "done"
  /\ settings' = [settings EXCEPT ![t] =
       CASE ask[t].do = "create" -> [Empty EXCEPT !.row = ask[t].row, !.secret = 1]
         [] ask[t].do = "rotate" ->
              [@ EXCEPT !.row = ask[t].row, !.ok = ask[t].ok, !.secret = Max(ask[t].sends)]
         [] ask[t].do = "test" -> [@ EXCEPT !.ok = ask[t].ok]
         [] ask[t].do = "disconnect" -> Empty]
  /\ ask' = [ask EXCEPT ![t] = NoAsk]
  /\ UNCHANGED <<planMax, conn, shop, panel, unproved, crossed, crowded, upset, coLeft>>

\* An error is shown; what the page says stays.
LandError(t) ==
  /\ ask[t].pc = "failed"
  /\ ask' = [ask EXCEPT ![t] = NoAsk] /\ upset' = upset \union {t}
  /\ UNCHANGED <<planMax, conn, shop, settings, panel, unproved, crossed, crowded, coLeft>>

-----------------------------------------------------------------------------
(* The store system, time, and the super owner. *)

\* The merchant takes up the secret that a page shows.
TakeUpSecret(t) ==
  /\ settings[t].secret # 0
  /\ LET c == settings[t].row IN
     /\ shop[c].secret # settings[t].secret /\ CoUses("shop")
     /\ shop' = [shop EXCEPT ![c].secret = settings[t].secret]
     /\ unproved' = unproved \union {c} /\ ask' = Disturbed(c, ask)
  /\ UNCHANGED <<planMax, conn, settings, panel, crossed, crowded, upset>>

ShopChecks(c) ==
  /\ conn[c].state = "live" /\ CoUses("shop")
  /\ shop' = [shop EXCEPT ![c].checks = ~@]
  /\ unproved' = unproved \union {c} /\ ask' = Disturbed(c, ask)
  /\ UNCHANGED <<planMax, conn, settings, panel, crossed, crowded, upset>>

WindowEnds(c) ==
  /\ conn[c].window
  /\ conn' = [conn EXCEPT ![c].window = FALSE]
  /\ unproved' = unproved \union {c} /\ ask' = Disturbed(c, ask)
  /\ UNCHANGED <<planMax, shop, settings, panel, crossed, crowded, upset, coLeft>>

\* The console lists connections that are live or suspended; its list may be old.
Suspend(c) ==
  /\ conn[c].state # "none" /\ ~conn[c].banned /\ CoUses("bans")
  /\ conn' = [conn EXCEPT ![c].banned = TRUE]
  /\ upset' = CoTabs
  /\ UNCHANGED <<planMax, shop, settings, ask, panel, unproved, crossed, crowded>>

\* What was begun under a suspension is no longer begun under it.
Resume(c) ==
  /\ conn[c].banned
  /\ conn' = [d \in Conns |-> [conn[d] EXCEPT !.banned = @ /\ d # c]]
  /\ ask' = [t \in CoTabs |-> [ask[t] EXCEPT !.despite = @ \ {c}]]
  /\ upset' = CoTabs
  /\ UNCHANGED <<planMax, shop, settings, panel, unproved, crossed, crowded, coLeft>>

-----------------------------------------------------------------------------
(* The agent's panel. *)

\* The panel asks once, when it is opened for a conversation.
OpenPanel ==
  /\ CoUses("searches")
  /\ panel' = IF Newest # 0 /\ conn[Newest].ok /\ ~conn[Newest].banned THEN "shown" ELSE "hidden"
  /\ UNCHANGED <<planMax, conn, shop, settings, ask, unproved, crossed, crowded, upset>>

\* A search is one call of the store system with the row as it is read.
Serves == Newest # 0 /\ ~conn[Newest].banned /\ conn[Newest].ok
Search ==
  /\ panel # "hidden" /\ CoUses("searches")
  /\ panel' = IF Serves /\ Accepts(Newest, Sends(conn[Newest])) THEN "found" ELSE "refused"
  /\ UNCHANGED <<planMax, conn, shop, settings, ask, unproved, crossed, crowded, upset>>

CoNext ==
  \/ OpenPanel \/ Search
  \/ \E t \in CoTabs :
       \/ LoadSettings(t) \/ LoadSettingsFails(t) \/ PressCreate(t) \/ PressTest(t) \/ PressRotate(t)
       \/ PressDisconnect(t) \/ CheckBans(t) \/ CountConns(t) \/ InsertConn(t) \/ ReadConn(t) \/ CallHealth(t)
       \/ CallBadlySigned(t) \/ WriteTest(t) \/ WriteRotate(t) \/ WriteDisconnect(t) \/ LandAnswer(t)
       \/ LandError(t) \/ TakeUpSecret(t)
  \/ \E c \in Conns : ShopChecks(c) \/ WindowEnds(c) \/ Suspend(c) \/ Resume(c)

CoSpec == CoInit /\ [][CoNext]_coVars

-----------------------------------------------------------------------------
(* Properties. *)

\* No request that began while a connection was suspended, and stayed so, has created
\* another one: disconnecting and connecting again does not lift a suspension.
SuspensionStands == \A c \in Conns : conn[c].despite = {}

\* The plan's number of connections is kept, unless two were created at once.
ConnectionsInPlan == crowded \/ Cardinality(Living) <= planMax

\* The last secret that was handed out is one the API signs with, and so is the one before
\* for as long as its window lasts, unless two rotations crossed.
HeldSecretWorks ==
  \A c \in Conns \ crossed : conn[c].state # "none" =>
    /\ conn[c].secret \in Sends(conn[c])
    /\ conn[c].window => conn[c].secret - 1 \in Sends(conn[c])

\* A connection that passed its test answers signed calls and refuses others, unless its
\* system or its secrets changed since a test passed: searches of an agent rely on it.
VerifiedIsSound ==
  \A c \in Conns \ unproved : conn[c].ok => shop[c].checks /\ Accepts(c, Sends(conn[c]))

\* The settings page shows the connection there is, and what its last test said, unless it
\* was left behind.
SettingsAreTrue ==
  \A t \in CoTabs \ upset : CoIdle(t) /\ settings[t].loaded =>
    /\ settings[t].row = Newest
    /\ Newest # 0 => settings[t].ok = conn[Newest].ok /\ settings[t].banned = conn[Newest].banned

\* A connection serves searches only when it may, and can.
ConnectionHolds ==
  SuspensionStands /\ ConnectionsInPlan /\ HeldSecretWorks /\ VerifiedIsSound /\ SettingsAreTrue
=============================================================================
