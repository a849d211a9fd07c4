-------------------------- MODULE MCConversations --------------------------
(***************************************************************************)
(* Inbound, Desk, Drafts, Slips, Access, Screens, Scenarios and Rules,     *)
(* checked in one run.                                                     *)
(* They work on different rows, write none of each other's and never wait  *)
(* for each other; where one needs another (a draft is made for a stored   *)
(* message, a slip is one) it has its own view of it.  So a behaviour is   *)
(* one of a single component, its part, and the variables of the others    *)
(* are absent.                                                             *)
(***************************************************************************)
EXTENDS Inbound, Desk, Drafts, Slips, Access, Screens, Scenarios, Rules, TLC

VARIABLE part

CONSTANTS m1, m2, first, again, ann, bob

coVars == <<inVars, dkVars, dfVars, slVars, axVars, scVars, snVars, ruVars, part>>

Absent == "absent"

-----------------------------------------------------------------------------
(* Inbound: a new customer writes twice, and unsends the first message while *)
(* LINE delivers it again.                                                   *)

event(type, m) == [type |-> type, id |-> m]
Requests == [d \in {first, again} |->
  IF d = first
  THEN <<event("follow", m1), event("message", m1), event("message", m2)>>
  ELSE <<event("unsend", m1), event("message", m1), event("unfollow", m1)>>]
Twice == [[e \in InEvents |-> 1] EXCEPT !["status"] = 2, !["all"] = 2]

(* Desk: an administrator and an agent. *)
TheRoles == [u \in {ann, bob} |-> IF u = ann THEN "ADMIN" ELSE "AGENT"]

(* Drafts. *)
Scenario(messages, replies, rules, asks, verdicts, switches, faults, crashes) ==
  [messages |-> messages, replies |-> replies, rules |-> rules, asks |-> asks, verdicts |-> verdicts,
   switches |-> switches, faults |-> faults, crashes |-> crashes]
Quiet == Scenario(2, 0, 0, 0, 0, 0, 1, 1)        \* two messages, a crash, a fault
Served == Scenario(2, 1, 0, 0, 1, 0, 1, 0)       \* two, one of them answered, and a fault
Ruled == Scenario(1, 0, 1, 0, 0, 0, 1, 0)        \* one that an automation answers
Switched == Scenario(1, 1, 0, 0, 0, 2, 0, 1)     \* the drafts go off and on again
Asked == Scenario(1, 1, 0, 1, 1, 0, 1, 0)        \* a suggestion that an agent asks for
AskedEarly == Scenario(2, 0, 0, 1, 0, 0, 0, 0)    \* and that two messages overtake
DfScenarios == {Quiet, Served, Ruled, Switched, Asked, AskedEarly}

(* Screens; beside a choice, a row and a change, the other row is yet to come. *)
ScScenario(choices, polls, opens, changes, faults) ==
  [choices |-> choices, polls |-> polls, opens |-> opens, writes |-> changes, faults |-> faults]
ScScenarios == {ScScenario(2, 0, 0, 0, 1),
                ScScenario(1, 0, 1, 1, 0),
                ScScenario(0, 0, 2, 1, 0), ScScenario(0, 0, 1, 2, 0),
                ScScenario(0, 0, 1, 1, 1),
                ScScenario(0, 2, 0, 1, 1)}

(* Scenarios: hours; the order of rows; actions applied once, twice, beside agents. *)
SnRow(terms, named, since, till, rank, actions) ==
  [on |-> TRUE, here |-> TRUE, words |-> terms, labels |-> named, from |-> since, till |-> till, rank |-> rank,
   label |-> actions[1], member |-> actions[2], prio |-> actions[3], escalate |-> actions[4]]
SnScenario(table, on, terms, earlier, others, now, events) ==
  [rows |-> table, enabled |-> on, words |-> terms, before |-> earlier, elsewhere |-> others, hour |-> now,
   left |-> [e \in SnEvents |-> Cardinality({i \in DOMAIN events : events[i] = e})]]
Silent == <<NoLabel, NoOne, "unset", FALSE>>
Tagging == <<"vip", NoOne, "unset", TRUE>>
Routing == <<"vip", ann, "URGENT", TRUE>>
Rerouting == <<"sale", bob, "LOW", FALSE>>
SnWindows == {<<8, 17>>, <<22, 6>>, <<8, 8>>, <<NoHour, 6>>, <<8, NoHour>>}
SnHours == {SnScenario(<<SnRow({"price"}, {}, w[1], w[2], 1, Silent), SnRow({"price"}, {}, NoHour, NoHour, 1, Silent)>>,
                       TRUE, {"price"}, {}, {}, h, <<"inbound">>) : w \in SnWindows, h \in {0, 6, 7, 8, 17, 21, 22}}
SnRanks == {SnScenario(<<SnRow({"price"}, {}, NoHour, NoHour, r, Silent), SnRow({"price"}, {"vip"}, NoHour, NoHour, 1, Silent),
                         [SnRow({"refund"}, {}, NoHour, NoHour, 0, Silent) EXCEPT !.on = on],
                         [SnRow({}, {"sale"}, NoHour, NoHour, 0, Silent) EXCEPT !.here = on],
                         SnRow({}, {}, NoHour, NoHour, 0, Silent)>>,
                       e, {"price"}, {"refund"}, {"sale"}, 8, <<"inbound", "ask">>) : r \in {0, 1, 2}, on \in BOOLEAN, e \in BOOLEAN}
SnWork(actions, others, events) ==
  SnScenario(<<SnRow({"price"}, {}, NoHour, NoHour, 1, actions), SnRow({"price"}, {"sale"}, NoHour, NoHour, 0, others)>>,
             TRUE, {"price"}, {}, {}, 8, events)
SnScenarios == SnHours \union SnRanks \union
  {SnWork(Routing, Rerouting, <<"inbound", "agents", "agents">>), SnWork(Routing, Rerouting, <<"inbound", "ask">>),
   SnWork(Tagging, Silent, <<"inbound", "inbound", "agents">>), SnWork(Tagging, Rerouting, <<"inbound", "deletes">>),
   SnWork(Routing, Tagging, <<"draft", "inbound">>), SnWork(Silent, Routing, <<"draft", "leaves">>),
   SnWork(Routing, Silent, <<"ask", "faults">>)}

(* Rules: a form filled in and saved; opened again; beside another page. *)
RuScenario(opens, templates, changes, saves, deletes) ==
  [opens |-> opens, templates |-> templates, changes |-> changes, saves |-> saves, deletes |-> deletes]
RuScenarios == {RuScenario(0, 0, 3, 1, 0), RuScenario(1, 1, 2, 2, 1), RuScenario(2, 1, 1, 3, 1)}

(* The parts share their interchangeable values: the smaller the group, the faster. *)
Symmetry == Permutations(Tags) \union Permutations(Images)

-----------------------------------------------------------------------------

NoInbound ==
  /\ channel = Absent /\ owner = Absent /\ conv = Absent /\ thread = Absent /\ unread = Absent
  /\ erased = Absent /\ job = Absent /\ desk = Absent /\ told = Absent /\ crossed = Absent
  /\ missed = Absent /\ handled = Absent /\ inLeft = Absent
NoDesk ==
  /\ tag = Absent /\ link = Absent /\ note = Absent /\ reply = Absent /\ holder = Absent
  /\ priority = Absent /\ member = Absent /\ call = Absent /\ dkLeft = Absent
NoDrafts ==
  /\ setting = Absent /\ said = Absent /\ pushed = Absent /\ sugg = Absent /\ rate = Absent
  /\ timer = Absent /\ flow = Absent /\ human = Absent /\ marred = Absent /\ dfLeft = Absent
NoSlips ==
  /\ picture = Absent /\ checks = Absent /\ begun = Absent /\ task = Absent
  /\ verifications = Absent /\ quota = Absent /\ known = Absent /\ billed = Absent
  /\ cooling = Absent /\ tags = Absent /\ links = Absent /\ verdictsTold = Absent
  /\ slLost = Absent /\ slLeft = Absent
NoAccess ==
  /\ mine = Absent /\ unclosed = Absent /\ console = Absent /\ token = Absent /\ outdated = Absent
  /\ display = Absent /\ axLeft = Absent
NoScreens ==
  /\ screen = Absent /\ row = Absent /\ choice = Absent /\ list = Absent /\ spinner = Absent
  /\ loads = Absent /\ form = Absent /\ writes = Absent /\ harm = Absent /\ scLeft = Absent
NoScenarios ==
  /\ setup = Absent /\ labels = Absent /\ worn = Absent /\ inCharge = Absent /\ prio = Absent
  /\ staff = Absent /\ ap = Absent /\ stirred = Absent /\ snLeft = Absent
NoRules ==
  /\ saved = Absent /\ page = Absent /\ shown = Absent /\ ruLeft = Absent

-----------------------------------------------------------------------------

ConversationsInit ==
  \/ /\ part = "inbound" /\ InInit
     /\ NoDesk /\ NoDrafts /\ NoSlips /\ NoAccess /\ NoScreens /\ NoScenarios /\ NoRules
  \/ /\ part = "desk" /\ DkInit
     /\ NoInbound /\ NoDrafts /\ NoSlips /\ NoAccess /\ NoScreens /\ NoScenarios /\ NoRules
  \/ /\ part = "drafts" /\ DfInit
     /\ NoInbound /\ NoDesk /\ NoSlips /\ NoAccess /\ NoScreens /\ NoScenarios /\ NoRules
  \/ /\ part = "slips" /\ SlInit
     /\ \A m \in Images : picture[m].fields = IF checks THEN {"bankName", "amount", "dateTime"} ELSE {"bankName", "amount"}
     /\ NoInbound /\ NoDesk /\ NoDrafts /\ NoAccess /\ NoScreens /\ NoScenarios /\ NoRules
  \/ /\ part = "access" /\ AxInit
     /\ NoInbound /\ NoDesk /\ NoDrafts /\ NoSlips /\ NoScreens /\ NoScenarios /\ NoRules
  \/ /\ part = "screens" /\ ScInit
     /\ scLeft["choices"] = 1 => \E r \in Rows : ~Alive(r)
     /\ NoInbound /\ NoDesk /\ NoDrafts /\ NoSlips /\ NoAccess /\ NoScenarios /\ NoRules
  \/ /\ part = "scenarios" /\ SnInit
     /\ NoInbound /\ NoDesk /\ NoDrafts /\ NoSlips /\ NoAccess /\ NoScreens /\ NoRules
  \/ /\ part = "rules" /\ RuInit
     /\ NoInbound /\ NoDesk /\ NoDrafts /\ NoSlips /\ NoAccess /\ NoScreens /\ NoScenarios

ConversationsNext ==
  \/ part = "inbound" /\ InNext /\ UNCHANGED <<dkVars, dfVars, slVars, axVars, scVars, snVars, ruVars, part>>
  \/ part = "desk" /\ DkNext /\ UNCHANGED <<inVars, dfVars, slVars, axVars, scVars, snVars, ruVars, part>>
  \/ part = "drafts" /\ DfNext /\ UNCHANGED <<inVars, dkVars, slVars, axVars, scVars, snVars, ruVars, part>>
  \/ part = "slips" /\ SlNext /\ UNCHANGED <<inVars, dkVars, dfVars, axVars, scVars, snVars, ruVars, part>>
  \/ part = "access" /\ AxNext /\ UNCHANGED <<inVars, dkVars, dfVars, slVars, scVars, snVars, ruVars, part>>
  \/ part = "screens" /\ ScNext /\ UNCHANGED <<inVars, dkVars, dfVars, slVars, axVars, snVars, ruVars, part>>
  \/ part = "scenarios" /\ SnNext /\ UNCHANGED <<inVars, dkVars, dfVars, slVars, axVars, scVars, ruVars, part>>
  \/ part = "rules" /\ RuNext /\ UNCHANGED <<inVars, dkVars, dfVars, slVars, axVars, scVars, snVars, part>>

ConversationsSpec == ConversationsInit /\ [][ConversationsNext]_coVars

-----------------------------------------------------------------------------

\* The part that moves keeps to its types.
TypesOK ==
  /\ part = "inbound" => InTypeOK
  /\ part = "desk" => DkTypeOK
  /\ part = "drafts" => DfTypeOK
  /\ part = "slips" => SlTypeOK
  /\ part = "access" => AxTypeOK
  /\ part = "screens" => ScTypeOK
  /\ part = "scenarios" => SnTypeOK
  /\ part = "rules" => RuTypeOK

\* What LINE handed over is stored, and handled again only after a failure.
DeliveriesAreHandled == part = "inbound" => AcceptedIsStored /\ HandledAgainAfterFailure

\* The thread, its unread count and its status tell what happened to it.
ThreadIsTrue == part = "inbound" => UnsentIsHidden /\ ReadWasTold /\ MessageReopens /\ StartMatchesStatus

\* An answer about a tag of the conversation was true while it was made.
LinksAreTrue == part = "desk" => LinkAnswersAreTrue

\* A draft is made for who waits, offered to who has not answered, and counted for a while.
DraftsAreTimely == part = "drafts" => OfferIsUnanswered /\ DraftsCatchUp /\ CountersExpire

\* A transfer is accepted once, and what is billed is within the quota.
TransfersCountOnce == part = "slips" => TransferAcceptedOnce /\ QuotaNearlyKept

\* What a member sees and may do follows the role he has; a list shows what was chosen, and
\* no answer harms a form.
PagesAreRight ==
  /\ part = "access" => AccessIsRight
  /\ part = "screens" => ScreensHold

\* A scenario that is applied is the right one, and takes effect; a rule is as its form shows.
ScenariosAndRulesHold ==
  /\ part = "scenarios" => ScenariosHold
  /\ part = "rules" => RulesHold

\* What was deleted at the desk is not shown again.
GoneStaysGone == [][part = "desk" => ShowsNothingDeleted]_coVars
=============================================================================
