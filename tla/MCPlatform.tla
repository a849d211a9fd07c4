----------------------------- MODULE MCPlatform -----------------------------
(***************************************************************************)
(* AiCredits, Knowledge, Quality, Client and Workbench, in one run.        *)
(* They work on different rows and never wait for each other; where one    *)
(* needs another (a draft costs a credit, a page shows a document) it has  *)
(* its own view of it.  So a behaviour is one of a single component, its   *)
(* part: AiCredits keeps its initial state meanwhile, and the variables of *)
(* the others are absent.                                                  *)
(***************************************************************************)
EXTENDS AiCredits, Knowledge, Quality, Client, Workbench, TLC

VARIABLE part

CONSTANTS home, other

plVars == <<vars, knVars, qaVars, clVars, wbVars, part>>

Absent == "absent"

-----------------------------------------------------------------------------
(* AiCredits: one failure of each kind. *)
OneOfEach == [plans |-> 1, faults |-> 1, crashes |-> 1]

(* Knowledge. *)
KnOnce == [pages |-> 1, reindexes |-> 2, deletes |-> 1, faults |-> 1, crashes |-> 1, edits |-> 2]

(* Quality: nights of sampling; the settings sheet, also when the guardrail is about to fire. *)
QaScenario(nights, sheets, faults, low, good) ==
  [nights |-> nights, sheets |-> sheets, faults |-> faults, low |-> low, good |-> good]
QaScenarios == {QaScenario(3, 0, 0, {}, {}),             \* from the first night
                QaScenario(2, 0, 0, {1, 3, 4}, {0}),     \* it fires, and the design would not
                QaScenario(2, 0, 0, {0, 3, 4}, {}),      \* the design would, and it does not
                QaScenario(1, 2, 1, {1, 3, 4}, {}), QaScenario(2, 1, 0, {1, 3, 4}, {})}

(* Client. *)
ClScenario(messages, unsends, drafts, selects, breaks, polls, types, generates, sends, faults, dismissals) ==
  [messages |-> messages, unsends |-> unsends, drafts |-> drafts, selects |-> selects, breaks |-> breaks,
   polls |-> polls, types |-> types, generates |-> generates, sends |-> sends, faults |-> faults,
   dismissals |-> dismissals]
Reading == ClScenario(1, 0, 0, 3, 0, 0, 0, 0, 0, 0, 0)
ClScenarios == [drafts \in BOOLEAN |->
  IF drafts
  THEN {ClScenario(1, 0, 1, 1, 0, 0, 0, 0, 0, 0, 0),    \* a draft, and a message
        ClScenario(0, 0, 2, 2, 0, 0, 0, 0, 0, 0, 0),    \* two drafts, two conversations
        ClScenario(0, 0, 1, 1, 0, 0, 1, 1, 0, 0, 0),    \* one that is asked for, and typing
        ClScenario(0, 0, 1, 1, 0, 0, 0, 0, 1, 0, 0),    \* one that is sent
        ClScenario(0, 0, 1, 1, 0, 0, 0, 1, 0, 1, 0),    \* one that is asked for fails
        ClScenario(0, 0, 2, 1, 0, 0, 0, 0, 0, 0, 1),    \* one that is dismissed
        ClScenario(0, 0, 1, 1, 0, 0, 0, 0, 0, 1, 1)}
  ELSE {Reading,
        ClScenario(1, 0, 0, 1, 0, 0, 0, 0, 1, 1, 0),    \* a reply, a message, a fault
        ClScenario(1, 1, 0, 2, 0, 0, 0, 0, 0, 0, 0),    \* a message is unsent
        ClScenario(1, 0, 0, 1, 1, 1, 0, 0, 0, 0, 0),    \* the stream breaks
        ClScenario(0, 0, 0, 2, 0, 0, 0, 0, 1, 0, 0),    \* a reply, and two conversations
        ClScenario(0, 0, 0, 1, 0, 0, 1, 1, 1, 0, 0)}]   \* one that is typed
ThreeAndOne == <<home, home, home, other>>

(* Workbench: two conversations fit a page, a third does not. *)
WbScenario(linked, status, selects, reloads, pages, arrivals, others, statuses, edits, notes, contacts, faults) ==
  [asked |-> linked, status |-> status,
   left |-> [selects |-> selects, reloads |-> reloads, pages |-> pages, arrivals |-> arrivals, others |-> others,
             statuses |-> statuses, edits |-> edits, notes |-> notes, contacts |-> contacts, faults |-> faults]]
WbScenarios == {
  WbScenario(0, "IN_PROGRESS", 1, 1, 1, 1, 0, 0, 0, 0, 0, 0),
  WbScenario(0, "OPEN", 2, 0, 0, 1, 0, 0, 0, 0, 0, 0),
  WbScenario(0, "IN_PROGRESS", 2, 0, 0, 0, 0, 0, 0, 1, 1, 0),
  WbScenario(0, "IN_PROGRESS", 2, 0, 0, 0, 0, 0, 0, 0, 1, 1),
  WbScenario(0, "RESOLVED", 1, 0, 0, 1, 0, 0, 1, 0, 0, 0),
  WbScenario(2, "IN_PROGRESS", 1, 1, 1, 0, 0, 0, 0, 0, 0, 0),
  WbScenario(3, "IN_PROGRESS", 1, 1, 0, 0, 0, 0, 0, 0, 0, 0),
  WbScenario(0, "OPEN", 1, 0, 0, 1, 1, 0, 0, 0, 0, 1),
  WbScenario(0, "IN_PROGRESS", 2, 0, 0, 0, 0, 1, 1, 0, 0, 0),
  WbScenario(0, "RESOLVED", 1, 0, 0, 1, 0, 1, 0, 0, 0, 0)}

(* The parts share their interchangeable values: the smaller the group, the faster. *)
Symmetry == Permutations(Workers)

-----------------------------------------------------------------------------

NoKnowledge ==
  /\ doc = Absent /\ chunks = Absent /\ page = Absent /\ ingestQueue = Absent /\ job = Absent
  /\ request = Absent /\ purging = Absent /\ article = Absent /\ broken = Absent /\ knLeft = Absent
NoQuality ==
  /\ day = Absent /\ replied = Absent /\ scores = Absent /\ stored = Absent /\ night = Absent
  /\ sheet = Absent /\ trail = Absent /\ qaLeft = Absent
NoClient ==
  /\ hybrid = Absent /\ log = Absent /\ draft = Absent /\ stream = Absent /\ open = Absent
  /\ thread = Absent /\ fetches = Absent /\ bar = Absent /\ asks = Absent /\ calls = Absent
  /\ clLeft = Absent
NoWorkbench ==
  /\ order = Absent /\ row = Absent /\ list = Absent /\ sel = Absent /\ asked = Absent
  /\ side = Absent /\ dialog = Absent /\ loads = Absent /\ looks = Absent /\ changes = Absent
  /\ crossed = Absent /\ raced = Absent /\ jumped = Absent /\ astray = Absent /\ wbLeft = Absent

-----------------------------------------------------------------------------

PlatformInit ==
  \/ /\ part = "credits" /\ Init
     /\ NoKnowledge /\ NoQuality /\ NoClient /\ NoWorkbench
  \/ /\ part = "knowledge" /\ KnInit /\ Init /\ limit = 0
     /\ NoQuality /\ NoClient /\ NoWorkbench
  \/ /\ part = "quality" /\ QaInit /\ Init /\ limit = 0
     /\ NoKnowledge /\ NoClient /\ NoWorkbench
  \/ /\ part = "client" /\ ClInit /\ Init /\ limit = 0
     /\ NoKnowledge /\ NoQuality /\ NoWorkbench
  \/ /\ part = "workbench" /\ WbInit /\ Init /\ limit = 0
     /\ NoKnowledge /\ NoQuality /\ NoClient

PlatformNext ==
  \/ part = "credits" /\ Next /\ UNCHANGED <<knVars, qaVars, clVars, wbVars, part>>
  \/ part = "knowledge" /\ KnNext /\ UNCHANGED <<vars, qaVars, clVars, wbVars, part>>
  \/ part = "quality" /\ QaNext /\ UNCHANGED <<vars, knVars, clVars, wbVars, part>>
  \/ part = "client" /\ ClNext /\ UNCHANGED <<vars, knVars, qaVars, wbVars, part>>
  \/ part = "workbench" /\ WbNext /\ UNCHANGED <<vars, knVars, qaVars, clVars, part>>

PlatformSpec == PlatformInit /\ [][PlatformNext]_plVars

-----------------------------------------------------------------------------

\* The part that moves keeps to its types.
TypesOK ==
  /\ TypeOK
  /\ part = "knowledge" => KnTypeOK
  /\ part = "quality" => QaTypeOK
  /\ part = "client" => ClTypeOK
  /\ part = "workbench" => WbTypeOK

\* What was ingested in peace is what answers quote.
IngestedIsQuoted == part = "knowledge" => SettledDocumentIsIndexed

\* The guardrail decides as its design would, but for the day its windows leave out, and its
\* notice is up only while auto-reply is off.
GuardrailStands == part = "quality" => QualityHolds

\* The inbox page shows the open conversation, whole, and offers its draft.
InboxIsRight == part = "client" => PageHolds

\* The list, the panel and the question are those of the open conversation.
BenchIsRight == part = "workbench" => BenchHolds

\* What was deleted is not quoted.
DeletedStaysUnquoted == [][part = "knowledge" => QuotesNothingDeleted]_plVars
=============================================================================
