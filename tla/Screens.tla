------------------------------ MODULE Screens -------------------------------
(***************************************************************************)
(* The list screens of the web application (apps/web/app, components): a   *)
(* choice (channel, tab, period, workspace), a list loaded for it, a form, *)
(* and calls that change a row and then load the list again.  Answers may  *)
(* come in any order, and no screen tells an old answer from a new one.    *)
(* The screens share one way of working and differ in a few traits.        *)
(***************************************************************************)
EXTENDS Integers, FiniteSets

CONSTANTS
  Rows,       \* the rows a screen may show
  FirstPlace,       \* the place a screen starts with
  Places,     \* what a screen chooses from: channels, tabs, periods, workspaces
  ScBounds    \* the scenarios: how often each thing happens

ASSUME ScreensAssumption ==
  /\ FirstPlace \in Places
  /\ {"all", "shared"} \cap Places = {} /\ {"none", "new"} \cap Rows = {}

VARIABLES
  screen,    \* the screen in use
  row,       \* the rows as the API holds them: yet to come, alive or gone for good, and where
  choice,    \* what is chosen
  list,      \* the list shown: its rows, what it was loaded for
  spinner,   \* is the list marked as loading
  loads,     \* the loads under way
  form,      \* what the form is open on, and what has been typed
  writes,    \* the calls under way that change something
  harm,      \* has typed text been lost, a row moved unasked, a form left on a deleted row
  scLeft

scVars == <<screen, row, choice, list, spinner, loads, form, writes, harm, scLeft>>

Everywhere == "all"        \* the choice that shows every place
Shared == "shared"         \* a row of no place in particular
NoLoad == [of |-> Everywhere, got |-> "none"]
NoWrite == [on |-> "none"]
NoForm == [on |-> "none"]
LoadSlots == 1..3
WriteSlots == {"save", "remove", "act"}

-----------------------------------------------------------------------------
(* The screens: what each can do, and how it differs.                       *)

Reads == [does |-> {}, every |-> FALSE, hides |-> TRUE, emptied |-> FALSE, polls |-> FALSE,
          stops |-> FALSE, closes |-> FALSE, resets |-> FALSE, sends |-> {}, retries |-> FALSE, local |-> FALSE]

ScenarioScreen == [Reads EXCEPT !.does = {"create", "edit", "delete"}, !.every = TRUE, !.emptied = TRUE, !.closes = TRUE]
AutomationScreen == [ScenarioScreen EXCEPT !.hides = FALSE]
ArticleScreen == [ScenarioScreen EXCEPT !.hides = FALSE, !.stops = TRUE]
DocumentScreen == [Reads EXCEPT !.does = {"create", "delete", "act"}, !.every = TRUE, !.emptied = TRUE]
ReplyScreen == [Reads EXCEPT !.does = {"create", "edit", "delete"}, !.hides = FALSE, !.stops = TRUE, !.resets = TRUE,
                             !.sends = {"save"}]
CurationScreen == [Reads EXCEPT !.does = {"edit", "delete", "act"}]
ChannelScreen == [Reads EXCEPT !.does = {"create", "edit", "delete"}, !.hides = FALSE, !.local = TRUE]
TeamScreen == [Reads EXCEPT !.does = {"create", "delete", "act"}, !.hides = FALSE,
                            !.sends = {"save", "remove", "act"}]
BroadcastScreen == [Reads EXCEPT !.does = {"create", "delete"}, !.hides = FALSE, !.polls = TRUE, !.retries = TRUE,
                                 !.sends = {"save", "remove"}]
SlipScreen == Reads
ReportScreen == Reads
AuditScreen == [Reads EXCEPT !.emptied = TRUE]
SlipPanelScreen == [Reads EXCEPT !.emptied = TRUE]
NoteScreen == [Reads EXCEPT !.does = {"create"}, !.hides = FALSE, !.resets = TRUE, !.sends = {"save"}]
QaScreen == [Reads EXCEPT !.does = {"act"}]
TenantScreen == [Reads EXCEPT !.does = {"create", "act"}]
IntegrationScreen == [Reads EXCEPT !.does = {"act"}, !.hides = FALSE]
BackupScreen == [Reads EXCEPT !.does = {"act"}]
AiMonitorScreen == [Reads EXCEPT !.polls = TRUE, !.hides = FALSE]
FlowMonitorScreen == [Reads EXCEPT !.polls = TRUE, !.hides = FALSE]

(* Screens that chose nothing show one place; screens with equal traits behave alike. *)
Screens == {ScenarioScreen, AutomationScreen, ArticleScreen, DocumentScreen, ReplyScreen, CurationScreen,
            ChannelScreen, TeamScreen, BroadcastScreen, SlipScreen, ReportScreen, AuditScreen,
            SlipPanelScreen, NoteScreen, QaScreen,
            TenantScreen, IntegrationScreen, BackupScreen, AiMonitorScreen, FlowMonitorScreen}

-----------------------------------------------------------------------------
(* What the API answers: the rows of a place, and on the screens that can   *)
(* show every place the shared ones too.                                    *)

Alive(r) == row[r].life = "alive"
Listed(of) ==
  {r \in Rows : Alive(r) /\ (of = Everywhere \/ row[r].at = of \/ (screen.every /\ row[r].at = Shared))}
AnswerTo(of) == [r \in Listed(of) |-> row[r].at]

Selectable == IF screen.every THEN Places \union {Everywhere} ELSE Places
ScUses(what) == scLeft[what] > 0 /\ scLeft' = [scLeft EXCEPT ![what] = @ - 1]

Busy == \E s \in WriteSlots : writes[s] # NoWrite
FreeLoads == {n \in LoadSlots : loads[n] = NoLoad}
NextLoad == CHOOSE n \in FreeLoads : \A k \in FreeLoads : n <= k

\* A load for a choice, which clears the error shown; frees is the call that waits for it. Every answer before it is an older one.
Loading(of, frees) ==
  [[n \in LoadSlots |-> IF loads[n] = NoLoad THEN NoLoad ELSE [loads[n] EXCEPT !.newest = FALSE]]
    EXCEPT ![NextLoad] = [of |-> of, got |-> "pending", rows |-> <<>>, frees |-> frees, newest |-> TRUE]]
Load(of, frees) ==
  /\ FreeLoads # {}
  /\ loads' = Loading(of, frees)
  /\ list' = [list EXCEPT !.newest = FALSE, !.failed = FALSE]

-----------------------------------------------------------------------------

ScTypeOK ==
  /\ screen \in Screens /\ choice \in Selectable /\ spinner \in BOOLEAN
  /\ row \in [Rows -> [life : {"unborn", "alive", "gone"}, at : Places \union {Shared}]]
  /\ DOMAIN list.rows \subseteq Rows /\ list.of \in Selectable
  /\ \A n \in LoadSlots : loads[n] # NoLoad => loads[n].of \in Selectable /\ loads[n].got \in {"pending", "rows", "failed"}
  /\ form.on \in Rows \union {"none", "new"}
  /\ \A s \in WriteSlots : writes[s] # NoWrite =>
       writes[s].on \in Rows \union {"new"} /\ writes[s].got \in {"pending", "done", "failed", "reload"}
  /\ harm \subseteq {"lost", "orphaned", "moved"}

ScInit ==
  /\ screen \in Screens
  /\ scLeft \in ScBounds
  /\ row \in [Rows -> [life : {"unborn", "alive"}, at : Places \union {Shared}]]
  /\ \A r \in Rows : row[r].at = Shared => screen.every /\ Alive(r)
  /\ choice = IF screen.every THEN Everywhere ELSE FirstPlace
  /\ list = [rows |-> <<>>, of |-> choice, newest |-> FALSE, late |-> FALSE, failed |-> FALSE]
  /\ spinner = TRUE
  /\ loads = [n \in LoadSlots |-> IF n = 1 THEN [of |-> choice, got |-> "pending", rows |-> <<>>, frees |-> "none",
                                                    newest |-> TRUE]
                                  ELSE NoLoad]
  /\ form = NoForm
  /\ writes = [s \in WriteSlots |-> NoWrite]
  /\ harm = {}

\* Another choice loads its list, whatever is under way; only the quick replies close the form.
Choose(c) ==
  /\ c # choice /\ ScUses("choices")
  /\ choice' = c /\ spinner' = TRUE
  /\ Load(c, "none")
  /\ form' = IF screen.resets THEN NoForm ELSE form
  /\ UNCHANGED <<screen, row, writes, harm>>

\* The poll of the broadcasts and the monitors does not wait for the answer before.
Poll ==
  /\ screen.polls /\ ScUses("polls")
  /\ Load(choice, "none")
  /\ UNCHANGED <<screen, row, choice, spinner, form, writes, harm>>

ServeLoad(n) ==
  /\ loads[n].got = "pending"
  /\ \/ loads' = [loads EXCEPT ![n].got = "rows", ![n].rows = AnswerTo(loads[n].of)] /\ UNCHANGED scLeft
     \/ loads' = [loads EXCEPT ![n].got = "failed"] /\ ScUses("faults")
  /\ UNCHANGED <<screen, row, choice, list, spinner, form, writes, harm>>

\* An answer is shown whatever has been chosen or answered since.
Shows(load) ==
  IF load.got # "failed"
  THEN [rows |-> load.rows, of |-> load.of, newest |-> load.newest, late |-> load.frees # "none" /\ load.of # choice,
        failed |-> list.failed]
  ELSE [list EXCEPT !.rows = IF screen.emptied THEN <<>> ELSE @, !.failed = TRUE]
LandLoad(n) ==
  /\ loads[n] # NoLoad /\ loads[n].got # "pending"
  /\ list' = Shows(loads[n]) /\ spinner' = FALSE
  /\ loads' = [loads EXCEPT ![n] = NoLoad]
  /\ writes' = [s \in WriteSlots |-> IF s = loads[n].frees THEN NoWrite ELSE writes[s]]
  /\ UNCHANGED <<screen, row, choice, form, harm, scLeft>>

-----------------------------------------------------------------------------
(* The form. *)

OnScreen(r) == r \in DOMAIN list.rows /\ ~(screen.hides /\ spinner)

OpenNew ==
  /\ "create" \in screen.does /\ form = NoForm /\ ScUses("opens")
  /\ form' = [on |-> "new", at |-> Shared, was |-> Shared, typed |-> FALSE, late |-> Busy, astray |-> FALSE]
  /\ UNCHANGED <<screen, row, choice, list, spinner, loads, writes, harm>>

\* The row as the list has it; what the form held before is gone.
OpenRow(r) ==
  /\ "edit" \in screen.does /\ OnScreen(r) /\ form.on # r /\ ScUses("opens")
  /\ form' = [on |-> r, at |-> list.rows[r], was |-> list.rows[r], typed |-> FALSE, late |-> Busy,
              astray |-> list.of # choice]
  /\ UNCHANGED <<screen, row, choice, list, spinner, loads, writes, harm>>

Type(at) ==
  /\ form # NoForm /\ at \in (IF screen.every THEN Places \union {Shared} ELSE {form.at})
  /\ form' = [form EXCEPT !.at = at, !.typed = TRUE, !.late = @ \/ Busy]
  /\ UNCHANGED <<screen, row, choice, list, spinner, loads, writes, harm, scLeft>>

CloseForm ==
  /\ form # NoForm /\ form' = NoForm
  /\ UNCHANGED <<screen, row, choice, list, spinner, loads, writes, harm, scLeft>>

-----------------------------------------------------------------------------
(* The calls. *)

\* A call carries what was chosen, and which row was being edited, when it was pressed.
Pressed(on, at, was, astray) ==
  [on |-> on, at |-> at, was |-> was, astray |-> astray, of |-> choice, editing |-> form.on, got |-> "pending"]
Presses(slot, call) ==
  /\ ScUses("writes")
  /\ writes[slot] = NoWrite
  /\ writes' = [writes EXCEPT ![slot] = call]
  /\ UNCHANGED <<screen, row, choice, list, spinner, loads, form, harm>>

PressSave ==
  /\ form.on # "none" /\ form.typed
  /\ (screen.stops => writes["remove"] = NoWrite)
  /\ Presses("save", Pressed(form.on, form.at, form.was, form.astray))
PressDelete(r) ==
  /\ "delete" \in screen.does /\ OnScreen(r)
  /\ (screen.stops => writes["save"] = NoWrite)
  /\ Presses("remove", Pressed(r, Shared, Shared, FALSE))
PressAct(r) ==
  /\ "act" \in screen.does /\ OnScreen(r)
  /\ Presses("act", Pressed(r, Shared, Shared, FALSE))

\* A place left empty is not sent, and keeps the row where it was; the quick replies send the choice.
Placed(call) ==
  IF "save" \in screen.sends THEN call.of
  ELSE IF call.at # Shared THEN call.at
  ELSE IF call.on = "new" THEN Shared ELSE row[call.on].at

\* The API's part of a call: a row that is gone, or not at the place the call names, is refused.
Found(slot) ==
  LET call == writes[slot] IN
  Alive(call.on) /\ (slot # "save" /\ slot \in screen.sends => row[call.on].at = call.of)
Effect(slot) ==
  LET call == writes[slot] IN
  IF call.on = "new"
  THEN \E r \in {r \in Rows : row[r].life = "unborn"} :
         row' = [row EXCEPT ![r] = [life |-> "alive", at |-> Placed(call)]] /\ UNCHANGED harm
  ELSE /\ Found(slot)
       /\ \/ slot = "save" /\ row' = [row EXCEPT ![call.on].at = Placed(call)]
             /\ harm' = IF Placed(call) \in {call.was, call.at, row[call.on].at} \/ call.astray THEN harm
                        ELSE harm \union {"moved"}
          \/ slot = "remove" /\ row' = [row EXCEPT ![call.on].life = "gone"] /\ UNCHANGED harm
          \/ slot = "act" /\ UNCHANGED <<row, harm>>

\* It is done, or done with the answer lost, or refused.
ServeWrite(slot) ==
  /\ writes[slot] # NoWrite /\ writes[slot].got = "pending"
  /\ \/ Effect(slot) /\ writes' = [writes EXCEPT ![slot].got = "done"] /\ UNCHANGED scLeft
     \/ Effect(slot) /\ writes' = [writes EXCEPT ![slot].got = "failed"] /\ ScUses("faults")
     \/ /\ writes[slot].on \in Rows /\ ~Found(slot)
        /\ writes' = [writes EXCEPT ![slot].got = "failed"] /\ UNCHANGED <<row, harm, scLeft>>
  /\ UNCHANGED <<screen, choice, list, spinner, loads, form>>

Dropping(rows, r) == [k \in DOMAIN rows \ {r} |-> rows[k]]

\* The channels change their list in place, the other screens load theirs again. A save that went through
\* closes the form, whatever it is open on by then; a delete closes it on the row that was
\* being edited when it was pressed.
ClosedBy(slot) ==
  \/ slot = "save"
  \/ slot = "remove" /\ screen.closes /\ writes[slot].editing = writes[slot].on
LandWrite(slot) ==
  /\ writes[slot] # NoWrite /\ writes[slot].got = "done"
  /\ IF screen.local /\ writes[slot].on # "new"
     THEN /\ list' = IF slot = "remove" THEN [list EXCEPT !.rows = Dropping(@, writes[slot].on)] ELSE list
          /\ loads' = [n \in LoadSlots |-> IF loads[n] = NoLoad THEN NoLoad ELSE [loads[n] EXCEPT !.newest = FALSE]]
          /\ writes' = [writes EXCEPT ![slot] = NoWrite] /\ UNCHANGED spinner
     ELSE /\ Load(writes[slot].of, slot) /\ spinner' = TRUE
          /\ writes' = [writes EXCEPT ![slot].got = "reload"]
  /\ IF ClosedBy(slot)
     THEN /\ form' = NoForm
          /\ harm' = IF form.on \notin {"none", writes[slot].on} /\ form.typed /\ ~form.late
                     THEN harm \union {"lost"} ELSE harm
     ELSE /\ UNCHANGED form
          /\ harm' = IF slot = "remove" /\ screen.closes /\ form.on = writes[slot].on /\ ~form.late
                     THEN harm \union {"orphaned"} ELSE harm
  /\ UNCHANGED <<screen, row, choice, scLeft>>

\* A failed call shows an error; the broadcasts load the list again all the same.
WriteFails(slot) ==
  /\ writes[slot] # NoWrite /\ writes[slot].got = "failed"
  /\ IF screen.retries /\ slot = "remove"
     THEN /\ Load(writes[slot].of, slot)
          /\ writes' = [writes EXCEPT ![slot].got = "reload"]
     ELSE /\ writes' = [writes EXCEPT ![slot] = NoWrite]
          /\ list' = [list EXCEPT !.failed = TRUE] /\ UNCHANGED loads
  /\ UNCHANGED <<screen, row, choice, spinner, form, harm, scLeft>>

-----------------------------------------------------------------------------

ScNext == \/ \E c \in Selectable : Choose(c)
          \/ Poll
          \/ \E n \in LoadSlots : ServeLoad(n) \/ LandLoad(n)
          \/ OpenNew \/ CloseForm \/ PressSave
          \/ \E at \in Places \union {Shared} : Type(at)
          \/ \E r \in Rows : OpenRow(r) \/ PressDelete(r) \/ PressAct(r)
          \/ \E slot \in WriteSlots : ServeWrite(slot) \/ LandWrite(slot) \/ WriteFails(slot)

ScSpec == ScInit /\ [][ScNext]_scVars

-----------------------------------------------------------------------------
(* Properties. *)

Settled == ~Busy /\ \A n \in LoadSlots : loads[n] = NoLoad

\* Once nothing is under way a list shows exactly the rows of the choice, unless an error is
\* shown, an older answer came last, or the choice changed between a call and its reload.
ListFollowsTheChoice ==
  Settled /\ list.newest /\ ~list.late /\ ~list.failed
    => list.of = choice /\ list.rows = AnswerTo(choice)

\* Text typed while no call was under way is not wiped by the answer of a call; the form is
\* not left open on a row its user has deleted (on the screens whose delete looks at the
\* form); a row does not change its channel unless its user asked, or opened it from the list
\* of another choice.
NothingIsHarmed == harm = {}

ScreensHold == ListFollowsTheChoice /\ NothingIsHarmed
=============================================================================
