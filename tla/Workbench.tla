----------------------------- MODULE Workbench -----------------------------
(***************************************************************************)
(* An agent's inbox page around the thread (apps/web/app/app/inbox:        *)
(* inbox-client.tsx, useConversations, useCustomerPanel; CustomerPanel):   *)
(* the list of conversations, loaded page by page and loaded again by      *)
(* every event and every minute; the one that is open; the panel of its    *)
(* customer, loaded whenever the open row changes; and the changes an      *)
(* agent makes.  Requests are sent, served and answered; answers come in   *)
(* any order, and none is compared with the conversation that is open by   *)
(* then.  The thread and the composer are in Client.                       *)
(***************************************************************************)
EXTENDS Integers, Sequences, FiniteSets

CONSTANTS
  WbSize,       \* how many conversations there are, each with a customer of its own
  WbPage,       \* rows of a page of the list
  WbBounds      \* the scenarios: how often what happens, what status the conversations have at
                \* first, and the conversation of the link that opened the page

WbEvents == {"selects", "reloads", "pages", "arrivals", "others", "statuses", "edits", "notes", "contacts", "faults"}
\* Numbered from the one with the latest message as the page is opened.
WbConvs == 1..WbSize
NoRow == 0
Statuses == {"OPEN", "IN_PROGRESS", "RESOLVED"}

ASSUME WorkbenchAssumption ==
  WbSize \in Nat /\ WbPage \in Nat \ {0}
  /\ WbBounds \subseteq [left : [WbEvents -> Nat], status : Statuses, asked : WbConvs \union {NoRow}]

VARIABLES
  order,     \* the conversations, the one with the latest message first
  row,       \* by conversation: its status, a mark that stands for name, assignee, priority
             \* and tags, how many notes, and for which customer its phone was typed
  list,      \* what the page lists, and whether it offers older ones
  sel,       \* the conversation that is open
  asked,     \* the conversation the page was opened for by a link
  side,      \* the panel: notes, phone, and the phone field
  dialog,    \* the conversation of which unanswered messages were counted before it is resolved
  loads,     \* loads of the list under way
  looks,     \* loads of the panel under way
  changes,     \* changes under way
  crossed,   \* an answer may have come too late for the list
  raced,     \* or for the panel, or its agent was in a hurry
  jumped,    \* another conversation was opened while messages were counted
  astray,    \* whether a phone was saved to a customer for whom it was not typed, and if the
             \* first was, whether its agent had hurried
  wbLeft

wbVars == <<order, row, list, sel, asked, side, dialog, loads, looks, changes, crossed, raced, jumped, astray, wbLeft>>

MaxLoads == 2  \* of the list, and of the panel, under way at once

EntryOf(c) == [id |-> c, status |-> row[c].status, mark |-> row[c].mark]
IdsOf(rows) == {rows[i].id : i \in DOMAIN rows}
Listed == IdsOf(list.rows)
FirstOf(c, rows) == rows[CHOOSE i \in DOMAIN rows : rows[i].id = c /\ \A j \in 1..(i - 1) : rows[j].id # c]
PageFrom(from) ==
  LET last == IF from + WbPage > Len(order) THEN Len(order) ELSE from + WbPage IN
  [j \in 1..(last - from) |-> EntryOf(order[from + j])]

CallKinds == {"open", "status", "count", "edit", "note", "contact", "asked"}
WbTypeOK ==
  /\ order \in [WbConvs -> WbConvs] /\ \A c \in WbConvs : \E i \in DOMAIN order : order[i] = c
  /\ \A c \in WbConvs :
       row[c].status \in Statuses /\ row[c].mark \in BOOLEAN
       /\ row[c].notes \in Nat /\ row[c].tel \in WbConvs \union {NoRow}
  /\ \A i \in DOMAIN list.rows : list.rows[i].id \in WbConvs /\ list.rows[i].status \in Statuses
  /\ {sel, asked, dialog, side.of, side.tel, side.typed} \subseteq WbConvs \union {NoRow}
  /\ \A k \in changes : k.do \in CallKinds /\ k.of \in WbConvs /\ k.at \in {"sent", "served"}
  /\ \A l \in looks : l.of \in WbConvs
  /\ \A l \in loads : l.more => l.from > 0
  /\ {crossed, raced, jumped} \subseteq BOOLEAN /\ astray \in {"no", "in haste", "calmly"}
  /\ wbLeft \in [WbEvents -> Nat]

WbInit ==
  /\ order = [i \in WbConvs |-> i]
  /\ \E b \in WbBounds :
       /\ wbLeft = b.left /\ asked = b.asked
       /\ row = [c \in WbConvs |-> [status |-> b.status, mark |-> FALSE, notes |-> 0,
                                    tel |-> IF c = 1 THEN c ELSE NoRow]]
  /\ list = [rows |-> PageFrom(0), older |-> WbSize >= WbPage]
  /\ sel = NoRow /\ dialog = NoRow
  /\ side = [of |-> NoRow, notes |-> 0, tel |-> NoRow, typed |-> NoRow, editing |-> FALSE]
  /\ loads = {} /\ looks = {} /\ changes = {}
  /\ crossed = FALSE /\ raced = FALSE /\ jumped = FALSE /\ astray = "no"

-----------------------------------------------------------------------------
(* What changes on the page together. *)

WbUses(e) == wbLeft[e] > 0 /\ wbLeft' = [wbLeft EXCEPT ![e] = @ - 1]
Sent(do, c) ==
  [do |-> do, of |-> c, status |-> "IN_PROGRESS", tel |-> NoRow, answer |-> FALSE, at |-> "sent", calm |-> TRUE]
SentStatus(c, status) == [Sent("status", c) EXCEPT !.status = status]
Look(c) == [of |-> c, at |-> "sent", notes |-> 0, tel |-> NoRow, calm |-> TRUE]
Load(more, from) == [more |-> more, from |-> from, at |-> "sent", rows |-> <<>>, calm |-> TRUE]
Disturbed(requests) == {[q EXCEPT !.calm = FALSE] : q \in requests}
Served(requests) == {q \in requests : q.at = "served"}
\* A change of the rows outdates the answers that were read before it.
Outdated(requests) == (requests \ Served(requests)) \union Disturbed(Served(requests))
Changing(kinds) == {k \in changes : k.do \in kinds}
Unsaved == side.editing \/ side.typed # side.tel

\* The panel loads again whenever the open row is another object than before; without an
\* open row its notes are cleared.
PanelOf(c, rows, anew) ==
  /\ looks' = IF c \in IdsOf(rows) /\ anew THEN looks \union {Look(c)} ELSE looks
  /\ side' = IF c \in IdsOf(rows) THEN side ELSE [side EXCEPT !.of = NoRow, !.notes = 0]

\* Does its name or its assignee change with these rows?  Then the dialog is closed, as when
\* another conversation is opened, by the agent or by the page.
Recast(c, rows) ==
  (c \in IdsOf(rows)) # (c \in Listed) \/ (c \in Listed /\ FirstOf(c, rows).mark # FirstOf(c, list.rows).mark)
Opens(c, rows, anew) ==
  /\ sel' = c
  /\ PanelOf(c, rows, anew \/ c # sel)
  /\ dialog' \in IF c # sel THEN {NoRow} ELSE IF Recast(c, rows) THEN {dialog, NoRow} ELSE {dialog}
  /\ raced' = IF c # sel THEN \/ looks # {} \/ Changing({"note", "contact"}) # {} \/ Unsaved
                             \/ (raced /\ side.of = c)
              ELSE raced
  /\ jumped' = IF c # sel THEN Changing({"count"}) # {} ELSE jumped

\* After every change of the list the page goes back to the conversation of the link; one
\* that is not listed it loads.
DrawnTo(c, rows) == IF asked \in IdsOf(rows) THEN asked ELSE c
FetchesAsked(rows) == asked # NoRow /\ asked \notin IdsOf(rows)

-----------------------------------------------------------------------------
(* The list. *)

ReloadStarts == Cardinality(loads) < MaxLoads /\ loads' = Disturbed(loads) \union {Load(FALSE, 0)}

\* Every minute, after an event, and after a reply.
Reload ==
  /\ WbUses("reloads") /\ ReloadStarts
  /\ UNCHANGED <<order, row, list, sel, asked, side, dialog, looks, changes, crossed, raced, jumped, astray>>

PressOlder ==
  /\ list.older /\ \A l \in loads : ~l.more
  /\ Cardinality(loads) < MaxLoads /\ WbUses("pages")
  /\ loads' = loads \union {[Load(TRUE, Len(list.rows)) EXCEPT !.calm = (loads = {})]}
  /\ UNCHANGED <<order, row, list, sel, asked, side, dialog, looks, changes, crossed, raced, jumped, astray>>

ServeLoad(l) ==
  /\ l.at = "sent"
  /\ loads' = (loads \ {l}) \union {[l EXCEPT !.at = "served", !.rows = PageFrom(l.from)]}
  /\ UNCHANGED <<order, row, list, sel, asked, side, dialog, looks, changes, crossed, raced, jumped, astray, wbLeft>>

\* Older rows are appended to what is listed by then; the open conversation stays open if
\* it is still listed.
Joined(l) == IF l.more THEN list.rows \o l.rows ELSE l.rows
\* Mutant: the conversation stays open although it is no longer listed.
KeptAnyway(rows) == sel
Kept(rows) == IF sel \in IdsOf(rows) THEN sel ELSE NoRow
LandLoad(l) ==
  /\ l.at = "served"
  /\ LET rows == Joined(l) IN
     /\ list' = [rows |-> rows, older |-> Len(l.rows) = WbPage]
     /\ Opens(DrawnTo(Kept(rows), rows), rows, ~l.more \/ sel \notin Listed)
     /\ changes' = IF FetchesAsked(rows) THEN changes \union {Sent("asked", asked)} ELSE changes
     /\ crossed' = IF l.more THEN crossed \/ ~l.calm ELSE ~l.calm
  /\ loads' = IF l.more THEN loads \ {l} ELSE Disturbed(loads \ {l})
  /\ UNCHANGED <<order, row, asked, astray, wbLeft>>

ListFails(l) ==
  /\ WbUses("faults")
  /\ loads' = loads \ {l} /\ crossed' = TRUE
  /\ UNCHANGED <<order, row, list, sel, asked, side, dialog, looks, changes, raced, jumped, astray>>

\* The conversation of the link is put first and opened; the others stay in their order.
Others(c) == {i \in DOMAIN list.rows : list.rows[i].id # c}
InOrder(places) == {f \in [1..Cardinality(places) -> places] : \A i, j \in DOMAIN f : i < j => f[i] < f[j]}
LandAsked(k) ==
  /\ k.do = "asked"
  /\ \E f \in InOrder(Others(asked)) :
       LET rows == <<EntryOf(asked)>> \o [i \in DOMAIN f |-> list.rows[f[i]]] IN
       list' = [list EXCEPT !.rows = rows] /\ Opens(asked, rows, TRUE)
  /\ changes' = changes \ {k} /\ crossed' = TRUE
  /\ UNCHANGED <<order, row, asked, loads, astray, wbLeft>>

-----------------------------------------------------------------------------
(* The open conversation. *)

\* A click opens it, and takes it up unless it is in progress.
SelectRow(c) ==
  /\ c \in Listed /\ c # sel /\ WbUses("selects")
  /\ Opens(c, list.rows, TRUE)
  /\ changes' = changes \union
       IF FirstOf(c, list.rows).status = "IN_PROGRESS" THEN {} ELSE {Sent("open", c)}
  /\ UNCHANGED <<order, row, list, asked, loads, crossed, astray>>

\* A notification of a message only opens it.
OpenFromNotice(c) ==
  /\ c = Head(order) /\ c # sel /\ WbUses("selects")
  /\ Opens(c, list.rows, TRUE)
  /\ UNCHANGED <<order, row, list, asked, loads, changes, crossed, astray>>

CloseRow ==
  /\ sel # NoRow /\ WbUses("selects")
  /\ Opens(NoRow, list.rows, FALSE)
  /\ UNCHANGED <<order, row, list, asked, loads, changes, crossed, astray>>

\* The panel's requests are served at about the same time.
ServeLook(l) ==
  /\ l.at = "sent"
  /\ looks' = (looks \ {l}) \union {[l EXCEPT !.at = "served", !.notes = row[l.of].notes, !.tel = row[l.of].tel]}
  /\ UNCHANGED <<order, row, list, sel, asked, side, dialog, loads, changes, crossed, raced, jumped, astray, wbLeft>>

\* The phone field follows the phone only when that changes.
Shows(phone) == [side EXCEPT !.tel = phone, !.typed = IF phone # side.tel THEN phone ELSE @]
Settles(l) == l.calm /\ looks = {l} /\ Changing({"note", "contact"}) = {} /\ l.of = sel /\ l.of \in Listed
LandLook(l) ==
  /\ l.at = "served"
  /\ looks' = looks \ {l}
  /\ side' = IF l.of \in Listed THEN [Shows(l.tel) EXCEPT !.of = l.of, !.notes = l.notes] ELSE side
  /\ raced' = IF Settles(l) /\ ~(Unsaved /\ l.tel = side.tel) THEN FALSE ELSE raced \/ ~l.calm
  /\ UNCHANGED <<order, row, list, sel, asked, dialog, loads, changes, crossed, jumped, astray, wbLeft>>

\* The notes cannot be loaded, and stay, or the customer, and the phone is cleared.
LookFails(l) ==
  /\ l.at = "served" /\ l.of \in Listed /\ WbUses("faults")
  /\ looks' = looks \ {l} /\ raced' = TRUE
  /\ side' \in {Shows(l.tel), [Shows(NoRow) EXCEPT !.of = l.of, !.notes = l.notes]}
  /\ UNCHANGED <<order, row, list, sel, asked, dialog, loads, changes, crossed, jumped, astray>>

-----------------------------------------------------------------------------
(* Changes to the open conversation. *)

OpenRow == sel \in Listed
Sends(call) == changes' = changes \union {call}

PressStatus(status) ==
  /\ OpenRow /\ Changing({"status"}) = {} /\ WbUses("statuses")
  /\ Sends(IF status = "RESOLVED" THEN Sent("count", sel) ELSE SentStatus(sel, status))
  /\ UNCHANGED <<order, row, list, sel, asked, side, dialog, loads, looks, crossed, raced, jumped, astray>>

\* The dialog resolves the conversation that is open now.
ConfirmResolve ==
  /\ dialog # NoRow /\ Changing({"status"}) = {}
  /\ dialog' = NoRow
  /\ IF OpenRow THEN Sends(SentStatus(sel, "RESOLVED")) ELSE UNCHANGED changes
  /\ UNCHANGED <<order, row, list, sel, asked, side, loads, looks, crossed, raced, jumped, astray, wbLeft>>

DismissDialog ==
  /\ dialog # NoRow /\ Changing({"status"}) = {}
  /\ dialog' = NoRow
  /\ UNCHANGED <<order, row, list, sel, asked, side, loads, looks, changes, crossed, raced, jumped, astray, wbLeft>>

\* The name, the assignee, the priority or a tag; one at a time, which the page sees to for
\* each of them but tags.
PressEdit ==
  /\ OpenRow /\ Changing({"edit"}) = {} /\ WbUses("edits") /\ Sends(Sent("edit", sel))
  /\ UNCHANGED <<order, row, list, sel, asked, side, dialog, loads, looks, crossed, raced, jumped, astray>>

PressNote ==
  /\ OpenRow /\ Changing({"note"}) = {} /\ WbUses("notes") /\ Sends(Sent("note", sel))
  /\ UNCHANGED <<order, row, list, sel, asked, side, dialog, loads, looks, crossed, raced, jumped, astray>>

\* The phone field is opened as it was left, and something may be typed.
EditContact(typed) ==
  /\ OpenRow /\ ~side.editing /\ WbUses("contacts")
  /\ side' = [side EXCEPT !.editing = TRUE, !.typed = typed]
  /\ raced' = (raced \/ side.of # sel)
  /\ UNCHANGED <<order, row, list, sel, asked, dialog, loads, looks, changes, crossed, jumped, astray>>

CancelContact ==
  /\ side.editing
  /\ side' = [side EXCEPT !.editing = FALSE, !.typed = side.tel]
  /\ UNCHANGED <<order, row, list, sel, asked, dialog, loads, looks, changes, crossed, raced, jumped, astray, wbLeft>>

SaveContact ==
  /\ OpenRow /\ side.editing
  /\ side' = [side EXCEPT !.editing = FALSE]
  /\ Sends([Sent("contact", sel) EXCEPT !.tel = side.typed])
  /\ astray' = IF astray = "no" /\ side.typed \notin {NoRow, sel} THEN IF raced THEN "in haste" ELSE "calmly" ELSE astray
  /\ UNCHANGED <<order, row, list, sel, asked, dialog, loads, looks, crossed, raced, jumped, wbLeft>>

RowsAfter(k) ==
  CASE k.do \in {"open", "status"} -> [row EXCEPT ![k.of].status = k.status]
    [] k.do = "edit"    -> [row EXCEPT ![k.of].mark = ~@]
    [] k.do = "note"    -> [row EXCEPT ![k.of].notes = @ + 1]
    [] k.do = "contact" -> [row EXCEPT ![k.of].tel = k.tel]
    [] OTHER -> row
Outdates(k) ==
  /\ loads' = IF k.do \in {"open", "status", "edit"} THEN Outdated(loads) ELSE loads
  /\ looks' = IF k.do \in {"note", "contact"} THEN Outdated(looks) ELSE looks
Rivals(k) == {q \in Served(changes) : q # k /\ q.of = k.of /\ k.do # "count"}
ServeCall(k) ==
  /\ k.at = "sent" /\ k.do # "asked"
  /\ row' = RowsAfter(k)
  /\ \E answer \in IF k.do = "count" THEN BOOLEAN ELSE {row'[k.of].mark} :
       changes' = ((changes \ {k}) \ Rivals(k)) \union Disturbed(Rivals(k))
                  \union {[k EXCEPT !.at = "served", !.answer = answer]}
  /\ Outdates(k)
  /\ UNCHANGED <<order, list, sel, asked, side, dialog, crossed, raced, jumped, astray, wbLeft>>

\* The answer is put into the list at the row it is about, wherever that is by now.
Patched(k) ==
  [i \in DOMAIN list.rows |->
     IF list.rows[i].id # k.of THEN list.rows[i]
     ELSE IF k.do = "edit" THEN [list.rows[i] EXCEPT !.mark = k.answer]
     ELSE [list.rows[i] EXCEPT !.status = k.status]]
LandChange(k) ==
  /\ k.at = "served" /\ k.do \in {"open", "status", "edit"}
  /\ list' = [list EXCEPT !.rows = Patched(k)]
  /\ Opens(DrawnTo(sel, Patched(k)), Patched(k), k.of = sel)
  /\ changes' = (changes \ {k}) \union (IF FetchesAsked(list.rows) THEN {Sent("asked", asked)} ELSE {})
  /\ crossed' = (crossed \/ ~k.calm)
  /\ UNCHANGED <<order, row, asked, loads, astray, wbLeft>>

LandCount(k) ==
  /\ k.at = "served" /\ k.do = "count"
  /\ IF k.answer THEN dialog' = k.of /\ changes' = changes \ {k}
     ELSE changes' = (changes \ {k}) \union {SentStatus(k.of, "RESOLVED")} /\ UNCHANGED dialog
  /\ UNCHANGED <<order, row, list, sel, asked, side, loads, looks, crossed, raced, jumped, astray, wbLeft>>

\* The notes are loaded again for the conversation they were written in.
LandNote(k) ==
  /\ k.at = "served" /\ k.do = "note"
  /\ changes' = changes \ {k} /\ looks' = looks \union {Look(k.of)}
  /\ UNCHANGED <<order, row, list, sel, asked, side, dialog, loads, crossed, raced, jumped, astray, wbLeft>>

LandContact(k) ==
  /\ k.at = "served" /\ k.do = "contact"
  /\ changes' = changes \ {k} /\ side' = Shows(k.tel)
  /\ raced' = (raced \/ ~k.calm)
  /\ UNCHANGED <<order, row, list, sel, asked, dialog, loads, looks, crossed, jumped, astray, wbLeft>>

\* It was carried out or not.
CallFails(k) ==
  /\ WbUses("faults")
  /\ changes' = changes \ {k} /\ crossed' = TRUE /\ raced' = TRUE
  /\ UNCHANGED <<order, row, list, sel, asked, side, dialog, loads, looks, jumped, astray>>

-----------------------------------------------------------------------------
(* Others. *)

PlaceOf(c) == CHOOSE i \in DOMAIN order : order[i] = c
MovedUp(c) ==
  [i \in DOMAIN order |-> IF i = 1 THEN c ELSE IF i <= PlaceOf(c) THEN order[i - 1] ELSE order[i]]

\* A customer writes: a resolved conversation is open again, and the event loads the list.
Arrives(c) ==
  /\ WbUses("arrivals")
  /\ Cardinality(loads) < MaxLoads /\ loads' = Disturbed(loads) \union {Load(FALSE, 0)}
  /\ order' = MovedUp(c)
  /\ row' = [row EXCEPT ![c].status = IF @ = "RESOLVED" THEN "OPEN" ELSE @]
  /\ changes' = Outdated(changes)
  /\ UNCHANGED <<list, sel, asked, side, dialog, looks, crossed, raced, jumped, astray>>

\* Another agent changes a status: no event tells the page.
ColleagueChanges(c, status) ==
  /\ WbUses("others")
  /\ row' = [row EXCEPT ![c].status = status]
  /\ changes' = Outdated(changes) /\ loads' = Outdated(loads) /\ crossed' = TRUE
  /\ UNCHANGED <<order, list, sel, asked, side, dialog, looks, raced, jumped, astray>>

WbNext ==
  \/ Reload \/ PressOlder \/ CloseRow \/ ConfirmResolve \/ DismissDialog \/ PressEdit \/ PressNote
  \/ CancelContact \/ SaveContact
  \/ \E typed \in {side.typed, sel} : EditContact(typed)
  \/ \E l \in loads : ServeLoad(l) \/ LandLoad(l) \/ ListFails(l)
  \/ \E l \in looks : ServeLook(l) \/ LandLook(l) \/ LookFails(l)
  \/ \E k \in changes :
       LandAsked(k) \/ ServeCall(k) \/ LandChange(k) \/ LandCount(k) \/ LandNote(k) \/ LandContact(k) \/ CallFails(k)
  \/ \E c \in WbConvs : SelectRow(c) \/ OpenFromNotice(c) \/ Arrives(c)
  \/ \E status \in Statuses : PressStatus(status) \/ \E c \in WbConvs : ColleagueChanges(c, status)

WbSpec == WbInit /\ [][WbNext]_wbVars

-----------------------------------------------------------------------------
(* Properties. *)

AtRest == loads = {} /\ looks = {} /\ changes = {}

\* Once nothing is under way, the list shows the latest conversations in their order, each
\* once, as they are, and the open one among them, unless an answer came too late, a request
\* failed, or a colleague changed one, since the list was last loaded undisturbed.
ListIsTrue ==
  AtRest /\ ~crossed =>
    /\ \A i \in DOMAIN list.rows : i \in DOMAIN order /\ list.rows[i] = EntryOf(order[i])
    /\ sel # NoRow => sel \in Listed

\* The panel shows the notes and the phone of the open conversation's customer, unless its
\* agent turned to another conversation, or edited, before requests were answered.
PanelIsOfTheOpen ==
  AtRest /\ OpenRow /\ ~raced =>
    side.of = sel /\ side.notes = row[sel].notes /\ side.tel = row[sel].tel

\* A phone is saved to the customer for whom it was typed, unless somebody hurried.
PhonesGoHome == astray # "calmly"

\* The question whether to resolve a conversation with unanswered messages is about the
\* open one, unless another was opened while they were counted.
QuestionIsOfTheOpen == dialog \in {NoRow, sel} \/ jumped

BenchHolds == ListIsTrue /\ PanelIsOfTheOpen /\ PhonesGoHome /\ QuestionIsOfTheOpen
=============================================================================
