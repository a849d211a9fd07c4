------------------------------- MODULE Rules --------------------------------
(***************************************************************************)
(* An automation rule, the form it is made with                            *)
(* (apps/web/app/app/settings/automation-manager.tsx), and the messages,   *)
(* tags and statuses that start it (apps/api/src/automation:               *)
(* automation.service.ts, automation-match.util.ts,                        *)
(* automation-step.parser.ts).  Two forms may be open on the rule at once; *)
(* a form always sends what its trigger needs, leaves out what the trigger *)
(* does not need, and what is left out stays as it was.                    *)
(***************************************************************************)
EXTENDS Hours, Sequences, SequencesExt, FiniteSets

CONSTANTS
  Editors,      \* pages
  RuTerms,      \* keywords
  RuMarks,      \* names of tags
  RuPlaces,     \* LINE channels
  RuSteps,      \* types of steps one may choose
  RuHours,      \* hours one may enter, and at which something may happen
  Anywhere,     \* no channel is chosen
  RuLongest,    \* the most steps a rule may have, twenty in the code
  RuBounds      \* how often each thing happens

Triggers == {"MESSAGE_RECEIVED", "CONVERSATION_CREATED", "TAG_ADDED", "STATUS_CHANGED", "OFF_HOURS"}
Statuses == {"OPEN", "IN_PROGRESS", "RESOLVED"}
Unsent == "unsent"
UnsentHour == 98
RuEvents == {"opens", "templates", "changes", "saves", "deletes"}

\* The field that a type of step takes.
ArgOf == [SEND_TEXT_REPLY |-> "text", SEND_IMAGE_REPLY |-> "imageUrl", SEND_SAVED_REPLY |-> "savedReplyId",
          ADD_TAG |-> "tagName", ASSIGN_AGENT |-> "memberId", SET_PRIORITY |-> "priority",
          WAIT |-> "delaySeconds", CLOSE_CONVERSATION |-> "nothing", ESCALATE |-> "nothing",
          AI_AUTO_REPLY |-> "nothing"]
StepTypes == DOMAIN ArgOf
ArgFields == {ArgOf[t] : t \in StepTypes}
ASSUME RulesAssumption ==
  /\ RuSteps \subseteq StepTypes /\ RuHours \subseteq Hour
  /\ Unsent \notin RuPlaces /\ RuLongest \in Nat
  /\ RuBounds \subseteq [RuEvents -> Nat]

Values == 0..2        \* 0: empty; 1: what comes filled in, if anything does
Draft == [type : StepTypes, args : [ArgFields -> Values], waits : BOOLEAN]
RuleStep == [type : StepTypes, arg : Values, waits : BOOLEAN]
DefaultArgs == [f \in ArgFields |-> IF f \in {"delaySeconds", "priority"} THEN 1 ELSE 0]
EmptyStep == [type |-> "SEND_TEXT_REPLY", args |-> DefaultArgs, waits |-> FALSE]

EmptyForm ==
  [trigger |-> "OFF_HOURS", terms |-> {}, marks |-> {}, status |-> "RESOLVED", from |-> 9, till |-> 18,
   place |-> Anywhere, enabled |-> TRUE, steps |-> <<EmptyStep>>]
OffHoursTemplate == [EmptyForm EXCEPT !.from = 8, !.till = 23, !.steps = <<[EmptyStep EXCEPT !.args["text"] = 1]>>]
FaqTemplate ==
  [EmptyForm EXCEPT !.trigger = "MESSAGE_RECEIVED", !.terms = RuTerms,
     !.steps = <<[EmptyStep EXCEPT !.args["text"] = 1],
                 [EmptyStep EXCEPT !.type = "ADD_TAG", !.args["tagName"] = 1, !.waits = TRUE]>>]

VARIABLES
  saved,       \* the rule
  page,        \* a form, what it is for, and its request
  shown,       \* the form that was saved last
  ruLeft

ruVars == <<saved, page, shown, ruLeft>>

NoRule == [state |-> "none"]
NeverShown == [trigger |-> "none"]
NoCall == [step |-> "idle"]
CallSteps == {"idle", "read", "write", "refused", "tooLong"}
RuleRow == [state : {"live", "gone"}, trigger : Triggers, terms : SUBSET RuTerms, marks : SUBSET RuMarks,
         status : Statuses \union {Unsent}, from : Hour \union {NoHour}, till : Hour \union {NoHour},
         place : RuPlaces \union {Anywhere}, enabled : BOOLEAN, steps : Seq(RuleStep)]

RuTypeOK ==
  /\ saved = NoRule \/ saved \in RuleRow
  /\ \A e \in Editors :
       /\ page[e].for \in {"new", "edit"} /\ page[e].form.trigger \in Triggers
       /\ \A i \in DOMAIN page[e].form.steps : page[e].form.steps[i] \in Draft
       /\ page[e].call.step \in CallSteps
  /\ ruLeft \in [RuEvents -> Nat]

NewPage == [for |-> "new", form |-> EmptyForm, call |-> NoCall]

RuInit ==
  /\ saved = NoRule /\ page = [e \in Editors |-> NewPage] /\ shown = NeverShown
  /\ ruLeft \in RuBounds

RuUses(what) == ruLeft[what] > 0 /\ ruLeft' = [ruLeft EXCEPT ![what] = @ - 1]

-----------------------------------------------------------------------------
(* What a form sends, and what it shows of a rule. *)

\* The first step never waits for an answer of the customer.
WaitsAt(draft, i) == i > 1 /\ draft.waits

ToStep(draft, i) == [type |-> draft.type, arg |-> draft.args[ArgOf[draft.type]], waits |-> WaitsAt(draft, i)]
ToDraft(step) == [type |-> step.type, args |-> [DefaultArgs EXCEPT ![ArgOf[step.type]] = step.arg], waits |-> step.waits]

Sends(f) ==
  [trigger |-> f.trigger, terms |-> f.terms, marks |-> f.marks,
   status |-> IF f.trigger = "STATUS_CHANGED" THEN f.status ELSE Unsent,
   from |-> IF f.trigger = "OFF_HOURS" /\ f.from # NoHour THEN f.from ELSE UnsentHour,
   till |-> IF f.trigger = "OFF_HOURS" /\ f.till # NoHour THEN f.till ELSE UnsentHour,
   place |-> IF f.place = Anywhere THEN Unsent ELSE f.place,
   enabled |-> f.enabled, steps |-> [i \in DOMAIN f.steps |-> ToStep(f.steps[i], i)]]

ToForm(r) ==
  [trigger |-> r.trigger, terms |-> r.terms, marks |-> r.marks,
   status |-> IF r.status = Unsent THEN "RESOLVED" ELSE r.status, from |-> r.from, till |-> r.till,
   place |-> r.place, enabled |-> r.enabled, steps |-> [i \in DOMAIN r.steps |-> ToDraft(r.steps[i])]]

\* The browser asks for the fields that are shown and must be filled in.
Complete(f) ==
  /\ f.trigger = "OFF_HOURS" => NoHour \notin {f.from, f.till}
  /\ \A i \in DOMAIN f.steps : ArgOf[f.steps[i].type] # "nothing" => f.steps[i].args[ArgOf[f.steps[i].type]] # 0

-----------------------------------------------------------------------------
(* What the service accepts and writes. *)

Parses(steps) ==
  /\ Len(steps) \in 1..RuLongest /\ (Len(steps) > 0 => ~steps[1].waits)
  /\ \A i \in DOMAIN steps : ArgOf[steps[i].type] # "nothing" => steps[i].arg # 0

\* A field that is left out stays as it was.
Merged(new, old, none) == IF new = none THEN old ELSE new

TriggerIsSetUp(p, old) ==
  /\ p.trigger = "OFF_HOURS" =>
       NoHour \notin {Merged(p.from, old.from, UnsentHour), Merged(p.till, old.till, UnsentHour)}
  /\ p.trigger = "STATUS_CHANGED" => Merged(p.status, old.status, Unsent) # Unsent
Acceptable(p, old) == TriggerIsSetUp(p, old) /\ Parses(p.steps)

\* The answer names the first thing that is wrong: the rule is gone, it has too many steps,
\* one of them lacks something, or its trigger is not set up.
Refusal(p, old) == IF old.state = "live" /\ Len(p.steps) > RuLongest THEN "tooLong" ELSE "refused"

BlankRule == [state |-> "live", status |-> Unsent, from |-> NoHour, till |-> NoHour, place |-> Anywhere]

\* The trigger, the lists, the switch and the steps are always sent.
Written(p, old) ==
  [state |-> old.state, trigger |-> p.trigger, terms |-> p.terms, marks |-> p.marks,
   status |-> Merged(p.status, old.status, Unsent), from |-> Merged(p.from, old.from, UnsentHour),
   till |-> Merged(p.till, old.till, UnsentHour), place |-> Merged(p.place, old.place, Unsent),
   enabled |-> p.enabled, steps |-> p.steps]

-----------------------------------------------------------------------------
(* The pages. *)

CallAt(e, step) == page[e].call.step = step
Editable(e) == page[e].call.step \in {"idle", "refused", "tooLong"}
Fills(e, f) == page' = [page EXCEPT ![e].form = f]

\* The list is read again after every save; here it shows the rule as it is.
OpenRule(e) ==
  /\ Editable(e) /\ saved.state = "live" /\ RuUses("opens")
  /\ page' = [page EXCEPT ![e] = [for |-> "edit", form |-> ToForm(saved), call |-> NoCall]]
  /\ UNCHANGED <<saved, shown>>

UseTemplate(e, f) ==
  /\ Editable(e) /\ page[e].for = "new" /\ RuUses("templates")
  /\ page' = [page EXCEPT ![e] = [for |-> "new", form |-> f, call |-> NoCall]]
  /\ UNCHANGED <<saved, shown>>

\* What is not shown for the trigger, or for the type of a step, keeps its value.
Shapes(f) ==
  {[f EXCEPT !.trigger = t] : t \in Triggers}
    \union (IF f.trigger \in {"MESSAGE_RECEIVED", "OFF_HOURS"}
            THEN {[f EXCEPT !.terms = w] : w \in SUBSET RuTerms} ELSE {})
    \union (IF f.trigger = "TAG_ADDED" THEN {[f EXCEPT !.marks = m] : m \in SUBSET RuMarks} ELSE {})
    \union (IF f.trigger = "STATUS_CHANGED" THEN {[f EXCEPT !.status = s] : s \in Statuses} ELSE {})
    \union (IF f.trigger = "OFF_HOURS"
            THEN UNION {{[f EXCEPT !.from = h], [f EXCEPT !.till = h]} : h \in RuHours \union {NoHour}} ELSE {})
    \union {[f EXCEPT !.place = p] : p \in RuPlaces \union {Anywhere}}
    \union {[f EXCEPT !.enabled = ~f.enabled]}

StepShapes(f) ==
  {[f EXCEPT !.steps = Append(f.steps, EmptyStep)]}
    \union (IF Len(f.steps) > 1 THEN {[f EXCEPT !.steps = RemoveAt(f.steps, i)] : i \in DOMAIN f.steps} ELSE {})
    \union {[f EXCEPT !.steps[i].type = t] : i \in DOMAIN f.steps, t \in RuSteps}
    \union {[f EXCEPT !.steps[i].args[ArgOf[f.steps[i].type]] = v] : i \in DOMAIN f.steps, v \in 1..2}
    \union {[f EXCEPT !.steps[i].waits = ~f.steps[i].waits] : i \in 2..Len(f.steps)}

ChangeField(e) ==
  /\ Editable(e) /\ RuUses("changes")
  /\ \E f \in Shapes(page[e].form) : Fills(e, f)
  /\ UNCHANGED <<saved, shown>>

ChangeStep(e) ==
  /\ Editable(e) /\ RuUses("changes")
  /\ \E f \in StepShapes(page[e].form) : Fills(e, f)
  /\ UNCHANGED <<saved, shown>>

\* A request for a new rule goes straight to the write; one rule is made here.  Nobody types
\* until the answer is there (Screens has what happens then).
SubmitRule(e) ==
  /\ Editable(e) /\ Complete(page[e].form) /\ RuUses("saves")
  /\ page[e].for = "new" => saved = NoRule /\ \A o \in Editors : CallAt(o, "write") => page[o].for # "new"
  /\ page' = [page EXCEPT ![e].call = [step |-> IF page[e].for = "new" THEN "write" ELSE "read"]]
  /\ UNCHANGED <<saved, shown>>

\* The rule is read, and what would become of it is looked at.
ReadRule(e) ==
  /\ CallAt(e, "read")
  /\ LET p == Sends(page[e].form) IN
     page' = [page EXCEPT ![e].call =
       [step |-> IF saved.state = "live" /\ Acceptable(p, saved) THEN "write" ELSE Refusal(p, saved)]]
  /\ UNCHANGED <<saved, shown, ruLeft>>

\* Only the fields that were sent are written, whatever became of the rule meanwhile.
WriteRule(e) ==
  /\ CallAt(e, "write")
  /\ LET p == Sends(page[e].form)
         old == IF page[e].for = "new" THEN BlankRule ELSE saved IN
     IF page[e].for = "new" /\ ~Acceptable(p, old)
     THEN page' = [page EXCEPT ![e].call = [step |-> Refusal(p, old)]] /\ UNCHANGED <<saved, shown>>
     ELSE /\ saved' = Written(p, old) /\ shown' = page[e].form
          /\ page' = [page EXCEPT ![e] = NewPage]
  /\ UNCHANGED ruLeft

\* The page that deletes the rule gives up its form on it; another page keeps its own.
DeleteRule(e) ==
  /\ Editable(e) /\ saved.state = "live" /\ RuUses("deletes")
  /\ saved' = [saved EXCEPT !.state = "gone", !.enabled = FALSE]
  /\ page' = IF page[e].for = "edit" THEN [page EXCEPT ![e] = NewPage] ELSE page
  /\ UNCHANGED shown

RuNext ==
  \E e \in Editors :
    \/ OpenRule(e) \/ ChangeField(e) \/ ChangeStep(e) \/ SubmitRule(e) \/ ReadRule(e) \/ WriteRule(e) \/ DeleteRule(e)
    \/ UseTemplate(e, OffHoursTemplate) \/ UseTemplate(e, FaqTemplate)

RuSpec == RuInit /\ [][RuNext]_ruVars

-----------------------------------------------------------------------------
(* What starts a rule. *)

\* Something that happens in a conversation of a channel: a message has some of the keywords.
Happenings ==
  [on : {"MESSAGE_RECEIVED", "OFF_HOURS"}, terms : SUBSET RuTerms, hour : RuHours, place : RuPlaces]
    \union [on : {"TAG_ADDED"}, mark : RuMarks, place : RuPlaces]
    \union [on : {"STATUS_CHANGED"}, status : Statuses, place : RuPlaces]
    \union [on : {"CONVERSATION_CREATED"}, place : RuPlaces]

KeywordMatches(r, c) == r.terms = {} \/ r.terms \intersect c.terms # {}
IsOffHours(hour, from, till) == NoHour \notin {from, till} /\ ~Within(hour, from, till)

StartsOn(r, c) ==
  /\ r.state = "live" /\ r.enabled /\ r.trigger = c.on
  /\ r.place \in {Anywhere, c.place}
  /\ r.trigger = "MESSAGE_RECEIVED" => KeywordMatches(r, c)
  /\ r.trigger = "OFF_HOURS" => IsOffHours(c.hour, r.from, r.till) /\ KeywordMatches(r, c)
  /\ r.trigger = "TAG_ADDED" => r.marks = {} \/ c.mark \in r.marks
  /\ r.trigger = "STATUS_CHANGED" => r.status \in {Unsent, c.status}

-----------------------------------------------------------------------------
(* Properties. *)

\* What the fields of a form that are shown say.
SaysStart(f, c) ==
  /\ f.enabled /\ f.trigger = c.on /\ f.place \in {Anywhere, c.place}
  /\ c.on \in {"MESSAGE_RECEIVED", "OFF_HOURS"} => f.terms = {} \/ \E w \in f.terms : w \in c.terms
  /\ c.on = "OFF_HOURS" => c.hour \notin ClockWindow(f.from, f.till)
  /\ c.on = "TAG_ADDED" => f.marks = {} \/ c.mark \in f.marks
  /\ c.on = "STATUS_CHANGED" => c.status = f.status
SaysStep(draft, i) == <<draft.type, draft.args[ArgOf[draft.type]], i > 1 /\ draft.waits>>

\* The rule starts when the form that was saved last says so, by the clock, and runs its steps,
\* whoever else changed it before; but a form that says it is for all channels leaves the rule
\* with the channel it had.
RuleIsAsShown ==
  shown # NeverShown /\ saved.state = "live" =>
    /\ \A c \in Happenings :
         LET f == IF shown.place = Anywhere THEN [shown EXCEPT !.place = saved.place] ELSE shown IN
         StartsOn(saved, c) <=> SaysStart(f, c)
    /\ Len(saved.steps) = Len(shown.steps)
    /\ \A i \in DOMAIN saved.steps :
         <<saved.steps[i].type, saved.steps[i].arg, saved.steps[i].waits>> = SaysStep(shown.steps[i], i)

\* To open a rule and to save it untouched changes nothing about it, and a run of it can start.
OpeningChangesNothing ==
  saved # NoRule => /\ Parses(saved.steps) /\ Complete(ToForm(saved))
                    /\ Written(Sends(ToForm(saved)), saved) = saved

\* A form that the browser lets through is refused only if the rule is gone, or for more steps
\* than a rule may have, which the page does not count; a deleted rule starts nothing again.
RefusedForGone ==
  /\ \A e \in Editors : CallAt(e, "refused") => page[e].for = "edit" /\ saved.state = "gone"
  /\ saved.state = "gone" => \A c \in Happenings : ~StartsOn(saved, c)

RulesHold == RuleIsAsShown /\ OpeningChangesNothing /\ RefusedForGone
=============================================================================
