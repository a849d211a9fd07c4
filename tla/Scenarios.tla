----------------------------- MODULE Scenarios ------------------------------
(***************************************************************************)
(* The scenarios a tenant sets up for its AI                               *)
(* (apps/api/src/scenario): of those that match a message the first is     *)
(* taken, its instructions go to the model, and its actions are applied to *)
(* the conversation: a tag, a member in charge, a priority.  The webhook   *)
(* applies them for each text it stores, and the reply generator           *)
(* (apps/api/src/ai/ai-reply-generator.service.ts) for an agent's request  *)
(* and for a draft in the background; these run side by side, and beside   *)
(* the agents.  Every call of the database is a step.                      *)
(***************************************************************************)
EXTENDS Hours, Sequences, FiniteSets

CONSTANTS
  Appliers,    \* slots for what is under way
  Labels,      \* names of tags
  Words,       \* keywords
  SnStaff,     \* workspace members
  NoLabel, NoOne,
  SnSetups     \* the scenarios set up, the message, and how often things happen

Sources == {"inbound", "ask", "draft"}
SnEvents == Sources \union {"agents", "deletes", "leaves", "faults"}
Prios == {"LOW", "NORMAL", "HIGH", "URGENT"}
Unset == "unset"

\* A scenario's trigger, its rank, and its actions; here: is it for the conversation's
\* channel, or for all.
ScenarioRow == [on : BOOLEAN, here : BOOLEAN, words : SUBSET Words, labels : SUBSET Labels,
                from : Hour \union {NoHour}, till : Hour \union {NoHour}, rank : Nat,
                label : Labels \union {NoLabel}, member : SnStaff \union {NoOne},
                prio : Prios \union {Unset}, escalate : BOOLEAN]

ASSUME ScenariosAssumption ==
  \A s \in SnSetups :
    /\ s.rows \in Seq(ScenarioRow)
    /\ s.elsewhere \subseteq Labels /\ s.hour \in Hour /\ s.left \in [SnEvents -> Nat]

VARIABLES
  setup,        \* the scenarios, in the order of their instructions, and the message
  labels,       \* the tags of the tenant
  worn,         \* the conversation's links to them
  inCharge, prio,
  staff,        \* the members who are active
  ap,           \* what is under way, or has just ended
  stirred,      \* what may make an application fail
  snLeft

snVars == <<setup, labels, worn, inCharge, prio, staff, ap, stirred, snLeft>>

ApSteps == {"idle", "match", "tag", "makeTag", "link", "revive", "makeLink", "tagAudit", "member",
            "assign", "assignAudit", "prio", "audit", "done", "failed"}
RowState == {"none", "live", "gone"}
\* row: the scenario that was chosen, 0 for none; undone: the actions somebody undid since.
NoAp == [by |-> "inbound", pc |-> "idle", row |-> 0, tags |-> {}, undone |-> {}]

SnTypeOK ==
  /\ labels \in [Labels -> RowState] /\ worn \in [Labels -> RowState]
  /\ inCharge \in SnStaff \union {NoOne} /\ prio \in Prios /\ staff \subseteq SnStaff
  /\ ap \in [Appliers -> [by : Sources, pc : ApSteps, row : 0..Len(setup.rows), tags : SUBSET Labels,
                          undone : SUBSET {"label", "member", "prio"}]]
  /\ stirred \subseteq {"beside", "deleted", "left", "fault"}
  /\ snLeft \in [SnEvents -> Nat]

SnInit ==
  /\ setup \in SnSetups /\ snLeft = setup.left
  /\ labels \in [Labels -> {"none", "live"}]
  /\ worn \in [Labels -> RowState] /\ \A l \in Labels : labels[l] = "none" => worn[l] = "none"
  /\ inCharge = NoOne /\ prio = "NORMAL" /\ staff = SnStaff
  /\ ap = [a \in Appliers |-> NoAp] /\ stirred = {}

SnUses(what) == snLeft[what] > 0 /\ snLeft' = [snLeft EXCEPT ![what] = @ - 1]

-----------------------------------------------------------------------------
(* Which scenario matches. *)

\* All kinds of triggers that are set up must be there; one without any never matches.
Matches(r, words, tags) ==
  /\ r.on /\ r.here /\ Within(setup.hour, r.from, r.till)
  /\ r.words \union r.labels # {}
  /\ r.words = {} \/ r.words \intersect words # {}
  /\ r.labels = {} \/ r.labels \intersect tags # {}

\* Sorted by priority, then by instructions.
FirstOf(fits) == {i \in fits : \A j \in fits : \/ setup.rows[i].rank < setup.rows[j].rank
                                               \/ setup.rows[i].rank = setup.rows[j].rank /\ i <= j}

Worn == {l \in Labels : worn[l] = "live" /\ labels[l] = "live"}

\* The generator looks at the tags of all conversations of the customer, and at the last
\* three messages; the webhook at this conversation and this message.
TagsFor(by) == IF by = "inbound" THEN Worn ELSE Worn \union setup.elsewhere
WordsFor(by) == IF by = "inbound" THEN setup.words ELSE setup.words \union setup.before

Chosen(by, tags) ==
  IF ~setup.enabled THEN {} ELSE FirstOf({i \in DOMAIN setup.rows : Matches(setup.rows[i], WordsFor(by), tags)})

-----------------------------------------------------------------------------
(* Applying its actions. *)

Doing(a) == setup.rows[ap[a].row]
ApAt(a, pc) == ap[a].pc = pc
Underway(a) == ap[a].pc \notin {"idle", "done", "failed"}
ApGoes(a, pc) == ap' = [ap EXCEPT ![a].pc = pc]
PrioOf(r) == IF r.prio # Unset THEN r.prio ELSE IF r.escalate THEN "HIGH" ELSE Unset
Acts(r) == r.label # NoLabel \/ r.member # NoOne \/ PrioOf(r) # Unset

\* What comes after the tag, and after the member.
AfterMember(r) == IF PrioOf(r) # Unset THEN "prio" ELSE IF Acts(r) THEN "audit" ELSE "done"
AfterTag(r) == IF r.member # NoOne THEN "member" ELSE AfterMember(r)

\* The conversation's tags are read first.
StartApplying(a, by) ==
  /\ ~Underway(a) /\ SnUses(by)
  /\ ap' = [ap EXCEPT ![a] = [NoAp EXCEPT !.by = by, !.pc = "match", !.tags = TagsFor(by)]]
  /\ stirred' = IF \E o \in Appliers \ {a} : Underway(o) THEN stirred \union {"beside"} ELSE stirred
  /\ UNCHANGED <<setup, labels, worn, inCharge, prio, staff>>

MatchScenario(a) ==
  /\ ApAt(a, "match")
  /\ IF Chosen(ap[a].by, ap[a].tags) = {}
     THEN ApGoes(a, "done")
     ELSE \E i \in Chosen(ap[a].by, ap[a].tags) :
            LET r == setup.rows[i] IN
            ap' = [ap EXCEPT ![a].row = i, ![a].pc = IF r.label # NoLabel THEN "tag" ELSE AfterTag(r)]
  /\ UNCHANGED <<setup, labels, worn, inCharge, prio, staff, stirred, snLeft>>

FindTag(a) ==
  /\ ApAt(a, "tag")
  /\ ApGoes(a, IF labels[Doing(a).label] = "live" THEN "link" ELSE "makeTag")
  /\ UNCHANGED <<setup, labels, worn, inCharge, prio, staff, stirred, snLeft>>

\* The name is unique in the tenant, also among deleted tags.
MakeLabel(a) ==
  /\ ApAt(a, "makeTag")
  /\ LET l == Doing(a).label IN
     IF labels[l] = "none"
     THEN labels' = [labels EXCEPT ![l] = "live"] /\ ApGoes(a, "link")
     ELSE ApGoes(a, "failed") /\ UNCHANGED labels
  /\ UNCHANGED <<setup, worn, inCharge, prio, staff, stirred, snLeft>>

\* The link may be there, or have been removed before.
LinkStep(state) == CASE state = "live" -> "known" [] state = "gone" -> "revive" [] OTHER -> "makeLink"

LookForLink(a) ==
  /\ ApAt(a, "link")
  /\ LET r == Doing(a)
         step == LinkStep(worn[r.label]) IN
     ApGoes(a, IF step = "known" THEN AfterTag(r) ELSE step)
  /\ UNCHANGED <<setup, labels, worn, inCharge, prio, staff, stirred, snLeft>>

ReviveLink(a) ==
  /\ ApAt(a, "revive")
  /\ worn' = [worn EXCEPT ![Doing(a).label] = "live"]
  /\ ApGoes(a, "tagAudit")
  /\ UNCHANGED <<setup, labels, inCharge, prio, staff, stirred, snLeft>>

MakeLink(a) ==
  /\ ApAt(a, "makeLink")
  /\ LET l == Doing(a).label IN
     IF worn[l] = "none"
     THEN worn' = [worn EXCEPT ![l] = "live"] /\ ApGoes(a, "tagAudit")
     ELSE ApGoes(a, "failed") /\ UNCHANGED worn
  /\ UNCHANGED <<setup, labels, inCharge, prio, staff, stirred, snLeft>>

\* A row of the audit log names a user, or none; "system", in whose name drafts are made,
\* is neither.
Audited(a, pc) == ApGoes(a, IF ap[a].by = "draft" THEN "failed" ELSE pc)

AuditTag(a) ==
  /\ ApAt(a, "tagAudit") /\ Audited(a, AfterTag(Doing(a)))
  /\ UNCHANGED <<setup, labels, worn, inCharge, prio, staff, stirred, snLeft>>

\* The member is looked for among the active ones, then the conversation is read.
FindMember(a) ==
  /\ ApAt(a, "member")
  /\ LET r == Doing(a) IN
     ApGoes(a, IF r.member \notin staff THEN "failed" ELSE IF inCharge = r.member THEN AfterMember(r) ELSE "assign")
  /\ UNCHANGED <<setup, labels, worn, inCharge, prio, staff, stirred, snLeft>>

\* Whoever has chosen another member or priority is overruled.
Overruled(what, who) ==
  [o \in Appliers |-> IF o \in who THEN [ap[o] EXCEPT !.undone = @ \union {what}] ELSE ap[o]]
Chose == {o \in Appliers : ap[o].row # 0}
OfOther(m) == {o \in Chose : Doing(o).member # m}
OfOtherPrio(p) == {o \in Chose : PrioOf(Doing(o)) # p}
OfLabel(l) == {o \in Chose : Doing(o).label = l}

AssignMember(a) ==
  /\ ApAt(a, "assign")
  /\ inCharge' = Doing(a).member
  /\ ap' = [Overruled("member", OfOther(Doing(a).member)) EXCEPT ![a].pc = "assignAudit", ![a].undone = @ \ {"member"}]
  /\ UNCHANGED <<setup, labels, worn, prio, staff, stirred, snLeft>>

AuditAssignment(a) ==
  /\ ApAt(a, "assignAudit") /\ Audited(a, AfterMember(Doing(a)))
  /\ UNCHANGED <<setup, labels, worn, inCharge, prio, staff, stirred, snLeft>>

SetPrio(a) ==
  /\ ApAt(a, "prio")
  /\ prio' = PrioOf(Doing(a))
  /\ ap' = [Overruled("prio", OfOtherPrio(PrioOf(Doing(a)))) EXCEPT ![a].pc = "audit", ![a].undone = @ \ {"prio"}]
  /\ UNCHANGED <<setup, labels, worn, inCharge, staff, stirred, snLeft>>

AuditMatch(a) ==
  /\ ApAt(a, "audit") /\ Audited(a, "done")
  /\ UNCHANGED <<setup, labels, worn, inCharge, prio, staff, stirred, snLeft>>

\* A call fails: the webhook logs it and goes on, a request or a draft is given up.
ApplyFails(a) ==
  /\ Underway(a) /\ SnUses("faults")
  /\ ApGoes(a, "failed")
  /\ stirred' = stirred \union {"fault"}
  /\ UNCHANGED <<setup, labels, worn, inCharge, prio, staff>>

-----------------------------------------------------------------------------
(* The agents. *)

AgentUnlinks(l) ==
  /\ worn[l] = "live" /\ SnUses("agents")
  /\ worn' = [worn EXCEPT ![l] = "gone"]
  /\ ap' = Overruled("label", OfLabel(l))
  /\ UNCHANGED <<setup, labels, inCharge, prio, staff, stirred>>

AgentTakesOver(who, p) ==
  /\ who \in staff \union {NoOne} /\ SnUses("agents")
  /\ inCharge' = who /\ prio' = p
  /\ ap' = [o \in Appliers |->
              [ap[o] EXCEPT !.undone = @ \union (IF o \in OfOther(who) THEN {"member"} ELSE {})
                                       \union (IF o \in OfOtherPrio(p) THEN {"prio"} ELSE {})]]
  /\ UNCHANGED <<setup, labels, worn, staff, stirred>>

LabelDeleted(l) ==
  /\ labels[l] = "live" /\ SnUses("deletes")
  /\ labels' = [labels EXCEPT ![l] = "gone"]
  /\ ap' = Overruled("label", OfLabel(l))
  /\ stirred' = stirred \union {"deleted"}
  /\ UNCHANGED <<setup, worn, inCharge, prio, staff>>

MemberLeaves(m) ==
  /\ m \in staff /\ SnUses("leaves")
  /\ staff' = staff \ {m} /\ stirred' = stirred \union {"left"}
  /\ UNCHANGED <<setup, labels, worn, inCharge, prio, ap>>

SnNext ==
  \/ \E a \in Appliers :
       \/ \E by \in Sources : StartApplying(a, by)
       \/ MatchScenario(a) \/ FindTag(a) \/ MakeLabel(a) \/ LookForLink(a) \/ ReviveLink(a) \/ MakeLink(a)
       \/ AuditTag(a) \/ FindMember(a) \/ AssignMember(a) \/ AuditAssignment(a) \/ SetPrio(a) \/ AuditMatch(a)
       \/ ApplyFails(a)
  \/ \E l \in Labels : AgentUnlinks(l) \/ LabelDeleted(l)
  \/ \E m \in SnStaff : MemberLeaves(m)
  \/ \E who \in SnStaff \union {NoOne}, p \in Prios : AgentTakesOver(who, p)

SnSpec == SnInit /\ [][SnNext]_snVars

-----------------------------------------------------------------------------
(* Properties. *)

\* When the actions of a scenario have been applied, the conversation has its tag, its member
\* and its priority, but for what an agent or another scenario has changed since.
ActionsTake ==
  \A a \in Appliers : ApAt(a, "done") /\ ap[a].row # 0 =>
    LET r == Doing(a) IN
    /\ r.label # NoLabel /\ "label" \notin ap[a].undone => r.label \in Worn
    /\ r.member # NoOne /\ "member" \notin ap[a].undone => inCharge = r.member
    /\ PrioOf(r) # Unset /\ "prio" \notin ap[a].undone => prio = PrioOf(r)

\* Nothing but a failed call, a deleted tag, a member who left or another application at the
\* same time breaks an application off; those of drafts break off whenever they act.
BreaksOffForAReason ==
  \A a \in Appliers :
    /\ ApAt(a, "failed") => stirred # {} \/ (ap[a].by = "draft" /\ Acts(Doing(a)))
    /\ ap[a].by = "draft" /\ ApAt(a, "done") => ap[a].row = 0 \/ ~Acts(Doing(a))

\* The scenario that is applied is one for the hour of the day, by the clock, and no other
\* one that fits comes before it.
RightOneIsChosen ==
  \A a \in Appliers : ap[a].row # 0 =>
    LET Fits(r) == /\ r.on /\ r.here /\ setup.hour \in ClockWindow(r.from, r.till)
                   /\ \E t \in {<<r.words, WordsFor(ap[a].by)>>, <<r.labels, ap[a].tags>>} : t[1] # {}
                   /\ \A t \in {<<r.words, WordsFor(ap[a].by)>>, <<r.labels, ap[a].tags>>} :
                        t[1] # {} => t[1] \intersect t[2] # {} IN
    /\ Fits(Doing(a))
    /\ \A i \in DOMAIN setup.rows : Fits(setup.rows[i]) =>
         \/ Doing(a).rank < setup.rows[i].rank
         \/ Doing(a).rank = setup.rows[i].rank /\ ap[a].row <= i

ScenariosHold == ActionsTake /\ BreaksOffForAReason /\ RightOneIsChosen
=============================================================================
