------------------------------ MODULE Quality -------------------------------
(***************************************************************************)
(* The quality of AI replies: the nightly sampling that has some of        *)
(* yesterday's replies scored, the guardrail that turns auto-reply off     *)
(* (apps/api/src/ai), and the settings the administrators' screens read    *)
(* and write back whole (apps/api/src/inbox, apps/web ai-settings.tsx).    *)
(* One tenant; a day's replies are few enough for a single sample.         *)
(***************************************************************************)
EXTENDS Integers, FiniteSets

CONSTANTS
  Workers,   \* processes whose scheduler runs the nightly job
  Admins,    \* administrators' settings screens
  LastDay,   \* the days, counted from 0
  QaBounds   \* the scenarios: how often each thing happens, and the days before that scored low, or well

ASSUME QualityAssumption ==
  /\ LastDay \in Nat
  /\ QaBounds \subseteq [nights : Nat, sheets : Nat, faults : Nat,
                         low : SUBSET (0..(LastDay - 1)), good : SUBSET (0..(LastDay - 1))]

VARIABLES
  day,       \* the day, in UTC
  replied,   \* has the AI replied yesterday, and today
  scores,    \* the scores stored: the day they were made, low or not
  stored,    \* the tenant's settings
  night,     \* by process: where its nightly job is
  sheet,     \* by administrator: the settings screen
  trail,     \* the nights on which the guardrail turned auto-reply off, and did not see a reason to
  qaLeft

qaVars == <<day, replied, scores, stored, night, sheet, trail, qaLeft>>

Low == 2
Good == 4
GuardrailThreshold == 3
ConsecutiveDays == 3
WindowDays == 3
Off == [at |-> "off"]
Unasked == [at |-> "closed"]
Defaults == [auto |-> FALSE, rest |-> "default"]

QaUses(what) == qaLeft[what] > 0 /\ qaLeft' = [qaLeft EXCEPT ![what] = @ - 1]

-----------------------------------------------------------------------------
(* The guardrail's arithmetic.  A window ends where a day begins and starts *)
(* WindowDays - 1 days before: it holds the scores of two days.             *)

Window(end) == (end - (WindowDays - 1))..(end - 1)

In(end) == {s \in scores : s.made \in Window(end)}
Count(set, value) == Cardinality({s \in set : s.value = value})
SumOf(set) == Low * Count(set, Low) + Good * Count(set, Good)
BelowThreshold(set) == SumOf(set) < GuardrailThreshold * Cardinality(set)
RollingLow(end) == In(end) # {} /\ BelowThreshold(In(end))

\* Mutant: two days in a row are enough.
ShouldDisableSooner(asOf) == \A offset \in 1..(ConsecutiveDays - 1) : RollingLow(asOf - offset + 1)
\* As of the beginning of the night's day: the scores made tonight do not count yet.
ShouldDisable(asOf) == \A offset \in 1..ConsecutiveDays : RollingLow(asOf - offset + 1)

-----------------------------------------------------------------------------

QaTypeOK ==
  /\ day \in 0..LastDay /\ replied \in [yesterday : BOOLEAN, today : BOOLEAN]
  /\ scores \subseteq [made : 0..LastDay, value : {Low, Good}, by : Workers]
  /\ stored \in [auto : BOOLEAN, rest : {"theirs", "default"}, notice : BOOLEAN, prompt : {"theirs", "saved"}]
  /\ \A w \in Workers : night[w] # Off =>
       night[w] \in [at : {"scoring", "evaluating", "disabling"}, asOf : 0..LastDay]
  /\ \A a \in Admins : sheet[a] # Unasked =>
       sheet[a] \in [at : {"open", "prompt"}, auto : BOOLEAN, rest : {"theirs", "default"},
                     read : BOOLEAN, typed : BOOLEAN]
  /\ trail \in [disabled : SUBSET (0..LastDay), spared : SUBSET (0..LastDay)]

\* A scenario may begin late, after days with scores.
QaInit ==
  /\ qaLeft \in QaBounds
  /\ LET scored == qaLeft.low \union qaLeft.good IN
       /\ day \in 0..LastDay /\ (day = 0 \/ day - 1 \in scored) /\ \A d \in scored : d < day
       /\ replied = [yesterday |-> scored # {}, today |-> FALSE]
  /\ \E w \in Workers :
       scores = {[made |-> d, value |-> Low, by |-> w] : d \in qaLeft.low} \union
                {[made |-> d, value |-> Good, by |-> w] : d \in qaLeft.good}
  /\ stored = [auto |-> TRUE, rest |-> "theirs", notice |-> FALSE, prompt |-> "theirs"]
  /\ night = [w \in Workers |-> Off]
  /\ sheet = [a \in Admins |-> Unasked]
  /\ trail = [disabled |-> {}, spared |-> {}]

AiReplies ==
  /\ ~replied.today /\ replied' = [replied EXCEPT !.today = TRUE]
  /\ UNCHANGED <<day, scores, stored, night, sheet, trail, qaLeft>>

\* Nothing waits for the job of a night, which may still run, or never have run.
Midnight ==
  /\ day < LastDay /\ day' = day + 1
  /\ replied' = [yesterday |-> replied.today, today |-> FALSE]
  /\ UNCHANGED <<scores, stored, night, sheet, trail, qaLeft>>

-----------------------------------------------------------------------------
(* The nightly job. *)

\* Not while this process still runs it; nothing to do without replies yesterday.
StartNight(w) ==
  /\ night[w] = Off /\ QaUses("nights")
  /\ replied.yesterday
  /\ night' = [night EXCEPT ![w] = [at |-> "scoring", asOf |-> day]]
  /\ UNCHANGED <<day, replied, scores, stored, sheet, trail>>

\* The model scores the sample; an answer that makes no sense, or none, leaves no score, and
\* the sample may be another tenant's.
Score(w) ==
  /\ night[w].at = "scoring"
  /\ \/ \E value \in {Low, Good} : scores' = scores \union {[made |-> day, value |-> value, by |-> w]}
     \/ UNCHANGED scores
  /\ night' = [night EXCEPT ![w].at = "evaluating"]
  /\ UNCHANGED <<day, replied, stored, sheet, trail, qaLeft>>

Evaluate(w) ==
  /\ night[w].at = "evaluating"
  /\ LET asOf == night[w].asOf IN
       /\ night' = [night EXCEPT ![w] = IF ShouldDisable(asOf) /\ stored.auto THEN [@ EXCEPT !.at = "disabling"] ELSE Off]
       /\ trail' = [trail EXCEPT !.spared = IF ShouldDisable(asOf) THEN @ ELSE @ \union {asOf}]
  /\ UNCHANGED <<day, replied, scores, stored, sheet, qaLeft>>

\* Without looking at the settings again.
Disable(w) ==
  /\ night[w].at = "disabling"
  /\ stored' = [stored EXCEPT !.auto = FALSE, !.notice = TRUE]
  /\ trail' = [trail EXCEPT !.disabled = @ \union {night[w].asOf}]
  /\ night' = [night EXCEPT ![w] = Off]
  /\ UNCHANGED <<day, replied, scores, sheet, qaLeft>>

NightFails(w) ==
  /\ night[w] # Off /\ QaUses("faults")
  /\ night' = [night EXCEPT ![w] = Off]
  /\ UNCHANGED <<day, replied, scores, stored, sheet, trail>>

-----------------------------------------------------------------------------
(* The settings screen: it is read once and saved whole, however old it is. *)

\* A screen whose read failed shows the defaults, and can be saved all the same.
OpenSheet(a) ==
  /\ sheet[a] = Unasked /\ QaUses("sheets")
  /\ \/ sheet' = [sheet EXCEPT ![a] = [at |-> "open", auto |-> stored.auto, rest |-> stored.rest,
                                       read |-> TRUE, typed |-> FALSE]]
     \/ sheet' = [sheet EXCEPT ![a] = [at |-> "open", auto |-> Defaults.auto, rest |-> Defaults.rest,
                                       read |-> FALSE, typed |-> FALSE]]
  /\ UNCHANGED <<day, replied, scores, stored, night, trail>>

Flip(a) ==
  /\ sheet[a].at = "open" /\ ~sheet[a].typed
  /\ sheet' = [sheet EXCEPT ![a].auto = ~@, ![a].typed = TRUE]
  /\ UNCHANGED <<day, replied, scores, stored, night, trail, qaLeft>>

\* Turning auto-reply on takes the guardrail's notice away.
Written(a) == [stored EXCEPT !.auto = sheet[a].auto, !.rest = sheet[a].rest, !.notice = @ /\ ~sheet[a].auto]
SaveSettings(a) ==
  /\ sheet[a].at = "open"
  /\ stored' = Written(a)
  /\ sheet' = [sheet EXCEPT ![a].at = "prompt"]
  /\ UNCHANGED <<day, replied, scores, night, trail, qaLeft>>

\* The prompt is a second call: when it fails, an error is shown though the settings are
\* saved; a screen whose read failed has no prompt to save.
SavePrompt(a) ==
  /\ sheet[a].at = "prompt"
  /\ \/ sheet[a].read /\ stored' = [stored EXCEPT !.prompt = "saved"] /\ UNCHANGED qaLeft
     \/ ~sheet[a].read /\ UNCHANGED <<stored, qaLeft>>
     \/ QaUses("faults") /\ UNCHANGED stored
  /\ sheet' = [sheet EXCEPT ![a].at = "open", ![a].typed = FALSE]
  /\ UNCHANGED <<day, replied, scores, night, trail>>

CloseSheet(a) ==
  /\ sheet[a].at = "open"
  /\ sheet' = [sheet EXCEPT ![a] = Unasked]
  /\ UNCHANGED <<day, replied, scores, stored, night, trail, qaLeft>>

-----------------------------------------------------------------------------

QaNext == \/ AiReplies \/ Midnight
          \/ \E w \in Workers : StartNight(w) \/ Score(w) \/ Evaluate(w) \/ Disable(w) \/ NightFails(w)
          \/ \E a \in Admins : OpenSheet(a) \/ Flip(a) \/ SaveSettings(a) \/ SavePrompt(a) \/ CloseSheet(a)

QaSpec == QaInit /\ [][QaNext]_qaVars

-----------------------------------------------------------------------------
(* Properties. *)

\* What the design asks for (docs/superpowers/specs/2026-06-24-stage-12-ai-qa-policy-design.md:93):
\* the average of a day and the two before it, low on each of the last three days.
DesignWindow(last) == {s \in scores : s.made \in (last - (WindowDays - 1))..last}
DesignedLow(last) == DesignWindow(last) # {} /\ BelowThreshold(DesignWindow(last))
LastDays(asOf) == {asOf - offset : offset \in 1..ConsecutiveDays}
\* The day of that window that the code's has not: were there such scores?
LeftOut(last, value) == \E s \in scores : s.made = last - (WindowDays - 1) /\ s.value = value

\* The guardrail decides a night as its design would, although other processes score and
\* decide meanwhile, but for the oldest day of each window, which the code leaves out: it
\* turns auto-reply off against the design only over good scores of such a day, and leaves it
\* on against the design only over low ones.
GuardrailMissesOneDay ==
  /\ \A asOf \in trail.disabled : \A last \in LastDays(asOf) : DesignedLow(last) \/ LeftOut(last, Good)
  /\ \A asOf \in trail.spared :
       (\A last \in LastDays(asOf) : DesignedLow(last)) => \E last \in LastDays(asOf) : LeftOut(last, Low)

\* The guardrail's notice is up only while auto-reply is off, whatever screens are saved meanwhile.
NoticeStands == stored.notice => ~stored.auto

QualityHolds == GuardrailMissesOneDay /\ NoticeStands
=============================================================================
