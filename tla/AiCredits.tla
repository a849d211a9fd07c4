------------------------------ MODULE AiCredits ------------------------------
(***************************************************************************)
(* The monthly AI credits of one tenant: the usage counter of each month,  *)
(* the background flows that reserve a credit before they call the LLM     *)
(* (runWithAiCredit in apps/api/src/ai/ai-credit.util.ts) and the requests *)
(* of agents that check the counter first and charge afterwards            *)
(* (assertAiCreditAvailable and incrementAiCreditUsage in                  *)
(* apps/api/src/inbox/inbox.service.ts).  Each call runs once and keeps    *)
(* its outcome, so that the counters can be held against the calls.        *)
(***************************************************************************)
EXTENDS Integers, FiniteSets

CONSTANTS
  Background,  \* calls of auto-reply, automation reply and hybrid draft
  Manual,      \* requests: aiSuggest, getConversationSummary, aiTest
  MaxMonth,    \* bound: usage periods
  Limits,      \* maxAiCreditsPerMonth of the plans the tenant may have
  Bounds       \* how many plan changes, failed calls and crashes there may be

Months == 1..MaxMonth
Calls == Background \union Manual
Events == {"plans", "faults", "crashes"}

ASSUME CreditsAssumption ==
  /\ IsFiniteSet(Background) /\ IsFiniteSet(Manual)
  /\ Background \intersect Manual = {}
  /\ MaxMonth \in Nat \ {0}
  /\ Limits \subseteq Nat /\ Limits # {}
  /\ Bounds \in [Events -> Nat]

VARIABLES
  limit,   \* PlanLimit of the tenant's plan
  month,   \* the current usage period
  used,    \* UsageCounter.value of each period; an absent row counts 0
  call,    \* the calls, with their outcome once they have ended
  budget

vars == <<limit, month, used, call, budget>>

-----------------------------------------------------------------------------

InProgress == {"reserve", "run", "answered", "release", "generate", "charge"}
\* paid: a credit bought its answer; lost: a credit bought nothing;
\* ended: no credit was spent
Outcomes == {"paid", "lost", "ended"}

\* cap is the limit the call has read, month the period it counts in.
Call == [pc : {"idle"} \union InProgress \union Outcomes, cap : Limits, month : Months]

TypeOK ==
  /\ limit \in Limits /\ month \in Months
  /\ used \in [Months -> Nat]
  /\ call \in [Calls -> Call]
  /\ budget \in [Events -> Nat]

Init ==
  /\ limit \in Limits /\ month = 1
  /\ used = [m \in Months |-> 0]
  /\ call = [c \in Calls |-> [pc |-> "idle", cap |-> limit, month |-> 1]]
  /\ budget = Bounds

Spend(e) == budget[e] > 0 /\ budget' = [budget EXCEPT ![e] = @ - 1]
Goto(c, pc) == call' = [call EXCEPT ![c].pc = pc]
Start(c, pc) == call' = [call EXCEPT ![c] = [pc |-> pc, cap |-> limit, month |-> month]]

-----------------------------------------------------------------------------
(* runWithAiCredit. *)

\* Reads the limit and computes the period; a plan without credits, or a
\* counter row that cannot be created, ends the call.
Begin(c) ==
  /\ call[c].pc = "idle"
  /\ \/ limit > 0 /\ Start(c, "reserve") /\ UNCHANGED budget
     \/ limit <= 0 /\ Start(c, "ended") /\ UNCHANGED budget
     \/ Spend("faults") /\ Start(c, "ended")
  /\ UNCHANGED <<limit, month, used>>

\* Mutant: the last credit is given away twice.
AvailableAtTheLimit(n, cap) == n <= cap
Available(n, cap) == n < cap

\* The conditional increment; without a free credit the call is skipped, and
\* if the update throws the call ends, whether it took the credit or not.
Reserve(c) ==
  /\ call[c].pc = "reserve"
  /\ LET m == call[c].month IN
     \/ /\ Available(used[m], call[c].cap)
        /\ used' = [used EXCEPT ![m] = @ + 1]
        /\ \/ Goto(c, "run") /\ UNCHANGED budget
           \/ Goto(c, "lost") /\ Spend("faults")
     \/ ~Available(used[m], call[c].cap) /\ Goto(c, "ended") /\ UNCHANGED <<used, budget>>
     \/ Spend("faults") /\ Goto(c, "ended") /\ UNCHANGED used
  /\ UNCHANGED <<limit, month>>

\* The flow ends without consuming the credit: rate limited, the LLM failed or
\* had only knowledge to show, the answer was empty or could not be sent, or
\* the step that saves or sends it threw.
RunInVain(c) ==
  /\ call[c].pc = "run"
  /\ Goto(c, "release")
  /\ UNCHANGED <<limit, month, used, budget>>

\* The answer is sent or saved, and consume() keeps the credit.
RunAnswers(c) ==
  /\ call[c].pc = "run"
  /\ Goto(c, "answered")
  /\ UNCHANGED <<limit, month, used, budget>>

\* The run is over, or threw after consume(): finally leaves the credit spent.
Keep(c) ==
  /\ call[c].pc = "answered"
  /\ Goto(c, "paid")
  /\ UNCHANGED <<limit, month, used, budget>>

\* Mutant: the credit goes back to the month in which the call ends.
PeriodAtTheEnd(c) == month
\* The period whose counter a call gives its credit back to.
PeriodOf(c) == call[c].month

\* Mutant: the decrement of the current month's counter, without its condition.
ReleaseUnguarded(c) ==
  /\ call[c].pc = "release"
  /\ used' = [used EXCEPT ![month] = @ - 1]
  /\ Goto(c, "ended")
  /\ UNCHANGED <<limit, month, budget>>

\* The conditional decrement; if it fails that is logged and the credit is gone.  A failure
\* after the decrement is only logged: it is like no failure.
Release(c) ==
  /\ call[c].pc = "release"
  /\ \/ /\ used' = [used EXCEPT ![PeriodOf(c)] = IF @ > 0 THEN @ - 1 ELSE @]
        /\ Goto(c, "ended")
        /\ UNCHANGED budget
     \/ Spend("faults") /\ Goto(c, "lost") /\ UNCHANGED used
  /\ UNCHANGED <<limit, month>>

-----------------------------------------------------------------------------
(* The requests of agents. *)

\* assertAiCreditAvailable reads the limit and the counter of this month; the
\* request is refused, or goes on without a credit of its own.
Check(c) ==
  /\ call[c].pc = "idle"
  /\ IF limit > 0 /\ Available(used[month], limit)
     THEN Start(c, "generate")
     ELSE Start(c, "ended")
  /\ UNCHANGED <<limit, month, used, budget>>

\* The LLM answers and the suggestion is saved, or the request fails.
Generate(c) ==
  /\ call[c].pc = "generate"
  /\ Goto(c, "charge") \/ Goto(c, "ended")
  /\ UNCHANGED <<limit, month, used, budget>>

\* incrementAiCreditUsage, in the period of this moment; the update may fail, or its answer
\* be lost, and with it that of the request.
Charge(c) ==
  /\ call[c].pc = "charge"
  /\ \/ \E outcome \in {"paid", "lost"} :
          /\ used' = [used EXCEPT ![month] = @ + 1]
          /\ call' = [call EXCEPT ![c].pc = outcome, ![c].month = month]
          /\ IF outcome = "lost" THEN Spend("faults") ELSE UNCHANGED budget
     \/ Spend("faults") /\ Goto(c, "ended") /\ UNCHANGED used
  /\ UNCHANGED <<limit, month>>

-----------------------------------------------------------------------------
(* The surroundings. *)

\* The calls that hold a credit they have not settled yet.
Holding == {"run", "answered", "release"}

\* The process of a call dies: a credit that bought an answer is spent, any
\* other reserved credit is lost.
Crash(c) ==
  /\ call[c].pc \in InProgress
  /\ Spend("crashes")
  /\ Goto(c, CASE call[c].pc = "answered" -> "paid"
               [] call[c].pc \in {"run", "release"} -> "lost"
               [] OTHER -> "ended")
  /\ UNCHANGED <<limit, month, used>>

NextMonth ==
  /\ month + 1 \in Months
  /\ month' = month + 1
  /\ UNCHANGED <<limit, used, call, budget>>

\* The tenant moves to another plan.
ChangePlan(n) ==
  /\ Spend("plans")
  /\ limit' = n
  /\ UNCHANGED <<month, used, call>>

Next ==
  \/ \E c \in Background :
       Begin(c) \/ Reserve(c) \/ RunInVain(c) \/ RunAnswers(c) \/ Keep(c) \/ Release(c)
  \/ \E c \in Manual : Check(c) \/ Generate(c) \/ Charge(c)
  \/ \E c \in Calls : Crash(c)
  \/ NextMonth
  \/ \E n \in Limits : ChangePlan(n)

Spec == Init /\ [][Next]_vars

-----------------------------------------------------------------------------
(* Properties. *)

\* The calls that a credit of month m is charged to.
ChargedTo(m) ==
  {c \in Calls : call[c].pc \in Holding \union {"paid", "lost"} /\ call[c].month = m}

\* The counter of a month tells what happened: each of its credits bought an
\* answer, is held by a call that is still running, or was lost to a failure.
\* A call that runs across the end of a month settles in its own month, and
\* calls that return credits while others take them never disturb the count.
CreditsAddUp == \A m \in Months : used[m] = Cardinality(ChargedTo(m))

\* However many flows run at once, whatever fails and whatever agents charge
\* beside them: the flows that reserve their credits never take more of a month
\* than the largest limit of the tenant's plans.
ReservedInLimit ==
  \A m \in Months : \E n \in Limits : Cardinality(ChargedTo(m) \intersect Background) <= n

\* No month is charged more than the largest limit of the tenant's plans.
CreditsWithinLimit == \A m \in Months : \E n \in Limits : used[m] <= n
=============================================================================
