------------------------------- MODULE Drafts -------------------------------
(***************************************************************************)
(* Replies to one conversation, by the auto-reply                          *)
(* (apps/api/src/ai/ai-auto-reply.service.ts), by automations              *)
(* (ai-automation-reply.service.ts) and by agents                          *)
(* (apps/api/src/line/line-reply.service.ts), and the suggestions an agent *)
(* is offered, made in the background after a quiet period                 *)
(* (ai-hybrid-draft.service.ts), on request (aiSuggest of                  *)
(* inbox.service.ts) or in place of an auto-reply that a human must look   *)
(* at.  Flows run side by side on several instances of the API; each has   *)
(* its own timer.  Credits are in AiCredits.                               *)
(***************************************************************************)
EXTENDS Integers, Sequences, FiniteSets

CONSTANTS
  Instances,
  Flows,        \* slots for what is under way
  DfLimit,      \* flows a rate counter lets through
  DfBounds      \* the scenarios: how many messages, replies, requests... there may be

DfEvents == {"messages", "replies", "rules", "asks", "verdicts", "switches", "faults", "crashes"}

ASSUME DraftsAssumption ==
  /\ DfLimit \in Nat \ {0}
  /\ DfBounds \subseteq [DfEvents -> Nat]

VARIABLES
  setting,     \* which of the two AI features the tenant has on
  said,        \* the stored messages, oldest first, by who wrote them
  pushed,      \* how many replies LINE accepted
  sugg,        \* the suggestions, oldest first
  rate,        \* the counters of auto-replies and of suggestions, and whether they expire
  timer,       \* the instances whose quiet period runs
  flow,
  human,       \* what an escalation has done to the conversation
  marred,      \* what went wrong for good: replies whose request broke off before it
               \* superseded the suggestions, and drafts that were missed (or hidden)
  dfLeft

dfVars == <<setting, said, pushed, sugg, rate, timer, flow, human, marred, dfLeft>>

Voices == {"customer", "agent", "system"}
Features == {"auto", "hybrid"}
Kinds == {"auto", "rule", "draft", "ask", "reply"}
Steps == {"idle", "check", "arm", "count", "expiry", "generate", "answer", "push", "store", "supersede",
          "tag", "mark", "raise", "retire", "offer", "hide"}
SuggestionStatus == {"shown", "superseded", "sent", "edited", "rejected"}
Counters == {"auto", "suggest"}

\* saw: how many messages there were when the answer was generated; at: the reply
\* that was stored; prev: the suggestion an agent replaces.
Flow == [pc : Steps, kind : Kinds, home : Instances, saw : Nat, at : Nat, prev : Nat]

\* after: how many messages there were when it was created.
Suggestion == [status : SuggestionStatus, background : BOOLEAN, saw : Nat, after : Nat]

Free == <<>>

DfTypeOK ==
  /\ setting \subseteq Features
  /\ said \in Seq(Voices)
  /\ pushed \in Nat
  /\ sugg \in Seq(Suggestion)
  /\ rate \in [Counters -> [count : Nat, expires : BOOLEAN]]
  /\ timer \subseteq Instances
  /\ \A f \in Flows : flow[f] # Free => flow[f] \in Flow
  /\ human \subseteq {"tagged", "marked", "raised"}
  /\ marred \in [loose : SUBSET Nat, missed : BOOLEAN, stuck : SUBSET Counters]
  /\ dfLeft \in [DfEvents -> Nat]

NoneCounted == [count |-> 0, expires |-> FALSE]

DfInit ==
  /\ setting \in {{"hybrid"}, {"auto", "hybrid"}}
  /\ said = <<>> /\ pushed = 0 /\ sugg = <<>>
  /\ rate = [c \in Counters |-> NoneCounted]
  /\ timer = {}
  /\ flow = [f \in Flows |-> Free]
  /\ human = {}
  /\ marred = [loose |-> {}, missed |-> FALSE, stuck |-> {}]
  /\ dfLeft \in DfBounds

Uses(e) ==
  /\ dfLeft[e] > 0
  /\ dfLeft' = [dfLeft EXCEPT ![e] = @ - 1]

At(f, step) == flow[f] # Free /\ flow[f].pc = step
Kind(f) == flow[f].kind
Goes(f, step) == flow' = [flow EXCEPT ![f].pc = step]
Stops(f) == flow' = [flow EXCEPT ![f] = Free]
Starts(f, kind, home, step, prev) ==
  /\ flow[f] = Free
  /\ flow' = [flow EXCEPT ![f] = [pc |-> step, kind |-> kind, home |-> home, saw |-> 0, at |-> 0,
                                  prev |-> prev]]

-----------------------------------------------------------------------------
(* What an agent is offered: the latest suggestion still shown, unless the *)
(* latest message is a reply that followed it.                              *)

Shown == {i \in 1..Len(sugg) : sugg[i].status = "shown" /\ ("hybrid" \in setting \/ ~sugg[i].background)}
Latest(S) == {i \in S : \A j \in S : j <= i}
AnsweredSince(i) == said # <<>> /\ said[Len(said)] # "customer" /\ Len(said) > sugg[i].after
Offered == {i \in Latest(Shown) : ~AnsweredSince(i)}

Superseded(which) ==
  [i \in DOMAIN sugg |-> IF sugg[i].status = "shown" /\ i \in which
                         THEN [sugg[i] EXCEPT !.status = "superseded"] ELSE sugg[i]]
Background == {i \in DOMAIN sugg : sugg[i].background}

-----------------------------------------------------------------------------
(* A message of the customer, and the quiet period after it.               *)

\* The webhook has stored the message and turns to the auto-reply.
Message(f, i) ==
  /\ Uses("messages")
  /\ said' = Append(said, "customer")
  /\ Starts(f, "auto", i, "check", 0)
  /\ UNCHANGED <<setting, pushed, sugg, rate, timer, human, marred>>

\* Off, or not in this mode: a draft may be due.  A keyword asks for a human.  A reply
\* sent a moment ago ends it.
TryAutoReply(f) ==
  /\ At(f, "check") /\ Kind(f) = "auto"
  /\ \/ Goes(f, "arm")
     \/ /\ "auto" \in setting
        /\ \/ Goes(f, "tag")
           \/ Stops(f) /\ \E k \in DOMAIN said : said[k] # "customer"
           \/ Goes(f, "count")
  /\ UNCHANGED <<setting, said, pushed, sugg, rate, timer, human, marred, dfLeft>>

\* The quiet period of this instance starts again.
TryHybridDraft(f) ==
  /\ At(f, "arm")
  /\ timer' = IF "hybrid" \in setting THEN timer \union {flow[f].home} ELSE timer
  /\ Stops(f)
  /\ UNCHANGED <<setting, said, pushed, sugg, rate, human, marred, dfLeft>>

TimerFires(f, i) ==
  /\ i \in timer /\ timer' = timer \ {i}
  /\ Starts(f, "draft", i, "check", 0)
  /\ UNCHANGED <<setting, said, pushed, sugg, rate, human, marred, dfLeft>>

\* Nothing to draft when the feature is off or the latest message is a reply.
BeginDraft(f) ==
  /\ At(f, "check") /\ Kind(f) = "draft"
  /\ IF "hybrid" \in setting /\ said[Len(said)] = "customer"
     THEN Goes(f, "count") ELSE Stops(f)
  /\ UNCHANGED <<setting, said, pushed, sugg, rate, timer, human, marred, dfLeft>>

-----------------------------------------------------------------------------
(* Requests of agents and automations.                                     *)

\* An agent asks for a suggestion, in place of prev or of none.
AskSuggestion(f, i, prev) ==
  /\ said # <<>> /\ Uses("asks")
  /\ Starts(f, "ask", i, "count", prev)
  /\ UNCHANGED <<setting, said, pushed, sugg, rate, timer, human, marred>>

\* A reply that no policy blocks goes to LINE.
Reply(f, i) ==
  /\ said # <<>> /\ Uses("replies")
  /\ Starts(f, "reply", i, "push", 0)
  /\ UNCHANGED <<setting, said, pushed, sugg, rate, timer, human, marred>>

\* An AI reply of an automation; it counts against no rate.
RuleReplies(f, i) ==
  /\ said # <<>> /\ Uses("rules")
  /\ Starts(f, "rule", i, "generate", 0)
  /\ UNCHANGED <<setting, said, pushed, sugg, rate, timer, human, marred>>

\* What became of a suggestion, as the composer reports it.
UpdateSuggestion(k, status) ==
  /\ k \in DOMAIN sugg /\ Uses("verdicts")
  /\ sugg' = [sugg EXCEPT ![k].status = status]
  /\ UNCHANGED <<setting, said, pushed, rate, timer, flow, human, marred>>

\* Switching the drafts off hides those there are, one step later.
SwitchHybrid(f, i) ==
  /\ Uses("switches")
  /\ \/ "hybrid" \in setting /\ setting' = setting \ {"hybrid"} /\ Starts(f, "draft", i, "hide", 0)
     \/ "hybrid" \notin setting /\ setting' = setting \union {"hybrid"} /\ UNCHANGED flow
  /\ marred' = [marred EXCEPT !.missed = TRUE]
  /\ UNCHANGED <<said, pushed, sugg, rate, timer, human>>

HideDrafts(f) ==
  /\ At(f, "hide")
  /\ sugg' = Superseded(Background)
  /\ Stops(f)
  /\ UNCHANGED <<setting, said, pushed, rate, timer, human, marred, dfLeft>>

-----------------------------------------------------------------------------
(* Generating an answer.                                                   *)

CounterOf(f) == IF Kind(f) = "auto" THEN "auto" ELSE "suggest"

\* Mutant: the expiry is set when the limit is reached.
ExpiryWhenFull(count) == count = DfLimit
NeedsExpiry(count) == count = 1

\* The counter is raised; the flow that raised it from nothing sets its expiry.
CountRate(f) ==
  /\ At(f, "count")
  /\ LET c == CounterOf(f)
         n == rate[c].count + 1 IN
     /\ rate' = [rate EXCEPT ![c].count = n]
     /\ CASE NeedsExpiry(n) -> Goes(f, "expiry")
          [] ~NeedsExpiry(n) /\ n > DfLimit -> Stops(f)
          [] OTHER -> Goes(f, "generate")
     /\ marred' = IF n > DfLimit /\ Kind(f) = "draft" THEN [marred EXCEPT !.missed = TRUE] ELSE marred
  /\ UNCHANGED <<setting, said, pushed, sugg, timer, human, dfLeft>>

SetExpiry(f) ==
  /\ At(f, "expiry")
  /\ rate' = [rate EXCEPT ![CounterOf(f)].expires = @ \/ rate[CounterOf(f)].count > 0]
  /\ Goes(f, "generate")
  /\ UNCHANGED <<setting, said, pushed, sugg, timer, human, marred, dfLeft>>

Expire(c) ==
  /\ rate[c].expires
  /\ rate' = [rate EXCEPT ![c] = NoneCounted]
  /\ UNCHANGED <<setting, said, pushed, sugg, timer, flow, human, marred, dfLeft>>

\* The prompt is made of the messages there are; then the model is asked.
Generate(f) ==
  /\ At(f, "generate")
  /\ flow' = [flow EXCEPT ![f].pc = "answer", ![f].saw = Len(said)]
  /\ UNCHANGED <<setting, said, pushed, sugg, rate, timer, human, marred, dfLeft>>

\* An answer, citations only, or a failure.  The auto-reply sends a confident answer
\* that no policy blocks and gives the others to a human; an automation tags what a
\* policy blocks, and drops the rest.
TakeAnswer(f) ==
  /\ At(f, "answer")
  /\ \/ /\ Stops(f)
        /\ marred' = IF Kind(f) = "draft" THEN [marred EXCEPT !.missed = TRUE] ELSE marred
     \/ /\ \/ Kind(f) \in {"auto", "rule"} /\ (Goes(f, "push") \/ Goes(f, "tag"))
           \/ Kind(f) \in {"draft", "ask"} /\ Goes(f, "retire")
        /\ UNCHANGED marred
  /\ UNCHANGED <<setting, said, pushed, sugg, rate, timer, human, dfLeft>>

\* The suggestions shown so far give way ...
Retire(f) ==
  /\ At(f, "retire")
  /\ sugg' = IF Kind(f) = "ask"
             THEN IF flow[f].prev = 0 THEN sugg ELSE [sugg EXCEPT ![flow[f].prev].status = "superseded"]
             ELSE Superseded(DOMAIN sugg)
  /\ Goes(f, "offer")
  /\ UNCHANGED <<setting, said, pushed, rate, timer, human, marred, dfLeft>>

\* ... to the new one.
Offer(f) ==
  /\ At(f, "offer")
  /\ sugg' = Append(sugg, [status |-> "shown", background |-> Kind(f) # "ask",
                           saw |-> flow[f].saw, after |-> Len(said)])
  /\ Stops(f)
  /\ UNCHANGED <<setting, said, pushed, rate, timer, human, marred, dfLeft>>

-----------------------------------------------------------------------------
(* Escalating to a human: the tag, the mark on the message, the priority,  *)
(* and the answer that was not sent, as a suggestion.                      *)

Tag(f) ==
  /\ At(f, "tag")
  /\ human' = human \union {"tagged"}
  /\ IF Kind(f) = "rule" THEN Stops(f) ELSE Goes(f, "mark")
  /\ UNCHANGED <<setting, said, pushed, sugg, rate, timer, marred, dfLeft>>

Mark(f) ==
  /\ At(f, "mark")
  /\ human' = human \union {"marked"}
  /\ Goes(f, "raise")
  /\ UNCHANGED <<setting, said, pushed, sugg, rate, timer, marred, dfLeft>>

\* After a keyword nothing was generated.
Raise(f) ==
  /\ At(f, "raise")
  /\ human' = human \union {"raised"}
  /\ IF flow[f].saw = 0 THEN Stops(f) ELSE Goes(f, "retire")
  /\ UNCHANGED <<setting, said, pushed, sugg, rate, timer, marred, dfLeft>>

-----------------------------------------------------------------------------
(* Replying.                                                               *)

\* LINE takes the message, or refuses it.
Push(f) ==
  /\ At(f, "push")
  /\ \/ pushed' = pushed + 1 /\ Goes(f, "store")
     \/ Stops(f) /\ UNCHANGED pushed
  /\ UNCHANGED <<setting, said, sugg, rate, timer, human, marred, dfLeft>>

StoreReply(f) ==
  /\ At(f, "store")
  /\ said' = Append(said, IF Kind(f) = "reply" THEN "agent" ELSE "system")
  /\ flow' = [flow EXCEPT ![f] = IF Kind(f) = "reply"
                                 THEN [@ EXCEPT !.pc = "supersede", !.at = Len(said) + 1] ELSE Free]
  /\ UNCHANGED <<setting, pushed, sugg, rate, timer, human, marred, dfLeft>>

GivesWay == DOMAIN sugg

\* An agent's reply retires what was suggested.
SupersedeByReply(f) ==
  /\ At(f, "supersede")
  /\ sugg' = Superseded(GivesWay)
  /\ Stops(f)
  /\ UNCHANGED <<setting, said, pushed, rate, timer, human, marred, dfLeft>>

-----------------------------------------------------------------------------
(* Failures.                                                               *)

\* What is lost when the flow breaks off where it is.
Damage(f) ==
  [loose |-> IF At(f, "supersede") THEN {flow[f].at} ELSE {},
   missed |-> flow[f] # Free /\ (At(f, "arm") \/ At(f, "check") \/ Kind(f) = "draft"),
   stuck |-> IF At(f, "expiry") THEN {CounterOf(f)} ELSE {}]
Marred(F) == [loose |-> marred.loose \union UNION {Damage(f).loose : f \in F},
              missed |-> marred.missed \/ \E f \in F : Damage(f).missed,
              stuck |-> marred.stuck \union UNION {Damage(f).stuck : f \in F}]

\* A call of the database or of Redis throws.
FlowFails(f) ==
  /\ flow[f] # Free /\ Uses("faults")
  /\ marred' = Marred({f}) /\ Stops(f)
  /\ UNCHANGED <<setting, said, pushed, sugg, rate, timer, human>>

\* An instance dies with its timer and its flows.
InstanceDies(i) ==
  /\ Uses("crashes")
  /\ LET dead == {f \in Flows : flow[f] # Free /\ flow[f].home = i} IN
     /\ marred' = [Marred(dead) EXCEPT !.missed = @ \/ i \in timer]
     /\ flow' = [f \in Flows |-> IF f \in dead THEN Free ELSE flow[f]]
  /\ timer' = timer \ {i}
  /\ UNCHANGED <<setting, said, pushed, sugg, rate, human>>

DfNext ==
  \/ \E f \in Flows :
       \/ \E i \in Instances :
            \/ Message(f, i) \/ TimerFires(f, i) \/ Reply(f, i) \/ RuleReplies(f, i) \/ SwitchHybrid(f, i)
            \/ \E prev \in 0..Len(sugg) : AskSuggestion(f, i, prev)
       \/ TryAutoReply(f) \/ TryHybridDraft(f) \/ BeginDraft(f) \/ HideDrafts(f)
       \/ CountRate(f) \/ SetExpiry(f) \/ Generate(f) \/ TakeAnswer(f) \/ Retire(f) \/ Offer(f)
       \/ Tag(f) \/ Mark(f) \/ Raise(f) \/ Push(f) \/ StoreReply(f) \/ SupersedeByReply(f)
       \/ FlowFails(f)
  \/ \E k \in 1..Len(sugg) : \E s \in {"sent", "edited", "rejected"} : UpdateSuggestion(k, s)
  \/ \E c \in Counters : Expire(c)
  \/ \E i \in Instances : InstanceDies(i)

DfSpec == DfInit /\ [][DfNext]_dfVars

-----------------------------------------------------------------------------
(* Properties. *)

\* An agent is not offered what an agent's reply has made out of date: after such a
\* reply only a suggestion stored later is offered, unless the request of the reply
\* has not got to superseding the older ones, or broke off before.
OfferIsUnanswered ==
  \A i \in Offered : \A k \in (sugg[i].after + 1)..Len(said) :
    said[k] = "agent" => k \in marred.loose \/ \E f \in Flows : At(f, "supersede") /\ flow[f].at = k

\* When nothing is under way, the drafts are on and stayed on, and none was missed for
\* a failure or the rate limit, a customer who is waiting has a draft made with their last message in view, however
\* the quiet periods of the instances and slower, older drafts overlapped.
DraftsCatchUp ==
  (/\ timer = {} /\ \A f \in Flows : flow[f] = Free
   /\ said # <<>> /\ said[Len(said)] = "customer"
   /\ setting = {"hybrid"}
   /\ ~marred.missed)
  => \E i \in DOMAIN sugg : sugg[i].saw = Len(said)

\* A counter of the rate limit that is in use expires, unless the flow that raised it
\* from nothing broke off right then.
CountersExpire ==
  \A c \in Counters : rate[c].count > 0
    => \/ rate[c].expires \/ c \in marred.stuck
       \/ \E f \in Flows : At(f, "expiry") /\ CounterOf(f) = c
=============================================================================
