--------------------------- MODULE AutomationRuns ---------------------------
(***************************************************************************)
(* The automation engine of the API (apps/api/src/automation): rules whose *)
(* steps are executed one job at a time, runs that pause until the         *)
(* customer answers, the inbound-message pipeline that starts and resumes  *)
(* runs, the hourly timeout of paused runs, and edits of the rules.        *)
(*                                                                         *)
(* The model follows one conversation.  A thread is either a BullMQ worker *)
(* slot or a handler of inbound LINE events; both call processRunStep, the *)
(* worker for a queued job, the handler when it resumes a paused run (and, *)
(* when the queue is inline, for every step of a run it starts).  Every    *)
(* await of processRunStep that touches the run is a step of its own.      *)
(***************************************************************************)
EXTENDS Integers, Sequences, FiniteSets

CONSTANTS
  Rules,          \* rules, numbered by their place in the (priority, name) order
  Runs,           \* ids of AutomationRun rows, numbered in creation order
  Workers,        \* worker slots of the automation-runs queue
  Handlers,       \* handlers of inbound events, as many as run at the same time
  Messages,       \* inbound LINE messages of the conversation
  JobIds,         \* ids BullMQ gives to the jobs
  Crons,          \* API instances that run the hourly timeout
  Trigger,        \* triggerType of each rule
  Plans,          \* the step lists a rule may be given
  MaxSteps,       \* longest step list (20 in automation-step.parser.ts)
  Inline,         \* TRUE when AUTOMATION_QUEUE_MODE is not "bullmq"
  MaxDeliveries,  \* times one message is processed (job retry, LINE redelivery)
  Bounds,         \* how many of each environment event a behaviour may have
  NoJob, NoMessage

Events == {"agent", "edits", "faults", "crashes", "aborts"}
TriggerTypes == {"CONVERSATION_CREATED", "MESSAGE_RECEIVED", "OFF_HOURS", "STATUS_CHANGED"}
Step == [type : {"WAIT", "ACT"}, runAfter : {"immediate", "customer_reply"}]
Threads == Workers \union Handlers
MaxAttempts == 3

ASSUME ConstantsAssumption ==
  /\ Rules \subseteq Nat /\ Runs \subseteq Nat
  /\ Workers \intersect Handlers = {}
  /\ Trigger \in [Rules -> TriggerTypes]
  /\ Plans \subseteq Seq(Step)
  /\ \A p \in Plans : Len(p) \in 1..MaxSteps /\ p[1].runAfter = "immediate"
  /\ MaxSteps \in Nat /\ MaxDeliveries \in Nat
  /\ Inline \in BOOLEAN
  /\ Bounds \in [Events -> Nat]
  /\ NoMessage \notin Messages

VARIABLES
  rules,      \* AutomationRule rows
  runs,       \* AutomationRun rows; NoRun before the row exists
  jobs,       \* jobs waiting in the queue
  active,     \* the job each worker holds
  frame,      \* the call of processRunStep (or startRun) each thread is in
  handler,    \* where each handler is in the inbound pipeline
  cron,       \* runs an instance has read as stale and not yet failed
  deliveries, \* times each message has been taken up
  executed,   \* history: how often each step of each run took effect
  resumes,    \* history: which message resumed which run at which step
  budget      \* what is left of the bounded environment events

vars == <<rules, runs, jobs, active, frame, handler, cron, deliveries,
          executed, resumes, budget>>

-----------------------------------------------------------------------------
(* Rows, jobs, calls and handlers. *)

Settled == {"COMPLETED", "FAILED"}
Status == {"PENDING", "RUNNING", "WAITING", "WAITING_FOR_REPLY"} \union Settled
Index == 0..MaxSteps

Rule == [isEnabled : BOOLEAN, deleted : BOOLEAN, steps : Plans]
NoRun == [status |-> "NONE"]
Run == [status : Status, rule : Rules, idx : Index, by : Messages \union {NoMessage}]
Job == [id : JobIds, run : Runs, idx : Index, attempts : 0..MaxAttempts, stalled : BOOLEAN]

ASSUME NoJobAssumption == NoJob \notin Job

IdleFrame == [pc |-> "idle"]
Frame == [pc : {"submit", "load", "start", "act", "advance", "enqueue", "complete", "fail", "done"},
          run : Runs, idx : Index, steps : Plans \union {<<>>}, depth : Nat]
Call(run, idx, depth) ==
  [pc |-> "load", run |-> run, idx |-> idx, steps |-> <<>>, depth |-> depth]

Snapshot == [run : Runs, idx : Index]
IdleHandler == [stage |-> "idle", msg |-> NoMessage, text |-> FALSE,
                waiting |-> {}, matched |-> {}, skip |-> {}]
Handler == [stage : {"idle", "resume", "resuming"} \union TriggerTypes,
            msg : Messages \union {NoMessage}, text : BOOLEAN,
            waiting : SUBSET Snapshot, matched : SUBSET Rules, skip : SUBSET Rules]

TypeOK ==
  /\ rules \in [Rules -> Rule]
  /\ runs \in [Runs -> Run \union {NoRun}]
  /\ jobs \in SUBSET Job
  /\ active \in [Workers -> Job \union {NoJob}]
  /\ frame \in [Threads -> Frame \union {IdleFrame}]
  /\ handler \in [Handlers -> Handler]
  /\ cron \in [Crons -> SUBSET Runs]
  /\ deliveries \in [Messages -> 0..MaxDeliveries]
  /\ executed \in [Runs -> [Index -> Nat]]
  /\ resumes \in SUBSET [run : Runs, idx : Index, msg : Messages \union {NoMessage}]
  /\ budget \in [Events -> Nat]

Exists(r) == runs[r].status # "NONE"
IsSettled(r) == runs[r].status \in Settled
RuleOf(r) == rules[runs[r].rule]
Live(u) == rules[u].isEnabled /\ ~rules[u].deleted

\* Mutant: looks at the step just executed, not at the next one.
WaitsByThisStep(steps, i) == i > 0 /\ steps[i].runAfter = "customer_reply"
\* shouldWaitForCustomerReply for the step at (zero-based) index i
WaitsForReply(steps, i) == i > 0 /\ steps[i + 1].runAfter = "customer_reply"

Spend(e) == budget[e] > 0 /\ budget' = [budget EXCEPT ![e] = @ - 1]

Init ==
  /\ rules \in [Rules -> [isEnabled : {TRUE}, deleted : {FALSE}, steps : Plans]]
  /\ runs = [r \in Runs |-> NoRun]
  /\ jobs = {}
  /\ active = [w \in Workers |-> NoJob]
  /\ frame = [t \in Threads |-> IdleFrame]
  /\ handler = [h \in Handlers |-> IdleHandler]
  /\ cron = [c \in Crons |-> {}]
  /\ deliveries = [m \in Messages |-> 0]
  /\ executed = [r \in Runs |-> [i \in Index |-> 0]]
  /\ resumes = {}
  /\ budget = Bounds

-----------------------------------------------------------------------------
(* How a call of processRunStep ends. *)

\* The thread goes on with frame g.
To(t, g) ==
  /\ frame' = [frame EXCEPT ![t] = g]
  /\ UNCHANGED <<active, handler>>

Goto(t, pc) == To(t, [frame[t] EXCEPT !.pc = pc])

\* The call returns: the worker's job is removed from the queue for good; a
\* resuming handler notes the rule it must not start again for the same message.
Return(t) ==
  /\ frame[t].pc = "done"
  /\ frame' = [frame EXCEPT ![t] = IdleFrame]
  /\ active' = [w \in Workers |-> IF w = t THEN NoJob ELSE active[w]]
  /\ handler' = [h \in Handlers |->
       IF h = t /\ handler[h].stage = "resuming"
       THEN [handler[h] EXCEPT !.skip = @ \union {runs[frame[t].run].rule}]
       ELSE handler[h]]
  /\ UNCHANGED <<rules, runs, jobs, cron, deliveries, executed, resumes, budget>>

\* A queued job whose processing rejected goes back until its attempts are used up.
Retried(j) ==
  IF j.attempts + 1 < MaxAttempts THEN {[j EXCEPT !.attempts = @ + 1]} ELSE {}

\* The call rejects outside its try block.  Nested in an inline queue, the
\* rejection reaches the catch block of the enclosing step; in a worker the job
\* is retried; in resumeWaitingRuns it ends the loop and loses the list of
\* rules resumed so far.
Reject(t) ==
  IF frame[t].depth > 0
  THEN /\ To(t, [frame[t] EXCEPT !.pc = "fail", !.depth = @ - 1])
       /\ UNCHANGED jobs
  ELSE /\ frame' = [frame EXCEPT ![t] = IdleFrame]
       /\ active' = [w \in Workers |-> IF w = t THEN NoJob ELSE active[w]]
       /\ jobs' = IF t \in Workers THEN jobs \union Retried(active[t]) ELSE jobs
       /\ handler' = [h \in Handlers |->
            IF h = t /\ handler[h].stage = "resuming"
            THEN [handler[h] EXCEPT !.waiting = {}, !.skip = {}]
            ELSE handler[h]]

FreshJob(id) ==
  /\ \A j \in jobs : j.id # id
  /\ \A w \in Workers : active[w] # NoJob => active[w].id # id

\* Mutant: counts on an index its callers have counted on already.
PushNext(id, r, i) ==
  /\ FreshJob(id)
  /\ jobs' = jobs \union
       {[id |-> id, run |-> r, idx |-> i + 1, attempts |-> 0, stalled |-> FALSE]}
Push(id, r, i) ==
  /\ FreshJob(id)
  /\ jobs' = jobs \union
       {[id |-> id, run |-> r, idx |-> i, attempts |-> 0, stalled |-> FALSE]}

-----------------------------------------------------------------------------
(* processRunStep, one action per await. *)

Ended(r) == RuleOf(r).deleted \/ IsSettled(r)

\* Mutant: takes the last step for the end of the list.
ReachedLast(i, steps) == i >= Len(steps) - 1
PastLast(i, steps) == i >= Len(steps)

\* Reads the run and its rule; a deleted rule or a settled run ends the call,
\* and so does an index past the last step, which completes the run.
Load(t) ==
  /\ frame[t].pc = "load"
  /\ LET f == frame[t]
         steps == RuleOf(f.run).steps
     IN \/ Ended(f.run) /\ Goto(t, "done")
        \/ /\ ~Ended(f.run) /\ PastLast(f.idx, steps)
           /\ To(t, [f EXCEPT !.pc = "complete", !.steps = steps])
        \/ /\ ~Ended(f.run) /\ ~PastLast(f.idx, steps)
           /\ To(t, [f EXCEPT !.pc = "start", !.steps = steps])
  /\ UNCHANGED <<rules, runs, jobs, cron, deliveries, executed, resumes, budget>>

\* Marks the run RUNNING at the step of this call; step 0 is then audited, and
\* a failed audit rejects outside the try block.
Start(t) ==
  /\ frame[t].pc = "start"
  /\ LET f == frame[t] IN
     /\ runs' = [runs EXCEPT ![f.run].status = "RUNNING", ![f.run].idx = f.idx]
     /\ resumes' = IF t \in Handlers /\ handler[t].stage = "resuming" /\ f.depth = 0
                   THEN resumes \union
                          {[run |-> f.run, idx |-> f.idx, msg |-> handler[t].msg]}
                   ELSE resumes
     /\ \/ Goto(t, "act") /\ UNCHANGED <<jobs, budget>>
        \/ f.idx = 0 /\ Spend("faults") /\ Reject(t)
  /\ UNCHANGED <<rules, cron, deliveries, executed>>

\* Carries the step out.  WAIT marks the run WAITING and goes on to schedule the
\* next job; any other step acts on the conversation or on LINE, and may throw
\* after it took effect.
Act(t) ==
  /\ frame[t].pc = "act"
  /\ LET f == frame[t] IN
     /\ executed' = [executed EXCEPT ![f.run][f.idx] = @ + 1]
     /\ \/ /\ f.steps[f.idx + 1].type = "WAIT"
           /\ runs' = [runs EXCEPT ![f.run].status = "WAITING"]
           /\ Goto(t, "enqueue") /\ UNCHANGED budget
        \/ /\ f.steps[f.idx + 1].type = "ACT"
           /\ \/ Goto(t, "advance") /\ UNCHANGED budget
              \/ Goto(t, "fail") /\ Spend("faults")
           /\ UNCHANGED runs
  /\ UNCHANGED <<rules, jobs, cron, deliveries, resumes>>

\* Mutants: the index stays behind; the status stays RUNNING.
PauseInPlace(r, i) == runs' = [runs EXCEPT ![r].status = "WAITING_FOR_REPLY"]
PauseUnmarked(r, i) == runs' = [runs EXCEPT ![r].idx = i]
\* pauseForCustomerReply: run r waits to be resumed at step i.
Pause(r, i) ==
  runs' = [runs EXCEPT ![r].status = "WAITING_FOR_REPLY", ![r].idx = i]

\* Decides what follows an executed step: the end of the run, a pause until
\* the customer answers, or the next job.
Advance(t) ==
  /\ frame[t].pc = "advance"
  /\ LET f == frame[t]
         next == f.idx + 1
     IN \/ PastLast(next, f.steps) /\ Goto(t, "complete") /\ UNCHANGED runs
        \/ /\ ~PastLast(next, f.steps) /\ WaitsForReply(f.steps, next)
           /\ Pause(f.run, next)
           /\ Goto(t, "done")
        \/ /\ ~PastLast(next, f.steps) /\ ~WaitsForReply(f.steps, next)
           /\ Goto(t, "enqueue") /\ UNCHANGED runs
  /\ UNCHANGED <<rules, jobs, cron, deliveries, executed, resumes, budget>>

\* Hands the next step to the queue; an inline queue processes it right here.
Enqueue(t) ==
  /\ frame[t].pc = "enqueue"
  /\ LET f == frame[t] IN
     \/ /\ Inline
        /\ To(t, Call(f.run, f.idx + 1, f.depth + 1))
        /\ UNCHANGED jobs
     \/ ~Inline /\ Goto(t, "done") /\ \E id \in JobIds : Push(id, f.run, f.idx + 1)
  /\ UNCHANGED <<rules, runs, cron, deliveries, executed, resumes, budget>>

\* Mutant: the try block ends with the step itself.
InTryOfTheStep(f) == f.pc = "act"
\* The call is inside the try block of its step (it runs markRunCompleted
\* outside of it when the step list is exhausted on arrival).
InTry(f) == f.pc \in {"act", "advance", "enqueue"} \/ (f.pc = "complete" /\ f.idx < Len(f.steps))

\* markRunCompleted: the status, then the audit row, whose failure inside the
\* try block sends the run to the catch block.
Complete(t) ==
  /\ frame[t].pc = "complete"
  /\ runs' = [runs EXCEPT ![frame[t].run].status = "COMPLETED"]
  /\ \/ Goto(t, "done") /\ UNCHANGED <<jobs, budget>>
     \/ /\ Spend("faults")
        /\ IF InTry(frame[t]) THEN Goto(t, "fail") /\ UNCHANGED jobs ELSE Reject(t)
  /\ UNCHANGED <<rules, cron, deliveries, executed, resumes>>

\* The catch block: the status, then the audit row.
Fail(t) ==
  /\ frame[t].pc = "fail"
  /\ runs' = [runs EXCEPT ![frame[t].run].status = "FAILED"]
  /\ \/ Goto(t, "done") /\ UNCHANGED <<jobs, budget>>
     \/ Spend("faults") /\ Reject(t)
  /\ UNCHANGED <<rules, cron, deliveries, executed, resumes>>

\* Mutant: the error of a step is logged and the run goes on.
FaultSwallowed(t) ==
  /\ frame[t].pc \notin {"idle", "submit", "done"}
  /\ Spend("faults")
  /\ IF frame[t].pc = "act" THEN Goto(t, "advance") /\ UNCHANGED jobs
     ELSE IF InTry(frame[t]) THEN Goto(t, "fail") /\ UNCHANGED jobs
     ELSE Reject(t)
  /\ UNCHANGED <<rules, runs, cron, deliveries, executed, resumes>>
\* A call to the database, the queue or LINE fails before it takes effect.
Fault(t) ==
  /\ frame[t].pc \notin {"idle", "submit", "done"}
  /\ Spend("faults")
  /\ IF InTry(frame[t]) THEN Goto(t, "fail") /\ UNCHANGED jobs ELSE Reject(t)
  /\ UNCHANGED <<rules, runs, cron, deliveries, executed, resumes>>

-----------------------------------------------------------------------------
(* Queue workers. *)

TakeJob(w) ==
  /\ active[w] = NoJob
  /\ \E j \in jobs :
       /\ jobs' = jobs \ {j}
       /\ active' = [active EXCEPT ![w] = j]
       /\ frame' = [frame EXCEPT ![w] = Call(j.run, j.idx, 0)]
  /\ UNCHANGED <<rules, runs, handler, cron, deliveries, executed, resumes, budget>>

\* The process dies with a job in hand; BullMQ hands a stalled job out once more.
Crash(w) ==
  /\ active[w] # NoJob
  /\ Spend("crashes")
  /\ jobs' = jobs \union (IF active[w].stalled THEN {}
                          ELSE {[active[w] EXCEPT !.stalled = TRUE]})
  /\ active' = [active EXCEPT ![w] = NoJob]
  /\ frame' = [frame EXCEPT ![w] = IdleFrame]
  /\ UNCHANGED <<rules, runs, handler, cron, deliveries, executed, resumes>>

-----------------------------------------------------------------------------
(* The inbound pipeline: dispatchEvent, startRun and resumeWaitingRuns. *)

Matching(type) == {u \in Rules : Trigger[u] = type /\ Live(u)}

\* Rules one dispatch may start: each rule for the trigger may or may not match
\* the text, the hour or the status; CONVERSATION_CREATED rules always match.
Dispatched(type) ==
  IF type = "CONVERSATION_CREATED" THEN {Matching(type)} ELSE SUBSET Matching(type)

\* Mutant: the rules just resumed are not left out.
EnterDispatchOfAll(h, type, S) ==
  handler' = [handler EXCEPT ![h].stage = type, ![h].matched = S]
EnterDispatch(h, type, S) ==
  handler' = [handler EXCEPT ![h].stage = type, ![h].matched = S \ handler[h].skip]

Become(h, stage) ==
  handler' = [handler EXCEPT ![h] = IF stage = "idle" THEN IdleHandler
                                    ELSE [@ EXCEPT !.stage = stage]]

\* A message is taken up; the first one of the conversation first starts the
\* CONVERSATION_CREATED rules.
Receive(h, m) ==
  /\ handler[h] = IdleHandler
  /\ deliveries[m] < MaxDeliveries
  /\ deliveries' = [deliveries EXCEPT ![m] = @ + 1]
  /\ \E text \in BOOLEAN :
       LET new == [IdleHandler EXCEPT !.msg = m, !.text = text] IN
       IF \A n \in Messages : deliveries[n] = 0
       THEN handler' = [handler EXCEPT ![h] =
              [new EXCEPT !.stage = "CONVERSATION_CREATED",
                          !.matched = Matching("CONVERSATION_CREATED")]]
       ELSE handler' = [handler EXCEPT ![h] = [new EXCEPT !.stage = "resume"]]
  /\ UNCHANGED <<rules, runs, jobs, active, frame, cron, executed, resumes, budget>>

\* An agent changes the status of the conversation.
AgentEvent(h) ==
  /\ handler[h] = IdleHandler
  /\ Spend("agent")
  /\ \E S \in Dispatched("STATUS_CHANGED") : EnterDispatch(h, "STATUS_CHANGED", S)
  /\ UNCHANGED <<rules, runs, jobs, active, frame, cron, deliveries, executed, resumes>>

NextRun(r) == ~Exists(r) /\ \A s \in Runs : s < r => Exists(s)

\* startRun for the first rule left: a rule disabled meanwhile is passed over,
\* a failed call is logged and the loop goes on.
StartRun(h) ==
  /\ handler[h].stage \in TriggerTypes
  /\ frame[h] = IdleFrame
  /\ \E u \in handler[h].matched :
     /\ \A v \in handler[h].matched : u <= v
     /\ handler' = [handler EXCEPT ![h].matched = @ \ {u}]
     /\ \/ ~Live(u) /\ UNCHANGED <<runs, frame, budget>>
        \/ Spend("faults") /\ UNCHANGED <<runs, frame>>
        \/ /\ Live(u)
           /\ \E r \in Runs :
                /\ NextRun(r)
                /\ runs' = [runs EXCEPT ![r] =
                     [status |-> "PENDING", rule |-> u, idx |-> 0, by |-> handler[h].msg]]
                /\ frame' = [frame EXCEPT ![h] = [Call(r, 0, 0) EXCEPT !.pc = "submit"]]
           /\ UNCHANGED budget
  /\ UNCHANGED <<rules, jobs, active, cron, deliveries, executed, resumes>>

\* enqueueStep for step 0 of the new run.
Submit(h) ==
  /\ frame[h].pc = "submit"
  /\ \/ /\ Inline
        /\ frame' = [frame EXCEPT ![h].pc = "load"]
        /\ UNCHANGED <<jobs, budget>>
     \/ /\ ~Inline
        /\ \E id \in JobIds : Push(id, frame[h].run, 0)
        /\ frame' = [frame EXCEPT ![h] = IdleFrame]
        /\ UNCHANGED budget
     \/ /\ Spend("faults")
        /\ frame' = [frame EXCEPT ![h] = IdleFrame]
        /\ UNCHANGED jobs
  /\ UNCHANGED <<rules, runs, active, handler, cron, deliveries, executed, resumes>>

\* Mutant: paused runs are resumed after the dispatch.
ResumeAfterDispatch(stage) ==
  IF stage = "CONVERSATION_CREATED" \/ stage = "OFF_HOURS" THEN "resume" ELSE "idle"
\* Where the pipeline goes on when a dispatch is over.
AfterDispatch(stage) == IF stage = "CONVERSATION_CREATED" THEN "resume" ELSE "idle"

\* The dispatch of one trigger is over; a text message goes from
\* MESSAGE_RECEIVED to OFF_HOURS.
EndDispatch(h) ==
  /\ handler[h].stage \in TriggerTypes
  /\ frame[h] = IdleFrame
  /\ handler[h].matched = {}
  /\ IF handler[h].stage = "MESSAGE_RECEIVED"
     THEN \E S \in Dispatched("OFF_HOURS") : EnterDispatch(h, "OFF_HOURS", S)
     ELSE Become(h, AfterDispatch(handler[h].stage))
  /\ UNCHANGED <<rules, runs, jobs, active, frame, cron, deliveries, executed,
                 resumes, budget>>

\* Mutant: takes a run that waits for its delay for one that waits for the customer.
PausedOrDelayed(r) == Exists(r) /\ runs[r].status \in {"WAITING", "WAITING_FOR_REPLY"}
Paused(r) == Exists(r) /\ runs[r].status = "WAITING_FOR_REPLY"

\* resumeWaitingRuns reads the paused runs of enabled rules, with the step each
\* is paused at; if the read fails nothing is resumed.
Resumable == {r \in Runs : Paused(r) /\ Live(runs[r].rule)}
ListWaiting(h) ==
  /\ handler[h].stage = "resume"
  /\ \/ /\ handler' = [handler EXCEPT ![h].stage = "resuming",
             ![h].waiting = {[run |-> r, idx |-> runs[r].idx] : r \in Resumable}]
        /\ UNCHANGED budget
     \/ Spend("faults") /\ Become(h, "resuming")
  /\ UNCHANGED <<rules, runs, jobs, active, frame, cron, deliveries, executed, resumes>>

\* Rule priority first, then the age of the run.
Precedes(s, t) ==
  \/ runs[s.run].rule < runs[t.run].rule
  \/ runs[s.run].rule = runs[t.run].rule /\ s.run <= t.run

ResumeNext(h) ==
  /\ handler[h].stage = "resuming"
  /\ frame[h] = IdleFrame
  /\ \E s \in handler[h].waiting :
       /\ \A t \in handler[h].waiting : Precedes(s, t)
       /\ handler' = [handler EXCEPT ![h].waiting = @ \ {s}]
       /\ frame' = [frame EXCEPT ![h] = Call(s.run, s.idx, 0)]
  /\ UNCHANGED <<rules, runs, jobs, active, cron, deliveries, executed, resumes, budget>>

\* After the resumptions a text message is dispatched to the rules, without
\* those just resumed; any other message is done.
EndResume(h) ==
  /\ handler[h].stage = "resuming"
  /\ frame[h] = IdleFrame
  /\ handler[h].waiting = {}
  /\ IF handler[h].text
     THEN \E S \in Dispatched("MESSAGE_RECEIVED") : EnterDispatch(h, "MESSAGE_RECEIVED", S)
     ELSE Become(h, "idle")
  /\ UNCHANGED <<rules, runs, jobs, active, frame, cron, deliveries, executed,
                 resumes, budget>>

\* The process that handles the message dies; the message may be delivered again.
Abort(h) ==
  /\ handler[h] # IdleHandler
  /\ Spend("aborts")
  /\ handler' = [handler EXCEPT ![h] = IdleHandler]
  /\ frame' = [frame EXCEPT ![h] = IdleFrame]
  /\ UNCHANGED <<rules, runs, jobs, active, cron, deliveries, executed, resumes>>

-----------------------------------------------------------------------------
(* failStaleWaitingForReplyRuns and the edits of the rules. *)

\* The hourly job reads the runs paused for 24 hours, whatever their rule.
ReadStale(c, S) ==
  /\ cron[c] = {}
  /\ S # {} /\ \A r \in S : Paused(r)
  /\ cron' = [cron EXCEPT ![c] = S]
  /\ UNCHANGED <<rules, runs, jobs, active, frame, handler, deliveries, executed,
                 resumes, budget>>

\* It then fails them one by one, without looking at their status again; an
\* error of the update or of the audit row ends the loop.
FailStale(c) ==
  /\ \/ \E r \in cron[c] :
          /\ runs' = [runs EXCEPT ![r].status = "FAILED"]
          /\ \/ cron' = [cron EXCEPT ![c] = @ \ {r}] /\ UNCHANGED budget
             \/ cron' = [cron EXCEPT ![c] = {}] /\ Spend("faults")
     \/ /\ cron[c] # {} /\ Spend("faults")
        /\ cron' = [cron EXCEPT ![c] = {}]
        /\ UNCHANGED runs
  /\ UNCHANGED <<rules, jobs, active, frame, handler, deliveries, executed, resumes>>

UpdateRule(u, enabled, steps) ==
  /\ ~rules[u].deleted
  /\ Spend("edits")
  /\ rules' = [rules EXCEPT ![u].isEnabled = enabled, ![u].steps = steps]
  /\ UNCHANGED <<runs, jobs, active, frame, handler, cron, deliveries, executed, resumes>>

DeleteRule(u) ==
  /\ ~rules[u].deleted
  /\ Spend("edits")
  /\ rules' = [rules EXCEPT ![u].isEnabled = FALSE, ![u].deleted = TRUE]
  /\ UNCHANGED <<runs, jobs, active, frame, handler, cron, deliveries, executed, resumes>>

-----------------------------------------------------------------------------

Processing(t) ==
  Load(t) \/ Start(t) \/ Act(t) \/ Advance(t) \/ Enqueue(t) \/ Complete(t) \/ Fail(t)
  \/ Return(t)

Pipeline(h) ==
  StartRun(h) \/ Submit(h) \/ EndDispatch(h) \/ ListWaiting(h) \/ ResumeNext(h) \/ EndResume(h)

Next ==
  \/ \E t \in Threads : Processing(t) \/ Fault(t)
  \/ \E w \in Workers : TakeJob(w) \/ Crash(w)
  \/ \E h \in Handlers : Pipeline(h) \/ AgentEvent(h) \/ Abort(h)
  \/ \E h \in Handlers, m \in Messages : Receive(h, m)
  \/ \E c \in Crons : FailStale(c)
  \/ \E c \in Crons, S \in SUBSET Runs : ReadStale(c, S)
  \/ \E u \in Rules, enabled \in BOOLEAN, steps \in Plans : UpdateRule(u, enabled, steps)
  \/ \E u \in Rules : DeleteRule(u)

Spec == Init /\ [][Next]_vars

\* Workers and handlers that are up go on with what they have begun, workers
\* take the jobs that are due, and the hourly timeout comes round to each run
\* that stays paused.  Nothing makes a customer, an agent or a fault come.
Fairness ==
  /\ \A t \in Threads : WF_vars(Processing(t))
  /\ \A w \in Workers : WF_vars(TakeJob(w))
  /\ \A h \in Handlers : WF_vars(Pipeline(h))
  /\ \A c \in Crons : WF_vars(FailStale(c))
  /\ \A r \in Runs : WF_vars(\E c \in Crons, S \in SUBSET Runs : r \in S /\ ReadStale(c, S))

FairSpec == Spec /\ Fairness

-----------------------------------------------------------------------------
(* Properties. *)

\* No step is skipped: wherever a run is about to go on, in the queue, in a
\* worker, paused or in the list of a resuming handler, every earlier step has
\* taken effect.  Holds through redelivered jobs, crashes, timeouts and edits.
Done(r, p) == \A i \in Index : i < p => executed[r][i] > 0
NoStepSkipped ==
  /\ \A j \in jobs : Done(j.run, j.idx)
  /\ \A w \in Workers : active[w] # NoJob => Done(active[w].run, active[w].idx)
  /\ \A t \in Threads : frame[t] # IdleFrame => Done(frame[t].run, frame[t].idx)
  /\ \A r \in Runs : Paused(r) => Done(r, runs[r].idx)
  /\ \A h \in Handlers : \A s \in handler[h].waiting : Done(s.run, s.idx)

Used(e) == Bounds[e] - budget[e]

\* A run is only called COMPLETED when each step of its rule took effect, unless
\* the rule was edited meanwhile.
CompletedRanEveryStep ==
  \A r \in Runs : Exists(r) /\ runs[r].status = "COMPLETED" /\ Used("edits") = 0 =>
    Done(r, Len(RuleOf(r).steps))

\* A step takes effect again only when a worker died with the job in hand, or
\* when both the step and the catch block that should have failed the run threw.
RepeatsNeedACrash ==
  \A r \in Runs, i \in Index :
    executed[r][i] <= 1 + Used("crashes") + Used("faults") \div 2

\* The runs keep the promise of AutomationPromise: every step once, in order,
\* none after the end.
Promise == INSTANCE AutomationPromise WITH
  performed <- executed, settled <- {r \in Runs : IsSettled(r)}
KeepsThePromise == Promise!Spec

\* A run that is COMPLETED or FAILED stays as it is.
SettledIsFinal == [][\A r \in Runs : IsSettled(r) => runs'[r] = runs[r]]_runs

\* A message that resumed a run of a rule does not also start a run of that
\* rule (the skipRuleIds that the webhook passes on).
NoDoubleFire ==
  \A e \in resumes, r \in Runs :
    Exists(r) /\ runs[r].rule = runs[e.run].rule => runs[r].by # e.msg

\* A step that waits for the customer is carried out only after a message
\* resumed the run at that step.
ReplyStepsFollowAResume ==
  \A r \in Runs, i \in Index :
    Exists(r) /\ executed[r][i] > 0 /\ i < Len(RuleOf(r).steps)
      /\ RuleOf(r).steps[i + 1].runAfter = "customer_reply"
    => \E e \in resumes : e.run = r /\ e.idx = i

\* The message that started a run is not also the reply that resumes it.
ResumedByALaterMessage == \A e \in resumes : runs[e.run].by # e.msg

\* One pause of a run is ended by one message.
PauseEndsOnce == \A d, e \in resumes : d.run = e.run /\ d.idx = e.idx => d = e

\* A run handed to the queue ends up COMPLETED or FAILED, unless its rule is
\* deleted on the way.
Handed(r) ==
  \/ \E j \in jobs : j.run = r
  \/ \E t \in Threads : frame[t] # IdleFrame /\ frame[t].run = r
EveryRunSettles ==
  \A r \in Runs : Handed(r) ~> (Exists(r) /\ (IsSettled(r) \/ RuleOf(r).deleted))
=============================================================================
