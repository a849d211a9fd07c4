------------------------------ MODULE Broadcast ------------------------------
(***************************************************************************)
(* Broadcast and multicast jobs (apps/api/src/line/line-broadcast.*.ts).   *)
(*                                                                         *)
(* A job is sent by whoever claims its row: the request that creates it    *)
(* when it is due at once, or the minutely scheduler of any API instance.  *)
(* An agent may cancel a scheduled job or delete a failed one meanwhile.   *)
(* A job has one or more parts, each handed to LINE by a fetch of its own: *)
(* one for a broadcast, one per 500 recipients for a multicast.            *)
(***************************************************************************)
EXTENDS Integers

CONSTANTS
  Jobs,        \* ids of BroadcastJob rows
  Requests,    \* createBroadcast / createMulticast requests being served
  Schedulers,  \* API instances, each with its scheduler
  Agents,      \* deleteBroadcastJob requests being served
  MaxParts,    \* most parts a job is split into
  Bounds,      \* how many failed calls and crashes a behaviour may have
  NoJob

Events == {"faults", "crashes"}
Threads == Requests \union Schedulers
Part == 1..MaxParts

ASSUME BroadcastAssumption ==
  /\ MaxParts \in Nat \ {0}
  /\ Requests \intersect Schedulers = {}
  /\ Bounds \in [Events -> Nat]
  /\ NoJob \notin Jobs

VARIABLES
  job,        \* the rows
  thread,     \* the call of executeBroadcastJob each request or scheduler is in
  due,        \* jobs each scheduler has read as due and not yet taken up
  agent,      \* the delete or cancel each agent request has decided on
  received,   \* history: how often LINE accepted each part of a job
  cancelled,  \* history: jobs whose cancellation was audited
  budget

vars == <<job, thread, due, agent, received, cancelled, budget>>

-----------------------------------------------------------------------------

Status == {"NONE", "PENDING", "PROCESSING", "SENT", "FAILED"}
\* scheduledAt: unset, still to come, or reached
Schedule == {"immediate", "future", "reached"}
Row == [status : Status, schedule : Schedule, deleted : BOOLEAN, parts : Part]
NoRow == [status |-> "NONE", schedule |-> "immediate", deleted |-> FALSE, parts |-> 1]

\* next is the part to send; audit is where a new job's request starts
Call == [pc : {"audit", "claim", "find", "send", "log", "fail"},
         job : Jobs, next : 1..(MaxParts + 1)]
Idle == [pc |-> "idle"]
\* An agent's request that is not about a job.
Free == [pc |-> "idle", job |-> NoJob]
\* Mutant: parts are counted from zero.
EnterAtZero(pc, j) == [pc |-> pc, job |-> j, next |-> 0]
Enter(pc, j) == [pc |-> pc, job |-> j, next |-> 1]

TypeOK ==
  /\ job \in [Jobs -> Row]
  /\ thread \in [Threads -> Call \union {Idle}]
  /\ due \in [Schedulers -> SUBSET Jobs]
  /\ agent \in [Agents -> [pc : {"cancel", "remove"}, job : Jobs] \union {Free}]
  /\ received \in [Jobs -> [Part -> Nat]]
  /\ cancelled \in SUBSET Jobs
  /\ budget \in [Events -> Nat]

Init ==
  /\ job = [j \in Jobs |-> NoRow]
  /\ thread = [t \in Threads |-> Idle]
  /\ due = [s \in Schedulers |-> {}]
  /\ agent = [a \in Agents |-> Free]
  /\ received = [j \in Jobs |-> [p \in Part |-> 0]]
  /\ cancelled = {}
  /\ budget = Bounds

Spend(e) == budget[e] > 0 /\ budget' = [budget EXCEPT ![e] = @ - 1]
Goto(t, pc) == thread' = [thread EXCEPT ![t].pc = pc]
Leave(t) == thread' = [thread EXCEPT ![t] = Idle]

-----------------------------------------------------------------------------
(* Requests and schedulers bring jobs to executeBroadcastJob. *)

Create(r, j, schedule, parts) ==
  /\ thread[r] = Idle
  /\ job[j].status = "NONE"
  /\ job' = [job EXCEPT ![j] = [status |-> "PENDING", schedule |-> schedule,
                                deleted |-> FALSE, parts |-> parts]]
  /\ thread' = [thread EXCEPT ![r] = Enter("audit", j)]
  /\ UNCHANGED <<due, agent, received, cancelled, budget>>

\* The new job is audited; if it is due now the request sends it itself.  A
\* failed audit fails the request and leaves the row behind.
Audit(r) ==
  /\ thread[r].pc = "audit"
  /\ \/ job[thread[r].job].schedule # "future" /\ Goto(r, "claim") /\ UNCHANGED budget
     \/ job[thread[r].job].schedule = "future" /\ Leave(r) /\ UNCHANGED budget
     \/ Leave(r) /\ Spend("faults")
  /\ UNCHANGED <<job, due, agent, received, cancelled>>

\* The scheduled time of a job comes.
Tick(j) ==
  /\ job[j].status # "NONE" /\ job[j].schedule = "future"
  /\ job' = [job EXCEPT ![j].schedule = "reached"]
  /\ UNCHANGED <<thread, due, agent, received, cancelled, budget>>

\* Mutant: the comparison with the present time is the wrong way round.
NotYetDue(j) == job[j].status = "PENDING" /\ job[j].schedule = "future" /\ ~job[j].deleted
Due(j) == job[j].status = "PENDING" /\ job[j].schedule = "reached" /\ ~job[j].deleted

\* A scheduler that has finished its last round reads the jobs that are due.
ReadDue(s) ==
  /\ thread[s] = Idle /\ due[s] = {}
  /\ \E j \in Jobs : Due(j)
  /\ due' = [due EXCEPT ![s] = {j \in Jobs : Due(j)}]
  /\ UNCHANGED <<job, thread, agent, received, cancelled, budget>>

TakeUp(s, j) ==
  /\ thread[s] = Idle
  /\ j \in due[s]
  /\ due' = [due EXCEPT ![s] = @ \ {j}]
  /\ thread' = [thread EXCEPT ![s] = Enter("claim", j)]
  /\ UNCHANGED <<job, agent, received, cancelled, budget>>

-----------------------------------------------------------------------------
(* executeBroadcastJob, one action per await. *)

\* Mutants: a row in PROCESSING is claimed again; a deleted row is claimed.
ClaimableAgain(j) == job[j].status \in {"PENDING", "PROCESSING"} /\ ~job[j].deleted
ClaimableDeleted(j) == job[j].status = "PENDING"
\* The rows the conditional update of the claim finds.
Claimable(j) == job[j].status = "PENDING" /\ ~job[j].deleted

Claim(t) ==
  /\ thread[t].pc = "claim"
  /\ LET j == thread[t].job IN
     \/ /\ Claimable(j)
        /\ job' = [job EXCEPT ![j].status = "PROCESSING"]
        /\ Goto(t, "find")
     \/ ~Claimable(j) /\ Leave(t) /\ UNCHANGED job
  /\ UNCHANGED <<due, agent, received, cancelled, budget>>

Find(t) ==
  /\ thread[t].pc = "find"
  /\ Goto(t, "send")
  /\ UNCHANGED <<job, due, agent, received, cancelled, budget>>

\* Mutant: the last part is forgotten.
AllButLastSent(t) == thread[t].next >= job[thread[t].job].parts
AllSent(t) == thread[t].next > job[thread[t].job].parts

\* LINE takes the part; the answer may still be lost, which ends the sending.
Send(t) ==
  /\ thread[t].pc = "send" /\ ~AllSent(t)
  /\ received' = [received EXCEPT ![thread[t].job][thread[t].next] = @ + 1]
  /\ \/ thread' = [thread EXCEPT ![t].next = @ + 1] /\ UNCHANGED budget
     \/ Goto(t, "fail") /\ Spend("faults")
  /\ UNCHANGED <<job, due, agent, cancelled>>

MarkSent(t) ==
  /\ thread[t].pc = "send" /\ AllSent(t)
  /\ job' = [job EXCEPT ![thread[t].job].status = "SENT"]
  /\ Goto(t, "log")
  /\ UNCHANGED <<due, agent, received, cancelled, budget>>

Log(t) ==
  /\ thread[t].pc = "log"
  /\ Leave(t)
  /\ UNCHANGED <<job, due, agent, received, cancelled, budget>>

\* The catch block.
Fail(t) ==
  /\ thread[t].pc = "fail"
  /\ job' = [job EXCEPT ![thread[t].job].status = "FAILED"]
  /\ Leave(t)
  /\ UNCHANGED <<due, agent, received, cancelled, budget>>

\* A call fails before it takes effect: inside the try block the catch block
\* follows, outside of it the call of executeBroadcastJob rejects.
Fault(t) ==
  /\ Spend("faults")
  /\ \/ thread[t].pc \in {"send", "log"} /\ Goto(t, "fail")
     \/ thread[t].pc \in {"claim", "find", "fail"} /\ Leave(t)
  /\ UNCHANGED <<job, due, agent, received, cancelled>>

\* The process of a request or a scheduler dies, with what it has read.
Crash(t) ==
  /\ thread[t] # Idle \/ (t \in Schedulers /\ due[t] # {})
  /\ Spend("crashes")
  /\ Leave(t)
  /\ due' = [s \in Schedulers |-> IF s = t THEN {} ELSE due[s]]
  /\ UNCHANGED <<job, agent, received, cancelled>>

-----------------------------------------------------------------------------
(* deleteBroadcastJob: a read, then an unconditional soft delete. *)

Cancellable(j) == job[j].status = "PENDING" /\ job[j].schedule = "future"

Decide(a, j) ==
  /\ agent[a].pc = "idle"
  /\ job[j].status # "NONE" /\ ~job[j].deleted
  /\ \/ Cancellable(j) /\ agent' = [agent EXCEPT ![a] = [pc |-> "cancel", job |-> j]]
     \/ /\ ~Cancellable(j) /\ job[j].status = "FAILED"
        /\ agent' = [agent EXCEPT ![a] = [pc |-> "remove", job |-> j]]
  /\ UNCHANGED <<job, thread, due, received, cancelled, budget>>

SoftDelete(a) ==
  /\ agent[a].pc # "idle"
  /\ job' = [job EXCEPT ![agent[a].job].deleted = TRUE]
  /\ agent' = [agent EXCEPT ![a] = Free]
  /\ cancelled' = IF agent[a].pc = "cancel" THEN cancelled \union {agent[a].job} ELSE cancelled
  /\ UNCHANGED <<thread, due, received, budget>>

-----------------------------------------------------------------------------

Execute(t) ==
  Claim(t) \/ Find(t) \/ Send(t) \/ MarkSent(t) \/ Log(t) \/ Fail(t)

Next ==
  \/ \E r \in Requests, j \in Jobs, schedule \in Schedule, parts \in Part :
       Create(r, j, schedule, parts)
  \/ \E r \in Requests : Audit(r)
  \/ \E j \in Jobs : Tick(j)
  \/ \E s \in Schedulers : ReadDue(s) \/ \E j \in Jobs : TakeUp(s, j)
  \/ \E t \in Threads : Execute(t) \/ Fault(t) \/ Crash(t)
  \/ \E a \in Agents : SoftDelete(a) \/ \E j \in Jobs : Decide(a, j)

Spec == Init /\ [][Next]_vars

\* The schedulers of the instances that are up come round every minute and go
\* through what they have read.  No request and no agent need ever come.
FairSpec ==
  /\ Spec
  /\ \A s \in Schedulers :
       /\ WF_vars(ReadDue(s))
       /\ WF_vars(\E j \in Jobs : TakeUp(s, j))
       /\ WF_vars(Execute(s))

-----------------------------------------------------------------------------
(* Properties. *)

\* No part of a job reaches LINE twice, however many instances run the
\* scheduler and whatever fails or dies in between.
ReceivedOnce == \A j \in Jobs, p \in Part : received[j][p] <= 1

\* A job is only called SENT when LINE has all its parts.
SentIsComplete ==
  \A j \in Jobs : job[j].status = "SENT" =>
    \A p \in Part : p <= job[j].parts => received[j][p] = 1

\* A job deleted before anyone claimed it is never sent.
DeletedInTimeStaysUnsent ==
  [][\A j \in Jobs : job[j].deleted /\ job[j].status = "PENDING" =>
       job'[j].status = "PENDING" /\ received'[j] = received[j]]_vars

\* A scheduled job whose time has come is claimed, or deleted, in the end, even
\* if a call fails or an instance dies while it is at it.
Unclaimed(j) == job[j].status = "PENDING" /\ ~job[j].deleted
DueJobsAreClaimed ==
  \A j \in Jobs : Unclaimed(j) /\ job[j].schedule = "reached" ~> ~Unclaimed(j)

\* A job an agent was told is cancelled has sent nothing.
CancelledIsNotSent ==
  \A j \in cancelled : \A p \in Part : received[j][p] = 0
=============================================================================
