--------------------------- MODULE BroadcastProofs ---------------------------
(* Proofs about Broadcast that hold for every value of its constants. *)
EXTENDS Broadcast, TLAPS

(***************************************************************************)
(* The inductive invariant.  A call that has claimed a job finds the job   *)
(* in the status it left it in, and LINE has taken exactly the parts the   *)
(* call has passed; no two calls have claimed the same job; and a job      *)
(* nobody has claimed yet has sent nothing.                                *)
(***************************************************************************)
Executing(t) == thread[t].pc \in {"find", "send", "log", "fail"}

CallOK(t) ==
  thread[t] # Idle =>
    /\ thread[t].pc \in {"audit", "claim", "find"} => thread[t].next = 1
    /\ thread[t].pc \in {"find", "send"} =>
         /\ job[thread[t].job].status = "PROCESSING"
         /\ \A p \in Part :
              received[thread[t].job][p] = IF p < thread[t].next THEN 1 ELSE 0
    /\ thread[t].pc = "log" => job[thread[t].job].status = "SENT"
    /\ thread[t].pc = "fail" => job[thread[t].job].status \in {"PROCESSING", "SENT"}

JobOK(j) ==
  /\ job[j].status \in {"NONE", "PENDING"} => \A p \in Part : received[j][p] = 0
  /\ \A p \in Part : received[j][p] <= 1
  /\ job[j].status = "SENT" => \A p \in Part : p <= job[j].parts => received[j][p] = 1

ClaimedOnce ==
  \A t, u \in Threads :
    Executing(t) /\ Executing(u) /\ thread[t].job = thread[u].job => t = u

Inv ==
  /\ TypeOK
  /\ \A t \in Threads : CallOK(t)
  /\ \A j \in Jobs : JobOK(j)
  /\ ClaimedOnce

LEMMA Initially == Init => Inv
<1> SUFFICES ASSUME Init PROVE Inv
  OBVIOUS
<1>1. NoRow \in Row
  BY BroadcastAssumption DEF NoRow, Row, Status, Schedule, Part
<1>2. TypeOK
  BY <1>1, BroadcastAssumption DEF Init, TypeOK
<1>3. \A t \in Threads : CallOK(t)
  BY DEF Init, CallOK
<1>4. ASSUME NEW j \in Jobs PROVE JobOK(j)
  <2>1. job[j].status = "NONE" /\ \A p \in Part : received[j][p] = 0
    BY DEF Init, NoRow
  <2>2. QED BY <2>1 DEF JobOK
<1>5. ClaimedOnce
  BY DEF Init, ClaimedOnce, Executing, Idle
<1>6. QED BY <1>2, <1>3, <1>4, <1>5 DEF Inv

\* A thread in a call holds a job of its own kind.
LEMMA CallType ==
  ASSUME Inv, NEW t \in Threads, thread[t].pc # "idle"
  PROVE  /\ thread[t] \in Call /\ thread[t] # Idle
         /\ thread[t].job \in Jobs /\ thread[t].next \in 1..(MaxParts + 1)
         /\ job[thread[t].job] \in Row
         /\ received[thread[t].job] \in [Part -> Nat]
<1>1. thread[t] \in Call /\ thread[t] # Idle
  BY DEF Inv, TypeOK, Idle
<1>2. QED BY <1>1 DEF Call, Inv, TypeOK

LEMMA SpendType ==
  ASSUME Inv, NEW e \in Events, Spend(e)
  PROVE  budget' \in [Events -> Nat]
BY DEF Spend, Inv, TypeOK

LEMMA GotoType ==
  ASSUME Inv, NEW t \in Threads, thread[t].pc # "idle",
         NEW pc \in {"audit", "claim", "find", "send", "log", "fail"}, Goto(t, pc)
  PROVE  /\ thread' \in [Threads -> Call \union {Idle}]
         /\ thread'[t].pc = pc /\ thread'[t].job = thread[t].job
         /\ thread'[t].next = thread[t].next /\ thread'[t] # Idle
         /\ \A u \in Threads \ {t} : thread'[u] = thread[u]
<1>1. thread[t] \in Call
  BY CallType
<1>2. [thread[t] EXCEPT !.pc = pc] \in Call
  BY <1>1 DEF Call
<1>3. thread' = [thread EXCEPT ![t] = [thread[t] EXCEPT !.pc = pc]]
  BY DEF Goto
<1>4. QED BY <1>1, <1>2, <1>3 DEF Inv, TypeOK, Idle, Call

LEMMA LeaveType ==
  ASSUME Inv, NEW t \in Threads, Leave(t)
  PROVE  /\ thread' \in [Threads -> Call \union {Idle}]
         /\ thread'[t] = Idle
         /\ \A u \in Threads \ {t} : thread'[u] = thread[u]
BY DEF Leave, Inv, TypeOK

(***************************************************************************)
(* Steps that neither change the status of a job nor send a part: the      *)
(* invariant holds when every call stays, leaves, or goes on in order.     *)
(***************************************************************************)
LEMMA Quiet ==
  ASSUME Inv, TypeOK', received' = received,
         \A j \in Jobs : job'[j].status = job[j].status /\ job'[j].parts = job[j].parts,
         \A t \in Threads :
           \/ thread'[t] \in {thread[t], Idle}
           \/ CallOK(t)' /\ (Executing(t)' => Executing(t) /\ thread'[t].job = thread[t].job)
  PROVE  Inv'
<1>1. \A j \in Jobs : JobOK(j)'
  BY DEF Inv, JobOK
<1>2. \A t \in Threads : CallOK(t)'
  <2> SUFFICES ASSUME NEW t \in Threads, thread'[t] = thread[t], thread[t] # Idle
               PROVE  CallOK(t)'
    BY DEF CallOK
  <2>1. thread[t].job \in Jobs
    BY DEF Inv, TypeOK, Call
  <2>2. QED BY <2>1 DEF Inv, CallOK
<1>3. \A t \in Threads : Executing(t)' => Executing(t) /\ thread'[t].job = thread[t].job
  BY DEF Executing, Idle
<1>4. ClaimedOnce'
  BY <1>3 DEF Inv, ClaimedOnce
<1>5. QED BY <1>1, <1>2, <1>4 DEF Inv

-----------------------------------------------------------------------------
(* What the steps that change the status of a row have in common. *)

LEMMA StatusSet ==
  ASSUME Inv, NEW j \in Jobs, NEW status \in Status,
         job' = [job EXCEPT ![j].status = status]
  PROVE  /\ job' \in [Jobs -> Row]
         /\ job'[j].status = status /\ job'[j].parts = job[j].parts
         /\ \A k \in Jobs \ {j} : job'[k] = job[k]
<1>1. job \in [Jobs -> Row]
  BY DEF Inv, TypeOK
<1>2. [job[j] EXCEPT !.status = status] \in Row
  BY <1>1 DEF Row
<1>3. job' = [job EXCEPT ![j] = [job[j] EXCEPT !.status = status]]
  OBVIOUS
<1>4. QED BY <1>1, <1>2, <1>3 DEF Row

\* A call that does nothing stays in order if nobody touches the job it has
\* claimed.
LEMMA OthersStay ==
  ASSUME Inv, NEW u \in Threads, thread'[u] = thread[u],
         Executing(u) => /\ job'[thread[u].job] = job[thread[u].job]
                         /\ received'[thread[u].job] = received[thread[u].job]
  PROVE  CallOK(u)'
<1>1. CallOK(u)
  BY DEF Inv
<1>2. CASE Executing(u)
  BY <1>1, <1>2 DEF CallOK, Executing, Part
<1>3. CASE ~Executing(u)
  BY <1>1, <1>3 DEF CallOK, Executing
<1>4. QED BY <1>2, <1>3

-----------------------------------------------------------------------------
(* One lemma per action. *)

LEMMA CreateKeeps ==
  ASSUME Inv, NEW r \in Requests, NEW j \in Jobs, NEW schedule \in Schedule,
         NEW parts \in Part, Create(r, j, schedule, parts)
  PROVE  Inv'
<1>1. r \in Threads /\ thread[r] = Idle /\ job[j].status = "NONE"
  BY DEF Create, Threads
<1> DEFINE row == [status |-> "PENDING", schedule |-> schedule, deleted |-> FALSE, parts |-> parts]
           new == Enter("audit", j)
<1>2. row \in Row /\ row.status = "PENDING"
  BY DEF Row, Status
<1>3. /\ new \in Call /\ new.pc = "audit" /\ new.next = 1 /\ new # Idle
  BY BroadcastAssumption DEF Enter, Call, Idle
<1>4. job' = [job EXCEPT ![j] = row] /\ thread' = [thread EXCEPT ![r] = new]
  BY DEF Create
<1> HIDE DEF row, new
<1>5. TypeOK'
  <2>1. job' \in [Jobs -> Row]
    BY <1>2, <1>4 DEF Inv, TypeOK
  <2>2. thread' \in [Threads -> Call \union {Idle}]
    BY <1>3, <1>4 DEF Inv, TypeOK
  <2>3. QED BY <2>1, <2>2 DEF Create, Inv, TypeOK, Part
<1>6. \A k \in Jobs : JobOK(k)'
  BY <1>1, <1>2, <1>4 DEF Create, Inv, TypeOK, JobOK, Part
<1>7. ASSUME NEW t \in Threads PROVE CallOK(t)'
  <2>1. CASE t = r
    BY <1>1, <1>3, <1>4, <2>1 DEF CallOK, Inv, TypeOK
  <2>2. CASE t # r /\ thread[t] # Idle
    <3>1. thread'[t] = thread[t] /\ thread[t].job \in Jobs
      BY <1>4, <2>2 DEF Inv, TypeOK, Call
    <3>2. thread[t].job # j => job'[thread[t].job] = job[thread[t].job]
      BY <1>4, <3>1 DEF Inv, TypeOK
    <3>3. QED BY <1>1, <3>1, <3>2 DEF Create, Inv, CallOK, Part
  <2>3. CASE t # r /\ thread[t] = Idle
    BY <1>4, <2>3 DEF CallOK, Inv, TypeOK
  <2>4. QED BY <2>1, <2>2, <2>3
<1>8. ClaimedOnce'
  BY <1>1, <1>3, <1>4 DEF Inv, TypeOK, ClaimedOnce, Executing
<1>9. QED BY <1>5, <1>6, <1>7, <1>8 DEF Inv

LEMMA AuditKeeps ==
  ASSUME Inv, NEW r \in Requests, Audit(r)
  PROVE  Inv'
<1>1. r \in Threads /\ thread[r].pc = "audit"
  BY DEF Audit, Threads
<1>2. budget' \in [Events -> Nat]
  BY SpendType DEF Audit, Inv, TypeOK, Events
<1>3. CASE Goto(r, "claim")
  <2>1. /\ thread' \in [Threads -> Call \union {Idle}]
        /\ thread'[r].pc = "claim" /\ thread'[r].next = thread[r].next
        /\ \A u \in Threads \ {r} : thread'[u] = thread[u]
    BY <1>1, <1>3, GotoType
  <2>2. TypeOK'
    BY <1>2, <2>1 DEF Audit, Inv, TypeOK, Part
  <2>3. thread[r].next = 1
    BY <1>1, CallType DEF Inv, CallOK
  <2>4. CallOK(r)' /\ ~Executing(r)'
    BY <2>1, <2>3 DEF CallOK, Executing
  <2>5. QED BY <2>1, <2>2, <2>4, Quiet DEF Audit
<1>4. CASE Leave(r)
  <2>1. /\ thread' \in [Threads -> Call \union {Idle}] /\ thread'[r] = Idle
        /\ \A u \in Threads \ {r} : thread'[u] = thread[u]
    BY <1>1, <1>4, LeaveType
  <2>2. TypeOK'
    BY <1>2, <2>1 DEF Audit, Inv, TypeOK, Part
  <2>3. QED BY <2>1, <2>2, Quiet DEF Audit
<1>5. QED BY <1>3, <1>4 DEF Audit

LEMMA TickKeeps ==
  ASSUME Inv, NEW j \in Jobs, Tick(j)
  PROVE  Inv'
<1>1. TypeOK'
  BY DEF Tick, Inv, TypeOK, Row, Schedule, Part
<1>2. \A k \in Jobs : job'[k].status = job[k].status /\ job'[k].parts = job[k].parts
  BY DEF Tick, Inv, TypeOK, Row
<1>3. QED BY <1>1, <1>2, Quiet DEF Tick

LEMMA ReadDueKeeps ==
  ASSUME Inv, NEW s \in Schedulers, ReadDue(s)
  PROVE  Inv'
<1>1. TypeOK'
  BY DEF ReadDue, Inv, TypeOK, Part
<1>2. QED BY <1>1, Quiet DEF ReadDue

LEMMA TakeUpKeeps ==
  ASSUME Inv, NEW s \in Schedulers, NEW j \in Jobs, TakeUp(s, j)
  PROVE  Inv'
<1>1. s \in Threads
  BY DEF Threads
<1> DEFINE new == Enter("claim", j)
<1>2. new \in Call /\ new.pc = "claim" /\ new.next = 1
  BY BroadcastAssumption DEF Enter, Call
<1>3. thread' = [thread EXCEPT ![s] = new]
  BY DEF TakeUp
<1> HIDE DEF new
<1>4. TypeOK'
  BY <1>1, <1>2, <1>3 DEF TakeUp, Inv, TypeOK, Part
<1>5. /\ thread'[s] = new
      /\ \A u \in Threads \ {s} : thread'[u] = thread[u]
  BY <1>1, <1>3 DEF Inv, TypeOK
<1>6. CallOK(s)' /\ ~Executing(s)'
  BY <1>2, <1>5 DEF CallOK, Executing
<1>7. QED BY <1>4, <1>5, <1>6, Quiet DEF TakeUp

LEMMA ClaimKeeps ==
  ASSUME Inv, NEW t \in Threads, Claim(t)
  PROVE  Inv'
<1>1. thread[t].pc = "claim" /\ thread[t].job \in Jobs /\ thread[t].next = 1
  BY CallType DEF Claim, Inv, CallOK
<1>2. CASE ~Claimable(thread[t].job) /\ Leave(t) /\ UNCHANGED job
  <2>1. /\ thread' \in [Threads -> Call \union {Idle}] /\ thread'[t] = Idle
        /\ \A u \in Threads \ {t} : thread'[u] = thread[u]
    BY <1>2, LeaveType
  <2>2. TypeOK'
    BY <1>2, <2>1 DEF Claim, Inv, TypeOK, Part
  <2>3. QED BY <1>2, <2>1, <2>2, Quiet DEF Claim
<1>3. CASE /\ Claimable(thread[t].job) /\ Goto(t, "find")
           /\ job' = [job EXCEPT ![thread[t].job].status = "PROCESSING"]
  <2>1. PICK j \in Jobs : j = thread[t].job
    BY <1>1
  <2>2. /\ thread' \in [Threads -> Call \union {Idle}]
        /\ thread'[t].pc = "find" /\ thread'[t].job = j /\ thread'[t].next = 1
        /\ \A u \in Threads \ {t} : thread'[u] = thread[u]
    BY <1>1, <1>3, <2>1, GotoType
  <2>3. /\ job' \in [Jobs -> Row] /\ job'[j].status = "PROCESSING"
        /\ \A k \in Jobs \ {j} : job'[k] = job[k]
    BY <1>3, <2>1, StatusSet DEF Status
  <2>4. TypeOK'
    BY <2>2, <2>3 DEF Claim, Inv, TypeOK, Part
  <2>5. job[j].status = "PENDING" /\ \A p \in Part : received[j][p] = 0
    BY <1>3, <2>1 DEF Claimable, Inv, JobOK
  <2>6. \A k \in Jobs : JobOK(k)'
    BY <2>3, <2>5 DEF Claim, Inv, JobOK, Part
  <2>7. \A u \in Threads : Executing(u) => thread[u].job \in Jobs /\ thread[u].job # j
    BY <2>5, CallType DEF Executing, Inv, CallOK
  <2>8. ASSUME NEW u \in Threads PROVE CallOK(u)'
    <3>1. CASE u = t
      <4>1. \A p \in Part : received'[j][p] = IF p < 1 THEN 1 ELSE 0
        BY <2>5 DEF Claim, Part
      <4>2. QED BY <2>2, <2>3, <3>1, <4>1 DEF CallOK, Part
    <3>2. CASE u # t
      BY <2>2, <2>3, <2>7, <3>2, OthersStay DEF Claim
    <3>3. QED BY <3>1, <3>2
  <2>9. ClaimedOnce'
    BY <2>2, <2>7 DEF Inv, ClaimedOnce, Executing
  <2>10. QED BY <2>4, <2>6, <2>8, <2>9 DEF Inv
<1>4. QED BY <1>2, <1>3 DEF Claim

LEMMA FindKeeps ==
  ASSUME Inv, NEW t \in Threads, Find(t)
  PROVE  Inv'
<1>1. thread[t].pc = "find"
  BY DEF Find
<1>2. /\ thread' \in [Threads -> Call \union {Idle}]
      /\ thread'[t].pc = "send" /\ thread'[t].job = thread[t].job
      /\ thread'[t].next = thread[t].next
      /\ \A u \in Threads \ {t} : thread'[u] = thread[u]
  BY <1>1, GotoType DEF Find
<1>3. TypeOK'
  BY <1>2 DEF Find, Inv, TypeOK, Part
<1>4. CallOK(t)'
  BY <1>1, <1>2, CallType DEF Find, Inv, CallOK, Part
<1>5. Executing(t)
  BY <1>1 DEF Executing
<1>6. QED BY <1>2, <1>3, <1>4, <1>5, Quiet DEF Find

LEMMA SendKeeps ==
  ASSUME Inv, NEW t \in Threads, Send(t)
  PROVE  Inv'
<1>1. PICK j \in Jobs, n \in 1..(MaxParts + 1) : j = thread[t].job /\ n = thread[t].next
  BY CallType DEF Send
<1>2. thread[t].pc = "send" /\ thread[t] \in Call /\ job[j] \in Row
  BY <1>1, CallType DEF Send
<1>3. n \in Part /\ n <= job[j].parts /\ n + 1 \in 1..(MaxParts + 1)
  BY <1>1, <1>2, BroadcastAssumption DEF Send, AllSent, Row, Part
<1>4. /\ job[j].status = "PROCESSING"
      /\ \A p \in Part : received[j][p] = IF p < n THEN 1 ELSE 0
  BY <1>1, <1>2, CallType DEF Inv, CallOK
<1>5. /\ received' \in [Jobs -> [Part -> Nat]]
      /\ \A p \in Part : received'[j][p] = IF p < n + 1 THEN 1 ELSE 0
      /\ \A k \in Jobs \ {j} : received'[k] = received[k]
  <2>1. received' = [received EXCEPT ![j][n] = @ + 1]
    BY <1>1 DEF Send
  <2>2. received \in [Jobs -> [Part -> Nat]]
    BY DEF Inv, TypeOK
  <2>3. \A k \in Jobs \ {j} : received'[k] = received[k]
    BY <2>1, <2>2
  <2>4. \A p \in Part : received'[j][p] = IF p = n THEN received[j][p] + 1 ELSE received[j][p]
    BY <1>3, <2>1, <2>2
  <2>5. received' \in [Jobs -> [Part -> Nat]]
    BY <1>3, <2>1, <2>2
  <2>6. \A p \in Part : received'[j][p] = IF p < n + 1 THEN 1 ELSE 0
    BY <1>3, <1>4, <2>4 DEF Part
  <2>7. QED BY <2>3, <2>5, <2>6
<1>6. /\ thread' \in [Threads -> Call \union {Idle}]
      /\ thread'[t].job = j /\ thread'[t] # Idle
      /\ \/ thread'[t].pc = "send" /\ thread'[t].next = n + 1
         \/ thread'[t].pc = "fail"
      /\ \A u \in Threads \ {t} : thread'[u] = thread[u]
  <2>1. CASE Goto(t, "fail")
    BY <1>1, <1>2, <2>1, GotoType
  <2>2. CASE thread' = [thread EXCEPT ![t].next = @ + 1]
    <3>1. [thread[t] EXCEPT !.next = n + 1] \in Call
      BY <1>2, <1>3 DEF Call
    <3>2. thread' = [thread EXCEPT ![t] = [thread[t] EXCEPT !.next = n + 1]]
      BY <1>1, <2>2
    <3>3. QED BY <1>1, <1>2, <3>1, <3>2 DEF Inv, TypeOK, Idle, Call
  <2>3. QED BY <2>1, <2>2 DEF Send
<1>7. TypeOK'
  <2>1. budget' \in [Events -> Nat]
    BY SpendType DEF Send, Inv, TypeOK, Events
  <2>2. QED BY <1>5, <1>6, <2>1 DEF Send, Inv, TypeOK, Part
<1>8. \A k \in Jobs : JobOK(k)'
  <2>1. \A p \in Part : received'[j][p] <= 1
    BY <1>5
  <2>2. JobOK(j)'
    BY <1>4, <2>1 DEF Send, JobOK, Part
  <2>3. ASSUME NEW k \in Jobs \ {j} PROVE JobOK(k)'
    <3>1. JobOK(k) /\ received'[k] = received[k] /\ job' = job
      BY <1>5 DEF Send, Inv
    <3>2. QED BY <3>1 DEF JobOK
  <2>4. QED BY <2>2, <2>3
<1>9. \A u \in Threads \ {t} : Executing(u) => thread[u].job \in Jobs /\ thread[u].job # j
  BY <1>1, <1>2, CallType DEF Executing, Inv, ClaimedOnce
<1>10. ASSUME NEW u \in Threads PROVE CallOK(u)'
  <2>1. CASE u = t
    BY <1>4, <1>5, <1>6, <2>1 DEF Send, CallOK, Part
  <2>2. CASE u # t
    BY <1>5, <1>6, <1>9, <2>2, OthersStay DEF Send
  <2>3. QED BY <2>1, <2>2
<1>11. ClaimedOnce'
  BY <1>1, <1>2, <1>6 DEF Inv, ClaimedOnce, Executing
<1>12. QED BY <1>7, <1>8, <1>10, <1>11 DEF Inv

LEMMA MarkSentKeeps ==
  ASSUME Inv, NEW t \in Threads, MarkSent(t)
  PROVE  Inv'
<1>1. PICK j \in Jobs, n \in 1..(MaxParts + 1) : j = thread[t].job /\ n = thread[t].next
  BY CallType DEF MarkSent
<1>2. thread[t].pc = "send" /\ n > job[j].parts /\ job[j].parts \in Part
  BY <1>1, CallType DEF MarkSent, AllSent, Row
<1>3. \A p \in Part : received[j][p] = IF p < n THEN 1 ELSE 0
  BY <1>1, <1>2, CallType DEF Inv, CallOK
<1>4. /\ job' \in [Jobs -> Row] /\ job'[j].status = "SENT" /\ job'[j].parts = job[j].parts
      /\ \A k \in Jobs \ {j} : job'[k] = job[k]
  BY <1>1, StatusSet DEF MarkSent, Status
<1>5. /\ thread' \in [Threads -> Call \union {Idle}]
      /\ thread'[t].pc = "log" /\ thread'[t].job = j
      /\ \A u \in Threads \ {t} : thread'[u] = thread[u]
  BY <1>1, <1>2, GotoType DEF MarkSent
<1>6. TypeOK'
  BY <1>4, <1>5 DEF MarkSent, Inv, TypeOK, Part
<1>7. \A k \in Jobs : JobOK(k)'
  <2>1. \A p \in Part : p <= job[j].parts => received[j][p] = 1
    BY <1>2, <1>3 DEF Part
  <2>2. JobOK(j)'
    BY <1>4, <2>1 DEF MarkSent, Inv, JobOK, Part
  <2>3. QED BY <1>4, <2>2 DEF MarkSent, Inv, JobOK, Part
<1>8. \A u \in Threads \ {t} : Executing(u) => thread[u].job \in Jobs /\ thread[u].job # j
  BY <1>1, <1>2, CallType DEF Executing, Inv, ClaimedOnce
<1>9. ASSUME NEW u \in Threads PROVE CallOK(u)'
  <2>1. CASE u = t
    BY <1>4, <1>5, <2>1 DEF CallOK
  <2>2. CASE u # t
    BY <1>4, <1>5, <1>8, <2>2, OthersStay DEF MarkSent
  <2>3. QED BY <2>1, <2>2
<1>10. ClaimedOnce'
  BY <1>1, <1>2, <1>5 DEF Inv, ClaimedOnce, Executing
<1>11. QED BY <1>6, <1>7, <1>9, <1>10 DEF Inv

LEMMA LogKeeps ==
  ASSUME Inv, NEW t \in Threads, Log(t)
  PROVE  Inv'
<1>1. /\ thread' \in [Threads -> Call \union {Idle}] /\ thread'[t] = Idle
      /\ \A u \in Threads \ {t} : thread'[u] = thread[u]
  BY LeaveType DEF Log
<1>2. TypeOK'
  BY <1>1 DEF Log, Inv, TypeOK, Part
<1>3. QED BY <1>1, <1>2, Quiet DEF Log

LEMMA FailKeeps ==
  ASSUME Inv, NEW t \in Threads, Fail(t)
  PROVE  Inv'
<1>1. PICK j \in Jobs : j = thread[t].job
  BY CallType DEF Fail
<1>2. thread[t].pc = "fail" /\ job[j].status \in {"PROCESSING", "SENT"}
  BY <1>1, CallType DEF Fail, Inv, CallOK
<1>3. /\ job' \in [Jobs -> Row] /\ job'[j].status = "FAILED"
      /\ \A k \in Jobs \ {j} : job'[k] = job[k]
  BY <1>1, StatusSet DEF Fail, Status
<1>4. /\ thread' \in [Threads -> Call \union {Idle}] /\ thread'[t] = Idle
      /\ \A u \in Threads \ {t} : thread'[u] = thread[u]
  BY LeaveType DEF Fail
<1>5. TypeOK'
  BY <1>3, <1>4 DEF Fail, Inv, TypeOK, Part
<1>6. \A k \in Jobs : JobOK(k)'
  BY <1>3 DEF Fail, Inv, JobOK, Part
<1>7. \A u \in Threads \ {t} : Executing(u) => thread[u].job \in Jobs /\ thread[u].job # j
  BY <1>1, <1>2, CallType DEF Executing, Inv, ClaimedOnce
<1>8. ASSUME NEW u \in Threads PROVE CallOK(u)'
  <2>1. CASE u = t
    BY <1>4, <2>1 DEF CallOK
  <2>2. CASE u # t
    BY <1>3, <1>4, <1>7, <2>2, OthersStay DEF Fail
  <2>3. QED BY <2>1, <2>2
<1>9. ClaimedOnce'
  BY <1>4 DEF Inv, ClaimedOnce, Executing, Idle
<1>10. QED BY <1>5, <1>6, <1>8, <1>9 DEF Inv

LEMMA FaultKeeps ==
  ASSUME Inv, NEW t \in Threads, Fault(t)
  PROVE  Inv'
<1>1. budget' \in [Events -> Nat]
  BY SpendType DEF Fault, Events
<1>2. CASE thread[t].pc \in {"send", "log"} /\ Goto(t, "fail")
  <2>1. /\ thread' \in [Threads -> Call \union {Idle}]
        /\ thread'[t].pc = "fail" /\ thread'[t].job = thread[t].job
        /\ \A u \in Threads \ {t} : thread'[u] = thread[u]
    BY <1>2, GotoType
  <2>2. TypeOK'
    BY <1>1, <2>1 DEF Fault, Inv, TypeOK, Part
  <2>3. CallOK(t)'
    BY <1>2, <2>1, CallType DEF Fault, Inv, CallOK
  <2>4. Executing(t)
    BY <1>2 DEF Executing
  <2>5. QED BY <2>1, <2>2, <2>3, <2>4, Quiet DEF Fault
<1>3. CASE Leave(t)
  <2>1. /\ thread' \in [Threads -> Call \union {Idle}] /\ thread'[t] = Idle
        /\ \A u \in Threads \ {t} : thread'[u] = thread[u]
    BY <1>3, LeaveType
  <2>2. TypeOK'
    BY <1>1, <2>1 DEF Fault, Inv, TypeOK, Part
  <2>3. QED BY <2>1, <2>2, Quiet DEF Fault
<1>4. QED BY <1>2, <1>3 DEF Fault

LEMMA CrashKeeps ==
  ASSUME Inv, NEW t \in Threads, Crash(t)
  PROVE  Inv'
<1>1. budget' \in [Events -> Nat]
  BY SpendType DEF Crash, Events
<1>2. /\ thread' \in [Threads -> Call \union {Idle}] /\ thread'[t] = Idle
      /\ \A u \in Threads \ {t} : thread'[u] = thread[u]
  BY LeaveType DEF Crash
<1>3. TypeOK'
  BY <1>1, <1>2 DEF Crash, Inv, TypeOK, Part
<1>4. QED BY <1>2, <1>3, Quiet DEF Crash

LEMMA AgentsKeep ==
  ASSUME Inv, NEW a \in Agents, SoftDelete(a) \/ \E j \in Jobs : Decide(a, j)
  PROVE  Inv'
<1>1. CASE SoftDelete(a)
  <2>1. PICK j \in Jobs : j = agent[a].job
    BY <1>1 DEF SoftDelete, Inv, TypeOK, Free
  <2>2. /\ job' \in [Jobs -> Row]
        /\ \A k \in Jobs : job'[k].status = job[k].status /\ job'[k].parts = job[k].parts
    <3>1. [job[j] EXCEPT !.deleted = TRUE] \in Row
      BY DEF Inv, TypeOK, Row
    <3>2. job' = [job EXCEPT ![j] = [job[j] EXCEPT !.deleted = TRUE]]
      BY <1>1, <2>1 DEF SoftDelete
    <3>3. QED BY <3>1, <3>2 DEF Inv, TypeOK, Row
  <2>3. agent' \in [Agents -> [pc : {"cancel", "remove"}, job : Jobs] \union {Free}]
    BY <1>1 DEF SoftDelete, Inv, TypeOK
  <2>4. cancelled' \in SUBSET Jobs
    BY <1>1, <2>1 DEF SoftDelete, Inv, TypeOK
  <2>5. TypeOK'
    BY <1>1, <2>2, <2>3, <2>4 DEF SoftDelete, Inv, TypeOK, Part
  <2>6. QED BY <1>1, <2>2, <2>5, Quiet DEF SoftDelete
<1>2. CASE \E j \in Jobs : Decide(a, j)
  <2>1. PICK j \in Jobs : Decide(a, j)
    BY <1>2
  <2>2. TypeOK'
    BY <2>1 DEF Decide, Inv, TypeOK, Part
  <2>3. QED BY <2>1, <2>2, Quiet DEF Decide
<1>3. QED BY <1>1, <1>2

LEMMA EveryStep == Inv /\ [Next]_vars => Inv'
<1> SUFFICES ASSUME Inv, [Next]_vars PROVE Inv'
  OBVIOUS
<1>1. CASE \E r \in Requests, j \in Jobs, schedule \in Schedule, parts \in Part :
             Create(r, j, schedule, parts)
  BY <1>1, CreateKeeps
<1>2. CASE \E r \in Requests : Audit(r)
  BY <1>2, AuditKeeps
<1>3. CASE \E j \in Jobs : Tick(j)
  BY <1>3, TickKeeps
<1>4. CASE \E s \in Schedulers : ReadDue(s) \/ \E j \in Jobs : TakeUp(s, j)
  BY <1>4, ReadDueKeeps, TakeUpKeeps
<1>5. CASE \E t \in Threads : Execute(t) \/ Fault(t) \/ Crash(t)
  BY <1>5, ClaimKeeps, FindKeeps, SendKeeps, MarkSentKeeps, LogKeeps, FailKeeps,
     FaultKeeps, CrashKeeps DEF Execute
<1>6. CASE \E a \in Agents : SoftDelete(a) \/ \E j \in Jobs : Decide(a, j)
  BY <1>6, AgentsKeep
<1>7. CASE UNCHANGED vars
  <2>1. TypeOK'
    BY <1>7 DEF vars, Inv, TypeOK, Part
  <2>2. QED BY <1>7, <2>1, Quiet DEF vars
<1>8. QED BY <1>1, <1>2, <1>3, <1>4, <1>5, <1>6, <1>7 DEF Next

LEMMA Invariance == Spec => []Inv
<1>1. QED BY Initially, EveryStep, PTL DEF Spec

-----------------------------------------------------------------------------
(* Theorems. *)

\* Every state of the rows, calls, schedulers and requests is well formed.
THEOREM TypeCorrect == Spec => []TypeOK
<1>1. Inv => TypeOK
  BY DEF Inv
<1>2. QED BY <1>1, Invariance, PTL

\* No part of a job reaches LINE twice, for any number of jobs, requests,
\* instances and parts, and any number of failures and crashes: the conditional
\* update of the claim is the only lock the code needs for that.
THEOREM SentOnce == Spec => []ReceivedOnce
<1>1. Inv => ReceivedOnce
  BY DEF Inv, JobOK, ReceivedOnce
<1>2. QED BY <1>1, Invariance, PTL

\* A job that is called SENT has reached LINE with all its parts.
THEOREM SentMeansComplete == Spec => []SentIsComplete
<1>1. Inv => SentIsComplete
  BY DEF Inv, JobOK, SentIsComplete
<1>2. QED BY <1>1, Invariance, PTL

\* No step sends, or claims, a job that was deleted before anyone claimed it.
THEOREM DeletionInTimeHolds == Spec => DeletedInTimeStaysUnsent
<1> DEFINE Kept(j) == job[j].deleted /\ job[j].status = "PENDING" =>
                        job'[j].status = "PENDING" /\ received'[j] = received[j]
<1>1. Inv /\ [Next]_vars => [\A j \in Jobs : Kept(j)]_vars
  <2> SUFFICES ASSUME Inv, Next, NEW j \in Jobs,
                      job[j].deleted, job[j].status = "PENDING"
               PROVE  job'[j].status = "PENDING" /\ received'[j] = received[j]
    OBVIOUS
  <2>1. \A t \in Threads : Executing(t) => thread[t].job \in Jobs /\ thread[t].job # j
    BY CallType DEF Executing, Inv, CallOK
  <2>2. ASSUME NEW t \in Threads, Execute(t) \/ Fault(t) \/ Crash(t)
        PROVE  job'[j] = job[j] /\ received'[j] = received[j]
    <3>1. CASE Claim(t)
      <4>1. thread[t].job = j => job' = job
        BY <3>1 DEF Claim, Claimable
      <4>2. thread[t].job # j => job'[j] = job[j]
        BY <3>1 DEF Claim, Inv, TypeOK
      <4>3. QED BY <3>1, <4>1, <4>2 DEF Claim
    <3>2. CASE Send(t) \/ MarkSent(t) \/ Fail(t)
      <4>1. thread[t].job # j
        BY <2>1, <3>2 DEF Send, MarkSent, Fail, Executing
      <4>2. QED BY <3>2, <4>1 DEF Send, MarkSent, Fail, Inv, TypeOK
    <3>3. CASE Find(t) \/ Log(t) \/ Fault(t) \/ Crash(t)
      BY <3>3 DEF Find, Log, Fault, Crash
    <3>4. QED BY <2>2, <3>1, <3>2, <3>3 DEF Execute
  <2>3. CASE \E r \in Requests, k \in Jobs, schedule \in Schedule, parts \in Part :
               Create(r, k, schedule, parts)
    BY <2>3 DEF Create
  <2>4. CASE \E k \in Jobs : Tick(k)
    BY <2>4 DEF Tick, Inv, TypeOK, Row
  <2>5. CASE \E a \in Agents : SoftDelete(a)
    BY <2>5 DEF SoftDelete, Inv, TypeOK, Row
  <2>6. CASE \/ \E r \in Requests : Audit(r)
             \/ \E s \in Schedulers : ReadDue(s) \/ \E k \in Jobs : TakeUp(s, k)
             \/ \E a \in Agents, k \in Jobs : Decide(a, k)
    BY <2>6 DEF Audit, ReadDue, TakeUp, Decide
  <2>7. QED BY <2>2, <2>3, <2>4, <2>5, <2>6 DEF Next
<1>2. QED BY <1>1, Invariance, PTL DEF Spec, DeletedInTimeStaysUnsent
=============================================================================
