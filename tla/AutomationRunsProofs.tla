------------------------ MODULE AutomationRunsProofs ------------------------
(* Proofs about AutomationRuns that hold for every value of its constants. *)
EXTENDS MCAutomationRuns, FiniteSetTheorems, TLAPS

(***************************************************************************)
(* What jobs, calls, handlers and the timeout refer to exists, and a call  *)
(* knows where it is: past Load it holds the steps it read and an index    *)
(* into them; past Act its step has taken effect.                          *)
(***************************************************************************)
ReferencesExist ==
  /\ \A j \in jobs : Exists(j.run)
  /\ \A w \in Workers : active[w] # NoJob => Exists(active[w].run)
  /\ \A t \in Threads : frame[t] # IdleFrame => Exists(frame[t].run)
  /\ \A h \in Handlers : \A s \in handler[h].waiting : Exists(s.run)
  /\ \A c \in Crons : \A r \in cron[c] : Exists(r)

CallsKnowTheirStep ==
  \A t \in Threads : frame[t] # IdleFrame =>
    /\ frame[t].pc \in {"start", "act", "advance", "enqueue"} =>
         frame[t].steps \in Plans /\ frame[t].idx < Len(frame[t].steps)
    /\ frame[t].pc \in {"advance", "enqueue"} => executed[frame[t].run][frame[t].idx] > 0

WorkersHoldJobs == \A w \in Workers : frame[w] # IdleFrame => active[w] # NoJob

Inv == TypeOK /\ ReferencesExist /\ CallsKnowTheirStep /\ WorkersHoldJobs /\ NoStepSkipped

\* The constants, as the proofs use them.
LEMMA TypesOfConstants ==
  /\ \A p \in Plans : Len(p) \in Nat /\ Len(p) <= MaxSteps
  /\ \A p \in Plans : \A i \in Nat : i < Len(p) => p[i + 1] \in Step
  /\ 0 \in Index
  /\ \A i \in Index : i \in Nat /\ i <= MaxSteps
<1>1. ASSUME NEW p \in Plans PROVE Len(p) \in Nat /\ Len(p) <= MaxSteps
  BY ConstantsAssumption
<1>2. ASSUME NEW p \in Plans, NEW i \in Nat, i < Len(p) PROVE p[i + 1] \in Step
  BY <1>2, ConstantsAssumption
<1>3. QED BY <1>1, <1>2, ConstantsAssumption DEF Index

LEMMA Initially == Init => Inv
<1> SUFFICES ASSUME Init PROVE Inv
  OBVIOUS
<1>1. TypeOK
  <2>1. rules \in [Rules -> Rule]
    BY DEF Init, Rule
  <2>2. handler \in [Handlers -> Handler]
    BY DEF Init, Handler, IdleHandler
  <2>3. deliveries \in [Messages -> 0..MaxDeliveries]
    BY ConstantsAssumption DEF Init
  <2>4. QED
    BY <2>1, <2>2, <2>3, ConstantsAssumption DEF Init, TypeOK
<1>2. ReferencesExist
  BY DEF Init, ReferencesExist, IdleHandler
<1>3. CallsKnowTheirStep
  BY DEF Init, CallsKnowTheirStep
<1>4. NoStepSkipped
  BY DEF Init, NoStepSkipped, IdleHandler, NoRun, Paused, Exists
<1>5. WorkersHoldJobs
  BY DEF Init, WorkersHoldJobs, Threads
<1>6. QED BY <1>1, <1>2, <1>3, <1>4, <1>5 DEF Inv

-----------------------------------------------------------------------------
(* What the invariant says of a call. *)

\* A thread in a call: its frame is a record of the right shape, its run a row.
LEMMA CallType ==
  ASSUME Inv, NEW t \in Threads, frame[t].pc # "idle"
  PROVE  /\ frame[t] \in Frame /\ frame[t] # IdleFrame
         /\ frame[t].run \in Runs /\ frame[t].idx \in Index
         /\ frame[t].steps \in Plans \union {<<>>} /\ frame[t].depth \in Nat
         /\ Exists(frame[t].run)
         /\ runs[frame[t].run] \in Run
         /\ RuleOf(frame[t].run) \in Rule
         /\ RuleOf(frame[t].run).steps \in Plans
<1>1. frame[t] \in Frame /\ frame[t] # IdleFrame
  BY DEF Inv, TypeOK, IdleFrame
<1>2. /\ frame[t].run \in Runs /\ frame[t].idx \in Index
      /\ frame[t].steps \in Plans \union {<<>>} /\ frame[t].depth \in Nat
  BY <1>1 DEF Frame
<1>3. Exists(frame[t].run)
  BY <1>1 DEF Inv, ReferencesExist
<1>4. runs[frame[t].run] \in Run
  BY <1>2, <1>3 DEF Inv, TypeOK, Exists, NoRun
<1>5. RuleOf(frame[t].run) \in Rule /\ RuleOf(frame[t].run).steps \in Plans
  BY <1>4 DEF Inv, TypeOK, RuleOf, Rule, Run
<1>6. QED BY <1>1, <1>2, <1>3, <1>4, <1>5

\* What the invariant asks of a frame.
FrameOK(f) ==
  /\ f.run \in Runs /\ f.idx \in Index
  /\ Exists(f.run)
  /\ f.pc \in {"start", "act", "advance", "enqueue"} =>
       f.steps \in Plans /\ f.idx < Len(f.steps)
  /\ f.pc \in {"advance", "enqueue"} => executed[f.run][f.idx] > 0
  /\ Done(f.run, f.idx)

LEMMA FramesOK ==
  ASSUME Inv, NEW t \in Threads, frame[t].pc # "idle"
  PROVE  FrameOK(frame[t])
BY CallType DEF Inv, CallsKnowTheirStep, NoStepSkipped, FrameOK

(***************************************************************************)
(* Every action keeps the invariant when it keeps the types, forgets no    *)
(* row and no executed step, and when whatever it newly refers to exists   *)
(* and has its earlier steps done.                                         *)
(***************************************************************************)
LEMMA Preserved ==
  ASSUME Inv, TypeOK', WorkersHoldJobs',
         \A r \in Runs : Exists(r) => Exists(r)',
         \A r \in Runs, i \in Index : executed[r][i] > 0 => executed'[r][i] > 0,
         \A t \in Threads : frame'[t] \in {frame[t], IdleFrame} \/ FrameOK(frame[t])',
         \A j \in jobs' : j \in jobs \/ (Exists(j.run)' /\ Done(j.run, j.idx)'),
         \A w \in Workers : active'[w] \in {active[w], NoJob}
                            \/ (Exists(active[w].run)' /\ Done(active[w].run, active[w].idx)'),
         \A h \in Handlers : \A s \in handler'[h].waiting :
           s \in handler[h].waiting \/ (Exists(s.run)' /\ Done(s.run, s.idx)'),
         \A c \in Crons : \A r \in cron'[c] : r \in cron[c] \/ Exists(r)',
         \A r \in Runs : Paused(r)' =>
           (Paused(r) /\ runs'[r].idx = runs[r].idx) \/ Done(r, runs[r].idx)'
  PROVE  Inv'
<1>1. \A r \in Runs, i \in Index : Done(r, i) => Done(r, i)'
  BY DEF Done
<1>2. /\ \A j \in jobs : j.run \in Runs /\ j.idx \in Index
      /\ \A w \in Workers : active[w] # NoJob => active[w].run \in Runs /\ active[w].idx \in Index
      /\ \A h \in Handlers : \A s \in handler[h].waiting : s.run \in Runs /\ s.idx \in Index
      /\ \A c \in Crons : cron[c] \subseteq Runs
      /\ \A r \in Runs : Paused(r) => runs[r].idx \in Index
  <2>1. \A r \in Runs : Paused(r) => runs[r].idx \in Index
    BY DEF Inv, TypeOK, Paused, Exists, Run, NoRun
  <2>2. \A h \in Handlers : \A s \in handler[h].waiting : s.run \in Runs /\ s.idx \in Index
    BY DEF Inv, TypeOK, Handler, Snapshot
  <2>3. QED
    BY <2>1, <2>2 DEF Inv, TypeOK, Job
<1>3. \A t \in Threads : frame'[t] # IdleFrame => FrameOK(frame[t])'
  <2> SUFFICES ASSUME NEW t \in Threads, frame'[t] # IdleFrame, frame'[t] = frame[t]
               PROVE  FrameOK(frame[t])'
    OBVIOUS
  <2>1. frame[t].pc # "idle"
    BY DEF Inv, TypeOK, Frame
  <2>2. FrameOK(frame[t])
    BY <2>1, FramesOK
  <2>3. QED
    BY <1>1, <2>2 DEF FrameOK
<1>4. ReferencesExist'
  BY <1>2, <1>3 DEF Inv, ReferencesExist, FrameOK
<1>5. CallsKnowTheirStep'
  BY <1>3 DEF CallsKnowTheirStep, FrameOK
<1>6. NoStepSkipped'
  <2>1. \A j \in jobs' : Done(j.run, j.idx)'
    BY <1>1, <1>2 DEF Inv, NoStepSkipped
  <2>2. \A w \in Workers : active'[w] # NoJob => Done(active[w].run, active[w].idx)'
    BY <1>1, <1>2 DEF Inv, NoStepSkipped
  <2>3. \A t \in Threads : frame'[t] # IdleFrame => Done(frame[t].run, frame[t].idx)'
    BY <1>3 DEF FrameOK
  <2>4. \A r \in Runs : Paused(r)' => Done(r, runs[r].idx)'
    BY <1>1, <1>2 DEF Inv, NoStepSkipped
  <2>5. \A h \in Handlers : \A s \in handler'[h].waiting : Done(s.run, s.idx)'
    BY <1>1, <1>2 DEF Inv, NoStepSkipped
  <2>6. QED
    BY <2>1, <2>2, <2>3, <2>4, <2>5 DEF NoStepSkipped
<1>7. QED
  BY <1>4, <1>5, <1>6 DEF Inv

-----------------------------------------------------------------------------
(* What the building blocks of the actions do to the state. *)

\* A frame of one thread is replaced.
LEMMA FrameReplaced ==
  ASSUME Inv, NEW t \in Threads, NEW g \in Frame \union {IdleFrame},
         frame' = [frame EXCEPT ![t] = g]
  PROVE  /\ frame' \in [Threads -> Frame \union {IdleFrame}]
         /\ frame'[t] = g
         /\ \A u \in Threads : u # t => frame'[u] = frame[u]
BY DEF Inv, TypeOK

\* A call goes on at another place.
PCs == {"submit", "load", "start", "act", "advance", "enqueue", "complete", "fail", "done"}
LEMMA GotoMoves ==
  ASSUME Inv, NEW t \in Threads, frame[t].pc # "idle", NEW pc \in PCs, Goto(t, pc)
  PROVE  /\ frame' \in [Threads -> Frame \union {IdleFrame}]
         /\ frame'[t] # IdleFrame /\ frame'[t].pc = pc
         /\ frame'[t].run = frame[t].run /\ frame'[t].idx = frame[t].idx
         /\ frame'[t].steps = frame[t].steps
         /\ \A u \in Threads : u # t => frame'[u] = frame[u]
         /\ active' = active /\ handler' = handler
         /\ WorkersHoldJobs'
<1> DEFINE g == [frame[t] EXCEPT !.pc = pc]
<1>1. /\ g \in Frame /\ g.pc = pc /\ g.run = frame[t].run /\ g.idx = frame[t].idx
      /\ g.steps = frame[t].steps
  BY CallType DEF Frame, PCs
<1>2. g # IdleFrame
  BY <1>1 DEF IdleFrame, PCs
<1>3. frame' = [frame EXCEPT ![t] = g] /\ active' = active /\ handler' = handler
  BY DEF Goto, To
<1> HIDE DEF g
<1>4. /\ frame' \in [Threads -> Frame \union {IdleFrame}]
      /\ frame'[t] = g
      /\ \A u \in Threads : u # t => frame'[u] = frame[u]
  BY <1>1, <1>3, FrameReplaced
<1>5. frame[t] # IdleFrame
  BY CallType
<1>6. WorkersHoldJobs'
  BY <1>3, <1>4, <1>5 DEF Inv, WorkersHoldJobs, Threads
<1>7. QED
  BY <1>1, <1>2, <1>3, <1>4, <1>6

\* The row of an existing run is updated.
LEMMA RunUpdated ==
  ASSUME Inv, NEW r \in Runs, Exists(r), NEW s \in Status, NEW i \in Index,
         \/ runs' = [runs EXCEPT ![r].status = s, ![r].idx = i]
         \/ runs' = [runs EXCEPT ![r].status = s] /\ i = runs[r].idx
  PROVE  /\ runs' \in [Runs -> Run \union {NoRun}]
         /\ runs'[r].status = s /\ runs'[r].idx = i
         /\ \A q \in Runs : q # r => runs'[q] = runs[q]
         /\ \A q \in Runs : Exists(q) => Exists(q)'
<1>1. runs \in [Runs -> Run \union {NoRun}] /\ runs[r] \in Run
  BY DEF Inv, TypeOK, Exists, NoRun
<1>2. /\ [runs[r] EXCEPT !.status = s, !.idx = i] \in Run
      /\ [runs[r] EXCEPT !.status = s] \in Run
  BY <1>1 DEF Run
<1>3. /\ runs' \in [Runs -> Run \union {NoRun}]
      /\ \A q \in Runs : q # r => runs'[q] = runs[q]
  BY <1>1, <1>2
<1>4. runs'[r].status = s /\ runs'[r].idx = i
  BY <1>1 DEF Run
<1>5. \A q \in Runs : Exists(q) => Exists(q)'
  BY <1>3, <1>4 DEF Exists, Status, Settled
<1>6. QED
  BY <1>3, <1>4, <1>5

\* A row that is not paused by its update.
LEMMA NotPaused ==
  ASSUME Inv, NEW r \in Runs, Exists(r), NEW s \in Status, s # "WAITING_FOR_REPLY",
         \/ \E i \in Index : runs' = [runs EXCEPT ![r].status = s, ![r].idx = i]
         \/ runs' = [runs EXCEPT ![r].status = s]
  PROVE  /\ runs' \in [Runs -> Run \union {NoRun}]
         /\ \A q \in Runs : Exists(q) => Exists(q)'
         /\ \A q \in Runs : Paused(q)' => Paused(q) /\ runs'[q].idx = runs[q].idx
<1>1. runs[r].idx \in Index
  BY DEF Inv, TypeOK, Exists, NoRun, Run
<1>2. /\ runs' \in [Runs -> Run \union {NoRun}]
      /\ runs'[r].status = s
      /\ \A q \in Runs : q # r => runs'[q] = runs[q]
      /\ \A q \in Runs : Exists(q) => Exists(q)'
  BY <1>1, RunUpdated
<1>3. QED
  BY <1>2 DEF Paused, Exists

\* A call that rejects outside its try block.
LEMMA RejectEnds ==
  ASSUME Inv, NEW t \in Threads, frame[t].pc # "idle", Reject(t)
  PROVE  /\ frame' \in [Threads -> Frame \union {IdleFrame}]
         /\ \/ frame'[t] = IdleFrame
            \/ /\ frame'[t].pc = "fail"
               /\ frame'[t].run = frame[t].run /\ frame'[t].idx = frame[t].idx
         /\ \A u \in Threads : u # t => frame'[u] = frame[u]
         /\ active' \in [Workers -> Job \union {NoJob}]
         /\ \A w \in Workers : active'[w] \in {active[w], NoJob}
         /\ jobs' \in SUBSET Job
         /\ \A j \in jobs' : j \in jobs \/
              (\E w \in Workers : active[w] # NoJob /\ j.run = active[w].run /\ j.idx = active[w].idx)
         /\ handler' \in [Handlers -> Handler]
         /\ \A h \in Handlers : handler'[h].waiting \subseteq handler[h].waiting
         /\ WorkersHoldJobs'
<1>1. CASE frame[t].depth > 0
  <2> DEFINE g == [frame[t] EXCEPT !.pc = "fail", !.depth = @ - 1]
  <2> DEFINE d == frame[t].depth - 1
  <2>0. d \in Nat /\ frame[t] \in Frame
    BY <1>1, CallType
  <2>1. /\ g \in Frame /\ g.pc = "fail" /\ g.run = frame[t].run /\ g.idx = frame[t].idx
    <3>1. g = [frame[t] EXCEPT !.pc = "fail", !.depth = d]
      BY <2>0 DEF Frame
    <3> HIDE DEF d, g
    <3>2. QED
      BY <2>0, <3>1 DEF Frame
  <2>2. frame' = [frame EXCEPT ![t] = g] /\ UNCHANGED <<active, handler, jobs>>
    BY <1>1 DEF Reject, To
  <2> HIDE DEF g
  <2>3. /\ frame' \in [Threads -> Frame \union {IdleFrame}]
        /\ frame'[t] = g
        /\ \A u \in Threads : u # t => frame'[u] = frame[u]
    BY <2>1, <2>2, FrameReplaced
  <2>4. frame[t] # IdleFrame
    BY CallType
  <2>5. WorkersHoldJobs'
    BY <2>2, <2>3, <2>4 DEF Inv, WorkersHoldJobs, Threads
  <2>6. QED
    BY <2>1, <2>2, <2>3, <2>5 DEF Inv, TypeOK
<1>2. CASE ~(frame[t].depth > 0)
  <2>1. /\ frame' = [frame EXCEPT ![t] = IdleFrame]
        /\ active' = [w \in Workers |-> IF w = t THEN NoJob ELSE active[w]]
        /\ jobs' = IF t \in Workers THEN jobs \union Retried(active[t]) ELSE jobs
        /\ handler' = [h \in Handlers |->
             IF h = t /\ handler[h].stage = "resuming"
             THEN [handler[h] EXCEPT !.waiting = {}, !.skip = {}]
             ELSE handler[h]]
    BY <1>2 DEF Reject
  <2>2. /\ frame' \in [Threads -> Frame \union {IdleFrame}]
        /\ frame'[t] = IdleFrame
        /\ \A u \in Threads : u # t => frame'[u] = frame[u]
    BY <2>1, FrameReplaced
  <2>3. /\ active' \in [Workers -> Job \union {NoJob}]
        /\ \A w \in Workers : active'[w] \in {active[w], NoJob}
    BY <2>1 DEF Inv, TypeOK
  <2>4. ASSUME t \in Workers
        PROVE  \A j \in Retried(active[t]) :
                 j \in Job /\ j.run = active[t].run /\ j.idx = active[t].idx
    <3>1. active[t] \in Job
      BY <2>4, CallType DEF Inv, TypeOK, WorkersHoldJobs
    <3> DEFINE again == [active[t] EXCEPT !.attempts = @ + 1]
    <3>2. /\ active[t].attempts + 1 < MaxAttempts => again \in Job
          /\ again.run = active[t].run /\ again.idx = active[t].idx
      BY <3>1 DEF Job, MaxAttempts
    <3>3. Retried(active[t]) =
            IF active[t].attempts + 1 < MaxAttempts THEN {again} ELSE {}
      BY DEF Retried
    <3> HIDE DEF again
    <3>4. QED
      BY <3>2, <3>3
  <2>5. /\ jobs' \in SUBSET Job
        /\ \A j \in jobs' : j \in jobs \/
              (\E w \in Workers : active[w] # NoJob /\ j.run = active[w].run /\ j.idx = active[w].idx)
    <3>1. CASE t \in Workers
      <4>1. active[t] # NoJob
        BY <3>1, CallType DEF Inv, WorkersHoldJobs
      <4>2. QED
        BY <2>1, <2>4, <3>1, <4>1 DEF Inv, TypeOK
    <3>2. CASE t \notin Workers
      BY <2>1, <3>2 DEF Inv, TypeOK
    <3>3. QED
      BY <3>1, <3>2
  <2>6. \A h \in Handlers :
          /\ handler[h] \in Handler
          /\ [handler[h] EXCEPT !.waiting = {}, !.skip = {}] \in Handler
          /\ [handler[h] EXCEPT !.waiting = {}, !.skip = {}].waiting = {}
    <3>1. \A x \in Handler : /\ [x EXCEPT !.waiting = {}, !.skip = {}] \in Handler
                             /\ [x EXCEPT !.waiting = {}, !.skip = {}].waiting = {}
      BY DEF Handler
    <3>2. \A h \in Handlers : handler[h] \in Handler
      BY DEF Inv, TypeOK
    <3>3. QED BY <3>1, <3>2
  <2>7. /\ handler' \in [Handlers -> Handler]
        /\ \A h \in Handlers : handler'[h].waiting \subseteq handler[h].waiting
    BY <2>1, <2>6
  <2>8. WorkersHoldJobs'
    BY <2>1, <2>2 DEF Inv, WorkersHoldJobs, Threads
  <2>9. QED
    BY <2>2, <2>3, <2>5, <2>7, <2>8
<1>3. QED
  BY <1>1, <1>2

LEMMA Spent == ASSUME Inv, NEW e \in Events, Spend(e) PROVE budget' \in [Events -> Nat]
<1>1. budget \in [Events -> Nat] /\ budget[e] > 0 /\ budget' = [budget EXCEPT ![e] = @ - 1]
  BY DEF Inv, TypeOK, Spend
<1>2. budget[e] - 1 \in Nat
  BY <1>1
<1>3. QED
  BY <1>1, <1>2

LEMMA CallShape ==
  ASSUME NEW r \in Runs, NEW i \in Index, NEW d \in Nat
  PROVE  /\ Call(r, i, d) \in Frame /\ Call(r, i, d) # IdleFrame
         /\ Call(r, i, d).pc = "load"
         /\ Call(r, i, d).run = r /\ Call(r, i, d).idx = i
BY DEF Call, Frame, IdleFrame

\* A step that took effect, with all before it, leads to the next index.
LEMMA NextIndex ==
  ASSUME Inv, NEW t \in Threads, frame[t].pc \in {"advance", "enqueue"}
  PROVE  /\ frame[t].idx + 1 \in Index
         /\ Done(frame[t].run, frame[t].idx + 1)
<1>1. /\ frame[t].run \in Runs /\ frame[t].idx \in Index
      /\ frame[t].steps \in Plans /\ frame[t].idx < Len(frame[t].steps)
      /\ executed[frame[t].run][frame[t].idx] > 0
      /\ Done(frame[t].run, frame[t].idx)
  BY FramesOK DEF FrameOK
<1>2. frame[t].idx + 1 \in Index
  BY <1>1, TypesOfConstants, ConstantsAssumption DEF Index
<1>3. ASSUME NEW i \in Index, i < frame[t].idx + 1
      PROVE  i < frame[t].idx \/ i = frame[t].idx
  BY <1>1, <1>3, TypesOfConstants
<1>4. QED
  BY <1>1, <1>2, <1>3 DEF Done

LEMMA Pushed ==
  ASSUME Inv, NEW id \in JobIds, NEW r \in Runs, NEW i \in Index, Push(id, r, i)
  PROVE  /\ jobs' \in SUBSET Job
         /\ \A j \in jobs' : j \in jobs \/ (j.run = r /\ j.idx = i)
<1> DEFINE new == [id |-> id, run |-> r, idx |-> i, attempts |-> 0, stalled |-> FALSE]
<1>1. new \in Job /\ new.run = r /\ new.idx = i
  BY DEF Job, MaxAttempts
<1>2. jobs' = jobs \union {new} /\ jobs \in SUBSET Job
  BY DEF Push, Inv, TypeOK
<1> HIDE DEF new
<1>3. QED
  BY <1>1, <1>2

-----------------------------------------------------------------------------
(* The steps of processRunStep. *)

\* A call that only moves on, to a frame the invariant allows.
LEMMA OnlyFrame ==
  ASSUME Inv, NEW t \in Threads, frame[t].pc # "idle",
         NEW g \in Frame, g # IdleFrame, FrameOK(g), To(t, g),
         UNCHANGED <<rules, runs, jobs, cron, deliveries, executed, resumes>>,
         budget' \in [Events -> Nat]
  PROVE  Inv'
<1>1. /\ frame' \in [Threads -> Frame \union {IdleFrame}]
      /\ frame'[t] = g
      /\ \A u \in Threads : u # t => frame'[u] = frame[u]
      /\ UNCHANGED <<active, handler>>
  BY FrameReplaced DEF To
<1>2. TypeOK'
  BY <1>1 DEF Inv, TypeOK
<1>3. WorkersHoldJobs'
  BY <1>1, CallType DEF Inv, WorkersHoldJobs, Threads
<1>4. FrameOK(frame[t])'
  BY <1>1 DEF FrameOK, Exists, Done
<1>5. QED
  BY <1>1, <1>2, <1>3, <1>4, Preserved DEF Exists, Paused

LEMMA LoadStep == ASSUME Inv, NEW t \in Threads, Load(t) PROVE Inv'
<1> DEFINE f == frame[t]
           steps == RuleOf(f.run).steps
<1>1. /\ f \in Frame /\ f.pc = "load" /\ steps \in Plans
      /\ f.depth \in Nat /\ FrameOK(f)
  BY CallType, FramesOK DEF Load
<1>2. /\ UNCHANGED <<rules, runs, jobs, cron, deliveries, executed, resumes>>
      /\ budget' \in [Events -> Nat]
  BY DEF Load, Inv, TypeOK
<1>3. CASE Goto(t, "done")
  <2> DEFINE g == [f EXCEPT !.pc = "done"]
  <2>1. /\ g \in Frame /\ g.pc = "done" /\ g.run = f.run /\ g.idx = f.idx
        /\ g # IdleFrame
    BY <1>1 DEF Frame, IdleFrame
  <2>2. FrameOK(g)
    BY <1>1, <2>1 DEF FrameOK
  <2>3. To(t, g)
    BY <1>3 DEF Goto
  <2> HIDE DEF g
  <2>4. QED
    BY <1>1, <1>2, <2>1, <2>2, <2>3, OnlyFrame
<1>4. CASE To(t, [f EXCEPT !.pc = "complete", !.steps = steps])
  <2> DEFINE g == [f EXCEPT !.pc = "complete", !.steps = steps]
  <2>1. /\ g \in Frame /\ g.pc = "complete" /\ g.run = f.run /\ g.idx = f.idx
        /\ g # IdleFrame
    BY <1>1 DEF Frame, IdleFrame
  <2>2. FrameOK(g)
    BY <1>1, <2>1 DEF FrameOK
  <2>3. To(t, g)
    BY <1>4
  <2> HIDE DEF g
  <2>4. QED
    BY <1>1, <1>2, <2>1, <2>2, <2>3, OnlyFrame
<1>5. CASE f.idx < Len(steps) /\ To(t, [f EXCEPT !.pc = "start", !.steps = steps])
  <2> DEFINE g == [f EXCEPT !.pc = "start", !.steps = steps]
  <2>1. /\ g \in Frame /\ g.pc = "start" /\ g.run = f.run /\ g.idx = f.idx
        /\ g.steps = steps /\ g # IdleFrame
    BY <1>1 DEF Frame, IdleFrame
  <2>2. FrameOK(g)
    BY <1>1, <1>5, <2>1 DEF FrameOK
  <2>3. To(t, g)
    BY <1>5
  <2> HIDE DEF g
  <2>4. QED
    BY <1>1, <1>2, <2>1, <2>2, <2>3, OnlyFrame
<1>6. f.idx >= Len(steps) \/ f.idx < Len(steps)
  BY <1>1, TypesOfConstants DEF FrameOK
<1>7. QED
  BY <1>3, <1>4, <1>5, <1>6 DEF Load, PastLast

\* A call that may write the row of its run, and then rejects or goes on at pc.
LEMMA CallStep ==
  ASSUME Inv, NEW t \in Threads, frame[t].pc # "idle",
         runs' \in [Runs -> Run \union {NoRun}],
         \A q \in Runs : Exists(q) => Exists(q)',
         \A q \in Runs : Paused(q)' =>
           (Paused(q) /\ runs'[q].idx = runs[q].idx) \/ Done(q, runs[q].idx)',
         NEW pc \in PCs,
         pc \in {"start", "act", "advance", "enqueue"} => frame[t].pc \in {"start", "act", "advance", "enqueue"},
         pc \in {"advance", "enqueue"} => executed'[frame[t].run][frame[t].idx] > 0,
         (Goto(t, pc) /\ UNCHANGED jobs) \/ Reject(t),
         UNCHANGED <<rules, cron, deliveries>>,
         resumes' \in SUBSET [run : Runs, idx : Index, msg : Messages \union {NoMessage}],
         executed' \in [Runs -> [Index -> Nat]],
         \A r \in Runs, k \in Index : executed'[r][k] >= executed[r][k],
         budget' \in [Events -> Nat]
  PROVE  Inv'
<1>0. PICK run \in Runs, idx \in Index : run = frame[t].run /\ idx = frame[t].idx
  BY CallType
<1>1. Exists(run) /\ FrameOK(frame[t])
  BY <1>0, CallType, FramesOK
<1>3. \A r \in Runs, k \in Index : executed[r][k] > 0 => executed'[r][k] > 0
  BY DEF Inv, TypeOK
<1>4. \A r \in Runs, k \in Index : Done(r, k) => Done(r, k)'
  BY <1>3 DEF Done
<1>5. /\ frame' \in [Threads -> Frame \union {IdleFrame}]
      /\ \A u \in Threads : frame'[u] \in {frame[u], IdleFrame} \/ FrameOK(frame[u])'
      /\ WorkersHoldJobs'
      /\ active' \in [Workers -> Job \union {NoJob}]
      /\ \A w \in Workers : active'[w] \in {active[w], NoJob}
      /\ handler' \in [Handlers -> Handler]
      /\ \A h \in Handlers : handler'[h].waiting \subseteq handler[h].waiting
      /\ jobs' \in SUBSET Job
      /\ \A j \in jobs' : j \in jobs \/ (Exists(j.run)' /\ Done(j.run, j.idx)')
  <2>1. CASE Goto(t, pc) /\ UNCHANGED jobs
    <3>1. /\ frame'[t].pc = pc /\ frame'[t].run = run /\ frame'[t].idx = idx
          /\ frame'[t].steps = frame[t].steps
          /\ frame' \in [Threads -> Frame \union {IdleFrame}]
          /\ \A u \in Threads : u # t => frame'[u] = frame[u]
          /\ active' = active /\ handler' = handler /\ jobs' = jobs
          /\ WorkersHoldJobs'
      BY <1>0, <2>1, GotoMoves
    <3>2. /\ Exists(run)' /\ Done(run, idx)'
          /\ pc \in {"start", "act", "advance", "enqueue"} =>
               frame[t].steps \in Plans /\ idx < Len(frame[t].steps)
      BY <1>0, <1>1, <1>4 DEF FrameOK
    <3>3. FrameOK(frame[t])'
      BY <1>0, <3>1, <3>2 DEF FrameOK
    <3>4. /\ active \in [Workers -> Job \union {NoJob}]
          /\ handler \in [Handlers -> Handler] /\ jobs \in SUBSET Job
      BY DEF Inv, TypeOK
    <3>5. QED
      BY <3>1, <3>3, <3>4
  <2>2. CASE Reject(t)
    <3>1. \/ frame'[t] = IdleFrame
          \/ frame'[t].pc = "fail" /\ frame'[t].run = run /\ frame'[t].idx = idx
      BY <1>0, <2>2, RejectEnds
    <3>2. Exists(run)' /\ Done(run, idx)'
      BY <1>0, <1>1, <1>4 DEF FrameOK
    <3>3. frame'[t] = IdleFrame \/ FrameOK(frame[t])'
      BY <3>1, <3>2 DEF FrameOK
    <3>4. ASSUME NEW w \in Workers, active[w] # NoJob,
                 NEW q, q = active[w].run, NEW k, k = active[w].idx
          PROVE  Exists(q)' /\ Done(q, k)'
      BY <1>4, <3>4 DEF Inv, ReferencesExist, NoStepSkipped, TypeOK, Job
    <3>5. \A j \in jobs' : j \in jobs \/ (Exists(j.run)' /\ Done(j.run, j.idx)')
      BY <2>2, <3>4, RejectEnds
    <3>6. QED
      BY <2>2, <3>3, <3>5, RejectEnds
  <2>3. QED
    BY <2>1, <2>2
<1>6. TypeOK'
  BY <1>5 DEF Inv, TypeOK
<1>7. QED
  BY <1>3, <1>5, <1>6, Preserved

\* Where nothing is executed, and no row is touched, a call step needs less.
LEMMA Unmoved ==
  ASSUME Inv
  PROVE  /\ executed \in [Runs -> [Index -> Nat]]
         /\ \A r \in Runs, k \in Index : executed[r][k] >= executed[r][k]
         /\ resumes \in SUBSET [run : Runs, idx : Index, msg : Messages \union {NoMessage}]
         /\ runs \in [Runs -> Run \union {NoRun}]
         /\ budget \in [Events -> Nat]
BY DEF Inv, TypeOK

LEMMA StartStep == ASSUME Inv, NEW t \in Threads, Start(t) PROVE Inv'
<1>1. /\ frame[t].pc = "start" /\ frame[t].run \in Runs /\ frame[t].idx \in Index
      /\ Exists(frame[t].run)
  BY CallType DEF Start
<1>2. runs' = [runs EXCEPT ![frame[t].run].status = "RUNNING", ![frame[t].run].idx = frame[t].idx]
  BY DEF Start
<1>3. /\ runs' \in [Runs -> Run \union {NoRun}]
      /\ \A q \in Runs : Exists(q) => Exists(q)'
      /\ \A q \in Runs : Paused(q)' => Paused(q) /\ runs'[q].idx = runs[q].idx
  BY <1>1, <1>2, NotPaused DEF Status
<1>4. (Goto(t, "act") /\ UNCHANGED <<jobs, budget>>) \/ (Spend("faults") /\ Reject(t))
  BY DEF Start
<1>5. budget' \in [Events -> Nat]
  BY <1>4, Spent, Unmoved DEF Events
<1>6. resumes' \in SUBSET [run : Runs, idx : Index, msg : Messages \union {NoMessage}]
  <2>1. t \in Handlers => handler[t].msg \in Messages \union {NoMessage}
    BY DEF Inv, TypeOK, Handler
  <2>2. resumes' = resumes \/
          (t \in Handlers /\
           resumes' = resumes \union
             {[run |-> frame[t].run, idx |-> frame[t].idx, msg |-> handler[t].msg]})
    BY DEF Start
  <2>3. QED
    BY <1>1, <2>1, <2>2, Unmoved
<1>7. UNCHANGED <<rules, cron, deliveries, executed>>
  BY DEF Start
<1>8. QED
  BY <1>1, <1>3, <1>4, <1>5, <1>6, <1>7, Unmoved, CallStep DEF PCs

LEMMA ActStep == ASSUME Inv, NEW t \in Threads, Act(t) PROVE Inv'
<1>1. /\ frame[t].pc = "act" /\ frame[t].run \in Runs /\ frame[t].idx \in Index
      /\ Exists(frame[t].run)
  BY CallType DEF Act
<1>2. executed' = [executed EXCEPT ![frame[t].run][frame[t].idx] = @ + 1]
  BY DEF Act
<1>3. /\ executed' \in [Runs -> [Index -> Nat]]
      /\ executed'[frame[t].run][frame[t].idx] > 0
      /\ \A r \in Runs, k \in Index : executed'[r][k] >= executed[r][k]
  <2>1. executed \in [Runs -> [Index -> Nat]]
    BY Unmoved
  <2>2. executed[frame[t].run][frame[t].idx] + 1 \in Nat
        /\ executed[frame[t].run][frame[t].idx] + 1 > 0
    BY <1>1, <2>1
  <2>3. QED
    BY <1>1, <1>2, <2>1, <2>2
<1>4. UNCHANGED <<rules, jobs, cron, deliveries, resumes>>
  BY DEF Act
<1>5. CASE runs' = [runs EXCEPT ![frame[t].run].status = "WAITING"]
           /\ Goto(t, "enqueue") /\ UNCHANGED budget
  <2>1. /\ runs' \in [Runs -> Run \union {NoRun}]
        /\ \A q \in Runs : Exists(q) => Exists(q)'
        /\ \A q \in Runs : Paused(q)' => Paused(q) /\ runs'[q].idx = runs[q].idx
    BY <1>1, <1>5, NotPaused DEF Status
  <2>2. QED
    BY <1>1, <1>3, <1>4, <1>5, <2>1, Unmoved, CallStep DEF PCs
<1>6. CASE Goto(t, "advance") /\ UNCHANGED budget /\ UNCHANGED runs
  BY <1>1, <1>3, <1>4, <1>6, Unmoved, CallStep DEF PCs, Exists, Paused
<1>7. CASE Goto(t, "fail") /\ Spend("faults") /\ UNCHANGED runs
  <2>1. budget' \in [Events -> Nat]
    BY <1>7, Spent DEF Events
  <2>2. QED
    BY <1>1, <1>3, <1>4, <1>7, <2>1, Unmoved, CallStep DEF PCs, Exists, Paused
<1>8. QED
  BY <1>5, <1>6, <1>7 DEF Act

LEMMA AdvanceStep == ASSUME Inv, NEW t \in Threads, Advance(t) PROVE Inv'
<1>0. PICK run \in Runs, next \in Index : run = frame[t].run /\ next = frame[t].idx + 1
  BY CallType, NextIndex DEF Advance
<1>1. /\ frame[t].pc = "advance" /\ Exists(run) /\ Done(run, next)
      /\ executed[frame[t].run][frame[t].idx] > 0
  BY <1>0, CallType, NextIndex, FramesOK DEF Advance, FrameOK
<1>2. UNCHANGED <<rules, jobs, cron, deliveries, executed, resumes, budget>>
  BY DEF Advance
<1>3. CASE (Goto(t, "complete") \/ Goto(t, "enqueue")) /\ UNCHANGED runs
  BY <1>1, <1>2, <1>3, Unmoved, CallStep DEF PCs, Exists, Paused
<1>4. CASE Pause(run, next) /\ Goto(t, "done")
  <2>1. /\ runs' \in [Runs -> Run \union {NoRun}]
        /\ runs'[run].idx = next
        /\ \A q \in Runs : q # run => runs'[q] = runs[q]
        /\ \A q \in Runs : Exists(q) => Exists(q)'
    <3>1. runs' = [runs EXCEPT ![run].status = "WAITING_FOR_REPLY", ![run].idx = next]
      BY <1>4 DEF Pause
    <3>2. "WAITING_FOR_REPLY" \in Status /\ Exists(run) /\ run \in Runs /\ next \in Index
      BY <1>1 DEF Status
    <3>3. runs \in [Runs -> Run \union {NoRun}] /\ runs[run] \in Run /\ \A q \in Runs : runs[q] \in Run => Exists(q)
      BY <3>2 DEF Inv, TypeOK, Exists, NoRun, Run, Status, Settled
    <3>4. PICK new : new = [runs[run] EXCEPT !.status = "WAITING_FOR_REPLY", !.idx = next]
      OBVIOUS
    <3>5. new \in Run /\ new.idx = next /\ new.status # "NONE"
      BY <3>2, <3>3, <3>4 DEF Run, Status
    <3>6. runs' = [runs EXCEPT ![run] = new]
      BY <3>1, <3>3, <3>4
    <3>7. runs' \in [Runs -> Run \union {NoRun}] /\ runs'[run] = new /\ \A q \in Runs : q # run => runs'[q] = runs[q]
      BY <3>2, <3>3, <3>5, <3>6
    <3>8. QED BY <3>5, <3>7 DEF Exists
  <2>2. ASSUME NEW q \in Runs, Paused(q)'
        PROVE  (Paused(q) /\ runs'[q].idx = runs[q].idx) \/ Done(q, runs[q].idx)'
    BY <1>1, <1>2, <2>1, <2>2 DEF Done, Paused, Exists
  <2>3. QED
    BY <1>1, <1>2, <1>4, <2>1, <2>2, Unmoved, CallStep DEF PCs
<1>5. QED
  BY <1>0, <1>3, <1>4 DEF Advance

LEMMA EnqueueStep == ASSUME Inv, NEW t \in Threads, Enqueue(t) PROVE Inv'
<1>0. PICK run \in Runs, next \in Index : run = frame[t].run /\ next = frame[t].idx + 1
  BY CallType, NextIndex DEF Enqueue
<1>1. /\ frame[t].pc = "enqueue" /\ Exists(run) /\ Done(run, next) /\ frame[t].depth \in Nat
  BY <1>0, CallType, NextIndex DEF Enqueue
<1>2. UNCHANGED <<rules, runs, cron, deliveries, executed, resumes, budget>>
  BY DEF Enqueue
<1>3. CASE To(t, Call(run, next, frame[t].depth + 1)) /\ UNCHANGED jobs
  <2> DEFINE g == Call(run, next, frame[t].depth + 1)
  <2>1. /\ g \in Frame /\ g # IdleFrame /\ g.pc = "load" /\ g.run = run /\ g.idx = next
    BY <1>1, CallShape
  <2>2. FrameOK(g)
    BY <1>1, <2>1 DEF FrameOK
  <2> HIDE DEF g
  <2>3. QED
    BY <1>1, <1>2, <1>3, <2>1, <2>2, OnlyFrame, Unmoved DEF g
<1>4. CASE Goto(t, "done") /\ \E id \in JobIds : Push(id, run, next)
  <2>2. /\ jobs' \in SUBSET Job
        /\ \A j \in jobs' : j \in jobs \/ (j.run = run /\ j.idx = next)
    BY <1>4, Pushed
  <2>3. /\ frame' \in [Threads -> Frame \union {IdleFrame}]
        /\ frame'[t].pc = "done"
        /\ frame'[t].run = frame[t].run /\ frame'[t].idx = frame[t].idx
        /\ \A u \in Threads : u # t => frame'[u] = frame[u]
        /\ active' = active /\ handler' = handler
        /\ WorkersHoldJobs'
    BY <1>1, <1>4, GotoMoves DEF PCs
  <2>4. TypeOK'
    BY <1>2, <2>2, <2>3 DEF Inv, TypeOK
  <2>5. FrameOK(frame[t])'
    BY <1>1, <1>2, <2>3, FramesOK DEF FrameOK, Exists, Done
  <2>6. Exists(run)' /\ Done(run, next)'
    BY <1>1, <1>2 DEF Exists, Done
  <2>7. QED
    BY <1>2, <2>2, <2>3, <2>4, <2>5, <2>6, Preserved DEF Exists, Paused
<1>5. QED
  BY <1>0, <1>3, <1>4 DEF Enqueue

LEMMA CompleteStep == ASSUME Inv, NEW t \in Threads, Complete(t) PROVE Inv'
<1>1. frame[t].pc = "complete" /\ frame[t].run \in Runs /\ Exists(frame[t].run)
  BY CallType DEF Complete
<1>2. /\ runs' \in [Runs -> Run \union {NoRun}]
      /\ \A q \in Runs : Exists(q) => Exists(q)'
      /\ \A q \in Runs : Paused(q)' => Paused(q) /\ runs'[q].idx = runs[q].idx
  BY <1>1, NotPaused DEF Complete, Status, Settled
<1>3. /\ budget' \in [Events -> Nat]
      /\ UNCHANGED <<rules, cron, deliveries, executed, resumes>>
  BY Spent, Unmoved DEF Complete, Events
<1>4. \/ (Goto(t, "done") \/ Goto(t, "fail")) /\ UNCHANGED jobs
      \/ Reject(t)
  BY DEF Complete
<1>5. QED
  BY <1>1, <1>2, <1>3, <1>4, Unmoved, CallStep DEF PCs

LEMMA FailStep == ASSUME Inv, NEW t \in Threads, Fail(t) PROVE Inv'
<1>1. frame[t].pc = "fail" /\ frame[t].run \in Runs /\ Exists(frame[t].run)
  BY CallType DEF Fail
<1>2. /\ runs' \in [Runs -> Run \union {NoRun}]
      /\ \A q \in Runs : Exists(q) => Exists(q)'
      /\ \A q \in Runs : Paused(q)' => Paused(q) /\ runs'[q].idx = runs[q].idx
  BY <1>1, NotPaused DEF Fail, Status, Settled
<1>3. /\ budget' \in [Events -> Nat]
      /\ UNCHANGED <<rules, cron, deliveries, executed, resumes>>
  BY Spent, Unmoved DEF Fail, Events
<1>4. (Goto(t, "done") /\ UNCHANGED jobs) \/ Reject(t)
  BY DEF Fail
<1>5. QED
  BY <1>1, <1>2, <1>3, <1>4, Unmoved, CallStep DEF PCs

LEMMA FaultStep == ASSUME Inv, NEW t \in Threads, Fault(t) PROVE Inv'
<1>1. frame[t].pc # "idle" /\ budget' \in [Events -> Nat]
  BY Spent DEF Fault, Events
<1>2. UNCHANGED <<rules, runs, cron, deliveries, executed, resumes>>
  BY DEF Fault
<1>3. (Goto(t, "fail") /\ UNCHANGED jobs) \/ Reject(t)
  BY DEF Fault
<1>4. QED
  BY <1>1, <1>2, <1>3, Unmoved, CallStep DEF PCs, Exists, Paused

-----------------------------------------------------------------------------
(* Returning from a call, and the queue workers. *)

LEMMA ReturnStep == ASSUME Inv, NEW t \in Threads, Return(t) PROVE Inv'
<1>1. /\ frame' = [frame EXCEPT ![t] = IdleFrame]
      /\ active' = [w \in Workers |-> IF w = t THEN NoJob ELSE active[w]]
      /\ handler' = [h \in Handlers |->
           IF h = t /\ handler[h].stage = "resuming"
           THEN [handler[h] EXCEPT !.skip = @ \union {runs[frame[t].run].rule}]
           ELSE handler[h]]
      /\ UNCHANGED <<rules, runs, jobs, cron, deliveries, executed, resumes, budget>>
  BY DEF Return
<1>2. /\ frame' \in [Threads -> Frame \union {IdleFrame}]
      /\ frame'[t] = IdleFrame
      /\ \A u \in Threads : u # t => frame'[u] = frame[u]
  BY <1>1, FrameReplaced
<1>3. PICK u \in Rules : u = runs[frame[t].run].rule
  BY CallType DEF Return, Run
<1>4. \A h \in Handlers :
        /\ handler[h] \in Handler
        /\ [handler[h] EXCEPT !.skip = @ \union {u}] \in Handler
        /\ [handler[h] EXCEPT !.skip = @ \union {u}].waiting = handler[h].waiting
  <2>1. \A x \in Handler : /\ [x EXCEPT !.skip = @ \union {u}] \in Handler
                           /\ [x EXCEPT !.skip = @ \union {u}].waiting = x.waiting
    BY DEF Handler
  <2>2. \A h \in Handlers : handler[h] \in Handler
    BY DEF Inv, TypeOK
  <2>3. QED BY <2>1, <2>2
<1>5. /\ handler' \in [Handlers -> Handler]
      /\ \A h \in Handlers : handler'[h].waiting = handler[h].waiting
  BY <1>1, <1>3, <1>4
<1>6. /\ active' \in [Workers -> Job \union {NoJob}]
      /\ \A w \in Workers : active'[w] \in {active[w], NoJob}
  BY <1>1 DEF Inv, TypeOK
<1>7. TypeOK'
  BY <1>1, <1>2, <1>5, <1>6 DEF Inv, TypeOK
<1>8. WorkersHoldJobs'
  BY <1>1, <1>2 DEF Inv, WorkersHoldJobs, Threads
<1>9. QED
  BY <1>1, <1>2, <1>5, <1>6, <1>7, <1>8, Preserved DEF Exists, Paused

LEMMA TakeJobStep == ASSUME Inv, NEW w \in Workers, TakeJob(w) PROVE Inv'
<1>1. PICK j \in jobs : /\ jobs' = jobs \ {j}
                        /\ active' = [active EXCEPT ![w] = j]
                        /\ frame' = [frame EXCEPT ![w] = Call(j.run, j.idx, 0)]
  BY DEF TakeJob
<1>2. UNCHANGED <<rules, runs, handler, cron, deliveries, executed, resumes, budget>>
  BY DEF TakeJob
<1>3. PICK run \in Runs, idx \in Index : run = j.run /\ idx = j.idx
  BY DEF Inv, TypeOK, Job
<1>4. j \in Job /\ j # NoJob /\ Exists(run) /\ Done(run, idx)
  BY <1>3, NoJobAssumption DEF Inv, TypeOK, ReferencesExist, NoStepSkipped
<1>5. /\ frame' \in [Threads -> Frame \union {IdleFrame}]
      /\ frame'[w].pc = "load" /\ frame'[w].run = run /\ frame'[w].idx = idx
      /\ \A u \in Threads : u # w => frame'[u] = frame[u]
  <2> DEFINE g == Call(run, idx, 0)
  <2>1. g \in Frame /\ g.pc = "load" /\ g.run = run /\ g.idx = idx
    BY CallShape
  <2>2. frame' = [frame EXCEPT ![w] = g] /\ w \in Threads
    BY <1>1, <1>3 DEF Threads
  <2> HIDE DEF g
  <2>3. QED
    BY <2>1, <2>2, FrameReplaced
<1>6. /\ active' \in [Workers -> Job \union {NoJob}]
      /\ active'[w] = j
      /\ \A v \in Workers : v # w => active'[v] = active[v]
  BY <1>1, <1>4 DEF Inv, TypeOK
<1>7. TypeOK'
  BY <1>1, <1>2, <1>5, <1>6 DEF Inv, TypeOK
<1>8. WorkersHoldJobs'
  BY <1>4, <1>5, <1>6 DEF Inv, WorkersHoldJobs, Threads
<1>9. Exists(run)' /\ Done(run, idx)'
  BY <1>2, <1>4 DEF Exists, Done
<1>10. FrameOK(frame[w])'
  BY <1>5, <1>9 DEF FrameOK
<1>11. Exists(active[w].run)' /\ Done(active[w].run, active[w].idx)'
  BY <1>3, <1>6, <1>9 DEF Exists, Done
<1>12. QED
  BY <1>1, <1>2, <1>5, <1>6, <1>7, <1>8, <1>10, <1>11, Preserved DEF Exists, Paused

LEMMA CrashStep == ASSUME Inv, NEW w \in Workers, Crash(w) PROVE Inv'
<1>1. /\ active' = [active EXCEPT ![w] = NoJob]
      /\ frame' = [frame EXCEPT ![w] = IdleFrame]
      /\ UNCHANGED <<rules, runs, handler, cron, deliveries, executed, resumes>>
      /\ budget' \in [Events -> Nat]
  BY Spent DEF Crash, Events
<1>2. active[w] \in Job /\ active[w] # NoJob
  BY DEF Inv, TypeOK, Crash
<1>3. PICK run \in Runs, idx \in Index : run = active[w].run /\ idx = active[w].idx
  BY <1>2 DEF Job
<1>4. Exists(run) /\ Done(run, idx)
  BY <1>2, <1>3 DEF Inv, ReferencesExist, NoStepSkipped
<1> DEFINE again == [active[w] EXCEPT !.stalled = TRUE]
<1>5. again \in Job /\ again.run = run /\ again.idx = idx
  BY <1>2, <1>3 DEF Job
<1>6. jobs' = jobs \union (IF active[w].stalled THEN {} ELSE {again})
  BY DEF Crash
<1> HIDE DEF again
<1>7. /\ jobs' \in SUBSET Job
      /\ \A j \in jobs' : j \in jobs \/ (j.run = run /\ j.idx = idx)
  BY <1>5, <1>6 DEF Inv, TypeOK
<1>8. /\ frame' \in [Threads -> Frame \union {IdleFrame}]
      /\ frame'[w] = IdleFrame
      /\ \A u \in Threads : u # w => frame'[u] = frame[u]
  BY <1>1, FrameReplaced DEF Threads
<1>9. /\ active' \in [Workers -> Job \union {NoJob}]
      /\ \A v \in Workers : active'[v] = IF v = w THEN NoJob ELSE active[v]
  BY <1>1 DEF Inv, TypeOK
<1>10. TypeOK'
  BY <1>1, <1>7, <1>8, <1>9 DEF Inv, TypeOK
<1>11. WorkersHoldJobs'
  BY <1>8, <1>9 DEF Inv, WorkersHoldJobs, Threads
<1>12. \A j \in jobs' : j \in jobs \/ (Exists(j.run)' /\ Done(j.run, j.idx)')
  BY <1>1, <1>4, <1>7 DEF Exists, Done
<1>13. QED
  BY <1>1, <1>8, <1>9, <1>10, <1>11, <1>12, Preserved DEF Exists, Paused

-----------------------------------------------------------------------------
(* The inbound pipeline. *)

\* A handler moves within the pipeline, outside of any call.
LEMMA HandlerMoves ==
  ASSUME Inv, UNCHANGED <<rules, runs, jobs, active, frame, cron, executed, resumes>>,
         NEW h \in Handlers, NEW g \in Handler, handler' = [handler EXCEPT ![h] = g],
         \A s \in g.waiting : s \in handler[h].waiting \/ (Exists(s.run) /\ Done(s.run, s.idx)),
         deliveries' \in [Messages -> 0..MaxDeliveries],
         budget' \in [Events -> Nat]
  PROVE  Inv'
<1>1. /\ handler' \in [Handlers -> Handler]
      /\ handler'[h] = g
      /\ \A k \in Handlers : k # h => handler'[k] = handler[k]
  BY DEF Inv, TypeOK
<1>2. TypeOK'
  BY <1>1 DEF Inv, TypeOK
<1>3. WorkersHoldJobs'
  BY DEF Inv, WorkersHoldJobs
<1>4. \A k \in Handlers : \A s \in handler'[k].waiting :
        s \in handler[k].waiting \/ (Exists(s.run)' /\ Done(s.run, s.idx)')
  BY <1>1 DEF Exists, Done
<1>5. QED
  BY <1>2, <1>3, <1>4, Preserved DEF Exists, Paused

LEMMA HandlerShapes ==
  ASSUME Inv, NEW h \in Handlers
  PROVE  /\ handler[h] \in Handler
         /\ IdleHandler \in Handler /\ IdleHandler.waiting = {}
         /\ handler[h].msg \in Messages \union {NoMessage}
         /\ handler[h].waiting \subseteq Snapshot
         /\ handler[h].matched \subseteq Rules
BY DEF Inv, TypeOK, Handler, IdleHandler

LEMMA EnterDispatchMoves ==
  ASSUME Inv, NEW h \in Handlers, NEW type \in TriggerTypes,
         NEW S \in Dispatched(type), EnterDispatch(h, type, S)
  PROVE  \E g \in Handler : /\ g.waiting = handler[h].waiting
                            /\ handler' = [handler EXCEPT ![h] = g]
<1> DEFINE g == [handler[h] EXCEPT !.stage = type, !.matched = S \ handler[h].skip]
<1>1. S \subseteq Rules
  BY DEF Dispatched, Matching
<1>2. g \in Handler /\ g.waiting = handler[h].waiting
  BY <1>1, HandlerShapes DEF Handler
<1>3. handler' = [handler EXCEPT ![h] = g]
  BY DEF EnterDispatch, Inv, TypeOK
<1>4. QED
  BY <1>2, <1>3

LEMMA BecomeMoves ==
  ASSUME Inv, NEW h \in Handlers, NEW stage \in {"idle", "resume", "resuming"},
         Become(h, stage)
  PROVE  \E g \in Handler : /\ g.waiting \in {{}, handler[h].waiting}
                            /\ handler' = [handler EXCEPT ![h] = g]
<1> DEFINE g == IF stage = "idle" THEN IdleHandler ELSE [handler[h] EXCEPT !.stage = stage]
<1>1. g \in Handler /\ g.waiting \in {{}, handler[h].waiting}
  BY HandlerShapes DEF Handler
<1>2. handler' = [handler EXCEPT ![h] = g]
  BY DEF Become, Inv, TypeOK
<1>3. QED
  BY <1>1, <1>2

LEMMA ReceiveStep ==
  ASSUME Inv, NEW h \in Handlers, NEW m \in Messages, Receive(h, m) PROVE Inv'
<1>1. /\ UNCHANGED <<rules, runs, jobs, active, frame, cron, executed, resumes, budget>>
      /\ deliveries[m] < MaxDeliveries
      /\ deliveries' = [deliveries EXCEPT ![m] = @ + 1]
  BY DEF Receive
<1>2. deliveries' \in [Messages -> 0..MaxDeliveries]
  <2>1. deliveries \in [Messages -> 0..MaxDeliveries] /\ MaxDeliveries \in Nat
    BY ConstantsAssumption DEF Inv, TypeOK
  <2>2. deliveries[m] + 1 \in 0..MaxDeliveries
    BY <1>1, <2>1
  <2>3. QED
    BY <1>1, <2>1, <2>2
<1>3. PICK text \in BOOLEAN :
        LET new == [IdleHandler EXCEPT !.msg = m, !.text = text] IN
        \/ handler' = [handler EXCEPT ![h] =
             [new EXCEPT !.stage = "CONVERSATION_CREATED",
                         !.matched = Matching("CONVERSATION_CREATED")]]
        \/ handler' = [handler EXCEPT ![h] = [new EXCEPT !.stage = "resume"]]
  BY DEF Receive
<1> DEFINE new == [IdleHandler EXCEPT !.msg = m, !.text = text]
           g1 == [new EXCEPT !.stage = "CONVERSATION_CREATED",
                             !.matched = Matching("CONVERSATION_CREATED")]
           g2 == [new EXCEPT !.stage = "resume"]
<1>4. handler' = [handler EXCEPT ![h] = g1] \/ handler' = [handler EXCEPT ![h] = g2]
  BY <1>3
<1>5. new \in Handler /\ new.waiting = {}
  BY HandlerShapes DEF Handler
<1> HIDE DEF new
<1>6. /\ g1 \in Handler /\ g1.waiting = {}
      /\ g2 \in Handler /\ g2.waiting = {}
  <2>1. Matching("CONVERSATION_CREATED") \in SUBSET Rules
    BY DEF Matching
  <2>2. QED
    BY <1>5, <2>1 DEF Handler, TriggerTypes
<1> HIDE DEF g1, g2
<1>7. QED
  BY <1>1, <1>2, <1>4, <1>6, HandlerMoves, Unmoved

LEMMA AgentEventStep ==
  ASSUME Inv, NEW h \in Handlers, AgentEvent(h) PROVE Inv'
<1>1. PICK g \in Handler : /\ g.waiting = handler[h].waiting
                           /\ handler' = [handler EXCEPT ![h] = g]
  BY EnterDispatchMoves DEF AgentEvent, TriggerTypes
<1>2. /\ UNCHANGED <<rules, runs, jobs, active, frame, cron, deliveries, executed, resumes>>
      /\ budget' \in [Events -> Nat]
  BY Spent DEF AgentEvent, Events
<1>3. deliveries' \in [Messages -> 0..MaxDeliveries]
  BY <1>2 DEF Inv, TypeOK
<1>4. QED
  BY <1>1, <1>2, <1>3, HandlerMoves

LEMMA EndDispatchStep ==
  ASSUME Inv, NEW h \in Handlers, EndDispatch(h) PROVE Inv'
<1>1. PICK g \in Handler : /\ g.waiting \in {{}, handler[h].waiting}
                           /\ handler' = [handler EXCEPT ![h] = g]
  <2>1. CASE \E S \in Dispatched("OFF_HOURS") : EnterDispatch(h, "OFF_HOURS", S)
    BY <2>1, EnterDispatchMoves DEF TriggerTypes
  <2>2. CASE Become(h, AfterDispatch(handler[h].stage))
    BY <2>2, BecomeMoves DEF AfterDispatch
  <2>3. QED
    BY <2>1, <2>2 DEF EndDispatch
<1>2. UNCHANGED <<rules, runs, jobs, active, frame, cron, deliveries, executed, resumes, budget>>
  BY DEF EndDispatch
<1>3. deliveries' \in [Messages -> 0..MaxDeliveries]
  BY <1>2 DEF Inv, TypeOK
<1>4. QED
  BY <1>1, <1>2, <1>3, HandlerMoves, Unmoved

LEMMA EndResumeStep ==
  ASSUME Inv, NEW h \in Handlers, EndResume(h) PROVE Inv'
<1>1. PICK g \in Handler : /\ g.waiting \in {{}, handler[h].waiting}
                           /\ handler' = [handler EXCEPT ![h] = g]
  <2>1. CASE \E S \in Dispatched("MESSAGE_RECEIVED") : EnterDispatch(h, "MESSAGE_RECEIVED", S)
    BY <2>1, EnterDispatchMoves DEF TriggerTypes
  <2>2. CASE Become(h, "idle")
    BY <2>2, BecomeMoves
  <2>3. QED
    BY <2>1, <2>2 DEF EndResume
<1>2. UNCHANGED <<rules, runs, jobs, active, frame, cron, deliveries, executed, resumes, budget>>
  BY DEF EndResume
<1>3. deliveries' \in [Messages -> 0..MaxDeliveries]
  BY <1>2 DEF Inv, TypeOK
<1>4. QED
  BY <1>1, <1>2, <1>3, HandlerMoves, Unmoved

LEMMA ListWaitingStep ==
  ASSUME Inv, NEW h \in Handlers, ListWaiting(h) PROVE Inv'
<1>1. UNCHANGED <<rules, runs, jobs, active, frame, cron, deliveries, executed, resumes>>
  BY DEF ListWaiting
<1>2. deliveries' \in [Messages -> 0..MaxDeliveries]
  BY <1>1 DEF Inv, TypeOK
<1> DEFINE W == {[run |-> r, idx |-> runs[r].idx] : r \in Resumable}
<1>3. CASE /\ handler' = [handler EXCEPT ![h].stage = "resuming", ![h].waiting = W]
           /\ UNCHANGED budget
  <2>1. \A r \in Resumable : /\ r \in Runs /\ runs[r].idx \in Index
                             /\ Exists(r) /\ Done(r, runs[r].idx)
    BY DEF Inv, TypeOK, NoStepSkipped, Resumable, Paused, Exists, NoRun, Run
  <2>2. \A s \in W : s \in Snapshot /\ Exists(s.run) /\ Done(s.run, s.idx)
    BY <2>1 DEF Snapshot
  <2> HIDE DEF W
  <2> DEFINE g == [handler[h] EXCEPT !.stage = "resuming", !.waiting = W]
  <2>3. g \in Handler /\ g.waiting = W
    BY <2>2, HandlerShapes DEF Handler
  <2>4. handler' = [handler EXCEPT ![h] = g]
    BY <1>3 DEF Inv, TypeOK
  <2> HIDE DEF g
  <2>5. QED
    BY <1>1, <1>2, <1>3, <2>2, <2>3, <2>4, HandlerMoves, Unmoved
<1>4. CASE Spend("faults") /\ Become(h, "resuming")
  <2>1. PICK g \in Handler : /\ g.waiting \in {{}, handler[h].waiting}
                             /\ handler' = [handler EXCEPT ![h] = g]
    BY <1>4, BecomeMoves
  <2>2. budget' \in [Events -> Nat]
    BY <1>4, Spent DEF Events
  <2>3. QED
    BY <1>1, <1>2, <2>1, <2>2, HandlerMoves
<1>5. QED
  BY <1>3, <1>4 DEF ListWaiting

LEMMA ResumeNextStep ==
  ASSUME Inv, NEW h \in Handlers, ResumeNext(h) PROVE Inv'
<1>1. PICK s \in handler[h].waiting :
        /\ handler' = [handler EXCEPT ![h].waiting = @ \ {s}]
        /\ frame' = [frame EXCEPT ![h] = Call(s.run, s.idx, 0)]
  BY DEF ResumeNext
<1>2. UNCHANGED <<rules, runs, jobs, active, cron, deliveries, executed, resumes, budget>>
  BY DEF ResumeNext
<1>3. PICK run \in Runs, idx \in Index : run = s.run /\ idx = s.idx
  BY HandlerShapes DEF Snapshot
<1>4. Exists(run) /\ Done(run, idx)
  BY <1>3 DEF Inv, ReferencesExist, NoStepSkipped
<1>5. /\ frame' \in [Threads -> Frame \union {IdleFrame}]
      /\ frame'[h].pc = "load" /\ frame'[h].run = run /\ frame'[h].idx = idx
      /\ \A u \in Threads : u # h => frame'[u] = frame[u]
  <2> DEFINE g == Call(run, idx, 0)
  <2>1. g \in Frame /\ g.pc = "load" /\ g.run = run /\ g.idx = idx
    BY CallShape
  <2>2. frame' = [frame EXCEPT ![h] = g] /\ h \in Threads
    BY <1>1, <1>3 DEF Threads
  <2> HIDE DEF g
  <2>3. QED
    BY <2>1, <2>2, FrameReplaced
<1>6. /\ handler' \in [Handlers -> Handler]
      /\ \A k \in Handlers : handler'[k].waiting \subseteq handler[k].waiting
  <2> DEFINE g == [handler[h] EXCEPT !.waiting = @ \ {s}]
  <2>1. g \in Handler /\ g.waiting \subseteq handler[h].waiting
    BY HandlerShapes DEF Handler
  <2>2. handler' = [handler EXCEPT ![h] = g]
    BY <1>1 DEF Inv, TypeOK
  <2> HIDE DEF g
  <2>3. QED
    BY <2>1, <2>2 DEF Inv, TypeOK
<1>7. TypeOK'
  BY <1>2, <1>5, <1>6 DEF Inv, TypeOK
<1>8. WorkersHoldJobs'
  BY <1>2, <1>5, ConstantsAssumption DEF Inv, WorkersHoldJobs, Threads
<1>9. FrameOK(frame[h])'
  BY <1>2, <1>4, <1>5 DEF FrameOK, Exists, Done
<1>10. QED
  BY <1>2, <1>5, <1>6, <1>7, <1>8, <1>9, Preserved DEF Exists, Paused

LEMMA AbortStep ==
  ASSUME Inv, NEW h \in Handlers, Abort(h) PROVE Inv'
<1>1. /\ handler' = [handler EXCEPT ![h] = IdleHandler]
      /\ frame' = [frame EXCEPT ![h] = IdleFrame]
      /\ UNCHANGED <<rules, runs, jobs, active, cron, deliveries, executed, resumes>>
      /\ budget' \in [Events -> Nat]
  BY Spent DEF Abort, Events
<1>2. /\ frame' \in [Threads -> Frame \union {IdleFrame}]
      /\ frame'[h] = IdleFrame
      /\ \A u \in Threads : u # h => frame'[u] = frame[u]
  BY <1>1, FrameReplaced DEF Threads
<1>3. /\ handler' \in [Handlers -> Handler]
      /\ \A k \in Handlers : handler'[k].waiting \subseteq handler[k].waiting
  BY <1>1, HandlerShapes DEF Inv, TypeOK
<1>4. TypeOK'
  BY <1>1, <1>2, <1>3 DEF Inv, TypeOK
<1>5. WorkersHoldJobs'
  BY <1>1, <1>2 DEF Inv, WorkersHoldJobs, Threads
<1>6. QED
  BY <1>1, <1>2, <1>3, <1>4, <1>5, Preserved DEF Exists, Paused

LEMMA SubmitStep ==
  ASSUME Inv, NEW h \in Handlers, Submit(h) PROVE Inv'
<1>0. PICK run \in Runs : run = frame[h].run
  BY CallType DEF Submit, Threads
<1>1. /\ frame[h].pc = "submit" /\ h \in Threads /\ Exists(run)
      /\ frame[h] # IdleFrame
  BY <1>0, CallType DEF Submit, Threads
<1>2. UNCHANGED <<rules, runs, active, handler, cron, deliveries, executed, resumes>>
  BY DEF Submit
<1>3. budget' \in [Events -> Nat]
  BY Spent, Unmoved DEF Submit, Events
<1>4. /\ jobs' \in SUBSET Job
      /\ \A j \in jobs' : j \in jobs \/ (j.run = run /\ j.idx = 0)
  <2>1. CASE UNCHANGED jobs
    BY <2>1 DEF Inv, TypeOK
  <2>2. CASE \E id \in JobIds : Push(id, run, 0)
    BY <2>2, Pushed, TypesOfConstants
  <2>3. QED
    BY <1>0, <2>1, <2>2 DEF Submit
<1> DEFINE g == [frame[h] EXCEPT !.pc = "load"]
<1>5. /\ g \in Frame /\ g.pc = "load" /\ g.run = frame[h].run /\ g.idx = frame[h].idx
  BY <1>1, CallType DEF Frame
<1>6. frame' = [frame EXCEPT ![h] = g] \/ frame' = [frame EXCEPT ![h] = IdleFrame]
  BY <1>1 DEF Submit, Inv, TypeOK
<1> HIDE DEF g
<1>7. /\ frame' \in [Threads -> Frame \union {IdleFrame}]
      /\ frame'[h] \in {g, IdleFrame}
      /\ \A u \in Threads : u # h => frame'[u] = frame[u]
  BY <1>1, <1>5, <1>6, FrameReplaced
<1>8. TypeOK'
  BY <1>2, <1>3, <1>4, <1>7 DEF Inv, TypeOK
<1>9. WorkersHoldJobs'
  BY <1>2, <1>7, ConstantsAssumption DEF Inv, WorkersHoldJobs, Threads
<1>10. frame'[h] = IdleFrame \/ FrameOK(frame[h])'
  BY <1>1, <1>2, <1>5, <1>7, FramesOK DEF FrameOK, Exists, Done
<1>11. Exists(run)' /\ Done(run, 0)'
  BY <1>1, <1>2, TypesOfConstants DEF Exists, Done
<1>12. QED
  BY <1>2, <1>4, <1>7, <1>8, <1>9, <1>10, <1>11, Preserved DEF Exists, Paused

LEMMA StartRunStep ==
  ASSUME Inv, NEW h \in Handlers, StartRun(h) PROVE Inv'
<1>0. PICK u \in handler[h].matched :
        /\ handler' = [handler EXCEPT ![h].matched = @ \ {u}]
        /\ \/ UNCHANGED <<runs, frame>> /\ (UNCHANGED budget \/ Spend("faults"))
           \/ /\ \E r \in Runs :
                   /\ NextRun(r)
                   /\ runs' = [runs EXCEPT ![r] =
                        [status |-> "PENDING", rule |-> u, idx |-> 0, by |-> handler[h].msg]]
                   /\ frame' = [frame EXCEPT ![h] = [Call(r, 0, 0) EXCEPT !.pc = "submit"]]
              /\ UNCHANGED budget
  BY DEF StartRun
<1> DEFINE left == [handler[h] EXCEPT !.matched = @ \ {u}]
<1>1. /\ handler' = [handler EXCEPT ![h] = left]
      /\ frame[h] = IdleFrame /\ u \in Rules
      /\ UNCHANGED <<rules, jobs, active, cron, deliveries, executed, resumes>>
  BY <1>0, HandlerShapes DEF StartRun, Inv, TypeOK
<1>2. left \in Handler /\ left.waiting = handler[h].waiting
  BY HandlerShapes DEF Handler
<1> HIDE DEF left
<1>3. CASE UNCHANGED <<runs, frame>> /\ (UNCHANGED budget \/ Spend("faults"))
  <2>1. budget' \in [Events -> Nat] /\ deliveries' \in [Messages -> 0..MaxDeliveries]
    BY <1>1, <1>3, Spent, Unmoved DEF Events, Inv, TypeOK
  <2>2. QED
    BY <1>1, <1>2, <1>3, <2>1, HandlerMoves
<1>4. CASE /\ \E r \in Runs :
                /\ NextRun(r)
                /\ runs' = [runs EXCEPT ![r] =
                     [status |-> "PENDING", rule |-> u, idx |-> 0, by |-> handler[h].msg]]
                /\ frame' = [frame EXCEPT ![h] = [Call(r, 0, 0) EXCEPT !.pc = "submit"]]
           /\ UNCHANGED budget
  <2> DEFINE row == [status |-> "PENDING", rule |-> u, idx |-> 0, by |-> handler[h].msg]
  <2>1. PICK r \in Runs : /\ ~Exists(r)
                          /\ runs' = [runs EXCEPT ![r] = row]
                          /\ frame' = [frame EXCEPT ![h] = [Call(r, 0, 0) EXCEPT !.pc = "submit"]]
    BY <1>4 DEF NextRun
  <2>3. row \in Run /\ row.status = "PENDING"
    BY <1>1, HandlerShapes, TypesOfConstants DEF Run, Status
  <2> HIDE DEF row
  <2>4. /\ runs' \in [Runs -> Run \union {NoRun}]
        /\ runs'[r] = row
        /\ \A q \in Runs : q # r => runs'[q] = runs[q]
    BY <2>1, <2>3 DEF Inv, TypeOK
  <2>5. /\ \A q \in Runs : Exists(q) => Exists(q)'
        /\ Exists(r)'
        /\ \A q \in Runs : Paused(q)' => Paused(q) /\ runs'[q].idx = runs[q].idx
    BY <2>1, <2>3, <2>4 DEF Exists, Paused
  <2> DEFINE g == [Call(r, 0, 0) EXCEPT !.pc = "submit"]
  <2>6. g \in Frame /\ g.pc = "submit" /\ g.run = r /\ g.idx = 0
    BY TypesOfConstants DEF Call, Frame
  <2>7. frame' = [frame EXCEPT ![h] = g] /\ h \in Threads
    BY <2>1 DEF Threads
  <2> HIDE DEF g
  <2>8. /\ frame' \in [Threads -> Frame \union {IdleFrame}]
        /\ frame'[h] = g
        /\ \A t \in Threads : t # h => frame'[t] = frame[t]
    BY <2>6, <2>7, FrameReplaced
  <2>9. /\ handler' \in [Handlers -> Handler]
        /\ \A k \in Handlers : handler'[k].waiting = handler[k].waiting
    BY <1>1, <1>2 DEF Inv, TypeOK
  <2>10. TypeOK'
    BY <1>1, <1>4, <2>4, <2>8, <2>9 DEF Inv, TypeOK
  <2>11. WorkersHoldJobs'
    BY <1>1, <2>8, ConstantsAssumption DEF Inv, WorkersHoldJobs, Threads
  <2>12. FrameOK(frame[h])'
    BY <2>5, <2>6, <2>8, TypesOfConstants DEF FrameOK, Exists, Done
  <2>13. QED
    BY <1>1, <2>5, <2>8, <2>9, <2>10, <2>11, <2>12, Preserved
<1>5. QED
  BY <1>0, <1>3, <1>4

-----------------------------------------------------------------------------
(* The timeout and the edits of the rules. *)

LEMMA ReadStaleStep ==
  ASSUME Inv, NEW c \in Crons, NEW S \in SUBSET Runs, ReadStale(c, S) PROVE Inv'
<1>1. /\ cron' = [cron EXCEPT ![c] = S] /\ \A r \in S : Exists(r)
      /\ UNCHANGED <<rules, runs, jobs, active, frame, handler, deliveries, executed,
                     resumes, budget>>
  BY DEF ReadStale, Paused
<1>2. TypeOK'
  BY <1>1 DEF Inv, TypeOK
<1>3. WorkersHoldJobs'
  BY <1>1 DEF Inv, WorkersHoldJobs
<1>4. \A d \in Crons : \A r \in cron'[d] : r \in cron[d] \/ Exists(r)'
  BY <1>1 DEF Inv, TypeOK, Exists
<1>5. QED
  BY <1>1, <1>2, <1>3, <1>4, Preserved DEF Exists, Paused

LEMMA FailStaleStep ==
  ASSUME Inv, NEW c \in Crons, FailStale(c) PROVE Inv'
<1>1. UNCHANGED <<rules, jobs, active, frame, handler, deliveries, executed, resumes>>
  BY DEF FailStale
<1>2. /\ budget' \in [Events -> Nat]
      /\ cron' \in [Crons -> SUBSET Runs]
      /\ \A d \in Crons : cron'[d] \subseteq cron[d]
  <2>1. budget' \in [Events -> Nat]
    BY Spent, Unmoved DEF FailStale, Events
  <2>2. cron \in [Crons -> SUBSET Runs]
    BY DEF Inv, TypeOK
  <2>3. \E S \in SUBSET Runs : S \subseteq cron[c] /\ cron' = [cron EXCEPT ![c] = S]
    <3>1. CASE \E r \in cron[c] : cron' = [cron EXCEPT ![c] = @ \ {r}]
      BY <2>2, <3>1
    <3>2. CASE cron' = [cron EXCEPT ![c] = {}]
      BY <2>2, <3>2
    <3>3. QED
      BY <3>1, <3>2 DEF FailStale
  <2>4. QED
    BY <2>1, <2>2, <2>3
<1>3. /\ runs' \in [Runs -> Run \union {NoRun}]
      /\ \A q \in Runs : Exists(q) => Exists(q)'
      /\ \A q \in Runs : Paused(q)' => Paused(q) /\ runs'[q].idx = runs[q].idx
  <2>1. CASE UNCHANGED runs
    BY <2>1, Unmoved DEF Exists, Paused
  <2>2. CASE \E r \in cron[c] : runs' = [runs EXCEPT ![r].status = "FAILED"]
    <3>1. PICK r \in cron[c] : runs' = [runs EXCEPT ![r].status = "FAILED"]
      BY <2>2
    <3>2. r \in Runs /\ Exists(r)
      BY DEF Inv, TypeOK, ReferencesExist
    <3>3. QED
      BY <3>1, <3>2, NotPaused DEF Status, Settled
  <2>3. QED
    BY <2>1, <2>2 DEF FailStale
<1>4. TypeOK'
  BY <1>1, <1>2, <1>3 DEF Inv, TypeOK
<1>5. WorkersHoldJobs'
  BY <1>1 DEF Inv, WorkersHoldJobs
<1>6. QED
  BY <1>1, <1>2, <1>3, <1>4, <1>5, Preserved

\* Editing the rules touches no run.
LEMMA RulesEdited ==
  ASSUME Inv, rules' \in [Rules -> Rule], budget' \in [Events -> Nat],
         UNCHANGED <<runs, jobs, active, frame, handler, cron, deliveries, executed, resumes>>
  PROVE  Inv'
<1>1. TypeOK'
  BY DEF Inv, TypeOK
<1>2. WorkersHoldJobs'
  BY DEF Inv, WorkersHoldJobs
<1>3. QED
  BY <1>1, <1>2, Preserved DEF Exists, Paused

LEMMA UpdateRuleStep ==
  ASSUME Inv, NEW u \in Rules, NEW enabled \in BOOLEAN, NEW steps \in Plans,
         UpdateRule(u, enabled, steps)
  PROVE  Inv'
<1>1. rules \in [Rules -> Rule] /\ rules[u] \in Rule
  BY DEF Inv, TypeOK
<1>2. [rules[u] EXCEPT !.isEnabled = enabled, !.steps = steps] \in Rule
  BY <1>1 DEF Rule
<1>3. rules' \in [Rules -> Rule]
  BY <1>1, <1>2 DEF UpdateRule
<1>4. QED
  BY <1>3, Spent, RulesEdited DEF UpdateRule, Events

LEMMA DeleteRuleStep ==
  ASSUME Inv, NEW u \in Rules, DeleteRule(u) PROVE Inv'
<1>1. [rules[u] EXCEPT !.isEnabled = FALSE, !.deleted = TRUE] \in Rule
  <2>1. rules[u] \in Rule
    BY DEF Inv, TypeOK
  <2>2. QED BY <2>1 DEF Rule
<1>2. rules' = [rules EXCEPT ![u] = [rules[u] EXCEPT !.isEnabled = FALSE, !.deleted = TRUE]]
  BY DEF DeleteRule, Inv, TypeOK
<1>3. rules' \in [Rules -> Rule]
  BY <1>1, <1>2 DEF Inv, TypeOK
<1>4. QED
  BY <1>3, Spent, RulesEdited DEF DeleteRule, Events

-----------------------------------------------------------------------------
(* The invariant, and what follows from it. *)

LEMMA EveryStep == Inv /\ [Next]_vars => Inv'
<1> SUFFICES ASSUME Inv, [Next]_vars PROVE Inv'
  OBVIOUS
<1>1. ASSUME NEW t \in Threads, Processing(t) \/ Fault(t) PROVE Inv'
  BY <1>1, LoadStep, StartStep, ActStep, AdvanceStep, EnqueueStep, CompleteStep, FailStep,
     ReturnStep, FaultStep DEF Processing
<1>2. ASSUME NEW w \in Workers, TakeJob(w) \/ Crash(w) PROVE Inv'
  BY <1>2, TakeJobStep, CrashStep
<1>3. ASSUME NEW h \in Handlers, Pipeline(h) \/ AgentEvent(h) \/ Abort(h) PROVE Inv'
  BY <1>3, StartRunStep, SubmitStep, EndDispatchStep, ListWaitingStep, ResumeNextStep,
     EndResumeStep, AgentEventStep, AbortStep DEF Pipeline
<1>4. ASSUME NEW h \in Handlers, NEW m \in Messages, Receive(h, m) PROVE Inv'
  BY <1>4, ReceiveStep
<1>5. ASSUME NEW c \in Crons, FailStale(c) PROVE Inv'
  BY <1>5, FailStaleStep
<1>6. ASSUME NEW c \in Crons, NEW S \in SUBSET Runs, ReadStale(c, S) PROVE Inv'
  BY <1>6, ReadStaleStep
<1>7. ASSUME NEW u \in Rules, NEW enabled \in BOOLEAN, NEW steps \in Plans,
             UpdateRule(u, enabled, steps)
      PROVE  Inv'
  BY <1>7, UpdateRuleStep
<1>8. ASSUME NEW u \in Rules, DeleteRule(u) PROVE Inv'
  BY <1>8, DeleteRuleStep
<1>9. CASE UNCHANGED vars
  <2>1. UNCHANGED <<rules, runs, jobs, active, frame, handler, cron, deliveries,
                    executed, resumes, budget>>
    BY <1>9 DEF vars
  <2>2. rules' \in [Rules -> Rule] /\ budget' \in [Events -> Nat]
    BY <2>1 DEF Inv, TypeOK
  <2>3. QED
    BY <2>1, <2>2, RulesEdited
<1>10. QED
  BY <1>1, <1>2, <1>3, <1>4, <1>5, <1>6, <1>7, <1>8, <1>9 DEF Next

THEOREM Invariance == Spec => []Inv
<1>1. QED
  BY Initially, EveryStep, PTL DEF Spec

\* Every state of the engine is well formed: rows, jobs, calls and handlers have
\* the fields and the indexes the code relies on, through crashes, failed calls
\* and edits of the rules.
THEOREM TypeCorrect == Spec => []TypeOK
<1>1. Inv => TypeOK
  BY DEF Inv
<1>2. QED
  BY <1>1, Invariance, PTL

\* No step of a run is skipped, for any number of rules, runs, workers, handlers
\* and API instances, any step lists and any number of faults and crashes.
THEOREM NothingSkipped == Spec => []NoStepSkipped
<1>1. Inv => NoStepSkipped
  BY DEF Inv
<1>2. QED
  BY <1>1, Invariance, PTL

-----------------------------------------------------------------------------
(* What every step leaves as it is: the rule and the message of a run, what  *)
(* was executed, what is left of the events.                                 *)

BudgetKept == \A e \in Events : budget[e] <= Bounds[e]

LEMMA UsedIs ==
  ASSUME Inv, BudgetKept, NEW e \in Events
  PROVE  Used(e) \in Nat /\ Used(e) = Bounds[e] - budget[e] /\ budget[e] \in Nat /\ Bounds[e] \in Nat
  BY ConstantsAssumption DEF Inv, TypeOK, Used, BudgetKept

LEMMA SpendingKeeps ==
  ASSUME Inv, BudgetKept, NEW e \in Events, Spend(e)
  PROVE  /\ BudgetKept' /\ budget'[e] = budget[e] - 1 /\ \A d \in Events \ {e} : budget'[d] = budget[d]
         /\ Used(e)' = Used(e) + 1 /\ \A d \in Events \ {e} : Used(d)' = Used(d)
<1>1. budget' = [budget EXCEPT ![e] = @ - 1] /\ budget \in [Events -> Nat] /\ Bounds \in [Events -> Nat]
  BY ConstantsAssumption DEF Spend, Inv, TypeOK
<1>2. budget'[e] = budget[e] - 1 /\ \A d \in Events \ {e} : budget'[d] = budget[d]
  BY <1>1
<1>3. \A d \in Events : budget[d] \in Nat /\ Bounds[d] \in Nat
  BY <1>1
<1>4. BudgetKept'
  BY <1>2, <1>3 DEF BudgetKept
<1>5. Used(e)' = Used(e) + 1 /\ \A d \in Events \ {e} : Used(d)' = Used(d)
  BY <1>2, <1>3 DEF Used
<1>6. QED BY <1>2, <1>4, <1>5

LEMMA BudgetInitially == Init => BudgetKept
  BY ConstantsAssumption DEF Init, BudgetKept

\* A row that is written keeps its rule and its message.
RowKept(r) == Exists(r)' /\ runs'[r].rule = runs[r].rule /\ runs'[r].by = runs[r].by
LEMMA WrittenRowKeeps ==
  ASSUME Inv, NEW r \in Runs, Exists(r), NEW s \in Status, NEW i \in Index,
         \/ runs' = [runs EXCEPT ![r].status = s, ![r].idx = i]
         \/ runs' = [runs EXCEPT ![r].status = s]
  PROVE  /\ \A q \in Runs : Exists(q) => RowKept(q)
         /\ runs'[r].status = s /\ \A q \in Runs \ {r} : runs'[q] = runs[q]
<1>1. runs \in [Runs -> Run \union {NoRun}] /\ runs[r] \in Run
  BY DEF Inv, TypeOK, Exists, NoRun
<1>2. runs'[r].status = s /\ runs'[r].rule = runs[r].rule /\ runs'[r].by = runs[r].by
  BY <1>1 DEF Run
<1>3. \A q \in Runs \ {r} : runs'[q] = runs[q]
  BY <1>1
<1>4. s # "NONE"
  BY DEF Status, Settled
<1>5. QED BY <1>2, <1>3, <1>4 DEF RowKept, Exists

-----------------------------------------------------------------------------
(* Which calls lead to the end of a run.                                     *)

StepsAreCurrent ==
  Used("edits") = 0 =>
    \A t \in Threads : frame[t].pc \in {"start", "act", "advance", "enqueue", "complete"} =>
      frame[t].steps = RuleOf(frame[t].run).steps
CompletesWhole == \A t \in Threads : frame[t].pc = "complete" => Done(frame[t].run, Len(frame[t].steps))
Whole == BudgetKept /\ StepsAreCurrent /\ CompletesWhole /\ CompletedRanEveryStep

\* What this asks of one call, and of one row.
CallWhole(f) ==
  /\ Used("edits") = 0 /\ f.pc \in {"start", "act", "advance", "enqueue", "complete"} => f.steps = RuleOf(f.run).steps
  /\ f.pc = "complete" => Done(f.run, Len(f.steps))
Harmless == {"idle", "submit", "load", "fail", "done"}
RowWhole(r) ==
  Exists(r) /\ runs[r].status = "COMPLETED" /\ Used("edits") = 0 => Done(r, Len(RuleOf(r).steps))

LEMMA WholePreserved ==
  ASSUME Inv, Inv', Whole, BudgetKept',
         \A r \in Runs : Exists(r) => RowKept(r),
         \A r \in Runs, k \in Index : executed[r][k] > 0 => executed'[r][k] > 0,
         Used("edits")' = 0 => Used("edits") = 0 /\ UNCHANGED rules,
         \A t \in Threads : frame'[t] = frame[t] \/ frame'[t].pc \in Harmless \/ CallWhole(frame[t])',
         \A r \in Runs : runs'[r] = runs[r] \/ RowWhole(r)'
  PROVE  Whole'
<1>1. \A r \in Runs : \A p : Done(r, p) => Done(r, p)'
  BY DEF Done
<1>2. ASSUME NEW r \in Runs, Exists(r), Used("edits")' = 0
      PROVE  RuleOf(r)' = RuleOf(r)
  BY <1>2 DEF RuleOf, RowKept
<1>3. ASSUME NEW t \in Threads, frame'[t] = frame[t], frame[t].pc \notin Harmless
      PROVE  CallWhole(frame[t])'
  <2>1. PICK f : f = frame[t] /\ f = frame'[t]
    BY <1>3
  <2>2. f.run \in Runs /\ Exists(f.run)
    BY <1>3, <2>1, CallType DEF Harmless
  <2>3. CallWhole(f)
    BY <2>1 DEF Whole, StepsAreCurrent, CompletesWhole, CallWhole
  <2>4. CallWhole(f)'
    BY <1>1, <1>2, <2>2, <2>3 DEF CallWhole
  <2>5. QED BY <2>1, <2>4 DEF CallWhole
<1>4. \A t \in Threads : frame'[t].pc \in Harmless \/ CallWhole(frame[t])'
  BY <1>3
<1>5. StepsAreCurrent' /\ CompletesWhole'
  BY <1>4 DEF StepsAreCurrent, CompletesWhole, CallWhole, Harmless
<1>6. CompletedRanEveryStep'
  <2> SUFFICES ASSUME NEW r \in Runs PROVE RowWhole(r)'
    BY DEF CompletedRanEveryStep, RowWhole
  <2>1. CASE runs'[r] = runs[r]
    <3>1. RowWhole(r) /\ (Exists(r)' => Exists(r))
      BY <2>1 DEF Whole, CompletedRanEveryStep, RowWhole, Exists
    <3>2. QED BY <1>1, <1>2, <2>1, <3>1 DEF RowWhole, Exists
  <2>2. QED BY <2>1
<1>7. QED BY <1>5, <1>6 DEF Whole

CallsWhole == \A u \in Threads : frame'[u] = frame[u] \/ frame'[u].pc \in Harmless \/ CallWhole(frame[u])'

\* A call goes on with the steps it has, or is rejected.
LEMMA CallGoesOn ==
  ASSUME Inv, Whole, NEW t \in Threads, frame[t].pc # "idle", NEW pc \in PCs,
         pc \in Harmless \/ frame[t].pc \in {"start", "act", "advance", "enqueue", "complete"},
         pc = "complete" => Done(frame[t].run, Len(frame[t].steps))', Goto(t, pc) \/ Reject(t),
         \A r \in Runs : Exists(r) => RowKept(r), Used("edits")' = Used("edits"), UNCHANGED rules
  PROVE  CallsWhole
<1>1. CASE Goto(t, pc)
  <2>1. /\ frame'[t].pc = pc /\ frame'[t].run = frame[t].run /\ frame'[t].steps = frame[t].steps
        /\ \A u \in Threads : u # t => frame'[u] = frame[u]
    BY <1>1, GotoMoves
  <2>2. frame[t].run \in Runs /\ Exists(frame[t].run)
    BY CallType
  <2>3. PICK run \in Runs : run = frame[t].run
    BY <2>2
  <2>4. RuleOf(run)' = RuleOf(run)
    BY <2>2, <2>3 DEF RuleOf, RowKept
  <2>5. pc \notin Harmless => CallWhole(frame[t])'
    BY <2>1, <2>3, <2>4 DEF CallWhole, Whole, StepsAreCurrent, Harmless
  <2>6. QED BY <2>1, <2>5 DEF CallsWhole
<1>2. CASE Reject(t)
  <2>1. /\ frame'[t] = IdleFrame \/ frame'[t].pc = "fail"
        /\ \A u \in Threads : u # t => frame'[u] = frame[u]
    BY <1>2, RejectEnds
  <2>2. QED BY <2>1 DEF CallsWhole, Harmless, IdleFrame
<1>3. QED BY <1>1, <1>2

LEMMA SameRows == ASSUME Inv, UNCHANGED runs PROVE \A r \in Runs : Exists(r) => RowKept(r)
  BY DEF RowKept, Exists

LEMMA LoadWhole == ASSUME Inv, Inv', Whole, NEW t \in Threads, Load(t) PROVE Whole'
<1> DEFINE f == frame[t]
           steps == RuleOf(f.run).steps
<1>1. frame[t].pc = "load" /\ UNCHANGED <<rules, runs, jobs, cron, deliveries, executed, resumes, budget>>
  BY DEF Load
<1>2. BudgetKept' /\ Used("edits")' = Used("edits") /\ \A r \in Runs : Exists(r) => RowKept(r)
  BY <1>1, SameRows DEF Whole, BudgetKept, Used
<1>3. CallsWhole
  <2>1. CASE Goto(t, "done")
    BY <1>1, <1>2, <2>1, CallGoesOn DEF PCs, Harmless
  <2>2. CASE \E pc \in {"complete", "start"} :
               To(t, [f EXCEPT !.pc = pc, !.steps = steps]) /\ (pc = "complete" => PastLast(f.idx, steps))
    <3>1. PICK pc \in {"complete", "start"} :
            To(t, [f EXCEPT !.pc = pc, !.steps = steps]) /\ (pc = "complete" => PastLast(f.idx, steps))
      BY <2>2
    <3>2. /\ f \in Frame /\ steps \in Plans /\ f.run \in Runs
      BY <1>1, CallType
    <3> DEFINE g == [f EXCEPT !.pc = pc, !.steps = steps]
    <3>3. g \in Frame /\ g.pc = pc /\ g.run = f.run /\ g.steps = steps
      BY <3>2 DEF Frame
    <3>4. frame' = [frame EXCEPT ![t] = g]
      BY <3>1 DEF To
    <3> HIDE DEF g
    <3>5. frame'[t] = g /\ \A u \in Threads : u # t => frame'[u] = frame[u]
      BY <3>3, <3>4, FrameReplaced
    <3>6. pc = "complete" => Done(f.run, Len(steps))
      <4>1. Done(f.run, f.idx) /\ Len(steps) \in Nat /\ f.idx \in Nat
        BY <1>1, <3>2, FramesOK, TypesOfConstants DEF FrameOK
      <4>2. QED BY <3>1, <4>1 DEF PastLast, Done, Index
    <3>7. CallWhole(frame[t])'
      BY <1>1, <3>3, <3>5, <3>6 DEF CallWhole, RuleOf, Done
    <3>8. QED BY <3>5, <3>7 DEF CallsWhole
  <2>3. QED BY <2>1, <2>2 DEF Load
<1>4. QED BY <1>1, <1>2, <1>3, WholePreserved DEF CallsWhole

LEMMA StartWhole == ASSUME Inv, Inv', Whole, NEW t \in Threads, Start(t) PROVE Whole'
<1>1. /\ frame[t].pc = "start" /\ frame[t].run \in Runs /\ frame[t].idx \in Index
      /\ Exists(frame[t].run)
  BY CallType DEF Start
<1>2. /\ runs' = [runs EXCEPT ![frame[t].run].status = "RUNNING", ![frame[t].run].idx = frame[t].idx]
      /\ Goto(t, "act") \/ Reject(t)
      /\ UNCHANGED budget \/ Spend("faults")
      /\ UNCHANGED <<rules, cron, deliveries, executed>>
  BY DEF Start
<1>3. /\ \A r \in Runs : Exists(r) => RowKept(r)
      /\ \A r \in Runs : runs'[r] = runs[r] \/ runs'[r].status = "RUNNING"
  <2>1. PICK run \in Runs, idx \in Index : run = frame[t].run /\ idx = frame[t].idx
    BY <1>1
  <2>2. runs' = [runs EXCEPT ![run].status = "RUNNING", ![run].idx = idx] /\ Exists(run) /\ "RUNNING" \in Status
    BY <1>1, <1>2, <2>1 DEF Status
  <2>3. QED BY <2>2, WrittenRowKeeps
<1>4. BudgetKept' /\ Used("edits")' = Used("edits")
  BY <1>2, SpendingKeeps DEF Whole, BudgetKept, Used, Events
<1>5. CallsWhole
  BY <1>1, <1>2, <1>3, <1>4, CallGoesOn DEF PCs, Harmless
<1>6. \A r \in Runs : runs'[r] = runs[r] \/ RowWhole(r)'
  BY <1>3 DEF RowWhole
<1>7. QED BY <1>2, <1>3, <1>4, <1>5, <1>6, WholePreserved DEF CallsWhole

LEMMA ActWhole == ASSUME Inv, Inv', Whole, NEW t \in Threads, Act(t) PROVE Whole'
<1>1. /\ frame[t].pc = "act" /\ frame[t].run \in Runs /\ frame[t].idx \in Index
      /\ Exists(frame[t].run)
  BY CallType DEF Act
<1>2. /\ runs' = [runs EXCEPT ![frame[t].run].status = "WAITING"] \/ UNCHANGED runs
      /\ Goto(t, "enqueue") \/ Goto(t, "advance") \/ Goto(t, "fail")
      /\ UNCHANGED budget \/ Spend("faults")
      /\ executed' = [executed EXCEPT ![frame[t].run][frame[t].idx] = @ + 1]
      /\ UNCHANGED <<rules, jobs, cron, deliveries, resumes>>
  BY DEF Act
<1>3. /\ \A r \in Runs : Exists(r) => RowKept(r)
      /\ \A r \in Runs : runs'[r] = runs[r] \/ runs'[r].status = "WAITING"
  BY <1>1, <1>2, WrittenRowKeeps, SameRows DEF Status
<1>4. BudgetKept' /\ Used("edits")' = Used("edits")
  BY <1>2, SpendingKeeps DEF Whole, BudgetKept, Used, Events
<1>5. CallsWhole
  BY <1>1, <1>2, <1>3, <1>4, CallGoesOn DEF PCs, Harmless
<1>6. \A r \in Runs : runs'[r] = runs[r] \/ RowWhole(r)'
  BY <1>3 DEF RowWhole
<1>7. \A r \in Runs, k \in Index : executed[r][k] > 0 => executed'[r][k] > 0
  BY <1>1, <1>2 DEF Inv, TypeOK
<1>8. QED BY <1>2, <1>3, <1>4, <1>5, <1>6, <1>7, WholePreserved DEF CallsWhole

LEMMA AdvanceWhole == ASSUME Inv, Inv', Whole, NEW t \in Threads, Advance(t) PROVE Whole'
<1>0. PICK run \in Runs, next \in Index : run = frame[t].run /\ next = frame[t].idx + 1
  BY CallType, NextIndex DEF Advance
<1>1. /\ frame[t].pc = "advance" /\ Exists(run) /\ Done(run, next) /\ frame[t].steps \in Plans
  BY <1>0, CallType, NextIndex, FramesOK DEF Advance, FrameOK
<1>2. UNCHANGED <<rules, jobs, cron, deliveries, executed, resumes, budget>>
  BY DEF Advance
<1>3. /\ \A r \in Runs : Exists(r) => RowKept(r)
      /\ \A r \in Runs : runs'[r] = runs[r] \/ runs'[r].status = "WAITING_FOR_REPLY"
  <2>1. UNCHANGED runs \/ Pause(run, next)
    BY <1>0 DEF Advance
  <2>2. QED BY <1>1, <2>1, WrittenRowKeeps, SameRows DEF Status, Pause
<1>4. BudgetKept' /\ Used("edits")' = Used("edits")
  BY <1>2 DEF Whole, BudgetKept, Used
<1>5. CallsWhole
  <2>1. CASE Goto(t, "complete") /\ PastLast(next, frame[t].steps)
    <3>0. frame'[t].run = run /\ frame'[t].steps = frame[t].steps
      BY <1>0, <1>1, <2>1, GotoMoves DEF PCs
    <3>1. Done(frame[t].run, Len(frame[t].steps))'
      <4>1. PICK n \in Nat : n = Len(frame[t].steps) /\ n <= next
        BY <1>1, <2>1, TypesOfConstants DEF PastLast
      <4>2. Done(run, n)
        BY <1>1, <4>1 DEF Done, Index
      <4>3. QED BY <1>2, <3>0, <4>1, <4>2 DEF Done
    <3>3. QED BY <1>1, <1>2, <1>3, <1>4, <2>1, <3>1, CallGoesOn DEF PCs, Harmless
  <2>2. CASE Goto(t, "done") \/ Goto(t, "enqueue")
    BY <1>1, <1>2, <1>3, <1>4, <2>2, CallGoesOn DEF PCs, Harmless
  <2>3. QED BY <1>0, <2>1, <2>2 DEF Advance
<1>6. \A r \in Runs : runs'[r] = runs[r] \/ RowWhole(r)'
  BY <1>3 DEF RowWhole
<1>7. QED BY <1>2, <1>3, <1>4, <1>5, <1>6, WholePreserved DEF CallsWhole

LEMMA EnqueueWhole == ASSUME Inv, Inv', Whole, NEW t \in Threads, Enqueue(t) PROVE Whole'
<1>1. /\ frame[t].pc = "enqueue" /\ UNCHANGED <<rules, runs, cron, deliveries, executed, resumes, budget>>
      /\ To(t, Call(frame[t].run, frame[t].idx + 1, frame[t].depth + 1)) \/ Goto(t, "done")
  BY DEF Enqueue
<1>2. BudgetKept' /\ Used("edits")' = Used("edits") /\ \A r \in Runs : Exists(r) => RowKept(r)
  BY <1>1, SameRows DEF Whole, BudgetKept, Used
<1>3. CallsWhole
  <2>1. CASE To(t, Call(frame[t].run, frame[t].idx + 1, frame[t].depth + 1))
    <3>1. frame'[t].pc = "load" /\ \A u \in Threads : u # t => frame'[u] = frame[u]
      BY <2>1 DEF Inv, TypeOK, To, Call
    <3>2. QED BY <3>1 DEF CallsWhole, Harmless
  <2>2. CASE Goto(t, "done")
    BY <1>1, <1>2, <2>2, CallGoesOn DEF PCs, Harmless
  <2>3. QED BY <1>1, <2>1, <2>2
<1>4. QED BY <1>1, <1>2, <1>3, WholePreserved DEF CallsWhole

LEMMA CompleteWhole == ASSUME Inv, Inv', Whole, NEW t \in Threads, Complete(t) PROVE Whole'
<1>1. frame[t].pc = "complete" /\ frame[t].run \in Runs /\ Exists(frame[t].run)
  BY CallType DEF Complete
<1>2. /\ runs' = [runs EXCEPT ![frame[t].run].status = "COMPLETED"]
      /\ Goto(t, "done") \/ Goto(t, "fail") \/ Reject(t)
      /\ UNCHANGED budget \/ Spend("faults")
      /\ UNCHANGED <<rules, cron, deliveries, executed, resumes>>
  BY DEF Complete
<1>3. PICK run \in Runs : run = frame[t].run
  BY <1>1
<1>4. /\ \A r \in Runs : Exists(r) => RowKept(r)
      /\ \A r \in Runs \ {run} : runs'[r] = runs[r]
  <2>1. 0 \in Index
    BY TypesOfConstants
  <2>2. QED BY <1>1, <1>2, <1>3, <2>1, WrittenRowKeeps DEF Status, Settled
<1>5. BudgetKept' /\ Used("edits")' = Used("edits")
  BY <1>2, SpendingKeeps DEF Whole, BudgetKept, Used, Events
<1>6. CallsWhole
  BY <1>1, <1>2, <1>4, <1>5, CallGoesOn DEF PCs, Harmless
<1>7. RowWhole(run)'
  <2>1. Used("edits") = 0 => frame[t].steps = RuleOf(run).steps
    BY <1>1, <1>3 DEF Whole, StepsAreCurrent
  <2>2. Done(run, Len(frame[t].steps))
    BY <1>1, <1>3 DEF Whole, CompletesWhole
  <2>3. RuleOf(run)' = RuleOf(run)
    BY <1>1, <1>2, <1>3, <1>4 DEF RuleOf, RowKept
  <2>4. QED BY <1>2, <1>5, <2>1, <2>2, <2>3 DEF RowWhole, Done
<1>8. QED BY <1>2, <1>4, <1>5, <1>6, <1>7, WholePreserved DEF CallsWhole

LEMMA FailWhole == ASSUME Inv, Inv', Whole, NEW t \in Threads, Fail(t) PROVE Whole'
<1>1. frame[t].pc = "fail" /\ frame[t].run \in Runs /\ Exists(frame[t].run) /\ 0 \in Index
  BY CallType, TypesOfConstants DEF Fail
<1>2. /\ runs' = [runs EXCEPT ![frame[t].run].status = "FAILED"]
      /\ Goto(t, "done") \/ Reject(t)
      /\ UNCHANGED budget \/ Spend("faults")
      /\ UNCHANGED <<rules, cron, deliveries, executed, resumes>>
  BY DEF Fail
<1>3. /\ \A r \in Runs : Exists(r) => RowKept(r)
      /\ \A r \in Runs : runs'[r] = runs[r] \/ runs'[r].status = "FAILED"
  BY <1>1, <1>2, WrittenRowKeeps DEF Status, Settled
<1>4. BudgetKept' /\ Used("edits")' = Used("edits")
  BY <1>2, SpendingKeeps DEF Whole, BudgetKept, Used, Events
<1>5. CallsWhole
  BY <1>1, <1>2, <1>3, <1>4, CallGoesOn DEF PCs, Harmless
<1>6. \A r \in Runs : runs'[r] = runs[r] \/ RowWhole(r)'
  BY <1>3 DEF RowWhole
<1>7. QED BY <1>2, <1>3, <1>4, <1>5, <1>6, WholePreserved DEF CallsWhole

LEMMA FaultWhole == ASSUME Inv, Inv', Whole, NEW t \in Threads, Fault(t) PROVE Whole'
<1>1. /\ frame[t].pc # "idle" /\ Spend("faults") /\ (Goto(t, "fail") \/ Reject(t))
      /\ UNCHANGED <<rules, runs, cron, deliveries, executed, resumes>>
  BY DEF Fault
<1>2. BudgetKept' /\ Used("edits")' = Used("edits")
  BY <1>1, SpendingKeeps DEF Whole, Events
<1>3. CallsWhole
  BY <1>1, <1>2, SameRows, CallGoesOn DEF PCs, Harmless
<1>4. QED BY <1>1, <1>2, <1>3, SameRows, WholePreserved DEF CallsWhole

\* Steps outside of processRunStep: a call begins or ends, no run is completed.
LEMMA OutsideWhole ==
  ASSUME Inv, Inv', Whole, UNCHANGED <<rules, executed>>, UNCHANGED budget \/ \E e \in Events \ {"edits"} : Spend(e),
         \A u \in Threads : frame'[u] = frame[u] \/ frame'[u].pc \in Harmless,
         \A r \in Runs : Exists(r) => RowKept(r),
         \A r \in Runs : runs'[r] = runs[r] \/ runs'[r].status # "COMPLETED"
  PROVE  Whole'
<1>1. BudgetKept' /\ Used("edits")' = Used("edits")
  BY SpendingKeeps DEF Whole, BudgetKept, Used, Events
<1>2. \A r \in Runs : runs'[r] = runs[r] \/ RowWhole(r)'
  BY DEF RowWhole
<1>3. QED BY <1>1, <1>2, WholePreserved

LEMMA WorkersWhole ==
  ASSUME Inv, Inv', Whole, NEW t \in Threads, Return(t) \/ (t \in Workers /\ (TakeJob(t) \/ Crash(t)))
  PROVE  Whole'
<1>1. /\ UNCHANGED <<rules, runs, executed>>
      /\ UNCHANGED budget \/ Spend("crashes")
      /\ frame' = [frame EXCEPT ![t] = IdleFrame] \/ \E j \in jobs : frame' = [frame EXCEPT ![t] = Call(j.run, j.idx, 0)]
  BY DEF Return, TakeJob, Crash
<1>2. \A u \in Threads : frame'[u] = frame[u] \/ frame'[u].pc \in Harmless
  BY <1>1 DEF Inv, TypeOK, IdleFrame, Call, Harmless
<1>3. QED BY <1>1, <1>2, SameRows, OutsideWhole DEF Events

LEMMA HandlersWhole ==
  ASSUME Inv, Inv', Whole, NEW h \in Handlers,
         \/ Pipeline(h) \/ AgentEvent(h) \/ Abort(h)
         \/ \E m \in Messages : Receive(h, m)
  PROVE  Whole'
<1>0. h \in Threads
  BY DEF Threads
<1>1. /\ UNCHANGED <<rules, executed>>
      /\ UNCHANGED budget \/ \E e \in {"faults", "agent", "aborts"} : Spend(e)
  BY DEF Pipeline, StartRun, Submit, EndDispatch, ListWaiting, ResumeNext, EndResume, AgentEvent, Abort, Receive
<1>2. \A u \in Threads : frame'[u] = frame[u] \/ frame'[u].pc \in Harmless
  <2>1. CASE UNCHANGED frame
    BY <2>1
  <2>2. CASE frame' = [frame EXCEPT ![h] = IdleFrame]
    BY <2>2 DEF Inv, TypeOK, IdleFrame, Harmless
  <2>3. CASE StartRun(h)
    <3>1. UNCHANGED frame \/ \E r \in Runs : frame' = [frame EXCEPT ![h] = [Call(r, 0, 0) EXCEPT !.pc = "submit"]]
      BY <2>3 DEF StartRun
    <3>2. ASSUME NEW r \in Runs, frame' = [frame EXCEPT ![h] = [Call(r, 0, 0) EXCEPT !.pc = "submit"]]
          PROVE  frame'[h].pc = "submit" /\ \A u \in Threads \ {h} : frame'[u] = frame[u]
      BY <1>0, <3>2 DEF Inv, TypeOK, Call
    <3>3. QED BY <3>1, <3>2 DEF Harmless
  <2>4. CASE Submit(h)
    <3>1. frame' = [frame EXCEPT ![h].pc = "load"] \/ frame' = [frame EXCEPT ![h] = IdleFrame]
      BY <2>4 DEF Submit
    <3>2. CASE frame' = [frame EXCEPT ![h].pc = "load"]
      <4>1. frame[h] \in Frame
        BY <1>0, <2>4, CallType DEF Submit
      <4>2. frame'[h].pc = "load" /\ \A u \in Threads \ {h} : frame'[u] = frame[u]
        BY <1>0, <3>2, <4>1 DEF Inv, TypeOK, Frame
      <4>3. QED BY <4>2 DEF Harmless
    <3>3. QED BY <2>2, <3>1, <3>2
  <2>5. CASE ResumeNext(h)
    BY <1>0, <2>5 DEF ResumeNext, Inv, TypeOK, Call, Harmless
  <2>6. QED
    BY <2>1, <2>2, <2>3, <2>4, <2>5 DEF Pipeline, EndDispatch, ListWaiting, EndResume, AgentEvent, Abort, Receive
<1>3. /\ \A r \in Runs : Exists(r) => RowKept(r)
      /\ \A r \in Runs : runs'[r] = runs[r] \/ runs'[r].status # "COMPLETED"
  <2>1. CASE UNCHANGED runs
    BY <2>1, SameRows
  <2>2. CASE StartRun(h)
    <3>1. UNCHANGED runs \/ \E r \in Runs, u \in Rules :
            NextRun(r) /\ runs' = [runs EXCEPT ![r] = [status |-> "PENDING", rule |-> u, idx |-> 0, by |-> handler[h].msg]]
      BY <2>2 DEF StartRun, Inv, TypeOK, Handler
    <3>2. ASSUME NEW r \in Runs, NEW u \in Rules, NextRun(r),
                 runs' = [runs EXCEPT ![r] = [status |-> "PENDING", rule |-> u, idx |-> 0, by |-> handler[h].msg]]
          PROVE  ~Exists(r) /\ runs'[r].status = "PENDING" /\ \A q \in Runs \ {r} : runs'[q] = runs[q]
      BY <3>2 DEF Inv, TypeOK, NextRun
    <3>3. QED BY <2>1, <3>1, <3>2 DEF RowKept, Exists
  <2>3. QED
    BY <2>1, <2>2 DEF Pipeline, Submit, EndDispatch, ListWaiting, ResumeNext, EndResume, AgentEvent, Abort, Receive
<1>4. QED BY <1>1, <1>2, <1>3, OutsideWhole DEF Events

LEMMA CronsWhole ==
  ASSUME Inv, Inv', Whole, NEW c \in Crons, FailStale(c) \/ \E S \in SUBSET Runs : ReadStale(c, S)
  PROVE  Whole'
<1>1. /\ UNCHANGED <<rules, frame, executed>>
      /\ UNCHANGED budget \/ Spend("faults")
      /\ UNCHANGED runs \/ \E r \in cron[c] : runs' = [runs EXCEPT ![r].status = "FAILED"]
  BY DEF FailStale, ReadStale
<1>2. /\ \A r \in Runs : Exists(r) => RowKept(r)
      /\ \A r \in Runs : runs'[r] = runs[r] \/ runs'[r].status # "COMPLETED"
  <2>1. CASE UNCHANGED runs
    BY <2>1, SameRows
  <2>2. ASSUME NEW r \in cron[c], runs' = [runs EXCEPT ![r].status = "FAILED"]
        PROVE  /\ \A q \in Runs : Exists(q) => RowKept(q)
               /\ \A q \in Runs : runs'[q] = runs[q] \/ runs'[q].status # "COMPLETED"
    <3>1. r \in Runs /\ Exists(r) /\ 0 \in Index /\ "FAILED" \in Status
      BY TypesOfConstants DEF Inv, TypeOK, ReferencesExist, Status, Settled
    <3>2. QED BY <2>2, <3>1, WrittenRowKeeps
  <2>3. QED BY <1>1, <2>1, <2>2
<1>3. QED BY <1>1, <1>2, OutsideWhole DEF Events

LEMMA EditsWhole ==
  ASSUME Inv, Inv', Whole, Spend("edits"),
         UNCHANGED <<runs, jobs, active, frame, handler, cron, deliveries, executed, resumes>>
  PROVE  Whole'
<1>1. BudgetKept' /\ Used("edits")' # 0
  <2>1. BudgetKept' /\ Used("edits")' = Used("edits") + 1 /\ Used("edits") \in Nat
    BY SpendingKeeps, UsedIs DEF Whole, Events
  <2>2. QED BY <2>1
<1>2. \A r \in Runs : Exists(r) => RowKept(r)
  BY SameRows
<1>3. QED BY <1>1, <1>2, WholePreserved

LEMMA WholeKept == Inv /\ Whole /\ [Next]_vars => Whole'
<1> SUFFICES ASSUME Inv, Whole, [Next]_vars PROVE Whole'
  OBVIOUS
<1>0. Inv'
  BY EveryStep
<1>1. ASSUME NEW t \in Threads, Processing(t) \/ Fault(t) PROVE Whole'
  BY <1>0, <1>1, LoadWhole, StartWhole, ActWhole, AdvanceWhole, EnqueueWhole, CompleteWhole, FailWhole,
     WorkersWhole, FaultWhole DEF Processing
<1>2. ASSUME NEW w \in Workers, TakeJob(w) \/ Crash(w) PROVE Whole'
  BY <1>0, <1>2, WorkersWhole DEF Threads
<1>3. ASSUME NEW h \in Handlers, Pipeline(h) \/ AgentEvent(h) \/ Abort(h) PROVE Whole'
  BY <1>0, <1>3, HandlersWhole
<1>4. ASSUME NEW h \in Handlers, NEW m \in Messages, Receive(h, m) PROVE Whole'
  BY <1>0, <1>4, HandlersWhole
<1>5. ASSUME NEW c \in Crons, FailStale(c) \/ \E S \in SUBSET Runs : ReadStale(c, S) PROVE Whole'
  BY <1>0, <1>5, CronsWhole
<1>6. ASSUME NEW u \in Rules,
             DeleteRule(u) \/ \E enabled \in BOOLEAN, steps \in Plans : UpdateRule(u, enabled, steps)
      PROVE  Whole'
  BY <1>0, <1>6, EditsWhole DEF DeleteRule, UpdateRule
<1>7. CASE UNCHANGED vars
  <2>1. UNCHANGED <<rules, executed, budget, frame, runs>>
    BY <1>7 DEF vars
  <2>2. QED BY <1>0, <2>1, SameRows, OutsideWhole
<1>8. QED BY <1>1, <1>2, <1>3, <1>4, <1>5, <1>6, <1>7 DEF Next

LEMMA WholeInitially == Init => Whole
<1> SUFFICES ASSUME Init PROVE Whole
  OBVIOUS
<1>1. StepsAreCurrent /\ CompletesWhole
  BY DEF Init, StepsAreCurrent, CompletesWhole, IdleFrame
<1>2. CompletedRanEveryStep
  BY DEF Init, CompletedRanEveryStep, Exists, NoRun
<1>3. QED BY <1>1, <1>2, BudgetInitially DEF Whole

\* Steps take effect one after the other, none left out, and unless its rule was edited a
\* run is only called COMPLETED after all of them: for any rules, runs, workers, handlers
\* and instances of the API, and any number of faults, crashes, aborts and timeouts.
THEOREM RunsAreWhole == Spec => []StepsComeWhole
<1>1. Inv /\ Whole => StepsComeWhole
  BY DEF Inv, Whole, StepsComeWhole
<1>2. QED BY <1>1, Initially, EveryStep, WholeInitially, WholeKept, PTL DEF Spec

-----------------------------------------------------------------------------
(* Repeats: what is still to come for a run, and what was executed.          *)

\* A call that will execute its step, or one that leads to the next step.
Pre(f) == f.pc \in {"submit", "load", "start", "act"} \/ (f.pc = "complete" /\ f.idx >= Len(f.steps))
Post(f) == f.pc \in {"advance", "enqueue"} \/ (f.pc = "complete" /\ f.idx < Len(f.steps))
DueBy(f, r, i) == f # IdleFrame /\ f.run = r /\ ((Pre(f) /\ f.idx <= i) \/ (Post(f) /\ f.idx < i))

\* A handler that resumes a run, and has not marked it RUNNING: the pause is not over.
ReadsIn(f) == f # IdleFrame /\ f.depth = 0 /\ f.pc \in {"load", "start", "complete"} /\ Pre(f)
Reading(t) == t \in Handlers /\ handler[t].stage = "resuming" /\ ReadsIn(frame[t])

Queued(r, i) == {j \in jobs : j.run = r /\ j.idx <= i}
Going(r, i) == {t \in Threads : DueBy(frame[t], r, i) /\ ~Reading(t)}
Failing(r) == {t \in Threads : frame[t].pc = "fail" /\ frame[t].run = r}
ToResume(r, i) ==
  \/ Paused(r) /\ runs[r].idx <= i
  \/ \E h \in Handlers : \/ \E s \in handler[h].waiting : s.run = r /\ s.idx <= i
                         \/ Reading(h) /\ DueBy(frame[h], r, i)

N(b) == IF b THEN 1 ELSE 0
Tasks(r, i) == Cardinality(Queued(r, i)) + Cardinality(Going(r, i)) + N(ToResume(r, i)) + executed[r][i]
Allowance == 2 + 2 * Used("crashes") + Used("faults")

\* What is to come for step i of run r counts double with what was executed, a failing call
\* once: a fault makes one of these, and a second one brings the step back.
Kept(r, i) ==
  /\ IsFiniteSet(Queued(r, i)) /\ IsFiniteSet(Going(r, i)) /\ IsFiniteSet(Failing(r))
  /\ 2 * Tasks(r, i) + Cardinality(Failing(r)) <= Allowance
WeightKept == \A r \in Runs, i \in Index : Kept(r, i)

\* A handler waits for other runs than the one it is in; a worker is in the job it holds.
Apart(h) ==
  /\ handler[h].stage \in {"idle", "resume"} => frame[h] = IdleFrame
  /\ handler[h].stage # "resuming" => handler[h].waiting = {}
  /\ frame[h].pc = "submit" => handler[h].stage \in TriggerTypes /\ frame[h].idx = 0
  /\ \A s \in handler[h].waiting : /\ frame[h] # IdleFrame => s.run # frame[h].run
                                   /\ \A q \in handler[h].waiting : s.run = q.run => s = q
Match(w) ==
  active[w] # NoJob =>
    /\ frame[w] # IdleFrame /\ frame[w].run = active[w].run /\ frame[w].pc # "submit"
    /\ frame[w].depth = 0 /\ frame[w].pc \notin {"fail", "done"} => frame[w].idx = active[w].idx
NothingBefore == \A r \in Runs : ~Exists(r) => \A i \in Index : executed[r][i] = 0

Shape == BudgetKept /\ (\A h \in Handlers : Apart(h)) /\ (\A w \in Workers : Match(w)) /\ NothingBefore
OneHandler == \A g, h \in Handlers : g = h

-----------------------------------------------------------------------------

\* A set that changes by one element at most.
LEMMA ChangedByOne ==
  ASSUME NEW S, NEW T, NEW x, IsFiniteSet(S), T \ {x} = S \ {x}
  PROVE  /\ IsFiniteSet(T) /\ Cardinality(S) \in Nat /\ Cardinality(T) \in Nat
         /\ Cardinality(T) + N(x \in S) = Cardinality(S) + N(x \in T)
<1> DEFINE U == S \ {x}
<1>1. IsFiniteSet(U) /\ Cardinality(U) \in Nat /\ Cardinality(S) \in Nat
  BY FS_RemoveElement, FS_Subset, FS_CardinalityType
<1>2. Cardinality(S) = Cardinality(U) + N(x \in S)
  <2>1. CASE x \in S
    BY <1>1, <2>1, FS_RemoveElement DEF N
  <2>2. CASE x \notin S
    <3>1. U = S
      BY <2>2
    <3>2. QED BY <1>1, <2>2, <3>1 DEF N
  <2>3. QED BY <2>1, <2>2
<1>3. x \notin U /\ (T = U \/ T = U \union {x}) /\ (T = U <=> x \notin T)
  OBVIOUS
<1> HIDE DEF U
<1>4. IsFiniteSet(T) /\ Cardinality(T) = Cardinality(U) + N(x \in T)
  <2>1. CASE T = U
    BY <1>1, <1>3, <2>1 DEF N
  <2>2. CASE T = U \union {x}
    BY <1>1, <1>3, <2>2, FS_AddElement DEF N
  <2>3. QED BY <1>3, <2>1, <2>2
<1>5. N(x \in S) \in Nat /\ N(x \in T) \in Nat
  BY DEF N
<1>6. QED BY <1>1, <1>2, <1>4, <1>5, FS_CardinalityType

LEMMA NIs == \A b : N(b) \in {0, 1}
  BY DEF N

\* What one job and one thread weigh, and what step i of run r weighs apart from the others.
Mine(j, t, r, i) == 2 * N(j \in Queued(r, i)) + 2 * N(t \in Going(r, i)) + N(t \in Failing(r))
Share(j, t, r, i) == Mine(j, t, r, i) + 2 * N(ToResume(r, i)) + 2 * executed[r][i]

LEMMA UsedNext ==
  ASSUME Inv', BudgetKept', NEW e \in Events
  PROVE  Used(e)' \in Nat
<1>1. budget'[e] \in Nat /\ Bounds[e] \in Nat
  BY ConstantsAssumption DEF Inv, TypeOK
<1>2. budget'[e] <= Bounds[e]
  BY DEF BudgetKept
<1>3. QED BY <1>1, <1>2 DEF Used

LEMMA Weighed ==
  ASSUME Inv, Inv', Shape, Shape', NEW r \in Runs, NEW i \in Index, Kept(r, i), NEW j, NEW t, NEW d \in Nat,
         Queued(r, i)' \ {j} = Queued(r, i) \ {j}, Going(r, i)' \ {t} = Going(r, i) \ {t},
         Failing(r)' \ {t} = Failing(r) \ {t},
         Share(j, t, r, i)' <= Share(j, t, r, i) + d, Allowance' >= Allowance + d
  PROVE  Kept(r, i)'
<1>1. /\ IsFiniteSet(Queued(r, i)) /\ IsFiniteSet(Going(r, i)) /\ IsFiniteSet(Failing(r))
      /\ 2 * Tasks(r, i) + Cardinality(Failing(r)) <= Allowance
  BY DEF Kept
<1>2. PICK q, qq : q = Queued(r, i) /\ qq = Queued(r, i)' /\ IsFiniteSet(q) /\ qq \ {j} = q \ {j}
  BY <1>1
<1>3. PICK g, gg : g = Going(r, i) /\ gg = Going(r, i)' /\ IsFiniteSet(g) /\ gg \ {t} = g \ {t}
  BY <1>1
<1>4. PICK f, ff : f = Failing(r) /\ ff = Failing(r)' /\ IsFiniteSet(f) /\ ff \ {t} = f \ {t}
  BY <1>1
<1>5. /\ IsFiniteSet(qq) /\ Cardinality(q) \in Nat /\ Cardinality(qq) \in Nat
      /\ Cardinality(qq) + N(j \in q) = Cardinality(q) + N(j \in qq)
  BY <1>2, ChangedByOne
<1>6. /\ IsFiniteSet(gg) /\ Cardinality(g) \in Nat /\ Cardinality(gg) \in Nat
      /\ Cardinality(gg) + N(t \in g) = Cardinality(g) + N(t \in gg)
  BY <1>3, ChangedByOne
<1>7. /\ IsFiniteSet(ff) /\ Cardinality(f) \in Nat /\ Cardinality(ff) \in Nat
      /\ Cardinality(ff) + N(t \in f) = Cardinality(f) + N(t \in ff)
  BY <1>4, ChangedByOne
<1>8. PICK a, aa \in Nat : a = N(ToResume(r, i)) /\ aa = N(ToResume(r, i))'
  BY NIs DEF N
<1>9. PICK e, ee \in Nat : e = executed[r][i] /\ ee = executed'[r][i]
  BY DEF Inv, TypeOK
<1>10. PICK u, uu \in Nat : u = Allowance /\ uu = Allowance'
  <2>1. Allowance \in Nat
    BY UsedIs DEF Shape, Allowance, Events
  <2>2. Allowance' \in Nat
    <3>1. "crashes" \in Events /\ "faults" \in Events /\ BudgetKept'
      BY DEF Events, Shape
    <3>2. Used("crashes")' \in Nat /\ Used("faults")' \in Nat
      BY <3>1, UsedNext
    <3>3. QED BY <3>2 DEF Allowance
  <2>3. QED BY <2>1, <2>2
<1>11. /\ N(j \in q) \in Nat /\ N(j \in qq) \in Nat /\ N(t \in g) \in Nat /\ N(t \in gg) \in Nat
       /\ N(t \in f) \in Nat /\ N(t \in ff) \in Nat
  BY DEF N
<1>12. 2 * (Cardinality(q) + Cardinality(g) + a + e) + Cardinality(f) <= u
  BY <1>1, <1>2, <1>3, <1>4, <1>8, <1>9, <1>10 DEF Tasks
<1>13. 2 * N(j \in qq) + 2 * N(t \in gg) + N(t \in ff) + 2 * aa + 2 * ee
         <= 2 * N(j \in q) + 2 * N(t \in g) + N(t \in f) + 2 * a + 2 * e + d
  BY <1>2, <1>3, <1>4, <1>8, <1>9 DEF Share, Mine
<1>14. 2 * (Cardinality(qq) + Cardinality(gg) + aa + ee) + Cardinality(ff) <= uu
  BY <1>5, <1>6, <1>7, <1>10, <1>11, <1>12, <1>13
<1>15. (2 * Tasks(r, i) + Cardinality(Failing(r)) <= Allowance)'
  BY <1>2, <1>3, <1>4, <1>8, <1>9, <1>10, <1>14 DEF Tasks
<1>16. QED BY <1>2, <1>3, <1>4, <1>5, <1>6, <1>7, <1>15 DEF Kept

-----------------------------------------------------------------------------
(* The shape is kept.  Most steps move one call.                             *)

\* Only thread t goes on.
Alone(t) ==
  /\ \A u \in Threads \ {t} : frame'[u] = frame[u]
  /\ \A h \in Handlers \ {t} : handler'[h] = handler[h]
  /\ \A w \in Workers \ {t} : active'[w] = active[w]
\* Its call goes on at the step it is at.
Moves(t) ==
  /\ Alone(t) /\ UNCHANGED <<active, handler>>
  /\ frame[t] # IdleFrame /\ frame'[t] # IdleFrame
  /\ frame'[t].run = frame[t].run /\ frame'[t].idx = frame[t].idx /\ frame'[t].depth = frame[t].depth

LEMMA GotoIs ==
  ASSUME Inv, NEW t \in Threads, frame[t].pc # "idle", NEW pc \in PCs, Goto(t, pc)
  PROVE  Moves(t) /\ frame'[t].pc = pc /\ frame'[t].steps = frame[t].steps
<1>1. PICK g : g = [frame[t] EXCEPT !.pc = pc]
  OBVIOUS
<1>2. /\ g \in Frame /\ g.pc = pc /\ g.run = frame[t].run /\ g.idx = frame[t].idx
      /\ g.steps = frame[t].steps /\ g.depth = frame[t].depth
  BY <1>1, CallType DEF Frame, PCs
<1>3. g # IdleFrame /\ frame[t] # IdleFrame
  BY <1>2, CallType DEF IdleFrame, PCs
<1>4. frame' = [frame EXCEPT ![t] = g] /\ UNCHANGED <<active, handler>>
  BY <1>1 DEF Goto, To
<1>5. frame'[t] = g /\ \A u \in Threads : u # t => frame'[u] = frame[u]
  BY <1>2, <1>4, FrameReplaced
<1>6. QED BY <1>2, <1>3, <1>4, <1>5 DEF Moves, Alone, Threads

\* What Load does to its call.
LEMMA LoadIs ==
  ASSUME Inv, NEW t \in Threads, Load(t)
  PROVE  /\ Moves(t) /\ frame[t].pc = "load"
         /\ \/ frame'[t].pc = "done"
            \/ frame'[t].pc \in {"start", "complete"} /\ Pre(frame[t])' /\ ~Post(frame[t])'
<1>1. frame[t].pc = "load"
  BY DEF Load
<1>2. CASE Goto(t, "done")
  BY <1>1, <1>2, GotoIs DEF PCs
<1>3. ASSUME NEW pc \in {"complete", "start"},
             To(t, [frame[t] EXCEPT !.pc = pc, !.steps = RuleOf(frame[t].run).steps]),
             pc = "complete" => PastLast(frame[t].idx, RuleOf(frame[t].run).steps)
      PROVE  Moves(t) /\ frame'[t].pc = pc /\ Pre(frame[t])' /\ ~Post(frame[t])'
  <2>1. PICK g, steps : steps = RuleOf(frame[t].run).steps /\ g = [frame[t] EXCEPT !.pc = pc, !.steps = steps]
    OBVIOUS
  <2>2. /\ g \in Frame /\ g.pc = pc /\ g.run = frame[t].run /\ g.idx = frame[t].idx
        /\ g.steps = steps /\ g.depth = frame[t].depth
    BY <1>1, <2>1, CallType DEF Frame
  <2>3. g # IdleFrame /\ frame[t] # IdleFrame
    BY <1>1, <2>2, CallType DEF IdleFrame
  <2>4. frame' = [frame EXCEPT ![t] = g] /\ UNCHANGED <<active, handler>>
    BY <1>3, <2>1 DEF To
  <2>5. frame'[t] = g /\ \A u \in Threads : u # t => frame'[u] = frame[u]
    BY <2>2, <2>4, FrameReplaced
  <2>6. Moves(t)
    BY <2>2, <2>3, <2>4, <2>5 DEF Moves, Alone, Threads
  <2>7. frame[t].idx \in Nat /\ Len(steps) \in Nat
    BY <1>1, <2>1, CallType, TypesOfConstants
  <2>8. Pre(g) /\ ~Post(g)
    BY <1>3, <2>1, <2>2, <2>7 DEF Pre, Post, PastLast
  <2>9. Pre(frame[t])' /\ ~Post(frame[t])'
    BY <2>5, <2>8 DEF Pre, Post
  <2>10. QED BY <2>2, <2>5, <2>6, <2>9
<1>4. QED BY <1>1, <1>2, <1>3 DEF Load

\* What a rejection does to its call and to the queue.
LEMMA RejectIs ==
  ASSUME Inv, NEW t \in Threads, frame[t].pc # "idle", Reject(t)
  PROVE  /\ Alone(t)
         /\ \A h \in Handlers : /\ handler'[h].stage = handler[h].stage
                                /\ handler'[h].waiting \subseteq handler[h].waiting
         /\ \/ /\ UNCHANGED <<jobs, active, handler>> /\ frame'[t] # IdleFrame
               /\ frame'[t].pc = "fail" /\ frame'[t].run = frame[t].run
            \/ /\ frame'[t] = IdleFrame /\ (t \in Workers => active'[t] = NoJob) /\ frame[t].depth = 0
               /\ IF t \in Workers THEN jobs' = jobs \union Retried(active[t]) ELSE UNCHANGED jobs
<1>1. CASE frame[t].depth > 0
  <2>1. PICK g, d : d = frame[t].depth - 1 /\ g = [frame[t] EXCEPT !.pc = "fail", !.depth = d]
    OBVIOUS
  <2>2. frame[t] \in Frame /\ frame[t].depth \in Nat /\ d \in Nat
    BY <1>1, <2>1, CallType
  <2>3. g \in Frame /\ g.pc = "fail" /\ g.run = frame[t].run
    BY <2>1, <2>2 DEF Frame
  <2>4. g = [frame[t] EXCEPT !.pc = "fail", !.depth = @ - 1]
    BY <2>1, <2>2 DEF Frame
  <2>5. frame' = [frame EXCEPT ![t] = g] /\ UNCHANGED <<jobs, active, handler>>
    BY <1>1, <2>4 DEF Reject, To
  <2>6. frame'[t] = g /\ \A u \in Threads : u # t => frame'[u] = frame[u]
    BY <2>3, <2>5, FrameReplaced
  <2>7. g # IdleFrame
    BY <2>3 DEF IdleFrame
  <2>8. QED BY <2>3, <2>5, <2>6, <2>7 DEF Alone, Threads
<1>2. CASE ~(frame[t].depth > 0)
  <2>1. /\ frame' = [frame EXCEPT ![t] = IdleFrame]
        /\ active' = [w \in Workers |-> IF w = t THEN NoJob ELSE active[w]]
        /\ jobs' = IF t \in Workers THEN jobs \union Retried(active[t]) ELSE jobs
        /\ handler' = [h \in Handlers |->
             IF h = t /\ handler[h].stage = "resuming"
             THEN [handler[h] EXCEPT !.waiting = {}, !.skip = {}]
             ELSE handler[h]]
    BY <1>2 DEF Reject
  <2>2. frame'[t] = IdleFrame /\ \A u \in Threads : u # t => frame'[u] = frame[u]
    BY <2>1, FrameReplaced
  <2>3. frame[t].depth = 0
    <3>1. frame[t].depth \in Nat
      BY CallType
    <3>2. QED BY <1>2, <3>1
  <2>4. \A h \in Handlers : /\ handler[h] \in Handler
                            /\ [handler[h] EXCEPT !.waiting = {}, !.skip = {}].stage = handler[h].stage
                            /\ [handler[h] EXCEPT !.waiting = {}, !.skip = {}].waiting = {}
    <3>1. \A x \in Handler : /\ [x EXCEPT !.waiting = {}, !.skip = {}].stage = x.stage
                             /\ [x EXCEPT !.waiting = {}, !.skip = {}].waiting = {}
      BY DEF Handler
    <3>2. \A h \in Handlers : handler[h] \in Handler
      BY DEF Inv, TypeOK
    <3>3. QED BY <3>1, <3>2
  <2>5. \A h \in Handlers : /\ handler'[h].stage = handler[h].stage
                            /\ handler'[h].waiting \subseteq handler[h].waiting
                            /\ h # t => handler'[h] = handler[h]
    BY <2>1, <2>4
  <2>6. QED BY <2>1, <2>2, <2>3, <2>5 DEF Alone
<1>3. QED BY <1>1, <1>2

-----------------------------------------------------------------------------
(* A row stays, and keeps its rule and its message, in every step.           *)

\* How a step may change the rows: one of them goes on, or a new one appears.
RowGoesOn ==
  \E r \in Runs, s \in Status, i \in Index :
    /\ Exists(r)
    /\ runs' = [runs EXCEPT ![r].status = s, ![r].idx = i] \/ runs' = [runs EXCEPT ![r].status = s]
NewRow ==
  \E r \in Runs, u \in Rules, h \in Handlers :
    ~Exists(r) /\ runs' = [runs EXCEPT ![r] = [status |-> "PENDING", rule |-> u, idx |-> 0, by |-> handler[h].msg]]

LEMMA RowsChange ==
  ASSUME Inv, [Next]_vars
  PROVE  UNCHANGED runs \/ RowGoesOn \/ (NewRow /\ \E h \in Handlers : StartRun(h))
<1>0. 0 \in Index /\ {"RUNNING", "WAITING", "WAITING_FOR_REPLY", "COMPLETED", "FAILED"} \subseteq Status
  BY TypesOfConstants DEF Status, Settled
<1>1. ASSUME NEW t \in Threads, Processing(t) \/ Fault(t) PROVE UNCHANGED runs \/ RowGoesOn
  <2>1. CASE Start(t)
    <3>1. PICK r \in Runs, i \in Index : r = frame[t].run /\ i = frame[t].idx /\ Exists(r)
      BY <2>1, CallType DEF Start
    <3>2. runs' = [runs EXCEPT ![r].status = "RUNNING", ![r].idx = i]
      BY <2>1, <3>1 DEF Start
    <3>3. QED BY <1>0, <3>1, <3>2 DEF RowGoesOn
  <2>2. CASE Act(t) \/ Complete(t) \/ Fail(t)
    <3>1. PICK r \in Runs : r = frame[t].run /\ Exists(r)
      BY <2>2, CallType DEF Act, Complete, Fail
    <3>2. UNCHANGED runs \/ \E s \in {"WAITING", "COMPLETED", "FAILED"} : runs' = [runs EXCEPT ![r].status = s]
      BY <2>2, <3>1 DEF Act, Complete, Fail
    <3>3. QED BY <1>0, <3>1, <3>2 DEF RowGoesOn
  <2>3. CASE Advance(t)
    <3>1. PICK r \in Runs, i \in Index : r = frame[t].run /\ i = frame[t].idx + 1 /\ Exists(r)
      BY <2>3, CallType, NextIndex DEF Advance
    <3>2. UNCHANGED runs \/ runs' = [runs EXCEPT ![r].status = "WAITING_FOR_REPLY", ![r].idx = i]
      BY <2>3, <3>1 DEF Advance, Pause
    <3>3. QED BY <1>0, <3>1, <3>2 DEF RowGoesOn
  <2>4. QED BY <1>1, <2>1, <2>2, <2>3 DEF Processing, Fault, Load, Enqueue, Return
<1>2. ASSUME NEW h \in Handlers, Pipeline(h) PROVE UNCHANGED runs \/ (NewRow /\ StartRun(h))
  <2>1. CASE StartRun(h)
    <3>1. handler[h] \in Handler
      BY DEF Inv, TypeOK
    <3>2. UNCHANGED runs \/ \E u \in Rules, r \in Runs :
            NextRun(r) /\ runs' = [runs EXCEPT ![r] = [status |-> "PENDING", rule |-> u, idx |-> 0, by |-> handler[h].msg]]
      BY <2>1, <3>1 DEF StartRun, Handler
    <3>3. QED BY <2>1, <3>2 DEF NewRow, NextRun
  <2>2. QED BY <1>2, <2>1 DEF Pipeline, Submit, EndDispatch, ListWaiting, ResumeNext, EndResume
<1>3. ASSUME NEW c \in Crons, FailStale(c) PROVE UNCHANGED runs \/ RowGoesOn
  <2>1. UNCHANGED runs \/ \E r \in cron[c] : runs' = [runs EXCEPT ![r].status = "FAILED"]
    BY <1>3 DEF FailStale
  <2>2. \A r \in cron[c] : r \in Runs /\ Exists(r)
    BY DEF Inv, TypeOK, ReferencesExist
  <2>3. QED BY <1>0, <2>1, <2>2 DEF RowGoesOn
<1>4. CASE UNCHANGED vars
  BY <1>4 DEF vars
<1>5. QED BY <1>1, <1>2, <1>3, <1>4 DEF Next, TakeJob, Crash, AgentEvent, Abort, Receive, ReadStale, UpdateRule, DeleteRule

LEMMA RowsStay == ASSUME Inv, [Next]_vars PROVE \A r \in Runs : Exists(r) => RowKept(r)
<1>1. CASE UNCHANGED runs
  BY <1>1, SameRows
<1>2. CASE RowGoesOn
  <2>1. PICK r \in Runs, s \in Status, i \in Index :
          /\ Exists(r)
          /\ runs' = [runs EXCEPT ![r].status = s, ![r].idx = i] \/ runs' = [runs EXCEPT ![r].status = s]
    BY <1>2 DEF RowGoesOn
  <2>2. QED BY <2>1, WrittenRowKeeps
<1>3. CASE NewRow
  BY <1>3 DEF NewRow, RowKept, Exists, Inv, TypeOK
<1>4. QED BY <1>1, <1>2, <1>3, RowsChange

-----------------------------------------------------------------------------

LEMMA ShapeOf ==
  ASSUME Inv, Inv', Shape, BudgetKept', NEW t \in Threads, Alone(t), NothingBefore',
         t \in Handlers => Apart(t)', t \in Workers => Match(t)'
  PROVE  Shape'
<1>1. ASSUME NEW h \in Handlers PROVE Apart(h)'
  <2>1. CASE h = t
    BY <2>1
  <2>2. CASE h # t
    BY <2>2 DEF Shape, Apart, Alone, Threads
  <2>3. QED BY <2>1, <2>2
<1>2. ASSUME NEW w \in Workers PROVE Match(w)'
  <2>1. CASE w = t
    BY <2>1
  <2>2. CASE w # t
    BY <2>2 DEF Shape, Match, Alone, Threads
  <2>3. QED BY <2>1, <2>2
<1>3. QED BY <1>1, <1>2 DEF Shape

\* A call that goes on at its step.
LEMMA MovesShape ==
  ASSUME Inv, Inv', Shape, BudgetKept', NothingBefore', NEW t \in Threads, Moves(t), frame'[t].pc # "submit",
         frame'[t].pc \in {"fail", "done"} \/ frame[t].pc \notin {"fail", "done"}
  PROVE  Shape'
<1>1. t \in Handlers => Apart(t)'
  BY DEF Shape, Apart, Moves
<1>2. t \in Workers => Match(t)'
  BY DEF Shape, Match, Moves
<1>3. QED BY <1>1, <1>2, ShapeOf DEF Moves

LEMMA RejectShape ==
  ASSUME Inv, Inv', Shape, BudgetKept', NothingBefore', NEW t \in Threads, frame[t].pc # "idle", Reject(t)
  PROVE  Shape'
<1>1. /\ Alone(t)
      /\ \A h \in Handlers : /\ handler'[h].stage = handler[h].stage
                             /\ handler'[h].waiting \subseteq handler[h].waiting
      /\ \/ /\ UNCHANGED <<jobs, active, handler>> /\ frame'[t] # IdleFrame
            /\ frame'[t].pc = "fail" /\ frame'[t].run = frame[t].run
         \/ frame'[t] = IdleFrame /\ (t \in Workers => active'[t] = NoJob)
  BY RejectIs
<1>2. frame[t] # IdleFrame
  BY CallType
<1>3. t \in Handlers => Apart(t)'
  BY <1>1, <1>2 DEF Shape, Apart, IdleFrame
<1>4. t \in Workers => Match(t)'
  BY <1>1, <1>2 DEF Shape, Match
<1>5. QED BY <1>1, <1>3, <1>4, ShapeOf

LEMMA ProcessingShape ==
  ASSUME Inv, Inv', Shape, BudgetKept', NEW t \in Threads, Processing(t) \/ Fault(t)
  PROVE  Shape'
<1>0. Return(t) \/ frame[t].pc \notin {"idle", "submit", "done"}
  BY DEF Processing, Fault, Load, Start, Act, Advance, Enqueue, Complete, Fail
<1>1. NothingBefore'
  <2>1. \A r \in Runs : Exists(r) => Exists(r)'
    <3>1. Next
      BY DEF Next
    <3>2. QED BY <3>1, RowsStay DEF RowKept
  <2>2. \A r \in Runs : executed'[r] = executed[r] \/ Exists(r)
    <3>1. CASE Act(t)
      <4>1. /\ frame[t].run \in Runs /\ Exists(frame[t].run) /\ executed \in [Runs -> [Index -> Nat]]
            /\ executed' = [executed EXCEPT ![frame[t].run][frame[t].idx] = @ + 1]
        BY <3>1, CallType DEF Act, Inv, TypeOK
      <4>2. QED BY <4>1
    <3>2. CASE UNCHANGED executed
      BY <3>2
    <3>3. QED BY <3>1, <3>2 DEF Processing, Fault, Load, Start, Advance, Enqueue, Complete, Fail, Return
  <2>3. QED BY <2>1, <2>2 DEF Shape, NothingBefore
<1>2. CASE Reject(t) /\ frame[t].pc # "idle"
  BY <1>1, <1>2, RejectShape
<1>3. CASE Load(t)
  BY <1>1, <1>3, LoadIs, MovesShape
<1>4. ASSUME NEW pc \in PCs \ {"submit"}, Goto(t, pc), frame[t].pc \notin {"idle", "submit", "done"},
             frame[t].pc = "fail" => pc = "done"
      PROVE  Shape'
  BY <1>1, <1>4, GotoIs, MovesShape
<1>5. CASE Return(t)
  <2>1. /\ frame[t].pc = "done" /\ frame' = [frame EXCEPT ![t] = IdleFrame]
        /\ active' = [w \in Workers |-> IF w = t THEN NoJob ELSE active[w]]
        /\ handler' = [h \in Handlers |->
             IF h = t /\ handler[h].stage = "resuming"
             THEN [handler[h] EXCEPT !.skip = @ \union {runs[frame[t].run].rule}]
             ELSE handler[h]]
    BY <1>5 DEF Return
  <2>2. frame'[t] = IdleFrame /\ \A u \in Threads : u # t => frame'[u] = frame[u]
    BY <2>1, FrameReplaced
  <2>3. \A h \in Handlers : /\ handler'[h].stage = handler[h].stage /\ handler'[h].waiting = handler[h].waiting
                            /\ h # t => handler'[h] = handler[h]
    BY <2>1 DEF Inv, TypeOK, Handler
  <2>4. Alone(t) /\ (t \in Workers => active'[t] = NoJob)
    BY <2>1, <2>2, <2>3 DEF Alone
  <2>5. t \in Handlers => Apart(t)'
    BY <2>2, <2>3 DEF Shape, Apart, IdleFrame
  <2>6. t \in Workers => Match(t)'
    BY <2>4 DEF Match
  <2>7. QED BY <1>1, <2>4, <2>5, <2>6, ShapeOf
<1>6. CASE Enqueue(t) /\ To(t, Call(frame[t].run, frame[t].idx + 1, frame[t].depth + 1))
  <2>1. PICK g : g = Call(frame[t].run, frame[t].idx + 1, frame[t].depth + 1)
    OBVIOUS
  <2>2. /\ frame[t].pc = "enqueue" /\ frame[t] # IdleFrame /\ frame[t].depth \in Nat
    BY <1>6, CallType DEF Enqueue
  <2>3. frame'[t] = g /\ (\A u \in Threads : u # t => frame'[u] = frame[u]) /\ UNCHANGED <<active, handler>>
    BY <1>6, <2>1 DEF To, Inv, TypeOK
  <2>4. g.pc = "load" /\ g.run = frame[t].run /\ g.depth = frame[t].depth + 1 /\ g # IdleFrame
    BY <2>1 DEF Call, IdleFrame
  <2>5. Alone(t)
    BY <2>3 DEF Alone, Threads
  <2>6. t \in Handlers => Apart(t)'
    BY <2>2, <2>3, <2>4 DEF Shape, Apart
  <2>7. t \in Workers => Match(t)'
    BY <2>2, <2>3, <2>4 DEF Shape, Match
  <2>8. QED BY <1>1, <2>5, <2>6, <2>7, ShapeOf
<1>7. CASE Start(t)
  BY <1>2, <1>4, <1>7 DEF Start, PCs
<1>8. CASE Act(t)
  BY <1>4, <1>8 DEF Act, PCs
<1>9. CASE Advance(t)
  BY <1>4, <1>9 DEF Advance, PCs
<1>10. CASE Enqueue(t)
  BY <1>4, <1>6, <1>10 DEF Enqueue, PCs
<1>11. CASE Complete(t)
  BY <1>2, <1>4, <1>11 DEF Complete, PCs
<1>12. CASE Fail(t)
  BY <1>2, <1>4, <1>12 DEF Fail, PCs
<1>13. CASE Fault(t)
  <2>1. InTry(frame[t]) => frame[t].pc # "fail"
    BY DEF InTry
  <2>2. QED BY <1>2, <1>4, <1>13, <2>1 DEF Fault, PCs
<1>14. QED BY <1>3, <1>5, <1>7, <1>8, <1>9, <1>10, <1>11, <1>12, <1>13 DEF Processing

\* The steps of workers, handlers and the timeout.
LEMMA TakeJobShape ==
  ASSUME Inv, Inv', Shape, BudgetKept', NothingBefore', NEW w \in Workers, TakeJob(w) \/ Crash(w)
  PROVE  Shape'
<1>0. w \in Threads /\ w \notin Handlers
  BY ConstantsAssumption DEF Threads
<1>1. CASE TakeJob(w)
  <2>1. PICK j \in jobs : active' = [active EXCEPT ![w] = j] /\ frame' = [frame EXCEPT ![w] = Call(j.run, j.idx, 0)]
    BY <1>1 DEF TakeJob
  <2>2. active'[w] = j /\ frame'[w] = Call(j.run, j.idx, 0)
    BY <1>0, <2>1 DEF Inv, TypeOK
  <2>3. Call(j.run, j.idx, 0) # IdleFrame /\ Call(j.run, j.idx, 0).run = j.run
        /\ Call(j.run, j.idx, 0).idx = j.idx /\ Call(j.run, j.idx, 0).pc = "load"
    BY DEF Call, IdleFrame
  <2>4. Match(w)'
    BY <2>2, <2>3 DEF Match
  <2>5. Alone(w)
    BY <1>1, <2>1 DEF TakeJob, Alone, Inv, TypeOK
  <2>6. QED BY <1>0, <2>4, <2>5, ShapeOf
<1>2. CASE Crash(w)
  <2>1. active'[w] = NoJob /\ Alone(w)
    BY <1>2 DEF Crash, Alone, Inv, TypeOK
  <2>2. Match(w)'
    BY <2>1 DEF Match
  <2>3. QED BY <1>0, <2>1, <2>2, ShapeOf
<1>3. QED BY <1>1, <1>2

\* A step of a handler moves that handler and its call only.
LEMMA OthersStandStill ==
  ASSUME Inv, NEW h \in Handlers,
         Pipeline(h) \/ AgentEvent(h) \/ Abort(h) \/ \E m \in Messages : Receive(h, m)
  PROVE  /\ \A g \in Handlers \ {h} : handler'[g] = handler[g]
         /\ \A u \in Threads \ {h} : frame'[u] = frame[u]
         /\ UNCHANGED active
<1> DEFINE HandlersStand == \A g \in Handlers \ {h} : handler'[g] = handler[g]
           CallsStand == \A u \in Threads \ {h} : frame'[u] = frame[u]
<1>1. DOMAIN handler = Handlers /\ DOMAIN frame = Threads /\ h \in Threads
      /\ handler = [g \in Handlers |-> handler[g]] /\ frame = [u \in Threads |-> frame[u]]
  BY DEF Inv, TypeOK, Threads
<1>2. UNCHANGED active
  BY DEF Pipeline, StartRun, Submit, EndDispatch, ListWaiting, ResumeNext, EndResume, AgentEvent, Abort, Receive
<1>3. ASSUME NEW new, handler' = [handler EXCEPT ![h] = new] PROVE HandlersStand
  BY <1>1, <1>3
<1>4. ASSUME NEW new, frame' = [frame EXCEPT ![h] = new] PROVE CallsStand
  BY <1>1, <1>4
<1>5. CASE StartRun(h)
  BY <1>1, <1>5 DEF StartRun
<1>6. CASE Submit(h)
  BY <1>1, <1>6 DEF Submit
<1>7. CASE EndDispatch(h)
  BY <1>1, <1>7 DEF EndDispatch, EnterDispatch, Become
<1>8. CASE ListWaiting(h)
  BY <1>1, <1>8 DEF ListWaiting, Become
<1>9. CASE ResumeNext(h)
  BY <1>1, <1>9 DEF ResumeNext
<1>10. CASE EndResume(h)
  BY <1>1, <1>10 DEF EndResume, EnterDispatch, Become
<1>11. CASE AgentEvent(h)
  BY <1>1, <1>11 DEF AgentEvent, EnterDispatch
<1>12. CASE Abort(h)
  BY <1>3, <1>4, <1>12 DEF Abort
<1>13. ASSUME NEW m \in Messages, Receive(h, m) PROVE HandlersStand /\ CallsStand
  BY <1>1, <1>13 DEF Receive
<1>14. HandlersStand /\ CallsStand
  BY <1>5, <1>6, <1>7, <1>8, <1>9, <1>10, <1>11, <1>12, <1>13 DEF Pipeline
<1>15. QED BY <1>2, <1>14

LEMMA HandlerShape ==
  ASSUME Inv, Inv', Shape, BudgetKept', NothingBefore', NEW h \in Handlers,
         Pipeline(h) \/ AgentEvent(h) \/ Abort(h) \/ \E m \in Messages : Receive(h, m)
  PROVE  Shape'
<1>0. h \in Threads /\ h \notin Workers /\ handler[h] \in Handler /\ Apart(h)
  BY ConstantsAssumption DEF Threads, Inv, TypeOK, Shape
<1>1. /\ \A g \in Handlers \ {h} : handler'[g] = handler[g]
      /\ \A u \in Threads \ {h} : frame'[u] = frame[u]
      /\ UNCHANGED active
  BY OthersStandStill
<1>2. Alone(h)
  BY <1>1 DEF Alone
<1>3. IdleHandler.stage = "idle" /\ IdleHandler.waiting = {} /\ IdleFrame.pc = "idle"
  BY DEF IdleHandler, IdleFrame
<1>4. Apart(h)'
  <2>1. CASE StartRun(h)
    <3>1. /\ handler[h].stage \in TriggerTypes /\ frame[h] = IdleFrame
          /\ \E u \in Rules : handler' = [handler EXCEPT ![h].matched = @ \ {u}]
          /\ UNCHANGED frame \/ \E r \in Runs : frame' = [frame EXCEPT ![h] = [Call(r, 0, 0) EXCEPT !.pc = "submit"]]
      BY <1>0, <2>1 DEF StartRun, Handler
    <3>2. handler'[h].stage = handler[h].stage /\ handler'[h].waiting = handler[h].waiting
      BY <1>0, <3>1 DEF Inv, TypeOK, Handler
    <3>3. handler[h].waiting = {} /\ handler[h].stage \notin {"idle", "resume", "resuming"}
      BY <1>0, <3>1 DEF Apart, TriggerTypes
    <3>4. frame'[h].pc = "submit" => frame'[h].idx = 0
      <4>1. ASSUME NEW r \in Runs, frame' = [frame EXCEPT ![h] = [Call(r, 0, 0) EXCEPT !.pc = "submit"]]
            PROVE  frame'[h].idx = 0
        BY <1>0, <4>1 DEF Inv, TypeOK, Call
      <4>2. QED BY <1>3, <3>1, <4>1
    <3>5. QED BY <3>1, <3>2, <3>3, <3>4 DEF Apart
  <2>2. CASE Submit(h)
    <3>1. frame[h].pc = "submit" /\ handler[h].stage \in TriggerTypes /\ handler[h].waiting = {}
      BY <1>0, <2>2 DEF Submit, Apart, TriggerTypes
    <3>2. UNCHANGED handler
      BY <2>2 DEF Submit
    <3>3. handler[h].stage \notin {"idle", "resume", "resuming"}
      BY <3>1 DEF TriggerTypes
    <3>4. frame'[h].pc # "submit"
      <4>1. frame[h] \in Frame
        BY <1>0, <3>1, CallType
      <4>2. frame' = [frame EXCEPT ![h].pc = "load"] \/ frame' = [frame EXCEPT ![h] = IdleFrame]
        BY <2>2 DEF Submit
      <4>3. QED BY <1>0, <1>3, <4>1, <4>2 DEF Inv, TypeOK, Frame
    <3>5. QED BY <3>1, <3>2, <3>3, <3>4 DEF Apart
  <2>3. CASE EndDispatch(h)
    <3>1. frame[h] = IdleFrame /\ handler[h].waiting = {} /\ UNCHANGED frame
      BY <1>0, <2>3 DEF EndDispatch, Apart, TriggerTypes
    <3>2. handler'[h].waiting = {}
      BY <1>0, <1>3, <2>3, <3>1 DEF EndDispatch, EnterDispatch, Become, Inv, TypeOK, Handler
    <3>3. QED BY <1>3, <3>1, <3>2 DEF Apart
  <2>4. CASE ListWaiting(h)
    <3>1. frame[h] = IdleFrame /\ UNCHANGED frame
      BY <1>0, <2>4 DEF ListWaiting, Apart
    <3>2. CASE handler' = [handler EXCEPT ![h].stage = "resuming",
                  ![h].waiting = {[run |-> r, idx |-> runs[r].idx] : r \in Resumable}]
      <4>1. handler'[h].stage = "resuming" /\ handler'[h].waiting = {[run |-> r, idx |-> runs[r].idx] : r \in Resumable}
        BY <1>0, <3>2 DEF Inv, TypeOK, Handler
      <4>2. \A s, q \in handler'[h].waiting : s.run = q.run => s = q
        BY <4>1
      <4>3. QED BY <1>3, <3>1, <4>1, <4>2 DEF Apart
    <3>3. CASE Become(h, "resuming")
      <4>1. handler'[h].stage = "resuming" /\ handler'[h].waiting = handler[h].waiting
        BY <1>0, <3>3 DEF Become, Inv, TypeOK, Handler
      <4>2. QED BY <1>0, <1>3, <3>1, <4>1 DEF Apart
    <3>4. QED BY <2>4, <3>2, <3>3 DEF ListWaiting
  <2>5. CASE ResumeNext(h)
    <3>1. PICK s \in handler[h].waiting : /\ handler' = [handler EXCEPT ![h].waiting = @ \ {s}]
                                         /\ frame' = [frame EXCEPT ![h] = Call(s.run, s.idx, 0)]
      BY <2>5 DEF ResumeNext
    <3>2. /\ handler'[h].stage = "resuming" /\ handler'[h].waiting = handler[h].waiting \ {s}
          /\ frame'[h] = Call(s.run, s.idx, 0)
      BY <1>0, <2>5, <3>1 DEF ResumeNext, Inv, TypeOK, Handler
    <3>3. Call(s.run, s.idx, 0).run = s.run /\ Call(s.run, s.idx, 0).pc = "load"
      BY DEF Call
    <3>4. QED BY <1>0, <3>2, <3>3 DEF Apart
  <2>6. CASE EndResume(h)
    <3>1. frame[h] = IdleFrame /\ handler[h].waiting = {} /\ UNCHANGED frame
      BY <2>6 DEF EndResume
    <3>2. handler'[h].waiting = {}
      BY <1>0, <1>3, <2>6, <3>1 DEF EndResume, EnterDispatch, Become, Inv, TypeOK, Handler
    <3>3. QED BY <1>3, <3>1, <3>2 DEF Apart
  <2>7. CASE AgentEvent(h)
    <3>1. handler[h] = IdleHandler /\ UNCHANGED frame
      BY <2>7 DEF AgentEvent
    <3>2. frame[h] = IdleFrame /\ handler[h].waiting = {}
      BY <1>0, <1>3, <3>1 DEF Apart
    <3>3. handler'[h].waiting = {}
      BY <1>0, <2>7, <3>2 DEF AgentEvent, EnterDispatch, Inv, TypeOK, Handler
    <3>4. QED BY <1>3, <3>1, <3>2, <3>3 DEF Apart
  <2>8. CASE Abort(h)
    <3>1. handler'[h] = IdleHandler /\ frame'[h] = IdleFrame
      BY <1>0, <2>8 DEF Abort, Inv, TypeOK
    <3>2. QED BY <1>3, <3>1 DEF Apart
  <2>9. CASE \E m \in Messages : Receive(h, m)
    <3>1. handler[h] = IdleHandler /\ UNCHANGED frame
      BY <2>9 DEF Receive
    <3>2. frame[h] = IdleFrame
      BY <1>0, <1>3, <3>1 DEF Apart
    <3>3. handler'[h].waiting = {}
      <4>1. PICK m \in Messages, text \in BOOLEAN :
              LET new == [IdleHandler EXCEPT !.msg = m, !.text = text] IN
              \/ handler' = [handler EXCEPT ![h] =
                   [new EXCEPT !.stage = "CONVERSATION_CREATED",
                               !.matched = Matching("CONVERSATION_CREATED")]]
              \/ handler' = [handler EXCEPT ![h] = [new EXCEPT !.stage = "resume"]]
        BY <2>9 DEF Receive
      <4> DEFINE new == [IdleHandler EXCEPT !.msg = m, !.text = text]
      <4>2. new \in Handler /\ new.waiting = {}
        BY HandlerShapes DEF Handler
      <4>3. \/ handler' = [handler EXCEPT ![h] =
                 [new EXCEPT !.stage = "CONVERSATION_CREATED",
                             !.matched = Matching("CONVERSATION_CREATED")]]
            \/ handler' = [handler EXCEPT ![h] = [new EXCEPT !.stage = "resume"]]
        BY <4>1
      <4> HIDE DEF new
      <4>4. QED BY <4>2, <4>3 DEF Inv, TypeOK, Handler
    <3>4. QED BY <1>3, <3>1, <3>2, <3>3 DEF Apart
  <2>10. QED BY <2>1, <2>2, <2>3, <2>4, <2>5, <2>6, <2>7, <2>8, <2>9 DEF Pipeline
<1>5. QED BY <1>0, <1>2, <1>4, ShapeOf

LEMMA ShapeKept == ASSUME Inv, Whole, Shape, [Next]_vars PROVE Shape'
<1>0. Inv' /\ BudgetKept'
  BY EveryStep, WholeKept DEF Whole
<1>1. ASSUME NEW t \in Threads, Processing(t) \/ Fault(t) PROVE Shape'
  BY <1>0, <1>1, ProcessingShape
<1>2. ASSUME UNCHANGED executed PROVE NothingBefore'
  <2>1. \A r \in Runs : Exists(r) => Exists(r)'
    BY RowsStay DEF RowKept
  <2>2. QED BY <1>2, <2>1 DEF Shape, NothingBefore
<1>3. ASSUME NEW w \in Workers, TakeJob(w) \/ Crash(w) PROVE Shape'
  BY <1>0, <1>2, <1>3, TakeJobShape DEF TakeJob, Crash
<1>4. ASSUME NEW h \in Handlers, Pipeline(h) \/ AgentEvent(h) \/ Abort(h) \/ \E m \in Messages : Receive(h, m)
      PROVE  Shape'
  <2>1. UNCHANGED executed
    BY <1>4 DEF Pipeline, StartRun, Submit, EndDispatch, ListWaiting, ResumeNext, EndResume, AgentEvent, Abort, Receive
  <2>2. QED BY <1>0, <1>2, <1>4, <2>1, HandlerShape
<1>5. ASSUME UNCHANGED <<active, frame, handler, executed>> PROVE Shape'
  <2>1. NothingBefore'
    BY <1>2, <1>5
  <2>2. (\A h \in Handlers : Apart(h)') /\ \A w \in Workers : Match(w)'
    BY <1>5 DEF Shape, Apart, Match
  <2>3. QED BY <1>0, <2>1, <2>2 DEF Shape
<1>6. QED
  BY <1>1, <1>3, <1>4, <1>5 DEF Next, FailStale, ReadStale, UpdateRule, DeleteRule, vars

LEMMA ShapeInitially == Init => Shape
<1> SUFFICES ASSUME Init PROVE Shape
  OBVIOUS
<1>1. /\ \A h \in Handlers : Apart(h)
      /\ \A w \in Workers : Match(w)
  BY DEF Init, Apart, Match, IdleHandler, IdleFrame, Threads
<1>2. NothingBefore
  BY DEF Init, NothingBefore
<1>3. QED BY <1>1, <1>2, BudgetInitially DEF Shape

-----------------------------------------------------------------------------
(* The weight is kept.                                                       *)

LEMMA AllowanceIs ==
  ASSUME Inv, Inv', Shape, Shape'
  PROVE  /\ Allowance \in Nat /\ Allowance' \in Nat /\ Allowance >= 2 /\ Allowance' >= 2
         /\ UNCHANGED budget => Allowance' = Allowance
         /\ Spend("faults") => Allowance' = Allowance + 1
         /\ Spend("crashes") => Allowance' = Allowance + 2
         /\ \A e \in {"agent", "edits", "aborts"} : Spend(e) => Allowance' = Allowance
<1>0. /\ BudgetKept /\ BudgetKept' /\ {"crashes", "faults", "agent", "edits", "aborts"} \subseteq Events
  BY DEF Events, Shape
<1>1. /\ Used("crashes") \in Nat /\ Used("faults") \in Nat
      /\ Used("crashes")' \in Nat /\ Used("faults")' \in Nat
  BY <1>0, UsedIs, UsedNext
<1>2. ASSUME UNCHANGED budget PROVE Allowance' = Allowance
  BY <1>2 DEF Allowance, Used
<1>3. ASSUME Spend("faults") PROVE Allowance' = Allowance + 1
  <2>1. Used("faults")' = Used("faults") + 1 /\ Used("crashes")' = Used("crashes")
    BY <1>0, <1>3, SpendingKeeps
  <2>2. QED BY <1>1, <2>1 DEF Allowance
<1>4. ASSUME Spend("crashes") PROVE Allowance' = Allowance + 2
  <2>1. Used("crashes")' = Used("crashes") + 1 /\ Used("faults")' = Used("faults")
    BY <1>0, <1>4, SpendingKeeps
  <2>2. QED BY <1>1, <2>1 DEF Allowance
<1>5. ASSUME NEW e \in {"agent", "edits", "aborts"}, Spend(e) PROVE Allowance' = Allowance
  <2>1. Used("crashes")' = Used("crashes") /\ Used("faults")' = Used("faults")
    BY <1>0, <1>5, SpendingKeeps
  <2>2. QED BY <2>1 DEF Allowance
<1>6. QED BY <1>1, <1>2, <1>3, <1>4, <1>5 DEF Allowance

\* The other threads weigh what they weighed.
LEMMA OthersWeigh ==
  ASSUME NEW t \in Threads, Alone(t), NEW r \in Runs, NEW i \in Index
  PROVE  Going(r, i)' \ {t} = Going(r, i) \ {t} /\ Failing(r)' \ {t} = Failing(r) \ {t}
<1>1. ASSUME NEW u \in Threads \ {t}
      PROVE  (DueBy(frame[u], r, i)' <=> DueBy(frame[u], r, i)) /\ (Reading(u)' <=> Reading(u))
  <2>1. frame'[u] = frame[u] /\ (u \in Handlers => handler'[u] = handler[u])
    BY <1>1 DEF Alone
  <2>2. QED BY <2>1 DEF DueBy, Pre, Post, Reading, ReadsIn
<1>2. QED BY <1>1 DEF Going, Failing, Alone

\* Nothing more is to be resumed than before.
LEMMA ResumeLess ==
  ASSUME NEW t \in Threads, Alone(t), NEW r \in Runs, NEW i \in Index,
         Paused(r)' => Paused(r) /\ runs'[r].idx = runs[r].idx,
         t \in Handlers => \A s \in handler'[t].waiting : s.run = r => s \in handler[t].waiting,
         t \in Handlers /\ Reading(t)' /\ DueBy(frame[t], r, i)' => ToResume(r, i)
  PROVE  ToResume(r, i)' => ToResume(r, i)
<1>1. ASSUME NEW h \in Handlers, h # t
      PROVE  /\ handler'[h] = handler[h]
             /\ Reading(h)' /\ DueBy(frame[h], r, i)' => Reading(h) /\ DueBy(frame[h], r, i)
  <2>1. frame'[h] = frame[h] /\ handler'[h] = handler[h]
    BY <1>1 DEF Alone, Threads
  <2>2. QED BY <2>1 DEF DueBy, Pre, Post, Reading, ReadsIn
<1>2. CASE Paused(r)' /\ runs'[r].idx <= i
  BY <1>2 DEF ToResume
<1>3. ASSUME NEW h \in Handlers, NEW s \in handler'[h].waiting, s.run = r, s.idx <= i
      PROVE  ToResume(r, i)
  <2>1. s \in handler[h].waiting
    BY <1>1, <1>3
  <2>2. QED BY <1>3, <2>1 DEF ToResume
<1>4. ASSUME NEW h \in Handlers, Reading(h)', DueBy(frame[h], r, i)'
      PROVE  ToResume(r, i)
  BY <1>1, <1>4 DEF ToResume
<1>5. ToResume(r, i)' =>
        \/ Paused(r)' /\ runs'[r].idx <= i
        \/ \E h \in Handlers : \/ \E s \in handler'[h].waiting : s.run = r /\ s.idx <= i
                               \/ Reading(h)' /\ DueBy(frame[h], r, i)'
  BY DEF ToResume
<1>6. QED BY <1>2, <1>3, <1>4, <1>5

\* A run that the step is not about.
LEMMA Elsewhere ==
  ASSUME Inv, Inv', Shape, Shape', NEW r \in Runs, NEW i \in Index, Kept(r, i), NEW t \in Threads, Alone(t),
         frame[t] = IdleFrame \/ frame[t].run # r, frame'[t] = IdleFrame \/ frame'[t].run # r,
         Queued(r, i)' = Queued(r, i), executed'[r] = executed[r],
         Paused(r)' => Paused(r) /\ runs'[r].idx = runs[r].idx,
         t \in Handlers => \A s \in handler'[t].waiting : s.run = r => s \in handler[t].waiting,
         Allowance' >= Allowance
  PROVE  Kept(r, i)'
<1>1. ~DueBy(frame[t], r, i) /\ ~DueBy(frame[t], r, i)'
  BY DEF DueBy
<1>2. ToResume(r, i)' => ToResume(r, i)
  BY <1>1, ResumeLess
<1>3. Going(r, i)' \ {t} = Going(r, i) \ {t} /\ Failing(r)' \ {t} = Failing(r) \ {t}
  BY OthersWeigh
<1>4. t \notin Going(r, i) /\ t \notin Going(r, i)' /\ t \notin Failing(r) /\ t \notin Failing(r)'
  BY <1>1 DEF Going, Failing, IdleFrame
<1>5. executed'[r][i] = executed[r][i] /\ executed[r][i] \in Nat
  BY DEF Inv, TypeOK
<1>6. Share(t, t, r, i)' <= Share(t, t, r, i) + 0
  BY <1>2, <1>4, <1>5 DEF Share, Mine, N
<1>7. Allowance' >= Allowance + 0
  BY AllowanceIs
<1>8. QED BY <1>3, <1>6, <1>7, Weighed

\* A step of thread t about one run: what it adds to the share of that run is allowed.
LEMMA Here ==
  ASSUME Inv, Inv', Shape, Shape', WeightKept, NEW t \in Threads, Alone(t), NEW run \in Runs, NEW j, NEW d \in Nat,
         frame[t] = IdleFrame \/ frame[t].run = run, frame'[t] = IdleFrame \/ frame'[t].run = run,
         jobs' = jobs \/ (jobs' \ {j} = jobs \ {j} /\ j.run = run),
         \A r \in Runs \ {run} : executed'[r] = executed[r] /\ (Paused(r)' => Paused(r) /\ runs'[r].idx = runs[r].idx),
         t \in Handlers => \A s \in handler'[t].waiting : s.run # run => s \in handler[t].waiting,
         Allowance' >= Allowance + d,
         \A i \in Index : Share(j, t, run, i)' <= Share(j, t, run, i) + d
  PROVE  WeightKept'
<1>1. ASSUME NEW i \in Index PROVE Kept(run, i)'
  <2>1. Queued(run, i)' \ {j} = Queued(run, i) \ {j}
    BY DEF Queued
  <2>2. Going(run, i)' \ {t} = Going(run, i) \ {t} /\ Failing(run)' \ {t} = Failing(run) \ {t}
    BY OthersWeigh
  <2>3. Kept(run, i)
    BY DEF WeightKept
  <2>4. QED BY <2>1, <2>2, <2>3, Weighed
<1>2. ASSUME NEW r \in Runs, NEW i \in Index, r # run PROVE Kept(r, i)'
  <2>1. Queued(r, i)' = Queued(r, i)
    BY <1>2 DEF Queued
  <2>2. Kept(r, i) /\ Allowance' >= Allowance
    BY AllowanceIs DEF WeightKept
  <2>3. QED BY <1>2, <2>1, <2>2, Elsewhere
<1>3. QED BY <1>1, <1>2 DEF WeightKept

\* A thread that stops weighs nothing.
LEMMA Stopped ==
  ASSUME NEW t \in Threads, frame'[t] = IdleFrame, NEW r \in Runs, NEW i \in Index
  PROVE  /\ t \notin Going(r, i)' /\ t \notin Failing(r)' /\ ~Reading(t)'
BY DEF Going, Failing, Reading, ReadsIn, DueBy, IdleFrame

\* A rejection: what the call was about to do comes back as a job, or fails its caller.
LEMMA RejectWeighs ==
  ASSUME Inv, Inv', Shape, NEW t \in Threads, NEW run \in Runs, run = frame[t].run,
         frame[t].pc \notin {"idle", "submit", "done", "act", "advance", "enqueue"}, ~Post(frame[t]), Reject(t)
  PROVE  \E j : /\ jobs' = jobs \/ (jobs' \ {j} = jobs \ {j} /\ j.run = run)
                /\ \A i \in Index : Mine(j, t, run, i)' <= Mine(j, t, run, i) + 1
<1>0. frame[t] # IdleFrame
  BY CallType
<1>1. CASE frame'[t] # IdleFrame
  <2>1. UNCHANGED jobs /\ frame'[t].pc = "fail"
    BY <1>1, RejectIs
  <2>2. ASSUME NEW i \in Index PROVE t \notin Going(run, i)' /\ Queued(run, i)' = Queued(run, i)
    BY <2>1 DEF Going, DueBy, Pre, Post, Queued
  <2>3. \A i \in Index : Mine(t, t, run, i)' <= Mine(t, t, run, i) + 1
    BY <2>2 DEF Mine, N
  <2>4. QED BY <2>1, <2>3
<1>2. CASE frame'[t] = IdleFrame
  <2>1. /\ frame[t].depth = 0
        /\ IF t \in Workers THEN jobs' = jobs \union Retried(active[t]) ELSE UNCHANGED jobs
    BY <1>2, RejectIs
  <2>2. \A i \in Index : t \notin Going(run, i)' /\ t \notin Failing(run)'
    BY <1>2, Stopped
  <2>3. CASE UNCHANGED jobs
    <3>1. \A i \in Index : Queued(run, i)' = Queued(run, i)
      BY <2>3 DEF Queued
    <3>2. \A i \in Index : Mine(t, t, run, i)' <= Mine(t, t, run, i) + 1
      BY <2>2, <3>1 DEF Mine, N
    <3>3. QED BY <2>3, <3>2
  <2>4. CASE t \in Workers
    <3>1. active[t] \in Job /\ frame[t].run = active[t].run
          /\ (frame[t].pc \notin {"fail", "done"} => frame[t].idx = active[t].idx)
      BY <1>0, <2>1, <2>4 DEF Inv, TypeOK, WorkersHoldJobs, Shape, Match
    <3>2. PICK j : j = [active[t] EXCEPT !.attempts = @ + 1]
      OBVIOUS
    <3>3. j.run = run /\ j.idx = active[t].idx
      BY <3>1, <3>2 DEF Job
    <3>4. jobs' = jobs \/ jobs' = jobs \union {j}
      BY <2>1, <2>4, <3>2 DEF Retried
    <3>5. ASSUME NEW i \in Index, j \in Queued(run, i)'
          PROVE  t \in Going(run, i) \/ t \in Failing(run)
      <4>1. active[t].idx <= i
        BY <3>3, <3>5 DEF Queued
      <4>2. CASE frame[t].pc = "fail"
        BY <4>2 DEF Failing
      <4>3. CASE frame[t].pc # "fail"
        <5>1. frame[t].idx <= i /\ Pre(frame[t])
          <6>1. frame[t].pc \in PCs
            BY CallType DEF Frame, PCs
          <6>2. frame[t].idx \in Nat /\ Len(frame[t].steps) \in Nat
            BY CallType, TypesOfConstants
          <6>3. QED BY <3>1, <4>1, <4>3, <6>1, <6>2 DEF PCs, Pre, Post
        <5>2. ~Reading(t)
          BY <2>4, ConstantsAssumption DEF Reading
        <5>3. QED BY <1>0, <5>1, <5>2 DEF Going, DueBy
      <4>4. QED BY <4>2, <4>3
    <3>6. ASSUME NEW i \in Index PROVE Mine(j, t, run, i)' <= Mine(j, t, run, i) + 1
      BY <2>2, <3>5 DEF Mine, N
    <3>7. QED BY <3>3, <3>4, <3>6
  <2>5. QED BY <2>1, <2>3, <2>4
<1>3. QED BY <1>1, <1>2

\* The weight after a rejection, whose fault is counted.
LEMMA RejectKeeps ==
  ASSUME Inv, Inv', Shape, Shape', WeightKept, NEW t \in Threads, NEW run \in Runs, run = frame[t].run,
         frame[t].pc \notin {"idle", "submit", "done", "act", "advance", "enqueue"}, ~Post(frame[t]), Reject(t),
         UNCHANGED executed, Allowance' >= Allowance + 1,
         \A r \in Runs : Paused(r)' => Paused(r) /\ runs'[r].idx = runs[r].idx
  PROVE  WeightKept'
<1>1. PICK j : /\ jobs' = jobs \/ (jobs' \ {j} = jobs \ {j} /\ j.run = run)
               /\ \A i \in Index : Mine(j, t, run, i)' <= Mine(j, t, run, i) + 1
  BY RejectWeighs
<1>2. /\ Alone(t)
      /\ t \in Handlers => handler'[t].waiting \subseteq handler[t].waiting
      /\ frame'[t] = IdleFrame \/ (frame'[t].pc = "fail" /\ frame'[t].run = run)
  BY RejectIs
<1>3. ~Reading(t)'
  BY <1>2 DEF Reading, ReadsIn
<1>4. ASSUME NEW i \in Index PROVE Share(j, t, run, i)' <= Share(j, t, run, i) + 1
  <2>1. ToResume(run, i)' => ToResume(run, i)
    BY <1>2, <1>3, ResumeLess
  <2>2. N(ToResume(run, i))' <= N(ToResume(run, i)) /\ N(ToResume(run, i)) \in Nat /\ N(ToResume(run, i))' \in Nat
    BY <2>1 DEF N
  <2>3. executed'[run][i] = executed[run][i] /\ executed[run][i] \in Nat
    BY DEF Inv, TypeOK
  <2>4. Mine(j, t, run, i)' <= Mine(j, t, run, i) + 1 /\ Mine(j, t, run, i) \in Nat /\ Mine(j, t, run, i)' \in Nat
    BY <1>1 DEF Mine, N
  <2>5. QED BY <2>2, <2>3, <2>4 DEF Share
<1>5. QED BY <1>1, <1>2, <1>4, Here

\* A call that goes on with no more to do than before.
LEMMA MovesKeep ==
  ASSUME Inv, Inv', Shape, Shape', WeightKept, NEW t \in Threads, Moves(t), UNCHANGED <<jobs, executed>>,
         NEW d \in Nat, Allowance' >= Allowance + d,
         Pre(frame[t])' => Pre(frame[t]), Post(frame[t])' => Pre(frame[t]) \/ Post(frame[t]),
         Reading(t)' => Reading(t), Reading(t) => Reading(t)' \/ (~Pre(frame[t])' /\ ~Post(frame[t])'),
         frame'[t].pc = "fail" => d >= 1,
         \A r \in Runs : Paused(r)' => Paused(r) /\ runs'[r].idx = runs[r].idx
  PROVE  WeightKept'
<1>1. /\ Alone(t) /\ frame'[t].run = frame[t].run /\ frame'[t].idx = frame[t].idx
      /\ frame[t] # IdleFrame /\ frame'[t] # IdleFrame /\ UNCHANGED handler
  BY DEF Moves
<1>2. frame[t].run \in Runs /\ frame[t].idx \in Nat
  BY <1>1, TypesOfConstants DEF Inv, TypeOK, Frame
<1>3. PICK run \in Runs : run = frame[t].run
  BY <1>2
<1>4. ASSUME NEW i \in Index PROVE Share(t, t, run, i)' <= Share(t, t, run, i) + d
  <2>1. i \in Nat
    BY TypesOfConstants
  <2>2. DueBy(frame[t], run, i)' => DueBy(frame[t], run, i) /\ (Pre(frame[t])' \/ Post(frame[t])')
    BY <1>1, <1>2, <2>1 DEF DueBy
  <2>3. t \in Going(run, i)' => t \in Going(run, i)
    BY <2>2 DEF Going
  <2>4. t \in Failing(run)' => d >= 1
    BY DEF Failing
  <2>5. Queued(run, i)' = Queued(run, i)
    BY DEF Queued
  <2>6. ToResume(run, i)' => ToResume(run, i)
    <3>1. t \in Handlers /\ Reading(t)' /\ DueBy(frame[t], run, i)' => ToResume(run, i)
      BY <2>2 DEF ToResume
    <3>2. QED BY <1>1, <3>1, ResumeLess
  <2>7. executed'[run][i] = executed[run][i] /\ executed[run][i] \in Nat
    BY DEF Inv, TypeOK
  <2>8. QED BY <2>3, <2>4, <2>5, <2>6, <2>7 DEF Share, Mine, N
<1>5. QED BY <1>1, <1>3, <1>4, Here

LEMMA LoadKeeps == ASSUME Inv, Inv', Shape, Shape', WeightKept, NEW t \in Threads, Load(t) PROVE WeightKept'
<1>1. /\ Moves(t) /\ frame[t].pc = "load"
      /\ \/ frame'[t].pc = "done"
         \/ frame'[t].pc \in {"start", "complete"} /\ Pre(frame[t])' /\ ~Post(frame[t])'
  BY LoadIs
<1>2. UNCHANGED <<jobs, executed, runs, budget>>
  BY DEF Load
<1>3. Pre(frame[t]) /\ ~Post(frame[t])' /\ (frame'[t].pc = "done" => ~Pre(frame[t])')
  BY <1>1 DEF Pre, Post
<1>4. /\ Reading(t)' => Reading(t)
      /\ Reading(t) => Reading(t)' \/ (~Pre(frame[t])' /\ ~Post(frame[t])')
  BY <1>1, <1>3 DEF Reading, ReadsIn, Moves
<1>5. Allowance' >= Allowance + 0
  BY <1>2, AllowanceIs
<1>6. \A r \in Runs : Paused(r)' => Paused(r) /\ runs'[r].idx = runs[r].idx
  BY <1>2 DEF Paused, Exists
<1>7. frame'[t].pc # "fail"
  BY <1>1
<1>8. QED BY <1>1, <1>2, <1>3, <1>4, <1>5, <1>6, <1>7, MovesKeep

\* A call outside of the resumption that ends, fails or goes on to the next step.
LEMMA GoesOnKeeps ==
  ASSUME Inv, Inv', Shape, Shape', WeightKept, NEW t \in Threads, NEW pc \in {"done", "fail", "complete", "enqueue"},
         frame[t].pc \notin {"idle", "submit", "done", "start"}, Goto(t, pc), UNCHANGED <<jobs, executed>>,
         pc \in {"complete", "enqueue"} => frame[t].pc = "advance",
         IF pc = "fail" THEN Spend("faults") ELSE UNCHANGED budget,
         \A r \in Runs : Paused(r)' => Paused(r) /\ runs'[r].idx = runs[r].idx
  PROVE  WeightKept'
<1>1. Moves(t) /\ frame'[t].pc = pc /\ frame'[t].steps = frame[t].steps
  BY GotoIs DEF PCs
<1>2. PICK d \in Nat : Allowance' >= Allowance + d /\ (pc = "fail" => d >= 1)
  <2>1. CASE pc = "fail"
    BY <2>1, AllowanceIs
  <2>2. CASE pc # "fail"
    BY <2>2, AllowanceIs
  <2>3. QED BY <2>1, <2>2
<1>3. pc \in {"complete", "enqueue"} => /\ frame[t].idx \in Nat /\ frame[t].idx < Len(frame[t].steps)
                                        /\ Len(frame[t].steps) \in Nat
  BY FramesOK, TypesOfConstants DEF FrameOK
<1>4. ~Pre(frame[t])' /\ (Post(frame[t])' => Post(frame[t]))
  <2>1. frame'[t].idx = frame[t].idx
    BY <1>1 DEF Moves
  <2>2. ~Pre(frame[t])'
    BY <1>1, <1>3, <2>1 DEF Pre
  <2>3. Post(frame[t])' => Post(frame[t])
    BY <1>1 DEF Post
  <2>4. QED BY <2>2, <2>3
<1>5. ~Reading(t)' /\ (Reading(t) => ~Post(frame[t])')
  BY <1>1, <1>4 DEF Reading, ReadsIn, Pre, Post
<1>6. QED BY <1>1, <1>2, <1>4, <1>5, MovesKeep

\* A row that goes on without a pause, and is paused no longer.
LEMMA Unpaused ==
  ASSUME Inv, NEW r \in Runs, Exists(r), NEW s \in Status \ {"WAITING_FOR_REPLY"},
         \/ \E i \in Index : runs' = [runs EXCEPT ![r].status = s, ![r].idx = i]
         \/ runs' = [runs EXCEPT ![r].status = s]
  PROVE  ~Paused(r)' /\ \A q \in Runs : Paused(q)' => Paused(q) /\ runs'[q].idx = runs[q].idx
<1>1. \A q \in Runs : Paused(q)' => Paused(q) /\ runs'[q].idx = runs[q].idx
  BY NotPaused
<1>2. 0 \in Index
  BY TypesOfConstants
<1>3. runs'[r].status = s
  BY <1>2, WrittenRowKeeps
<1>4. QED BY <1>1, <1>3 DEF Paused

\* Start ends the pause in which the run was: who resumes it alone goes on with it.
LEMMA StartKeeps ==
  ASSUME Inv, Inv', Shape, Shape', OneHandler, WeightKept, NEW t \in Threads, Start(t) PROVE WeightKept'
<1>1. PICK run \in Runs, idx \in Index : run = frame[t].run /\ idx = frame[t].idx /\ Exists(run)
  BY CallType DEF Start
<1>2. /\ frame[t].pc = "start" /\ frame[t] # IdleFrame /\ UNCHANGED executed
      /\ runs' = [runs EXCEPT ![run].status = "RUNNING", ![run].idx = idx]
      /\ (Goto(t, "act") /\ UNCHANGED <<jobs, budget>>) \/ (Spend("faults") /\ Reject(t))
  BY <1>1, CallType DEF Start
<1>3. ~Paused(run)' /\ \A r \in Runs : Paused(r)' => Paused(r) /\ runs'[r].idx = runs[r].idx
  BY <1>1, <1>2, Unpaused DEF Status, Settled
<1>4. CASE Spend("faults") /\ Reject(t)
  <2>1. ~Post(frame[t]) /\ Allowance' >= Allowance + 1
    BY <1>2, <1>4, AllowanceIs DEF Post
  <2>2. QED BY <1>1, <1>2, <1>3, <1>4, <2>1, RejectKeeps
<1>5. CASE Goto(t, "act") /\ UNCHANGED <<jobs, budget>>
  <2>1. Moves(t) /\ frame'[t].pc = "act"
    BY <1>2, <1>5, GotoIs DEF PCs
  <2>2. Alone(t) /\ frame'[t].run = run /\ frame'[t].idx = idx /\ frame'[t] # IdleFrame /\ UNCHANGED handler
    BY <1>1, <2>1 DEF Moves
  <2>3. ASSUME NEW i \in Index PROVE Share(t, t, run, i)' <= Share(t, t, run, i) + 0
    <3>1. DueBy(frame[t], run, i)' => DueBy(frame[t], run, i)
      BY <1>1, <1>2, <2>1, <2>2 DEF DueBy, Pre, Post
    <3>2. Queued(run, i)' = Queued(run, i) /\ t \notin Failing(run)'
      BY <1>5, <2>1 DEF Queued, Failing
    <3>3. ~Reading(t)'
      BY <2>1 DEF Reading, ReadsIn
    <3>4. ToResume(run, i)' => ToResume(run, i)
      BY <1>3, <2>2, <3>3, ResumeLess
    <3>5. executed'[run][i] = executed[run][i] /\ executed[run][i] \in Nat
      BY <1>2 DEF Inv, TypeOK
    <3>6. CASE Reading(t)
      <4>1. t \in Handlers /\ \A h \in Handlers : h = t
        BY <3>6 DEF Reading, OneHandler
      <4>2. \A s \in handler[t].waiting : s.run # run
        BY <1>1, <1>2, <4>1 DEF Shape, Apart
      <4>3. ~ToResume(run, i)'
        BY <1>3, <2>2, <3>3, <4>1, <4>2 DEF ToResume
      <4>4. t \in Going(run, i)' => ToResume(run, i)
        BY <3>1, <3>6, <4>1 DEF Going, ToResume
      <4>5. QED BY <3>2, <3>5, <4>3, <4>4 DEF Share, Mine, N
    <3>7. CASE ~Reading(t)
      <4>1. t \in Going(run, i)' => t \in Going(run, i)
        BY <3>1, <3>7 DEF Going
      <4>2. QED BY <3>2, <3>4, <3>5, <4>1 DEF Share, Mine, N
    <3>8. QED BY <3>6, <3>7
  <2>4. Allowance' >= Allowance + 0
    BY <1>5, AllowanceIs
  <2>5. QED BY <1>1, <1>2, <1>3, <1>5, <2>2, <2>3, <2>4, Here
<1>6. QED BY <1>2, <1>4, <1>5

LEMMA ActKeeps == ASSUME Inv, Inv', Shape, Shape', WeightKept, NEW t \in Threads, Act(t) PROVE WeightKept'
<1>1. PICK run \in Runs, idx \in Index : run = frame[t].run /\ idx = frame[t].idx /\ Exists(run)
  BY CallType DEF Act
<1>2. /\ frame[t].pc = "act" /\ frame[t] # IdleFrame /\ UNCHANGED jobs
      /\ executed' = [executed EXCEPT ![run][idx] = @ + 1]
      /\ UNCHANGED runs \/ runs' = [runs EXCEPT ![run].status = "WAITING"]
  BY <1>1, CallType DEF Act
<1>3. \A r \in Runs : Paused(r)' => Paused(r) /\ runs'[r].idx = runs[r].idx
  <2>1. CASE UNCHANGED runs
    BY <2>1 DEF Paused, Exists
  <2>2. CASE runs' = [runs EXCEPT ![run].status = "WAITING"]
    BY <1>1, <2>2, Unpaused DEF Status
  <2>3. QED BY <1>2, <2>1, <2>2
<1>4. PICK pc \in {"enqueue", "advance", "fail"} : Goto(t, pc) /\ IF pc = "fail" THEN Spend("faults") ELSE UNCHANGED budget
  BY DEF Act
<1>5. Moves(t) /\ frame'[t].pc = pc
  BY <1>2, <1>4, GotoIs DEF PCs
<1>6. Alone(t) /\ frame'[t].run = run /\ frame'[t].idx = idx /\ frame'[t] # IdleFrame /\ UNCHANGED handler
  BY <1>1, <1>5 DEF Moves
<1>7. PICK d \in Nat : Allowance' >= Allowance + d /\ (pc = "fail" => d = 1)
  <2>1. CASE pc = "fail"
    BY <1>4, <2>1, AllowanceIs
  <2>2. CASE pc # "fail"
    BY <1>4, <2>2, AllowanceIs
  <2>3. QED BY <2>1, <2>2
<1>8. ASSUME NEW i \in Index PROVE Share(t, t, run, i)' <= Share(t, t, run, i) + d
  <2>1. i \in Nat /\ idx \in Nat
    BY TypesOfConstants
  <2>2. Queued(run, i)' = Queued(run, i) /\ (t \in Failing(run)' => pc = "fail")
    BY <1>2, <1>5 DEF Queued, Failing
  <2>3. ~Reading(t)' /\ ~Reading(t)
    BY <1>2, <1>5 DEF Reading, ReadsIn, Pre
  <2>4. ToResume(run, i)' => ToResume(run, i)
    BY <1>3, <1>6, <2>3, ResumeLess
  <2>5. t \in Going(run, i)' => idx < i
    BY <1>5, <1>6 DEF Going, DueBy, Pre, Post
  <2>6. idx <= i => t \in Going(run, i)
    BY <1>1, <1>2, <2>3 DEF Going, DueBy, Pre
  <2>7. PICK e \in Nat : e = executed[run][i]
    BY DEF Inv, TypeOK
  <2>8. executed'[run][i] = IF i = idx THEN e + 1 ELSE e
    BY <1>2, <2>7 DEF Inv, TypeOK
  <2>9. CASE i = idx
    <3>1. t \in Going(run, i) /\ t \notin Going(run, i)'
      BY <2>1, <2>5, <2>6, <2>9
    <3>2. QED BY <1>7, <2>2, <2>4, <2>7, <2>8, <2>9, <3>1 DEF Share, Mine, N
  <2>10. CASE i # idx
    <3>1. t \in Going(run, i)' => t \in Going(run, i)
      BY <2>1, <2>5, <2>6
    <3>2. QED BY <1>7, <2>2, <2>4, <2>7, <2>8, <2>10, <3>1 DEF Share, Mine, N
  <2>11. QED BY <2>9, <2>10
<1>9. \A r \in Runs \ {run} : executed'[r] = executed[r]
  BY <1>2 DEF Inv, TypeOK
<1>10. QED BY <1>1, <1>2, <1>3, <1>6, <1>7, <1>8, <1>9, Here

LEMMA AdvanceKeeps == ASSUME Inv, Inv', Shape, Shape', WeightKept, NEW t \in Threads, Advance(t) PROVE WeightKept'
<1>1. PICK run \in Runs, idx \in Index, next \in Index : /\ run = frame[t].run /\ idx = frame[t].idx
                                                        /\ next = idx + 1 /\ Exists(run)
  BY CallType, NextIndex DEF Advance
<1>2. /\ frame[t].pc = "advance" /\ frame[t] # IdleFrame /\ UNCHANGED <<jobs, executed, budget>>
      /\ \/ \E pc \in {"complete", "enqueue"} : Goto(t, pc) /\ UNCHANGED runs
         \/ Pause(run, next) /\ Goto(t, "done")
  BY <1>1, CallType DEF Advance
<1>3. CASE \E pc \in {"complete", "enqueue"} : Goto(t, pc) /\ UNCHANGED runs
  <2>1. \A r \in Runs : Paused(r)' => Paused(r) /\ runs'[r].idx = runs[r].idx
    BY <1>3 DEF Paused, Exists
  <2>2. QED BY <1>2, <1>3, <2>1, GoesOnKeeps
<1>4. CASE Pause(run, next) /\ Goto(t, "done")
  <2>1. Moves(t) /\ frame'[t].pc = "done"
    BY <1>2, <1>4, GotoIs DEF PCs
  <2>2. Alone(t) /\ frame'[t].run = run /\ UNCHANGED handler
    BY <1>1, <2>1 DEF Moves
  <2>3. runs'[run].idx = next /\ \A r \in Runs \ {run} : runs'[r] = runs[r]
    <3>2. runs' = [runs EXCEPT ![run].status = "WAITING_FOR_REPLY", ![run].idx = next]
      BY <1>4 DEF Pause
    <3>3. runs \in [Runs -> Run \union {NoRun}] /\ runs[run] \in Run
      BY <1>1 DEF Inv, TypeOK, Exists, NoRun
    <3>4. QED BY <3>2, <3>3 DEF Run
  <2>4. \A r \in Runs \ {run} : Paused(r)' => Paused(r) /\ runs'[r].idx = runs[r].idx
    BY <2>3 DEF Paused, Exists
  <2>5. ASSUME NEW i \in Index PROVE Share(t, t, run, i)' <= Share(t, t, run, i) + 0
    <3>1. i \in Nat /\ idx \in Nat /\ next \in Nat
      BY TypesOfConstants
    <3>2. Queued(run, i)' = Queued(run, i) /\ t \notin Failing(run)' /\ t \notin Going(run, i)'
      BY <1>2, <2>1 DEF Queued, Failing, Going, DueBy, Pre, Post
    <3>3. next <= i => t \in Going(run, i)
      BY <1>1, <1>2, <3>1 DEF Going, DueBy, Post, Reading, ReadsIn
    <3>4. ToResume(run, i)' => ToResume(run, i) \/ next <= i
      <4>1. \A h \in Handlers : Reading(h)' /\ DueBy(frame[h], run, i)' => Reading(h) /\ DueBy(frame[h], run, i)
        <5>1. ~Reading(t)'
          BY <2>1 DEF Reading, ReadsIn
        <5>2. \A h \in Handlers \ {t} : frame'[h] = frame[h] /\ handler'[h] = handler[h]
          BY <2>2 DEF Alone, Threads
        <5>3. QED BY <5>1, <5>2 DEF Reading, ReadsIn, DueBy, Pre, Post
      <4>2. QED BY <2>2, <2>3, <4>1 DEF ToResume
    <3>5. executed'[run][i] = executed[run][i] /\ executed[run][i] \in Nat
      BY <1>2 DEF Inv, TypeOK
    <3>6. QED BY <3>2, <3>3, <3>4, <3>5 DEF Share, Mine, N
  <2>6. Allowance' >= Allowance + 0
    BY <1>2, AllowanceIs
  <2>7. QED BY <1>1, <1>2, <2>2, <2>4, <2>5, <2>6, Here
<1>5. QED BY <1>2, <1>3, <1>4

LEMMA EnqueueKeeps == ASSUME Inv, Inv', Shape, Shape', WeightKept, NEW t \in Threads, Enqueue(t) PROVE WeightKept'
<1>1. PICK run \in Runs, idx \in Index, next \in Index : /\ run = frame[t].run /\ idx = frame[t].idx
                                                        /\ next = idx + 1 /\ Exists(run)
  BY CallType, NextIndex DEF Enqueue
<1>2. /\ frame[t].pc = "enqueue" /\ frame[t] # IdleFrame /\ frame[t].depth \in Nat
      /\ UNCHANGED <<runs, executed, budget>>
  BY CallType DEF Enqueue
<1>3. \A r \in Runs : Paused(r)' => Paused(r) /\ runs'[r].idx = runs[r].idx
  BY <1>2 DEF Paused, Exists
<1>4. Allowance' >= Allowance + 0
  BY <1>2, AllowanceIs
<1>5. \A i \in Index : next <= i => t \in Going(run, i)
  <2>1. \A i \in Index : i \in Nat /\ idx \in Nat /\ next \in Nat
    BY TypesOfConstants
  <2>2. QED BY <1>1, <1>2, <2>1 DEF Going, DueBy, Post, Reading, ReadsIn
<1>6. CASE UNCHANGED jobs /\ To(t, Call(frame[t].run, frame[t].idx + 1, frame[t].depth + 1))
  <2>1. PICK g : g = Call(frame[t].run, frame[t].idx + 1, frame[t].depth + 1)
    OBVIOUS
  <2>2. frame'[t] = g /\ (\A u \in Threads : u # t => frame'[u] = frame[u]) /\ UNCHANGED <<active, handler>>
    BY <1>6, <2>1 DEF To, Inv, TypeOK
  <2>3. g.pc = "load" /\ g.run = run /\ g.idx = next /\ g.depth # 0 /\ g # IdleFrame
    BY <1>1, <1>2, <2>1 DEF Call, IdleFrame
  <2>4. Alone(t)
    BY <2>2 DEF Alone, Threads
  <2>5. ASSUME NEW i \in Index PROVE Share(t, t, run, i)' <= Share(t, t, run, i) + 0
    <3>1. Queued(run, i)' = Queued(run, i) /\ t \notin Failing(run)' /\ ~Reading(t)'
      BY <1>6, <2>2, <2>3 DEF Queued, Failing, Reading, ReadsIn
    <3>2. t \in Going(run, i)' => t \in Going(run, i)
      BY <1>5, <2>2, <2>3 DEF Going, DueBy, Pre, Post
    <3>3. ToResume(run, i)' => ToResume(run, i)
      BY <1>3, <2>2, <2>4, <3>1, ResumeLess
    <3>4. executed'[run][i] = executed[run][i] /\ executed[run][i] \in Nat
      BY <1>2 DEF Inv, TypeOK
    <3>5. QED BY <3>1, <3>2, <3>3, <3>4 DEF Share, Mine, N
  <2>6. QED BY <1>1, <1>2, <1>3, <1>4, <1>6, <2>2, <2>3, <2>4, <2>5, Here
<1>7. CASE Goto(t, "done") /\ \E id \in JobIds : Push(id, run, next)
  <2>1. Moves(t) /\ frame'[t].pc = "done"
    BY <1>2, <1>7, GotoIs DEF PCs
  <2>2. Alone(t) /\ frame'[t].run = run /\ UNCHANGED handler
    BY <1>1, <2>1 DEF Moves
  <2>3. PICK j : jobs' = jobs \union {j} /\ j.run = run /\ j.idx = next
    <3>1. PICK id \in JobIds : Push(id, run, next)
      BY <1>7
    <3>2. PICK j : j = [id |-> id, run |-> run, idx |-> next, attempts |-> 0, stalled |-> FALSE]
      OBVIOUS
    <3>3. jobs' = jobs \union {j} /\ j.run = run /\ j.idx = next
      BY <3>1, <3>2 DEF Push
    <3>4. QED BY <3>3
  <2>4. ASSUME NEW i \in Index PROVE Share(j, t, run, i)' <= Share(j, t, run, i) + 0
    <3>1. t \notin Failing(run)' /\ t \notin Going(run, i)' /\ ~Reading(t)'
      BY <2>1 DEF Failing, Going, DueBy, Pre, Post, Reading, ReadsIn
    <3>2. j \in Queued(run, i)' => t \in Going(run, i)
      BY <1>5, <2>3 DEF Queued
    <3>3. ToResume(run, i)' => ToResume(run, i)
      BY <1>3, <2>2, <3>1, ResumeLess
    <3>4. executed'[run][i] = executed[run][i] /\ executed[run][i] \in Nat
      BY <1>2 DEF Inv, TypeOK
    <3>5. QED BY <3>1, <3>2, <3>3, <3>4 DEF Share, Mine, N
  <2>5. jobs' \ {j} = jobs \ {j}
    BY <2>3
  <2>6. QED BY <1>1, <1>2, <1>3, <1>4, <2>2, <2>3, <2>4, <2>5, Here
<1>8. QED BY <1>1, <1>6, <1>7 DEF Enqueue

\* Complete, Fail, Fault and Return.
LEMMA EndsKeep ==
  ASSUME Inv, Inv', Shape, Shape', WeightKept, NEW t \in Threads, Complete(t) \/ Fail(t) \/ Fault(t)
  PROVE  WeightKept'
<1>1. PICK run \in Runs : run = frame[t].run /\ Exists(run) /\ frame[t] # IdleFrame
  BY CallType DEF Complete, Fail, Fault
<1>2. /\ frame[t].pc \notin {"idle", "submit", "done"} /\ UNCHANGED executed
      /\ \/ \E s \in {"COMPLETED", "FAILED"} : runs' = [runs EXCEPT ![run].status = s]
         \/ UNCHANGED runs
  BY <1>1 DEF Complete, Fail, Fault
<1>3. \A r \in Runs : Paused(r)' => Paused(r) /\ runs'[r].idx = runs[r].idx
  <2>1. CASE UNCHANGED runs
    BY <2>1 DEF Paused, Exists
  <2>2. ASSUME NEW s \in {"COMPLETED", "FAILED"}, runs' = [runs EXCEPT ![run].status = s]
        PROVE  \A r \in Runs : Paused(r)' => Paused(r) /\ runs'[r].idx = runs[r].idx
    <3>1. s \in Status \ {"WAITING_FOR_REPLY"}
      BY DEF Status, Settled
    <3>2. QED BY <1>1, <2>2, <3>1, Unpaused
  <2>3. QED BY <1>2, <2>1, <2>2
<1>4. \/ Goto(t, "done") /\ UNCHANGED <<jobs, budget>> /\ frame[t].pc # "start"
      \/ Goto(t, "fail") /\ UNCHANGED jobs /\ Spend("faults") /\ frame[t].pc # "start"
      \/ /\ Reject(t) /\ Spend("faults")
         /\ frame[t].pc \notin {"act", "advance", "enqueue"} /\ ~Post(frame[t])
  <2>1. CASE Complete(t)
    BY <2>1 DEF Complete, InTry, Post
  <2>2. CASE Fail(t)
    BY <2>2 DEF Fail, Post
  <2>3. CASE Fault(t)
    BY <2>3 DEF Fault, InTry, Post
  <2>4. QED BY <2>1, <2>2, <2>3
<1>5. CASE Goto(t, "done") /\ UNCHANGED <<jobs, budget>> /\ frame[t].pc # "start"
  BY <1>2, <1>3, <1>5, GoesOnKeeps
<1>6. CASE Goto(t, "fail") /\ UNCHANGED jobs /\ Spend("faults") /\ frame[t].pc # "start"
  BY <1>2, <1>3, <1>6, GoesOnKeeps
<1>7. CASE /\ Reject(t) /\ Spend("faults")
           /\ frame[t].pc \notin {"act", "advance", "enqueue"} /\ ~Post(frame[t])
  <2>1. Allowance' >= Allowance + 1
    BY <1>7, AllowanceIs
  <2>2. QED BY <1>1, <1>2, <1>3, <1>7, <2>1, RejectKeeps
<1>8. QED BY <1>4, <1>5, <1>6, <1>7

\* Nothing more is to come for any run, and the thread at work is in no call.
LEMMA StopsKeep ==
  ASSUME Inv, Inv', Shape, Shape', WeightKept, NEW t \in Threads, Alone(t), frame'[t] = IdleFrame,
         UNCHANGED <<jobs, executed>>, Allowance' >= Allowance,
         \A r \in Runs, i \in Index : ToResume(r, i)' => ToResume(r, i)
  PROVE  WeightKept'
<1>1. Allowance' >= Allowance + 0
  BY AllowanceIs
<1>2. ASSUME NEW r \in Runs, NEW i \in Index PROVE Kept(r, i)'
  <2>1. Kept(r, i) /\ Queued(r, i)' \ {t} = Queued(r, i) \ {t} /\ Queued(r, i)' = Queued(r, i)
    BY DEF WeightKept, Queued
  <2>2. Going(r, i)' \ {t} = Going(r, i) \ {t} /\ Failing(r)' \ {t} = Failing(r) \ {t}
    BY OthersWeigh
  <2>3. t \notin Going(r, i)' /\ t \notin Failing(r)'
    BY Stopped
  <2>4. executed'[r][i] = executed[r][i] /\ executed[r][i] \in Nat
    BY DEF Inv, TypeOK
  <2>5. Share(t, t, r, i)' <= Share(t, t, r, i) + 0
    BY <2>1, <2>3, <2>4 DEF Share, Mine, N
  <2>6. QED BY <1>1, <2>1, <2>2, <2>5, Weighed
<1>3. QED BY <1>2 DEF WeightKept

LEMMA ReturnKeeps == ASSUME Inv, Inv', Shape, Shape', WeightKept, NEW t \in Threads, Return(t) PROVE WeightKept'
<1>1. /\ frame[t].pc = "done" /\ frame' = [frame EXCEPT ![t] = IdleFrame]
      /\ active' = [w \in Workers |-> IF w = t THEN NoJob ELSE active[w]]
      /\ handler' = [h \in Handlers |->
           IF h = t /\ handler[h].stage = "resuming"
           THEN [handler[h] EXCEPT !.skip = @ \union {runs[frame[t].run].rule}]
           ELSE handler[h]]
      /\ UNCHANGED <<runs, jobs, executed, budget>>
  BY DEF Return
<1>2. frame'[t] = IdleFrame /\ \A u \in Threads : u # t => frame'[u] = frame[u]
  BY <1>1, FrameReplaced
<1>3. \A h \in Handlers : /\ handler'[h].waiting = handler[h].waiting
                          /\ h # t => handler'[h] = handler[h]
  BY <1>1 DEF Inv, TypeOK, Handler
<1>4. Alone(t)
  BY <1>1, <1>2, <1>3 DEF Alone
<1>5. ~Reading(t)'
  BY <1>2, Stopped DEF Reading, ReadsIn
<1>6. \A r \in Runs : Paused(r)' => Paused(r) /\ runs'[r].idx = runs[r].idx
  BY <1>1 DEF Paused, Exists
<1>7. ASSUME NEW r \in Runs, NEW i \in Index PROVE ToResume(r, i)' => ToResume(r, i)
  BY <1>3, <1>4, <1>5, <1>6, ResumeLess
<1>8. Allowance' >= Allowance
  BY <1>1, AllowanceIs
<1>9. QED BY <1>1, <1>2, <1>4, <1>7, <1>8, StopsKeep

LEMMA TakeJobKeeps == ASSUME Inv, Inv', Shape, Shape', WeightKept, NEW w \in Workers, TakeJob(w) PROVE WeightKept'
<1>0. w \in Threads /\ w \notin Handlers
  BY ConstantsAssumption DEF Threads
<1>1. PICK j \in jobs : /\ jobs' = jobs \ {j} /\ active' = [active EXCEPT ![w] = j]
                        /\ frame' = [frame EXCEPT ![w] = Call(j.run, j.idx, 0)]
  BY DEF TakeJob
<1>2. active[w] = NoJob /\ UNCHANGED <<runs, handler, executed, budget>> /\ j \in Job
  BY DEF TakeJob, Inv, TypeOK
<1>3. frame[w] = IdleFrame
  BY <1>2 DEF Inv, WorkersHoldJobs
<1>4. PICK run \in Runs, idx \in Index : run = j.run /\ idx = j.idx
  BY <1>2 DEF Job
<1>5. PICK g : g = Call(j.run, j.idx, 0)
  OBVIOUS
<1>6. g.pc = "load" /\ g.run = run /\ g.idx = idx /\ g # IdleFrame
  BY <1>4, <1>5 DEF Call, IdleFrame
<1>7. frame'[w] = g /\ Alone(w)
  BY <1>0, <1>1, <1>2, <1>5 DEF Inv, TypeOK, Alone
<1>8. \A r \in Runs : Paused(r)' => Paused(r) /\ runs'[r].idx = runs[r].idx
  BY <1>2 DEF Paused, Exists
<1>9. ASSUME NEW i \in Index PROVE Share(j, w, run, i)' <= Share(j, w, run, i) + 0
  <2>1. j \notin Queued(run, i)' /\ w \notin Failing(run)'
    BY <1>1, <1>6, <1>7 DEF Queued, Failing
  <2>2. w \in Going(run, i)' => j \in Queued(run, i)
    BY <1>1, <1>4, <1>6, <1>7 DEF Going, DueBy, Pre, Post, Queued
  <2>3. ToResume(run, i)' => ToResume(run, i)
    BY <1>0, <1>7, <1>8, ResumeLess
  <2>4. executed'[run][i] = executed[run][i] /\ executed[run][i] \in Nat
    BY <1>2 DEF Inv, TypeOK
  <2>5. QED BY <2>1, <2>2, <2>3, <2>4 DEF Share, Mine, N
<1>10. Allowance' >= Allowance + 0
  BY <1>2, AllowanceIs
<1>11. jobs' \ {j} = jobs \ {j} /\ j.run = run
  BY <1>1, <1>4
<1>12. QED BY <1>0, <1>2, <1>3, <1>6, <1>7, <1>8, <1>9, <1>10, <1>11, Here

LEMMA CrashKeeps == ASSUME Inv, Inv', Shape, Shape', WeightKept, NEW w \in Workers, Crash(w) PROVE WeightKept'
<1>0. w \in Threads /\ w \notin Handlers
  BY ConstantsAssumption DEF Threads
<1>1. /\ active[w] \in Job /\ active[w] # NoJob /\ Spend("crashes")
      /\ active' = [active EXCEPT ![w] = NoJob] /\ frame' = [frame EXCEPT ![w] = IdleFrame]
      /\ UNCHANGED <<runs, handler, executed>>
  BY DEF Crash, Inv, TypeOK
<1>2. frame[w] # IdleFrame /\ frame[w].run = active[w].run
  BY <1>1 DEF Shape, Match
<1>3. PICK run \in Runs : run = frame[w].run /\ run = active[w].run
  BY <1>1, <1>2 DEF Job
<1>4. PICK j : j = [active[w] EXCEPT !.stalled = TRUE]
  OBVIOUS
<1>5. j.run = run /\ (jobs' = jobs \/ jobs' = jobs \union {j})
  BY <1>1, <1>3, <1>4 DEF Crash, Job
<1>6. frame'[w] = IdleFrame /\ Alone(w)
  BY <1>0, <1>1 DEF Inv, TypeOK, Alone
<1>7. \A r \in Runs : Paused(r)' => Paused(r) /\ runs'[r].idx = runs[r].idx
  BY <1>1 DEF Paused, Exists
<1>8. ASSUME NEW i \in Index PROVE Share(j, w, run, i)' <= Share(j, w, run, i) + 2
  <2>1. w \notin Going(run, i)' /\ w \notin Failing(run)'
    BY <1>0, <1>6, Stopped
  <2>2. ToResume(run, i)' => ToResume(run, i)
    BY <1>0, <1>6, <1>7, ResumeLess
  <2>3. executed'[run][i] = executed[run][i] /\ executed[run][i] \in Nat
    BY <1>1 DEF Inv, TypeOK
  <2>4. QED BY <2>1, <2>2, <2>3 DEF Share, Mine, N
<1>9. Allowance' >= Allowance + 2
  BY <1>1, AllowanceIs
<1>10. jobs' = jobs \/ (jobs' \ {j} = jobs \ {j} /\ j.run = run)
  BY <1>5
<1>11. \A r \in Runs \ {run} : executed'[r] = executed[r]
  BY <1>1
<1>12. QED BY <1>0, <1>1, <1>3, <1>6, <1>7, <1>8, <1>9, <1>10, <1>11, Here

\* The steps of the inbound pipeline.
LEMMA NewRunKeeps ==
  ASSUME Inv, Inv', Shape, Shape', WeightKept, NEW h \in Handlers, NEW r \in Runs, NEW u \in Rules,
         NextRun(r), frame[h] = IdleFrame, Alone(h), UNCHANGED <<jobs, executed, budget>>,
         runs' = [runs EXCEPT ![r] = [status |-> "PENDING", rule |-> u, idx |-> 0, by |-> handler[h].msg]],
         frame' = [frame EXCEPT ![h] = [Call(r, 0, 0) EXCEPT !.pc = "submit"]],
         handler'[h].waiting = handler[h].waiting
  PROVE  WeightKept'
<1>0. h \in Threads
  BY DEF Threads
<1>1. ~Exists(r) /\ runs'[r].status = "PENDING" /\ \A q \in Runs \ {r} : runs'[q] = runs[q]
  BY DEF NextRun, Inv, TypeOK
<1>2. PICK g : g = [Call(r, 0, 0) EXCEPT !.pc = "submit"]
  OBVIOUS
<1>3. g.run = r /\ g.idx = 0 /\ g.pc = "submit" /\ g # IdleFrame
  BY <1>2 DEF Call, IdleFrame
<1>4. frame'[h] = g
  BY <1>0, <1>2 DEF Inv, TypeOK
<1>5. Allowance' = Allowance /\ Allowance \in Nat /\ Allowance >= 2
  BY AllowanceIs
<1>6. ASSUME NEW q \in Runs, NEW i \in Index, q # r PROVE Kept(q, i)'
  <2>1. Paused(q)' => Paused(q) /\ runs'[q].idx = runs[q].idx
    BY <1>1, <1>6 DEF Paused, Exists
  <2>2. Queued(q, i)' = Queued(q, i) /\ executed'[q] = executed[q] /\ Kept(q, i)
    BY DEF Queued, WeightKept
  <2>3. frame'[h].run # q
    BY <1>3, <1>4, <1>6
  <2>4. Allowance' >= Allowance
    BY <1>5
  <2>5. QED BY <1>0, <2>1, <2>2, <2>3, <2>4, Elsewhere
<1>7. ASSUME NEW i \in Index PROVE Kept(r, i)'
  <2>1. \A t \in Threads : frame[t] # IdleFrame => frame[t].run # r
    BY <1>1 DEF Inv, ReferencesExist
  <2>2. Queued(r, i)' = {}
    BY <1>1 DEF Queued, Inv, ReferencesExist
  <2>3. Going(r, i)' \subseteq {h}
    BY <2>1 DEF Going, DueBy, Alone
  <2>4. Failing(r)' = {}
    <3>1. \A t \in Threads \ {h} : frame'[t].pc = "fail" => frame'[t].run # r
      BY <2>1 DEF Alone, IdleFrame
    <3>2. QED BY <1>3, <1>4, <3>1 DEF Failing
  <2>5. ~ToResume(r, i)'
    <3>1. ~Paused(r)'
      BY <1>1 DEF Paused
    <3>2. \A k \in Handlers : \A s \in handler'[k].waiting : s.run # r
      BY <1>1 DEF Inv, ReferencesExist, Alone
    <3>3. \A k \in Handlers : ~(Reading(k)' /\ DueBy(frame[k], r, i)')
      <4>1. ~Reading(h)'
        BY <1>3, <1>4 DEF Reading, ReadsIn
      <4>2. ASSUME NEW k \in Handlers \ {h} PROVE ~DueBy(frame[k], r, i)'
        <5>1. frame'[k] = frame[k] /\ k \in Threads
          BY DEF Alone, Threads
        <5>2. QED BY <2>1, <5>1 DEF DueBy
      <4>3. QED BY <4>1, <4>2
    <3>4. QED BY <3>1, <3>2, <3>3 DEF ToResume
  <2>6. executed'[r][i] = 0
    BY <1>1 DEF Shape, NothingBefore
  <2>7. PICK a : a = Going(r, i)' /\ (a = {} \/ a = {h})
    BY <2>3
  <2>8. IsFiniteSet(a) /\ Cardinality(a) \in Nat /\ Cardinality(a) <= 1
    <3>1. CASE a = {}
      <4>1. IsFiniteSet({}) /\ Cardinality({}) = 0
        BY FS_EmptySet
      <4>2. QED BY <3>1, <4>1
    <3>2. CASE a = {h}
      <4>1. IsFiniteSet({h}) /\ Cardinality({h}) = 1
        BY FS_Singleton
      <4>2. QED BY <3>2, <4>1
    <3>3. QED BY <2>7, <3>1, <3>2
  <2>9. IsFiniteSet({}) /\ Cardinality({}) = 0
    BY FS_EmptySet
  <2>10. N(ToResume(r, i))' = 0
    BY <2>5 DEF N
  <2>11. (2 * Tasks(r, i) + Cardinality(Failing(r)) <= Allowance)'
    BY <1>5, <2>2, <2>4, <2>6, <2>7, <2>8, <2>9, <2>10 DEF Tasks
  <2>12. QED BY <2>2, <2>4, <2>7, <2>8, <2>9, <2>11 DEF Kept
<1>8. QED BY <1>6, <1>7 DEF WeightKept

LEMMA SubmitKeeps ==
  ASSUME Inv, Inv', Shape, Shape', WeightKept, NEW h \in Handlers, Submit(h), Alone(h) PROVE WeightKept'
<1>0. h \in Threads
  BY DEF Threads
<1>1. /\ frame[h].pc = "submit" /\ frame[h] # IdleFrame /\ frame[h].idx = 0 /\ handler[h].stage # "resuming"
      /\ UNCHANGED <<runs, handler, executed>>
  BY <1>0, CallType DEF Submit, Shape, Apart, TriggerTypes
<1>2. PICK run \in Runs : run = frame[h].run /\ Exists(run)
  BY <1>0, <1>1, CallType
<1>3. \A r \in Runs : Paused(r)' => Paused(r) /\ runs'[r].idx = runs[r].idx
  BY <1>1 DEF Paused, Exists
<1>4. ~Reading(h)' /\ ~Reading(h)
  BY <1>1 DEF Reading
<1>5. \A r \in Runs, i \in Index : ToResume(r, i)' => ToResume(r, i)
  BY <1>0, <1>1, <1>3, <1>4, ResumeLess
<1>6. CASE frame' = [frame EXCEPT ![h].pc = "load"] /\ UNCHANGED <<jobs, budget>>
  <2>1. PICK g : g = [frame[h] EXCEPT !.pc = "load"]
    OBVIOUS
  <2>2. /\ g.pc = "load" /\ g.run = run /\ g.idx = frame[h].idx /\ g.depth = frame[h].depth
        /\ g # IdleFrame /\ frame'[h] = g
    BY <1>0, <1>1, <1>2, <1>6, <2>1, CallType DEF Frame, IdleFrame, Inv, TypeOK
  <2>3. ASSUME NEW i \in Index PROVE Share(h, h, run, i)' <= Share(h, h, run, i) + 0
    <3>1. h \in Going(run, i)' => h \in Going(run, i)
      BY <1>0, <1>1, <1>2, <1>4, <2>2 DEF Going, DueBy, Pre, Post
    <3>2. Queued(run, i)' = Queued(run, i) /\ h \notin Failing(run)'
      BY <1>6, <2>2 DEF Queued, Failing
    <3>3. executed'[run][i] = executed[run][i] /\ executed[run][i] \in Nat
      BY <1>1 DEF Inv, TypeOK
    <3>4. QED BY <1>5, <3>1, <3>2, <3>3 DEF Share, Mine, N
  <2>4. Allowance' >= Allowance + 0
    BY <1>6, AllowanceIs
  <2>5. frame[h].run = run /\ frame'[h].run = run /\ jobs' = jobs
    BY <1>2, <1>6, <2>2
  <2>6. \A r \in Runs \ {run} : executed'[r] = executed[r] /\ (Paused(r)' => Paused(r) /\ runs'[r].idx = runs[r].idx)
    BY <1>1, <1>3
  <2>7. h \in Handlers => \A s \in handler'[h].waiting : s.run # run => s \in handler[h].waiting
    BY <1>1
  <2>8. QED BY <1>0, <2>3, <2>4, <2>5, <2>6, <2>7, Here
<1>7. CASE frame' = [frame EXCEPT ![h] = IdleFrame] /\ UNCHANGED budget /\ \E id \in JobIds : Push(id, run, 0)
  <2>1. PICK id \in JobIds : Push(id, run, 0)
    BY <1>7
  <2>2. PICK j : j = [id |-> id, run |-> run, idx |-> 0, attempts |-> 0, stalled |-> FALSE]
    OBVIOUS
  <2>3. jobs' = jobs \union {j} /\ j.run = run /\ j.idx = 0
    BY <2>1, <2>2 DEF Push
  <2>4. frame'[h] = IdleFrame
    BY <1>0, <1>7 DEF Inv, TypeOK
  <2>5. ASSUME NEW i \in Index PROVE Share(j, h, run, i)' <= Share(j, h, run, i) + 0
    <3>1. h \notin Going(run, i)' /\ h \notin Failing(run)'
      BY <1>0, <2>4, Stopped
    <3>2. h \in Going(run, i)
      <4>1. i \in Nat
        BY TypesOfConstants
      <4>2. QED BY <1>0, <1>1, <1>2, <1>4, <4>1 DEF Going, DueBy, Pre
    <3>3. executed'[run][i] = executed[run][i] /\ executed[run][i] \in Nat
      BY <1>1 DEF Inv, TypeOK
    <3>4. QED BY <1>5, <3>1, <3>2, <3>3 DEF Share, Mine, N
  <2>6. Allowance' >= Allowance + 0
    BY <1>7, AllowanceIs
  <2>7. jobs' \ {j} = jobs \ {j}
    BY <2>3
  <2>8. QED BY <1>0, <1>1, <1>2, <1>3, <2>3, <2>4, <2>5, <2>6, <2>7, Here
<1>8. CASE frame' = [frame EXCEPT ![h] = IdleFrame] /\ Spend("faults") /\ UNCHANGED jobs
  <2>1. frame'[h] = IdleFrame
    BY <1>0, <1>8 DEF Inv, TypeOK
  <2>2. Allowance' >= Allowance
    BY <1>8, AllowanceIs
  <2>3. QED BY <1>0, <1>1, <1>5, <1>8, <2>1, <2>2, StopsKeep
<1>9. QED BY <1>2, <1>6, <1>7, <1>8 DEF Submit

LEMMA ResumeNextKeeps ==
  ASSUME Inv, Inv', Shape, Shape', WeightKept, NEW h \in Handlers, ResumeNext(h), Alone(h) PROVE WeightKept'
<1>0. h \in Threads /\ handler[h] \in Handler
  BY DEF Threads, Inv, TypeOK
<1>1. PICK s \in handler[h].waiting : /\ handler' = [handler EXCEPT ![h].waiting = @ \ {s}]
                                     /\ frame' = [frame EXCEPT ![h] = Call(s.run, s.idx, 0)]
  BY DEF ResumeNext
<1>2. /\ handler[h].stage = "resuming" /\ frame[h] = IdleFrame
      /\ UNCHANGED <<runs, jobs, executed, budget>>
  BY DEF ResumeNext
<1>3. PICK run \in Runs : run = s.run
  BY <1>0, <1>1 DEF Handler, Snapshot
<1>4. /\ handler'[h].stage = "resuming" /\ handler'[h].waiting = handler[h].waiting \ {s}
      /\ frame'[h] = Call(s.run, s.idx, 0)
  BY <1>0, <1>1, <1>2, <1>3 DEF Inv, TypeOK, Handler
<1>5. /\ frame'[h].pc = "load" /\ frame'[h].run = run /\ frame'[h].idx = s.idx
      /\ frame'[h].depth = 0 /\ frame'[h] # IdleFrame
  BY <1>3, <1>4 DEF Call, IdleFrame
<1>6. \A r \in Runs : Paused(r)' => Paused(r) /\ runs'[r].idx = runs[r].idx
  BY <1>2 DEF Paused, Exists
<1>7. ASSUME NEW i \in Index PROVE Share(h, h, run, i)' <= Share(h, h, run, i) + 0
  <2>1. Reading(h)'
    BY <1>4, <1>5 DEF Reading, ReadsIn, Pre
  <2>2. h \notin Going(run, i)' /\ h \notin Failing(run)' /\ Queued(run, i)' = Queued(run, i)
    BY <1>2, <1>4, <1>5, <2>1 DEF Going, Failing, Queued
  <2>3. DueBy(frame[h], run, i)' => ToResume(run, i)
    BY <1>3, <1>4, <1>5 DEF DueBy, Pre, Post, ToResume
  <2>4. ToResume(run, i)' => ToResume(run, i)
    BY <1>0, <1>4, <1>6, <2>3, ResumeLess
  <2>5. executed'[run][i] = executed[run][i] /\ executed[run][i] \in Nat
    BY <1>2 DEF Inv, TypeOK
  <2>6. QED BY <2>2, <2>4, <2>5 DEF Share, Mine, N
<1>8. Allowance' >= Allowance + 0
  BY <1>2, AllowanceIs
<1>9. \A q \in handler'[h].waiting : q.run # run => q \in handler[h].waiting
  BY <1>4
<1>10. QED BY <1>0, <1>2, <1>4, <1>5, <1>6, <1>7, <1>8, <1>9, Here

LEMMA HandlerAlone ==
  ASSUME Inv, NEW h \in Handlers, Pipeline(h) \/ AgentEvent(h) \/ Abort(h) \/ \E m \in Messages : Receive(h, m)
  PROVE  Alone(h)
<1>1. h \in Threads /\ h \notin Workers /\ handler[h] \in Handler
  BY ConstantsAssumption DEF Threads, Inv, TypeOK
<1>2. /\ \A g \in Handlers \ {h} : handler'[g] = handler[g]
      /\ \A u \in Threads \ {h} : frame'[u] = frame[u]
      /\ UNCHANGED active
  BY OthersStandStill
<1>3. QED BY <1>1, <1>2 DEF Alone

\* A handler that is in no call may list paused runs, and is to resume no others than it was.
LEMMA NoCallKeeps ==
  ASSUME Inv, Inv', Shape, Shape', WeightKept, NEW h \in Handlers, Alone(h), frame'[h] = IdleFrame,
         UNCHANGED <<runs, jobs, executed>>, Allowance' >= Allowance,
         \A s \in handler'[h].waiting : s \in handler[h].waiting \/ (Paused(s.run) /\ s.idx = runs[s.run].idx)
  PROVE  WeightKept'
<1>0. h \in Threads
  BY DEF Threads
<1>1. ASSUME NEW r \in Runs, NEW i \in Index PROVE ToResume(r, i)' => ToResume(r, i)
  <2>1. CASE Paused(r)' /\ runs'[r].idx <= i
    BY <2>1 DEF ToResume, Paused, Exists
  <2>2. ASSUME NEW s \in handler'[h].waiting, s.run = r, s.idx <= i PROVE ToResume(r, i)
    BY <2>2 DEF ToResume
  <2>3. ASSUME NEW k \in Handlers, k # h,
               (\E s \in handler'[k].waiting : s.run = r /\ s.idx <= i) \/ (Reading(k)' /\ DueBy(frame[k], r, i)')
        PROVE  ToResume(r, i)
    <3>1. frame'[k] = frame[k] /\ handler'[k] = handler[k]
      BY <2>3 DEF Alone, Threads
    <3>2. Reading(k)' /\ DueBy(frame[k], r, i)' => Reading(k) /\ DueBy(frame[k], r, i)
      BY <3>1 DEF DueBy, Pre, Post, Reading, ReadsIn
    <3>3. QED BY <2>3, <3>1, <3>2 DEF ToResume
  <2>4. ~Reading(h)'
    BY <1>0, Stopped
  <2>5. ToResume(r, i)' =>
          \/ Paused(r)' /\ runs'[r].idx <= i
          \/ \E k \in Handlers : \/ \E s \in handler'[k].waiting : s.run = r /\ s.idx <= i
                                 \/ Reading(k)' /\ DueBy(frame[k], r, i)'
    BY DEF ToResume
  <2>6. QED BY <2>1, <2>2, <2>3, <2>4, <2>5
<1>2. QED BY <1>0, <1>1, StopsKeep

LEMMA StartRunKeeps ==
  ASSUME Inv, Inv', Shape, Shape', WeightKept, NEW h \in Handlers, StartRun(h) PROVE WeightKept'
<1>0. h \in Threads /\ handler[h] \in Handler /\ Alone(h)
  BY HandlerAlone DEF Threads, Inv, TypeOK, Pipeline
<1>1. PICK u \in Rules :
        /\ handler' = [handler EXCEPT ![h].matched = @ \ {u}]
        /\ \/ UNCHANGED <<runs, frame, budget>>
           \/ Spend("faults") /\ UNCHANGED <<runs, frame>>
           \/ /\ \E r \in Runs :
                   /\ NextRun(r)
                   /\ runs' = [runs EXCEPT ![r] =
                        [status |-> "PENDING", rule |-> u, idx |-> 0, by |-> handler[h].msg]]
                   /\ frame' = [frame EXCEPT ![h] = [Call(r, 0, 0) EXCEPT !.pc = "submit"]]
              /\ UNCHANGED budget
  BY <1>0 DEF StartRun, Handler
<1>2. frame[h] = IdleFrame /\ UNCHANGED <<jobs, executed>>
  BY DEF StartRun
<1>3. handler'[h].waiting = handler[h].waiting
  BY <1>0, <1>1 DEF Inv, TypeOK, Handler
<1>4. CASE (UNCHANGED <<runs, frame, budget>>) \/ (Spend("faults") /\ UNCHANGED <<runs, frame>>)
  <2>1. Allowance' >= Allowance
    BY <1>4, AllowanceIs
  <2>2. QED BY <1>0, <1>2, <1>3, <1>4, <2>1, NoCallKeeps
<1>5. ASSUME NEW r \in Runs, NextRun(r), UNCHANGED budget,
             runs' = [runs EXCEPT ![r] = [status |-> "PENDING", rule |-> u, idx |-> 0, by |-> handler[h].msg]],
             frame' = [frame EXCEPT ![h] = [Call(r, 0, 0) EXCEPT !.pc = "submit"]]
      PROVE  WeightKept'
  <2>1. UNCHANGED <<jobs, executed, budget>>
    BY <1>2, <1>5
  <2>2. QED BY <1>0, <1>2, <1>3, <1>5, <2>1, NewRunKeeps
<1>6. QED BY <1>1, <1>4, <1>5

LEMMA ReceivedWaits ==
  ASSUME Inv, NEW h \in Handlers, \E m \in Messages : Receive(h, m) PROVE handler'[h].waiting = {}
<1>1. PICK m \in Messages, text \in BOOLEAN :
        LET new == [IdleHandler EXCEPT !.msg = m, !.text = text] IN
        \/ handler' = [handler EXCEPT ![h] =
             [new EXCEPT !.stage = "CONVERSATION_CREATED",
                         !.matched = Matching("CONVERSATION_CREATED")]]
        \/ handler' = [handler EXCEPT ![h] = [new EXCEPT !.stage = "resume"]]
  BY DEF Receive
<1> DEFINE new == [IdleHandler EXCEPT !.msg = m, !.text = text]
<1>2. new \in Handler /\ new.waiting = {}
  BY HandlerShapes DEF Handler
<1>3. \/ handler' = [handler EXCEPT ![h] =
           [new EXCEPT !.stage = "CONVERSATION_CREATED",
                       !.matched = Matching("CONVERSATION_CREATED")]]
      \/ handler' = [handler EXCEPT ![h] = [new EXCEPT !.stage = "resume"]]
  BY <1>1
<1> HIDE DEF new
<1>4. QED BY <1>2, <1>3 DEF Inv, TypeOK, Handler

LEMMA EndedWaits ==
  ASSUME Inv, NEW h \in Handlers, EndDispatch(h) \/ EndResume(h), handler[h].waiting = {}
  PROVE  handler'[h].waiting = {}
<1>1. handler \in [Handlers -> Handler] /\ handler[h] \in Handler /\ IdleHandler.waiting = {}
  BY DEF Inv, TypeOK, IdleHandler
<1>2. ASSUME NEW stage, NEW S, EnterDispatch(h, stage, S) PROVE handler'[h].waiting = {}
  BY <1>1, <1>2 DEF EnterDispatch, Handler
<1>3. ASSUME NEW stage, Become(h, stage) PROVE handler'[h].waiting = {}
  BY <1>1, <1>3 DEF Become, Handler
<1>4. QED BY <1>2, <1>3 DEF EndDispatch, EndResume

LEMMA PipelineKeeps ==
  ASSUME Inv, Inv', Shape, Shape', WeightKept, NEW h \in Handlers,
         Pipeline(h) \/ AgentEvent(h) \/ Abort(h) \/ \E m \in Messages : Receive(h, m)
  PROVE  WeightKept'
<1>0. h \in Threads /\ handler[h] \in Handler /\ Alone(h) /\ Apart(h)
  BY HandlerAlone DEF Threads, Inv, TypeOK, Shape
<1>1. IdleHandler.stage = "idle" /\ IdleHandler.waiting = {}
  BY DEF IdleHandler
<1>2. CASE StartRun(h)
  BY <1>2, StartRunKeeps
<1>3. CASE Submit(h)
  BY <1>0, <1>3, SubmitKeeps
<1>4. CASE ResumeNext(h)
  BY <1>0, <1>4, ResumeNextKeeps
<1>5. CASE EndDispatch(h) \/ EndResume(h)
  <2>1. frame[h] = IdleFrame /\ UNCHANGED <<frame, runs, jobs, executed, budget>> /\ handler[h].waiting = {}
    BY <1>0, <1>5 DEF EndDispatch, EndResume, Apart, TriggerTypes
  <2>2. handler'[h].waiting = {}
    BY <1>5, <2>1, EndedWaits
  <2>3. Allowance' >= Allowance
    BY <2>1, AllowanceIs
  <2>4. QED BY <1>0, <2>1, <2>2, <2>3, NoCallKeeps
<1>6. CASE ListWaiting(h)
  <2>1. frame[h] = IdleFrame /\ UNCHANGED <<frame, runs, jobs, executed>> /\ handler[h].waiting = {}
    BY <1>0, <1>6 DEF ListWaiting, Apart
  <2>2. Allowance' >= Allowance
    BY <1>6, AllowanceIs DEF ListWaiting
  <2>3. CASE handler' = [handler EXCEPT ![h].stage = "resuming",
                ![h].waiting = {[run |-> r, idx |-> runs[r].idx] : r \in Resumable}]
    <3>1. handler'[h].waiting = {[run |-> r, idx |-> runs[r].idx] : r \in Resumable}
      BY <1>0, <2>3 DEF Inv, TypeOK, Handler
    <3>2. \A s \in handler'[h].waiting : Paused(s.run) /\ s.idx = runs[s.run].idx
      BY <3>1 DEF Resumable
    <3>3. QED BY <1>0, <2>1, <2>2, <3>2, NoCallKeeps
  <2>4. CASE Become(h, "resuming")
    <3>1. handler'[h].waiting = handler[h].waiting
      BY <1>0, <2>4 DEF Become, Inv, TypeOK, Handler
    <3>2. QED BY <1>0, <2>1, <2>2, <3>1, NoCallKeeps
  <2>5. QED BY <1>6, <2>3, <2>4 DEF ListWaiting
<1>7. CASE AgentEvent(h)
  <2>1. handler[h] = IdleHandler /\ UNCHANGED <<frame, runs, jobs, executed>>
    BY <1>7 DEF AgentEvent
  <2>2. frame[h] = IdleFrame /\ handler[h].waiting = {}
    BY <1>0, <1>1, <2>1 DEF Apart
  <2>3. handler'[h].waiting = {}
    BY <1>0, <1>7, <2>2 DEF AgentEvent, EnterDispatch, Inv, TypeOK, Handler
  <2>4. Allowance' >= Allowance
    BY <1>7, AllowanceIs DEF AgentEvent
  <2>5. QED BY <1>0, <2>1, <2>2, <2>3, <2>4, NoCallKeeps
<1>8. CASE Abort(h)
  <2>1. UNCHANGED <<runs, jobs, executed>> /\ Spend("aborts")
    BY <1>8 DEF Abort
  <2>2. frame'[h] = IdleFrame /\ handler'[h] = IdleHandler
    BY <1>0, <1>8 DEF Abort, Inv, TypeOK
  <2>3. Allowance' >= Allowance
    BY <2>1, AllowanceIs
  <2>4. QED BY <1>0, <1>1, <2>1, <2>2, <2>3, NoCallKeeps
<1>9. CASE \E m \in Messages : Receive(h, m)
  <2>1. handler[h] = IdleHandler /\ UNCHANGED <<frame, runs, jobs, executed, budget>>
    BY <1>9 DEF Receive
  <2>2. frame[h] = IdleFrame
    BY <1>0, <1>1, <2>1 DEF Apart
  <2>3. handler'[h].waiting = {}
    BY <1>0, <1>9, ReceivedWaits
  <2>4. Allowance' >= Allowance
    BY <2>1, AllowanceIs
  <2>5. QED BY <1>0, <2>1, <2>2, <2>3, <2>4, NoCallKeeps
<1>10. QED BY <1>2, <1>3, <1>4, <1>5, <1>6, <1>7, <1>8, <1>9 DEF Pipeline

\* The timeout, the edits of the rules, and steps that change nothing.
LEMMA CalmKeeps ==
  ASSUME Inv, Inv', Shape, Shape', WeightKept, UNCHANGED <<jobs, active, frame, handler, executed>>,
         Allowance' >= Allowance,
         \A r \in Runs : Paused(r)' => Paused(r) /\ runs'[r].idx = runs[r].idx
  PROVE  WeightKept'
<1>1. ASSUME NEW r \in Runs, NEW i \in Index PROVE Kept(r, i)'
  <2>1. ToResume(r, i)' => ToResume(r, i)
    BY DEF ToResume, Reading, ReadsIn, DueBy, Pre, Post
  <2>2. Queued(r, i)' = Queued(r, i) /\ Going(r, i)' = Going(r, i) /\ Failing(r)' = Failing(r)
    BY DEF Queued, Going, Failing, Reading, ReadsIn, DueBy, Pre, Post
  <2>3. executed'[r][i] = executed[r][i] /\ executed[r][i] \in Nat
    BY DEF Inv, TypeOK
  <2>4. PICK t : t = "idle"
    OBVIOUS
  <2>5. Share(t, t, r, i)' <= Share(t, t, r, i) + 0
    BY <2>1, <2>2, <2>3 DEF Share, Mine, N
  <2>6. Allowance' >= Allowance + 0
    BY AllowanceIs
  <2>7. Queued(r, i)' \ {t} = Queued(r, i) \ {t} /\ Going(r, i)' \ {t} = Going(r, i) \ {t}
        /\ Failing(r)' \ {t} = Failing(r) \ {t}
    BY <2>2
  <2>8. Kept(r, i)
    BY DEF WeightKept
  <2>9. QED BY <2>5, <2>6, <2>7, <2>8, Weighed
<1>2. QED BY <1>1 DEF WeightKept

LEMMA WeightStays ==
  ASSUME Inv, Whole, Shape, OneHandler, WeightKept, [Next]_vars PROVE WeightKept'
<1>0. Inv' /\ Shape'
  BY EveryStep, ShapeKept DEF Whole
<1>1. ASSUME NEW t \in Threads, Processing(t) \/ Fault(t) PROVE WeightKept'
  BY <1>0, <1>1, LoadKeeps, StartKeeps, ActKeeps, AdvanceKeeps, EnqueueKeeps, EndsKeep, ReturnKeeps DEF Processing
<1>2. ASSUME NEW w \in Workers, TakeJob(w) \/ Crash(w) PROVE WeightKept'
  BY <1>0, <1>2, TakeJobKeeps, CrashKeeps
<1>3. ASSUME NEW h \in Handlers, Pipeline(h) \/ AgentEvent(h) \/ Abort(h) \/ \E m \in Messages : Receive(h, m)
      PROVE  WeightKept'
  BY <1>0, <1>3, PipelineKeeps
<1>4. ASSUME UNCHANGED <<runs, jobs, active, frame, handler, executed>>,
             (UNCHANGED budget) \/ (\E e \in {"faults", "edits"} : Spend(e))
      PROVE  WeightKept'
  <2>1. Allowance' >= Allowance
    BY <1>0, <1>4, AllowanceIs
  <2>2. \A r \in Runs : Paused(r)' => Paused(r) /\ runs'[r].idx = runs[r].idx
    BY <1>4 DEF Paused, Exists
  <2>3. QED BY <1>0, <1>4, <2>1, <2>2, CalmKeeps
<1>5. ASSUME NEW c \in Crons, FailStale(c) PROVE WeightKept'
  <2>1. UNCHANGED <<jobs, active, frame, handler, executed>> /\ ((UNCHANGED budget) \/ Spend("faults"))
    BY <1>5 DEF FailStale
  <2>2. Allowance' >= Allowance
    BY <1>0, <2>1, AllowanceIs
  <2>3. (UNCHANGED runs) \/ \E r \in cron[c] : runs' = [runs EXCEPT ![r].status = "FAILED"]
    BY <1>5 DEF FailStale
  <2>4. \A r \in Runs : Paused(r)' => Paused(r) /\ runs'[r].idx = runs[r].idx
    BY <2>3 DEF Inv, TypeOK, Run, NoRun, Paused, Exists
  <2>5. QED BY <1>0, <2>1, <2>2, <2>4, CalmKeeps
<1>6. QED
  BY <1>1, <1>2, <1>3, <1>4, <1>5 DEF Next, ReadStale, UpdateRule, DeleteRule, vars

LEMMA WeightInitially == Init => WeightKept
<1> SUFFICES ASSUME Init, NEW r \in Runs, NEW i \in Index PROVE Kept(r, i)
  BY DEF WeightKept
<1>1. Queued(r, i) = {} /\ Going(r, i) = {} /\ Failing(r) = {} /\ ~ToResume(r, i) /\ executed[r][i] = 0
  <2>1. Queued(r, i) = {} /\ executed[r][i] = 0
    BY DEF Init, Queued
  <2>2. \A t \in Threads : frame[t] = IdleFrame /\ IdleFrame.pc = "idle"
    BY DEF Init, IdleFrame
  <2>3. Going(r, i) = {} /\ Failing(r) = {}
    BY <2>2 DEF Going, DueBy, Failing
  <2>4. ~Paused(r)
    BY DEF Init, Paused, NoRun
  <2>5. \A h \in Handlers : handler[h].waiting = {} /\ ~Reading(h)
    BY <2>2 DEF Init, IdleHandler, Reading, ReadsIn
  <2>6. QED BY <2>1, <2>3, <2>4, <2>5 DEF ToResume
<1>2. IsFiniteSet({}) /\ Cardinality({}) = 0
  BY FS_EmptySet
<1>3. Used("crashes") = 0 /\ Used("faults") = 0
  BY ConstantsAssumption DEF Init, Used, Events
<1>4. 2 * Tasks(r, i) + Cardinality(Failing(r)) <= Allowance
  BY <1>1, <1>2, <1>3 DEF Tasks, N, Allowance
<1>5. QED BY <1>1, <1>2, <1>4 DEF Kept

LEMMA HalfOf ==
  ASSUME NEW e \in Nat, NEW c \in Nat, NEW f \in Nat, 2 * e <= 2 + 2 * c + f
  PROVE  e <= 1 + c + f \div 2
OBVIOUS

LEMMA WeightSuffices == ASSUME Inv, Shape, WeightKept PROVE RepeatsNeedACrash
<1> SUFFICES ASSUME NEW r \in Runs, NEW i \in Index
             PROVE  executed[r][i] <= 1 + Used("crashes") + Used("faults") \div 2
  BY DEF RepeatsNeedACrash
<1>1. Used("crashes") \in Nat /\ Used("faults") \in Nat
  BY UsedIs DEF Shape, Events
<1>2. executed[r][i] \in Nat
  BY DEF Inv, TypeOK
<1>3. /\ IsFiniteSet(Queued(r, i)) /\ IsFiniteSet(Going(r, i)) /\ IsFiniteSet(Failing(r))
      /\ 2 * Tasks(r, i) + Cardinality(Failing(r)) <= Allowance
  BY DEF WeightKept, Kept
<1>4. PICK q, g, f \in Nat : q = Cardinality(Queued(r, i)) /\ g = Cardinality(Going(r, i)) /\ f = Cardinality(Failing(r))
  BY <1>3, FS_CardinalityType
<1>5. PICK a \in Nat : a = N(ToResume(r, i))
  BY DEF N
<1>6. 2 * (q + g + a + executed[r][i]) + f <= 2 + 2 * Used("crashes") + Used("faults")
  BY <1>3, <1>4, <1>5 DEF Tasks, Allowance
<1>7. 2 * executed[r][i] <= 2 + 2 * Used("crashes") + Used("faults")
  BY <1>1, <1>2, <1>4, <1>5, <1>6
<1>8. QED BY <1>1, <1>2, <1>7, HalfOf

\* One message handled at a time, a step of a run takes effect once, and once more only for a
\* worker that died with the job in hand, or for two failed calls: a rejection of the catch
\* block of processRunStep, after which BullMQ repeats the job, needs the fault that led there.
THEOREM StepsRepeatAfterFailures == OneHandler => (Spec => []RepeatsNeedACrash)
<1> SUFFICES ASSUME OneHandler PROVE Spec => []RepeatsNeedACrash
  OBVIOUS
<1> DEFINE J == Inv /\ Whole /\ Shape /\ WeightKept
<1>1. Init => J
  BY Initially, WholeInitially, ShapeInitially, WeightInitially
<1>2. J /\ [Next]_vars => J'
  BY EveryStep, WholeKept, ShapeKept, WeightStays
<1>3. J => RepeatsNeedACrash
  BY WeightSuffices
<1>4. QED BY <1>1, <1>2, <1>3, PTL DEF Spec

-----------------------------------------------------------------------------
(* When no call fails: each step once, in order, and none after the end.     *)

Calm == Bounds["faults"] = 0 /\ Bounds["crashes"] = 0

\* Something is on its way to step i of run r, or to a step before it.
AheadOf(f, r, i) ==
  /\ f # IdleFrame /\ f.run = r
  /\ \/ f.pc \in {"submit", "load", "start"} /\ f.idx <= i
     \/ f.pc = "complete" /\ f.idx >= Len(f.steps) /\ f.idx <= i
     \/ f.pc = "act" /\ f.idx < i
     \/ Post(f) /\ f.idx < i
Ahead(r, i) ==
  \/ \E j \in jobs : j.run = r /\ j.idx <= i
  \/ \E t \in Threads : AheadOf(frame[t], r, i)
  \/ Paused(r) /\ runs[r].idx <= i
  \/ \E h \in Handlers : \E s \in handler[h].waiting : s.run = r /\ s.idx <= i

NoneFails == \A t \in Threads : frame[t].pc # "fail"
SettledIsQuiet == \A r \in Runs : IsSettled(r) => ~Ahead(r, MaxSteps)
PausesAreOver == (\A e \in resumes : Exists(e.run) /\ ~Ahead(e.run, e.idx)) /\ PauseEndsOnce

LEMMA NoTrouble ==
  ASSUME Inv, Shape, Calm
  PROVE  ~Spend("faults") /\ ~Spend("crashes") /\ Allowance = 2
<1>1. budget["faults"] = 0 /\ budget["crashes"] = 0
  BY DEF Calm, Shape, BudgetKept, Inv, TypeOK, Events
<1>2. QED BY <1>1 DEF Spend, Allowance, Used, Calm

\* Whoever is on the way to a step is so alone, and the step has not taken effect.
LEMMA AtWorkAlone ==
  ASSUME Inv, Shape, WeightKept, Calm, OneHandler, NEW t \in Threads, NEW r \in Runs, NEW i \in Index,
         DueBy(frame[t], r, i)
  PROVE  /\ \A j \in jobs : ~(j.run = r /\ j.idx <= i)
         /\ \A u \in Threads \ {t} : ~DueBy(frame[u], r, i)
         /\ executed[r][i] = 0
         /\ ~Reading(t) => ~ToResume(r, i)
<1>1. PICK q, g, f : q = Queued(r, i) /\ g = Going(r, i) /\ f = Failing(r)
  OBVIOUS
<1>2. IsFiniteSet(q) /\ IsFiniteSet(g) /\ IsFiniteSet(f)
  BY <1>1 DEF WeightKept, Kept
<1>3. Cardinality(q) \in Nat /\ Cardinality(g) \in Nat /\ Cardinality(f) \in Nat
  BY <1>2, FS_CardinalityType
<1>4. PICK a, e \in Nat : a = N(ToResume(r, i)) /\ e = executed[r][i]
  BY DEF N, Inv, TypeOK
<1>5. 2 * (Cardinality(q) + Cardinality(g) + a + e) + Cardinality(f) <= 2
  BY <1>1, <1>4, NoTrouble DEF WeightKept, Kept, Tasks
<1>6. Cardinality(q) + Cardinality(g) + a + e <= 1
  BY <1>3, <1>4, <1>5
<1>7. ASSUME Cardinality(q) = 0 PROVE \A j \in jobs : ~(j.run = r /\ j.idx <= i)
  BY <1>1, <1>2, <1>7, FS_EmptySet DEF Queued
<1>8. CASE ~Reading(t)
  <2>1. t \in g
    BY <1>1, <1>8 DEF Going
  <2>2. Cardinality(g \ {t}) = Cardinality(g) - 1 /\ IsFiniteSet(g \ {t})
    BY <1>2, <2>1, FS_RemoveElement, FS_Subset
  <2>3. Cardinality(g \ {t}) \in Nat
    BY <2>2, FS_CardinalityType
  <2>4. Cardinality(q) = 0 /\ a = 0 /\ e = 0 /\ Cardinality(g \ {t}) = 0
    BY <1>3, <1>4, <1>6, <2>2, <2>3
  <2>5. g \ {t} = {} /\ ~ToResume(r, i)
    BY <1>4, <2>2, <2>4, FS_EmptySet DEF N
  <2>6. ASSUME NEW u \in Threads \ {t}, DueBy(frame[u], r, i) PROVE FALSE
    <3>1. Reading(u)
      BY <1>1, <2>5, <2>6 DEF Going
    <3>2. QED BY <2>5, <2>6, <3>1 DEF ToResume, Reading
  <2>7. QED BY <1>4, <1>7, <2>4, <2>5, <2>6
<1>9. CASE Reading(t)
  <2>1. ToResume(r, i)
    BY <1>9 DEF ToResume, Reading
  <2>2. a = 1
    BY <1>4, <2>1 DEF N
  <2>3. Cardinality(q) = 0 /\ e = 0 /\ Cardinality(g) = 0
    BY <1>3, <1>4, <1>6, <2>2
  <2>4. g = {}
    BY <1>2, <2>3, FS_EmptySet
  <2>5. ASSUME NEW u \in Threads \ {t}, DueBy(frame[u], r, i) PROVE FALSE
    <3>1. Reading(u)
      BY <1>1, <2>4, <2>5 DEF Going
    <3>2. QED BY <1>9, <2>5, <3>1 DEF Reading, OneHandler
  <2>6. QED BY <1>4, <1>7, <1>9, <2>3, <2>5
<1>10. QED BY <1>8, <1>9

\* Nothing comes ahead of a step again: what a step of thread t may do to that.
LEMMA AheadStays ==
  ASSUME NEW t \in Threads, Alone(t), NEW r \in Runs, NEW i \in Index,
         \A j \in jobs' : j.run = r /\ j.idx <= i => j \in jobs \/ Ahead(r, i),
         Paused(r)' /\ runs'[r].idx <= i => Ahead(r, i),
         AheadOf(frame[t], r, i)' => Ahead(r, i),
         t \in Handlers => \A s \in handler'[t].waiting : s.run = r /\ s.idx <= i => Ahead(r, i)
  PROVE  Ahead(r, i)' => Ahead(r, i)
<1>1. ASSUME NEW j \in jobs', j.run = r, j.idx <= i PROVE Ahead(r, i)
  BY <1>1 DEF Ahead
<1>2. ASSUME NEW u \in Threads, AheadOf(frame[u], r, i)' PROVE Ahead(r, i)
  <2>1. CASE u = t
    BY <1>2, <2>1
  <2>2. CASE u # t
    <3>1. frame'[u] = frame[u]
      BY <2>2 DEF Alone
    <3>2. AheadOf(frame[u], r, i)
      BY <1>2, <3>1 DEF AheadOf, Post
    <3>3. QED BY <3>2 DEF Ahead
  <2>3. QED BY <2>1, <2>2
<1>3. ASSUME NEW h \in Handlers, NEW s \in handler'[h].waiting, s.run = r, s.idx <= i PROVE Ahead(r, i)
  <2>1. CASE h = t
    BY <1>3, <2>1
  <2>2. CASE h # t
    BY <1>3, <2>2 DEF Alone, Ahead
  <2>3. QED BY <2>1, <2>2
<1>4. Ahead(r, i)' =>
        \/ \E j \in jobs' : j.run = r /\ j.idx <= i
        \/ \E u \in Threads : AheadOf(frame[u], r, i)'
        \/ Paused(r)' /\ runs'[r].idx <= i
        \/ \E h \in Handlers : \E s \in handler'[h].waiting : s.run = r /\ s.idx <= i
  BY DEF Ahead
<1>5. QED BY <1>1, <1>2, <1>3, <1>4

\* A call that goes on at its step, and a run that is not paused meanwhile.
LEMMA MovesAhead ==
  ASSUME NEW t \in Threads, Moves(t), UNCHANGED jobs, NEW r \in Runs, NEW i \in Index,
         Paused(r)' => Paused(r) /\ runs'[r].idx = runs[r].idx,
         AheadOf(frame[t], r, i)' => AheadOf(frame[t], r, i)
  PROVE  Ahead(r, i)' => Ahead(r, i)
<1>1. Alone(t) /\ UNCHANGED handler
  BY DEF Moves
<1>2. Paused(r)' /\ runs'[r].idx <= i => Ahead(r, i)
  BY DEF Ahead
<1>3. AheadOf(frame[t], r, i)' => Ahead(r, i)
  BY DEF Ahead
<1>4. \A j \in jobs' : j.run = r /\ j.idx <= i => j \in jobs \/ Ahead(r, i)
  OBVIOUS
<1>5. t \in Handlers => \A s \in handler'[t].waiting : s.run = r /\ s.idx <= i => Ahead(r, i)
  BY <1>1 DEF Ahead
<1>6. QED BY <1>1, <1>2, <1>3, <1>4, <1>5, AheadStays

LEMMA NoneFailsStays == ASSUME NoneFails, NEW t \in Threads, Alone(t), frame'[t].pc # "fail" PROVE NoneFails'
  BY DEF NoneFails, Alone

Goes == NoneFails' /\ \A r \in Runs, i \in Index : Exists(r) /\ Ahead(r, i)' => Ahead(r, i)

LEMMA RowWritten ==
  ASSUME Inv, NEW run \in Runs, Exists(run), NEW s \in Status \ {"WAITING_FOR_REPLY"}, NEW k \in Index,
         \/ runs' = [runs EXCEPT ![run].status = s]
         \/ runs' = [runs EXCEPT ![run].status = s, ![run].idx = k]
  PROVE  \A r \in Runs : Paused(r)' => Paused(r) /\ runs'[r].idx = runs[r].idx
<1>1. runs'[run].status = s /\ \A q \in Runs \ {run} : runs'[q] = runs[q]
  BY WrittenRowKeeps
<1>2. QED BY <1>1 DEF Paused, Exists

LEMMA ProcessingGoes ==
  ASSUME Inv, Shape, Calm, NoneFails, NEW t \in Threads, Processing(t) PROVE Goes
<1>0. /\ ~Spend("faults") /\ frame[t].pc # "fail"
      /\ {"RUNNING", "WAITING", "COMPLETED"} \subseteq Status \ {"WAITING_FOR_REPLY"}
  BY NoTrouble DEF NoneFails, Status, Settled
<1>1. CASE Load(t)
  <2>1. /\ Moves(t) /\ frame[t].pc = "load"
        /\ \/ frame'[t].pc = "done"
           \/ frame'[t].pc \in {"start", "complete"} /\ Pre(frame[t])' /\ ~Post(frame[t])'
    BY <1>1, LoadIs
  <2>2. UNCHANGED <<jobs, runs>>
    BY <1>1 DEF Load
  <2>3. ASSUME NEW r \in Runs, NEW i \in Index PROVE AheadOf(frame[t], r, i)' => AheadOf(frame[t], r, i)
    BY <2>1 DEF AheadOf, Pre, Post, Moves
  <2>4. \A r \in Runs : Paused(r)' => Paused(r) /\ runs'[r].idx = runs[r].idx
    BY <2>2 DEF Paused, Exists
  <2>5. NoneFails'
    BY <2>1, NoneFailsStays DEF Moves
  <2>6. QED BY <2>1, <2>2, <2>3, <2>4, <2>5, MovesAhead DEF Goes
<1>2. CASE Start(t)
  <2>1. Goto(t, "act") /\ UNCHANGED jobs /\ frame[t].pc = "start"
    BY <1>0, <1>2 DEF Start
  <2>2. Moves(t) /\ frame'[t].pc = "act"
    BY <2>1, GotoIs DEF PCs
  <2>3. PICK run \in Runs, k \in Index : run = frame[t].run /\ k = frame[t].idx /\ Exists(run)
    BY <2>1, CallType
  <2>4. runs' = [runs EXCEPT ![run].status = "RUNNING", ![run].idx = k]
    BY <1>2, <2>3 DEF Start
  <2>5. \A r \in Runs : Paused(r)' => Paused(r) /\ runs'[r].idx = runs[r].idx
    BY <1>0, <2>3, <2>4, RowWritten
  <2>6. ASSUME NEW r \in Runs, NEW i \in Index PROVE AheadOf(frame[t], r, i)' => AheadOf(frame[t], r, i)
    <3>1. k \in Nat /\ i \in Nat
      BY TypesOfConstants
    <3>2. QED BY <2>1, <2>2, <2>3, <3>1 DEF AheadOf, Post, Moves
  <2>7. NoneFails'
    BY <2>2, NoneFailsStays DEF Moves
  <2>8. QED BY <2>1, <2>2, <2>5, <2>6, <2>7, MovesAhead DEF Goes
<1>3. CASE Act(t)
  <2>1. PICK pc \in {"enqueue", "advance"} : Goto(t, pc)
    BY <1>0, <1>3 DEF Act
  <2>2. frame[t].pc = "act" /\ UNCHANGED jobs
    BY <1>3 DEF Act
  <2>3. Moves(t) /\ frame'[t].pc = pc
    BY <2>1, <2>2, GotoIs DEF PCs
  <2>4. PICK run \in Runs : run = frame[t].run /\ Exists(run)
    BY <2>2, CallType
  <2>5. UNCHANGED runs \/ runs' = [runs EXCEPT ![run].status = "WAITING"]
    BY <1>3, <2>4 DEF Act
  <2>6. \A r \in Runs : Paused(r)' => Paused(r) /\ runs'[r].idx = runs[r].idx
    <3>1. CASE UNCHANGED runs
      BY <3>1 DEF Paused, Exists
    <3>2. CASE runs' = [runs EXCEPT ![run].status = "WAITING"]
      <4>1. 0 \in Index
        BY TypesOfConstants
      <4>2. QED BY <1>0, <2>4, <3>2, <4>1, RowWritten
    <3>3. QED BY <2>5, <3>1, <3>2
  <2>7. ASSUME NEW r \in Runs, NEW i \in Index PROVE AheadOf(frame[t], r, i)' => AheadOf(frame[t], r, i)
    BY <2>1, <2>2, <2>3 DEF AheadOf, Post, Moves
  <2>8. NoneFails'
    BY <2>3, NoneFailsStays DEF Moves
  <2>9. QED BY <2>2, <2>3, <2>6, <2>7, <2>8, MovesAhead DEF Goes
<1>4. CASE Advance(t)
  <2>1. frame[t].pc = "advance" /\ UNCHANGED jobs
    BY <1>4 DEF Advance
  <2>2. PICK run \in Runs, k \in Index : run = frame[t].run /\ k = frame[t].idx /\ Exists(run)
    BY <2>1, CallType
  <2>3. k \in Nat /\ k < Len(frame[t].steps) /\ frame[t].steps \in Plans
    BY <2>1, <2>2, CallType, TypesOfConstants DEF Inv, CallsKnowTheirStep
  <2>4. PICK pc \in {"complete", "done", "enqueue"} : Goto(t, pc)
    BY <1>4 DEF Advance
  <2>5. Moves(t) /\ frame'[t].pc = pc /\ frame'[t].steps = frame[t].steps
    BY <2>1, <2>4, GotoIs DEF PCs
  <2>6. NoneFails'
    BY <2>5, NoneFailsStays DEF Moves
  <2>7. ASSUME NEW r \in Runs, NEW i \in Index PROVE AheadOf(frame[t], r, i)' => AheadOf(frame[t], r, i)
    <3>1. Len(frame[t].steps) \in Nat
      BY <2>3, TypesOfConstants
    <3>2. QED BY <2>1, <2>2, <2>3, <2>5, <3>1 DEF AheadOf, Post, Moves
  <2>8. CASE UNCHANGED runs
    <3>1. \A r \in Runs : Paused(r)' => Paused(r) /\ runs'[r].idx = runs[r].idx
      BY <2>8 DEF Paused, Exists
    <3>2. QED BY <2>1, <2>5, <2>6, <2>7, <3>1, MovesAhead DEF Goes
  <2>9. CASE Pause(frame[t].run, frame[t].idx + 1)
    <3>1. PICK n : n = k + 1
      OBVIOUS
    <3>2. runs' = [runs EXCEPT ![run].status = "WAITING_FOR_REPLY", ![run].idx = n]
      BY <2>2, <2>9, <3>1 DEF Pause
    <3>3. runs \in [Runs -> Run \union {NoRun}] /\ runs[run] \in Run
      BY <2>2 DEF Inv, TypeOK, Exists, NoRun
    <3>4. runs'[run].idx = n /\ \A q \in Runs \ {run} : runs'[q] = runs[q]
      BY <3>2, <3>3 DEF Run
    <3>5. ASSUME NEW r \in Runs, NEW i \in Index PROVE Ahead(r, i)' => Ahead(r, i)
      <4>1. CASE r = run
        <5>1. n <= i => AheadOf(frame[t], run, i)
          <6>1. i \in Nat /\ frame[t] # IdleFrame
            BY <2>1, CallType, TypesOfConstants
          <6>2. QED BY <2>1, <2>2, <2>3, <3>1, <6>1 DEF AheadOf, Post
        <5>2. Paused(r)' /\ runs'[r].idx <= i => Ahead(r, i)
          BY <3>4, <4>1, <5>1 DEF Ahead
        <5>3. AheadOf(frame[t], r, i)' => Ahead(r, i)
          BY <2>7 DEF Ahead
        <5>4. Alone(t) /\ UNCHANGED handler
          BY <2>5 DEF Moves
        <5>5. \A j \in jobs' : j.run = r /\ j.idx <= i => j \in jobs \/ Ahead(r, i)
          BY <2>1
        <5>6. t \in Handlers => \A s \in handler'[t].waiting : s.run = r /\ s.idx <= i => Ahead(r, i)
          BY <5>4 DEF Ahead
        <5>7. QED BY <5>2, <5>3, <5>4, <5>5, <5>6, AheadStays
      <4>2. CASE r # run
        <5>1. Paused(r)' => Paused(r) /\ runs'[r].idx = runs[r].idx
          BY <3>4, <4>2 DEF Paused, Exists
        <5>2. QED BY <2>1, <2>5, <2>7, <5>1, MovesAhead
      <4>3. QED BY <4>1, <4>2
    <3>6. QED BY <2>6, <3>5 DEF Goes
  <2>10. QED BY <1>4, <2>8, <2>9 DEF Advance
<1>5. CASE Enqueue(t)
  <2>1. frame[t].pc = "enqueue" /\ UNCHANGED <<runs>>
    BY <1>5 DEF Enqueue
  <2>2. PICK run \in Runs, k \in Index : run = frame[t].run /\ k = frame[t].idx /\ Exists(run) /\ frame[t] # IdleFrame
    BY <2>1, CallType
  <2>3. k \in Nat
    BY TypesOfConstants
  <2>4. \A i \in Index : k + 1 <= i => Ahead(run, i)
    <3>1. ASSUME NEW i \in Index, k + 1 <= i PROVE AheadOf(frame[t], run, i)
      <4>1. i \in Nat
        BY TypesOfConstants
      <4>2. QED BY <2>1, <2>2, <2>3, <3>1, <4>1 DEF AheadOf, Post
    <3>2. QED BY <3>1 DEF Ahead
  <2>5. \A r \in Runs : Paused(r)' => Paused(r) /\ runs'[r].idx = runs[r].idx
    BY <2>1 DEF Paused, Exists
  <2>6. CASE To(t, Call(frame[t].run, frame[t].idx + 1, frame[t].depth + 1)) /\ UNCHANGED jobs
    <3>1. PICK g : g = Call(frame[t].run, frame[t].idx + 1, frame[t].depth + 1)
      OBVIOUS
    <3>2. g.pc = "load" /\ g.run = run /\ g.idx = k + 1
      BY <2>2, <3>1 DEF Call
    <3>3. frame'[t] = g /\ (\A u \in Threads : u # t => frame'[u] = frame[u]) /\ UNCHANGED <<active, handler>>
      BY <2>6, <3>1 DEF To, Inv, TypeOK
    <3>4. Alone(t)
      BY <3>3 DEF Alone, Threads
    <3>5. NoneFails'
      BY <3>2, <3>3, <3>4, NoneFailsStays
    <3>6. ASSUME NEW r \in Runs, NEW i \in Index PROVE Ahead(r, i)' => Ahead(r, i)
      <4>1. AheadOf(frame[t], r, i)' => Ahead(r, i)
        BY <2>4, <3>2, <3>3 DEF AheadOf, Post
      <4>2. Paused(r)' /\ runs'[r].idx <= i => Ahead(r, i)
        BY <2>5 DEF Ahead
      <4>3. t \in Handlers => \A s \in handler'[t].waiting : s.run = r /\ s.idx <= i => Ahead(r, i)
        BY <3>3 DEF Ahead
      <4>4. \A j \in jobs' : j.run = r /\ j.idx <= i => j \in jobs \/ Ahead(r, i)
        BY <2>6
      <4>5. QED BY <3>4, <4>1, <4>2, <4>3, <4>4, AheadStays
    <3>7. QED BY <3>5, <3>6 DEF Goes
  <2>7. CASE Goto(t, "done") /\ \E id \in JobIds : Push(id, frame[t].run, frame[t].idx + 1)
    <3>1. PICK id \in JobIds : Push(id, frame[t].run, frame[t].idx + 1)
      BY <2>7
    <3>2. PICK j : j = [id |-> id, run |-> frame[t].run, idx |-> frame[t].idx + 1, attempts |-> 0, stalled |-> FALSE]
      OBVIOUS
    <3>3. jobs' = jobs \union {j} /\ j.run = run /\ j.idx = k + 1
      BY <2>2, <3>1, <3>2 DEF Push
    <3>4. Moves(t) /\ frame'[t].pc = "done"
      BY <2>1, <2>7, GotoIs DEF PCs
    <3>5. Alone(t) /\ UNCHANGED handler /\ NoneFails'
      BY <3>4, NoneFailsStays DEF Moves
    <3>6. ASSUME NEW r \in Runs, NEW i \in Index PROVE Ahead(r, i)' => Ahead(r, i)
      <4>1. ~AheadOf(frame[t], r, i)'
        BY <3>4 DEF AheadOf, Post
      <4>2. Paused(r)' /\ runs'[r].idx <= i => Ahead(r, i)
        BY <2>5 DEF Ahead
      <4>3. t \in Handlers => \A s \in handler'[t].waiting : s.run = r /\ s.idx <= i => Ahead(r, i)
        BY <3>5 DEF Ahead
      <4>4. \A b \in jobs' : b.run = r /\ b.idx <= i => b \in jobs \/ Ahead(r, i)
        BY <2>4, <3>3
      <4>5. QED BY <3>5, <4>1, <4>2, <4>3, <4>4, AheadStays
    <3>7. QED BY <3>5, <3>6 DEF Goes
  <2>8. QED BY <1>5, <2>6, <2>7 DEF Enqueue
<1>6. CASE Complete(t)
  <2>1. Goto(t, "done") /\ UNCHANGED jobs /\ frame[t].pc = "complete"
    BY <1>0, <1>6 DEF Complete
  <2>2. Moves(t) /\ frame'[t].pc = "done"
    BY <2>1, GotoIs DEF PCs
  <2>3. PICK run \in Runs : run = frame[t].run /\ Exists(run)
    BY <2>1, CallType
  <2>4. runs' = [runs EXCEPT ![run].status = "COMPLETED"] /\ 0 \in Index
    BY <1>6, <2>3, TypesOfConstants DEF Complete
  <2>5. \A r \in Runs : Paused(r)' => Paused(r) /\ runs'[r].idx = runs[r].idx
    BY <1>0, <2>3, <2>4, RowWritten
  <2>6. ASSUME NEW r \in Runs, NEW i \in Index PROVE ~AheadOf(frame[t], r, i)'
    BY <2>2 DEF AheadOf, Post
  <2>7. NoneFails'
    BY <2>2, NoneFailsStays DEF Moves
  <2>8. QED BY <2>1, <2>2, <2>5, <2>6, <2>7, MovesAhead DEF Goes
<1>7. CASE Return(t)
  <2>1. /\ frame[t].pc = "done" /\ frame' = [frame EXCEPT ![t] = IdleFrame]
        /\ active' = [w \in Workers |-> IF w = t THEN NoJob ELSE active[w]]
        /\ handler' = [h \in Handlers |->
             IF h = t /\ handler[h].stage = "resuming"
             THEN [handler[h] EXCEPT !.skip = @ \union {runs[frame[t].run].rule}]
             ELSE handler[h]]
        /\ UNCHANGED <<runs, jobs>>
    BY <1>7 DEF Return
  <2>2. frame'[t] = IdleFrame /\ \A u \in Threads : u # t => frame'[u] = frame[u]
    BY <2>1, FrameReplaced
  <2>3. \A h \in Handlers : /\ handler'[h].waiting = handler[h].waiting
                            /\ h # t => handler'[h] = handler[h]
    BY <2>1 DEF Inv, TypeOK, Handler
  <2>4. Alone(t)
    BY <2>1, <2>2, <2>3 DEF Alone
  <2>5. NoneFails'
    BY <2>2, <2>4, NoneFailsStays DEF IdleFrame
  <2>6. ASSUME NEW r \in Runs, NEW i \in Index PROVE Ahead(r, i)' => Ahead(r, i)
    <3>1. ~AheadOf(frame[t], r, i)'
      BY <2>2 DEF AheadOf
    <3>2. Paused(r)' /\ runs'[r].idx <= i => Ahead(r, i)
      BY <2>1 DEF Ahead, Paused, Exists
    <3>3. t \in Handlers => \A s \in handler'[t].waiting : s.run = r /\ s.idx <= i => Ahead(r, i)
      BY <2>3 DEF Ahead
    <3>4. \A j \in jobs' : j.run = r /\ j.idx <= i => j \in jobs \/ Ahead(r, i)
      BY <2>1
    <3>5. QED BY <2>4, <3>1, <3>2, <3>3, <3>4, AheadStays
  <2>7. QED BY <2>5, <2>6 DEF Goes
<1>8. QED BY <1>0, <1>1, <1>2, <1>3, <1>4, <1>5, <1>6, <1>7 DEF Processing, Fail

LEMMA WorkersGo ==
  ASSUME Inv, Shape, Calm, NoneFails, NEW w \in Workers, TakeJob(w) \/ Crash(w) PROVE Goes
<1>0. w \in Threads /\ w \notin Handlers /\ ~Crash(w)
  BY NoTrouble, ConstantsAssumption DEF Threads, Crash
<1>1. PICK j \in jobs : /\ jobs' = jobs \ {j} /\ active' = [active EXCEPT ![w] = j]
                        /\ frame' = [frame EXCEPT ![w] = Call(j.run, j.idx, 0)]
  BY <1>0 DEF TakeJob
<1>2. UNCHANGED <<runs, handler>>
  BY <1>0 DEF TakeJob
<1>3. PICK g : g = Call(j.run, j.idx, 0)
  OBVIOUS
<1>4. g.pc = "load" /\ g.run = j.run /\ g.idx = j.idx
  BY <1>3 DEF Call
<1>5. frame'[w] = g /\ Alone(w)
  BY <1>0, <1>1, <1>2, <1>3 DEF Inv, TypeOK, Alone
<1>6. NoneFails'
  BY <1>0, <1>4, <1>5, NoneFailsStays
<1>7. ASSUME NEW r \in Runs, NEW i \in Index PROVE Ahead(r, i)' => Ahead(r, i)
  <2>1. AheadOf(frame[w], r, i)' => Ahead(r, i)
    BY <1>4, <1>5 DEF AheadOf, Post, Ahead
  <2>2. Paused(r)' /\ runs'[r].idx <= i => Ahead(r, i)
    BY <1>2 DEF Ahead, Paused, Exists
  <2>3. \A b \in jobs' : b.run = r /\ b.idx <= i => b \in jobs \/ Ahead(r, i)
    BY <1>1
  <2>4. QED BY <1>0, <1>5, <2>1, <2>2, <2>3, AheadStays
<1>8. QED BY <1>6, <1>7 DEF Goes

\* A handler that is in no call.
LEMMA NoCallGoes ==
  ASSUME NoneFails, NEW h \in Handlers, Alone(h), frame'[h] = IdleFrame, UNCHANGED <<runs, jobs>>,
         \A s \in handler'[h].waiting : s \in handler[h].waiting \/ (Paused(s.run) /\ s.idx = runs[s.run].idx)
  PROVE  Goes
<1>1. h \in Threads /\ frame'[h].pc # "fail"
  BY DEF Threads, IdleFrame
<1>2. NoneFails'
  BY <1>1, NoneFailsStays
<1>3. ASSUME NEW r \in Runs, NEW i \in Index PROVE Ahead(r, i)' => Ahead(r, i)
  <2>1. ~AheadOf(frame[h], r, i)'
    BY DEF AheadOf
  <2>2. Paused(r)' /\ runs'[r].idx <= i => Ahead(r, i)
    BY DEF Ahead, Paused, Exists
  <2>3. \A s \in handler'[h].waiting : s.run = r /\ s.idx <= i => Ahead(r, i)
    BY DEF Ahead
  <2>4. \A j \in jobs' : j.run = r /\ j.idx <= i => j \in jobs \/ Ahead(r, i)
    OBVIOUS
  <2>5. QED BY <1>1, <2>1, <2>2, <2>3, <2>4, AheadStays
<1>4. QED BY <1>2, <1>3 DEF Goes

LEMMA PipelineGoes ==
  ASSUME Inv, Shape, Calm, NoneFails, NEW h \in Handlers,
         Pipeline(h) \/ AgentEvent(h) \/ Abort(h) \/ \E m \in Messages : Receive(h, m)
  PROVE  Goes
<1>0. h \in Threads /\ handler[h] \in Handler /\ Alone(h) /\ Apart(h) /\ ~Spend("faults")
  BY HandlerAlone, NoTrouble DEF Threads, Inv, TypeOK, Shape
<1>1. IdleHandler.stage = "idle" /\ IdleHandler.waiting = {}
  BY DEF IdleHandler
<1>2. CASE StartRun(h)
  <2>1. PICK u \in Rules :
          /\ handler' = [handler EXCEPT ![h].matched = @ \ {u}]
          /\ \/ UNCHANGED <<runs, frame>>
             \/ \E r \in Runs :
                  /\ NextRun(r)
                  /\ runs' = [runs EXCEPT ![r] =
                       [status |-> "PENDING", rule |-> u, idx |-> 0, by |-> handler[h].msg]]
                  /\ frame' = [frame EXCEPT ![h] = [Call(r, 0, 0) EXCEPT !.pc = "submit"]]
    BY <1>0, <1>2 DEF StartRun, Handler
  <2>2. frame[h] = IdleFrame /\ UNCHANGED jobs
    BY <1>2 DEF StartRun
  <2>3. handler'[h].waiting = handler[h].waiting
    BY <1>0, <2>1 DEF Inv, TypeOK, Handler
  <2>4. CASE UNCHANGED <<runs, frame>>
    BY <1>0, <2>2, <2>3, <2>4, NoCallGoes
  <2>5. ASSUME NEW n \in Runs, NextRun(n),
               runs' = [runs EXCEPT ![n] = [status |-> "PENDING", rule |-> u, idx |-> 0, by |-> handler[h].msg]],
               frame' = [frame EXCEPT ![h] = [Call(n, 0, 0) EXCEPT !.pc = "submit"]]
        PROVE  Goes
    <3>1. ~Exists(n) /\ \A q \in Runs \ {n} : runs'[q] = runs[q]
      BY <2>5 DEF NextRun, Inv, TypeOK
    <3>2. PICK g : g = [Call(n, 0, 0) EXCEPT !.pc = "submit"]
      OBVIOUS
    <3>3. g.run = n /\ g.pc = "submit" /\ frame'[h] = g
      BY <1>0, <2>5, <3>2 DEF Call, Inv, TypeOK
    <3>4. NoneFails'
      BY <1>0, <3>3, NoneFailsStays
    <3>5. ASSUME NEW r \in Runs, Exists(r), NEW i \in Index PROVE Ahead(r, i)' => Ahead(r, i)
      <4>1. ~AheadOf(frame[h], r, i)'
        BY <3>1, <3>3, <3>5 DEF AheadOf
      <4>2. Paused(r)' /\ runs'[r].idx <= i => Ahead(r, i)
        BY <3>1, <3>5 DEF Ahead, Paused, Exists
      <4>3. \A s \in handler'[h].waiting : s.run = r /\ s.idx <= i => Ahead(r, i)
        BY <2>3 DEF Ahead
      <4>4. \A j \in jobs' : j.run = r /\ j.idx <= i => j \in jobs \/ Ahead(r, i)
        BY <2>2
      <4>5. QED BY <1>0, <4>1, <4>2, <4>3, <4>4, AheadStays
    <3>6. QED BY <3>4, <3>5 DEF Goes
  <2>6. QED BY <2>1, <2>4, <2>5
<1>3. CASE Submit(h)
  <2>1. frame[h].pc = "submit" /\ frame[h] # IdleFrame /\ frame[h].idx = 0 /\ UNCHANGED <<runs, handler>>
    BY <1>0, <1>3, CallType DEF Submit, Apart
  <2>2. PICK run \in Runs : run = frame[h].run
    BY <1>0, <2>1, CallType
  <2>3. \A i \in Index : AheadOf(frame[h], run, i)
    BY <2>1, <2>2, TypesOfConstants DEF AheadOf
  <2>4. \A i \in Index : Ahead(run, i)
    BY <1>0, <2>3 DEF Ahead
  <2>5. CASE frame' = [frame EXCEPT ![h].pc = "load"] /\ UNCHANGED jobs
    <3>1. PICK g : g = [frame[h] EXCEPT !.pc = "load"]
      OBVIOUS
    <3>2. g.pc = "load" /\ g.run = run /\ frame'[h] = g
      BY <1>0, <2>1, <2>2, <2>5, <3>1, CallType DEF Frame, Inv, TypeOK
    <3>3. NoneFails'
      BY <1>0, <3>2, NoneFailsStays
    <3>4. ASSUME NEW r \in Runs, NEW i \in Index PROVE Ahead(r, i)' => Ahead(r, i)
      <4>1. AheadOf(frame[h], r, i)' => Ahead(r, i)
        BY <2>4, <3>2 DEF AheadOf
      <4>2. Paused(r)' /\ runs'[r].idx <= i => Ahead(r, i)
        BY <2>1 DEF Ahead, Paused, Exists
      <4>3. \A s \in handler'[h].waiting : s.run = r /\ s.idx <= i => Ahead(r, i)
        BY <2>1 DEF Ahead
      <4>4. \A j \in jobs' : j.run = r /\ j.idx <= i => j \in jobs \/ Ahead(r, i)
        BY <2>5
      <4>5. QED BY <1>0, <4>1, <4>2, <4>3, <4>4, AheadStays
    <3>5. QED BY <3>3, <3>4 DEF Goes
  <2>6. CASE frame' = [frame EXCEPT ![h] = IdleFrame] /\ \E id \in JobIds : Push(id, run, 0)
    <3>1. PICK id \in JobIds : Push(id, run, 0)
      BY <2>6
    <3>2. PICK j : j = [id |-> id, run |-> run, idx |-> 0, attempts |-> 0, stalled |-> FALSE]
      OBVIOUS
    <3>3. jobs' = jobs \union {j} /\ j.run = run
      BY <3>1, <3>2 DEF Push
    <3>4. frame'[h] = IdleFrame /\ frame'[h].pc # "fail"
      BY <1>0, <2>6 DEF Inv, TypeOK, IdleFrame
    <3>5. NoneFails'
      BY <1>0, <3>4, NoneFailsStays
    <3>6. ASSUME NEW r \in Runs, NEW i \in Index PROVE Ahead(r, i)' => Ahead(r, i)
      <4>1. ~AheadOf(frame[h], r, i)'
        BY <3>4 DEF AheadOf
      <4>2. Paused(r)' /\ runs'[r].idx <= i => Ahead(r, i)
        BY <2>1 DEF Ahead, Paused, Exists
      <4>3. \A s \in handler'[h].waiting : s.run = r /\ s.idx <= i => Ahead(r, i)
        BY <2>1 DEF Ahead
      <4>4. \A b \in jobs' : b.run = r /\ b.idx <= i => b \in jobs \/ Ahead(r, i)
        BY <2>4, <3>3
      <4>5. QED BY <1>0, <4>1, <4>2, <4>3, <4>4, AheadStays
    <3>7. QED BY <3>5, <3>6 DEF Goes
  <2>7. QED BY <1>0, <1>3, <2>2, <2>5, <2>6 DEF Submit
<1>4. CASE ResumeNext(h)
  <2>1. PICK s \in handler[h].waiting : /\ handler' = [handler EXCEPT ![h].waiting = @ \ {s}]
                                       /\ frame' = [frame EXCEPT ![h] = Call(s.run, s.idx, 0)]
    BY <1>4 DEF ResumeNext
  <2>2. UNCHANGED <<runs, jobs>>
    BY <1>4 DEF ResumeNext
  <2>3. handler'[h].waiting \subseteq handler[h].waiting /\ frame'[h] = Call(s.run, s.idx, 0)
    BY <1>0, <2>1 DEF Inv, TypeOK, Handler
  <2>4. frame'[h].pc = "load" /\ frame'[h].run = s.run /\ frame'[h].idx = s.idx
    BY <2>3 DEF Call
  <2>5. NoneFails'
    BY <1>0, <2>4, NoneFailsStays
  <2>6. ASSUME NEW r \in Runs, NEW i \in Index PROVE Ahead(r, i)' => Ahead(r, i)
    <3>1. AheadOf(frame[h], r, i)' => Ahead(r, i)
      BY <2>4 DEF AheadOf, Post, Ahead
    <3>2. Paused(r)' /\ runs'[r].idx <= i => Ahead(r, i)
      BY <2>2 DEF Ahead, Paused, Exists
    <3>3. \A q \in handler'[h].waiting : q.run = r /\ q.idx <= i => Ahead(r, i)
      BY <2>3 DEF Ahead
    <3>4. \A j \in jobs' : j.run = r /\ j.idx <= i => j \in jobs \/ Ahead(r, i)
      BY <2>2
    <3>5. QED BY <1>0, <3>1, <3>2, <3>3, <3>4, AheadStays
  <2>7. QED BY <2>5, <2>6 DEF Goes
<1>5. CASE EndDispatch(h) \/ EndResume(h)
  <2>1. frame[h] = IdleFrame /\ UNCHANGED <<frame, runs, jobs>> /\ handler[h].waiting = {}
    BY <1>0, <1>5 DEF EndDispatch, EndResume, Apart, TriggerTypes
  <2>2. handler'[h].waiting = {}
    BY <1>5, <2>1, EndedWaits
  <2>3. QED BY <1>0, <2>1, <2>2, NoCallGoes
<1>6. CASE ListWaiting(h)
  <2>1. frame[h] = IdleFrame /\ UNCHANGED <<frame, runs, jobs>>
    BY <1>0, <1>6 DEF ListWaiting, Apart
  <2>2. handler' = [handler EXCEPT ![h].stage = "resuming",
                ![h].waiting = {[run |-> r, idx |-> runs[r].idx] : r \in Resumable}]
    BY <1>0, <1>6 DEF ListWaiting
  <2>3. handler'[h].waiting = {[run |-> r, idx |-> runs[r].idx] : r \in Resumable}
    BY <1>0, <2>2 DEF Inv, TypeOK, Handler
  <2>4. \A s \in handler'[h].waiting : Paused(s.run) /\ s.idx = runs[s.run].idx
    BY <2>3 DEF Resumable
  <2>5. QED BY <1>0, <2>1, <2>4, NoCallGoes
<1>7. CASE AgentEvent(h)
  <2>1. handler[h] = IdleHandler /\ UNCHANGED <<frame, runs, jobs>>
    BY <1>7 DEF AgentEvent
  <2>2. frame[h] = IdleFrame /\ handler[h].waiting = {}
    BY <1>0, <1>1, <2>1 DEF Apart
  <2>3. handler'[h].waiting = {}
    BY <1>0, <1>7, <2>2 DEF AgentEvent, EnterDispatch, Inv, TypeOK, Handler
  <2>4. QED BY <1>0, <2>1, <2>2, <2>3, NoCallGoes
<1>8. CASE Abort(h)
  <2>1. frame'[h] = IdleFrame /\ handler'[h] = IdleHandler /\ UNCHANGED <<runs, jobs>>
    BY <1>0, <1>8 DEF Abort, Inv, TypeOK
  <2>2. QED BY <1>0, <1>1, <2>1, NoCallGoes
<1>9. CASE \E m \in Messages : Receive(h, m)
  <2>1. handler[h] = IdleHandler /\ UNCHANGED <<frame, runs, jobs>>
    BY <1>9 DEF Receive
  <2>2. frame[h] = IdleFrame
    BY <1>0, <1>1, <2>1 DEF Apart
  <2>3. handler'[h].waiting = {}
    BY <1>0, <1>9, ReceivedWaits
  <2>4. QED BY <1>0, <2>1, <2>2, <2>3, NoCallGoes
<1>10. QED BY <1>2, <1>3, <1>4, <1>5, <1>6, <1>7, <1>8, <1>9 DEF Pipeline

LEMMA EveryStepGoes ==
  ASSUME Inv, Shape, Calm, NoneFails, [Next]_vars PROVE Goes
<1>1. ASSUME NEW t \in Threads, Processing(t) \/ Fault(t) PROVE Goes
  BY <1>1, NoTrouble, ProcessingGoes DEF Fault
<1>2. ASSUME NEW w \in Workers, TakeJob(w) \/ Crash(w) PROVE Goes
  BY <1>2, WorkersGo
<1>3. ASSUME NEW h \in Handlers, Pipeline(h) \/ AgentEvent(h) \/ Abort(h) \/ \E m \in Messages : Receive(h, m)
      PROVE  Goes
  BY <1>3, PipelineGoes
<1>4. ASSUME UNCHANGED <<jobs, frame, handler>>, \A r \in Runs : Paused(r)' => Paused(r) /\ runs'[r].idx = runs[r].idx
      PROVE  Goes
  <2>1. NoneFails'
    BY <1>4 DEF NoneFails
  <2>2. ASSUME NEW r \in Runs, NEW i \in Index PROVE Ahead(r, i)' => Ahead(r, i)
    BY <1>4 DEF Ahead, AheadOf, Post
  <2>3. QED BY <2>1, <2>2 DEF Goes
<1>5. ASSUME NEW c \in Crons, FailStale(c) PROVE Goes
  <2>1. UNCHANGED <<jobs, frame, handler>>
    BY <1>5 DEF FailStale
  <2>2. (UNCHANGED runs) \/ \E r \in cron[c] : runs' = [runs EXCEPT ![r].status = "FAILED"]
    BY <1>5 DEF FailStale
  <2>3. \A r \in Runs : Paused(r)' => Paused(r) /\ runs'[r].idx = runs[r].idx
    <3>1. runs \in [Runs -> Run \union {NoRun}]
      BY DEF Inv, TypeOK
    <3>2. CASE UNCHANGED runs
      BY <3>2 DEF Paused, Exists
    <3>3. ASSUME NEW r \in cron[c], runs' = [runs EXCEPT ![r].status = "FAILED"], NEW q \in Runs, Paused(q)'
          PROVE  Paused(q) /\ runs'[q].idx = runs[q].idx
      <4>1. CASE q # r
        BY <3>1, <3>3, <4>1 DEF Paused, Exists
      <4>2. CASE q = r
        <5>1. runs[r] \in Run => runs'[r].status = "FAILED"
          BY <3>1, <3>3, <4>2 DEF Run
        <5>2. runs[r] \notin Run => runs[r] = NoRun
          BY <3>1, <4>2
        <5>3. runs[r] = NoRun => runs'[r].status # "WAITING_FOR_REPLY"
          BY <3>1, <3>3, <4>2 DEF NoRun
        <5>4. QED BY <3>3, <4>2, <5>1, <5>2, <5>3 DEF Paused
      <4>3. QED BY <4>1, <4>2
    <3>4. QED BY <2>2, <3>2, <3>3
  <2>4. QED BY <1>4, <2>1, <2>3
<1>6. ASSUME UNCHANGED <<runs, jobs, frame, handler>> PROVE Goes
  BY <1>4, <1>6 DEF Paused, Exists
<1>7. QED
  BY <1>1, <1>2, <1>3, <1>5, <1>6 DEF Next, ReadStale, UpdateRule, DeleteRule, vars

-----------------------------------------------------------------------------

LEMMA MaxIsIndex == MaxSteps \in Index /\ MaxSteps \in Nat
  BY ConstantsAssumption DEF Index

LEMMA AtWorkAhead ==
  ASSUME Inv, NEW t \in Threads, frame[t].pc \in {"start", "act", "advance", "complete"}
  PROVE  AheadOf(frame[t], frame[t].run, MaxSteps)
<1>1. /\ frame[t] # IdleFrame /\ frame[t].idx \in Nat /\ frame[t].idx <= MaxSteps
      /\ frame[t].steps \in Plans \union {<<>>}
  BY CallType, TypesOfConstants
<1>2. CASE frame[t].pc = "start"
  BY <1>1, <1>2 DEF AheadOf
<1>3. CASE frame[t].pc \in {"act", "advance"}
  <2>1. frame[t].steps \in Plans /\ frame[t].idx < Len(frame[t].steps)
    BY <1>1, <1>3 DEF Inv, CallsKnowTheirStep
  <2>2. frame[t].idx < MaxSteps
    BY <1>1, <2>1, TypesOfConstants, MaxIsIndex
  <2>3. QED BY <1>1, <1>3, <2>2 DEF AheadOf, Post
<1>4. CASE frame[t].pc = "complete"
  <2>1. Len(frame[t].steps) \in Nat /\ Len(frame[t].steps) <= MaxSteps
    BY <1>1, TypesOfConstants, MaxIsIndex
  <2>2. frame[t].idx >= Len(frame[t].steps) \/ (frame[t].idx < Len(frame[t].steps) /\ frame[t].idx < MaxSteps)
    BY <1>1, <2>1, MaxIsIndex
  <2>3. QED BY <1>1, <1>4, <2>2 DEF AheadOf, Post
<1>5. QED BY <1>2, <1>3, <1>4

LEMMA DueAhead ==
  ASSUME Inv, NEW t \in Threads, NEW r \in Runs, NEW i \in Index, AheadOf(frame[t], r, i)
  PROVE  DueBy(frame[t], r, i)
<1>1. frame[t].pc # "idle"
  BY DEF AheadOf, Post
<1>2. frame[t].idx \in Nat /\ i \in Nat
  BY <1>1, CallType, TypesOfConstants
<1>3. QED BY <1>2 DEF AheadOf, DueBy, Pre

LEMMA AtWorkUnsettled ==
  ASSUME Inv, SettledIsQuiet, NEW t \in Threads, frame[t].pc \in {"start", "act", "advance", "complete"}
  PROVE  ~IsSettled(frame[t].run)
<1>1. frame[t].run \in Runs
  BY CallType
<1>2. Ahead(frame[t].run, MaxSteps)
  BY AtWorkAhead DEF Ahead
<1>3. QED BY <1>1, <1>2 DEF SettledIsQuiet

Serial == Calm /\ OneHandler /\ Crons = {}
Unsettling ==
  UNCHANGED executed /\ \A r \in Runs : runs'[r] = runs[r] \/ (~IsSettled(r) /\ ~IsSettled(r)')

\* Only a step that takes effect, or the end of a run, can be seen.
LEMMA WhatIsSeen ==
  ASSUME Inv, Shape, Serial, NoneFails, SettledIsQuiet, [Next]_vars
  PROVE  Unsettling \/ \E t \in Threads : Act(t) \/ Complete(t)
<1>0. ~Spend("faults") /\ ~Spend("crashes") /\ Crons = {}
  BY NoTrouble DEF Serial
<1>1. ASSUME NEW t \in Threads, Start(t) PROVE Unsettling
  <2>1. PICK run \in Runs, k \in Index : run = frame[t].run /\ k = frame[t].idx /\ Exists(run)
    BY <1>1, CallType DEF Start
  <2>2. runs' = [runs EXCEPT ![run].status = "RUNNING", ![run].idx = k] /\ ~IsSettled(run)
    BY <1>1, <2>1, AtWorkUnsettled DEF Start
  <2>3. runs'[run].status = "RUNNING" /\ \A q \in Runs \ {run} : runs'[q] = runs[q]
    BY <2>1, <2>2, WrittenRowKeeps DEF Status
  <2>4. ~IsSettled(run)'
    BY <2>3 DEF IsSettled, Settled
  <2>5. UNCHANGED executed
    BY <1>1 DEF Start
  <2>6. QED BY <2>2, <2>3, <2>4, <2>5 DEF Unsettling
<1>2. ASSUME NEW t \in Threads, Advance(t) PROVE Unsettling
  <2>1. PICK run \in Runs : run = frame[t].run /\ Exists(run) /\ ~IsSettled(run)
    BY <1>2, CallType, AtWorkUnsettled DEF Advance
  <2>2. (UNCHANGED runs) \/ runs' = [runs EXCEPT ![run].status = "WAITING_FOR_REPLY", ![run].idx = frame[t].idx + 1]
    BY <1>2, <2>1 DEF Advance, Pause
  <2>3. UNCHANGED executed
    BY <1>2 DEF Advance
  <2>4. CASE UNCHANGED runs
    BY <2>3, <2>4 DEF Unsettling
  <2>5. CASE runs' = [runs EXCEPT ![run].status = "WAITING_FOR_REPLY", ![run].idx = frame[t].idx + 1]
    <3>1. runs \in [Runs -> Run \union {NoRun}] /\ runs[run] \in Run
      BY <2>1 DEF Inv, TypeOK, Exists, NoRun
    <3>2. runs'[run].status = "WAITING_FOR_REPLY" /\ \A q \in Runs \ {run} : runs'[q] = runs[q]
      BY <2>5, <3>1 DEF Run
    <3>3. ~IsSettled(run)'
      BY <3>2 DEF IsSettled, Settled
    <3>4. QED BY <2>1, <2>3, <3>2, <3>3 DEF Unsettling
  <2>6. QED BY <2>2, <2>4, <2>5
<1>3. ASSUME NEW h \in Handlers, StartRun(h) PROVE Unsettling
  <2>1. /\ UNCHANGED executed
        /\ \/ UNCHANGED runs
           \/ \E r \in Runs, u \in Rules :
                /\ NextRun(r)
                /\ runs' = [runs EXCEPT ![r] =
                     [status |-> "PENDING", rule |-> u, idx |-> 0, by |-> handler[h].msg]]
    BY <1>3 DEF StartRun, Inv, TypeOK, Handler
  <2>2. ASSUME NEW r \in Runs, NEW u \in Rules, NextRun(r),
               runs' = [runs EXCEPT ![r] = [status |-> "PENDING", rule |-> u, idx |-> 0, by |-> handler[h].msg]]
        PROVE  \A q \in Runs : runs'[q] = runs[q] \/ (~IsSettled(q) /\ ~IsSettled(q)')
    <3>1. runs'[r].status = "PENDING" /\ runs[r].status = "NONE" /\ \A q \in Runs \ {r} : runs'[q] = runs[q]
      BY <2>2 DEF NextRun, Exists, Inv, TypeOK
    <3>2. QED BY <3>1 DEF IsSettled, Settled
  <2>3. QED BY <2>1, <2>2 DEF Unsettling
<1>4. ASSUME UNCHANGED <<runs, executed>> PROVE Unsettling
  BY <1>4 DEF Unsettling
<1>5. ASSUME NEW t \in Threads, Processing(t) \/ Fault(t)
      PROVE  Unsettling \/ Act(t) \/ Complete(t)
  <2>1. ~Fault(t) /\ ~Fail(t)
    BY <1>0 DEF Fault, Fail, NoneFails
  <2>2. Load(t) \/ Enqueue(t) \/ Return(t) => UNCHANGED <<runs, executed>>
    BY DEF Load, Enqueue, Return
  <2>3. QED BY <1>1, <1>2, <1>4, <1>5, <2>1, <2>2 DEF Processing
<1>6. ASSUME NEW h \in Handlers, Pipeline(h) PROVE Unsettling
  <2>1. StartRun(h) \/ UNCHANGED <<runs, executed>>
    BY <1>6 DEF Pipeline, Submit, EndDispatch, ListWaiting, ResumeNext, EndResume
  <2>2. QED BY <1>3, <1>4, <2>1
<1>7. QED
  BY <1>0, <1>4, <1>5, <1>6
  DEF Next, TakeJob, Crash, AgentEvent, Abort, Receive, ReadStale, UpdateRule, DeleteRule, vars

LEMMA ResumesChange ==
  ASSUME [Next]_vars PROVE UNCHANGED resumes \/ \E t \in Threads : Start(t)
<1>1. ASSUME NEW t \in Threads, Processing(t) \/ Fault(t) PROVE UNCHANGED resumes \/ Start(t)
  BY <1>1 DEF Processing, Fault, Load, Act, Advance, Enqueue, Complete, Fail, Return
<1>2. ASSUME NEW h \in Handlers, Pipeline(h) \/ AgentEvent(h) \/ Abort(h) \/ \E m \in Messages : Receive(h, m)
      PROVE  UNCHANGED resumes
  BY <1>2 DEF Pipeline, StartRun, Submit, EndDispatch, ListWaiting, ResumeNext, EndResume, AgentEvent, Abort, Receive
<1>3. QED BY <1>1, <1>2 DEF Next, TakeJob, Crash, FailStale, ReadStale, UpdateRule, DeleteRule, vars

\* A call that comes to the end of a run leaves nothing ahead of it.
LEMMA EndIsQuiet ==
  ASSUME Inv, Shape, Serial, WeightKept, NoneFails, NEW t \in Threads, Complete(t), NEW run \in Runs, run = frame[t].run
  PROVE  /\ ~Ahead(run, MaxSteps)' /\ UNCHANGED executed
         /\ runs'[run].status = "COMPLETED" /\ \A q \in Runs \ {run} : runs'[q] = runs[q]
<1>1. Goto(t, "done") /\ UNCHANGED <<jobs, executed>> /\ frame[t].pc = "complete"
  BY NoTrouble DEF Complete, Serial
<1>2. Moves(t) /\ frame'[t].pc = "done" /\ Alone(t) /\ UNCHANGED handler
  BY <1>1, GotoIs DEF PCs, Moves
<1>3. run = frame[t].run /\ Exists(run)
  BY <1>1, CallType
<1>4. runs' = [runs EXCEPT ![run].status = "COMPLETED"] /\ 0 \in Index /\ "COMPLETED" \in Status
  BY <1>3, TypesOfConstants DEF Complete, Status, Settled
<1>5. runs'[run].status = "COMPLETED" /\ \A q \in Runs \ {run} : runs'[q] = runs[q]
  BY <1>3, <1>4, WrittenRowKeeps
<1>6. DueBy(frame[t], run, MaxSteps)
  BY <1>1, <1>3, AtWorkAhead, DueAhead, MaxIsIndex
<1>7. /\ \A j \in jobs : ~(j.run = run /\ j.idx <= MaxSteps)
      /\ \A u \in Threads \ {t} : ~DueBy(frame[u], run, MaxSteps)
      /\ ~Reading(t) => ~ToResume(run, MaxSteps)
  BY <1>6, AtWorkAlone, MaxIsIndex DEF Serial
<1>8. ASSUME NEW u \in Threads PROVE ~AheadOf(frame[u], run, MaxSteps)'
  <2>1. CASE u = t
    BY <1>2, <2>1 DEF AheadOf, Post
  <2>2. CASE u # t
    <3>1. frame'[u] = frame[u] /\ ~AheadOf(frame[u], run, MaxSteps)
      BY <1>2, <1>7, <2>2, DueAhead, MaxIsIndex DEF Alone
    <3>2. QED BY <3>1 DEF AheadOf, Post
  <2>3. QED BY <2>1, <2>2
<1>9. ASSUME NEW h \in Handlers, NEW s \in handler'[h].waiting PROVE ~(s.run = run /\ s.idx <= MaxSteps)
  <2>1. s \in handler[h].waiting
    BY <1>2, <1>9
  <2>2. CASE Reading(t)
    <3>1. h = t /\ Apart(h) /\ frame[t] # IdleFrame
      BY <2>2 DEF Reading, ReadsIn, Serial, OneHandler, Shape
    <3>2. QED BY <1>3, <2>1, <3>1 DEF Apart
  <2>3. CASE ~Reading(t)
    BY <1>7, <2>1, <2>3 DEF ToResume
  <2>4. QED BY <2>2, <2>3
<1>10. ~Ahead(run, MaxSteps)'
  BY <1>1, <1>5, <1>7, <1>8, <1>9 DEF Ahead, Paused
<1>11. QED BY <1>1, <1>5, <1>10

LEMMA QuietStays ==
  ASSUME Inv, Shape, Serial, WeightKept, NoneFails, SettledIsQuiet, [Next]_vars PROVE SettledIsQuiet'
<1>1. ASSUME NEW r \in Runs, IsSettled(r) PROVE ~Ahead(r, MaxSteps)'
  <2>1. Exists(r) /\ ~Ahead(r, MaxSteps)
    BY <1>1 DEF IsSettled, Settled, Exists, SettledIsQuiet
  <2>2. QED BY <2>1, EveryStepGoes, MaxIsIndex DEF Goes, Serial
<1>2. ASSUME NEW r \in Runs, ~IsSettled(r), IsSettled(r)' PROVE ~Ahead(r, MaxSteps)'
  <2>1. CASE Unsettling
    BY <1>2, <2>1 DEF Unsettling, IsSettled
  <2>2. ASSUME NEW t \in Threads, Act(t) PROVE FALSE
    <3>1. PICK run \in Runs : run = frame[t].run /\ Exists(run)
      BY <2>2, CallType DEF Act
    <3>2. (UNCHANGED runs) \/ runs' = [runs EXCEPT ![run].status = "WAITING"]
      BY <2>2, <3>1 DEF Act
    <3>3. CASE runs' = [runs EXCEPT ![run].status = "WAITING"]
      <4>1. runs \in [Runs -> Run \union {NoRun}] /\ runs[run] \in Run
        BY <3>1 DEF Inv, TypeOK, Exists, NoRun
      <4>2. runs'[run].status = "WAITING" /\ \A q \in Runs \ {run} : runs'[q] = runs[q]
        BY <3>3, <4>1 DEF Run
      <4>3. QED BY <1>2, <4>2 DEF IsSettled, Settled
    <3>4. QED BY <1>2, <3>2, <3>3 DEF IsSettled
  <2>3. ASSUME NEW t \in Threads, Complete(t) PROVE ~Ahead(r, MaxSteps)'
    <3>1. PICK run \in Runs : run = frame[t].run
      BY <2>3, CallType DEF Complete
    <3>2. ~Ahead(run, MaxSteps)' /\ \A q \in Runs \ {run} : runs'[q] = runs[q]
      BY <2>3, <3>1, EndIsQuiet
    <3>3. r = run
      BY <1>2, <3>2 DEF IsSettled
    <3>4. QED BY <3>2, <3>3
  <2>4. QED BY <2>1, <2>2, <2>3, WhatIsSeen
<1>3. QED BY <1>1, <1>2 DEF SettledIsQuiet

\* The start of a step leaves nothing ahead of it.
LEMMA StartIsLast ==
  ASSUME Inv, Shape, Calm, OneHandler, WeightKept, NEW t \in Threads, Start(t), t \in Handlers,
         NEW run \in Runs, run = frame[t].run, NEW k \in Index, k = frame[t].idx
  PROVE  ~Ahead(run, k)'
<1>1. Goto(t, "act") /\ UNCHANGED jobs /\ frame[t].pc = "start"
  BY NoTrouble DEF Start
<1>2. Moves(t) /\ frame'[t].pc = "act" /\ Alone(t) /\ UNCHANGED handler
  BY <1>1, GotoIs DEF PCs, Moves
<1>3. run = frame[t].run /\ k = frame[t].idx /\ Exists(run) /\ frame[t] # IdleFrame
  BY <1>1, CallType
<1>4. runs' = [runs EXCEPT ![run].status = "RUNNING", ![run].idx = k]
  BY <1>3 DEF Start
<1>5. runs'[run].status = "RUNNING"
  BY <1>3, <1>4, WrittenRowKeeps DEF Status
<1>6. k \in Nat /\ DueBy(frame[t], run, k)
  BY <1>1, <1>3, TypesOfConstants DEF DueBy, Pre
<1>7. /\ \A j \in jobs : ~(j.run = run /\ j.idx <= k)
      /\ \A u \in Threads \ {t} : ~DueBy(frame[u], run, k)
  BY <1>6, AtWorkAlone
<1>8. ASSUME NEW u \in Threads PROVE ~AheadOf(frame[u], run, k)'
  <2>1. CASE u = t
    BY <1>2, <1>3, <1>6, <2>1 DEF AheadOf, Post, Moves
  <2>2. CASE u # t
    <3>1. frame'[u] = frame[u] /\ ~AheadOf(frame[u], run, k)
      BY <1>2, <1>7, <2>2, DueAhead DEF Alone
    <3>2. QED BY <3>1 DEF AheadOf, Post
  <2>3. QED BY <2>1, <2>2
<1>9. \A h \in Handlers : \A s \in handler'[h].waiting : s.run # run
  BY <1>2, <1>3 DEF OneHandler, Shape, Apart
<1>10. QED BY <1>1, <1>5, <1>7, <1>8, <1>9 DEF Ahead, Paused

LEMMA PausesStayOver ==
  ASSUME Inv, Shape, Calm, OneHandler, WeightKept, NoneFails, PausesAreOver, [Next]_vars PROVE PausesAreOver'
<1>1. ASSUME NEW e \in resumes PROVE Exists(e.run)' /\ ~Ahead(e.run, e.idx)'
  <2>1. e.run \in Runs /\ e.idx \in Index /\ Exists(e.run) /\ ~Ahead(e.run, e.idx)
    BY DEF PausesAreOver, Inv, TypeOK
  <2>2. QED BY <2>1, EveryStepGoes, RowsStay DEF Goes, RowKept
<1>2. CASE UNCHANGED resumes
  <2>1. PauseEndsOnce'
    BY <1>2 DEF PausesAreOver, PauseEndsOnce
  <2>2. QED BY <1>1, <1>2, <2>1 DEF PausesAreOver
<1>3. ASSUME NEW t \in Threads, Start(t), t \in Handlers, handler[t].stage = "resuming",
             NEW n, n = [run |-> frame[t].run, idx |-> frame[t].idx, msg |-> handler[t].msg],
             resumes' = resumes \union {n}
      PROVE  PausesAreOver'
  <2>1. ~Ahead(n.run, n.idx)'
    <3>1. PICK run \in Runs, k \in Index : run = frame[t].run /\ k = frame[t].idx
      BY <1>3, CallType DEF Start
    <3>2. ~Ahead(run, k)'
      BY <1>3, <3>1, StartIsLast
    <3>3. n.run = run /\ n.idx = k
      BY <1>3, <3>1
    <3>4. QED BY <3>2, <3>3
  <2>2. Exists(n.run)'
    <3>1. frame[t].run \in Runs /\ Exists(frame[t].run)
      BY <1>3, CallType DEF Start
    <3>2. QED BY <1>3, <3>1, RowsStay DEF RowKept
  <2>3. Ahead(n.run, n.idx)
    <3>1. frame[t].pc = "start" /\ frame[t] # IdleFrame /\ frame[t].idx \in Nat
      BY <1>3, CallType, TypesOfConstants DEF Start
    <3>2. AheadOf(frame[t], n.run, n.idx)
      BY <1>3, <3>1 DEF AheadOf
    <3>3. QED BY <3>2 DEF Ahead
  <2>4. \A e \in resumes : ~(e.run = n.run /\ e.idx = n.idx)
    BY <2>3 DEF PausesAreOver
  <2>5. PauseEndsOnce'
    BY <1>3, <2>4 DEF PausesAreOver, PauseEndsOnce
  <2>6. \A e \in resumes' : Exists(e.run)' /\ ~Ahead(e.run, e.idx)'
    BY <1>1, <1>3, <2>1, <2>2
  <2>7. QED BY <2>5, <2>6 DEF PausesAreOver
<1>4. ASSUME NEW t \in Threads, Start(t) PROVE PausesAreOver'
  <2>1. \/ UNCHANGED resumes
        \/ /\ t \in Handlers /\ handler[t].stage = "resuming"
           /\ resumes' = resumes \union {[run |-> frame[t].run, idx |-> frame[t].idx, msg |-> handler[t].msg]}
    BY <1>4 DEF Start
  <2>2. QED BY <1>2, <1>3, <1>4, <2>1
<1>5. QED BY <1>2, <1>4, ResumesChange

LEMMA SerialInitially == Init => NoneFails /\ SettledIsQuiet /\ PausesAreOver
<1> SUFFICES ASSUME Init PROVE NoneFails /\ SettledIsQuiet /\ PausesAreOver
  OBVIOUS
<1>1. NoneFails
  BY DEF Init, NoneFails, IdleFrame
<1>2. SettledIsQuiet
  BY DEF Init, SettledIsQuiet, IsSettled, Settled, NoRun
<1>3. PausesAreOver
  BY DEF Init, PausesAreOver, PauseEndsOnce
<1>4. QED BY <1>1, <1>2, <1>3

Steady == Inv /\ Whole /\ Shape /\ WeightKept /\ NoneFails

LEMMA SteadyInitially == Init => Steady
  BY Initially, WholeInitially, ShapeInitially, WeightInitially, SerialInitially DEF Steady

LEMMA SteadyStays == ASSUME Calm, OneHandler, Steady, [Next]_vars PROVE Steady'
<1>1. Inv' /\ Whole' /\ Shape' /\ WeightKept'
  BY EveryStep, WholeKept, ShapeKept, WeightStays DEF Steady
<1>2. NoneFails'
  BY EveryStepGoes DEF Steady, Goes
<1>3. QED BY <1>1, <1>2 DEF Steady

\* Messages handled one at a time and no call failing, one message ends one pause of a run:
\* resumeWaitingRuns never resumes a run twice at the same step, whatever workers, edits of
\* the rules, redeliveries and aborted messages do.
THEOREM PausesEndOnce == Calm /\ OneHandler => (Spec => []PauseEndsOnce)
<1> SUFFICES ASSUME Calm, OneHandler PROVE Spec => []PauseEndsOnce
  OBVIOUS
<1>1. Init => Steady /\ PausesAreOver
  BY SteadyInitially, SerialInitially
<1>2. Steady /\ PausesAreOver /\ [Next]_vars => (Steady /\ PausesAreOver)'
  <2>1. Steady /\ PausesAreOver /\ [Next]_vars => PausesAreOver'
    BY PausesStayOver DEF Steady
  <2>2. QED BY <2>1, SteadyStays
<1>3. PausesAreOver => PauseEndsOnce
  BY DEF PausesAreOver
<1>4. QED BY <1>1, <1>2, <1>3, PTL DEF Spec

\* The same, where no hourly timeout comes in between: a run that is COMPLETED or FAILED
\* is never written again, by no late job, worker or resumption.
THEOREM SettledRunsStay == Serial => (Spec => SettledIsFinal)
<1> SUFFICES ASSUME Serial PROVE Spec => SettledIsFinal
  OBVIOUS
<1>0. Calm /\ OneHandler
  BY DEF Serial
<1>1. Init => Steady /\ SettledIsQuiet
  BY SteadyInitially, SerialInitially
<1>2. Steady /\ SettledIsQuiet /\ [Next]_vars => (Steady /\ SettledIsQuiet)'
  <2>1. Steady /\ SettledIsQuiet /\ [Next]_vars => SettledIsQuiet'
    BY QuietStays DEF Steady
  <2>2. QED BY <1>0, <2>1, SteadyStays
<1>3. Steady /\ SettledIsQuiet /\ [Next]_vars => [\A r \in Runs : IsSettled(r) => runs'[r] = runs[r]]_runs
  <2> SUFFICES ASSUME Steady, SettledIsQuiet, [Next]_vars, NEW r \in Runs, IsSettled(r) PROVE runs'[r] = runs[r]
    OBVIOUS
  <2>1. CASE Unsettling
    BY <2>1 DEF Unsettling
  <2>2. ASSUME NEW t \in Threads, Act(t) \/ Complete(t) PROVE runs'[r] = runs[r]
    <3>1. PICK run \in Runs : run = frame[t].run /\ Exists(run) /\ ~IsSettled(run)
      BY <2>2, CallType, AtWorkUnsettled DEF Act, Complete, Steady
    <3>2. (UNCHANGED runs) \/ \E s \in {"WAITING", "COMPLETED"} : runs' = [runs EXCEPT ![run].status = s]
      BY <2>2, <3>1 DEF Act, Complete
    <3>3. runs \in [Runs -> Run \union {NoRun}] /\ r # run
      BY <3>1 DEF Steady, Inv, TypeOK
    <3>4. QED BY <3>2, <3>3
  <2>3. QED BY <2>1, <2>2, WhatIsSeen DEF Steady
<1>4. QED BY <1>1, <1>2, <1>3, PTL DEF Spec, SettledIsFinal

\* An executed step is the next one of AutomationPromise, and its run is not over.
LEMMA ActPerforms ==
  ASSUME Steady, Serial, SettledIsQuiet, NEW t \in Threads, Act(t)
  PROVE  \E r \in Runs, i \in Index : Promise!Perform(r, i)
<1>0. Inv /\ Shape /\ WeightKept /\ Calm /\ OneHandler
  BY DEF Steady, Serial
<1>1. PICK run \in Runs, k \in Index : run = frame[t].run /\ k = frame[t].idx /\ Exists(run) /\ frame[t] # IdleFrame
  BY <1>0, CallType DEF Act
<1>2. frame[t].pc = "act" /\ ~IsSettled(run)
  BY <1>0, <1>1, AtWorkUnsettled DEF Act
<1>3. executed \in [Runs -> [Index -> Nat]] /\ executed' = [executed EXCEPT ![run][k] = @ + 1]
  BY <1>0, <1>1 DEF Act, Inv, TypeOK
<1>4. ASSUME NEW i \in Index, i < k PROVE executed[run][i] = 1
  <2>1. executed[run][i] > 0
    BY <1>0, <1>1, <1>4 DEF Inv, NoStepSkipped, Done
  <2>2. executed[run][i] <= 1
    <3>1. Used("crashes") = 0 /\ Used("faults") = 0
      BY <1>0, UsedIs DEF Calm, Shape, BudgetKept, Events
    <3>2. executed[run][i] <= 1 + 0 + 0 \div 2
      BY <1>0, <3>1, WeightSuffices DEF RepeatsNeedACrash
    <3>3. QED BY <1>3, <3>2
  <2>3. executed[run][i] \in Nat
    BY <1>3
  <2>4. QED BY <2>1, <2>2, <2>3
<1>5. ASSUME NEW i \in Index, k <= i PROVE executed[run][i] = 0
  <2>1. DueBy(frame[t], run, i)
    BY <1>1, <1>2, <1>5 DEF DueBy, Pre
  <2>2. QED BY <1>0, <2>1, AtWorkAlone
<1>6. Promise!IsNext(run, k)
  <2> SUFFICES ASSUME NEW i \in Index PROVE executed[run][i] = IF i < k THEN 1 ELSE 0
    BY DEF Promise!IsNext
  <2>1. i \in Nat /\ k \in Nat
    BY TypesOfConstants
  <2>2. QED BY <1>4, <1>5, <2>1
<1>7. executed' = [executed EXCEPT ![run][k] = 1]
  <2>1. executed[run][k] = 0
    <3>1. k \in Nat
      BY TypesOfConstants
    <3>2. QED BY <1>5, <3>1
  <2>2. QED BY <1>3, <2>1
<1>8. {r \in Runs : IsSettled(r)}' = {r \in Runs : IsSettled(r)}
  <2>1. (UNCHANGED runs) \/ runs' = [runs EXCEPT ![run].status = "WAITING"]
    BY <1>1 DEF Act
  <2>2. CASE runs' = [runs EXCEPT ![run].status = "WAITING"]
    <3>1. runs'[run].status = "WAITING" /\ \A q \in Runs \ {run} : runs'[q] = runs[q]
      <4>1. runs \in [Runs -> Run \union {NoRun}] /\ runs[run] \in Run
        BY <1>0, <1>1 DEF Inv, TypeOK, Exists, NoRun
      <4>2. QED BY <2>2, <4>1 DEF Run
    <3>2. QED BY <1>2, <3>1 DEF IsSettled, Settled
  <2>3. QED BY <2>1, <2>2 DEF IsSettled
<1>9. QED BY <1>1, <1>2, <1>6, <1>7, <1>8 DEF Promise!Perform

LEMMA CompleteSettles ==
  ASSUME Steady, Serial, SettledIsQuiet, NEW t \in Threads, Complete(t)
  PROVE  \E r \in Runs : Promise!Settle(r)
<1>0. Inv /\ Shape /\ WeightKept /\ NoneFails
  BY DEF Steady
<1>1. PICK run \in Runs : run = frame[t].run
  BY <1>0, CallType DEF Complete
<1>2. ~IsSettled(run)
  BY <1>0, <1>1, AtWorkUnsettled DEF Complete
<1>3. /\ runs'[run].status = "COMPLETED" /\ UNCHANGED executed
      /\ \A q \in Runs \ {run} : runs'[q] = runs[q]
  BY <1>0, <1>1, EndIsQuiet
<1>4. {r \in Runs : IsSettled(r)}' = {r \in Runs : IsSettled(r)} \union {run}
  BY <1>3 DEF IsSettled, Settled
<1>5. QED BY <1>2, <1>3, <1>4 DEF Promise!Settle

\* The engine implements AutomationPromise, with the steps that took effect as those performed
\* and the COMPLETED and FAILED runs as those settled: when messages are handled one at a
\* time, no call fails and no hourly timeout comes in between, every step of a run takes
\* effect once, in the order of the list, and none after the end of the run.
THEOREM EngineKeepsThePromise == Serial => (Spec => KeepsThePromise)
<1> SUFFICES ASSUME Serial PROVE Spec => KeepsThePromise
  OBVIOUS
<1>0. Calm /\ OneHandler
  BY DEF Serial
<1>1. Init => Steady /\ SettledIsQuiet /\ Promise!Init
  <2>1. Init => Promise!Init
    BY DEF Init, Promise!Init, IsSettled, Settled, NoRun
  <2>2. QED BY <2>1, SteadyInitially, SerialInitially
<1>2. Steady /\ SettledIsQuiet /\ [Next]_vars => (Steady /\ SettledIsQuiet)'
  <2>1. Steady /\ SettledIsQuiet /\ [Next]_vars => SettledIsQuiet'
    BY QuietStays DEF Steady
  <2>2. QED BY <1>0, <2>1, SteadyStays
<1>3. Steady /\ SettledIsQuiet /\ [Next]_vars => [Promise!Next]_(Promise!promise)
  <2> SUFFICES ASSUME Steady, SettledIsQuiet, [Next]_vars PROVE [Promise!Next]_(Promise!promise)
    OBVIOUS
  <2>1. CASE Unsettling
    <3>1. {r \in Runs : IsSettled(r)}' = {r \in Runs : IsSettled(r)}
      BY <2>1 DEF Unsettling, IsSettled
    <3>2. QED BY <2>1, <3>1 DEF Unsettling, Promise!promise
  <2>2. ASSUME NEW t \in Threads, Act(t) PROVE Promise!Next
    BY <2>2, ActPerforms DEF Promise!Next
  <2>3. ASSUME NEW t \in Threads, Complete(t) PROVE Promise!Next
    BY <2>3, CompleteSettles DEF Promise!Next
  <2>4. QED BY <2>1, <2>2, <2>3, WhatIsSeen DEF Steady
<1>4. QED BY <1>1, <1>2, <1>3, PTL DEF Spec, KeepsThePromise, Promise!Spec

-----------------------------------------------------------------------------
(* Which message does what: each is delivered once, to one handler.          *)

Once == MaxDeliveries <= 1 /\ \A u \in Rules : Trigger[u] # "CONVERSATION_CREATED"

\* The stages before the message is dispatched to the rules.
Early(stage) == stage \in {"CONVERSATION_CREATED", "resume", "resuming"}
Bound(stage) == stage \in {"CONVERSATION_CREATED", "resume", "resuming", "MESSAGE_RECEIVED", "OFF_HOURS"}

\* A handler has a message that was delivered to it alone; a run, or a resumption, is due
\* to a delivered message; no run is due to a message that is still to resume others.
Posted ==
  /\ \A h \in Handlers : /\ Bound(handler[h].stage) => handler[h].msg # NoMessage
                         /\ handler[h].msg # NoMessage => deliveries[handler[h].msg] > 0
                         /\ handler[h].stage = "CONVERSATION_CREATED" => handler[h].matched = {}
  /\ \A g, h \in Handlers : handler[g].msg # NoMessage /\ handler[g].msg = handler[h].msg => g = h
  /\ \A e \in resumes : e.msg # NoMessage /\ deliveries[e.msg] > 0 /\ Exists(e.run)
  /\ \A r \in Runs : Exists(r) /\ runs[r].by # NoMessage =>
       /\ deliveries[runs[r].by] > 0
       /\ \A h \in Handlers : handler[h].msg = runs[r].by => ~Early(handler[h].stage)
  /\ ResumedByALaterMessage

\* What a step may do to the handlers, the rows and the resumptions.
Drops(h) == handler'[h].msg = NoMessage /\ ~Bound(handler'[h].stage)
Keeps(h) ==
  /\ handler'[h].msg = handler[h].msg
  /\ Bound(handler'[h].stage) => Bound(handler[h].stage)
  /\ Early(handler'[h].stage) => Early(handler[h].stage)
  /\ handler'[h].stage = "CONVERSATION_CREATED" =>
       handler[h].stage = "CONVERSATION_CREATED" /\ handler'[h].matched \subseteq handler[h].matched
OldRow(r) == Exists(r) /\ runs'[r].by = runs[r].by
RowOf(h, r) == runs'[r].by = handler[h].msg /\ ~Early(handler[h].stage)
ResumeOf(h, e) == e.run \in Runs /\ Exists(e.run) /\ e.msg = handler[h].msg /\ Early(handler[h].stage)

LEMMA PostedKept ==
  ASSUME Inv, Inv', Posted, UNCHANGED deliveries,
         \A h \in Handlers : Drops(h) \/ Keeps(h),
         \A r \in Runs : Exists(r) => Exists(r)' /\ OldRow(r),
         \A r \in Runs : Exists(r)' => OldRow(r) \/ \E h \in Handlers : RowOf(h, r),
         \A e \in resumes' : e \in resumes \/ \E h \in Handlers : ResumeOf(h, e)
  PROVE  Posted'
<1>1. ASSUME NEW h \in Handlers
      PROVE  /\ Bound(handler'[h].stage) => handler'[h].msg # NoMessage
             /\ handler'[h].msg # NoMessage => deliveries'[handler'[h].msg] > 0
             /\ handler'[h].stage = "CONVERSATION_CREATED" => handler'[h].matched = {}
  <2>1. CASE Drops(h)
    BY <2>1 DEF Drops, Bound
  <2>2. CASE Keeps(h)
    BY <2>2 DEF Keeps, Posted
  <2>3. QED BY <2>1, <2>2
<1>2. ASSUME NEW h \in Handlers, handler'[h].msg # NoMessage
      PROVE  handler'[h].msg = handler[h].msg /\ (Early(handler'[h].stage) => Early(handler[h].stage))
  BY <1>2 DEF Drops, Keeps
<1>3. \A g, h \in Handlers : handler'[g].msg # NoMessage /\ handler'[g].msg = handler'[h].msg => g = h
  BY <1>2 DEF Posted
<1>4. ASSUME NEW e \in resumes'
      PROVE  /\ e.msg # NoMessage /\ deliveries'[e.msg] > 0 /\ Exists(e.run)' /\ runs'[e.run].by # e.msg
  <2>1. CASE e \in resumes
    <3>1. e.run \in Runs /\ e.msg # NoMessage /\ deliveries[e.msg] > 0 /\ Exists(e.run) /\ runs[e.run].by # e.msg
      BY <2>1 DEF Posted, Inv, TypeOK, ResumedByALaterMessage
    <3>2. QED BY <3>1 DEF OldRow
  <2>2. ASSUME NEW h \in Handlers, ResumeOf(h, e)
        PROVE  /\ e.msg # NoMessage /\ deliveries'[e.msg] > 0 /\ Exists(e.run)' /\ runs'[e.run].by # e.msg
    <3>1. e.msg # NoMessage /\ deliveries'[e.msg] > 0
      BY <2>2 DEF ResumeOf, Posted, Early, Bound
    <3>2. Exists(e.run)' /\ runs'[e.run].by = runs[e.run].by
      BY <2>2 DEF ResumeOf, OldRow
    <3>3. runs[e.run].by # e.msg
      BY <2>2, <3>1 DEF ResumeOf, Posted
    <3>4. QED BY <3>1, <3>2, <3>3
  <2>3. QED BY <2>1, <2>2
<1>5. ASSUME NEW r \in Runs, Exists(r)', runs'[r].by # NoMessage
      PROVE  /\ deliveries'[runs'[r].by] > 0
             /\ \A h \in Handlers : handler'[h].msg = runs'[r].by => ~Early(handler'[h].stage)
  <2>1. CASE OldRow(r)
    BY <1>2, <1>5, <2>1 DEF OldRow, Posted
  <2>2. ASSUME NEW g \in Handlers, RowOf(g, r)
        PROVE  /\ deliveries'[runs'[r].by] > 0
               /\ \A h \in Handlers : handler'[h].msg = runs'[r].by => ~Early(handler'[h].stage)
    <3>1. deliveries'[runs'[r].by] > 0
      BY <1>5, <2>2 DEF RowOf, Posted
    <3>2. ASSUME NEW h \in Handlers, handler'[h].msg = runs'[r].by PROVE ~Early(handler'[h].stage)
      <4>1. handler[h].msg = handler[g].msg /\ handler[h].msg # NoMessage
        BY <1>2, <1>5, <2>2, <3>2 DEF RowOf
      <4>2. h = g
        BY <4>1 DEF Posted
      <4>3. QED BY <1>2, <1>5, <2>2, <3>2, <4>2 DEF RowOf
    <3>3. QED BY <3>1, <3>2
  <2>3. QED BY <1>5, <2>1, <2>2
<1>6. ResumedByALaterMessage'
  BY <1>4 DEF ResumedByALaterMessage
<1>7. QED BY <1>1, <1>3, <1>4, <1>5, <1>6 DEF Posted

\* A message that is taken up is in nobody's hands, and nothing is due to it.
LEMMA ReceivePosted ==
  ASSUME Inv, Inv', Once, Posted, NEW h \in Handlers, NEW m \in Messages, Receive(h, m) PROVE Posted'
<1>1. /\ deliveries[m] = 0 /\ deliveries' = [deliveries EXCEPT ![m] = 1]
      /\ deliveries \in [Messages -> Nat]
  <2>1. deliveries \in [Messages -> 0..MaxDeliveries] /\ MaxDeliveries \in Nat
    BY ConstantsAssumption DEF Inv, TypeOK
  <2>2. deliveries[m] < MaxDeliveries /\ deliveries' = [deliveries EXCEPT ![m] = @ + 1]
    BY DEF Receive
  <2>3. deliveries[m] \in 0..MaxDeliveries
    BY <2>1
  <2>4. MaxDeliveries <= 1
    BY DEF Once
  <2>5. deliveries[m] = 0
    BY <2>1, <2>2, <2>3, <2>4
  <2>6. deliveries \in [Messages -> Nat]
    BY <2>1
  <2>7. QED BY <2>2, <2>5, <2>6
<1>2. \A n \in Messages : n # m => deliveries'[n] = deliveries[n]
  BY <1>1
<1>3. deliveries'[m] > 0 /\ \A n \in Messages : deliveries[n] > 0 => n # m /\ deliveries'[n] > 0
  BY <1>1, <1>2
<1>4. m # NoMessage /\ handler[h] = IdleHandler /\ UNCHANGED <<runs, resumes>> /\ IdleHandler \in Handler
  BY ConstantsAssumption, HandlerShapes DEF Receive, Inv, TypeOK
<1>5. /\ handler'[h].msg = m
      /\ handler'[h].stage = "CONVERSATION_CREATED" => handler'[h].matched = {}
      /\ \A g \in Handlers \ {h} : handler'[g] = handler[g]
  <2>1. PICK text \in BOOLEAN :
          LET new == [IdleHandler EXCEPT !.msg = m, !.text = text] IN
          \/ handler' = [handler EXCEPT ![h] =
               [new EXCEPT !.stage = "CONVERSATION_CREATED",
                           !.matched = Matching("CONVERSATION_CREATED")]]
          \/ handler' = [handler EXCEPT ![h] = [new EXCEPT !.stage = "resume"]]
    BY DEF Receive
  <2> DEFINE new == [IdleHandler EXCEPT !.msg = m, !.text = text]
  <2>2. new \in Handler /\ new.msg = m /\ new.matched = {}
    BY HandlerShapes DEF Handler, IdleHandler
  <2>3. \/ handler' = [handler EXCEPT ![h] =
             [new EXCEPT !.stage = "CONVERSATION_CREATED",
                         !.matched = Matching("CONVERSATION_CREATED")]]
        \/ handler' = [handler EXCEPT ![h] = [new EXCEPT !.stage = "resume"]]
    BY <2>1
  <2>4. Matching("CONVERSATION_CREATED") = {}
    BY DEF Matching, Once
  <2> HIDE DEF new
  <2>5. handler \in [Handlers -> Handler]
    BY DEF Inv, TypeOK
  <2>6. CASE handler' = [handler EXCEPT ![h] =
               [new EXCEPT !.stage = "CONVERSATION_CREATED",
                           !.matched = Matching("CONVERSATION_CREATED")]]
    <3> DEFINE first == [new EXCEPT !.stage = "CONVERSATION_CREATED",
                                    !.matched = Matching("CONVERSATION_CREATED")]
    <3>1. first.msg = m /\ first.matched = {}
      BY <2>2, <2>4 DEF Handler
    <3> HIDE DEF first
    <3>2. handler' = [handler EXCEPT ![h] = first]
      BY <2>6 DEF first
    <3>3. handler'[h] = first /\ \A g \in Handlers \ {h} : handler'[g] = handler[g]
      BY <2>5, <3>2
    <3>4. QED BY <3>1, <3>3
  <2>7. CASE handler' = [handler EXCEPT ![h] = [new EXCEPT !.stage = "resume"]]
    <3> DEFINE later == [new EXCEPT !.stage = "resume"]
    <3>1. later.msg = m /\ later.stage = "resume"
      BY <2>2 DEF Handler
    <3> HIDE DEF later
    <3>2. handler' = [handler EXCEPT ![h] = later]
      BY <2>7 DEF later
    <3>3. handler'[h] = later /\ \A g \in Handlers \ {h} : handler'[g] = handler[g]
      BY <2>5, <3>2
    <3>4. QED BY <3>1, <3>3
  <2>8. QED BY <2>3, <2>6, <2>7
<1>6. \A g \in Handlers \ {h} : handler'[g].msg # m
  <2>1. \A g \in Handlers : handler[g].msg \in Messages \union {NoMessage}
    BY DEF Inv, TypeOK, Handler
  <2>2. QED BY <1>3, <1>4, <1>5, <2>1 DEF Posted
<1>7. ASSUME NEW g \in Handlers
      PROVE  /\ Bound(handler'[g].stage) => handler'[g].msg # NoMessage
             /\ handler'[g].msg # NoMessage => deliveries'[handler'[g].msg] > 0
             /\ handler'[g].stage = "CONVERSATION_CREATED" => handler'[g].matched = {}
  <2>1. CASE g = h
    BY <1>3, <1>4, <1>5, <2>1
  <2>2. CASE g # h
    <3>1. handler'[g] = handler[g] /\ handler[g].msg \in Messages \union {NoMessage}
      BY <1>5, <2>2 DEF Inv, TypeOK, Handler
    <3>2. QED BY <1>3, <3>1 DEF Posted
  <2>3. QED BY <2>1, <2>2
<1>8. \A f, g \in Handlers : handler'[f].msg # NoMessage /\ handler'[f].msg = handler'[g].msg => f = g
  BY <1>5, <1>6 DEF Posted
<1>9. \A e \in resumes' : e.msg # NoMessage /\ deliveries'[e.msg] > 0 /\ Exists(e.run)'
  <2>1. \A e \in resumes : e.msg \in Messages \union {NoMessage}
    BY DEF Inv, TypeOK
  <2>2. QED BY <1>3, <1>4, <2>1 DEF Posted, Exists
<1>10. ASSUME NEW r \in Runs, Exists(r)', runs'[r].by # NoMessage
       PROVE  /\ deliveries'[runs'[r].by] > 0
              /\ \A g \in Handlers : handler'[g].msg = runs'[r].by => ~Early(handler'[g].stage)
  <2>1. runs'[r] = runs[r] /\ Exists(r) /\ runs[r].by \in Messages \union {NoMessage}
    BY <1>4, <1>10 DEF Exists, Inv, TypeOK, Run, NoRun
  <2>2. runs[r].by # m /\ deliveries'[runs'[r].by] > 0
    BY <1>3, <1>10, <2>1 DEF Posted
  <2>3. QED BY <1>5, <1>10, <2>1, <2>2 DEF Posted
<1>11. ResumedByALaterMessage'
  BY <1>4 DEF Posted, ResumedByALaterMessage
<1>12. QED BY <1>7, <1>8, <1>9, <1>10, <1>11 DEF Posted

\* Every step but the one that takes a message up drops a message or keeps to it.
LEMMA HandlersKeep ==
  ASSUME Inv, [Next]_vars, ~(\E g \in Handlers, m \in Messages : Receive(g, m)), NEW h \in Handlers
  PROVE  Drops(h) \/ Keeps(h)
<1>0. handler \in [Handlers -> Handler] /\ handler[h] \in Handler
  BY DEF Inv, TypeOK
<1>1. UNCHANGED handler => Keeps(h)
  BY DEF Keeps
<1>2. handler'[h] = handler[h] => Keeps(h)
  BY DEF Keeps
<1>3. IdleHandler.msg = NoMessage /\ IdleHandler.stage = "idle"
  BY DEF IdleHandler
<1>4. ASSUME NEW t \in Threads, Processing(t) \/ Fault(t) PROVE Keeps(h)
  <2>1. \/ UNCHANGED handler
        \/ \E s \in {{}, handler[h].waiting}, k \in SUBSET Rules :
             handler'[h] \in {handler[h], [handler[h] EXCEPT !.waiting = s, !.skip = k]}
    <3>1. CASE Return(t)
      <4>1. CASE h = t /\ handler[h].stage = "resuming"
        <5>1. frame[t].pc = "done"
          BY <3>1 DEF Return
        <5>2. PICK u : u = runs[frame[t].run].rule
          OBVIOUS
        <5>3. frame[t].run \in Runs /\ Exists(frame[t].run)
          BY <5>1, CallType
        <5>4. u \in Rules
          BY <5>2, <5>3 DEF Inv, TypeOK, Run, Exists, NoRun
        <5>5. handler' = [g \in Handlers |->
                 IF g = t /\ handler[g].stage = "resuming"
                 THEN [handler[g] EXCEPT !.skip = @ \union {u}]
                 ELSE handler[g]]
          BY <3>1, <5>2 DEF Return
        <5>6. handler'[h] = [handler[h] EXCEPT !.waiting = handler[h].waiting, !.skip = handler[h].skip \union {u}]
          BY <1>0, <4>1, <5>5 DEF Handler
        <5>7. handler[h].skip \union {u} \in SUBSET Rules
          BY <1>0, <5>4 DEF Handler
        <5>8. QED BY <5>6, <5>7
      <4>2. CASE ~(h = t /\ handler[h].stage = "resuming")
        BY <1>0, <3>1, <4>2 DEF Return
      <4>3. QED BY <4>1, <4>2
    <3>2. CASE Reject(t)
      BY <1>0, <3>2 DEF Reject, To
    <3>3. CASE \E pc : Goto(t, pc)
      BY <3>3 DEF Goto, To
    <3>4. CASE Load(t) \/ Enqueue(t)
      BY <3>4 DEF Load, Enqueue, Goto, To
    <3>5. QED
      BY <1>4, <3>1, <3>2, <3>3, <3>4
      DEF Processing, Fault, Start, Act, Advance, Complete, Fail
  <2>2. ASSUME NEW s \in {{}, handler[h].waiting}, NEW k \in SUBSET Rules,
               handler'[h] = [handler[h] EXCEPT !.waiting = s, !.skip = k]
        PROVE  Keeps(h)
    <3>1. handler'[h].msg = handler[h].msg /\ handler'[h].stage = handler[h].stage /\ handler'[h].matched = handler[h].matched
      BY <1>0, <2>2 DEF Handler
    <3>2. QED BY <3>1 DEF Keeps
  <2>3. QED BY <1>1, <1>2, <2>1, <2>2
<1>5. ASSUME NEW g \in Handlers, Pipeline(g) \/ AgentEvent(g) \/ Abort(g), g # h PROVE Keeps(h)
  <2>1. handler'[h] = handler[h]
    BY <1>0, <1>5 DEF Pipeline, StartRun, Submit, EndDispatch, ListWaiting, ResumeNext, EndResume,
       AgentEvent, Abort, EnterDispatch, Become
  <2>2. QED BY <1>2, <2>1
<1>6. ASSUME Pipeline(h) \/ AgentEvent(h) \/ Abort(h) PROVE Drops(h) \/ Keeps(h)
  <2>1. CASE StartRun(h)
    <3>1. PICK u : handler' = [handler EXCEPT ![h].matched = @ \ {u}]
      BY <2>1 DEF StartRun
    <3>2. /\ handler'[h].msg = handler[h].msg /\ handler'[h].stage = handler[h].stage
          /\ handler'[h].matched = handler[h].matched \ {u}
      BY <1>0, <3>1 DEF Handler
    <3>3. QED BY <3>2 DEF Keeps
  <2>2. CASE Submit(h)
    BY <1>1, <2>2 DEF Submit
  <2>3. CASE EndDispatch(h)
    <3>1. CASE handler[h].stage = "MESSAGE_RECEIVED"
      <4>1. handler'[h].msg = handler[h].msg /\ handler'[h].stage = "OFF_HOURS"
        BY <1>0, <2>3, <3>1 DEF EndDispatch, EnterDispatch, Handler
      <4>2. QED BY <3>1, <4>1 DEF Keeps, Bound, Early
    <3>2. CASE handler[h].stage = "CONVERSATION_CREATED"
      <4>1. Become(h, "resume")
        BY <2>3, <3>2 DEF EndDispatch, AfterDispatch
      <4>2. handler'[h].msg = handler[h].msg /\ handler'[h].stage = "resume"
        BY <1>0, <4>1 DEF Become, Handler
      <4>3. QED BY <3>2, <4>2 DEF Keeps, Bound, Early
    <3>3. CASE handler[h].stage \notin {"MESSAGE_RECEIVED", "CONVERSATION_CREATED"}
      <4>1. Become(h, "idle")
        BY <2>3, <3>3 DEF EndDispatch, AfterDispatch
      <4>2. handler'[h] = IdleHandler
        BY <1>0, <4>1 DEF Become
      <4>3. QED BY <1>3, <4>2 DEF Drops, Bound
    <3>4. QED BY <3>1, <3>2, <3>3
  <2>4. CASE ListWaiting(h)
    <3>1. handler[h].stage = "resume"
      BY <2>4 DEF ListWaiting
    <3>2. handler'[h].msg = handler[h].msg /\ handler'[h].stage = "resuming"
      <4>1. CASE handler' = [handler EXCEPT ![h].stage = "resuming",
                    ![h].waiting = {[run |-> r, idx |-> runs[r].idx] : r \in Resumable}]
        BY <1>0, <4>1 DEF Handler
      <4>2. CASE Become(h, "resuming")
        BY <1>0, <4>2 DEF Become, Handler
      <4>3. QED BY <2>4, <4>1, <4>2 DEF ListWaiting
    <3>3. QED BY <3>1, <3>2 DEF Keeps, Bound, Early
  <2>5. CASE ResumeNext(h)
    <3>1. PICK s : handler' = [handler EXCEPT ![h].waiting = @ \ {s}]
      BY <2>5 DEF ResumeNext
    <3>2. /\ handler'[h].msg = handler[h].msg /\ handler'[h].stage = handler[h].stage
          /\ handler'[h].matched = handler[h].matched
      BY <1>0, <3>1 DEF Handler
    <3>3. QED BY <3>2 DEF Keeps
  <2>6. CASE EndResume(h)
    <3>1. CASE handler[h].text
      <4>1. handler'[h].msg = handler[h].msg /\ handler'[h].stage = "MESSAGE_RECEIVED"
        BY <1>0, <2>6, <3>1 DEF EndResume, EnterDispatch, Handler
      <4>2. handler[h].stage = "resuming"
        BY <2>6 DEF EndResume
      <4>3. QED BY <4>1, <4>2 DEF Keeps, Bound, Early
    <3>2. CASE ~handler[h].text
      <4>1. handler'[h] = IdleHandler
        BY <1>0, <2>6, <3>2 DEF EndResume, Become
      <4>2. QED BY <1>3, <4>1 DEF Drops, Bound
    <3>3. QED BY <3>1, <3>2
  <2>7. CASE AgentEvent(h)
    <3>1. handler'[h].msg = handler[h].msg /\ handler'[h].stage = "STATUS_CHANGED" /\ handler[h] = IdleHandler
      BY <1>0, <2>7 DEF AgentEvent, EnterDispatch, Handler
    <3>2. QED BY <1>3, <3>1 DEF Drops, Bound
  <2>8. CASE Abort(h)
    <3>1. handler'[h] = IdleHandler
      BY <1>0, <2>8 DEF Abort
    <3>2. QED BY <1>3, <3>1 DEF Drops, Bound
  <2>9. QED BY <1>6, <2>1, <2>2, <2>3, <2>4, <2>5, <2>6, <2>7, <2>8 DEF Pipeline
<1>7. QED
  BY <1>1, <1>4, <1>5, <1>6
  DEF Next, TakeJob, Crash, FailStale, ReadStale, UpdateRule, DeleteRule, vars

\* A row that is new is one that its handler starts; a resumption is one its handler makes.
LEMMA RowsArePosted ==
  ASSUME Inv, Posted, [Next]_vars, NEW r \in Runs, Exists(r)'
  PROVE  OldRow(r) \/ \E h \in Handlers : RowOf(h, r)
<1>1. CASE Exists(r)
  BY <1>1, RowsStay DEF RowKept, OldRow
<1>2. CASE ~Exists(r)
  <2>1. ASSUME NEW h \in Handlers, StartRun(h) PROVE RowOf(h, r)
    <3>1. handler[h] \in Handler
      BY DEF Inv, TypeOK
    <3>2. PICK u \in handler[h].matched, q \in Runs :
            runs' = [runs EXCEPT ![q] = [status |-> "PENDING", rule |-> u, idx |-> 0, by |-> handler[h].msg]]
      BY <1>2, <2>1 DEF StartRun, Exists
    <3>3. runs'[r].by = handler[h].msg
      BY <1>2, <3>2 DEF Exists, Inv, TypeOK
    <3>4. handler[h].stage \in TriggerTypes /\ handler[h].stage # "CONVERSATION_CREATED"
      BY <2>1, <3>2 DEF StartRun, Posted
    <3>5. QED BY <3>3, <3>4 DEF RowOf, Early, TriggerTypes
  <2>2. CASE UNCHANGED runs
    BY <1>2, <2>2 DEF Exists
  <2>3. CASE RowGoesOn
    <3>1. PICK q \in Runs : Exists(q) /\ \A p \in Runs \ {q} : runs'[p] = runs[p]
      BY <2>3 DEF RowGoesOn, Inv, TypeOK
    <3>2. QED BY <1>2, <3>1 DEF Exists
  <2>4. QED BY <2>1, <2>2, <2>3, RowsChange
<1>3. QED BY <1>1, <1>2

LEMMA ResumesArePosted ==
  ASSUME Inv, [Next]_vars, NEW e \in resumes'
  PROVE  e \in resumes \/ \E h \in Handlers : ResumeOf(h, e)
<1>1. CASE UNCHANGED resumes
  BY <1>1
<1>2. ASSUME NEW t \in Threads, Start(t), e \notin resumes PROVE \E h \in Handlers : ResumeOf(h, e)
  <2>1. /\ t \in Handlers /\ handler[t].stage = "resuming"
        /\ e = [run |-> frame[t].run, idx |-> frame[t].idx, msg |-> handler[t].msg]
    BY <1>2 DEF Start
  <2>2. frame[t].run \in Runs /\ Exists(frame[t].run)
    BY <1>2, CallType DEF Start
  <2>3. e.run = frame[t].run /\ e.msg = handler[t].msg
    BY <2>1
  <2>4. QED BY <2>1, <2>2, <2>3 DEF ResumeOf, Early
<1>3. QED BY <1>1, <1>2, ResumesChange

LEMMA PostedStays == ASSUME Inv, Once, Posted, [Next]_vars PROVE Posted'
<1>1. Inv'
  BY EveryStep
<1>2. CASE \E g \in Handlers, m \in Messages : Receive(g, m)
  BY <1>1, <1>2, ReceivePosted
<1>3. CASE ~(\E g \in Handlers, m \in Messages : Receive(g, m))
  <2>1. UNCHANGED deliveries
    BY <1>3 DEF Next, Processing, Load, Start, Act, Advance, Enqueue, Complete, Fail, Return, Fault, TakeJob, Crash,
       Pipeline, StartRun, Submit, EndDispatch, ListWaiting, ResumeNext, EndResume, AgentEvent, Abort,
       FailStale, ReadStale, UpdateRule, DeleteRule, vars
  <2>2. \A h \in Handlers : Drops(h) \/ Keeps(h)
    BY <1>3, HandlersKeep
  <2>3. \A r \in Runs : Exists(r) => Exists(r)' /\ OldRow(r)
    BY RowsStay DEF RowKept, OldRow
  <2>4. \A r \in Runs : Exists(r)' => OldRow(r) \/ \E h \in Handlers : RowOf(h, r)
    BY RowsArePosted
  <2>5. \A e \in resumes' : e \in resumes \/ \E h \in Handlers : ResumeOf(h, e)
    BY ResumesArePosted
  <2>6. QED BY <1>1, <2>1, <2>2, <2>3, <2>4, <2>5, PostedKept
<1>4. QED BY <1>2, <1>3

LEMMA PostedInitially == Init => Posted
  BY DEF Init, Posted, IdleHandler, Bound, Exists, NoRun, ResumedByALaterMessage

\* The message that started a run is not also the reply that resumes it, whatever calls fail,
\* processes die and rules are edited: as long as each message is delivered once and no rule
\* starts runs before the paused ones are resumed (dispatchEvent before resumeWaitingRuns, in
\* the order of the webhook).
THEOREM RepliesComeLater == Once => (Spec => []ResumedByALaterMessage)
<1> SUFFICES ASSUME Once PROVE Spec => []ResumedByALaterMessage
  OBVIOUS
<1>1. Init => Inv /\ Posted
  BY Initially, PostedInitially
<1>2. Inv /\ Posted /\ [Next]_vars => (Inv /\ Posted)'
  BY EveryStep, PostedStays
<1>3. Inv /\ Posted => ResumedByALaterMessage
  BY DEF Posted
<1>4. QED BY <1>1, <1>2, <1>3, PTL DEF Spec

-----------------------------------------------------------------------------
(* Rules that a message resumed are left out of its dispatch.                *)

Sure == Once /\ Bounds["faults"] = 0

\* The handler remembers that it resumed run r, or is still in that run.
Remembers(h, r) ==
  /\ handler[h].stage \notin {"idle", "resume", "CONVERSATION_CREATED"}
  /\ handler[h].stage = "resuming" =>
       runs[r].rule \in handler[h].skip \/ (frame[h] # IdleFrame /\ frame[h].run = r)
  /\ handler[h].stage # "resuming" => runs[r].rule \in handler[h].skip \ handler[h].matched
Remembered ==
  /\ \A e \in resumes, h \in Handlers : handler[h].msg = e.msg => Remembers(h, e.run)
  /\ NoDoubleFire

LEMMA NoFaults == ASSUME Sure, Inv, BudgetKept PROVE ~Spend("faults")
  BY UsedIs DEF Spend, Sure, BudgetKept, Inv, TypeOK, Events

\* A call goes on in its run until it returns.
LEMMA StaysInRun ==
  ASSUME Inv, NEW t \in Threads, Processing(t), ~Return(t), ~Spend("faults")
  PROVE  /\ UNCHANGED handler /\ frame[t] # IdleFrame /\ frame'[t] # IdleFrame /\ frame'[t].run = frame[t].run
         /\ \A u \in Threads \ {t} : frame'[u] = frame[u]
<1>1. ASSUME NEW pc \in PCs, frame[t].pc # "idle", Goto(t, pc)
      PROVE  /\ UNCHANGED handler /\ frame[t] # IdleFrame /\ frame'[t] # IdleFrame /\ frame'[t].run = frame[t].run
             /\ \A u \in Threads \ {t} : frame'[u] = frame[u]
  BY <1>1, GotoIs DEF Moves, Alone
<1>2. CASE Load(t)
  BY <1>2, LoadIs DEF Moves, Alone
<1>3. CASE Enqueue(t)
  <2>1. CASE Goto(t, "done")
    BY <1>1, <1>3, <2>1 DEF Enqueue, PCs
  <2>2. CASE To(t, Call(frame[t].run, frame[t].idx + 1, frame[t].depth + 1))
    <3>1. PICK g : g = Call(frame[t].run, frame[t].idx + 1, frame[t].depth + 1)
      OBVIOUS
    <3>2. g.run = frame[t].run /\ g.pc = "load"
      BY <3>1 DEF Call
    <3>3. frame' = [frame EXCEPT ![t] = g] /\ UNCHANGED handler
      BY <2>2, <3>1 DEF To
    <3>4. frame'[t] = g /\ \A u \in Threads \ {t} : frame'[u] = frame[u]
      BY <3>3 DEF Inv, TypeOK
    <3>5. frame[t].pc = "enqueue"
      BY <1>3 DEF Enqueue
    <3>6. QED BY <3>2, <3>3, <3>4, <3>5 DEF IdleFrame
  <2>3. QED BY <1>3, <2>1, <2>2 DEF Enqueue
<1>4. CASE Start(t) \/ Act(t) \/ Advance(t) \/ Complete(t) \/ Fail(t)
  <2>1. frame[t].pc # "idle"
    BY <1>4 DEF Start, Act, Advance, Complete, Fail
  <2>2. \E pc \in PCs : Goto(t, pc)
    BY <1>4 DEF Start, Act, Advance, Complete, Fail, PCs
  <2>3. QED BY <1>1, <2>1, <2>2
<1>5. QED BY <1>2, <1>3, <1>4 DEF Processing

LEMMA ReturnRemembers ==
  ASSUME Inv, NEW t \in Threads, Return(t), NEW h \in Handlers, NEW r \in Runs, Exists(r), Remembers(h, r)
  PROVE  Remembers(h, r)'
<1>1. /\ runs' = runs /\ frame' = [frame EXCEPT ![t] = IdleFrame] /\ handler[h] \in Handler
      /\ handler' = [g \in Handlers |->
           IF g = t /\ handler[g].stage = "resuming"
           THEN [handler[g] EXCEPT !.skip = @ \union {runs[frame[t].run].rule}]
           ELSE handler[g]]
  BY DEF Return, Inv, TypeOK
<1>2. CASE h = t /\ handler[h].stage = "resuming"
  <2>1. PICK u : u = runs[frame[t].run].rule
    OBVIOUS
  <2>2. handler'[h] = [handler[h] EXCEPT !.skip = @ \union {u}]
    BY <1>1, <1>2, <2>1
  <2>3. handler'[h].stage = "resuming" /\ handler'[h].skip = handler[h].skip \union {u}
    BY <1>1, <1>2, <2>2 DEF Handler
  <2>4. runs[r].rule \in handler[h].skip \/ runs[r].rule = u
    BY <1>2, <2>1 DEF Remembers
  <2>5. QED BY <1>1, <2>3, <2>4 DEF Remembers
<1>3. CASE ~(h = t /\ handler[h].stage = "resuming")
  <2>1. handler'[h] = handler[h]
    BY <1>1, <1>3
  <2>2. handler[h].stage = "resuming" => frame'[h] = frame[h]
    BY <1>1, <1>3 DEF Inv, TypeOK
  <2>3. QED BY <1>1, <2>1, <2>2 DEF Remembers
<1>4. QED BY <1>2, <1>3

\* A handler that goes on in the pipeline drops its message or remembers.
LEMMA PipelineRemembers ==
  ASSUME Inv, NEW h \in Handlers, Apart(h), Pipeline(h) \/ AgentEvent(h) \/ Abort(h), ~Spend("faults"),
         \A q \in Runs : Exists(q) => RowKept(q),
         NEW r \in Runs, Exists(r), Remembers(h, r)
  PROVE  handler'[h].msg = NoMessage \/ Remembers(h, r)'
<1>0. handler \in [Handlers -> Handler] /\ handler[h] \in Handler /\ runs'[r].rule = runs[r].rule
  BY DEF Inv, TypeOK, RowKept
<1>1. IdleHandler.msg = NoMessage /\ IdleHandler.stage = "idle"
  BY DEF IdleHandler
<1>2. CASE StartRun(h)
  <2>1. PICK u : handler' = [handler EXCEPT ![h].matched = @ \ {u}]
    BY <1>2 DEF StartRun
  <2>2. /\ handler'[h].skip = handler[h].skip /\ handler'[h].stage = handler[h].stage
        /\ handler'[h].matched = handler[h].matched \ {u}
    BY <1>0, <2>1 DEF Handler
  <2>3. handler[h].stage # "resuming"
    BY <1>2 DEF StartRun, TriggerTypes
  <2>4. QED BY <1>0, <2>2, <2>3 DEF Remembers
<1>3. CASE Submit(h)
  <2>1. UNCHANGED <<handler, runs>> /\ handler[h].stage # "resuming"
    BY <1>3 DEF Submit, Apart, TriggerTypes
  <2>2. QED BY <2>1 DEF Remembers
<1>4. ASSUME NEW type \in {"MESSAGE_RECEIVED", "OFF_HOURS"}, NEW S, EnterDispatch(h, type, S),
             runs[r].rule \in handler[h].skip
      PROVE  Remembers(h, r)'
  <2>1. handler' = [handler EXCEPT ![h].stage = type, ![h].matched = S \ handler[h].skip]
    BY <1>4 DEF EnterDispatch
  <2>2. /\ handler'[h].stage = type /\ handler'[h].matched = S \ handler[h].skip
        /\ handler'[h].skip = handler[h].skip
    BY <1>0, <2>1 DEF Handler
  <2>3. QED BY <1>0, <1>4, <2>2 DEF Remembers
<1>5. CASE EndDispatch(h)
  <2>1. CASE handler[h].stage = "MESSAGE_RECEIVED"
    <3>1. PICK S : EnterDispatch(h, "OFF_HOURS", S)
      BY <1>5, <2>1 DEF EndDispatch
    <3>2. QED BY <1>4, <2>1, <3>1 DEF Remembers
  <2>2. CASE handler[h].stage # "MESSAGE_RECEIVED"
    <3>1. Become(h, "idle")
      BY <1>5, <2>2 DEF EndDispatch, AfterDispatch, Remembers
    <3>2. QED BY <1>0, <1>1, <3>1 DEF Become
  <2>3. QED BY <2>1, <2>2
<1>6. CASE ListWaiting(h)
  BY <1>6 DEF ListWaiting, Remembers
<1>7. CASE ResumeNext(h)
  <2>1. PICK s : handler' = [handler EXCEPT ![h].waiting = @ \ {s}]
    BY <1>7 DEF ResumeNext
  <2>2. handler'[h].skip = handler[h].skip /\ handler'[h].stage = handler[h].stage
    BY <1>0, <2>1 DEF Handler
  <2>3. handler[h].stage = "resuming" /\ frame[h] = IdleFrame
    BY <1>7 DEF ResumeNext
  <2>4. QED BY <1>0, <2>2, <2>3 DEF Remembers
<1>8. CASE EndResume(h)
  <2>1. handler[h].stage = "resuming" /\ frame[h] = IdleFrame
    BY <1>8 DEF EndResume
  <2>2. CASE handler[h].text
    <3>1. PICK S : EnterDispatch(h, "MESSAGE_RECEIVED", S)
      BY <1>8, <2>2 DEF EndResume
    <3>2. QED BY <1>4, <2>1, <3>1 DEF Remembers
  <2>3. CASE ~handler[h].text
    BY <1>0, <1>1, <1>8, <2>3 DEF EndResume, Become
  <2>4. QED BY <2>2, <2>3
<1>9. CASE AgentEvent(h)
  BY <1>1, <1>9 DEF AgentEvent, Remembers
<1>10. CASE Abort(h)
  BY <1>0, <1>1, <1>10 DEF Abort
<1>11. QED BY <1>2, <1>3, <1>5, <1>6, <1>7, <1>8, <1>9, <1>10 DEF Pipeline

\* What one step leaves in the memory of a handler.
LEMMA StepRemembers ==
  ASSUME Inv, Shape, Sure, [Next]_vars, ~(\E g \in Handlers, m \in Messages : Receive(g, m)),
         NEW h \in Handlers, NEW r \in Runs, Exists(r), Remembers(h, r)
  PROVE  handler'[h].msg = NoMessage \/ Remembers(h, r)'
<1>0. ~Spend("faults") /\ (\A q \in Runs : Exists(q) => RowKept(q)) /\ runs'[r].rule = runs[r].rule /\ Apart(h)
  BY NoFaults, RowsStay DEF Shape, RowKept
<1>1. ASSUME handler'[h] = handler[h], handler[h].stage = "resuming" => frame'[h] = frame[h]
      PROVE  Remembers(h, r)'
  BY <1>0, <1>1 DEF Remembers
<1>2. ASSUME NEW t \in Threads, Processing(t) PROVE Remembers(h, r)'
  <2>1. CASE Return(t)
    BY <2>1, ReturnRemembers
  <2>2. CASE ~Return(t)
    <3>1. /\ UNCHANGED handler /\ frame[t] # IdleFrame /\ frame'[t] # IdleFrame /\ frame'[t].run = frame[t].run
          /\ \A u \in Threads \ {t} : frame'[u] = frame[u]
      BY <1>0, <1>2, <2>2, StaysInRun
    <3>2. h \in Threads
      BY DEF Threads
    <3>3. CASE h = t
      BY <1>0, <3>1, <3>3 DEF Remembers
    <3>4. CASE h # t
      BY <1>1, <3>1, <3>2, <3>4
    <3>5. QED BY <3>3, <3>4
  <2>3. QED BY <2>1, <2>2
<1>3. ASSUME NEW t \in Threads, Fault(t) PROVE FALSE
  BY <1>0, <1>3 DEF Fault
<1>4. ASSUME NEW g \in Handlers, Pipeline(g) \/ AgentEvent(g) \/ Abort(g)
      PROVE  handler'[h].msg = NoMessage \/ Remembers(h, r)'
  <2>1. CASE g = h
    BY <1>0, <1>4, <2>1, PipelineRemembers
  <2>2. CASE g # h
    <3>1. handler'[h] = handler[h] /\ frame'[h] = frame[h]
      BY <1>4, <2>2 DEF Pipeline, StartRun, Submit, EndDispatch, ListWaiting, ResumeNext, EndResume,
         AgentEvent, Abort, EnterDispatch, Become, Inv, TypeOK, Threads
    <3>2. QED BY <1>1, <3>1
  <2>3. QED BY <2>1, <2>2
<1>5. ASSUME NEW w \in Workers, TakeJob(w) \/ Crash(w) PROVE Remembers(h, r)'
  <2>1. w # h /\ h \in Threads
    BY ConstantsAssumption DEF Threads
  <2>2. handler'[h] = handler[h] /\ frame'[h] = frame[h]
    BY <1>5, <2>1 DEF TakeJob, Crash, Inv, TypeOK
  <2>3. QED BY <1>1, <2>2
<1>6. ASSUME UNCHANGED <<handler, frame>> PROVE Remembers(h, r)'
  BY <1>1, <1>6
<1>7. QED
  BY <1>2, <1>3, <1>4, <1>5, <1>6 DEF Next, FailStale, ReadStale, UpdateRule, DeleteRule, vars

\* A rule that a message resumed is not among those its handler starts.
LEMMA StartsNoneResumed ==
  ASSUME Inv, Posted, Remembered, NEW h \in Handlers, StartRun(h), NEW e \in resumes, NEW r \in Runs,
         ~Exists(r), Exists(r)', runs'[r].rule = runs[e.run].rule
  PROVE  runs'[r].by # e.msg
<1>1. handler[h] \in Handler /\ e.msg # NoMessage
  BY DEF Inv, TypeOK, Posted
<1>2. PICK u \in handler[h].matched, q \in Runs :
        runs' = [runs EXCEPT ![q] = [status |-> "PENDING", rule |-> u, idx |-> 0, by |-> handler[h].msg]]
  BY DEF StartRun, Exists
<1>3. runs'[r].by = handler[h].msg /\ runs'[r].rule = u
  BY <1>2 DEF Exists, Inv, TypeOK
<1>4. SUFFICES ASSUME handler[h].msg = e.msg PROVE FALSE
  BY <1>3
<1>5. Remembers(h, e.run) /\ handler[h].stage # "resuming"
  BY <1>4 DEF Remembered, StartRun, TriggerTypes
<1>6. QED BY <1>2, <1>3, <1>5 DEF Remembers

\* What a handler resumes it is in, and no run is due to its message yet.
LEMMA StartRemembers ==
  ASSUME Inv, Posted, Remembered, NEW t \in Threads, Start(t), ~Spend("faults"), NEW e \in resumes', e \notin resumes
  PROVE  /\ \A h \in Handlers : handler'[h].msg = e.msg => Remembers(h, e.run)'
         /\ \A r \in Runs : Exists(r) => runs[r].by # e.msg
<1>1. /\ t \in Handlers /\ handler[t].stage = "resuming"
      /\ e = [run |-> frame[t].run, idx |-> frame[t].idx, msg |-> handler[t].msg]
  BY DEF Start
<1>2. e.run = frame[t].run /\ e.msg = handler[t].msg /\ e.msg # NoMessage
  BY <1>1 DEF Posted, Bound
<1>3. UNCHANGED handler /\ frame'[t] # IdleFrame /\ frame'[t].run = frame[t].run
  BY StaysInRun DEF Processing, Start, Return
<1>4. ASSUME NEW h \in Handlers, handler'[h].msg = e.msg PROVE Remembers(h, e.run)'
  <2>1. h = t
    BY <1>1, <1>2, <1>3, <1>4 DEF Posted
  <2>2. QED BY <1>1, <1>2, <1>3, <2>1 DEF Remembers
<1>5. \A r \in Runs : Exists(r) => runs[r].by # e.msg
  BY <1>1, <1>2 DEF Posted, Early
<1>6. QED BY <1>4, <1>5

LEMMA ReceiveRemembers ==
  ASSUME Inv, Once, Posted, Remembered, NEW h \in Handlers, NEW m \in Messages, Receive(h, m)
  PROVE  Remembered'
<1>1. deliveries[m] = 0
  <2>1. deliveries[m] \in 0..MaxDeliveries /\ MaxDeliveries \in Nat
    BY ConstantsAssumption DEF Inv, TypeOK
  <2>2. deliveries[m] < MaxDeliveries /\ MaxDeliveries <= 1
    BY DEF Receive, Once
  <2>3. QED BY <2>1, <2>2
<1>2. UNCHANGED <<runs, resumes, frame>> /\ \A g \in Handlers \ {h} : handler'[g] = handler[g]
  BY DEF Receive, Inv, TypeOK
<1>3. handler'[h].msg = m
  <2>1. PICK text \in BOOLEAN :
          LET new == [IdleHandler EXCEPT !.msg = m, !.text = text] IN
          \/ handler' = [handler EXCEPT ![h] =
               [new EXCEPT !.stage = "CONVERSATION_CREATED",
                           !.matched = Matching("CONVERSATION_CREATED")]]
          \/ handler' = [handler EXCEPT ![h] = [new EXCEPT !.stage = "resume"]]
    BY DEF Receive
  <2> DEFINE new == [IdleHandler EXCEPT !.msg = m, !.text = text]
  <2>2. new \in Handler /\ new.msg = m
    BY HandlerShapes DEF Handler, IdleHandler
  <2>3. \/ handler' = [handler EXCEPT ![h] =
             [new EXCEPT !.stage = "CONVERSATION_CREATED",
                         !.matched = Matching("CONVERSATION_CREATED")]]
        \/ handler' = [handler EXCEPT ![h] = [new EXCEPT !.stage = "resume"]]
    BY <2>1
  <2> HIDE DEF new
  <2>4. QED BY <2>2, <2>3 DEF Inv, TypeOK, Handler
<1>4. \A e \in resumes : e.msg # m
  BY <1>1 DEF Posted
<1>5. \A e \in resumes', g \in Handlers : handler'[g].msg = e.msg => Remembers(g, e.run)'
  BY <1>2, <1>3, <1>4 DEF Remembered, Remembers
<1>6. NoDoubleFire'
  BY <1>2 DEF Remembered, NoDoubleFire, Exists
<1>7. QED BY <1>5, <1>6 DEF Remembered

LEMMA RememberedStays ==
  ASSUME Inv, Shape, Sure, Posted, Remembered, [Next]_vars PROVE Remembered'
<1>0. Once /\ ~Spend("faults") /\ \A r \in Runs : Exists(r) => RowKept(r)
  BY NoFaults, RowsStay DEF Sure, Shape
<1>1. CASE \E g \in Handlers, m \in Messages : Receive(g, m)
  BY <1>0, <1>1, ReceiveRemembers
<1>2. CASE ~(\E g \in Handlers, m \in Messages : Receive(g, m))
  <2>1. ASSUME NEW e \in resumes
        PROVE  /\ e.run \in Runs /\ Exists(e.run) /\ e.msg # NoMessage /\ runs'[e.run].rule = runs[e.run].rule
    BY <1>0 DEF Posted, Inv, TypeOK, RowKept
  <2>2. ASSUME NEW e \in resumes', e \notin resumes
        PROVE  /\ \A h \in Handlers : handler'[h].msg = e.msg => Remembers(h, e.run)'
               /\ \A r \in Runs : Exists(r) => runs[r].by # e.msg
               /\ \A r \in Runs : Exists(r)' => Exists(r)
    <3>1. PICK t \in Threads : Start(t)
      BY <2>2, ResumesChange
    <3>2. frame[t].run \in Runs /\ Exists(frame[t].run)
      BY <3>1, CallType DEF Start
    <3>3. \A r \in Runs : Exists(r)' => Exists(r)
      BY <3>1, <3>2 DEF Start, Inv, TypeOK, Exists
    <3>4. QED BY <1>0, <2>2, <3>1, <3>3, StartRemembers
  <2>3. ASSUME NEW e \in resumes', NEW h \in Handlers, handler'[h].msg = e.msg PROVE Remembers(h, e.run)'
    <3>1. CASE e \in resumes
      <4>1. Drops(h) \/ Keeps(h)
        BY <1>2, HandlersKeep
      <4>2. handler[h].msg = e.msg /\ handler'[h].msg # NoMessage
        BY <2>1, <2>3, <3>1, <4>1 DEF Drops, Keeps
      <4>3. Remembers(h, e.run)
        BY <3>1, <4>2 DEF Remembered
      <4>4. QED BY <1>2, <2>1, <3>1, <4>2, <4>3, StepRemembers
    <3>2. CASE e \notin resumes
      BY <2>2, <2>3, <3>2
    <3>3. QED BY <3>1, <3>2
  <2>4. ASSUME NEW e \in resumes', NEW r \in Runs, Exists(r)', runs'[r].rule = runs'[e.run].rule
        PROVE  runs'[r].by # e.msg
    <3>1. CASE e \in resumes /\ Exists(r)
      <4>1. runs[r].rule = runs[e.run].rule /\ runs'[r].by = runs[r].by
        BY <1>0, <2>1, <2>4, <3>1 DEF RowKept
      <4>2. QED BY <3>1, <4>1 DEF Remembered, NoDoubleFire
    <3>2. CASE e \in resumes /\ ~Exists(r)
      <4>1. \E h \in Handlers : StartRun(h)
        <5>1. CASE UNCHANGED runs
          BY <2>4, <3>2, <5>1 DEF Exists
        <5>2. CASE RowGoesOn
          <6>1. PICK q \in Runs : Exists(q) /\ \A p \in Runs \ {q} : runs'[p] = runs[p]
            BY <5>2 DEF RowGoesOn, Inv, TypeOK
          <6>2. QED BY <2>4, <3>2, <6>1 DEF Exists
        <5>3. QED BY <5>1, <5>2, RowsChange
      <4>2. runs'[r].rule = runs[e.run].rule
        BY <2>1, <2>4, <3>2
      <4>3. QED BY <2>4, <3>2, <4>1, <4>2, StartsNoneResumed
    <3>3. CASE e \notin resumes
      BY <1>0, <2>2, <2>4, <3>3 DEF RowKept
    <3>4. QED BY <3>1, <3>2, <3>3
  <2>5. NoDoubleFire'
    BY <2>4 DEF NoDoubleFire
  <2>6. QED BY <2>3, <2>5 DEF Remembered
<1>3. QED BY <1>1, <1>2

LEMMA RememberedInitially == Init => Remembered
  BY DEF Init, Remembered, NoDoubleFire

\* A message that resumed a run of a rule does not start a run of that rule too: the rules
\* resumed are handed from resumeWaitingRuns to the dispatches that follow it.  Without a failed
\* call: a rejected resumption loses the list of rules.  Through workers that die, handlers that
\* die, agent events, timeouts and edits, and with any number of handlers.
THEOREM OneEffectPerMessage == Sure => (Spec => []NoDoubleFire)
<1> SUFFICES ASSUME Sure PROVE Spec => []NoDoubleFire
  OBVIOUS
<1> DEFINE J == Inv /\ Whole /\ Shape /\ Posted /\ Remembered
<1>1. Init => J
  BY Initially, WholeInitially, ShapeInitially, PostedInitially, RememberedInitially
<1>2. J /\ [Next]_vars => J'
  BY EveryStep, WholeKept, ShapeKept, PostedStays, RememberedStays DEF Sure
<1>3. J => NoDoubleFire
  BY DEF Remembered
<1>4. QED BY <1>1, <1>2, <1>3, PTL DEF Spec

-----------------------------------------------------------------------------
(* A step that waits for the customer is only on its way in the hands of a   *)
(* handler that resumes it.                                                  *)

\* No rule is edited, and no delay is followed by a step that waits for the customer: there
\* the engine schedules the step for when the delay is over, whatever its runAfter.
Settings ==
  /\ Bounds["edits"] = 0
  /\ \A p \in Plans, i \in Nat :
       i + 1 < Len(p) /\ p[i + 1].type = "WAIT" => p[i + 2].runAfter # "customer_reply"

ReplyAt(r, i) == Exists(r) /\ i < Len(RuleOf(r).steps) /\ RuleOf(r).steps[i + 1].runAfter = "customer_reply"
Resumed(r, i) == \E e \in resumes : e.run = r /\ e.idx = i

Awaited(t) ==
  /\ frame[t].pc \in {"submit", "load", "start"} /\ ReplyAt(frame[t].run, frame[t].idx) =>
       t \in Handlers /\ handler[t].stage = "resuming" /\ frame[t].depth = 0
  /\ frame[t].pc = "act" /\ ReplyAt(frame[t].run, frame[t].idx) => Resumed(frame[t].run, frame[t].idx)
  /\ frame[t].pc = "enqueue" => ~ReplyAt(frame[t].run, frame[t].idx + 1)
Answered ==
  /\ \A j \in jobs : ~ReplyAt(j.run, j.idx)
  /\ \A w \in Workers : active[w] # NoJob => ~ReplyAt(active[w].run, active[w].idx)
  /\ \A t \in Threads : Awaited(t)
  /\ \A r \in Runs, i \in Index : executed[r][i] > 0 /\ ReplyAt(r, i) => Resumed(r, i)

\* Whether a step of a run waits for the customer does not change.
Unedited ==
  /\ \A r \in Runs, i \in Nat : Exists(r) => (ReplyAt(r, i)' <=> ReplyAt(r, i))
  /\ \A r \in Runs, i \in Nat : Resumed(r, i) => Resumed(r, i)'

LEMMA RulesUnedited == ASSUME Inv, BudgetKept, Settings, [Next]_vars PROVE UNCHANGED rules
<1>1. ~Spend("edits")
  BY DEF Spend, Settings, BudgetKept, Inv, TypeOK, Events
<1>2. ASSUME NEW t \in Threads, Processing(t) \/ Fault(t) PROVE UNCHANGED rules
  BY <1>2 DEF Processing, Load, Start, Act, Advance, Enqueue, Complete, Fail, Return, Fault
<1>3. ASSUME NEW h \in Handlers, Pipeline(h) \/ AgentEvent(h) \/ Abort(h) \/ \E m \in Messages : Receive(h, m)
      PROVE  UNCHANGED rules
  BY <1>3 DEF Pipeline, StartRun, Submit, EndDispatch, ListWaiting, ResumeNext, EndResume, AgentEvent, Abort, Receive
<1>4. QED
  BY <1>1, <1>2, <1>3 DEF Next, TakeJob, Crash, FailStale, ReadStale, UpdateRule, DeleteRule, vars

LEMMA StaysUnedited == ASSUME Inv, BudgetKept, Settings, [Next]_vars PROVE Unedited
<1>1. UNCHANGED rules /\ \A r \in Runs : Exists(r) => RowKept(r)
  BY RulesUnedited, RowsStay
<1>2. \A r \in Runs : Exists(r) => Exists(r)' /\ RuleOf(r)' = RuleOf(r)
  BY <1>1 DEF RowKept, RuleOf
<1>3. resumes \subseteq resumes'
  <2>1. ASSUME NEW t \in Threads, Start(t) PROVE resumes \subseteq resumes'
    BY <2>1 DEF Start
  <2>2. QED BY <2>1, ResumesChange
<1>4. \A r \in Runs, i \in Nat : Exists(r) => (ReplyAt(r, i)' <=> ReplyAt(r, i))
  BY <1>2 DEF ReplyAt
<1>5. \A r \in Runs, i \in Nat : Resumed(r, i) => Resumed(r, i)'
  BY <1>3 DEF Resumed
<1>6. QED BY <1>4, <1>5 DEF Unedited

\* What a step may change: a job is one there was, or waits for nobody; a call is as it was, or awaited.
LEMMA AnsweredKept ==
  ASSUME Inv, Inv', Shape, Answered, Unedited,
         \A j \in jobs' : \/ \E k \in jobs : j.run = k.run /\ j.idx = k.idx
                          \/ \E w \in Workers : active[w] # NoJob /\ j.run = active[w].run /\ j.idx = active[w].idx
                          \/ ~ReplyAt(j.run, j.idx)',
         \A w \in Workers : active'[w] \in jobs \union {NoJob, active[w]},
         \A t \in Threads : \/ frame'[t] = frame[t] /\ (t \in Handlers => handler'[t].stage = handler[t].stage)
                            \/ Awaited(t)',
         \A r \in Runs, i \in Index : executed'[r][i] > 0 =>
           executed[r][i] > 0 \/ (ReplyAt(r, i)' => Resumed(r, i)')
  PROVE  Answered'
<1>0. /\ \A j \in jobs : j.run \in Runs /\ Exists(j.run) /\ j.idx \in Nat
      /\ \A w \in Workers : active[w] # NoJob => active[w].run \in Runs /\ Exists(active[w].run) /\ active[w].idx \in Nat
      /\ \A i \in Index : i \in Nat
  BY TypesOfConstants DEF Inv, TypeOK, Job, ReferencesExist
<1>1. \A w \in Workers : active[w] # NoJob => ~ReplyAt(active[w].run, active[w].idx)
  BY DEF Answered
<1>2. ASSUME NEW j \in jobs' PROVE ~ReplyAt(j.run, j.idx)'
  <2>1. ASSUME NEW w \in Workers, active[w] # NoJob, j.run = active[w].run, j.idx = active[w].idx
        PROVE  ~ReplyAt(j.run, j.idx)'
    <3>1. PICK r \in Runs, i \in Nat : r = active[w].run /\ i = active[w].idx /\ Exists(r)
      BY <1>0, <2>1
    <3>2. ~ReplyAt(r, i)
      BY <1>1, <2>1, <3>1
    <3>3. ~ReplyAt(r, i)'
      BY <3>1, <3>2 DEF Unedited
    <3>4. QED BY <2>1, <3>1, <3>3
  <2>2. ASSUME NEW k \in jobs, j.run = k.run, j.idx = k.idx PROVE ~ReplyAt(j.run, j.idx)'
    <3>1. PICK r \in Runs, i \in Nat : r = k.run /\ i = k.idx /\ Exists(r)
      BY <1>0
    <3>2. ~ReplyAt(r, i)
      BY <3>1 DEF Answered
    <3>3. ~ReplyAt(r, i)'
      BY <3>1, <3>2 DEF Unedited
    <3>4. QED BY <2>2, <3>1, <3>3
  <2>3. QED BY <2>1, <2>2
<1>3. ASSUME NEW w \in Workers, active'[w] # NoJob PROVE ~ReplyAt(active[w].run, active[w].idx)'
  <2>1. PICK j : j = active'[w]
    OBVIOUS
  <2>2. /\ j \in jobs \/ (j = active[w] /\ active[w] # NoJob)
        /\ j.run \in Runs /\ Exists(j.run) /\ j.idx \in Nat
    BY <1>0, <1>3, <2>1
  <2>3. ~ReplyAt(j.run, j.idx)
    BY <1>1, <2>2 DEF Answered
  <2>4. PICK r \in Runs, i \in Nat : r = j.run /\ i = j.idx
    BY <2>2
  <2>5. ~ReplyAt(r, i)'
    BY <2>2, <2>3, <2>4 DEF Unedited
  <2>6. QED BY <2>1, <2>4, <2>5 DEF ReplyAt
<1>4. ASSUME NEW t \in Threads PROVE Awaited(t)'
  <2>1. SUFFICES ASSUME frame'[t] = frame[t], t \in Handlers => handler'[t].stage = handler[t].stage,
                        frame[t].pc # "idle"
                 PROVE  Awaited(t)'
    BY DEF Awaited
  <2>2. PICK f : f = frame[t]
    OBVIOUS
  <2>3. f.run \in Runs /\ Exists(f.run) /\ f.idx \in Nat /\ f.idx + 1 \in Nat
    BY <1>0, <2>1, <2>2, CallType
  <2>4. PICK r \in Runs, i \in Nat, k \in Nat : r = f.run /\ i = f.idx /\ k = f.idx + 1 /\ Exists(r)
    BY <2>3
  <2>5. /\ ReplyAt(r, i)' <=> ReplyAt(r, i)
        /\ ReplyAt(r, k)' <=> ReplyAt(r, k)
        /\ Resumed(r, i) => Resumed(r, i)'
    BY <2>4 DEF Unedited
  <2>6. Awaited(t)
    BY DEF Answered
  <2>7. /\ f.pc \in {"submit", "load", "start"} /\ ReplyAt(r, i) =>
             t \in Handlers /\ handler[t].stage = "resuming" /\ f.depth = 0
        /\ f.pc = "act" /\ ReplyAt(r, i) => Resumed(r, i)
        /\ f.pc = "enqueue" => ~ReplyAt(r, k)
    BY <2>2, <2>4, <2>6 DEF Awaited
  <2>8. /\ f.pc \in {"submit", "load", "start"} /\ ReplyAt(f.run, f.idx)' =>
             t \in Handlers /\ handler'[t].stage = "resuming" /\ f.depth = 0
        /\ f.pc = "act" /\ ReplyAt(f.run, f.idx)' => Resumed(f.run, f.idx)'
        /\ f.pc = "enqueue" => ~ReplyAt(f.run, f.idx + 1)'
    BY <2>1, <2>4, <2>5, <2>7
  <2>9. f = frame'[t]
    BY <2>1, <2>2
  <2>10. QED BY <2>8, <2>9 DEF Awaited, ReplyAt, Resumed
<1>5. ASSUME NEW r \in Runs, NEW i \in Index, executed'[r][i] > 0, ReplyAt(r, i)' PROVE Resumed(r, i)'
  <2>1. SUFFICES ASSUME executed[r][i] > 0 PROVE Resumed(r, i)'
    BY <1>5
  <2>2. Exists(r)
    BY <2>1 DEF Shape, NothingBefore
  <2>3. ReplyAt(r, i)
    BY <1>0, <1>5, <2>2 DEF Unedited
  <2>4. QED BY <1>0, <2>1, <2>3 DEF Answered, Unedited
<1>6. QED BY <1>2, <1>3, <1>4, <1>5 DEF Answered, ReplyAt

\* A job in jobs' that is due where a job was due, or a worker was.
AsBefore(j) ==
  \/ \E k \in jobs : j.run = k.run /\ j.idx = k.idx
  \/ \E w \in Workers : active[w] # NoJob /\ j.run = active[w].run /\ j.idx = active[w].idx

LEMMA AloneAnswered ==
  ASSUME Inv, Inv', Shape, Answered, Unedited, NEW t \in Threads, Alone(t), Awaited(t)',
         \A j \in jobs' : AsBefore(j) \/ ~ReplyAt(j.run, j.idx)',
         t \in Workers => active'[t] \in jobs \union {NoJob, active[t]},
         \A r \in Runs, i \in Index : executed'[r][i] > 0 =>
           executed[r][i] > 0 \/ (ReplyAt(r, i)' => Resumed(r, i)')
  PROVE  Answered'
<1>1. \A w \in Workers : active'[w] \in jobs \union {NoJob, active[w]}
  BY DEF Alone
<1>2. \A u \in Threads : \/ frame'[u] = frame[u] /\ (u \in Handlers => handler'[u].stage = handler[u].stage)
                         \/ Awaited(u)'
  BY DEF Alone
<1>3. QED BY <1>1, <1>2, AnsweredKept DEF AsBefore

LEMMA RejectAnswered ==
  ASSUME Inv, Inv', Shape, Answered, Unedited, NEW t \in Threads, frame[t].pc # "idle", Reject(t), UNCHANGED executed
  PROVE  Answered'
<1>1. Alone(t) /\ (frame'[t].pc = "fail" \/ frame'[t] = IdleFrame)
  BY RejectIs
<1>2. Awaited(t)'
  BY <1>1 DEF Awaited, IdleFrame
<1>3. t \in Workers => active'[t] \in jobs \union {NoJob, active[t]}
  BY RejectIs
<1>4. UNCHANGED jobs \/ (t \in Workers /\ jobs' = jobs \union Retried(active[t]))
  BY RejectIs
<1>5. \A j \in jobs' : AsBefore(j)
  <2>1. \A j \in jobs : AsBefore(j)
    BY DEF AsBefore
  <2>2. ASSUME t \in Workers, NEW j \in Retried(active[t]) PROVE AsBefore(j)
    <3>1. active[t] \in Job /\ active[t] # NoJob
      BY <2>2, CallType DEF Inv, TypeOK, WorkersHoldJobs
    <3>2. PICK k \in Job : k = active[t]
      BY <3>1
    <3>3. j = [k EXCEPT !.attempts = @ + 1]
      BY <2>2, <3>2 DEF Retried
    <3>4. j.run = k.run /\ j.idx = k.idx
      BY <3>2, <3>3 DEF Job
    <3>5. QED BY <2>2, <3>1, <3>2, <3>4 DEF AsBefore
  <2>3. QED BY <1>4, <2>1, <2>2
<1>6. QED BY <1>1, <1>2, <1>3, <1>5, AloneAnswered

LEMMA GotoAnswered ==
  ASSUME Inv, Inv', Shape, Answered, Unedited, NEW t \in Threads, frame[t].pc # "idle", NEW pc \in PCs, Goto(t, pc),
         pc \in {"advance", "complete", "fail", "done"}, UNCHANGED <<jobs, executed>>
  PROVE  Answered'
<1>1. Alone(t) /\ UNCHANGED active /\ frame'[t].pc = pc
  BY GotoIs DEF Moves
<1>2. Awaited(t)'
  BY <1>1 DEF Awaited
<1>3. \A j \in jobs' : AsBefore(j)
  BY DEF AsBefore
<1>4. QED BY <1>1, <1>2, <1>3, AloneAnswered

LEMMA LoadAnswered ==
  ASSUME Inv, Inv', Shape, Answered, Unedited, NEW t \in Threads, Load(t) PROVE Answered'
<1>1. /\ Alone(t) /\ UNCHANGED <<active, handler, jobs, executed>> /\ frame[t].pc = "load"
      /\ frame'[t].run = frame[t].run /\ frame'[t].idx = frame[t].idx /\ frame'[t].depth = frame[t].depth
      /\ frame'[t].pc \in {"done", "start", "complete"}
  BY LoadIs DEF Moves, Load
<1>2. PICK r \in Runs, i \in Nat : r = frame[t].run /\ i = frame[t].idx /\ Exists(r)
  BY <1>1, CallType, TypesOfConstants
<1>3. ReplyAt(r, i) => t \in Handlers /\ handler[t].stage = "resuming" /\ frame[t].depth = 0
  BY <1>1, <1>2 DEF Answered, Awaited
<1>4. ReplyAt(r, i)' => ReplyAt(r, i)
  BY <1>2 DEF Unedited
<1>5. frame'[t].run = r /\ frame'[t].idx = i
  BY <1>1, <1>2
<1>6. ReplyAt(frame[t].run, frame[t].idx)' = ReplyAt(r, i)'
  BY <1>5 DEF ReplyAt, Exists, RuleOf
<1>7. Awaited(t)'
  BY <1>1, <1>3, <1>4, <1>6 DEF Awaited
<1>8. \A j \in jobs' : AsBefore(j)
  BY <1>1 DEF AsBefore
<1>9. QED BY <1>1, <1>7, <1>8, AloneAnswered

LEMMA StartAnswered ==
  ASSUME Inv, Inv', Shape, Answered, Unedited, NEW t \in Threads, Start(t) PROVE Answered'
<1>1. frame[t].pc = "start" /\ UNCHANGED executed
  BY DEF Start
<1>2. CASE Reject(t)
  BY <1>1, <1>2, RejectAnswered
<1>3. CASE Goto(t, "act") /\ UNCHANGED jobs
  <2>1. /\ Alone(t) /\ UNCHANGED active /\ frame'[t].pc = "act"
        /\ frame'[t].run = frame[t].run /\ frame'[t].idx = frame[t].idx
    BY <1>1, <1>3, GotoIs DEF Moves, PCs
  <2>2. PICK r \in Runs, i \in Nat : r = frame[t].run /\ i = frame[t].idx /\ Exists(r)
    BY <1>1, CallType, TypesOfConstants
  <2>3. ReplyAt(r, i) => t \in Handlers /\ handler[t].stage = "resuming" /\ frame[t].depth = 0
    BY <1>1, <2>2 DEF Answered, Awaited
  <2>4. ReplyAt(r, i) => Resumed(r, i)'
    <3>1. SUFFICES ASSUME ReplyAt(r, i) PROVE Resumed(r, i)'
      OBVIOUS
    <3>2. resumes' = resumes \union {[run |-> r, idx |-> i, msg |-> handler[t].msg]}
      BY <2>2, <2>3, <3>1 DEF Start
    <3>3. PICK e : e = [run |-> r, idx |-> i, msg |-> handler[t].msg]
      OBVIOUS
    <3>4. e \in resumes' /\ e.run = r /\ e.idx = i
      BY <3>2, <3>3
    <3>5. QED BY <3>4 DEF Resumed
  <2>5. ReplyAt(r, i)' => Resumed(r, i)'
    BY <2>2, <2>4 DEF Unedited
  <2>6. frame'[t].run = r /\ frame'[t].idx = i
    BY <2>1, <2>2
  <2>7. ReplyAt(frame[t].run, frame[t].idx)' = ReplyAt(r, i)' /\ Resumed(frame[t].run, frame[t].idx)' = Resumed(r, i)'
    BY <2>6 DEF ReplyAt, Exists, RuleOf, Resumed
  <2>8. Awaited(t)'
    BY <2>1, <2>5, <2>7 DEF Awaited
  <2>9. \A j \in jobs' : AsBefore(j)
    BY <1>3 DEF AsBefore
  <2>10. QED BY <1>1, <2>1, <2>8, <2>9, AloneAnswered
<1>4. QED BY <1>2, <1>3 DEF Start

\* The steps a call holds are those of its rule.
LEMMA HeldSteps ==
  ASSUME Inv, Whole, Settings, NEW t \in Threads, frame[t].pc \in {"start", "act", "advance", "enqueue"}
  PROVE  /\ frame[t].steps = RuleOf(frame[t].run).steps /\ frame[t].steps \in Plans
         /\ frame[t].idx \in Nat /\ frame[t].idx < Len(frame[t].steps) /\ Len(frame[t].steps) \in Nat
<1>1. Used("edits") = 0
  <2>1. Bounds["edits"] = 0 /\ Used("edits") \in Nat /\ Used("edits") = Bounds["edits"] - budget["edits"] /\ budget["edits"] \in Nat
    BY UsedIs DEF Settings, Whole, Events
  <2>2. QED BY <2>1
<1>2. frame[t].steps \in Plans /\ frame[t].idx < Len(frame[t].steps)
  BY CallType DEF Inv, CallsKnowTheirStep
<1>3. QED BY <1>1, <1>2, CallType, TypesOfConstants DEF Whole, StepsAreCurrent

\* A call goes on to schedule a step that waits for nobody.
LEMMA ToEnqueueAnswered ==
  ASSUME Inv, Inv', Shape, Answered, Unedited, NEW t \in Threads, frame[t].pc # "idle", Goto(t, "enqueue"),
         NEW r \in Runs, NEW i \in Nat, r = frame[t].run, i = frame[t].idx, ~ReplyAt(r, i + 1), UNCHANGED jobs,
         \A q \in Runs, k \in Index : executed'[q][k] > 0 =>
           executed[q][k] > 0 \/ (ReplyAt(q, k)' => Resumed(q, k)')
  PROVE  Answered'
<1>1. /\ Alone(t) /\ UNCHANGED active /\ frame'[t].pc = "enqueue"
      /\ frame'[t].run = r /\ frame'[t].idx = i
  BY GotoIs DEF Moves, PCs
<1>2. Exists(r) /\ i + 1 \in Nat
  BY CallType
<1>3. ~ReplyAt(r, i + 1)'
  BY <1>2 DEF Unedited
<1>4. Awaited(t)'
  BY <1>1, <1>3 DEF Awaited, ReplyAt, Exists, RuleOf
<1>5. \A j \in jobs' : AsBefore(j)
  BY DEF AsBefore
<1>6. QED BY <1>1, <1>4, <1>5, AloneAnswered

LEMMA ActAnswered ==
  ASSUME Inv, Inv', Whole, Settings, Shape, Answered, Unedited, NEW t \in Threads, Act(t) PROVE Answered'
<1>1. /\ frame[t].pc = "act" /\ UNCHANGED jobs
      /\ executed' = [executed EXCEPT ![frame[t].run][frame[t].idx] = @ + 1]
  BY DEF Act
<1>2. PICK r \in Runs, i \in Index : r = frame[t].run /\ i = frame[t].idx /\ Exists(r)
  BY <1>1, CallType
<1>3. i \in Nat /\ (ReplyAt(r, i) => Resumed(r, i))
  BY <1>1, <1>2, TypesOfConstants DEF Answered, Awaited
<1>4. ReplyAt(r, i)' => Resumed(r, i)'
  BY <1>2, <1>3 DEF Unedited
<1>5. ASSUME NEW q \in Runs, NEW k \in Index, executed'[q][k] > 0
      PROVE  executed[q][k] > 0 \/ (ReplyAt(q, k)' => Resumed(q, k)')
  <2>1. CASE q = r /\ k = i
    BY <1>4, <2>1
  <2>2. CASE ~(q = r /\ k = i)
    <3>1. executed' = [executed EXCEPT ![r][i] = @ + 1] /\ executed \in [Runs -> [Index -> Nat]]
      BY <1>1, <1>2 DEF Inv, TypeOK
    <3>2. executed'[q][k] = executed[q][k]
      BY <2>2, <3>1
    <3>3. QED BY <1>5, <3>2
  <2>3. QED BY <2>1, <2>2
<1>6. CASE frame[t].steps[frame[t].idx + 1].type = "WAIT" /\ Goto(t, "enqueue")
  <2>1. ~ReplyAt(r, i + 1)
    <3>1. PICK p \in Plans : p = frame[t].steps /\ p = RuleOf(r).steps
      BY <1>1, <1>2, HeldSteps
    <3>2. p[i + 1].type = "WAIT"
      BY <1>2, <1>6, <3>1
    <3>3. i + 1 < Len(p) => p[i + 2].runAfter # "customer_reply"
      BY <1>3, <3>1, <3>2 DEF Settings
    <3>4. (i + 1) + 1 = i + 2
      BY <1>3
    <3>5. QED BY <3>1, <3>3, <3>4 DEF ReplyAt
  <2>2. QED BY <1>1, <1>2, <1>3, <1>5, <1>6, <2>1, ToEnqueueAnswered
<1>7. ASSUME NEW pc \in {"advance", "fail"}, Goto(t, pc) PROVE Answered'
  <2>1. Alone(t) /\ UNCHANGED active /\ frame'[t].pc = pc
    BY <1>1, <1>7, GotoIs DEF Moves, PCs
  <2>2. Awaited(t)'
    BY <2>1 DEF Awaited
  <2>3. \A j \in jobs' : AsBefore(j)
    BY <1>1 DEF AsBefore
  <2>4. QED BY <1>5, <2>1, <2>2, <2>3, AloneAnswered
<1>8. QED BY <1>6, <1>7 DEF Act

LEMMA AdvanceAnswered ==
  ASSUME Inv, Inv', Whole, Settings, Shape, Answered, Unedited, NEW t \in Threads, Advance(t) PROVE Answered'
<1>1. frame[t].pc = "advance" /\ UNCHANGED <<jobs, executed>>
  BY DEF Advance
<1>2. PICK r \in Runs, i \in Index : r = frame[t].run /\ i = frame[t].idx
  BY <1>1, CallType
<1>3. CASE Goto(t, "complete") \/ Goto(t, "done")
  BY <1>1, <1>3, GotoAnswered DEF PCs
<1>4. CASE ~WaitsForReply(frame[t].steps, frame[t].idx + 1) /\ Goto(t, "enqueue")
  <2>1. i \in Nat /\ i + 1 > 0
    BY TypesOfConstants
  <2>2. frame[t].steps = RuleOf(r).steps
    BY <1>1, <1>2, HeldSteps
  <2>3. ~ReplyAt(r, i + 1)
    BY <1>2, <1>4, <2>1, <2>2 DEF WaitsForReply, ReplyAt
  <2>4. QED BY <1>1, <1>2, <1>4, <2>1, <2>3, ToEnqueueAnswered
<1>5. QED BY <1>3, <1>4 DEF Advance

LEMMA EnqueueAnswered ==
  ASSUME Inv, Inv', Shape, Answered, Unedited, NEW t \in Threads, Enqueue(t) PROVE Answered'
<1>1. frame[t].pc = "enqueue" /\ UNCHANGED executed
  BY DEF Enqueue
<1>2. PICK r \in Runs, i \in Nat : r = frame[t].run /\ i = frame[t].idx /\ Exists(r)
  BY <1>1, CallType, TypesOfConstants
<1>3. ~ReplyAt(r, i + 1) /\ i + 1 \in Nat /\ i + 1 \in Index
  BY <1>1, <1>2, NextIndex DEF Answered, Awaited
<1>4. ~ReplyAt(r, i + 1)'
  BY <1>2, <1>3 DEF Unedited
<1>5. CASE To(t, Call(frame[t].run, frame[t].idx + 1, frame[t].depth + 1)) /\ UNCHANGED jobs
  <2>1. PICK g : g = Call(frame[t].run, frame[t].idx + 1, frame[t].depth + 1)
    OBVIOUS
  <2>2. g.pc = "load" /\ g.run = r /\ g.idx = i + 1
    BY <1>2, <2>1 DEF Call
  <2>3. frame'[t] = g /\ (\A u \in Threads : u # t => frame'[u] = frame[u]) /\ UNCHANGED <<active, handler>>
    BY <1>5, <2>1 DEF To, Inv, TypeOK
  <2>4. Alone(t)
    BY <2>3 DEF Alone, Threads
  <2>5. Awaited(t)'
    BY <1>4, <2>2, <2>3 DEF Awaited, ReplyAt, Exists, RuleOf
  <2>6. \A j \in jobs' : AsBefore(j)
    BY <1>5 DEF AsBefore
  <2>7. QED BY <1>1, <2>3, <2>4, <2>5, <2>6, AloneAnswered
<1>6. ASSUME NEW id \in JobIds, Goto(t, "done"), Push(id, frame[t].run, frame[t].idx + 1) PROVE Answered'
  <2>1. Alone(t) /\ UNCHANGED active /\ frame'[t].pc = "done"
    BY <1>1, <1>6, GotoIs DEF Moves, PCs
  <2>2. Awaited(t)'
    BY <2>1 DEF Awaited
  <2>3. \A j \in jobs' : j \in jobs \/ (j.run = r /\ j.idx = i + 1)
    BY <1>2, <1>3, <1>6, Pushed
  <2>4. \A j \in jobs' : AsBefore(j) \/ ~ReplyAt(j.run, j.idx)'
    BY <1>4, <2>3 DEF AsBefore
  <2>5. QED BY <1>1, <2>1, <2>2, <2>4, AloneAnswered
<1>7. QED BY <1>5, <1>6 DEF Enqueue

LEMMA EndsAnswered ==
  ASSUME Inv, Inv', Shape, Answered, Unedited, NEW t \in Threads, Complete(t) \/ Fail(t) \/ Fault(t) PROVE Answered'
<1>1. frame[t].pc # "idle" /\ UNCHANGED executed
  BY DEF Complete, Fail, Fault
<1>2. Reject(t) \/ \E pc \in {"done", "fail"} : Goto(t, pc) /\ UNCHANGED jobs
  BY DEF Complete, Fail, Fault
<1>3. QED BY <1>1, <1>2, RejectAnswered, GotoAnswered DEF PCs

LEMMA ReturnAnswered ==
  ASSUME Inv, Inv', Shape, Answered, Unedited, NEW t \in Threads, Return(t) PROVE Answered'
<1>1. /\ frame' = [frame EXCEPT ![t] = IdleFrame] /\ UNCHANGED <<jobs, executed>>
      /\ active' = [w \in Workers |-> IF w = t THEN NoJob ELSE active[w]]
      /\ \A h \in Handlers : h # t => handler'[h] = handler[h]
  BY DEF Return
<1>2. frame'[t] = IdleFrame /\ \A u \in Threads : u # t => frame'[u] = frame[u]
  BY <1>1, FrameReplaced
<1>3. Alone(t) /\ (t \in Workers => active'[t] = NoJob)
  BY <1>1, <1>2 DEF Alone
<1>4. Awaited(t)'
  BY <1>2 DEF Awaited, IdleFrame
<1>5. \A j \in jobs' : AsBefore(j)
  BY <1>1 DEF AsBefore
<1>6. QED BY <1>1, <1>3, <1>4, <1>5, AloneAnswered

LEMMA WorkersAnswered ==
  ASSUME Inv, Inv', Shape, Answered, Unedited, NEW w \in Workers, TakeJob(w) \/ Crash(w) PROVE Answered'
<1>0. w \in Threads /\ w \notin Handlers /\ UNCHANGED executed
  BY ConstantsAssumption DEF Threads, TakeJob, Crash
<1>1. CASE TakeJob(w)
  <2>1. PICK j \in jobs : /\ jobs' = jobs \ {j} /\ active' = [active EXCEPT ![w] = j]
                          /\ frame' = [frame EXCEPT ![w] = Call(j.run, j.idx, 0)] /\ UNCHANGED handler
    BY <1>1 DEF TakeJob
  <2>2. active'[w] = j /\ Alone(w)
    BY <1>0, <2>1 DEF Alone, Inv, TypeOK
  <2>3. PICK r \in Runs, i \in Nat : r = j.run /\ i = j.idx /\ Exists(r)
    BY <2>1, TypesOfConstants DEF Inv, TypeOK, Job, ReferencesExist
  <2>4. frame'[w].pc = "load" /\ frame'[w].run = r /\ frame'[w].idx = i
    BY <1>0, <2>1, <2>3 DEF Inv, TypeOK, Call
  <2>5. ~ReplyAt(r, i)'
    BY <2>1, <2>3 DEF Answered, Unedited
  <2>6. Awaited(w)'
    BY <2>4, <2>5 DEF Awaited, ReplyAt, Exists, RuleOf
  <2>7. \A k \in jobs' : AsBefore(k)
    BY <2>1 DEF AsBefore
  <2>8. QED BY <1>0, <2>2, <2>6, <2>7, AloneAnswered
<1>2. CASE Crash(w)
  <2>1. /\ active[w] # NoJob /\ active[w] \in Job /\ UNCHANGED handler
        /\ jobs' = jobs \union (IF active[w].stalled THEN {} ELSE {[active[w] EXCEPT !.stalled = TRUE]})
        /\ active' = [active EXCEPT ![w] = NoJob] /\ frame' = [frame EXCEPT ![w] = IdleFrame]
    BY <1>2 DEF Crash, Inv, TypeOK
  <2>2. Alone(w) /\ active'[w] = NoJob /\ frame'[w] = IdleFrame
    BY <1>0, <2>1 DEF Alone, Inv, TypeOK
  <2>3. Awaited(w)'
    BY <2>2 DEF Awaited, IdleFrame
  <2>4. \A j \in jobs' : AsBefore(j)
    <3>1. [active[w] EXCEPT !.stalled = TRUE].run = active[w].run /\ [active[w] EXCEPT !.stalled = TRUE].idx = active[w].idx
      BY <2>1 DEF Job
    <3>2. QED BY <2>1, <3>1 DEF AsBefore
  <2>5. QED BY <1>0, <2>2, <2>3, <2>4, AloneAnswered
<1>3. QED BY <1>1, <1>2

\* The first step of a rule waits for nobody.
LEMMA RulesStartAtOnce == ASSUME Inv', NEW r \in Runs PROVE ~ReplyAt(r, 0)'
<1>1. CASE Exists(r)'
  <2>1. RuleOf(r).steps' \in Plans
    BY <1>1 DEF Inv, TypeOK, Exists, NoRun, Run, RuleOf, Rule
  <2>2. RuleOf(r).steps[1].runAfter' = "immediate"
    BY <2>1, ConstantsAssumption
  <2>3. QED BY <2>2 DEF ReplyAt
<1>2. QED BY <1>1 DEF ReplyAt

LEMMA HandlersAnswered ==
  ASSUME Inv, Inv', Shape, Answered, Unedited, NEW h \in Handlers,
         Pipeline(h) \/ AgentEvent(h) \/ Abort(h) \/ \E m \in Messages : Receive(h, m)
  PROVE  Answered'
<1>0. h \in Threads /\ h \notin Workers /\ handler[h] \in Handler /\ Apart(h) /\ UNCHANGED executed
  BY ConstantsAssumption
  DEF Threads, Inv, TypeOK, Shape, Pipeline, StartRun, Submit, EndDispatch, ListWaiting, ResumeNext, EndResume, AgentEvent,
      Abort, Receive
<1>1. /\ \A g \in Handlers \ {h} : handler'[g] = handler[g]
      /\ \A u \in Threads \ {h} : frame'[u] = frame[u]
      /\ UNCHANGED active
  BY OthersStandStill
<1>2. Alone(h)
  BY <1>1 DEF Alone
<1>3. IdleFrame.pc = "idle" /\ IdleHandler.stage = "idle"
  BY DEF IdleFrame, IdleHandler
<1>4. ASSUME frame'[h].pc = "idle" \/ (frame'[h].idx = 0 /\ frame'[h].pc \in {"submit", "load"}), UNCHANGED jobs
      PROVE  Answered'
  <2>1. frame'[h].pc # "idle" => frame'[h].run \in Runs
    BY <1>0 DEF Inv, TypeOK, IdleFrame, Frame
  <2>2. PICK r : r = frame'[h].run
    OBVIOUS
  <2>3. frame'[h].idx = 0 => ReplyAt(frame[h].run, frame[h].idx)' = ReplyAt(r, 0)'
    BY <2>2 DEF ReplyAt, Exists, RuleOf
  <2>4. r \in Runs => ~ReplyAt(r, 0)'
    BY RulesStartAtOnce
  <2>5. Awaited(h)'
    BY <1>4, <2>1, <2>2, <2>3, <2>4 DEF Awaited
  <2>6. \A j \in jobs' : AsBefore(j)
    BY <1>4 DEF AsBefore
  <2>7. QED BY <1>0, <1>2, <2>5, <2>6, AloneAnswered
<1>5. CASE StartRun(h)
  <2>1. frame[h] = IdleFrame /\ UNCHANGED jobs
    BY <1>5 DEF StartRun
  <2>2. UNCHANGED frame \/ \E r \in Runs : frame' = [frame EXCEPT ![h] = [Call(r, 0, 0) EXCEPT !.pc = "submit"]]
    BY <1>5 DEF StartRun
  <2>3. ASSUME NEW r \in Runs, frame' = [frame EXCEPT ![h] = [Call(r, 0, 0) EXCEPT !.pc = "submit"]]
        PROVE  frame'[h].idx = 0 /\ frame'[h].pc = "submit"
    BY <1>0, <2>3 DEF Inv, TypeOK, Call
  <2>4. QED BY <1>4, <1>3, <2>1, <2>2, <2>3
<1>6. CASE Submit(h)
  <2>1. frame[h].pc = "submit" /\ frame[h].idx = 0 /\ frame[h] \in Frame
    BY <1>0, <1>6, CallType DEF Submit, Apart
  <2>2. CASE frame' = [frame EXCEPT ![h].pc = "load"] /\ UNCHANGED jobs
    <3>1. frame'[h].pc = "load" /\ frame'[h].idx = 0
      BY <1>0, <2>1, <2>2 DEF Inv, TypeOK, Frame
    <3>2. QED BY <1>4, <2>2, <3>1
  <2>3. CASE frame' = [frame EXCEPT ![h] = IdleFrame] /\ UNCHANGED jobs
    BY <1>0, <1>4, <1>3, <2>3 DEF Inv, TypeOK
  <2>4. ASSUME frame' = [frame EXCEPT ![h] = IdleFrame], NEW id \in JobIds, Push(id, frame[h].run, 0)
        PROVE  Answered'
    <3>1. PICK r \in Runs : r = frame[h].run /\ 0 \in Index
      BY <1>0, <2>1, CallType, TypesOfConstants
    <3>2. \A j \in jobs' : j \in jobs \/ (j.run = r /\ j.idx = 0)
      BY <2>4, <3>1, Pushed
    <3>3. ~ReplyAt(r, 0)'
      BY RulesStartAtOnce
    <3>4. \A j \in jobs' : AsBefore(j) \/ ~ReplyAt(j.run, j.idx)'
      BY <3>2, <3>3 DEF AsBefore
    <3>5. Awaited(h)'
      BY <1>0, <2>4 DEF Inv, TypeOK, IdleFrame, Awaited
    <3>6. QED BY <1>0, <1>2, <3>4, <3>5, AloneAnswered
  <2>5. QED BY <1>6, <2>2, <2>3, <2>4 DEF Submit
<1>7. CASE ResumeNext(h)
  <2>1. PICK s \in handler[h].waiting : /\ handler' = [handler EXCEPT ![h].waiting = @ \ {s}]
                                       /\ frame' = [frame EXCEPT ![h] = Call(s.run, s.idx, 0)] /\ UNCHANGED jobs
    BY <1>7 DEF ResumeNext
  <2>2. handler'[h].stage = "resuming" /\ frame'[h] = Call(s.run, s.idx, 0)
    BY <1>0, <1>7, <2>1 DEF ResumeNext, Inv, TypeOK, Handler
  <2>3. Call(s.run, s.idx, 0).depth = 0 /\ Call(s.run, s.idx, 0).pc = "load"
    BY DEF Call
  <2>4. Awaited(h)'
    BY <2>2, <2>3 DEF Awaited
  <2>5. \A j \in jobs' : AsBefore(j)
    BY <2>1 DEF AsBefore
  <2>6. QED BY <1>0, <1>2, <2>4, <2>5, AloneAnswered
<1>8. CASE EndDispatch(h) \/ EndResume(h) \/ ListWaiting(h) \/ AgentEvent(h) \/ \E m \in Messages : Receive(h, m)
  <2>1. UNCHANGED <<frame, jobs>>
    BY <1>8 DEF EndDispatch, EndResume, ListWaiting, AgentEvent, Receive
  <2>2. EndDispatch(h) \/ EndResume(h) => frame[h] = IdleFrame
    BY DEF EndDispatch, EndResume
  <2>3. ListWaiting(h) => frame[h] = IdleFrame
    BY <1>0 DEF ListWaiting, Apart
  <2>4. AgentEvent(h) \/ (\E m \in Messages : Receive(h, m)) => frame[h] = IdleFrame
    BY <1>0, <1>3 DEF AgentEvent, Receive, Apart
  <2>5. QED BY <1>4, <1>8, <1>3, <2>1, <2>2, <2>3, <2>4
<1>9. CASE Abort(h)
  <2>1. frame'[h] = IdleFrame /\ UNCHANGED jobs
    BY <1>0, <1>9 DEF Abort, Inv, TypeOK
  <2>2. QED BY <1>4, <1>3, <2>1
<1>10. QED BY <1>5, <1>6, <1>7, <1>8, <1>9 DEF Pipeline

LEMMA AnsweredStays == ASSUME Inv, Whole, Settings, Shape, Answered, [Next]_vars PROVE Answered'
<1>1. Inv' /\ Unedited
  BY EveryStep, StaysUnedited DEF Whole
<1>2. ASSUME NEW t \in Threads, Processing(t) \/ Fault(t) PROVE Answered'
  BY <1>1, <1>2, LoadAnswered, StartAnswered, ActAnswered, AdvanceAnswered, EnqueueAnswered, EndsAnswered, ReturnAnswered
  DEF Processing
<1>3. ASSUME NEW w \in Workers, TakeJob(w) \/ Crash(w) PROVE Answered'
  BY <1>1, <1>3, WorkersAnswered
<1>4. ASSUME NEW h \in Handlers, Pipeline(h) \/ AgentEvent(h) \/ Abort(h) \/ \E m \in Messages : Receive(h, m)
      PROVE  Answered'
  BY <1>1, <1>4, HandlersAnswered
<1>5. ASSUME UNCHANGED <<jobs, active, frame, handler, executed>> PROVE Answered'
  BY <1>1, <1>5, AnsweredKept
<1>6. QED
  BY <1>2, <1>3, <1>4, <1>5 DEF Next, FailStale, ReadStale, UpdateRule, DeleteRule, vars

LEMMA AnsweredInitially == Init => Answered
  BY DEF Init, Answered, Awaited, IdleFrame

\* A step that waits for the customer is carried out only after a message resumed the run at
\* that step: through failed calls, workers and handlers that die, redelivered messages, agent
\* events and timeouts, and with any number of handlers.  Not when rules are edited, and not
\* for a step after a delay.
THEOREM RepliesAreAwaited == Settings => (Spec => []ReplyStepsFollowAResume)
<1> SUFFICES ASSUME Settings PROVE Spec => []ReplyStepsFollowAResume
  OBVIOUS
<1> DEFINE J == Inv /\ Whole /\ Shape /\ Answered
<1>1. Init => J
  BY Initially, WholeInitially, ShapeInitially, AnsweredInitially
<1>2. J /\ [Next]_vars => J'
  BY EveryStep, WholeKept, ShapeKept, AnsweredStays
<1>3. J => ReplyStepsFollowAResume
  BY DEF Answered, ReplyAt, Resumed, ReplyStepsFollowAResume
<1>4. QED BY <1>1, <1>2, <1>3, PTL DEF Spec
=============================================================================
