------------------------ MODULE ConversationsProofs ------------------------
(* Proofs about the components of MCConversations that hold for every value of *)
(* their constants, and the properties of the run that follow from them.       *)
EXTENDS MCConversations, FiniteSetTheorems, TLAPS

-----------------------------------------------------------------------------
(* Slips: a transfer is accepted once.                                       *)

BeforeAnswer == {"lookup", "quota", "verify"}
BeforeRow == {"charge", "read", "acknowledge", "store"}
AfterRow == {"tag", "link", "tell"}

Under(t) == task[t] # NoTask
InSteps(t, steps) == Under(t) /\ task[t].pc \in steps
\* A task that holds a valid answer of SlipOK.
Hopeful(t) == Under(t) /\ task[t].verdict = "VERIFIED"
Accepted(i) == verifications[i].verdict = "VERIFIED"
CodeOf(i) == picture[verifications[i].image].qr

SlTyped ==
  /\ picture \in [Images -> [qr : Codes \union NoCode, fields : SUBSET Fields]]
  /\ task \in [Tasks -> Task \union {NoTask}]
  /\ verifications \in Seq(Row) /\ verdictsTold \in Seq(Row)
  /\ quota \in Nat /\ billed \in Nat /\ slLost \in Nat
  /\ known \subseteq Codes

\* No task has a verdict before it asked, and only of a readable code is one asked for.
NothingPresumed == \A t \in Tasks : InSteps(t, BeforeAnswer) => task[t].verdict = "PENDING" /\ QrOf(t) \in Codes
\* SlipOK has seen every code that is, or is going to be, accepted.
AcceptedIsKnown ==
  /\ \A t \in Tasks : Hopeful(t) => QrOf(t) \in known
  /\ \A i \in DOMAIN verifications : Accepted(i) => CodeOf(i) \in known
\* A task on its way to store a valid answer is the only one of its code.
OneOnTheWay ==
  \A t \in Tasks : Hopeful(t) /\ InSteps(t, BeforeRow) =>
    /\ \A u \in Tasks : Hopeful(u) /\ InSteps(u, BeforeRow) /\ QrOf(u) = QrOf(t) => u = t
    /\ \A i \in DOMAIN verifications : Accepted(i) => CodeOf(i) # QrOf(t)
OneAccepted ==
  \A i, j \in DOMAIN verifications : Accepted(i) /\ Accepted(j) /\ CodeOf(i) = CodeOf(j) => i = j
\* What a task is to tell it has stored.
StoredBeforeTold ==
  /\ \A t \in Tasks : Hopeful(t) /\ InSteps(t, AfterRow) =>
       \E j \in DOMAIN verifications :
         verifications[j] = [image |-> task[t].image, verdict |-> task[t].verdict]
  /\ \A i \in DOMAIN verdictsTold : verdictsTold[i].verdict = "VERIFIED" =>
       \E j \in DOMAIN verifications : verifications[j] = verdictsTold[i]

SlInv ==
  /\ SlTyped
  /\ NothingPresumed
  /\ AcceptedIsKnown
  /\ OneOnTheWay
  /\ OneAccepted
  /\ StoredBeforeTold

LEMMA SlipsInitially == SlInit => SlInv
<1> SUFFICES ASSUME SlInit PROVE SlInv
  OBVIOUS
<1>1. SlTyped
  BY SlipsAssumption DEF SlInit, SlTyped, NoCode, Fields, Weight
<1>2. \A t \in Tasks : ~Under(t)
  BY DEF SlInit, Under
<1>3. DOMAIN verifications = {} /\ DOMAIN verdictsTold = {}
  BY DEF SlInit
<1>4. QED
  BY <1>1, <1>2, <1>3
  DEF SlInv, NothingPresumed, AcceptedIsKnown, OneOnTheWay, OneAccepted, StoredBeforeTold, InSteps, Hopeful

-----------------------------------------------------------------------------
(* Types. *)

LEMMA SlTaskTyped ==
  ASSUME SlInv, NEW t \in Tasks, Under(t)
  PROVE  /\ task[t] \in Task
         /\ QrOf(t) \in Codes \union NoCode
  BY DEF SlInv, SlTyped, Under, Task, QrOf

\* A step of the program moves one task; the record it leaves is a task again.
LEMMA SlMoveTyped ==
  ASSUME SlInv, NEW t \in Tasks, NEW new \in Task \union {NoTask},
         task' = [task EXCEPT ![t] = new]
  PROVE  /\ task' \in [Tasks -> Task \union {NoTask}]
         /\ task'[t] = new
         /\ \A u \in Tasks \ {t} : task'[u] = task[u]
  BY DEF SlInv, SlTyped

LEMMA SlToIs ==
  ASSUME SlInv, NEW t \in Tasks, Under(t), NEW step \in SlSteps, To(t, step)
  PROVE  /\ task' \in [Tasks -> Task \union {NoTask}]
         /\ task'[t] = [task[t] EXCEPT !.pc = step]
         /\ task'[t] \in Task
         /\ task'[t].pc = step /\ task'[t].verdict = task[t].verdict /\ task'[t].image = task[t].image
         /\ \A u \in Tasks \ {t} : task'[u] = task[u]
<1>1. task[t] \in Task
  BY SlTaskTyped
<1>2. [task[t] EXCEPT !.pc = step] \in Task
  BY <1>1 DEF Task
<1>3. task' = [task EXCEPT ![t] = [task[t] EXCEPT !.pc = step]]
  BY DEF To
<1>4. QED BY <1>1, <1>2, <1>3, SlMoveTyped DEF Task

LEMMA SlToWithIs ==
  ASSUME SlInv, NEW t \in Tasks, Under(t), NEW step \in SlSteps, NEW verdict \in Verdicts,
         ToWith(t, step, verdict)
  PROVE  /\ task' \in [Tasks -> Task \union {NoTask}]
         /\ task'[t] \in Task
         /\ task'[t].pc = step /\ task'[t].verdict = verdict /\ task'[t].image = task[t].image
         /\ \A u \in Tasks \ {t} : task'[u] = task[u]
<1> DEFINE new == [task[t] EXCEPT !.pc = step, !.verdict = verdict]
<1>1. task[t] \in Task
  BY SlTaskTyped
<1>2. /\ new \in Task
      /\ new.pc = step /\ new.verdict = verdict /\ new.image = task[t].image
  BY <1>1 DEF Task
<1>3. task' = [task EXCEPT ![t] = new]
  BY DEF ToWith
<1> HIDE DEF new
<1>4. QED BY <1>2, <1>3, SlMoveTyped

LEMMA SlEndIs ==
  ASSUME SlInv, NEW t \in Tasks, EndTask(t)
  PROVE  /\ task' \in [Tasks -> Task \union {NoTask}]
         /\ task'[t] = NoTask
         /\ \A u \in Tasks \ {t} : task'[u] = task[u]
  BY SlMoveTyped DEF EndTask

-----------------------------------------------------------------------------
(* A step that stores nothing, tells nothing and gives no task a valid answer. *)

\* What it may do to a task: end it, leave it without a valid answer, or move it on with
\* the answer it has, not past the storing of it.
SlQuietFor(t) ==
  \/ task'[t] = NoTask
  \/ /\ task'[t] # NoTask => task'[t].verdict # "VERIFIED"
     /\ task'[t] # NoTask /\ task'[t].pc \in BeforeAnswer =>
          task'[t].verdict = "PENDING" /\ picture[task'[t].image].qr \in Codes
  \/ /\ Under(t)
     /\ task'[t].image = task[t].image /\ task'[t].verdict = task[t].verdict
     /\ task'[t].pc \in BeforeAnswer => task[t].pc \in BeforeAnswer
     /\ task'[t].pc \in BeforeRow => task[t].pc \in BeforeRow
     /\ task'[t].pc \in AfterRow => task[t].pc \in AfterRow

SlQuiet ==
  /\ SlTyped'
  /\ picture' = picture /\ verifications' = verifications /\ verdictsTold' = verdictsTold
  /\ known \subseteq known'
  /\ \A t \in Tasks : SlQuietFor(t)

LEMMA SlQuietKeeps ==
  ASSUME SlInv, SlQuiet
  PROVE  SlInv'
<1>1. NothingPresumed'
  <2> SUFFICES ASSUME NEW t \in Tasks, InSteps(t, BeforeAnswer)'
               PROVE  (task[t].verdict = "PENDING")' /\ QrOf(t)' \in Codes
    BY DEF NothingPresumed
  <2>1. SlQuietFor(t)
    BY DEF SlQuiet
  <2>2. task'[t] # NoTask /\ task'[t].pc \in BeforeAnswer /\ QrOf(t)' = picture[task'[t].image].qr
    BY DEF InSteps, Under, QrOf, SlQuiet
  <2>3. CASE Under(t) /\ task[t].pc \in BeforeAnswer /\ task'[t].image = task[t].image /\ task'[t].verdict = task[t].verdict
    BY <2>2, <2>3 DEF SlInv, NothingPresumed, InSteps, QrOf
  <2>4. QED BY <2>1, <2>2, <2>3 DEF SlQuietFor
<1>2. ASSUME NEW t \in Tasks, Hopeful(t)'
      PROVE  /\ Hopeful(t) /\ QrOf(t)' = QrOf(t)
             /\ task'[t].image = task[t].image /\ task'[t].verdict = task[t].verdict
             /\ InSteps(t, BeforeRow)' => InSteps(t, BeforeRow)
             /\ InSteps(t, AfterRow)' => InSteps(t, AfterRow)
  <2>1. SlQuietFor(t) /\ picture' = picture
    BY DEF SlQuiet
  <2>2. task'[t] # NoTask /\ task'[t].verdict = "VERIFIED"
    BY <1>2 DEF Hopeful, Under
  <2>3. QED BY <2>1, <2>2 DEF SlQuietFor, Hopeful, InSteps, Under, QrOf
<1>3. \A i \in DOMAIN verifications : (Accepted(i)' <=> Accepted(i)) /\ CodeOf(i)' = CodeOf(i)
  BY DEF SlQuiet, Accepted, CodeOf
<1>4. AcceptedIsKnown'
  BY <1>2, <1>3 DEF SlInv, AcceptedIsKnown, SlQuiet
<1>5. OneOnTheWay'
  <2> SUFFICES ASSUME NEW t \in Tasks, Hopeful(t)', InSteps(t, BeforeRow)'
               PROVE  /\ \A u \in Tasks : Hopeful(u)' /\ InSteps(u, BeforeRow)' /\ QrOf(u)' = QrOf(t)' => u = t
                      /\ \A i \in DOMAIN verifications' : Accepted(i)' => CodeOf(i)' # QrOf(t)'
    BY DEF OneOnTheWay
  <2>1. Hopeful(t) /\ InSteps(t, BeforeRow) /\ QrOf(t)' = QrOf(t)
    BY <1>2
  <2>2. ASSUME NEW u \in Tasks, Hopeful(u)', InSteps(u, BeforeRow)', QrOf(u)' = QrOf(t)'
        PROVE  u = t
    <3>1. Hopeful(u) /\ InSteps(u, BeforeRow) /\ QrOf(u) = QrOf(t)
      BY <1>2, <2>1, <2>2
    <3>2. QED BY <2>1, <3>1 DEF SlInv, OneOnTheWay
  <2>3. ASSUME NEW i \in DOMAIN verifications', Accepted(i)'
        PROVE  CodeOf(i)' # QrOf(t)'
    <3>1. i \in DOMAIN verifications
      BY DEF SlQuiet
    <3>2. QED BY <1>3, <2>1, <2>3, <3>1 DEF SlInv, OneOnTheWay
  <2>4. QED BY <2>2, <2>3
<1>6. OneAccepted'
  BY <1>3 DEF SlInv, OneAccepted, SlQuiet
<1>7. StoredBeforeTold'
  BY <1>2 DEF SlInv, StoredBeforeTold, SlQuiet
<1>8. QED BY <1>1, <1>4, <1>5, <1>6, <1>7 DEF SlInv, SlQuiet

\* A task that stays where it is.
LEMMA SlStillIsQuiet ==
  ASSUME SlInv, NEW t \in Tasks, task'[t] = task[t]
  PROVE  SlQuietFor(t)
  BY DEF SlQuietFor, Under

LEMMA SlOneMovesQuietly ==
  ASSUME SlInv, NEW t \in Tasks, SlQuietFor(t),
         task' \in [Tasks -> Task \union {NoTask}],
         \A u \in Tasks \ {t} : task'[u] = task[u],
         picture' = picture, verifications' = verifications, verdictsTold' = verdictsTold,
         known' \subseteq Codes, known \subseteq known',
         quota' \in Nat, billed' \in Nat, slLost' \in Nat
  PROVE  SlInv'
<1>1. SlTyped'
  BY DEF SlInv, SlTyped
<1>2. \A u \in Tasks : SlQuietFor(u)
  BY SlStillIsQuiet
<1>3. QED BY <1>1, <1>2, SlQuietKeeps DEF SlQuiet

-----------------------------------------------------------------------------
(* Step by step. *)

LEMMA StartSlipKeeps ==
  ASSUME SlInv, NEW t \in Tasks, NEW m \in Images, StartSlip(t, m)
  PROVE  SlInv'
<1> DEFINE new == [pc |-> IF picture[m].qr \in NoCode THEN "read" ELSE "lookup",
                   image |-> m, verdict |-> "PENDING", seen |-> {},
                   adding |-> "waiting", owed |-> {}]
<1>1. /\ new \in Task
      /\ new.verdict = "PENDING" /\ new.image = m
      /\ new.pc \in BeforeAnswer => picture[m].qr \notin NoCode
  BY DEF Task, SlSteps, Verdicts, SlipTags, BeforeAnswer
<1>2. picture[m].qr \in Codes \union NoCode
  BY DEF SlInv, SlTyped
<1>3. task' = [task EXCEPT ![t] = new]
  BY DEF StartSlip
<1> HIDE DEF new
<1>4. /\ task' \in [Tasks -> Task \union {NoTask}] /\ task'[t] = new
      /\ \A u \in Tasks \ {t} : task'[u] = task[u]
  BY <1>1, <1>3, SlMoveTyped
<1>5. SlQuietFor(t)
  BY <1>1, <1>2, <1>4 DEF SlQuietFor
<1>6. QED BY <1>4, <1>5, SlOneMovesQuietly DEF StartSlip, SlInv, SlTyped

\* A task that goes on with its verdict, from one place to another.
LEMMA SlGoesQuietly ==
  ASSUME SlInv, NEW t \in Tasks, Under(t), NEW step \in SlSteps, To(t, step),
         step \in BeforeAnswer => task[t].pc \in BeforeAnswer,
         step \in BeforeRow => task[t].pc \in BeforeRow \/ task[t].verdict # "VERIFIED",
         step \in AfterRow => task[t].pc \in AfterRow
  PROVE  SlQuietFor(t)
<1>1. /\ task'[t].pc = step /\ task'[t].verdict = task[t].verdict /\ task'[t].image = task[t].image
  BY SlToIs
<1>2. step \in BeforeRow => step \notin BeforeAnswer
  BY DEF BeforeRow, BeforeAnswer
<1>3. CASE step \in BeforeRow /\ task[t].verdict # "VERIFIED"
  BY <1>1, <1>2, <1>3 DEF SlQuietFor
<1>4. CASE ~(step \in BeforeRow /\ task[t].verdict # "VERIFIED")
  BY <1>1, <1>4 DEF SlQuietFor
<1>5. QED BY <1>3, <1>4

LEMMA LookUpKeeps ==
  ASSUME SlInv, NEW t \in Tasks, LookUpSlip(t)
  PROVE  SlInv'
<1>1. Under(t) /\ task[t].pc = "lookup"
  BY DEF LookUpSlip, InTask, Under
<1>2. CASE To(t, "quota")
  <2>1. SlQuietFor(t)
    BY <1>1, <1>2, SlGoesQuietly DEF SlSteps, BeforeAnswer, BeforeRow, AfterRow
  <2>2. QED BY <1>1, <1>2, <2>1, SlToIs, SlOneMovesQuietly DEF LookUpSlip, SlInv, SlTyped, SlSteps
<1>3. CASE ToWith(t, "read", "DUPLICATE")
  <2>1. /\ task' \in [Tasks -> Task \union {NoTask}]
        /\ task'[t].pc = "read" /\ task'[t].verdict = "DUPLICATE"
        /\ \A u \in Tasks \ {t} : task'[u] = task[u]
    BY <1>1, <1>3, SlToWithIs DEF SlSteps, Verdicts
  <2>2. SlQuietFor(t)
    BY <2>1 DEF SlQuietFor, BeforeAnswer
  <2>3. QED BY <2>1, <2>2, SlOneMovesQuietly DEF LookUpSlip, SlInv, SlTyped
<1>4. QED BY <1>2, <1>3 DEF LookUpSlip

LEMMA ReadQuotaKeeps ==
  ASSUME SlInv, NEW t \in Tasks, ReadQuota(t)
  PROVE  SlInv'
<1>1. Under(t) /\ task[t].pc = "quota"
  BY DEF ReadQuota, InTask, Under
<1>2. slLost' \in Nat
  BY DEF ReadQuota, SlInv, SlTyped
<1>3. CASE To(t, "verify")
  <2>1. SlQuietFor(t)
    BY <1>1, <1>3, SlGoesQuietly DEF SlSteps, BeforeAnswer, BeforeRow, AfterRow
  <2>2. QED BY <1>1, <1>2, <1>3, <2>1, SlToIs, SlOneMovesQuietly DEF ReadQuota, SlInv, SlTyped, SlSteps
<1>4. CASE ToWith(t, "read", "MANUAL_REVIEW")
  <2>1. /\ task' \in [Tasks -> Task \union {NoTask}]
        /\ task'[t].pc = "read" /\ task'[t].verdict = "MANUAL_REVIEW"
        /\ \A u \in Tasks \ {t} : task'[u] = task[u]
    BY <1>1, <1>4, SlToWithIs DEF SlSteps, Verdicts
  <2>2. SlQuietFor(t)
    BY <2>1 DEF SlQuietFor, BeforeAnswer
  <2>3. QED BY <1>2, <2>1, <2>2, SlOneMovesQuietly DEF ReadQuota, SlInv, SlTyped
<1>5. QED BY <1>3, <1>4 DEF ReadQuota

LEMMA ChargeKeeps ==
  ASSUME SlInv, NEW t \in Tasks, ChargeQuota(t)
  PROVE  SlInv'
<1>1. Under(t) /\ task[t].pc = "charge" /\ To(t, "read")
  BY DEF ChargeQuota, InTask, Under
<1>2. SlQuietFor(t)
  BY <1>1, SlGoesQuietly DEF SlSteps, BeforeAnswer, BeforeRow, AfterRow
<1>3. slLost' \in Nat /\ quota' \in Nat
  BY DEF ChargeQuota, SlInv, SlTyped
<1>4. QED BY <1>1, <1>2, <1>3, SlToIs, SlOneMovesQuietly DEF ChargeQuota, SlInv, SlTyped, SlSteps

LEMMA ReadTextKeeps ==
  ASSUME SlInv, NEW t \in Tasks, ReadText(t)
  PROVE  SlInv'
<1>1. Under(t) /\ task[t].pc = "read" /\ task[t] \in Task
  BY SlTaskTyped DEF ReadText, InTask, Under
<1>2. PICK seen \in {picture[task[t].image].fields, {}} :
        task' = [task EXCEPT ![t].seen = seen,
                             ![t].pc = IF IsSlip(Score(seen, QrOf(t))) THEN "acknowledge" ELSE "store"]
  BY DEF ReadText
<1>3. PICK step \in {"acknowledge", "store"} : step = IF IsSlip(Score(seen, QrOf(t))) THEN "acknowledge" ELSE "store"
  OBVIOUS
<1>4. seen \in SUBSET Fields
  BY <1>1 DEF SlInv, SlTyped, Task
<1> DEFINE new == [task[t] EXCEPT !.seen = seen, !.pc = step]
<1>5. /\ new \in Task /\ new.pc = step
      /\ new.verdict = task[t].verdict /\ new.image = task[t].image
  BY <1>1, <1>4 DEF Task, SlSteps
<1>6. task' = [task EXCEPT ![t] = new]
  BY <1>2, <1>3
<1> HIDE DEF new
<1>7. /\ task' \in [Tasks -> Task \union {NoTask}] /\ task'[t] = new
      /\ \A u \in Tasks \ {t} : task'[u] = task[u]
  BY <1>5, <1>6, SlMoveTyped
<1>8. SlQuietFor(t)
  BY <1>1, <1>5, <1>7 DEF SlQuietFor, BeforeAnswer, BeforeRow, AfterRow
<1>9. QED BY <1>7, <1>8, SlOneMovesQuietly DEF ReadText, SlInv, SlTyped

LEMMA AcknowledgeKeeps ==
  ASSUME SlInv, NEW t \in Tasks, Acknowledge(t)
  PROVE  SlInv'
<1>1. Under(t) /\ task[t].pc = "acknowledge" /\ To(t, "store")
  BY DEF Acknowledge, InTask, Under
<1>2. SlQuietFor(t)
  BY <1>1, SlGoesQuietly DEF SlSteps, BeforeAnswer, BeforeRow, AfterRow
<1>3. QED BY <1>1, <1>2, SlToIs, SlOneMovesQuietly DEF Acknowledge, SlInv, SlTyped, SlSteps

LEMMA EnsureTagKeeps ==
  ASSUME SlInv, NEW t \in Tasks, EnsureTag(t)
  PROVE  SlInv'
<1>1. Under(t) /\ task[t].pc = "tag"
  BY DEF EnsureTag, InTask, Under
<1>2. CASE To(t, "link")
  <2>1. SlQuietFor(t)
    BY <1>1, <1>2, SlGoesQuietly DEF SlSteps, BeforeAnswer, BeforeRow, AfterRow
  <2>2. QED BY <1>1, <1>2, <2>1, SlToIs, SlOneMovesQuietly DEF EnsureTag, SlInv, SlTyped, SlSteps
<1>3. CASE EndTask(t)
  <2>1. SlQuietFor(t)
    BY <1>3, SlEndIs DEF SlQuietFor
  <2>2. QED BY <1>3, <2>1, SlEndIs, SlOneMovesQuietly DEF EnsureTag, SlInv, SlTyped
<1>4. QED BY <1>2, <1>3 DEF EnsureTag

LEMMA LinkTagKeeps ==
  ASSUME SlInv, NEW t \in Tasks, LinkTag(t)
  PROVE  SlInv'
<1>1. Under(t) /\ task[t].pc = "link" /\ task[t] \in Task
  BY SlTaskTyped DEF LinkTag, InTask, Under
<1> DEFINE toTell == [task[t] EXCEPT !.pc = "tell"]
           toTag == [task[t] EXCEPT !.pc = "tag", !.adding = "suspicious", !.owed = {}]
<1>2. CASE EndTask(t)
  <2>1. SlQuietFor(t)
    BY <1>2, SlEndIs DEF SlQuietFor
  <2>2. QED BY <1>2, <2>1, SlEndIs, SlOneMovesQuietly DEF LinkTag, SlInv, SlTyped
<1>3. CASE ~EndTask(t)
  <2>1. /\ toTell \in Task /\ toTell.pc = "tell"
        /\ toTell.verdict = task[t].verdict /\ toTell.image = task[t].image
    BY <1>1 DEF Task, SlSteps
  <2>2. /\ toTag \in Task /\ toTag.pc = "tag"
        /\ toTag.verdict = task[t].verdict /\ toTag.image = task[t].image
    BY <1>1 DEF Task, SlSteps, SlipTags
  <2>3. task' = [task EXCEPT ![t] = toTell] \/ task' = [task EXCEPT ![t] = toTag]
    BY <1>3 DEF LinkTag
  <2> HIDE DEF toTell, toTag
  <2>4. PICK new \in {toTell, toTag} : task' = [task EXCEPT ![t] = new]
    BY <2>3
  <2>5. /\ task' \in [Tasks -> Task \union {NoTask}] /\ task'[t] = new
        /\ \A u \in Tasks \ {t} : task'[u] = task[u]
    BY <2>1, <2>2, <2>4, SlMoveTyped
  <2>6. SlQuietFor(t)
    BY <1>1, <2>1, <2>2, <2>5 DEF SlQuietFor, BeforeAnswer, BeforeRow, AfterRow
  <2>7. QED BY <2>5, <2>6, SlOneMovesQuietly DEF LinkTag, SlInv, SlTyped
<1>4. QED BY <1>2, <1>3

LEMMA SlipFailsKeeps ==
  ASSUME SlInv, NEW t \in Tasks, SlipFails(t)
  PROVE  SlInv'
<1>1. EndTask(t) /\ slLost' \in Nat
  BY DEF SlipFails, SlInv, SlTyped
<1>2. SlQuietFor(t)
  BY <1>1, SlEndIs DEF SlQuietFor
<1>3. QED BY <1>1, <1>2, SlEndIs, SlOneMovesQuietly DEF SlipFails, SlInv, SlTyped

LEMMA CooldownEndsKeeps ==
  ASSUME SlInv, CooldownEnds \/ UNCHANGED slVars
  PROVE  SlInv'
<1>1. /\ picture' = picture /\ task' = task /\ verifications' = verifications
      /\ verdictsTold' = verdictsTold /\ known' = known
      /\ quota' = quota /\ billed' = billed /\ slLost' = slLost
  BY DEF CooldownEnds, slVars
<1>2. SlTyped'
  BY <1>1 DEF SlInv, SlTyped
<1>3. \A t \in Tasks : SlQuietFor(t)
  BY <1>1, SlStillIsQuiet
<1>4. QED BY <1>1, <1>2, <1>3, SlQuietKeeps DEF SlQuiet

-----------------------------------------------------------------------------
(* SlipOK's answer. *)

\* It calls a code valid once: a valid answer is for a code no other task or verification has.
LEMMA AskKeeps ==
  ASSUME SlInv, NEW t \in Tasks, AskSlipOk(t)
  PROVE  SlInv'
<1>1. Under(t) /\ task[t].pc = "verify" /\ task[t] \in Task
  BY SlTaskTyped DEF AskSlipOk, InTask, Under
<1>2. QrOf(t) \in Codes /\ task[t].verdict = "PENDING"
  BY <1>1 DEF SlInv, NothingPresumed, InSteps, BeforeAnswer
<1>3. PICK answer \in {IF QrOf(t) \in known THEN "duplicate" ELSE "valid", "invalid", "error"} :
        /\ known' \in {known \union {QrOf(t)}} \union (IF answer \in {"invalid", "error"} THEN {known} ELSE {})
        /\ billed' = IF answer = "error" THEN billed ELSE billed + 1
        /\ ToWith(t, IF Charged(answer) THEN "charge" ELSE "read", VerdictOf(answer))
  BY DEF AskSlipOk
<1>4. PICK step \in {"charge", "read"} : step = IF Charged(answer) THEN "charge" ELSE "read"
  OBVIOUS
<1>5. PICK verdict \in Verdicts : verdict = VerdictOf(answer)
  BY DEF VerdictOf, Verdicts
<1>6. ToWith(t, step, verdict)
  BY <1>3, <1>4, <1>5
<1>7. /\ task' \in [Tasks -> Task \union {NoTask}] /\ task'[t] \in Task
      /\ task'[t].pc = step /\ task'[t].verdict = verdict /\ task'[t].image = task[t].image
      /\ \A u \in Tasks \ {t} : task'[u] = task[u]
  BY <1>1, <1>4, <1>6, SlToWithIs DEF SlSteps
<1>8. /\ picture' = picture /\ verifications' = verifications /\ verdictsTold' = verdictsTold
      /\ quota' = quota /\ slLost' = slLost
  BY DEF AskSlipOk
<1>9. known' \subseteq Codes /\ known \subseteq known' /\ billed' \in Nat
  BY <1>2, <1>3 DEF SlInv, SlTyped
<1>10. CASE verdict # "VERIFIED"
  <2>1. SlQuietFor(t)
    BY <1>4, <1>7, <1>10 DEF SlQuietFor, BeforeAnswer
  <2>2. QED BY <1>7, <1>8, <1>9, <2>1, SlOneMovesQuietly DEF SlInv, SlTyped
<1>11. CASE verdict = "VERIFIED"
  <2>1. answer = "valid" /\ QrOf(t) \notin known /\ QrOf(t) \in known'
    BY <1>3, <1>5, <1>11 DEF VerdictOf
  <2>2. \A u \in Tasks : QrOf(u)' = QrOf(u)
    BY <1>7, <1>8 DEF QrOf
  <2>3. ASSUME NEW u \in Tasks, u # t
        PROVE  /\ Hopeful(u)' <=> Hopeful(u)
               /\ InSteps(u, BeforeAnswer)' <=> InSteps(u, BeforeAnswer)
               /\ InSteps(u, BeforeRow)' <=> InSteps(u, BeforeRow)
               /\ InSteps(u, AfterRow)' <=> InSteps(u, AfterRow)
               /\ task'[u] = task[u]
    BY <1>7, <2>3 DEF Hopeful, InSteps, Under
  <2>4. ~InSteps(t, BeforeAnswer)' /\ ~InSteps(t, AfterRow)'
    BY <1>4, <1>7 DEF InSteps, BeforeAnswer, AfterRow
  <2>5. \A i \in DOMAIN verifications : (Accepted(i)' <=> Accepted(i)) /\ CodeOf(i)' = CodeOf(i)
    BY <1>8 DEF Accepted, CodeOf
  <2>6. \A i \in DOMAIN verifications : Accepted(i) => CodeOf(i) # QrOf(t)
    BY <2>1 DEF SlInv, AcceptedIsKnown
  <2>7. \A u \in Tasks : Hopeful(u) => QrOf(u) # QrOf(t)
    BY <2>1 DEF SlInv, AcceptedIsKnown
  <2>8. SlTyped'
    BY <1>7, <1>8, <1>9 DEF SlInv, SlTyped
  <2>9. NothingPresumed'
    BY <2>2, <2>3, <2>4 DEF SlInv, NothingPresumed
  <2>10. AcceptedIsKnown'
    BY <1>8, <1>9, <2>1, <2>2, <2>3, <2>5 DEF SlInv, AcceptedIsKnown
  <2>11. OneOnTheWay'
    BY <1>8, <2>2, <2>3, <2>5, <2>6, <2>7 DEF SlInv, OneOnTheWay
  <2>12. OneAccepted'
    BY <1>8, <2>5 DEF SlInv, OneAccepted
  <2>13. StoredBeforeTold'
    BY <1>8, <2>3, <2>4 DEF SlInv, StoredBeforeTold
  <2>14. QED BY <2>8, <2>9, <2>10, <2>11, <2>12, <2>13 DEF SlInv
<1>12. QED BY <1>10, <1>11

-----------------------------------------------------------------------------
(* The verdict is stored, and told. *)

LEMMA StoreKeeps ==
  ASSUME SlInv, NEW t \in Tasks, StoreSlip(t)
  PROVE  SlInv'
<1> DEFINE entry == [image |-> task[t].image, verdict |-> task[t].verdict]
<1>0. PICK k : k = Len(verifications) + 1
  OBVIOUS
<1>1. Under(t) /\ task[t].pc = "store" /\ task[t] \in Task
  BY SlTaskTyped DEF StoreSlip, InTask, Under
<1>2. entry \in Row /\ verifications \in Seq(Row)
  BY <1>1 DEF Row, Task, SlInv, SlTyped
<1>3. verifications' = Append(verifications, entry)
  BY DEF StoreSlip
<1>4. /\ verifications' \in Seq(Row)
      /\ DOMAIN verifications' = DOMAIN verifications \union {k}
      /\ k \notin DOMAIN verifications
      /\ verifications'[k] = entry
      /\ \A i \in DOMAIN verifications : verifications'[i] = verifications[i]
  BY <1>0, <1>2, <1>3
<1>5. /\ picture' = picture /\ verdictsTold' = verdictsTold /\ known' = known
      /\ quota' = quota /\ billed' = billed /\ slLost' = slLost
  BY DEF StoreSlip
<1>6. /\ task' \in [Tasks -> Task \union {NoTask}]
      /\ \A u \in Tasks \ {t} : task'[u] = task[u]
      /\ \/ task'[t] = NoTask
         \/ task'[t].pc = "tag" /\ task'[t].verdict = task[t].verdict /\ task'[t].image = task[t].image
  <2>1. CASE EndTask(t)
    BY <2>1, SlEndIs
  <2>2. CASE ~EndTask(t)
    <3> DEFINE owed == IF Suspicious(t) THEN {"suspicious"} ELSE {}
               new == [task[t] EXCEPT !.pc = "tag", !.adding = "waiting", !.owed = owed]
    <3>1. owed \in SUBSET SlipTags
      BY DEF SlipTags
    <3>2. task' = [task EXCEPT ![t] = new]
      BY <2>2 DEF StoreSlip
    <3> HIDE DEF owed
    <3>3. new \in Task /\ new.pc = "tag" /\ new.verdict = task[t].verdict /\ new.image = task[t].image
      BY <1>1, <3>1 DEF Task, SlSteps, SlipTags
    <3> HIDE DEF new
    <3>4. QED BY <3>2, <3>3, SlMoveTyped
  <2>3. QED BY <2>1, <2>2
<1> HIDE DEF entry
<1>7. entry.image = task[t].image /\ entry.verdict = task[t].verdict
  BY DEF entry
<1>8. /\ Accepted(k)' <=> Hopeful(t)
      /\ CodeOf(k)' = QrOf(t)
      /\ \A i \in DOMAIN verifications : (Accepted(i)' <=> Accepted(i)) /\ CodeOf(i)' = CodeOf(i)
  BY <1>1, <1>4, <1>5, <1>7 DEF Accepted, CodeOf, Hopeful, Under, QrOf
<1>9. /\ InSteps(t, BeforeRow)
      /\ ~InSteps(t, BeforeAnswer)' /\ ~InSteps(t, BeforeRow)'
      /\ Hopeful(t)' => Hopeful(t) /\ QrOf(t)' = QrOf(t)
  BY <1>1, <1>5, <1>6 DEF InSteps, Under, BeforeAnswer, BeforeRow, Hopeful, QrOf
<1>10. ASSUME NEW u \in Tasks, u # t
       PROVE  /\ Hopeful(u)' <=> Hopeful(u)
              /\ InSteps(u, BeforeAnswer)' <=> InSteps(u, BeforeAnswer)
              /\ InSteps(u, BeforeRow)' <=> InSteps(u, BeforeRow)
              /\ InSteps(u, AfterRow)' <=> InSteps(u, AfterRow)
              /\ task'[u] = task[u] /\ QrOf(u)' = QrOf(u)
  BY <1>5, <1>6, <1>10 DEF Hopeful, InSteps, Under, QrOf
<1>11. SlTyped'
  BY <1>4, <1>5, <1>6 DEF SlInv, SlTyped
<1>12. NothingPresumed'
  BY <1>9, <1>10 DEF SlInv, NothingPresumed
<1>13. AcceptedIsKnown'
  BY <1>4, <1>5, <1>8, <1>9, <1>10 DEF SlInv, AcceptedIsKnown
<1>14. OneOnTheWay'
  <2> SUFFICES ASSUME NEW u \in Tasks, Hopeful(u)', InSteps(u, BeforeRow)'
               PROVE  /\ \A v \in Tasks : Hopeful(v)' /\ InSteps(v, BeforeRow)' /\ QrOf(v)' = QrOf(u)' => v = u
                      /\ \A i \in DOMAIN verifications' : Accepted(i)' => CodeOf(i)' # QrOf(u)'
    BY DEF OneOnTheWay
  <2>1. u # t /\ Hopeful(u) /\ InSteps(u, BeforeRow) /\ QrOf(u)' = QrOf(u)
    BY <1>9, <1>10
  <2>2. \A v \in Tasks : Hopeful(v)' /\ InSteps(v, BeforeRow)' /\ QrOf(v)' = QrOf(u)' => v = u
    BY <1>9, <1>10, <2>1 DEF SlInv, OneOnTheWay
  <2>3. Hopeful(t) => QrOf(t) # QrOf(u)
    BY <1>9, <2>1 DEF SlInv, OneOnTheWay
  <2>4. \A i \in DOMAIN verifications : Accepted(i)' => CodeOf(i)' # QrOf(u)'
    BY <1>8, <2>1 DEF SlInv, OneOnTheWay
  <2>5. QED BY <1>4, <1>8, <2>1, <2>2, <2>3, <2>4
<1>15. OneAccepted'
  <2>1. Hopeful(t) => \A i \in DOMAIN verifications : Accepted(i) => CodeOf(i) # QrOf(t)
    BY <1>9 DEF SlInv, OneOnTheWay
  <2>2. QED BY <1>4, <1>8, <2>1 DEF SlInv, OneAccepted
<1>16. StoredBeforeTold'
  <2>1. ASSUME NEW u \in Tasks, Hopeful(u)', InSteps(u, AfterRow)'
        PROVE  \E j \in DOMAIN verifications' :
                 verifications'[j] = [image |-> task'[u].image, verdict |-> task'[u].verdict]
    <3>1. CASE u = t
      <4>1. task'[t].verdict = task[t].verdict /\ task'[t].image = task[t].image
        BY <1>6, <2>1, <3>1 DEF Hopeful, Under
      <4>2. verifications'[k] = [image |-> task'[u].image, verdict |-> task'[u].verdict]
        BY <1>4, <3>1, <4>1 DEF entry
      <4>3. QED BY <1>4, <4>2
    <3>2. CASE u # t
      BY <1>4, <1>10, <2>1, <3>2 DEF SlInv, StoredBeforeTold
    <3>3. QED BY <3>1, <3>2
  <2>2. QED BY <1>4, <1>5, <2>1 DEF SlInv, StoredBeforeTold
<1>17. QED BY <1>11, <1>12, <1>13, <1>14, <1>15, <1>16 DEF SlInv

LEMMA TellKeeps ==
  ASSUME SlInv, NEW t \in Tasks, TellVerdict(t)
  PROVE  SlInv'
<1> DEFINE entry == [image |-> task[t].image, verdict |-> task[t].verdict]
           n == Len(verdictsTold)
<1>1. Under(t) /\ task[t].pc = "tell" /\ task[t] \in Task
  BY SlTaskTyped DEF TellVerdict, InTask, Under
<1>2. entry \in Row /\ verdictsTold \in Seq(Row)
  BY <1>1 DEF Row, Task, SlInv, SlTyped
<1>3. verdictsTold' = Append(verdictsTold, entry) \/ verdictsTold' = verdictsTold
  BY DEF TellVerdict
<1>4. /\ verdictsTold' \in Seq(Row)
      /\ \A i \in DOMAIN verdictsTold' :
           verdictsTold'[i] = entry \/ (i \in DOMAIN verdictsTold /\ verdictsTold'[i] = verdictsTold[i])
  BY <1>2, <1>3
<1>5. /\ picture' = picture /\ verifications' = verifications /\ known' = known
      /\ quota' = quota /\ billed' = billed /\ slLost' = slLost
      /\ EndTask(t)
  BY DEF TellVerdict
<1>6. entry.verdict = "VERIFIED" => \E j \in DOMAIN verifications : verifications[j] = entry
  BY <1>1 DEF SlInv, StoredBeforeTold, Hopeful, InSteps, AfterRow
<1> HIDE DEF entry, n
<1>7. /\ task' \in [Tasks -> Task \union {NoTask}] /\ task'[t] = NoTask
      /\ \A u \in Tasks \ {t} : task'[u] = task[u]
  BY <1>5, SlEndIs
<1>8. SlTyped'
  BY <1>4, <1>5, <1>7 DEF SlInv, SlTyped
<1>9. ~Under(t)' /\ \A u \in Tasks : QrOf(u)' = QrOf(u) \/ ~Under(u)'
  BY <1>5, <1>7 DEF Under, QrOf
<1>10. ASSUME NEW u \in Tasks, Under(u)'
       PROVE  u # t /\ task'[u] = task[u] /\ QrOf(u)' = QrOf(u)
  BY <1>5, <1>7, <1>10 DEF Under, QrOf
<1>11. \A i \in DOMAIN verifications : (Accepted(i)' <=> Accepted(i)) /\ CodeOf(i)' = CodeOf(i)
  BY <1>5 DEF Accepted, CodeOf
<1>12. NothingPresumed'
  BY <1>10 DEF SlInv, NothingPresumed, InSteps, Under
<1>13. AcceptedIsKnown'
  BY <1>5, <1>10, <1>11 DEF SlInv, AcceptedIsKnown, Hopeful, Under
<1>14. OneOnTheWay'
  BY <1>5, <1>10, <1>11 DEF SlInv, OneOnTheWay, Hopeful, InSteps, Under
<1>15. OneAccepted'
  BY <1>5, <1>11 DEF SlInv, OneAccepted
<1>16. StoredBeforeTold'
  <2>1. ASSUME NEW u \in Tasks, Hopeful(u)', InSteps(u, AfterRow)'
        PROVE  \E j \in DOMAIN verifications' :
                 verifications'[j] = [image |-> task'[u].image, verdict |-> task'[u].verdict]
    BY <1>5, <1>10, <2>1 DEF SlInv, StoredBeforeTold, Hopeful, InSteps, Under
  <2>2. ASSUME NEW i \in DOMAIN verdictsTold', verdictsTold'[i].verdict = "VERIFIED"
        PROVE  \E j \in DOMAIN verifications' : verifications'[j] = verdictsTold'[i]
    <3>1. CASE verdictsTold'[i] = entry
      BY <1>5, <1>6, <2>2, <3>1
    <3>2. CASE i \in DOMAIN verdictsTold /\ verdictsTold'[i] = verdictsTold[i]
      BY <1>5, <2>2, <3>2 DEF SlInv, StoredBeforeTold
    <3>3. QED BY <1>4, <3>1, <3>2
  <2>3. QED BY <2>1, <2>2 DEF StoredBeforeTold
<1>17. QED BY <1>8, <1>12, <1>13, <1>14, <1>15, <1>16 DEF SlInv

LEMMA SlipsStepKeeps ==
  ASSUME SlInv, [SlNext]_slVars
  PROVE  SlInv'
<1>1. CASE CooldownEnds \/ UNCHANGED slVars
  BY <1>1, CooldownEndsKeeps
<1>2. ASSUME NEW t \in Tasks, NEW m \in Images, StartSlip(t, m)
      PROVE  SlInv'
  BY <1>2, StartSlipKeeps
<1>3. ASSUME NEW t \in Tasks,
             \/ LookUpSlip(t) \/ ReadQuota(t) \/ AskSlipOk(t) \/ ChargeQuota(t) \/ ReadText(t)
             \/ Acknowledge(t) \/ StoreSlip(t) \/ EnsureTag(t) \/ LinkTag(t) \/ TellVerdict(t)
             \/ SlipFails(t)
      PROVE  SlInv'
  BY <1>3, LookUpKeeps, ReadQuotaKeeps, AskKeeps, ChargeKeeps, ReadTextKeeps, AcknowledgeKeeps,
     StoreKeeps, EnsureTagKeeps, LinkTagKeeps, TellKeeps, SlipFailsKeeps
<1>4. QED BY <1>1, <1>2, <1>3 DEF SlNext

LEMMA OneAcceptedIsOnce == SlInv => TransferAcceptedOnce
  BY DEF SlInv, OneAccepted, StoredBeforeTold, TransferAcceptedOnce, Accepted, CodeOf

-----------------------------------------------------------------------------
(* Slips: the quota.  A task that has passed the check may still be billed:  *)
(* it holds one of the places that the limit leaves to tasks side by side.   *)

Asking == {t \in Tasks : InTask(t, "verify")}
Charging == {t \in Tasks : InTask(t, "charge")}

QuotaInv ==
  /\ billed \in Nat /\ quota \in Nat /\ slLost \in Nat
  /\ billed <= quota + Cardinality(Charging) + slLost
  /\ billed + Cardinality(Asking) <= SlLimit + (Cardinality(Tasks) - 1) + slLost

LEMMA SlotsAreCounted ==
  /\ Cardinality(Tasks) \in Nat
  /\ IsFiniteSet(Asking) /\ Cardinality(Asking) \in Nat
  /\ IsFiniteSet(Charging) /\ Cardinality(Charging) \in Nat
  /\ IsFiniteSet(Asking') /\ Cardinality(Asking') \in Nat
  /\ IsFiniteSet(Charging') /\ Cardinality(Charging') \in Nat
<1>1. IsFiniteSet(Tasks)
  BY SlipsAssumption
<1>2. Asking \subseteq Tasks /\ Charging \subseteq Tasks /\ Asking' \subseteq Tasks /\ Charging' \subseteq Tasks
  BY DEF Asking, Charging
<1>3. QED BY <1>1, <1>2, FS_Subset, FS_CardinalityType

\* A task outside both groups leaves room for itself.
LEMMA RoomForOne ==
  ASSUME NEW t \in Tasks, t \notin Asking, t \notin Charging
  PROVE  Cardinality(Asking) + Cardinality(Charging) + 1 <= Cardinality(Tasks)
<1>1. IsFiniteSet(Tasks)
  BY SlipsAssumption
<1>2. Asking \intersect Charging = {}
  BY DEF Asking, Charging, InTask
<1>3. Cardinality(Asking \union Charging) = Cardinality(Asking) + Cardinality(Charging)
  <2>1. Cardinality(Asking \union Charging) =
          Cardinality(Asking) + Cardinality(Charging) - Cardinality(Asking \intersect Charging)
    BY SlotsAreCounted, FS_Union
  <2>2. QED BY <1>2, <2>1, SlotsAreCounted, FS_EmptySet
<1>4. IsFiniteSet(Asking \union Charging) /\ t \notin Asking \union Charging
  BY SlotsAreCounted, FS_Union
<1>5. Cardinality((Asking \union Charging) \union {t}) = Cardinality(Asking) + Cardinality(Charging) + 1
  BY <1>3, <1>4, FS_AddElement
<1>6. (Asking \union Charging) \union {t} \subseteq Tasks
  BY DEF Asking, Charging
<1>7. QED BY <1>1, <1>5, <1>6, FS_Subset

LEMMA QuotaInitially == SlInit => QuotaInv
<1> SUFFICES ASSUME SlInit PROVE QuotaInv
  OBVIOUS
<1>1. Asking = {} /\ Charging = {}
  BY DEF SlInit, Asking, Charging, InTask
<1>2. Cardinality(Asking) = 0 /\ Cardinality(Charging) = 0
  BY <1>1, FS_EmptySet
<1>3. Cardinality(Tasks) \in Nat /\ SlLimit \in Nat \ {0}
  BY SlotsAreCounted, SlipsAssumption
<1>4. QED BY <1>2, <1>3 DEF SlInit, QuotaInv

\* A step of a task that neither asks nor is charged, and may cease to ask.
LEMMA QuotaUntouched ==
  ASSUME QuotaInv, NEW t \in Tasks,
         \A u \in Tasks \ {t} : task'[u] = task[u],
         InTask(t, "verify")' => InTask(t, "verify"),
         InTask(t, "charge")' <=> InTask(t, "charge"),
         billed' = billed, quota' = quota, slLost' \in Nat, slLost <= slLost'
  PROVE  QuotaInv'
<1>1. Asking' \subseteq Asking /\ Charging' = Charging
  BY DEF Asking, Charging, InTask
<1>2. Cardinality(Asking') <= Cardinality(Asking) /\ Cardinality(Charging') = Cardinality(Charging)
  BY <1>1, SlotsAreCounted, FS_Subset
<1>3. SlLimit \in Nat
  BY SlipsAssumption
<1>4. QED BY <1>2, <1>3, SlotsAreCounted DEF QuotaInv

\* A charge that reaches the counter, or is lost.
LEMMA ChargeSettled ==
  ASSUME QuotaInv, NEW t \in Tasks,
         \A u \in Tasks \ {t} : task'[u] = task[u],
         InTask(t, "charge"), ~InTask(t, "charge")', ~InTask(t, "verify")',
         billed' = billed,
         \/ quota' = quota + 1 /\ slLost' = slLost
         \/ quota' = quota /\ slLost' = slLost + 1
  PROVE  QuotaInv'
<1>1. Asking' \subseteq Asking /\ Charging' = Charging \ {t} /\ t \in Charging
  BY DEF Asking, Charging, InTask
<1>2. Cardinality(Asking') <= Cardinality(Asking) /\ Cardinality(Charging') = Cardinality(Charging) - 1
  BY <1>1, SlotsAreCounted, FS_Subset, FS_RemoveElement
<1>3. SlLimit \in Nat
  BY SlipsAssumption
<1>4. QED BY <1>2, <1>3, SlotsAreCounted DEF QuotaInv

LEMMA ReadQuotaInQuota ==
  ASSUME SlInv, QuotaInv, NEW t \in Tasks, ReadQuota(t)
  PROVE  QuotaInv'
<1>1. Under(t) /\ task[t].pc = "quota" /\ t \notin Asking /\ t \notin Charging
  BY DEF ReadQuota, InTask, Under, Asking, Charging
<1>2. billed' = billed /\ quota' = quota /\ slLost' \in Nat /\ slLost <= slLost'
  BY DEF ReadQuota, QuotaInv
<1>3. CASE ToWith(t, "read", "MANUAL_REVIEW")
  <2>1. /\ task'[t].pc = "read"
        /\ \A u \in Tasks \ {t} : task'[u] = task[u]
    BY <1>1, <1>3, SlToWithIs DEF SlSteps, Verdicts
  <2>2. QED BY <1>1, <1>2, <2>1, QuotaUntouched DEF InTask
<1>4. CASE ~ToWith(t, "read", "MANUAL_REVIEW")
  <2>0. To(t, "verify") /\ (~(quota >= SlLimit) \/ slLost' = slLost + 1)
    BY <1>4 DEF ReadQuota
  <2>1. /\ task'[t].pc = "verify" /\ task'[t] \in Task
        /\ \A u \in Tasks \ {t} : task'[u] = task[u]
    BY <1>1, <2>0, SlToIs DEF SlSteps
  <2>2. Asking' \subseteq Asking \union {t} /\ Charging' = Charging
    BY <1>1, <2>1 DEF Asking, Charging, InTask, Under
  <2>3. /\ IsFiniteSet(Asking \union {t})
        /\ Cardinality(Asking \union {t}) = Cardinality(Asking) + 1
    BY <1>1, SlotsAreCounted, FS_AddElement
  <2>4. Cardinality(Asking') <= Cardinality(Asking) + 1
    BY <2>2, <2>3, FS_Subset
  <2>5. quota < SlLimit \/ slLost' = slLost + 1
    BY <2>0, SlipsAssumption DEF QuotaInv
  <2>6. QED BY <1>1, <1>2, <2>2, <2>4, <2>5, RoomForOne, SlotsAreCounted, SlipsAssumption DEF QuotaInv
<1>5. QED BY <1>3, <1>4

LEMMA AskInQuota ==
  ASSUME SlInv, QuotaInv, NEW t \in Tasks, AskSlipOk(t)
  PROVE  QuotaInv'
<1>1. Under(t) /\ task[t].pc = "verify" /\ t \in Asking /\ t \notin Charging
  BY DEF AskSlipOk, InTask, Under, Asking, Charging
<1>2. PICK answer : /\ billed' = IF answer = "error" THEN billed ELSE billed + 1
                    /\ ToWith(t, IF Charged(answer) THEN "charge" ELSE "read", VerdictOf(answer))
  BY DEF AskSlipOk
<1>3. PICK verdict \in Verdicts : verdict = VerdictOf(answer)
  BY DEF VerdictOf, Verdicts
<1>4. quota' = quota /\ slLost' = slLost
  BY DEF AskSlipOk
<1>5. CASE answer = "error"
  <2>1. ToWith(t, "read", verdict)
    BY <1>2, <1>3, <1>5 DEF Charged
  <2>2. /\ task'[t].pc = "read"
        /\ \A u \in Tasks \ {t} : task'[u] = task[u]
    BY <1>1, <2>1, SlToWithIs DEF SlSteps
  <2>3. QED BY <1>1, <1>2, <1>4, <1>5, <2>2, QuotaUntouched DEF InTask, QuotaInv
<1>6. CASE answer # "error"
  <2>1. ToWith(t, "charge", verdict)
    BY <1>2, <1>3, <1>6 DEF Charged
  <2>2. /\ task'[t].pc = "charge" /\ task'[t] # NoTask
        /\ \A u \in Tasks \ {t} : task'[u] = task[u]
    <3>1. /\ task'[t].pc = "charge" /\ task'[t] \in Task
          /\ \A u \in Tasks \ {t} : task'[u] = task[u]
      BY <1>1, <2>1, SlToWithIs DEF SlSteps
    <3>2. QED BY <3>1 DEF Task, NoTask
  <2>3. Asking' = Asking \ {t} /\ Charging' = Charging \union {t}
    BY <1>1, <2>2 DEF Asking, Charging, InTask
  <2>4. Cardinality(Asking') = Cardinality(Asking) - 1 /\ Cardinality(Charging') = Cardinality(Charging) + 1
    BY <1>1, <2>3, SlotsAreCounted, FS_RemoveElement, FS_AddElement
  <2>5. QED BY <1>2, <1>4, <1>6, <2>4, SlotsAreCounted, SlipsAssumption DEF QuotaInv
<1>7. QED BY <1>5, <1>6

LEMMA ChargeInQuota ==
  ASSUME SlInv, QuotaInv, NEW t \in Tasks, ChargeQuota(t)
  PROVE  QuotaInv'
<1>1. Under(t) /\ InTask(t, "charge") /\ To(t, "read")
  BY DEF ChargeQuota, InTask, Under
<1>2. /\ task'[t].pc = "read"
      /\ \A u \in Tasks \ {t} : task'[u] = task[u]
  BY <1>1, SlToIs DEF SlSteps
<1>3. QED BY <1>1, <1>2, ChargeSettled DEF ChargeQuota, InTask

LEMMA FailsInQuota ==
  ASSUME SlInv, QuotaInv, NEW t \in Tasks, SlipFails(t)
  PROVE  QuotaInv'
<1>1. /\ task'[t] = NoTask
      /\ \A u \in Tasks \ {t} : task'[u] = task[u]
  BY SlEndIs DEF SlipFails
<1>2. CASE InTask(t, "charge")
  BY <1>1, <1>2, ChargeSettled DEF SlipFails, InTask
<1>3. CASE ~InTask(t, "charge")
  BY <1>1, <1>3, QuotaUntouched DEF SlipFails, InTask, QuotaInv
<1>4. QED BY <1>2, <1>3

\* The other steps of a task neither ask nor charge.
LEMMA OthersInQuota ==
  ASSUME SlInv, QuotaInv, NEW t \in Tasks,
         \/ \E m \in Images : StartSlip(t, m)
         \/ LookUpSlip(t) \/ ReadText(t) \/ Acknowledge(t) \/ StoreSlip(t)
         \/ EnsureTag(t) \/ LinkTag(t) \/ TellVerdict(t)
  PROVE  QuotaInv'
<1>1. billed' = billed /\ quota' = quota /\ slLost' = slLost
  BY DEF StartSlip, LookUpSlip, ReadText, Acknowledge, StoreSlip, EnsureTag, LinkTag, TellVerdict
<1>2. ~InTask(t, "charge") /\ ~InTask(t, "verify")
  BY DEF StartSlip, LookUpSlip, ReadText, Acknowledge, StoreSlip, EnsureTag, LinkTag, TellVerdict, InTask
<1> DEFINE Elsewhere ==
             /\ \A u \in Tasks \ {t} : task'[u] = task[u]
             /\ task'[t] = NoTask \/ task'[t].pc \notin {"charge", "verify"}
<1>3. Elsewhere
  <2>0. task \in [Tasks -> Task \union {NoTask}]
    BY DEF SlInv, SlTyped
  <2>1. ASSUME NEW m \in Images, StartSlip(t, m)
        PROVE  Elsewhere
    BY <2>0, <2>1 DEF StartSlip
  <2>2. CASE EndTask(t)
    BY <2>2, SlEndIs
  <2>3. ASSUME NEW step \in SlSteps \ {"charge", "verify"}, Under(t), To(t, step)
        PROVE  Elsewhere
    BY <2>3, SlToIs
  <2>4. CASE LookUpSlip(t)
    <3>1. Under(t) /\ (To(t, "quota") \/ ToWith(t, "read", "DUPLICATE"))
      BY <2>4 DEF LookUpSlip, InTask, Under
    <3>2. CASE To(t, "quota")
      BY <2>3, <3>1, <3>2 DEF SlSteps
    <3>3. CASE ToWith(t, "read", "DUPLICATE")
      BY <3>1, <3>3, SlToWithIs DEF SlSteps, Verdicts
    <3>4. QED BY <3>1, <3>2, <3>3
  <2>5. CASE ReadText(t)
    <3>1. PICK seen \in {picture[task[t].image].fields, {}}, step \in {"acknowledge", "store"} :
            Under(t) /\ task' = [task EXCEPT ![t] = [task[t] EXCEPT !.seen = seen, !.pc = step]]
      BY <2>5 DEF ReadText, InTask, Under
    <3>2. task[t] \in Task
      BY <3>1, SlTaskTyped
    <3>3. QED BY <2>0, <3>1, <3>2 DEF Task
  <2>6. CASE Acknowledge(t)
    <3>1. Under(t) /\ To(t, "store")
      BY <2>6 DEF Acknowledge, InTask, Under
    <3>2. QED BY <2>3, <3>1 DEF SlSteps
  <2>7. CASE StoreSlip(t)
    <3>1. Under(t)
      BY <2>7 DEF StoreSlip, InTask, Under
    <3>2. task[t] \in Task
      BY <3>1, SlTaskTyped
    <3>3. CASE ~EndTask(t)
      <4>1. PICK owed : task' = [task EXCEPT ![t] = [task[t] EXCEPT !.pc = "tag", !.adding = "waiting", !.owed = owed]]
        BY <2>7, <3>3 DEF StoreSlip
      <4>2. QED BY <2>0, <3>2, <4>1 DEF Task
    <3>4. QED BY <2>2, <3>3
  <2>8. CASE EnsureTag(t)
    <3>1. Under(t) /\ (To(t, "link") \/ EndTask(t))
      BY <2>8 DEF EnsureTag, InTask, Under
    <3>2. QED BY <2>2, <2>3, <3>1 DEF SlSteps
  <2>9. CASE LinkTag(t)
    <3>1. Under(t)
      BY <2>9 DEF LinkTag, InTask, Under
    <3>2. task[t] \in Task
      BY <3>1, SlTaskTyped
    <3>3. \/ task' = [task EXCEPT ![t] = [task[t] EXCEPT !.pc = "tell"]]
          \/ task' = [task EXCEPT ![t] = [task[t] EXCEPT !.pc = "tag", !.adding = "suspicious", !.owed = {}]]
          \/ EndTask(t)
      BY <2>9 DEF LinkTag
    <3>4. CASE task' = [task EXCEPT ![t] = [task[t] EXCEPT !.pc = "tell"]]
      BY <2>0, <3>2, <3>4 DEF Task
    <3>5. CASE task' = [task EXCEPT ![t] = [task[t] EXCEPT !.pc = "tag", !.adding = "suspicious", !.owed = {}]]
      BY <2>0, <3>2, <3>5 DEF Task
    <3>6. QED BY <2>2, <3>3, <3>4, <3>5
  <2>10. CASE TellVerdict(t)
    BY <2>2, <2>10 DEF TellVerdict
  <2>11. QED BY <2>1, <2>4, <2>5, <2>6, <2>7, <2>8, <2>9, <2>10
<1>4. QED BY <1>1, <1>2, <1>3, QuotaUntouched DEF InTask, QuotaInv

LEMMA QuotaStepKeeps ==
  ASSUME SlInv, QuotaInv, [SlNext]_slVars
  PROVE  QuotaInv'
<1>1. CASE CooldownEnds \/ UNCHANGED slVars
  <2>1. task' = task /\ billed' = billed /\ quota' = quota /\ slLost' = slLost
    BY <1>1 DEF CooldownEnds, slVars
  <2>2. Asking' = Asking /\ Charging' = Charging
    BY <2>1 DEF Asking, Charging, InTask
  <2>3. QED BY <2>1, <2>2 DEF QuotaInv
<1>2. ASSUME NEW t \in Tasks,
             \/ \E m \in Images : StartSlip(t, m)
             \/ LookUpSlip(t) \/ ReadQuota(t) \/ AskSlipOk(t) \/ ChargeQuota(t) \/ ReadText(t)
             \/ Acknowledge(t) \/ StoreSlip(t) \/ EnsureTag(t) \/ LinkTag(t) \/ TellVerdict(t)
             \/ SlipFails(t)
      PROVE  QuotaInv'
  BY <1>2, ReadQuotaInQuota, AskInQuota, ChargeInQuota, FailsInQuota, OthersInQuota
<1>3. QED BY <1>1, <1>2 DEF SlNext

LEMMA QuotaInvSuffices == QuotaInv => QuotaNearlyKept
  BY SlotsAreCounted, SlipsAssumption DEF QuotaInv, QuotaNearlyKept

-----------------------------------------------------------------------------
(* A transfer is accepted once, and what SlipOK bills stays within the quota but *)
(* for the tasks that read the counter together and the charges that were lost.  *)
THEOREM TransfersAreCountedOnce == ConversationsSpec => []TransfersCountOnce
<1> DEFINE I == part = "slips" => SlInv /\ QuotaInv
<1>1. ConversationsInit => I
  BY SlipsInitially, QuotaInitially DEF ConversationsInit
<1>2. I /\ [ConversationsNext]_coVars => I'
  <2> SUFFICES ASSUME I, [ConversationsNext]_coVars, part' = "slips"
               PROVE  (SlInv /\ QuotaInv)'
    OBVIOUS
  <2>1. part = "slips" /\ [SlNext]_slVars
    BY DEF ConversationsNext, coVars
  <2>2. QED BY <2>1, SlipsStepKeeps, QuotaStepKeeps
<1>3. I => TransfersCountOnce
  BY OneAcceptedIsOnce, QuotaInvSuffices DEF TransfersCountOnce
<1>4. QED BY <1>1, <1>2, <1>3, PTL DEF ConversationsSpec

-----------------------------------------------------------------------------
(* Desk: what a request that is under way is about, and what it may answer.  *)

Linking == {"lookLink", "addLink", "findLink", "dropLink"}

Fit(c) ==
  /\ c.do \in Linking \union {"editTag", "deleteTag"} => c.row \in Tags
  /\ c.do = "deleteNote" => c.row \in Notes
  /\ c.do \in {"editReply", "deleteReply"} => c.row \in Replies
  /\ c.do = "assign" => c.row \in Actors
  /\ c.do \in {"editTag", "makeTag"} => c.to \in Names
  /\ c.do = "editReply" => c.to \in BOOLEAN
  /\ c.do = "answer" => c.was

DkInv ==
  /\ DkTypeOK
  /\ \A a \in Actors : Fit(call[a])

DkLeftTyped == dkLeft \in 0..DkBound

\* The requests after a step.
DkCallsFit == call' \in [Actors -> Call] /\ \A a \in Actors : Fit(call'[a])

LEMMA DeskInitially == DkInit => DkInv
<1> SUFFICES ASSUME DkInit PROVE DkInv
  OBVIOUS
<1>1. Idle \in Call /\ Fit(Idle)
  BY DEF Idle, Call, State, Fit, Linking, Actors
<1>2. DkTypeOK
  BY <1>1, DeskAssumption DEF DkInit, DkTypeOK, State, Priorities, Actors, Nobody
<1>3. \A a \in Actors : Fit(call[a])
  BY <1>1 DEF DkInit
<1>4. QED BY <1>2, <1>3 DEF DkInv

LEMMA DkOneCall ==
  ASSUME DkInv, NEW a \in Actors, NEW new \in Call, Fit(new),
         call' = [call EXCEPT ![a] = new]
  PROVE  DkCallsFit
  BY DEF DkInv, DkTypeOK, DkCallsFit

LEMMA DkEnds ==
  ASSUME DkInv, NEW a \in Actors, Ends(a)
  PROVE  DkCallsFit
<1>1. Idle \in Call /\ Fit(Idle)
  BY DEF Idle, Call, State, Fit, Linking, Actors
<1>2. QED BY <1>1, DkOneCall DEF Ends

LEMMA DkBegins ==
  ASSUME DkInv, NEW a \in Actors,
         NEW what \in {"editTag", "deleteTag", "lookLink", "findLink", "writeNote", "deleteNote",
                       "editReply", "deleteReply", "assign", "makeTag"},
         NEW x, NEW to \in Names \union BOOLEAN, Begins(a, what, x, to),
         what \in {"editTag", "deleteTag", "lookLink", "findLink"} => x \in Tags,
         what = "deleteNote" => x \in Notes,
         what \in {"editReply", "deleteReply"} => x \in Replies,
         what \in {"assign", "writeNote", "makeTag"} => x \in Actors,
         what \in {"editTag", "makeTag"} => to \in Names,
         what = "editReply" => to \in BOOLEAN
  PROVE  DkCallsFit /\ DkLeftTyped'
<1> DEFINE new == [Idle EXCEPT !.do = what, !.row = x, !.to = to]
<1>1. new \in Call /\ Fit(new)
  BY DEF Idle, Call, State, Fit, Linking
<1>2. call' = [call EXCEPT ![a] = new]
  BY DEF Begins
<1> HIDE DEF new
<1>3. DkLeftTyped'
  BY DeskAssumption DEF Begins, Spend, DkInv, DkTypeOK, DkLeftTyped
<1>4. QED BY <1>1, <1>2, <1>3, DkOneCall

\* The witness of a link call is its own and leaves the rest of the request alone.
LEMMA DkStandingFits ==
  ASSUME NEW c \in Call, Fit(c), c.do \in Linking, NEW now
  PROVE  /\ Standing(c, now) \in Call /\ Fit(Standing(c, now))
         /\ Standing(c, now).do = c.do /\ Standing(c, now).row = c.row
         /\ Standing(c, now).seen = c.seen
         /\ c.do \in {"lookLink", "addLink"} /\ now[c.row] = "live" => Standing(c, now).was
         /\ c.do \in {"findLink", "dropLink"} /\ now[c.row] # "live" => Standing(c, now).was
<1> DEFINE holds == c.was \/ (c.do \in {"lookLink", "addLink"} /\ now[c.row] = "live")
                          \/ (c.do \in {"findLink", "dropLink"} /\ now[c.row] # "live")
<1>1. PICK b \in BOOLEAN : b = holds
  BY DEF Call
<1>2. Standing(c, now) = [c EXCEPT !.was = b]
  BY <1>1 DEF Standing, Call
<1>3. [c EXCEPT !.was = b] \in Call /\ Fit([c EXCEPT !.was = b])
  BY DEF Call, Fit, Linking
<1>4. [c EXCEPT !.was = b].was = b
  BY DEF Call
<1>5. QED BY <1>1, <1>2, <1>3, <1>4 DEF Call

\* A link request that answers, what it asked for being so.
LEMMA DkAnswers ==
  ASSUME DkInv, NEW a \in Actors, call[a].do \in Linking, NEW adds \in BOOLEAN, NEW now,
         call' = Answers(a, adds, now), Standing(call[a], now).was
  PROVE  DkCallsFit
<1> DEFINE W == Witness(call, now)
           new == [Standing(call[a], now) EXCEPT !.do = "answer", !.adds = adds]
<1>1. \A b \in Actors : call[b] \in Call /\ Fit(call[b])
  BY DEF DkInv, DkTypeOK
<1>2. W \in [Actors -> Call] /\ \A b \in Actors : Fit(W[b])
  BY <1>1, DkStandingFits DEF Witness, Linking
<1>3. Standing(call[a], now) \in Call
  BY <1>1, DkStandingFits
<1>4. new \in Call /\ Fit(new)
  <2>1. PICK c \in Call : c = Standing(call[a], now)
    BY <1>3
  <2>2. new = [c EXCEPT !.do = "answer", !.adds = adds]
    BY <2>1
  <2> HIDE DEF new
  <2>3. c.was
    BY <2>1
  <2>4. QED BY <2>2, <2>3 DEF Call, Fit, Linking
<1>5. call' = [W EXCEPT ![a] = new]
  BY DEF Answers
<1> HIDE DEF W, new
<1>6. QED BY <1>2, <1>4, <1>5 DEF DkCallsFit

-----------------------------------------------------------------------------
(* Step by step: the requests fit, the rows keep their types, and nothing    *)
(* that is gone comes back.                                                  *)

TagsTyped == tag \in [Tags -> [state : State, name : Names \union {Bot}]]
LinksTyped == link \in [Tags -> State]
NotesTyped == note \in [Notes -> [state : State, by : Actors]]
RepliesTyped == reply \in [Replies -> [state : State, by : Actors, active : BOOLEAN]]
HoldersTyped == holder \in Actors /\ priority \in Priorities /\ member \subseteq Users

TagsStayGone == \A t \in Tags : tag[t].state = "gone" => tag'[t].state = "gone"
NotesStayGone == \A n \in Notes : note[n].state = "gone" => note'[n].state = "gone"
RepliesStayGone == \A r \in Replies : reply[r].state = "gone" => reply'[r].state = "gone"

TagsKept == TagsTyped' /\ TagsStayGone
NotesKept == NotesTyped' /\ NotesStayGone
RepliesKept == RepliesTyped' /\ RepliesStayGone

DkKeeps == TagsKept /\ LinksTyped' /\ NotesKept /\ RepliesKept /\ HoldersTyped' /\ DkCallsFit /\ DkLeftTyped'

LEMMA DkInvParts ==
  DkInv <=> /\ TagsTyped /\ LinksTyped /\ NotesTyped /\ RepliesTyped /\ HoldersTyped /\ DkLeftTyped
            /\ call \in [Actors -> Call] /\ \A a \in Actors : Fit(call[a])
  BY DEF DkInv, DkTypeOK, TagsTyped, LinksTyped, NotesTyped, RepliesTyped, HoldersTyped, DkLeftTyped

\* What a step leaves alone is kept.
LEMMA DkSameKeeps ==
  ASSUME DkInv
  PROVE  /\ tag' = tag => TagsKept
         /\ link' = link => LinksTyped'
         /\ note' = note => NotesKept
         /\ reply' = reply => RepliesKept
         /\ UNCHANGED <<holder, priority, member>> => HoldersTyped'
         /\ call' = call => DkCallsFit
         /\ dkLeft' = dkLeft => DkLeftTyped'
<1>1. tag' = tag => TagsKept
  BY DkInvParts DEF TagsTyped, TagsKept, TagsStayGone
<1>2. note' = note => NotesKept
  BY DkInvParts DEF NotesTyped, NotesKept, NotesStayGone
<1>3. reply' = reply => RepliesKept
  BY DkInvParts DEF RepliesTyped, RepliesKept, RepliesStayGone
<1>4. /\ link' = link => LinksTyped'
      /\ UNCHANGED <<holder, priority, member>> => HoldersTyped'
      /\ dkLeft' = dkLeft => DkLeftTyped'
  BY DkInvParts DEF LinksTyped, HoldersTyped, DkLeftTyped
<1>5. call' = call => DkCallsFit
  BY DkInvParts DEF DkCallsFit
<1>6. QED BY <1>1, <1>2, <1>3, <1>4, <1>5

LEMMA DkSpends == ASSUME DkInv, Spend PROVE DkLeftTyped'
  BY DkInvParts, DeskAssumption DEF Spend, DkLeftTyped

LEMMA BeginsKeep ==
  ASSUME DkInv,
         \/ \E u \in Users : \/ BeginTagChange(u) \/ BeginLink(u) \/ BeginNote(u)
                             \/ BeginReplyChange(u) \/ BeginAssign(u)
         \/ \E name \in Names : BeginTagByName(name)
  PROVE  DkKeeps
<1>1. UNCHANGED <<tag, link, note, reply, holder, priority, member>>
  BY DEF BeginTagChange, BeginLink, BeginNote, BeginReplyChange, BeginAssign, BeginTagByName, rows
<1> DEFINE Goal == DkCallsFit /\ DkLeftTyped'
<1>2. ASSUME NEW u \in Users, BeginTagChange(u)
      PROVE  Goal
  BY <1>2, DkBegins DEF BeginTagChange, ShownTags, Actors
<1>3. ASSUME NEW u \in Users, BeginLink(u)
      PROVE  Goal
  BY <1>3, DkBegins DEF BeginLink, ShownTags, Actors
<1>4. ASSUME NEW u \in Users, BeginNote(u)
      PROVE  Goal
  BY <1>4, DkBegins DEF BeginNote, ShownNotes, Actors
<1>5. ASSUME NEW u \in Users, BeginReplyChange(u)
      PROVE  Goal
  BY <1>5, DkBegins DEF BeginReplyChange, Actors
<1>6. ASSUME NEW u \in Users, BeginAssign(u)
      PROVE  Goal
  <2>1. PICK who \in member \union {Nobody} : Begins(u, "assign", who, FALSE)
    BY <1>6 DEF BeginAssign
  <2>2. who \in Actors
    BY DEF DkInv, DkTypeOK, Actors, Nobody
  <2>3. QED BY <2>1, <2>2, DkBegins DEF Actors
<1>7. ASSUME NEW name \in Names, BeginTagByName(name)
      PROVE  Goal
  BY <1>7, DkBegins DEF BeginTagByName, ShownTags, Actors
<1>8. Goal
  BY <1>2, <1>3, <1>4, <1>5, <1>6, <1>7
<1>9. QED BY <1>1, <1>8, DkSameKeeps DEF DkKeeps

LEMMA CreateTagKeeps ==
  ASSUME DkInv, NEW u \in Users, NEW name \in Names, CreateTag(u, name)
  PROVE  DkKeeps
<1>1. UNCHANGED <<link, note, reply, holder, priority, member, call>> /\ Spend
  BY DEF CreateTag
<1>2. PICK t \in Tags : tag[t].state = "none" /\ tag' = [tag EXCEPT ![t] = [state |-> "live", name |-> name]]
  BY DEF CreateTag
<1>3. TagsKept
  BY <1>2, DkInvParts DEF TagsTyped, TagsKept, TagsStayGone, State
<1>4. QED BY <1>1, <1>3, DkSpends, DkSameKeeps DEF DkKeeps

LEMMA EditTagKeeps ==
  ASSUME DkInv, NEW u \in Users, EditTag(u)
  PROVE  DkKeeps
<1>1. UNCHANGED <<link, note, reply, holder, priority, member, dkLeft>> /\ Ends(u) /\ u \in Actors
  BY DEF EditTag, Actors
<1>2. call[u].do = "editTag" /\ call[u].row \in Tags /\ call[u].to \in Names
  BY <1>1, DkInvParts DEF EditTag, Writing, Fit
<1>3. PICK t \in Tags, name \in Names : t = call[u].row /\ name = call[u].to
  BY <1>2
<1>4. tag' = tag \/ tag' = [tag EXCEPT ![t] = [[tag[t] EXCEPT !.name = name] EXCEPT !.state = tag[t].state]]
  BY <1>3, DkInvParts DEF EditTag, Edited, TagsTyped
<1>5. TagsKept
  <2> DEFINE new == [[tag[t] EXCEPT !.name = name] EXCEPT !.state = tag[t].state]
  <2>1. CASE tag' = tag
    BY <2>1, DkInvParts DEF TagsTyped, TagsKept, TagsStayGone
  <2>2. CASE tag' = [tag EXCEPT ![t] = new]
    <3>1. tag[t] \in [state : State, name : Names \union {Bot}] /\ TagsTyped
      BY DkInvParts DEF TagsTyped
    <3>2. new \in [state : State, name : Names \union {Bot}] /\ new.state = tag[t].state
      BY <3>1
    <3> HIDE DEF new
    <3>3. tag'[t] = new /\ \A x \in Tags \ {t} : tag'[x] = tag[x]
      BY <2>2, <3>1 DEF TagsTyped
    <3>4. QED BY <2>2, <3>1, <3>2, <3>3 DEF TagsTyped, TagsKept, TagsStayGone
  <2>3. QED BY <1>4, <2>1, <2>2
<1>6. QED BY <1>1, <1>5, DkEnds, DkSameKeeps DEF DkKeeps

LEMMA DeleteTagKeeps ==
  ASSUME DkInv, NEW u \in Users, DeleteTag(u)
  PROVE  DkKeeps
<1>1. UNCHANGED <<link, note, reply, holder, priority, member, dkLeft>> /\ Ends(u) /\ u \in Actors
  BY DEF DeleteTag, Actors
<1>2. PICK t : tag' = [tag EXCEPT ![t].state = "gone"]
  BY DEF DeleteTag
<1>3. TagsKept
  BY <1>2, DkInvParts DEF TagsTyped, TagsKept, TagsStayGone, State
<1>4. QED BY <1>1, <1>3, DkEnds, DkSameKeeps DEF DkKeeps

LEMMA MakeTagKeeps ==
  ASSUME DkInv, MakeTag
  PROVE  DkKeeps
<1>1. UNCHANGED <<link, note, reply, holder, priority, member, dkLeft>> /\ Bot \in Actors
  BY Zenon DEF MakeTag, Actors
<1>2. call[Bot].do = "makeTag"
  BY Zenon DEF MakeTag, Writing
<1>3. PICK name \in Names : name = call[Bot].to
  BY <1>1, <1>2, DkInvParts DEF Fit
<1>4. \/ Ends(Bot) /\ UNCHANGED tag
      \/ \E t \in Tags :
            /\ tag[t].state = "none"
            /\ tag' = [tag EXCEPT ![t] = [state |-> "live", name |-> name]]
            /\ call' = [call EXCEPT ![Bot] = [Idle EXCEPT !.do = "lookLink", !.row = t]]
  BY <1>3, Zenon DEF MakeTag, FreeTags
<1>5. CASE Ends(Bot) /\ UNCHANGED tag
  BY <1>1, <1>5, DkEnds, DkSameKeeps DEF DkKeeps
<1>6. ASSUME NEW t \in Tags,
             tag[t].state = "none",
             tag' = [tag EXCEPT ![t] = [state |-> "live", name |-> name]],
             call' = [call EXCEPT ![Bot] = [Idle EXCEPT !.do = "lookLink", !.row = t]]
      PROVE  DkKeeps
  <2> DEFINE new == [Idle EXCEPT !.do = "lookLink", !.row = t]
  <2>1. new \in Call /\ Fit(new)
    BY DEF Idle, Call, State, Fit, Linking
  <2>2. call' = [call EXCEPT ![Bot] = new]
    BY <1>6
  <2> HIDE DEF new
  <2>3. DkCallsFit
    BY <1>1, <2>1, <2>2, DkOneCall
  <2>4. TagsKept
    BY <1>6, DkInvParts DEF TagsTyped, TagsKept, TagsStayGone, State
  <2>5. QED BY <1>1, <2>3, <2>4, DkSameKeeps DEF DkKeeps
<1>7. QED BY <1>4, <1>5, <1>6

LEMMA NoteStepsKeep ==
  ASSUME DkInv, NEW u \in Users, WriteNote(u) \/ DeleteNote(u)
  PROVE  DkKeeps
<1>1. UNCHANGED <<tag, link, reply, holder, priority, member, dkLeft>> /\ Ends(u) /\ u \in Actors
  BY DEF WriteNote, DeleteNote, Actors
<1>2. NotesKept
  <2>1. CASE WriteNote(u)
    <3>1. PICK n \in Notes : note[n].state = "none" /\ note' = [note EXCEPT ![n] = [state |-> "live", by |-> u]]
      BY <2>1 DEF WriteNote
    <3>2. QED BY <1>1, <3>1, DkInvParts DEF NotesTyped, NotesKept, NotesStayGone, State
  <2>2. CASE DeleteNote(u)
    <3>1. PICK n : note' = [note EXCEPT ![n].state = "gone"]
      BY <2>2 DEF DeleteNote
    <3>2. QED BY <3>1, DkInvParts DEF NotesTyped, NotesKept, NotesStayGone, State
  <2>3. QED BY <2>1, <2>2
<1>3. QED BY <1>1, <1>2, DkEnds, DkSameKeeps DEF DkKeeps

LEMMA CreateReplyKeeps ==
  ASSUME DkInv, NEW u \in Users, CreateReply(u)
  PROVE  DkKeeps
<1>1. UNCHANGED <<tag, link, note, holder, priority, member, call>> /\ Spend /\ u \in Actors /\ Nobody \in Actors
  BY DEF CreateReply, Actors, Nobody
<1>2. PICK by \in Actors, r \in Replies :
        /\ reply[r].state = "none"
        /\ reply' = [reply EXCEPT ![r] = [state |-> "live", by |-> by, active |-> TRUE]]
  BY <1>1 DEF CreateReply
<1>3. RepliesKept
  BY <1>2, DkInvParts DEF RepliesTyped, RepliesKept, RepliesStayGone, State
<1>4. QED BY <1>1, <1>3, DkSpends, DkSameKeeps DEF DkKeeps

LEMMA ReplyWritesKeep ==
  ASSUME DkInv, NEW u \in Users, EditReply(u) \/ DeleteReply(u)
  PROVE  DkKeeps
<1>1. UNCHANGED <<tag, link, note, holder, priority, member, dkLeft>> /\ Ends(u) /\ u \in Actors
  BY DEF EditReply, DeleteReply, Actors
<1>2. RepliesKept
  <2>1. CASE EditReply(u)
    <3>1. call[u].do = "editReply" /\ call[u].row \in Replies /\ call[u].to \in BOOLEAN
      BY <1>1, <2>1, DkInvParts DEF EditReply, Writing, Fit
    <3>2. PICK r \in Replies, active \in BOOLEAN : r = call[u].row /\ active = call[u].to
      BY <3>1
    <3>3. reply' = [reply EXCEPT ![r] = [[reply[r] EXCEPT !.active = active] EXCEPT !.state = reply[r].state]]
      BY <2>1, <3>2, DkInvParts DEF EditReply, Edited, RepliesTyped
    <3>4. QED BY <3>3, DkInvParts DEF RepliesTyped, RepliesKept, RepliesStayGone
  <2>2. CASE DeleteReply(u)
    <3>1. call[u].row \in Replies
      BY <1>1, <2>2, DkInvParts DEF DeleteReply, Writing, Fit
    <3>2. PICK r \in Replies : r = call[u].row
      BY <3>1
    <3>3. reply' = [reply EXCEPT ![r] = [[reply[r] EXCEPT !.state = "gone"] EXCEPT !.active = FALSE]]
      BY <2>2, <3>2, DkInvParts DEF DeleteReply, RepliesTyped
    <3>4. QED BY <3>3, DkInvParts DEF RepliesTyped, RepliesKept, RepliesStayGone, State
  <2>3. QED BY <2>1, <2>2
<1>3. QED BY <1>1, <1>2, DkEnds, DkSameKeeps DEF DkKeeps

LEMMA LookLinkKeeps ==
  ASSUME DkInv, NEW a \in Actors, LookLink(a)
  PROVE  DkKeeps
<1>1. UNCHANGED <<tag, link, note, reply, holder, priority, member, dkLeft>>
  BY DEF LookLink, rows
<1>2. call[a] \in Call /\ Fit(call[a]) /\ call[a].do = "lookLink"
  BY DkInvParts DEF LookLink, Writing
<1>3. call[a].row \in Tags /\ call[a].do \in Linking
  BY <1>2 DEF Fit, Linking
<1>4. CASE Linked(link[call[a].row])
  <2>1. call' = Answers(a, TRUE, link)
    BY <1>4 DEF LookLink
  <2>2. Standing(call[a], link).was
    BY <1>2, <1>3, <1>4, DkStandingFits DEF Linked
  <2>3. DkCallsFit
    BY <1>3, <2>1, <2>2, DkAnswers
  <2>4. QED BY <1>1, <2>3, DkSameKeeps DEF DkKeeps
<1>5. CASE ~Linked(link[call[a].row])
  <2>1. PICK seen \in State : seen = link[call[a].row]
    BY <1>3, DkInvParts DEF LinksTyped
  <2>2. PICK s \in Call : s = Standing(call[a], link) /\ s.row \in Tags
    BY <1>2, <1>3, DkStandingFits
  <2> DEFINE new == [s EXCEPT !.do = "addLink", !.seen = seen]
  <2>3. call' = [call EXCEPT ![a] = new]
    BY <1>5, <2>1, <2>2, DkInvParts DEF LookLink
  <2>4. new \in Call /\ Fit(new)
    BY <2>2 DEF Call, Fit, Linking
  <2> HIDE DEF new
  <2>5. DkCallsFit
    BY <2>3, <2>4, DkOneCall
  <2>6. QED BY <1>1, <2>5, DkSameKeeps DEF DkKeeps
<1>6. QED BY <1>4, <1>5

LEMMA AddLinkKeeps ==
  ASSUME DkInv, NEW a \in Actors, AddLink(a)
  PROVE  DkKeeps
<1>1. UNCHANGED <<tag, note, reply, holder, priority, member, dkLeft>>
  BY DEF AddLink
<1>2. call[a] \in Call /\ Fit(call[a]) /\ call[a].do = "addLink"
  BY DkInvParts DEF AddLink, Writing
<1>3. PICK t \in Tags : t = call[a].row
  BY <1>2 DEF Fit, Linking
<1>4. CASE Ends(a) /\ UNCHANGED link
  BY <1>1, <1>4, DkEnds, DkSameKeeps DEF DkKeeps
<1>5. CASE ~(Ends(a) /\ UNCHANGED link)
  <2>1. PICK now : now = [link EXCEPT ![t] = "live"]
    OBVIOUS
  <2>2. link' = now /\ call' = Answers(a, TRUE, now)
    BY <1>3, <1>5, <2>1 DEF AddLink
  <2>3. now \in [Tags -> State] /\ now[t] = "live"
    BY <2>1, DkInvParts DEF LinksTyped, State
  <2>4. Standing(call[a], now).was /\ call[a].do \in Linking
    BY <1>2, <1>3, <2>3, DkStandingFits DEF Linking
  <2>5. DkCallsFit /\ LinksTyped'
    BY <2>2, <2>3, <2>4, DkAnswers DEF LinksTyped
  <2>6. QED BY <1>1, <2>5, DkSameKeeps DEF DkKeeps
<1>6. QED BY <1>4, <1>5

LEMMA FindLinkKeeps ==
  ASSUME DkInv, NEW a \in Actors, FindLink(a)
  PROVE  DkKeeps
<1>1. UNCHANGED <<tag, link, note, reply, holder, priority, member, dkLeft>>
  BY DEF FindLink, rows
<1>2. call[a] \in Call /\ Fit(call[a]) /\ call[a].do = "findLink"
  BY DkInvParts DEF FindLink, Writing
<1>3. CASE Ends(a)
  BY <1>1, <1>3, DkEnds, DkSameKeeps DEF DkKeeps
<1>4. CASE ~Ends(a)
  <2> DEFINE new == [call[a] EXCEPT !.do = "dropLink"]
  <2>1. call' = [call EXCEPT ![a] = new]
    BY <1>4 DEF FindLink
  <2>2. new \in Call /\ Fit(new)
    BY <1>2 DEF Call, Fit, Linking
  <2> HIDE DEF new
  <2>3. DkCallsFit
    BY <2>1, <2>2, DkOneCall
  <2>4. QED BY <1>1, <2>3, DkSameKeeps DEF DkKeeps
<1>5. QED BY <1>3, <1>4

LEMMA DropLinkKeeps ==
  ASSUME DkInv, NEW a \in Actors, DropLink(a)
  PROVE  DkKeeps
<1>1. UNCHANGED <<tag, note, reply, holder, priority, member, dkLeft>>
  BY DEF DropLink
<1>2. call[a] \in Call /\ Fit(call[a]) /\ call[a].do = "dropLink"
  BY DkInvParts DEF DropLink, Writing
<1>3. PICK t \in Tags : t = call[a].row
  BY <1>2 DEF Fit, Linking
<1>4. PICK now : now = [link EXCEPT ![t] = "gone"]
  OBVIOUS
<1>5. link' = now /\ call' = Answers(a, FALSE, now)
  BY <1>3, <1>4 DEF DropLink
<1>6. now \in [Tags -> State] /\ now[t] = "gone"
  BY <1>4, DkInvParts DEF LinksTyped, State
<1>7. Standing(call[a], now).was /\ call[a].do \in Linking
  BY <1>2, <1>3, <1>6, DkStandingFits DEF Linking
<1>8. DkCallsFit /\ LinksTyped'
  BY <1>5, <1>6, <1>7, DkAnswers DEF LinksTyped
<1>9. QED BY <1>1, <1>8, DkSameKeeps DEF DkKeeps

LEMMA OtherDeskStepsKeep ==
  ASSUME DkInv,
         \/ \E u \in Users : \/ Answer(u) \/ Assign(u) \/ RemoveMember(u)
                             \/ \E p \in Priorities : UpdatePriority(u, p)
         \/ Answer(Bot)
         \/ UNCHANGED dkVars
  PROVE  DkKeeps
<1>1. ASSUME NEW u \in Users, Assign(u)
      PROVE  DkKeeps
  <2>1. u \in Actors
    BY DEF Actors
  <2>2. call[u].row \in Actors
    BY <1>1, <2>1, DkInvParts DEF Assign, Writing, Fit
  <2>3. HoldersTyped'
    BY <1>1, <2>2, DkInvParts DEF Assign, HoldersTyped
  <2>4. QED BY <1>1, <2>1, <2>3, DkEnds, DkSameKeeps DEF Assign, DkKeeps, rows
<1>2. ASSUME NEW u \in Users, RemoveMember(u)
      PROVE  DkKeeps
  <2>1. HoldersTyped'
    BY <1>2, DkInvParts DEF RemoveMember, HoldersTyped
  <2>2. QED BY <1>2, <2>1, DkSpends, DkSameKeeps DEF RemoveMember, DkKeeps, rows
<1>3. ASSUME NEW u \in Users, NEW p \in Priorities, UpdatePriority(u, p)
      PROVE  DkKeeps
  <2>1. HoldersTyped'
    BY <1>3, DkInvParts DEF UpdatePriority, HoldersTyped
  <2>2. QED BY <1>3, <2>1, DkSpends, DkSameKeeps DEF UpdatePriority, DkKeeps, rows
<1>4. ASSUME NEW a \in Actors, Answer(a)
      PROVE  DkKeeps
  BY <1>4, DkEnds, DkSameKeeps DEF Answer, DkKeeps, rows
<1>5. CASE UNCHANGED dkVars
  BY <1>5, DkSameKeeps DEF dkVars, rows, DkKeeps
<1>6. QED BY <1>1, <1>2, <1>3, <1>4, <1>5 DEF Actors

LEMMA DeskStepKeeps ==
  ASSUME DkInv, [DkNext]_dkVars
  PROVE  DkInv' /\ ShowsNothingDeleted
<1>1. DkKeeps
  <2>1. ASSUME NEW u \in Users,
               \/ BeginTagChange(u) \/ BeginLink(u) \/ BeginNote(u) \/ BeginReplyChange(u) \/ BeginAssign(u)
               \/ \E name \in Names : CreateTag(u, name)
               \/ EditTag(u) \/ DeleteTag(u) \/ WriteNote(u) \/ DeleteNote(u)
               \/ CreateReply(u) \/ EditReply(u) \/ DeleteReply(u)
               \/ Assign(u) \/ RemoveMember(u) \/ \E p \in Priorities : UpdatePriority(u, p)
        PROVE  DkKeeps
    BY <2>1, BeginsKeep, CreateTagKeeps, EditTagKeeps, DeleteTagKeeps, NoteStepsKeep, CreateReplyKeeps,
       ReplyWritesKeep, OtherDeskStepsKeep
  <2>2. ASSUME NEW a \in Actors, LookLink(a) \/ AddLink(a) \/ FindLink(a) \/ DropLink(a) \/ Answer(a)
        PROVE  DkKeeps
    BY <2>2, LookLinkKeeps, AddLinkKeeps, FindLinkKeeps, DropLinkKeeps, OtherDeskStepsKeep DEF Actors
  <2>3. CASE UNCHANGED dkVars
    BY <2>3, OtherDeskStepsKeep
  <2>4. \A u \in Users : u \in Actors
    BY DEF Actors
  <2>5. ASSUME NEW name \in Names, BeginTagByName(name)
        PROVE  DkKeeps
    BY <2>5, BeginsKeep
  <2>6. QED BY <2>1, <2>2, <2>3, <2>4, <2>5, MakeTagKeeps DEF DkNext
<1>2. DkInv'
  <2>1. /\ TagsTyped' /\ LinksTyped' /\ NotesTyped' /\ RepliesTyped' /\ HoldersTyped' /\ DkLeftTyped'
        /\ call' \in [Actors -> Call] /\ \A a \in Actors : Fit(call'[a])
    BY <1>1 DEF DkKeeps, TagsKept, NotesKept, RepliesKept, DkCallsFit
  <2>2. QED BY <2>1 DEF DkInv, DkTypeOK, TagsTyped, LinksTyped, NotesTyped, RepliesTyped, HoldersTyped, DkLeftTyped
<1>3. ShowsNothingDeleted
  BY <1>1 DEF DkKeeps, TagsKept, NotesKept, RepliesKept, TagsStayGone, NotesStayGone, RepliesStayGone,
              ShowsNothingDeleted, ShownTags, ShownNotes, ShownReplies
<1>4. QED BY <1>2, <1>3

-----------------------------------------------------------------------------
(* An answer about a tag of the conversation was true at some moment of the    *)
(* request, however many requests and tags there are and however they overlap. *)
THEOREM LinkAnswersWereTrue == ConversationsSpec => []LinksAreTrue
<1> DEFINE I == part = "desk" => DkInv
<1>1. ConversationsInit => I
  BY DeskInitially DEF ConversationsInit
<1>2. I /\ [ConversationsNext]_coVars => I'
  <2> SUFFICES ASSUME I, [ConversationsNext]_coVars, part' = "desk"
               PROVE  DkInv'
    OBVIOUS
  <2>1. part = "desk" /\ [DkNext]_dkVars
    BY DEF ConversationsNext, coVars
  <2>2. QED BY <2>1, DeskStepKeeps
<1>3. I => LinksAreTrue
  BY DEF LinksAreTrue, LinkAnswersAreTrue, DkInv, Fit
<1>4. QED BY <1>1, <1>2, <1>3, PTL DEF ConversationsSpec

\* A tag, a note or a saved reply that was deleted is not listed again, by no edit that was
\* allowed before the deletion and written after it.
THEOREM DeletedRowsStayDeleted == ConversationsSpec => GoneStaysGone
<1> DEFINE I == part = "desk" => DkInv
<1>1. ConversationsInit => I
  BY DeskInitially DEF ConversationsInit
<1>2. I /\ [ConversationsNext]_coVars => I' /\ [part = "desk" => ShowsNothingDeleted]_coVars
  <2>1. SUFFICES ASSUME I, [ConversationsNext]_coVars
                 PROVE  /\ part' = "desk" => DkInv'
                        /\ part = "desk" => ShowsNothingDeleted
    OBVIOUS
  <2>2. part' = part /\ (part = "desk" => [DkNext]_dkVars)
    BY <2>1 DEF ConversationsNext, coVars
  <2>3. QED BY <2>1, <2>2, DeskStepKeeps
<1>3. QED BY <1>1, <1>2, PTL DEF ConversationsSpec, GoneStaysGone

-----------------------------------------------------------------------------
(* Inbound: how a delivery stands to its events, the thread and the row.      *)

InUsed(e) == InBounds[e] - inLeft[e]
InBudget == \A e \in InEvents : inLeft[e] <= InBounds[e]

\* What handling event i of a delivery leaves behind.
EventHandled(d, i) ==
  /\ Payload[d][i].type = "message" => Payload[d][i].id \in Stored /\ owner
  /\ Payload[d][i].type = "unsend" => Payload[d][i].id \in missed \union erased
StepsOf == [message |-> {"customer", "create", "look", "upsert", "store", "dispatch"},
            unsend |-> {"find", "erase"}, follow |-> {"customer", "create", "follow"},
            unfollow |-> {"unfollow"}]

InFit(d) ==
  /\ job[d].pc \in Waiting \union Working => job[d].tries > 0
  /\ job[d].pc = "lost" => job[d].tries = 0
  /\ job[d].pc \in Working \ {"finish"} =>
       job[d].at \in 1..Len(Payload[d]) /\ job[d].pc \in StepsOf[Event(d).type]
  /\ job[d].pc = "finish" => job[d].at = Len(Payload[d]) + 1
  /\ job[d].pc \in {"look", "upsert", "store", "dispatch"} => owner
  /\ job[d].pc = "create" => \A i \in 1..(job[d].at - 1) : Payload[d][i].type # "message"
  /\ job[d].pc \in Working => \A i \in 1..(job[d].at - 1) : EventHandled(d, i)
  /\ job[d].pc = "done" => \A i \in 1..Len(Payload[d]) : EventHandled(d, i)
  /\ job[d].pc = "dispatch" => Event(d).id \in Stored
  /\ job[d].pc = "upsert" /\ conv.status = "RESOLVED" => job[d].seen = "RESOLVED" \/ job[d].stale

\* The row of the conversation.
RowFits ==
  /\ conv.status = "absent" => ~conv.started
  /\ MessageReopens /\ StartMatchesStatus

\* A mark is under way up to a message of the thread.
MarksFit == \A a \in Agents : desk[a].pc = "tell" => desk[a].upto \in 1..Len(thread)

InInv == InTypeOK /\ InBudget /\ RowFits /\ MarksFit /\ \A d \in Deliveries : InFit(d)

\* Deliveries that may still hand message m to the automations, without another failure.
Bears(d, m) == \E i \in DOMAIN Payload[d] : Payload[d][i] = [type |-> "message", id |-> m]
IsDue(d, m) ==
  \/ job[d].pc \in Waiting /\ Bears(d, m)
  \/ /\ job[d].pc \in Working
     /\ \E i \in DOMAIN Payload[d] : i >= job[d].at /\ Payload[d][i] = [type |-> "message", id |-> m]

\* A delivery loses an attempt to a fault, or once to another worker's customer row.
Clash(d) == IF owner /\ job[d].pc # "create" THEN 1 ELSE 0
Persists(d) == Attempts <= job[d].tries + InUsed("faults") + Clash(d)

\* What one step does to the delivery it is of.
InKeeps(d) ==
  /\ job' \in [Deliveries -> Delivery]
  /\ \A e \in Deliveries \ {d} : job'[e] = job[e]
  /\ InFit(d)'
  /\ Persists(d) /\ (channel.on \/ job[d].pc = "coming") => Persists(d)'
  /\ \A m \in Messages : IsDue(d, m)' => IsDue(d, m)

\* What a step of another delivery may not take away.
Grows ==
  /\ Stored \subseteq Stored' /\ missed \subseteq missed' /\ erased \subseteq erased'
  /\ owner => owner'
  /\ conv'.status = "RESOLVED" => conv.status = "RESOLVED"
  /\ UNCHANGED thread \/ \E m \in Messages : thread' = Append(thread, m)

LEMMA FreshIs ==
  /\ Fresh \in Delivery /\ Fresh.pc = "queued" /\ Fresh.at = 1 /\ Fresh.tries = Attempts
  /\ Attempts \in Nat /\ Attempts > 0
<1>1. Attempts \in Nat /\ Attempts > 0
  BY InboundAssumption
<1>2. Attempts \in 0..Attempts /\ 1 \in Nat
  BY <1>1
<1>3. "queued" \in Waiting \union Over \union Working
  BY DEF Waiting
<1>4. QED BY <1>1, <1>2, <1>3 DEF Fresh, Delivery

LEMMA InInitially == InInit => InInv
<1> SUFFICES ASSUME InInit PROVE InInv
  OBVIOUS
<1> DEFINE new == [Fresh EXCEPT !.pc = "coming"]
<1>1. new \in Delivery /\ new.pc = "coming" /\ new.tries = Attempts
  <2>1. "coming" \in Waiting \union Over \union Working
    BY DEF Waiting
  <2>2. QED BY <2>1, FreshIs DEF Delivery
<1>2. job = [d \in Deliveries |-> new]
  BY DEF InInit
<1> HIDE DEF new
<1>3. AtRest \in Desk
  BY DEF AtRest, Desk, ConvStatus
<1>4. InTypeOK
  <2>1. job \in [Deliveries -> Delivery] /\ desk \in [Agents -> Desk]
    BY <1>1, <1>2, <1>3 DEF InInit
  <2>2. conv \in Conversation /\ channel \in [on : BOOLEAN, miss : BOOLEAN] /\ owner \in BOOLEAN
    BY DEF InInit, Conversation, ConvStatus
  <2>3. inLeft \in [InEvents -> Nat] /\ handled \in [Messages -> Nat] /\ thread \in Seq(Messages)
    BY InboundAssumption DEF InInit
  <2>4. QED BY <2>1, <2>2, <2>3 DEF InInit, InTypeOK
<1>5. \A d \in Deliveries : InFit(d)
  BY <1>1, <1>2, FreshIs DEF InFit, Waiting, Working
<1>6. InBudget
  BY InboundAssumption DEF InInit, InBudget
<1>7. RowFits
  BY DEF InInit, RowFits, MessageReopens, StartMatchesStatus
<1>8. MarksFit
  BY DEF InInit, MarksFit, AtRest
<1>9. QED BY <1>4, <1>5, <1>6, <1>7, <1>8 DEF InInv

LEMMA InTypes ==
  ASSUME InTypeOK
  PROVE  /\ channel.on \in BOOLEAN /\ channel.miss \in BOOLEAN
         /\ owner \in BOOLEAN /\ conv \in Conversation /\ thread \in Seq(Messages)
         /\ \A d \in Deliveries : /\ job[d] \in Delivery /\ job[d].pc \in Waiting \union Over \union Working
                                  /\ job[d].at \in Nat /\ job[d].tries \in 0..Attempts /\ job[d].stale \in BOOLEAN
         /\ \A d \in Deliveries : /\ Payload[d] \in Seq([type : EventTypes, id : Messages])
                                  /\ DOMAIN Payload[d] = 1..Len(Payload[d]) /\ Len(Payload[d]) \in Nat
         /\ \A d \in Deliveries : \A i \in 1..Len(Payload[d]) :
              Payload[d][i] \in [type : EventTypes, id : Messages]
         /\ Attempts \in Nat \ {0}
         /\ \A e \in InEvents : inLeft[e] \in Nat /\ InBounds[e] \in Nat
<1>1. \A d \in Deliveries : job[d] \in Delivery
  BY DEF InTypeOK
<1>2. \A d \in Deliveries : Payload[d] \in Seq([type : EventTypes, id : Messages])
  BY InboundAssumption
<1>3. /\ channel.on \in BOOLEAN /\ channel.miss \in BOOLEAN
      /\ owner \in BOOLEAN /\ conv \in Conversation /\ thread \in Seq(Messages)
  BY DEF InTypeOK
<1>4. \A d \in Deliveries : /\ job[d] \in Delivery /\ job[d].pc \in Waiting \union Over \union Working
                            /\ job[d].at \in Nat /\ job[d].tries \in 0..Attempts /\ job[d].stale \in BOOLEAN
  BY <1>1 DEF Delivery
<1>5. \A d \in Deliveries : DOMAIN Payload[d] = 1..Len(Payload[d]) /\ Len(Payload[d]) \in Nat
  BY <1>2
<1>6. \A d \in Deliveries : \A i \in 1..Len(Payload[d]) :
        Payload[d][i] \in [type : EventTypes, id : Messages]
  <2> DEFINE E == [type : EventTypes, id : Messages]
  <2>1. \A d \in Deliveries : Payload[d] \in Seq(E)
    BY <1>2
  <2> HIDE DEF E
  <2>2. \A d \in Deliveries : \A i \in 1..Len(Payload[d]) : Payload[d][i] \in E
    BY <2>1
  <2>3. QED BY <2>2 DEF E
<1>7. Attempts \in Nat \ {0} /\ \A e \in InEvents : inLeft[e] \in Nat /\ InBounds[e] \in Nat
  BY InboundAssumption DEF InTypeOK
<1>8. QED BY <1>2, <1>3, <1>4, <1>5, <1>6, <1>7

LEMMA InOneMoves ==
  ASSUME InTypeOK, NEW d \in Deliveries, NEW new \in Delivery, job' = [job EXCEPT ![d] = new]
  PROVE  /\ job' \in [Deliveries -> Delivery] /\ job'[d] = new
         /\ \A e \in Deliveries \ {d} : job'[e] = job[e]
  BY DEF InTypeOK

LEMMA InSpends ==
  ASSUME InTypeOK, InBudget, NEW e \in InEvents \ {"all"}, Spends(e)
  PROVE  /\ inLeft' \in [InEvents -> Nat] /\ InBudget'
         /\ inLeft[e] > 0 /\ inLeft'[e] = inLeft[e] - 1
         /\ \A k \in InEvents \ {e, "all"} : inLeft'[k] = inLeft[k]
         /\ \A k \in InEvents : inLeft'[k] <= inLeft[k]
<1>1. inLeft \in [InEvents -> Nat] /\ \A k \in InEvents : inLeft[k] \in Nat /\ InBounds[k] \in Nat
  BY InTypes DEF InTypeOK
<1>2. inLeft[e] > 0 /\ inLeft["all"] > 0
  BY DEF Spends
<1>3. PICK a, b \in Nat : a = inLeft[e] - 1 /\ b = inLeft["all"] - 1
  BY <1>1, <1>2 DEF InEvents
<1>4. inLeft' = [inLeft EXCEPT ![e] = a, !["all"] = b]
  BY <1>3 DEF Spends
<1>5. "all" \in InEvents
  BY DEF InEvents
<1>6. inLeft' \in [InEvents -> Nat] /\ inLeft'[e] = a /\ inLeft'["all"] = b
      /\ \A k \in InEvents \ {e, "all"} : inLeft'[k] = inLeft[k]
  BY <1>1, <1>4, <1>5
<1>7. \A k \in InEvents : inLeft'[k] <= inLeft[k]
  BY <1>1, <1>3, <1>6
<1>8. InBudget'
  BY <1>1, <1>6, <1>7 DEF InBudget
<1>9. QED BY <1>1, <1>2, <1>3, <1>6, <1>7, <1>8

\* A delivery that did not move still fits.
LEMMA InOthersFit ==
  ASSUME InInv, Grows, NEW e \in Deliveries, job'[e] = job[e]
  PROVE  InFit(e)'
<1>1. InFit(e)
  BY DEF InInv
<1>2. \A i \in 1..Len(Payload[e]) : EventHandled(e, i) => EventHandled(e, i)'
  BY DEF EventHandled, Grows
<1>3. Event(e)' = Event(e)
  BY DEF Event
<1>4. job[e].at \in Nat /\ Len(Payload[e]) \in Nat
  BY InTypes DEF InInv
<1>5. job[e].pc \in Working => job[e].at - 1 <= Len(Payload[e])
  BY <1>1, <1>4 DEF InFit, Working
<1>6. job[e].pc \in Working => \A i \in 1..(job[e].at - 1) : EventHandled(e, i)'
  BY <1>1, <1>2, <1>4, <1>5 DEF InFit
<1>7. job[e].pc = "done" => \A i \in 1..Len(Payload[e]) : EventHandled(e, i)'
  BY <1>1, <1>2 DEF InFit
<1>8. QED BY <1>1, <1>3, <1>6, <1>7 DEF InFit, Grows

\* A delivery at the beginning of an event, or at the end.
LEMMA InEnters ==
  ASSUME InTypeOK, NEW d \in Deliveries, NEW k \in 1..(Len(Payload[d]) + 1),
         job'[d].pc = Entry(d, k), job'[d].at = k, job'[d].tries > 0,
         \A i \in 1..(k - 1) : EventHandled(d, i)'
  PROVE  InFit(d)' /\ job'[d].pc \in Working /\ job'[d].pc # "create"
<1>1. Len(Payload[d]) \in Nat
  BY InTypes
<1>2. CASE k > Len(Payload[d])
  <2>1. k = Len(Payload[d]) + 1 /\ job'[d].pc = "finish"
    BY <1>1, <1>2 DEF Entry
  <2>2. QED BY <2>1 DEF InFit, Working, Waiting
<1>3. CASE k <= Len(Payload[d])
  <2>1. k \in 1..Len(Payload[d]) /\ Payload[d][k].type \in EventTypes
    BY <1>1, <1>3, InTypes
  <2>2. job'[d].pc = EntryOf[Payload[d][k].type]
    BY <1>1, <1>3 DEF Entry
  <2>3. job'[d].pc \in {"customer", "find", "unfollow"} /\ job'[d].pc \in StepsOf[Payload[d][k].type]
    BY <2>1, <2>2 DEF EntryOf, StepsOf, EventTypes
  <2>4. Event(d)' = Payload[d][k]
    BY DEF Event
  <2>5. QED BY <2>1, <2>3, <2>4 DEF InFit, Working, Waiting
<1>4. QED BY <1>1, <1>2, <1>3

LEMMA InMoves ==
  ASSUME InInv, NEW d \in Deliveries, NEW step \in Working, Moves(d, step)
  PROVE  /\ job' \in [Deliveries -> Delivery]
         /\ \A e \in Deliveries \ {d} : job'[e] = job[e]
         /\ job'[d].pc = step /\ job'[d].at = job[d].at /\ job'[d].tries = job[d].tries
         /\ job'[d].seen = job[d].seen /\ job'[d].stale = job[d].stale
<1> DEFINE new == [job[d] EXCEPT !.pc = step]
<1>1. job[d] \in Delivery
  BY InTypes DEF InInv
<1>2. /\ new \in Delivery /\ new.pc = step /\ new.at = job[d].at /\ new.tries = job[d].tries
      /\ new.seen = job[d].seen /\ new.stale = job[d].stale
  BY <1>1 DEF Delivery
<1>3. job' = [job EXCEPT ![d] = new]
  BY DEF Moves
<1> HIDE DEF new
<1>4. QED BY <1>2, <1>3, InOneMoves DEF InInv

\* An event is done with.
LEMMA InTurns ==
  ASSUME InInv, NEW d \in Deliveries, job[d].pc \in Working \ {"finish"}, Turns(d), Grows,
         NEW n \in Nat, n = job[d].at, EventHandled(d, n)'
  PROVE  /\ job' \in [Deliveries -> Delivery]
         /\ \A e \in Deliveries \ {d} : job'[e] = job[e]
         /\ job'[d].at = job[d].at + 1 /\ job'[d].tries = job[d].tries
         /\ InFit(d)' /\ job'[d].pc \in Working /\ job'[d].pc # "create"
<1> DEFINE k == job[d].at + 1
           new == [job[d] EXCEPT !.pc = Entry(d, k), !.at = k]
<1>1. job[d] \in Delivery /\ job[d].tries \in Nat /\ Len(Payload[d]) \in Nat
  BY InTypes DEF InInv
<1>2. job[d].at \in 1..Len(Payload[d]) /\ job[d].tries > 0
      /\ \A i \in 1..(job[d].at - 1) : EventHandled(d, i)
  BY <1>1 DEF InInv, InFit, Working
<1>3. k \in 1..(Len(Payload[d]) + 1) /\ k \in Nat
  BY <1>1, <1>2
<1>4. Entry(d, k) \in Working
  <2>1. k <= Len(Payload[d]) => Payload[d][k].type \in EventTypes
    BY <1>1, <1>3, InTypes DEF InInv
  <2>2. QED BY <1>1, <1>3, <2>1 DEF Entry, EntryOf, EventTypes, Working
<1>5. new \in Delivery /\ new.pc = Entry(d, k) /\ new.at = k /\ new.tries = job[d].tries
  BY <1>1, <1>3, <1>4 DEF Delivery
<1>6. job' = [job EXCEPT ![d] = new]
  BY DEF Turns
<1> HIDE DEF new
<1>7. /\ job' \in [Deliveries -> Delivery] /\ job'[d] = new
      /\ \A e \in Deliveries \ {d} : job'[e] = job[e]
  BY <1>5, <1>6, InOneMoves DEF InInv
<1>8. \A i \in 1..(k - 1) : EventHandled(d, i)'
  <2>1. \A i \in 1..(job[d].at - 1) : EventHandled(d, i)'
    BY <1>2 DEF EventHandled, Grows
  <2>2. \A i \in 1..(k - 1) : i \in 1..(job[d].at - 1) \/ i = n
    BY <1>2
  <2>3. QED BY <2>1, <2>2
<1>9. job'[d].tries > 0
  BY <1>2, <1>5, <1>7
<1> HIDE DEF k
<1>10. InFit(d)' /\ job'[d].pc \in Working /\ job'[d].pc # "create"
  BY <1>3, <1>5, <1>7, <1>8, <1>9, InEnters DEF InInv
<1>11. QED BY <1>5, <1>7, <1>10 DEF k

LEMMA InThrows ==
  ASSUME InInv, NEW d \in Deliveries, job[d].pc \in Working \union {"queued"}, Throws(d)
  PROVE  /\ job' \in [Deliveries -> Delivery]
         /\ \A e \in Deliveries \ {d} : job'[e] = job[e]
         /\ job'[d].pc \in {"queued", "lost"} /\ job'[d].tries = job[d].tries - 1
         /\ InFit(d)'
<1> DEFINE new == [Fresh EXCEPT !.pc = IF GivesUp(d) THEN "lost" ELSE "queued", !.tries = job[d].tries - 1]
<1>1. job[d].tries \in 0..Attempts /\ Attempts \in Nat /\ job[d].tries > 0
  BY InTypes DEF InInv, InFit, Waiting
<1>2. /\ new \in Delivery /\ new.pc \in {"queued", "lost"} /\ new.tries = job[d].tries - 1
      /\ new.pc = "lost" <=> job[d].tries = 1
  <2> DEFINE pc == IF GivesUp(d) THEN "lost" ELSE "queued"
             left == job[d].tries - 1
  <2>1. pc \in {"queued", "lost"} /\ (pc = "lost" <=> job[d].tries = 1)
    BY DEF GivesUp
  <2>2. left \in 0..Attempts
    BY <1>1
  <2>3. pc \in Waiting \union Over \union Working
    BY <2>1 DEF Over, Waiting
  <2>4. new = [Fresh EXCEPT !.pc = pc, !.tries = left]
    OBVIOUS
  <2> HIDE DEF pc, left, new
  <2>5. new \in Delivery /\ new.pc = pc /\ new.tries = left
    BY <2>2, <2>3, <2>4, FreshIs DEF Delivery
  <2>6. QED BY <2>1, <2>5 DEF left
<1>3. job' = [job EXCEPT ![d] = new]
  BY DEF Throws
<1> HIDE DEF new
<1>4. /\ job' \in [Deliveries -> Delivery] /\ job'[d] = new
      /\ \A e \in Deliveries \ {d} : job'[e] = job[e]
  BY <1>2, <1>3, InOneMoves DEF InInv
<1>5. InFit(d)'
  BY <1>1, <1>2, <1>4 DEF InFit, Working, Waiting
<1>6. QED BY <1>2, <1>4, <1>5

LEMMA InGoesOn ==
  ASSUME InInv, NEW d \in Deliveries, job' \in [Deliveries -> Delivery],
         \A e \in Deliveries \ {d} : job'[e] = job[e],
         job[d].pc \in Waiting \union Working, job'[d].pc \in Working, InFit(d)',
         job'[d].tries = job[d].tries, job[d].pc \in Working => job[d].at <= job'[d].at,
         owner => owner', UNCHANGED inLeft, job'[d].pc = "create" => ~owner
  PROVE  InKeeps(d)
<1>1. /\ job[d].at \in Nat /\ job'[d].at \in Nat /\ job[d].tries \in Nat
      /\ owner \in BOOLEAN /\ Attempts \in Nat /\ "faults" \in InEvents
      /\ inLeft["faults"] \in Nat /\ InBounds["faults"] \in Nat
  <2>1. job'[d] \in Delivery /\ "faults" \in InEvents
    BY DEF InEvents
  <2>2. QED BY <2>1, InTypes DEF InInv, Delivery
<1>2. Persists(d) => Persists(d)'
  <2>1. Clash(d) \in {0, 1} /\ Clash(d)' \in {0, 1} /\ Clash(d) <= Clash(d)'
    BY DEF Clash
  <2>2. InUsed("faults") \in Int /\ InUsed("faults")' = InUsed("faults")
    BY <1>1 DEF InUsed
  <2>3. QED BY <1>1, <2>1, <2>2 DEF Persists
<1>3. ASSUME NEW m \in Messages, IsDue(d, m)' PROVE IsDue(d, m)
  <2>1. PICK i \in DOMAIN Payload[d] : i >= job'[d].at /\ Payload[d][i] = [type |-> "message", id |-> m]
    BY <1>3 DEF IsDue, Working, Waiting
  <2>2. Bears(d, m)
    BY <2>1 DEF Bears
  <2>3. i \in Nat
    BY <2>1, InTypes DEF InInv
  <2>4. QED BY <1>1, <2>1, <2>2, <2>3 DEF IsDue
<1>4. QED BY <1>2, <1>3 DEF InKeeps

\* A step of a delivery keeps the invariant, and the delivery to what InKeeps says.
InStepIs(d) == InTypeOK' /\ InKeeps(d) /\ Grows /\ RowFits'

LEMMA InAt ==
  ASSUME InInv, NEW d \in Deliveries, job[d].pc \in Working \ {"finish"}
  PROVE  /\ job[d].at \in 1..Len(Payload[d]) /\ job[d].at \in Nat /\ Len(Payload[d]) \in Nat
         /\ Event(d) = Payload[d][job[d].at] /\ Event(d) \in [type : EventTypes, id : Messages]
         /\ job[d].pc \in StepsOf[Event(d).type] /\ Event(d).id \in Messages
         /\ Event(d).type \in EventTypes
         /\ \A i \in 1..(job[d].at - 1) : EventHandled(d, i)
         /\ job[d].tries > 0 /\ InFit(d)
<1>1. InFit(d)
  BY DEF InInv
<1>2. job[d].at \in 1..Len(Payload[d]) /\ job[d].pc \in StepsOf[Event(d).type]
      /\ (\A i \in 1..(job[d].at - 1) : EventHandled(d, i)) /\ job[d].tries > 0
  BY <1>1 DEF InFit, Working
<1>3. QED BY <1>1, <1>2, InTypes DEF InInv, Event

LEMMA SameRow == ASSUME RowFits, UNCHANGED <<conv, inLeft>> PROVE RowFits'
  BY DEF RowFits, MessageReopens, StartMatchesStatus

LEMMA ReceiveKeeps ==
  ASSUME InInv, NEW d \in Deliveries, Receive(d)
  PROVE  InStepIs(d)
<1> DEFINE pc == IF ~channel.miss /\ channel.on THEN "queued" ELSE "refused"
           new == [job[d] EXCEPT !.pc = pc]
<1>1. job[d] \in Delivery /\ job[d].tries > 0 /\ job[d].pc = "coming"
  BY InTypes DEF InInv, InFit, Receive, Waiting
<1>2. new \in Delivery /\ new.pc = pc /\ new.tries = job[d].tries
  BY <1>1 DEF Delivery, Waiting, Over
<1>3. job' = [job EXCEPT ![d] = new]
  BY DEF Receive
<1> HIDE DEF new
<1>4. /\ job' \in [Deliveries -> Delivery] /\ job'[d] = new
      /\ \A e \in Deliveries \ {d} : job'[e] = job[e]
  BY <1>2, <1>3, InOneMoves DEF InInv
<1>5. InFit(d)'
  BY <1>1, <1>2, <1>4 DEF InFit, Waiting, Working
<1>6. Persists(d) => Persists(d)'
  BY <1>1, <1>2, <1>4 DEF Persists, Clash, InUsed, Receive, convVars
<1>7. \A m \in Messages : IsDue(d, m)' => IsDue(d, m)
  BY <1>1, <1>2, <1>4 DEF IsDue, Waiting, Working, Bears
<1>8. InTypeOK'
  <2>1. channel' \in [on : BOOLEAN, miss : BOOLEAN]
    BY DEF InInv, InTypeOK, Receive
  <2>2. QED BY <1>4, <2>1 DEF InInv, InTypeOK, Receive, convVars, msgVars, logVars
<1>9. Grows /\ RowFits'
  BY SameRow DEF InInv, Grows, Stored, Receive, convVars, msgVars, logVars
<1>10. QED BY <1>4, <1>5, <1>6, <1>7, <1>8, <1>9 DEF InStepIs, InKeeps

LEMMA OpenKeeps ==
  ASSUME InInv, NEW d \in Deliveries, Open(d)
  PROVE  InStepIs(d)
<1>1. job[d] \in Delivery /\ job[d].tries > 0 /\ job[d].pc = "queued"
  BY InTypes DEF InInv, InFit, Open, Waiting
<1>2. Grows /\ RowFits'
  BY SameRow DEF InInv, Grows, Stored, Open, convVars, msgVars, logVars
<1>3. CASE channel.on
  <2> DEFINE new == [job[d] EXCEPT !.pc = Entry(d, 1), !.at = 1]
  <2>1. Len(Payload[d]) \in Nat
    BY InTypes DEF InInv
  <2>2. Entry(d, 1) \in Working
    <3>1. 1 <= Len(Payload[d]) => Payload[d][1].type \in EventTypes
      BY <2>1, InTypes DEF InInv
    <3>2. QED BY <2>1, <3>1 DEF Entry, EntryOf, EventTypes, Working
  <2>3. new \in Delivery /\ new.pc = Entry(d, 1) /\ new.at = 1 /\ new.tries = job[d].tries
    BY <1>1, <2>2 DEF Delivery
  <2>4. job' = [job EXCEPT ![d] = new]
    BY <1>3 DEF Open
  <2> HIDE DEF new
  <2>5. /\ job' \in [Deliveries -> Delivery] /\ job'[d] = new
        /\ \A e \in Deliveries \ {d} : job'[e] = job[e]
    BY <2>3, <2>4, InOneMoves DEF InInv
  <2>6. 1 \in 1..(Len(Payload[d]) + 1) /\ \A i \in 1..(1 - 1) : EventHandled(d, i)'
    BY <2>1
  <2>7. InFit(d)' /\ job'[d].pc \in Working /\ job'[d].pc # "create"
    BY <1>1, <2>3, <2>5, <2>6, InEnters DEF InInv
  <2>8. UNCHANGED inLeft /\ UNCHANGED owner
    BY DEF Open, convVars
  <2>9. job[d].pc \in Waiting \union Working /\ job[d].pc \notin Working
    BY <1>1 DEF Waiting, Working
  <2>10. InKeeps(d)
    BY <2>3, <2>5, <2>7, <2>8, <2>9, InGoesOn
  <2>11. QED BY <1>2, <2>5, <2>10 DEF InStepIs, InInv, InTypeOK, Open, convVars, msgVars, logVars
<1>4. CASE ~channel.on
  <2>1. Throws(d)
    BY <1>4 DEF Open
  <2>2. /\ job' \in [Deliveries -> Delivery]
        /\ \A e \in Deliveries \ {d} : job'[e] = job[e]
        /\ job'[d].pc \in {"queued", "lost"} /\ InFit(d)'
    BY <1>1, <2>1, InThrows
  <2>3. \A m \in Messages : IsDue(d, m)' => IsDue(d, m)
    BY <1>1, <2>2 DEF IsDue, Waiting, Working, Bears
  <2>4. InKeeps(d)
    BY <1>1, <1>4, <2>2, <2>3 DEF InKeeps
  <2>5. QED BY <1>2, <2>2, <2>4 DEF InStepIs, InInv, InTypeOK, Open, convVars, msgVars, logVars
<1>5. QED BY <1>3, <1>4

\* A step that moves its delivery on within the event, or to the next one.
LEMMA MovesKeep ==
  ASSUME InInv, NEW d \in Deliveries, NEW step \in Working, Moves(d, step), job[d].pc \in Working,
         Grows, RowFits', InFit(d)', UNCHANGED <<channel, desk, inLeft>>, step = "create" => ~owner,
         owner' \in BOOLEAN, conv' \in Conversation, thread' \in Seq(Messages), unread' \subseteq Messages,
         erased' \subseteq Messages, told' \subseteq Messages, crossed' \subseteq Messages,
         missed' \subseteq Messages, UNCHANGED handled
  PROVE  InStepIs(d)
<1>1. /\ job' \in [Deliveries -> Delivery]
      /\ \A e \in Deliveries \ {d} : job'[e] = job[e]
      /\ job'[d].pc = step /\ job'[d].at = job[d].at /\ job'[d].tries = job[d].tries
  BY InMoves
<1>2. job[d].at \in Nat
  BY InTypes DEF InInv
<1>3. InKeeps(d)
  BY <1>1, <1>2, InGoesOn DEF Grows
<1>4. InTypeOK'
  BY <1>1 DEF InInv, InTypeOK
<1>5. QED BY <1>3, <1>4 DEF InStepIs

LEMMA TurnsKeep ==
  ASSUME InInv, NEW d \in Deliveries, Turns(d), job[d].pc \in Working \ {"finish"},
         Grows, RowFits', NEW n \in Nat, n = job[d].at, EventHandled(d, n)', UNCHANGED <<channel, desk, inLeft>>,
         owner' \in BOOLEAN, conv' \in Conversation, thread' \in Seq(Messages), unread' \subseteq Messages,
         erased' \subseteq Messages, told' \subseteq Messages, crossed' \subseteq Messages,
         missed' \subseteq Messages, handled' \in [Messages -> Nat]
  PROVE  InStepIs(d)
<1>1. /\ job' \in [Deliveries -> Delivery]
      /\ \A e \in Deliveries \ {d} : job'[e] = job[e]
      /\ job'[d].at = job[d].at + 1 /\ job'[d].tries = job[d].tries
      /\ InFit(d)' /\ job'[d].pc \in Working /\ job'[d].pc # "create"
  BY InTurns
<1>2. job[d].at \in Nat /\ job[d].at <= job[d].at + 1
  BY InTypes DEF InInv
<1>3. InKeeps(d)
  BY <1>1, <1>2, InGoesOn DEF Grows
<1>4. InTypeOK'
  BY <1>1 DEF InInv, InTypeOK
<1>5. QED BY <1>3, <1>4 DEF InStepIs

LEMMA FindCustomerKeeps ==
  ASSUME InInv, NEW d \in Deliveries, FindCustomer(d)
  PROVE  InStepIs(d)
<1> DEFINE step == IF owner THEN AfterCustomer(d) ELSE "create"
<1>1. job[d].pc = "customer" /\ job[d].pc \in Working \ {"finish"}
  BY DEF FindCustomer, Working
<1>2. /\ job[d].at \in 1..Len(Payload[d]) /\ job[d].pc \in StepsOf[Event(d).type] /\ Event(d).type \in EventTypes
      /\ \A i \in 1..(job[d].at - 1) : EventHandled(d, i)
      /\ job[d].tries > 0
  BY <1>1, InAt
<1>3. Event(d).type \in {"message", "follow"}
  BY <1>1, <1>2 DEF StepsOf, EventTypes
<1>4. step \in Working /\ Moves(d, step) /\ (step = "create" => ~owner) /\ step \in {"create", "look", "follow"}
      /\ step \in StepsOf[Event(d).type] /\ (step = "look" => owner)
  BY <1>3 DEF AfterCustomer, Working, FindCustomer, StepsOf
<1> HIDE DEF step
<1>5. UNCHANGED <<channel, owner, conv, thread, unread, erased, told, crossed, missed, handled, desk, inLeft>>
  BY DEF FindCustomer, convVars, msgVars, logVars
<1>6. Grows /\ RowFits'
  BY <1>5, SameRow DEF Grows, Stored, InInv
<1>7. job'[d].pc = step /\ job'[d].at = job[d].at /\ job'[d].tries = job[d].tries
  BY <1>4, InMoves
<1>8. InFit(d)'
  <2>1. Event(d)' = Event(d)
    BY <1>7 DEF Event
  <2>2. \A i \in 1..(job[d].at - 1) : EventHandled(d, i)'
    BY <1>2, <1>5 DEF EventHandled, Stored
  <2>3. step = "create" => \A i \in 1..(job[d].at - 1) : Payload[d][i].type # "message"
    BY <1>2, <1>4 DEF EventHandled
  <2>4. job'[d].pc \in StepsOf[Event(d)'.type] /\ job'[d].at \in 1..Len(Payload[d]) /\ job'[d].tries > 0
    BY <1>2, <1>4, <1>7, <2>1
  <2>5. job'[d].pc \in {"customer", "create", "look", "follow"} /\ (job'[d].pc = "look" => owner')
    BY <1>4, <1>5, <1>7
  <2>6. /\ \A i \in 1..(job'[d].at - 1) : EventHandled(d, i)'
        /\ job'[d].pc = "create" => \A i \in 1..(job'[d].at - 1) : Payload[d][i].type # "message"
    BY <1>7, <2>2, <2>3
  <2>7. QED BY <2>4, <2>5, <2>6 DEF InFit
<1>9. QED BY <1>1, <1>4, <1>5, <1>6, <1>8, MovesKeep DEF InInv, InTypeOK

LEMMA CreateCustomerKeeps ==
  ASSUME InInv, NEW d \in Deliveries, CreateCustomer(d)
  PROVE  InStepIs(d)
<1>1. job[d].pc = "create" /\ job[d].pc \in Working \ {"finish"}
  BY DEF CreateCustomer, Working
<1>2. /\ job[d].at \in 1..Len(Payload[d]) /\ job[d].pc \in StepsOf[Event(d).type] /\ Event(d).type \in EventTypes
      /\ \A i \in 1..(job[d].at - 1) : EventHandled(d, i)
      /\ job[d].tries > 0 /\ InFit(d)
  BY <1>1, InAt
<1>3. Event(d).type \in {"message", "follow"}
  BY <1>1, <1>2 DEF StepsOf, EventTypes
<1>4. UNCHANGED <<channel, conv, thread, unread, erased, told, crossed, missed, handled, desk, inLeft>>
      /\ owner' \in BOOLEAN /\ (owner => owner')
  BY InTypes DEF CreateCustomer, convVars, msgVars, logVars, InInv
<1>5. Grows /\ RowFits'
  BY <1>4, SameRow DEF Grows, Stored, InInv
<1>6. CASE ~owner
  <2> DEFINE step == AfterCustomer(d)
  <2>1. step \in {"look", "follow"} /\ Moves(d, step) /\ step \in StepsOf[Event(d).type] /\ owner' = TRUE
    BY <1>3, <1>6 DEF AfterCustomer, CreateCustomer, StepsOf
  <2> HIDE DEF step
  <2>2. step \in Working
    BY <2>1 DEF Working
  <2>3. job'[d].pc = step /\ job'[d].at = job[d].at /\ job'[d].tries = job[d].tries
    BY <2>1, <2>2, InMoves
  <2>4. InFit(d)'
    <3>1. Event(d)' = Event(d)
      BY <2>3 DEF Event
    <3>2. \A i \in 1..(job[d].at - 1) : EventHandled(d, i)'
      BY <1>2, <1>4 DEF EventHandled, Stored
    <3>3. QED BY <1>2, <2>1, <2>3, <3>1, <3>2 DEF InFit
  <2>5. QED BY <1>1, <1>4, <1>5, <2>1, <2>2, <2>4, MovesKeep DEF InInv, InTypeOK
<1>7. CASE owner
  <2>1. Throws(d) /\ UNCHANGED owner
    BY <1>7 DEF CreateCustomer
  <2>2. /\ job' \in [Deliveries -> Delivery]
        /\ \A e \in Deliveries \ {d} : job'[e] = job[e]
        /\ job'[d].pc \in {"queued", "lost"} /\ job'[d].tries = job[d].tries - 1
        /\ InFit(d)'
    BY <1>1, <2>1, InThrows
  <2>3. Persists(d) => Persists(d)'
    <3>1. Clash(d) = 0 /\ Clash(d)' = 1
      BY <1>1, <1>7, <2>1, <2>2 DEF Clash
    <3>2. /\ job[d].tries \in Nat /\ Attempts \in Nat /\ InUsed("faults") \in Int
          /\ InUsed("faults")' = InUsed("faults")
      <4>1. "faults" \in InEvents
        BY DEF InEvents
      <4>2. QED BY <1>4, <4>1, InTypes DEF InUsed, InInv
    <3>3. QED BY <2>2, <3>1, <3>2 DEF Persists
  <2>4. ASSUME NEW m \in Messages, IsDue(d, m)' PROVE IsDue(d, m)
    <3>1. PICK i \in DOMAIN Payload[d] : Payload[d][i] = [type |-> "message", id |-> m]
      BY <2>2, <2>4 DEF IsDue, Bears, Working, Waiting
    <3>2. i \in 1..Len(Payload[d]) /\ i \in Nat
      BY <3>1, InTypes DEF InInv
    <3>3. i \notin 1..(job[d].at - 1)
      BY <1>1, <1>2, <3>1 DEF InFit
    <3>4. i >= job[d].at
      BY <1>2, <3>2, <3>3
    <3>5. QED BY <1>1, <3>1, <3>4 DEF IsDue
  <2>5. QED BY <1>4, <1>5, <2>1, <2>2, <2>3, <2>4 DEF InStepIs, InKeeps, InInv, InTypeOK
<1>8. QED BY <1>6, <1>7, InTypes DEF InInv

LEMMA InLookUpKeeps ==
  ASSUME InInv, NEW d \in Deliveries, LookUp(d)
  PROVE  InStepIs(d)
<1> DEFINE new == [job[d] EXCEPT !.pc = "upsert", !.seen = conv.status, !.stale = FALSE]
<1>1. job[d].pc = "look" /\ job[d].pc \in Working \ {"finish"}
  BY DEF LookUp, Working
<1>2. /\ job[d].at \in 1..Len(Payload[d]) /\ job[d].pc \in StepsOf[Event(d).type] /\ Event(d).type \in EventTypes
      /\ \A i \in 1..(job[d].at - 1) : EventHandled(d, i)
      /\ job[d].tries > 0 /\ InFit(d)
  BY <1>1, InAt
<1>3. Event(d).type = "message" /\ owner
  BY <1>1, <1>2 DEF StepsOf, EventTypes, InFit
<1>4. job[d] \in Delivery /\ conv \in Conversation
  BY InTypes DEF InInv
<1>5. /\ new \in Delivery /\ new.pc = "upsert" /\ new.at = job[d].at /\ new.tries = job[d].tries
      /\ new.seen = conv.status
  BY <1>4 DEF Delivery, Conversation, Working
<1>6. job' = [job EXCEPT ![d] = new]
  BY DEF LookUp
<1> HIDE DEF new
<1>7. /\ job' \in [Deliveries -> Delivery] /\ job'[d] = new
      /\ \A e \in Deliveries \ {d} : job'[e] = job[e]
  BY <1>5, <1>6, InOneMoves DEF InInv
<1>8. UNCHANGED <<channel, owner, conv, thread, unread, erased, told, crossed, missed, handled, desk, inLeft>>
  BY DEF LookUp, convVars, msgVars, logVars
<1>9. Grows /\ RowFits'
  BY <1>8, SameRow DEF Grows, Stored, InInv
<1>10. InFit(d)'
  <2>1. Event(d)' = Event(d)
    BY <1>5, <1>7 DEF Event
  <2>2. \A i \in 1..(job[d].at - 1) : EventHandled(d, i)'
    BY <1>2, <1>8 DEF EventHandled, Stored
  <2>3. "upsert" \in StepsOf["message"]
    BY DEF StepsOf
  <2>4. QED BY <1>2, <1>3, <1>5, <1>7, <1>8, <2>1, <2>2, <2>3 DEF InFit
<1>11. InKeeps(d)
  <2>1. job'[d].pc \in Working /\ job[d].at \in Nat /\ job[d].at <= job'[d].at
    BY <1>5, <1>7, InTypes DEF Working, InInv
  <2>2. QED BY <1>1, <1>5, <1>7, <1>8, <1>10, <2>1, InGoesOn
<1>12. InTypeOK'
  BY <1>7, <1>8 DEF InInv, InTypeOK
<1>13. QED BY <1>9, <1>11, <1>12 DEF InStepIs

LEMMA UpsertKeeps ==
  ASSUME InInv, NEW d \in Deliveries, UpsertConversation(d)
  PROVE  InStepIs(d)
<1> DEFINE new == [job[d] EXCEPT !.pc = "store", !.seen = "absent", !.stale = FALSE]
           kept == IF conv.status = "absent" THEN [conv EXCEPT !.status = "OPEN"] ELSE Reopened(conv, job[d].seen)
<1>1. job[d].pc = "upsert" /\ job[d].pc \in Working \ {"finish"}
  BY DEF UpsertConversation, Working
<1>2. /\ job[d].at \in 1..Len(Payload[d]) /\ job[d].pc \in StepsOf[Event(d).type] /\ Event(d).type \in EventTypes
      /\ \A i \in 1..(job[d].at - 1) : EventHandled(d, i)
      /\ job[d].tries > 0 /\ InFit(d)
  BY <1>1, InAt
<1>3. Event(d).type = "message" /\ owner /\ (conv.status = "RESOLVED" => job[d].seen = "RESOLVED" \/ job[d].stale)
  BY <1>1, <1>2 DEF StepsOf, EventTypes, InFit
<1>4. job[d] \in Delivery /\ conv \in Conversation /\ job[d].stale \in BOOLEAN
  BY InTypes DEF InInv
<1>5. new \in Delivery /\ new.pc = "store" /\ new.at = job[d].at /\ new.tries = job[d].tries
  BY <1>4 DEF Delivery, Working
<1>6. job' = [job EXCEPT ![d] = new] /\ conv' = [kept EXCEPT !.by = "message", !.overlooked = job[d].stale]
  BY DEF UpsertConversation
<1>7. /\ kept \in Conversation /\ kept.status # "absent"
      /\ kept.status = "RESOLVED" => conv.status = "RESOLVED" /\ job[d].seen # "RESOLVED"
      /\ kept.status = "IN_PROGRESS" => conv.status = "IN_PROGRESS" /\ kept.started = conv.started
      /\ kept.status # "IN_PROGRESS" /\ kept.started => conv.started /\ conv.status # "IN_PROGRESS"
  <2>1. CASE conv.status = "absent"
    BY <1>4, <2>1 DEF Conversation, ConvStatus
  <2>2. CASE conv.status # "absent" /\ job[d].seen = "RESOLVED"
    BY <1>4, <2>2 DEF Conversation, ConvStatus, Reopened
  <2>3. CASE conv.status # "absent" /\ job[d].seen # "RESOLVED"
    BY <1>4, <2>3 DEF Conversation, ConvStatus, Reopened
  <2>4. QED BY <2>1, <2>2, <2>3
<1> HIDE DEF new, kept
<1>8. /\ conv' \in Conversation /\ conv'.status = kept.status /\ conv'.started = kept.started
      /\ conv'.by = "message" /\ conv'.overlooked = job[d].stale
  BY <1>4, <1>6, <1>7 DEF Conversation
<1>9. /\ job' \in [Deliveries -> Delivery] /\ job'[d] = new
      /\ \A e \in Deliveries \ {d} : job'[e] = job[e]
  BY <1>5, <1>6, InOneMoves DEF InInv
<1>10. UNCHANGED <<channel, owner, thread, unread, erased, told, crossed, missed, handled, desk, inLeft>>
  BY DEF UpsertConversation, msgVars, logVars
<1>11. Grows
  BY <1>7, <1>8, <1>10 DEF Grows, Stored
<1>12. RowFits'
  BY <1>3, <1>7, <1>8, <1>10 DEF InInv, RowFits, MessageReopens, StartMatchesStatus
<1>13. InFit(d)'
  <2>1. Event(d)' = Event(d)
    BY <1>5, <1>9 DEF Event
  <2>2. \A i \in 1..(job[d].at - 1) : EventHandled(d, i)'
    BY <1>2, <1>10 DEF EventHandled, Stored
  <2>3. "store" \in StepsOf["message"]
    BY DEF StepsOf
  <2>4. QED BY <1>2, <1>3, <1>5, <1>9, <1>10, <2>1, <2>2, <2>3 DEF InFit
<1>14. InKeeps(d)
  <2>1. job'[d].pc \in Working /\ job[d].at \in Nat /\ job[d].at <= job'[d].at
    BY <1>5, <1>9, InTypes DEF Working, InInv
  <2>2. QED BY <1>1, <1>5, <1>9, <1>10, <1>13, <2>1, InGoesOn
<1>15. InTypeOK'
  BY <1>8, <1>9, <1>10 DEF InInv, InTypeOK
<1>16. QED BY <1>11, <1>12, <1>14, <1>15 DEF InStepIs

LEMMA InStoredIsSet ==
  ASSUME InInv, NEW m \in Messages, thread' = Append(thread, m)
  PROVE  thread' \in Seq(Messages) /\ Stored' = Stored \union {m}
<1>1. thread \in Seq(Messages) /\ Len(thread) \in Nat
  BY InTypes DEF InInv
<1>2. /\ thread' \in Seq(Messages) /\ Len(thread') = Len(thread) + 1 /\ thread'[Len(thread) + 1] = m
      /\ \A i \in 1..Len(thread) : thread'[i] = thread[i]
  BY <1>1
<1>3. \A i \in 1..Len(thread') : i \in 1..Len(thread) \/ i = Len(thread) + 1
  BY <1>1, <1>2
<1>4. \A i \in 1..Len(thread) : i \in 1..Len(thread')
  BY <1>1, <1>2
<1>5. Len(thread) + 1 \in 1..Len(thread')
  BY <1>1, <1>2
<1>6. Stored' = Stored \union {m}
  BY <1>2, <1>3, <1>4, <1>5 DEF Stored
<1>7. QED BY <1>2, <1>6

LEMMA InStores ==
  ASSUME InInv, NEW d \in Deliveries, StoreMessage(d)
  PROVE  /\ thread' \in Seq(Messages) /\ Stored' = Stored \union {Event(d).id}
         /\ Event(d).id \in Messages /\ Event(d).type = "message"
         /\ UNCHANGED thread \/ thread' = Append(thread, Event(d).id)
<1>1. job[d].pc = "store" /\ job[d].pc \in Working \ {"finish"}
  BY DEF StoreMessage, Working
<1>2. Event(d).type = "message" /\ Event(d).id \in Messages
  BY <1>1, InAt DEF StepsOf, EventTypes
<1>3. CASE Event(d).id \in Stored
  BY <1>2, <1>3, InTypes DEF StoreMessage, Stored, InInv
<1>4. CASE Event(d).id \notin Stored
  BY <1>2, <1>4, InStoredIsSet DEF StoreMessage
<1>5. QED BY <1>2, <1>3, <1>4

LEMMA InStoreKeeps ==
  ASSUME InInv, NEW d \in Deliveries, StoreMessage(d)
  PROVE  InStepIs(d)
<1>1. job[d].pc = "store" /\ job[d].pc \in Working \ {"finish"} /\ "dispatch" \in Working
  BY DEF StoreMessage, Working
<1>2. /\ job[d].at \in 1..Len(Payload[d])
      /\ \A i \in 1..(job[d].at - 1) : EventHandled(d, i)
      /\ job[d].tries > 0 /\ InFit(d)
  BY <1>1, InAt
<1>3. /\ thread' \in Seq(Messages) /\ Stored' = Stored \union {Event(d).id}
      /\ Event(d).id \in Messages /\ Event(d).type = "message" /\ owner
      /\ UNCHANGED thread \/ thread' = Append(thread, Event(d).id)
  BY <1>1, <1>2, InStores DEF InFit
<1>4. /\ UNCHANGED <<channel, owner, conv, missed, handled, desk, inLeft>>
      /\ unread' = unread \union {Event(d).id} /\ erased' = erased
      /\ crossed' \in {crossed \union {Event(d).id}, crossed \ {Event(d).id}} /\ told' = told \ {Event(d).id}
      /\ Moves(d, "dispatch")
  BY DEF StoreMessage, ErasedAfterStore, convVars
<1>5. Grows /\ RowFits'
  BY <1>3, <1>4, SameRow DEF Grows, InInv
<1>6. job'[d].pc = "dispatch" /\ job'[d].at = job[d].at /\ job'[d].tries = job[d].tries
  BY <1>1, <1>4, InMoves
<1>7. InFit(d)'
  <2>1. Event(d)' = Event(d)
    BY <1>6 DEF Event
  <2>2. \A i \in 1..(job[d].at - 1) : EventHandled(d, i)'
    BY <1>2, <1>3, <1>4 DEF EventHandled
  <2>3. "dispatch" \in StepsOf["message"]
    BY DEF StepsOf
  <2>4. QED BY <1>2, <1>3, <1>4, <1>6, <2>1, <2>2, <2>3 DEF InFit
<1>8. /\ owner' \in BOOLEAN /\ conv' \in Conversation /\ unread' \subseteq Messages /\ erased' \subseteq Messages
      /\ told' \subseteq Messages /\ crossed' \subseteq Messages /\ missed' \subseteq Messages
  BY <1>3, <1>4 DEF InInv, InTypeOK
<1>9. job[d].pc \in Working /\ ("dispatch" = "create" => ~owner) /\ UNCHANGED <<channel, desk, inLeft, handled>>
  BY <1>1, <1>4
<1>10. QED BY <1>1, <1>3, <1>4, <1>5, <1>7, <1>8, <1>9, MovesKeep

LEMMA DispatchKeeps ==
  ASSUME InInv, NEW d \in Deliveries, DispatchMessage(d)
  PROVE  /\ InStepIs(d)
         /\ job'[d].at = job[d].at + 1 /\ job'[d].pc \in Working
<1>1. job[d].pc = "dispatch" /\ job[d].pc \in Working \ {"finish"}
  BY DEF DispatchMessage, Working
<1>2. Event(d).type = "message" /\ Event(d).id \in Stored /\ owner /\ Event(d).id \in Messages
      /\ Event(d) = Payload[d][job[d].at]
  BY <1>1, InAt DEF StepsOf, EventTypes, InFit
<1>0. PICK n \in Nat : n = job[d].at
  BY <1>1, InAt
<1>3. UNCHANGED <<channel, owner, conv, thread, unread, erased, told, crossed, missed, desk, inLeft>> /\ Turns(d)
  BY DEF DispatchMessage, convVars, msgVars
<1>4. Grows /\ RowFits'
  BY <1>3, SameRow DEF Grows, Stored, InInv
<1>5. EventHandled(d, n)'
  <2>1. Stored' = Stored
    BY <1>3 DEF Stored
  <2>2. Payload[d][n].type = "message" /\ Payload[d][n].id \in Stored' /\ owner'
    BY <1>2, <1>3, <1>0, <2>1
  <2>3. QED BY <2>2 DEF EventHandled
<1>6. handled' \in [Messages -> Nat]
  <2>1. handled \in [Messages -> Nat] /\ handled[Event(d).id] + 1 \in Nat
    BY <1>2 DEF InInv, InTypeOK
  <2>2. handled' = [handled EXCEPT ![Event(d).id] = handled[Event(d).id] + 1]
    BY DEF DispatchMessage
  <2>3. QED BY <2>1, <2>2
<1>7. InStepIs(d)
  BY <1>1, <1>0, <1>3, <1>4, <1>5, <1>6, TurnsKeep DEF InInv, InTypeOK
<1>8. QED BY <1>1, <1>0, <1>3, <1>4, <1>5, <1>7, InTurns

LEMMA FindUnsentKeeps ==
  ASSUME InInv, NEW d \in Deliveries, FindUnsent(d)
  PROVE  InStepIs(d)
<1>1. job[d].pc = "find" /\ job[d].pc \in Working \ {"finish"} /\ "erase" \in Working
  BY DEF FindUnsent, Working
<1>2. /\ job[d].at \in 1..Len(Payload[d]) /\ Event(d) = Payload[d][job[d].at]
      /\ \A i \in 1..(job[d].at - 1) : EventHandled(d, i)
      /\ job[d].tries > 0 /\ Event(d).type = "unsend" /\ Event(d).id \in Messages
  BY <1>1, InAt DEF StepsOf, EventTypes
<1>3. UNCHANGED <<channel, owner, conv, thread, unread, erased, told, crossed, handled, desk, inLeft>>
      /\ missed' \subseteq Messages /\ missed \subseteq missed'
  BY <1>2 DEF FindUnsent, convVars, msgVars, InInv, InTypeOK
<1>4. Grows /\ RowFits'
  BY <1>3, SameRow DEF Grows, Stored, InInv
<1>5. CASE Event(d).id \in Visible
  <2>1. Moves(d, "erase") /\ UNCHANGED missed
    BY <1>5 DEF FindUnsent
  <2>2. job'[d].pc = "erase" /\ job'[d].at = job[d].at /\ job'[d].tries = job[d].tries
    BY <1>1, <2>1, InMoves
  <2>3. InFit(d)'
    <3>1. Event(d)' = Event(d)
      BY <2>2 DEF Event
    <3>2. \A i \in 1..(job[d].at - 1) : EventHandled(d, i)'
      BY <1>2, <1>3, <2>1 DEF EventHandled, Stored
    <3>3. "erase" \in StepsOf["unsend"]
      BY DEF StepsOf
    <3>4. QED BY <1>2, <2>2, <3>1, <3>2, <3>3 DEF InFit
  <2>4. QED BY <1>1, <1>3, <1>4, <2>1, <2>3, MovesKeep DEF InInv, InTypeOK
<1>6. CASE Event(d).id \notin Visible
  <2>1. Turns(d) /\ missed' = IF Event(d).id \in Stored THEN missed ELSE missed \union {Event(d).id}
    BY <1>6 DEF FindUnsent
  <2>2. Event(d).id \in missed' \union erased'
    BY <1>3, <1>6, <2>1 DEF Visible
  <2>3. PICK n \in Nat : n = job[d].at
    BY <1>1, InAt
  <2>4. Payload[d][n].type = "unsend" /\ Payload[d][n].id \in missed' \union erased'
    BY <1>2, <2>2, <2>3
  <2>5. EventHandled(d, n)'
    BY <2>4 DEF EventHandled
  <2>6. QED BY <1>1, <1>3, <1>4, <2>1, <2>3, <2>5, TurnsKeep DEF InInv, InTypeOK
<1>7. QED BY <1>5, <1>6

LEMMA EraseUnsentKeeps ==
  ASSUME InInv, NEW d \in Deliveries, EraseUnsent(d)
  PROVE  InStepIs(d)
<1>1. job[d].pc = "erase" /\ job[d].pc \in Working \ {"finish"}
  BY DEF EraseUnsent, Working
<1>2. Event(d).type = "unsend" /\ Event(d) = Payload[d][job[d].at] /\ Event(d).id \in Messages
  BY <1>1, InAt DEF StepsOf, EventTypes
<1>3. UNCHANGED <<channel, owner, conv, thread, unread, told, crossed, missed, handled, desk, inLeft>>
      /\ erased' = erased \union {Event(d).id} /\ Turns(d)
  BY DEF EraseUnsent, convVars, logVars
<1>4. Grows /\ RowFits'
  BY <1>3, SameRow DEF Grows, Stored, InInv
<1>5. PICK n \in Nat : n = job[d].at
  BY <1>1, InAt
<1>6. Payload[d][n].type = "unsend" /\ Payload[d][n].id \in missed' \union erased'
  BY <1>2, <1>3, <1>5
<1>7. EventHandled(d, n)'
  BY <1>6 DEF EventHandled
<1>8. QED BY <1>1, <1>2, <1>3, <1>4, <1>5, <1>7, TurnsKeep DEF InInv, InTypeOK

LEMMA FollowKeeps ==
  ASSUME InInv, NEW d \in Deliveries, FollowConversation(d) \/ Unfollow(d)
  PROVE  InStepIs(d)
<1>1. job[d].pc \in {"follow", "unfollow"} /\ job[d].pc \in Working \ {"finish"}
  BY DEF FollowConversation, Unfollow, Working
<1>2. Event(d).type \in {"follow", "unfollow"} /\ Event(d) = Payload[d][job[d].at]
  BY <1>1, InAt DEF StepsOf, EventTypes
<1>3. UNCHANGED <<channel, owner, thread, unread, erased, told, crossed, missed, handled, desk, inLeft>> /\ Turns(d)
      /\ \/ conv' = conv
         \/ conv.status = "absent" /\ conv' = [conv EXCEPT !.status = "OPEN"]
  BY DEF FollowConversation, Unfollow, convVars, msgVars, logVars
<1>4. conv \in Conversation /\ RowFits
  BY InTypes DEF InInv
<1>5. conv' \in Conversation /\ RowFits' /\ (conv'.status = "RESOLVED" => conv.status = "RESOLVED")
  <2>1. CASE conv' = conv
    BY <1>3, <1>4, <2>1, SameRow
  <2>2. CASE conv.status = "absent" /\ conv' = [conv EXCEPT !.status = "OPEN"]
    <3>1. conv' \in Conversation /\ conv'.status = "OPEN" /\ conv'.started = conv.started /\ ~conv.started
      BY <1>4, <2>2 DEF Conversation, ConvStatus, RowFits
    <3>2. QED BY <3>1 DEF RowFits, MessageReopens, StartMatchesStatus
  <2>3. QED BY <1>3, <2>1, <2>2
<1>6. Grows
  BY <1>3, <1>5 DEF Grows, Stored
<1>7. PICK n \in Nat : n = job[d].at
  BY <1>1, InAt
<1>8. EventHandled(d, n)'
  BY <1>2, <1>7 DEF EventHandled
<1>9. QED BY <1>1, <1>3, <1>5, <1>6, <1>7, <1>8, TurnsKeep DEF InInv, InTypeOK

LEMMA FinishKeeps ==
  ASSUME InInv, NEW d \in Deliveries, Finish(d)
  PROVE  InStepIs(d)
<1> DEFINE new == [job[d] EXCEPT !.pc = "done", !.at = 1, !.tries = Attempts]
<1>1. job[d] \in Delivery /\ job[d].pc = "finish" /\ Attempts \in Nat
  BY InTypes DEF InInv, Finish
<1>2. new \in Delivery /\ new.pc = "done" /\ new.tries = Attempts
  <2>1. Attempts \in 0..Attempts /\ "done" \in Waiting \union Over \union Working
    BY <1>1 DEF Over
  <2>2. QED BY <1>1, <2>1 DEF Delivery
<1>3. job' = [job EXCEPT ![d] = new]
  BY DEF Finish
<1> HIDE DEF new
<1>4. /\ job' \in [Deliveries -> Delivery] /\ job'[d] = new
      /\ \A e \in Deliveries \ {d} : job'[e] = job[e]
  BY <1>2, <1>3, InOneMoves DEF InInv
<1>5. UNCHANGED <<channel, owner, conv, thread, unread, erased, told, crossed, missed, handled, desk, inLeft>>
  BY DEF Finish, convVars, msgVars, logVars
<1>6. Grows /\ RowFits'
  BY <1>5, SameRow DEF Grows, Stored, InInv
<1>7. InFit(d)'
  <2>1. InFit(d) /\ Len(Payload[d]) \in Nat
    BY InTypes DEF InInv
  <2>2. job[d].at = Len(Payload[d]) + 1 /\ \A i \in 1..(job[d].at - 1) : EventHandled(d, i)
    BY <1>1, <2>1 DEF InFit, Working
  <2>3. \A i \in 1..Len(Payload[d]) : EventHandled(d, i)
    BY <2>1, <2>2
  <2>4. \A i \in 1..Len(Payload[d]) : EventHandled(d, i)'
    BY <1>5, <2>3 DEF EventHandled, Stored
  <2>5. QED BY <1>2, <1>4, <2>4 DEF InFit, Working, Waiting
<1>8. Persists(d)'
  <2>1. InUsed("faults") \in Nat
    BY InTypes DEF InUsed, InInv, InBudget, InEvents
  <2>2. InUsed("faults")' = InUsed("faults") /\ Clash(d)' \in Nat
    BY <1>5 DEF InUsed, Clash
  <2>3. QED BY <1>1, <1>2, <1>4, <2>1, <2>2 DEF Persists
<1>9. \A m \in Messages : ~IsDue(d, m)'
  BY <1>2, <1>4 DEF IsDue, Waiting, Working
<1>10. QED BY <1>4, <1>5, <1>6, <1>7, <1>8, <1>9 DEF InStepIs, InKeeps, InInv, InTypeOK

LEMMA InStepsKeep ==
  ASSUME InInv, NEW d \in Deliveries, Receive(d) \/ Step(d)
  PROVE  InStepIs(d)
<1>1. CASE Receive(d) \/ Open(d)
  BY <1>1, ReceiveKeeps, OpenKeeps
<1>2. CASE FindCustomer(d) \/ CreateCustomer(d)
  BY <1>2, FindCustomerKeeps, CreateCustomerKeeps
<1>3. CASE LookUp(d) \/ UpsertConversation(d)
  BY <1>3, InLookUpKeeps, UpsertKeeps
<1>4. CASE StoreMessage(d) \/ DispatchMessage(d)
  BY <1>4, InStoreKeeps, DispatchKeeps
<1>5. CASE FindUnsent(d) \/ EraseUnsent(d)
  BY <1>5, FindUnsentKeeps, EraseUnsentKeeps
<1>6. CASE FollowConversation(d) \/ Unfollow(d)
  BY <1>6, FollowKeeps
<1>7. CASE Finish(d)
  BY <1>7, FinishKeeps
<1>8. QED BY <1>1, <1>2, <1>3, <1>4, <1>5, <1>6, <1>7 DEF Step

LEMMA RowOnBudget ==
  ASSUME RowFits, UNCHANGED conv, inLeft'["escalations"] = inLeft["escalations"]
  PROVE  RowFits'
  BY DEF RowFits, MessageReopens, StartMatchesStatus

\* A step that throws, and a worker that dies, cost the delivery no more than an attempt.
LEMMA FailuresKeep ==
  ASSUME InInv, NEW d \in Deliveries, StepFails(d) \/ WorkerDies(d)
  PROVE  /\ InTypeOK' /\ InBudget' /\ Grows /\ RowFits' /\ InFit(d)'
         /\ \A e \in Deliveries \ {d} : job'[e] = job[e]
         /\ Persists(d) => Persists(d)'
         /\ inLeft'["faults"] + inLeft'["crashes"] = inLeft["faults"] + inLeft["crashes"] - 1
         /\ inLeft'["faults"] <= inLeft["faults"]
         /\ UNCHANGED <<channel, owner, conv, thread, unread, erased, desk, told, crossed, missed, handled>>
         /\ inLeft'["switches"] = inLeft["switches"] /\ job[d].pc \in Working
<1>1. job[d].pc \in Working
      /\ UNCHANGED <<channel, owner, conv, thread, unread, erased, desk, told, crossed, missed, handled>>
  BY DEF StepFails, WorkerDies, convVars, msgVars, logVars
<1>2. /\ job[d] \in Delivery /\ job[d].tries \in 0..Attempts /\ job[d].tries > 0 /\ Attempts \in Nat /\ owner \in BOOLEAN
      /\ \A e \in InEvents : inLeft[e] \in Nat /\ InBounds[e] \in Nat
  BY <1>1, InTypes DEF InInv, InFit
<1>3. /\ inLeft' \in [InEvents -> Nat] /\ InBudget'
      /\ inLeft'["escalations"] = inLeft["escalations"] /\ inLeft'["switches"] = inLeft["switches"]
      /\ \/ StepFails(d) /\ inLeft'["faults"] = inLeft["faults"] - 1 /\ inLeft'["crashes"] = inLeft["crashes"]
         \/ WorkerDies(d) /\ inLeft'["faults"] = inLeft["faults"] /\ inLeft'["crashes"] = inLeft["crashes"] - 1
  <2>1. CASE StepFails(d)
    <3>1. Spends("faults") /\ "faults" \in InEvents \ {"all"}
      BY <2>1 DEF StepFails, InEvents
    <3>2. /\ inLeft' \in [InEvents -> Nat] /\ InBudget' /\ inLeft'["faults"] = inLeft["faults"] - 1
          /\ \A k \in InEvents \ {"faults", "all"} : inLeft'[k] = inLeft[k]
      BY <3>1, InSpends DEF InInv
    <3>3. {"crashes", "escalations", "switches"} \subseteq InEvents \ {"faults", "all"}
      BY DEF InEvents
    <3>4. QED BY <2>1, <3>2, <3>3
  <2>2. CASE WorkerDies(d)
    <3>1. Spends("crashes") /\ "crashes" \in InEvents \ {"all"}
      BY <2>2 DEF WorkerDies, InEvents
    <3>2. /\ inLeft' \in [InEvents -> Nat] /\ InBudget' /\ inLeft'["crashes"] = inLeft["crashes"] - 1
          /\ \A k \in InEvents \ {"crashes", "all"} : inLeft'[k] = inLeft[k]
      BY <3>1, InSpends DEF InInv
    <3>3. {"faults", "escalations", "switches"} \subseteq InEvents \ {"crashes", "all"}
      BY DEF InEvents
    <3>4. QED BY <2>2, <3>2, <3>3
  <2>3. QED BY <2>1, <2>2
<1>4. Grows /\ RowFits'
  BY <1>1, <1>3, RowOnBudget DEF Grows, Stored, InInv
<1>5. "faults" \in InEvents /\ "crashes" \in InEvents
  BY DEF InEvents
<1>6. Clash(d) \in {0, 1} /\ Clash(d)' \in {0, 1}
  BY DEF Clash
<1>7. CASE StepFails(d)
  <2>2. /\ job' \in [Deliveries -> Delivery]
        /\ \A e \in Deliveries \ {d} : job'[e] = job[e]
        /\ job'[d].pc \in {"queued", "lost"} /\ job'[d].tries = job[d].tries - 1
        /\ InFit(d)'
    BY <1>1, <1>7, InThrows DEF StepFails
  <2>3. inLeft'["faults"] = inLeft["faults"] - 1 /\ inLeft'["crashes"] = inLeft["crashes"]
    <3>1. Spends("faults") /\ "faults" \in InEvents \ {"all"} /\ "crashes" \in InEvents \ {"faults", "all"}
      BY <1>7 DEF StepFails, InEvents
    <3>2. QED BY <3>1, InSpends DEF InInv
  <2>4. Clash(d) <= Clash(d)'
    BY <1>1, <2>2 DEF Clash
  <2>5. Persists(d) => Persists(d)'
    BY <1>2, <1>5, <1>6, <2>2, <2>3, <2>4 DEF Persists, InUsed
  <2>6. InTypeOK'
    BY <1>1, <1>3, <2>2 DEF InInv, InTypeOK
  <2>7. QED BY <1>1, <1>2, <1>3, <1>4, <1>5, <2>2, <2>3, <2>5, <2>6
<1>8. CASE WorkerDies(d)
  <2> DEFINE new == [Fresh EXCEPT !.tries = job[d].tries]
  <2>1. new \in Delivery /\ new.pc = "queued" /\ new.tries = job[d].tries
    BY <1>2 DEF Fresh, Delivery, Waiting, ConvStatus
  <2>2. job' = [job EXCEPT ![d] = new]
    BY <1>8 DEF WorkerDies
  <2> HIDE DEF new
  <2>3. /\ job' \in [Deliveries -> Delivery] /\ job'[d] = new
        /\ \A e \in Deliveries \ {d} : job'[e] = job[e]
    BY <2>1, <2>2, InOneMoves DEF InInv
  <2>4. InFit(d)'
    BY <1>2, <2>1, <2>3 DEF InFit, Working, Waiting
  <2>5. inLeft'["faults"] = inLeft["faults"] /\ inLeft'["crashes"] = inLeft["crashes"] - 1
    <3>1. Spends("crashes") /\ "crashes" \in InEvents \ {"all"} /\ "faults" \in InEvents \ {"crashes", "all"}
      BY <1>8 DEF WorkerDies, InEvents
    <3>2. QED BY <3>1, InSpends DEF InInv
  <2>6. Clash(d) <= Clash(d)'
    BY <1>1, <2>1, <2>3 DEF Clash
  <2>7. Persists(d) => Persists(d)'
    BY <1>2, <1>5, <1>6, <2>1, <2>3, <2>5, <2>6 DEF Persists, InUsed
  <2>8. InTypeOK'
    BY <1>1, <1>3, <2>3 DEF InInv, InTypeOK
  <2>9. QED BY <1>1, <1>2, <1>3, <1>4, <1>5, <2>3, <2>4, <2>5, <2>7, <2>8
<1>9. QED BY <1>7, <1>8

LEMMA OvertakenFits ==
  ASSUME InInv, job' = Overtaken, UNCHANGED <<owner, thread, erased, missed>>
  PROVE  /\ job' \in [Deliveries -> Delivery]
         /\ \A d \in Deliveries : /\ job'[d].pc = job[d].pc /\ job'[d].at = job[d].at
                                  /\ job'[d].tries = job[d].tries /\ InFit(d)'
<1>1. ASSUME NEW d \in Deliveries
      PROVE  /\ job'[d] \in Delivery /\ job'[d].pc = job[d].pc /\ job'[d].at = job[d].at
             /\ job'[d].tries = job[d].tries /\ (job[d].pc = "upsert" => job'[d].stale)
  <2>1. job[d] \in Delivery
    BY InTypes DEF InInv
  <2>2. PICK s \in BOOLEAN : s = (job[d].stale \/ job[d].pc = "upsert")
    OBVIOUS
  <2>3. job'[d] = [job[d] EXCEPT !.stale = s]
    BY <2>2 DEF Overtaken
  <2>4. QED BY <2>1, <2>2, <2>3 DEF Delivery
<1>2. ASSUME NEW d \in Deliveries PROVE InFit(d)'
  <2>1. InFit(d) /\ job'[d].pc = job[d].pc /\ job'[d].at = job[d].at /\ job'[d].tries = job[d].tries
        /\ (job[d].pc = "upsert" => job'[d].stale)
    BY <1>1 DEF InInv
  <2>2. Event(d)' = Event(d)
    BY <2>1 DEF Event
  <2>3. \A i : EventHandled(d, i)' = EventHandled(d, i)
    BY DEF EventHandled, Stored
  <2>4. Stored' = Stored
    BY DEF Stored
  <2>5. QED BY <2>1, <2>2, <2>3, <2>4 DEF InFit
<1>3. job' = [d \in Deliveries |-> job'[d]]
  BY DEF Overtaken
<1>4. QED BY <1>1, <1>2, <1>3

DeskSteps ==
  \/ \E a \in Agents :
       \/ \E s \in ConvStatus : BeginStatus(a, s)
       \/ WriteStatus(a) \/ BeginMark(a) \/ TellLine(a) \/ ClearTokens(a)
  \/ ForgetMiss \/ SwitchChannel \/ EscalateConversation \/ UNCHANGED inVars

\* What the agents do leaves the deliveries where they are.
DeskLeaves ==
  /\ \A d \in Deliveries : /\ job'[d].pc = job[d].pc /\ job'[d].at = job[d].at
                           /\ job'[d].tries = job[d].tries /\ InFit(d)'
  /\ InTypeOK' /\ InBudget' /\ RowFits' /\ MarksFit'
  /\ UNCHANGED <<owner, thread, erased, missed, handled>>
  /\ inLeft'["faults"] = inLeft["faults"] /\ inLeft'["crashes"] = inLeft["crashes"]

LEMMA SittingFits ==
  ASSUME InTypeOK, NEW a \in Agents, NEW new \in Desk, Sits(a, new)
  PROVE  /\ desk' \in [Agents -> Desk] /\ desk'[a] = new
         /\ \A b \in Agents \ {a} : desk'[b] = desk[b]
  BY DEF InTypeOK, Sits

LEMMA RestIsDesk == AtRest \in Desk /\ AtRest.pc = "idle"
  BY DEF AtRest, Desk, ConvStatus

LEMMA JobsLeft ==
  ASSUME InInv, UNCHANGED <<job, conv, owner, thread, erased, missed>>
  PROVE  \A d \in Deliveries : /\ job'[d].pc = job[d].pc /\ job'[d].at = job[d].at
                               /\ job'[d].tries = job[d].tries /\ InFit(d)'
<1>1. Grows
  BY DEF Grows, Stored
<1>2. \A d \in Deliveries : job'[d] = job[d]
  OBVIOUS
<1>3. QED BY <1>1, <1>2, InOthersFit

LEMMA SpendingLeaves ==
  ASSUME InInv, NEW e \in {"switches", "status", "marks", "escalations"}, Spends(e)
  PROVE  /\ inLeft' \in [InEvents -> Nat] /\ InBudget' /\ inLeft[e] > 0 /\ inLeft'[e] = inLeft[e] - 1
         /\ inLeft'["faults"] = inLeft["faults"] /\ inLeft'["crashes"] = inLeft["crashes"]
         /\ \A k \in {"switches", "status", "marks", "escalations"} \ {e} : inLeft'[k] = inLeft[k]
<1>1. e \in InEvents \ {"all"} /\ \A k \in {"switches", "status", "marks", "escalations", "faults", "crashes"} :
                                     k # e => k \in InEvents \ {e, "all"}
  BY DEF InEvents
<1>2. /\ inLeft' \in [InEvents -> Nat] /\ InBudget' /\ inLeft[e] > 0 /\ inLeft'[e] = inLeft[e] - 1
      /\ \A k \in InEvents \ {e, "all"} : inLeft'[k] = inLeft[k]
  BY <1>1, InSpends DEF InInv
<1>3. "faults" # e /\ "crashes" # e
  OBVIOUS
<1>4. QED BY <1>1, <1>2, <1>3

LEMMA DeskStepsLeave ==
  ASSUME InInv, DeskSteps
  PROVE  DeskLeaves
<1>1. ASSUME NEW a \in Agents, NEW s \in ConvStatus, BeginStatus(a, s) PROVE DeskLeaves
  <2>1. [pc |-> "write", to |-> s, upto |-> 0] \in Desk
    BY DEF Desk
  <2>2. desk' \in [Agents -> Desk]
    BY <1>1, <2>1, SittingFits DEF BeginStatus, InInv
  <2>3. /\ inLeft' \in [InEvents -> Nat] /\ InBudget' /\ inLeft'["escalations"] = inLeft["escalations"]
        /\ inLeft'["faults"] = inLeft["faults"] /\ inLeft'["crashes"] = inLeft["crashes"]
    BY <1>1, SpendingLeaves DEF BeginStatus
  <2>4. UNCHANGED <<channel, owner, conv, thread, unread, erased, job, told, crossed, missed, handled>>
    BY <1>1 DEF BeginStatus, convVars, msgVars, logVars
  <2>5. RowFits'
    BY <2>3, <2>4, RowOnBudget DEF InInv
  <2>6. InTypeOK'
    BY <2>2, <2>3, <2>4 DEF InInv, InTypeOK
  <2>7. MarksFit'
    BY <1>1, <2>1, <2>4, SittingFits DEF BeginStatus, InInv, MarksFit
  <2>8. QED BY <2>3, <2>4, <2>5, <2>6, <2>7, JobsLeft DEF DeskLeaves
<1>2. ASSUME NEW a \in Agents, WriteStatus(a) PROVE DeskLeaves
  <2>1. UNCHANGED <<channel, owner, thread, unread, erased, told, crossed, missed, handled, inLeft>> /\ job' = Overtaken
    BY <1>2 DEF WriteStatus, msgVars, logVars
  <2>2. desk' \in [Agents -> Desk]
    BY <1>2, RestIsDesk, SittingFits DEF WriteStatus, Rises, InInv
  <2>3. desk[a].to \in ConvStatus
    BY DEF InInv, InTypeOK, Desk
  <2>4. /\ conv' \in Conversation /\ conv'.status \in ConvStatus /\ conv'.started = (conv'.status = "IN_PROGRESS")
        /\ conv'.by = "desk"
    BY <1>2, <2>3 DEF WriteStatus, Conversation, Started
  <2>5. RowFits'
    BY <2>4 DEF RowFits, MessageReopens, StartMatchesStatus, ConvStatus
  <2>6. /\ job' \in [Deliveries -> Delivery]
        /\ \A d \in Deliveries : /\ job'[d].pc = job[d].pc /\ job'[d].at = job[d].at
                                 /\ job'[d].tries = job[d].tries /\ InFit(d)'
    BY <2>1, OvertakenFits
  <2>7. InTypeOK' /\ InBudget'
    BY <2>1, <2>2, <2>4, <2>6 DEF InInv, InTypeOK, InBudget
  <2>8. MarksFit'
    BY <1>2, <2>1, RestIsDesk, SittingFits DEF WriteStatus, Rises, InInv, MarksFit
  <2>9. QED BY <2>1, <2>5, <2>6, <2>7, <2>8 DEF DeskLeaves
<1>3. ASSUME NEW a \in Agents, BeginMark(a) PROVE DeskLeaves
  <2>1. PICK i \in 1..Len(thread) : Sits(a, [pc |-> "tell", to |-> "OPEN", upto |-> i])
    BY <1>3 DEF BeginMark
  <2>2. Len(thread) \in Nat
    BY InTypes DEF InInv
  <2>3. [pc |-> "tell", to |-> "OPEN", upto |-> i] \in Desk
    BY <2>2 DEF Desk, ConvStatus
  <2>4. desk' \in [Agents -> Desk]
    BY <2>1, <2>3, SittingFits DEF InInv
  <2>5. /\ inLeft' \in [InEvents -> Nat] /\ InBudget' /\ inLeft'["escalations"] = inLeft["escalations"]
        /\ inLeft'["faults"] = inLeft["faults"] /\ inLeft'["crashes"] = inLeft["crashes"]
    BY <1>3, SpendingLeaves DEF BeginMark
  <2>6. UNCHANGED <<channel, owner, conv, thread, unread, erased, job, told, crossed, missed, handled>>
    BY <1>3 DEF BeginMark, convVars, msgVars, logVars
  <2>7. RowFits'
    BY <2>5, <2>6, RowOnBudget DEF InInv
  <2>8. InTypeOK'
    BY <2>4, <2>5, <2>6 DEF InInv, InTypeOK
  <2>9. MarksFit'
    BY <2>1, <2>3, <2>6, SittingFits DEF InInv, MarksFit
  <2>10. QED BY <2>5, <2>6, <2>7, <2>8, <2>9, JobsLeft DEF DeskLeaves
<1>4. ASSUME NEW a \in Agents, TellLine(a) \/ ClearTokens(a) PROVE DeskLeaves
  <2>1. UNCHANGED <<channel, owner, conv, thread, erased, job, crossed, missed, handled, inLeft>>
    BY <1>4 DEF TellLine, ClearTokens, convVars, msgVars, logVars
  <2>2. desk' \in [Agents -> Desk]
    <3>1. desk[a] \in Desk
      BY DEF InInv, InTypeOK
    <3>2. [desk[a] EXCEPT !.pc = "clear"] \in Desk
      BY <3>1 DEF Desk
    <3>3. CASE desk' = [desk EXCEPT ![a].pc = "clear"]
      BY <3>2, <3>3 DEF InInv, InTypeOK
    <3>4. CASE Rises(a)
      BY <3>4, RestIsDesk, SittingFits DEF Rises, InInv
    <3>5. QED BY <1>4, <3>3, <3>4 DEF TellLine, ClearTokens
  <2>3. unread' \subseteq Messages /\ told' \subseteq Messages
    <3>1. desk[a].pc = "tell" => \A i \in 1..desk[a].upto : i \in 1..Len(thread) /\ thread[i] \in Messages
      BY InTypes DEF InInv, MarksFit
    <3>2. CASE ClearTokens(a)
      BY <3>2 DEF ClearTokens, InInv, InTypeOK, logVars
    <3>3. CASE TellLine(a)
      BY <3>3, <3>1 DEF TellLine, InInv, InTypeOK, msgVars
    <3>4. QED BY <1>4, <3>2, <3>3
  <2>4. RowFits'
    BY <2>1, SameRow DEF InInv
  <2>5. InTypeOK' /\ InBudget'
    BY <2>1, <2>2, <2>3 DEF InInv, InTypeOK, InBudget
  <2>6. MarksFit'
    <3>1. \A b \in Agents : desk'[b].pc = "tell" => desk'[b] = desk[b]
      <4>1. CASE Rises(a)
        BY <4>1, RestIsDesk, SittingFits DEF Rises, InInv
      <4>2. CASE desk' = [desk EXCEPT ![a].pc = "clear"]
        BY <4>2 DEF InInv, InTypeOK, Desk
      <4>3. QED BY <1>4, <4>1, <4>2 DEF TellLine, ClearTokens
    <3>2. QED BY <2>1, <3>1 DEF InInv, MarksFit
  <2>7. QED BY <2>1, <2>4, <2>5, <2>6, JobsLeft DEF DeskLeaves
<1>5. ASSUME ForgetMiss \/ UNCHANGED inVars PROVE DeskLeaves
  <2>1. UNCHANGED <<owner, conv, thread, unread, erased, job, desk, told, crossed, missed, handled, inLeft>>
        /\ channel' \in [on : BOOLEAN, miss : BOOLEAN]
    BY <1>5 DEF ForgetMiss, inVars, convVars, msgVars, logVars, InInv, InTypeOK
  <2>2. RowFits' /\ InTypeOK' /\ InBudget' /\ MarksFit'
    BY <2>1, SameRow DEF InInv, InTypeOK, InBudget, MarksFit
  <2>3. QED BY <2>1, <2>2, JobsLeft DEF DeskLeaves
<1>6. ASSUME SwitchChannel PROVE DeskLeaves
  <2>1. UNCHANGED <<owner, conv, thread, unread, erased, job, desk, told, crossed, missed, handled>>
        /\ channel' \in [on : BOOLEAN, miss : BOOLEAN]
    BY <1>6 DEF SwitchChannel, convVars, msgVars, logVars, InInv, InTypeOK
  <2>2. /\ inLeft' \in [InEvents -> Nat] /\ InBudget' /\ inLeft'["escalations"] = inLeft["escalations"]
        /\ inLeft'["faults"] = inLeft["faults"] /\ inLeft'["crashes"] = inLeft["crashes"]
    BY <1>6, SpendingLeaves DEF SwitchChannel
  <2>3. RowFits' /\ InTypeOK' /\ MarksFit'
    BY <2>1, <2>2, RowOnBudget DEF InInv, InTypeOK, MarksFit
  <2>4. QED BY <2>1, <2>2, <2>3, JobsLeft DEF DeskLeaves
<1>7. ASSUME EscalateConversation PROVE DeskLeaves
  <2>1. UNCHANGED <<channel, owner, thread, unread, erased, desk, told, crossed, missed, handled>> /\ job' = Overtaken
    BY <1>7 DEF EscalateConversation, msgVars, logVars
  <2>2. /\ inLeft' \in [InEvents -> Nat] /\ InBudget' /\ inLeft["escalations"] > 0
        /\ inLeft'["escalations"] = inLeft["escalations"] - 1
        /\ inLeft'["faults"] = inLeft["faults"] /\ inLeft'["crashes"] = inLeft["crashes"]
    BY <1>7, SpendingLeaves DEF EscalateConversation
  <2>3. conv \in Conversation
    BY InTypes DEF InInv
  <2>4. conv' \in Conversation /\ conv'.status = "OPEN" /\ conv'.by = "escalation"
    BY <1>7, <2>3 DEF EscalateConversation, Conversation, ConvStatus
  <2>5. inLeft'["escalations"] < InBounds["escalations"]
    <3>1. "escalations" \in InEvents
      BY DEF InEvents
    <3>2. /\ inLeft["escalations"] \in Nat /\ InBounds["escalations"] \in Nat
          /\ inLeft["escalations"] <= InBounds["escalations"]
      BY <3>1, InTypes DEF InInv, InBudget
    <3>3. QED BY <2>2, <3>2
  <2>6. RowFits'
    BY <2>4, <2>5 DEF RowFits, MessageReopens, StartMatchesStatus
  <2>7. /\ job' \in [Deliveries -> Delivery]
        /\ \A d \in Deliveries : /\ job'[d].pc = job[d].pc /\ job'[d].at = job[d].at
                                 /\ job'[d].tries = job[d].tries /\ InFit(d)'
    BY <2>1, OvertakenFits
  <2>8. InTypeOK' /\ MarksFit'
    BY <2>1, <2>2, <2>4, <2>7 DEF InInv, InTypeOK, MarksFit
  <2>9. QED BY <2>1, <2>2, <2>6, <2>7, <2>8 DEF DeskLeaves
<1>8. QED BY <1>1, <1>2, <1>3, <1>4, <1>5, <1>6, <1>7 DEF DeskSteps

\* Every step of the thread keeps the invariant.
LEMMA InboundStepKeeps ==
  ASSUME InInv, [InNext]_inVars
  PROVE  InInv'
<1>1. ASSUME NEW d \in Deliveries, Grows, MarksFit',
             \A e \in Deliveries \ {d} : job'[e] = job[e], InFit(d)'
      PROVE  \A e \in Deliveries : InFit(e)'
  <2>1. ASSUME NEW e \in Deliveries \ {d} PROVE InFit(e)'
    BY <1>1, <2>1, InOthersFit
  <2>2. QED BY <1>1, <2>1
<1>2. ASSUME Grows, UNCHANGED desk PROVE MarksFit'
  <2>1. thread \in Seq(Messages) /\ Len(thread) \in Nat
    BY InTypes DEF InInv
  <2>2. \A i \in 1..Len(thread) : i \in 1..Len(thread')
    BY <1>2, <2>1 DEF Grows
  <2>3. QED BY <1>2, <2>2 DEF InInv, MarksFit
<1>3. ASSUME NEW d \in Deliveries, Receive(d) \/ Step(d) PROVE InInv'
  <2>1. InTypeOK' /\ InKeeps(d) /\ Grows /\ RowFits'
    BY <1>3, InStepsKeep DEF InStepIs
  <2>2. UNCHANGED <<desk, inLeft>>
    BY <1>3 DEF Receive, Step, Open, FindCustomer, CreateCustomer, LookUp, UpsertConversation, StoreMessage,
                DispatchMessage, FindUnsent, EraseUnsent, FollowConversation, Unfollow, Finish
  <2>3. MarksFit' /\ InBudget'
    BY <1>2, <2>1, <2>2 DEF InInv, InBudget
  <2>4. \A e \in Deliveries : InFit(e)'
    BY <1>1, <2>1, <2>3 DEF InKeeps
  <2>5. QED BY <2>1, <2>3, <2>4 DEF InInv
<1>4. ASSUME NEW d \in Deliveries, StepFails(d) \/ WorkerDies(d) PROVE InInv'
  <2>1. /\ InTypeOK' /\ InBudget' /\ Grows /\ RowFits' /\ InFit(d)' /\ UNCHANGED desk
        /\ \A e \in Deliveries \ {d} : job'[e] = job[e]
    BY <1>4, FailuresKeep
  <2>2. MarksFit'
    BY <1>2, <2>1
  <2>3. \A e \in Deliveries : InFit(e)'
    BY <1>1, <2>1, <2>2
  <2>4. QED BY <2>1, <2>2, <2>3 DEF InInv
<1>5. CASE DeskSteps
  BY <1>5, DeskStepsLeave DEF DeskLeaves, InInv
<1>6. QED BY <1>3, <1>4, <1>5 DEF InNext, DeskSteps

-----------------------------------------------------------------------------
(* Inbound: what an agent's mark makes read, LINE has been told.              *)

ToldUpTo(a) == told \union crossed \union {thread[i] : i \in 1..desk[a].upto}
ToldInv ==
  /\ ReadWasTold
  /\ \A a \in Agents : /\ desk[a].pc = "tell" => Visible \subseteq ToldUpTo(a)
                       /\ desk[a].pc = "clear" => Visible \subseteq told \union crossed

LEMMA ToldInitially == InInit => ToldInv
  BY DEF InInit, ToldInv, ReadWasTold, Visible, Stored, AtRest

LEMMA ToldLeft ==
  ASSUME ToldInv, UNCHANGED <<thread, unread, told, crossed, desk>>, erased \subseteq erased'
  PROVE  ToldInv'
<1>1. Stored' = Stored /\ Visible' \subseteq Visible
  BY DEF Visible, Stored
<1>2. \A a \in Agents : ToldUpTo(a)' = ToldUpTo(a)
  BY DEF ToldUpTo
<1>3. ReadWasTold'
  BY <1>1 DEF ToldInv, ReadWasTold
<1>4. QED BY <1>1, <1>2, <1>3 DEF ToldInv

LEMMA StoreTells ==
  ASSUME InInv, ToldInv, NEW d \in Deliveries, StoreMessage(d)
  PROVE  ToldInv'
<1>0. PICK m : m = Event(d).id
  OBVIOUS
<1>1. /\ Stored' = Stored \union {m} /\ m \in Messages
      /\ (UNCHANGED thread \/ thread' = Append(thread, m))
      /\ unread' = unread \union {m} /\ erased' = erased /\ told' = told \ {m} /\ UNCHANGED desk
      /\ crossed' = IF \E a \in Agents : desk[a].pc \in {"tell", "clear"} THEN crossed \union {m} ELSE crossed \ {m}
  BY <1>0, InStores DEF StoreMessage, ErasedAfterStore
<1>2. Visible' \subseteq Visible \union {m}
  BY <1>1 DEF Visible
<1>3. (told \union crossed) \ {m} \subseteq told' \union crossed'
  BY <1>1
<1>4. ReadWasTold'
  BY <1>1, <1>2, <1>3 DEF ToldInv, ReadWasTold
<1>5. ASSUME NEW a \in Agents, desk'[a].pc \in {"tell", "clear"}
      PROVE  /\ desk'[a].pc = "tell" => Visible' \subseteq ToldUpTo(a)'
             /\ desk'[a].pc = "clear" => Visible' \subseteq told' \union crossed'
  <2>1. desk'[a] = desk[a] /\ crossed' = crossed \union {m}
    BY <1>1, <1>5
  <2>2. told \union crossed \subseteq told' \union crossed'
    BY <1>1, <2>1
  <2>3. CASE desk[a].pc = "clear"
    BY <1>2, <2>1, <2>2, <2>3 DEF ToldInv
  <2>4. CASE desk[a].pc = "tell"
    <3>1. thread \in Seq(Messages) /\ Len(thread) \in Nat /\ desk[a].upto \in 1..Len(thread)
      BY <2>4, InTypes DEF InInv, MarksFit
    <3>2. \A i \in 1..desk[a].upto : thread'[i] = thread[i]
      BY <1>1, <3>1
    <3>3. {thread[i] : i \in 1..desk[a].upto} \subseteq {thread'[i] : i \in 1..desk'[a].upto}
      BY <2>1, <3>2
    <3>4. ToldUpTo(a) \union {m} \subseteq ToldUpTo(a)'
      BY <2>1, <2>2, <3>3 DEF ToldUpTo
    <3>5. QED BY <1>2, <2>1, <2>4, <3>4 DEF ToldInv
  <2>5. QED BY <1>5, <2>1, <2>3, <2>4
<1>6. QED BY <1>4, <1>5 DEF ToldInv

LEMMA MarkTells ==
  ASSUME InInv, ToldInv, NEW a \in Agents, BeginMark(a)
  PROVE  ToldInv'
<1>1. PICK i \in 1..Len(thread) :
        /\ \A k \in (i + 1)..Len(thread) : thread[k] \notin Unseen
        /\ Sits(a, [pc |-> "tell", to |-> "OPEN", upto |-> i])
  BY DEF BeginMark
<1> DEFINE new == [pc |-> "tell", to |-> "OPEN", upto |-> i]
<1>2. Len(thread) \in Nat
  BY InTypes DEF InInv
<1>3. new \in Desk /\ new.pc = "tell" /\ new.upto = i
  BY <1>2 DEF Desk, ConvStatus
<1>4. Sits(a, new)
  BY <1>1
<1> HIDE DEF new
<1>5. desk'[a] = new /\ \A b \in Agents \ {a} : desk'[b] = desk[b]
  BY <1>3, <1>4, SittingFits DEF InInv
<1>6. UNCHANGED <<thread, unread, erased, told, crossed>>
  BY DEF BeginMark, msgVars, logVars
<1>7. Stored' = Stored /\ Visible' = Visible
  BY <1>6 DEF Visible, Stored
<1>8. Visible \subseteq ToldUpTo(a)'
  <2>1. SUFFICES ASSUME NEW m \in Visible, m \notin told \union crossed
                 PROVE  m \in {thread[k] : k \in 1..i}
    BY <1>3, <1>5, <1>6 DEF ToldUpTo
  <2>2. m \in Unseen
    BY <2>1 DEF ToldInv, ReadWasTold, Unseen
  <2>3. PICK k \in 1..Len(thread) : m = thread[k]
    BY DEF Visible, Stored
  <2>4. k \notin (i + 1)..Len(thread)
    BY <1>1, <2>2, <2>3
  <2>5. k \in 1..i
    BY <1>1, <1>2, <2>3, <2>4
  <2>6. QED BY <2>3, <2>5
<1>9. ReadWasTold'
  BY <1>6, <1>7 DEF ToldInv, ReadWasTold
<1>10. \A b \in Agents \ {a} : ToldUpTo(b)' = ToldUpTo(b)
  BY <1>5, <1>6 DEF ToldUpTo
<1>11. QED BY <1>3, <1>5, <1>6, <1>7, <1>8, <1>9, <1>10 DEF ToldInv

LEMMA TellingTells ==
  ASSUME InInv, ToldInv, NEW a \in Agents,
         TellLine(a) \/ ClearTokens(a) \/ WriteStatus(a) \/ \E s \in ConvStatus : BeginStatus(a, s)
  PROVE  ToldInv'
<1>1. UNCHANGED <<thread, erased, crossed>> /\ told \subseteq told'
  BY DEF TellLine, ClearTokens, WriteStatus, BeginStatus, msgVars, logVars
<1>2. Stored' = Stored /\ Visible' = Visible
  BY <1>1 DEF Visible, Stored
<1>3. ReadWasTold'
  <2>1. CASE ClearTokens(a)
    <3>1. Visible \subseteq told \union crossed
      BY <2>1 DEF ToldInv, ClearTokens
    <3>2. QED BY <1>1, <1>2, <3>1 DEF ReadWasTold
  <2>2. CASE unread' = unread
    BY <1>1, <1>2, <2>2 DEF ToldInv, ReadWasTold
  <2>3. QED BY <2>1, <2>2 DEF TellLine, WriteStatus, BeginStatus, msgVars
<1>4. /\ \A b \in Agents \ {a} : desk'[b] = desk[b]
      /\ desk'[a].pc # "tell"
      /\ desk'[a].pc = "clear" => desk[a].pc = "tell" /\ told' = told \union {thread[i] : i \in 1..desk[a].upto}
  <2>1. CASE Rises(a)
    BY <2>1, RestIsDesk, SittingFits DEF Rises, InInv
  <2>2. CASE TellLine(a) /\ ~Rises(a)
    <3>1. desk' = [desk EXCEPT ![a].pc = "clear"] /\ told' = told \union {thread[i] : i \in 1..desk[a].upto}
          /\ desk[a].pc = "tell"
      BY <2>2 DEF TellLine
    <3>2. QED BY <3>1 DEF InInv, InTypeOK, Desk
  <2>3. ASSUME NEW s \in ConvStatus, BeginStatus(a, s)
        PROVE  (\A b \in Agents \ {a} : desk'[b] = desk[b]) /\ desk'[a].pc = "write"
    <3>1. [pc |-> "write", to |-> s, upto |-> 0] \in Desk
      BY DEF Desk
    <3>2. QED BY <2>3, <3>1, SittingFits DEF BeginStatus, InInv
  <2>4. QED BY <2>1, <2>2, <2>3 DEF ClearTokens, WriteStatus
<1>5. \A b \in Agents \ {a} : ToldUpTo(b) \subseteq ToldUpTo(b)'
  BY <1>1, <1>4 DEF ToldUpTo
<1>6. desk[a].pc = "tell" => Visible \subseteq ToldUpTo(a)
  BY DEF ToldInv
<1>7. desk'[a].pc = "clear" => Visible' \subseteq told' \union crossed'
  BY <1>1, <1>2, <1>4, <1>6 DEF ToldUpTo
<1>8. QED BY <1>1, <1>2, <1>3, <1>4, <1>5, <1>7 DEF ToldInv

LEMMA ToldStays ==
  ASSUME InInv, ToldInv, [InNext]_inVars
  PROVE  ToldInv'
<1>1. ASSUME NEW d \in Deliveries, Receive(d) \/ StepFails(d) \/ WorkerDies(d) \/ (Step(d) /\ ~StoreMessage(d))
      PROVE  UNCHANGED <<thread, unread, told, crossed, desk>> /\ erased \subseteq erased'
  BY <1>1 DEF Receive, Step, Open, FindCustomer, CreateCustomer, LookUp, UpsertConversation, DispatchMessage,
     FindUnsent, EraseUnsent, FollowConversation, Unfollow, Finish, StepFails, WorkerDies, msgVars, logVars
<1>2. CASE ForgetMiss \/ SwitchChannel \/ EscalateConversation \/ UNCHANGED inVars
  BY <1>2, ToldLeft DEF ForgetMiss, SwitchChannel, EscalateConversation, inVars, msgVars, logVars
<1>3. ASSUME NEW d \in Deliveries, Receive(d) \/ Step(d) \/ StepFails(d) \/ WorkerDies(d) PROVE ToldInv'
  BY <1>1, <1>3, ToldLeft, StoreTells
<1>4. QED BY <1>2, <1>3, MarkTells, TellingTells DEF InNext

-----------------------------------------------------------------------------
(* Inbound: a delivery is not given up while the channel is on.               *)

\* There are more attempts than faults, with one for a customer row that another worker
\* was quicker to create; and the channel is switched once at most.
Patient == InBounds["faults"] + 1 < Attempts /\ InBounds["switches"] <= 1

TriedInv ==
  /\ inLeft["switches"] <= 1
  /\ ~channel.on /\ inLeft["switches"] > 0 => \A d \in Deliveries : job[d].pc \in {"coming", "refused"}
  /\ (\A d \in Deliveries : Persists(d)) \/ (~channel.on /\ inLeft["switches"] = 0)

LEMMA TriedInitially == ASSUME Patient, InInit PROVE TriedInv
<1>1. inLeft = InBounds /\ \A e \in InEvents : InBounds[e] \in Nat
  BY InboundAssumption DEF InInit
<1>2. ASSUME NEW d \in Deliveries PROVE job[d].pc = "coming" /\ Persists(d)
  <2>1. job[d] = [Fresh EXCEPT !.pc = "coming"]
    BY DEF InInit
  <2>2. job[d].pc = "coming" /\ job[d].tries = Attempts /\ Attempts \in Nat
    BY <2>1, InboundAssumption DEF Fresh
  <2>3. InUsed("faults") = 0 /\ Clash(d) \in Nat
    BY <1>1 DEF InUsed, InEvents, Clash
  <2>4. QED BY <2>2, <2>3 DEF Persists
<1>3. inLeft["switches"] <= 1
  BY <1>1 DEF Patient
<1>4. QED BY <1>2, <1>3 DEF TriedInv

LEMMA OthersPersist ==
  ASSUME InInv, NEW e \in Deliveries, Persists(e), job'[e].pc = job[e].pc, job'[e].tries = job[e].tries,
         owner => owner', inLeft'["faults"] \in Nat, inLeft'["faults"] <= inLeft["faults"]
  PROVE  Persists(e)'
<1>1. job[e].tries \in Nat /\ Attempts \in Nat /\ inLeft["faults"] \in Nat /\ InBounds["faults"] \in Nat
  <2>1. "faults" \in InEvents
    BY DEF InEvents
  <2>2. QED BY <2>1, InTypes DEF InInv
<1>2. Clash(e) \in Nat /\ Clash(e)' \in Nat /\ Clash(e) <= Clash(e)'
  BY DEF Clash
<1>3. InUsed("faults") \in Int /\ InUsed("faults")' \in Int /\ InUsed("faults") <= InUsed("faults")'
  BY <1>1 DEF InUsed
<1>4. QED BY <1>1, <1>2, <1>3 DEF Persists

LEMMA TriedStays ==
  ASSUME InInv, InInv', TriedInv, [InNext]_inVars
  PROVE  TriedInv'
<1>1. inLeft["switches"] \in Nat /\ inLeft["faults"] \in Nat /\ inLeft'["switches"] \in Nat /\ inLeft'["faults"] \in Nat
      /\ channel.on \in BOOLEAN
  BY InTypes DEF InInv, InTypeOK, InEvents
<1>2. ASSUME NEW d \in Deliveries, Receive(d) \/ Step(d) PROVE TriedInv'
  <2>1. InKeeps(d) /\ Grows
    BY <1>2, InStepsKeep DEF InStepIs
  <2>2. channel'.on = channel.on /\ UNCHANGED inLeft
    BY <1>2 DEF Receive, Step, Open, FindCustomer, CreateCustomer, LookUp, UpsertConversation, StoreMessage,
                DispatchMessage, FindUnsent, EraseUnsent, FollowConversation, Unfollow, Finish, InInv, InTypeOK
  <2>3. \A e \in Deliveries \ {d} : Persists(e) => Persists(e)'
    BY <1>1, <2>1, <2>2, OthersPersist DEF InKeeps, Grows
  <2>4. CASE channel.on
    BY <2>1, <2>2, <2>3, <2>4 DEF TriedInv, InKeeps
  <2>5. CASE ~channel.on /\ inLeft["switches"] > 0
    <3>1. \A e \in Deliveries : job[e].pc \in {"coming", "refused"} /\ Persists(e)
      BY <1>1, <2>5 DEF TriedInv
    <3>2. Receive(d)
      BY <1>2, <3>1 DEF Step, Open, FindCustomer, CreateCustomer, LookUp, UpsertConversation, StoreMessage,
                DispatchMessage, FindUnsent, EraseUnsent, FollowConversation, Unfollow, Finish
    <3>3. job[d].pc = "coming" /\ job' = [job EXCEPT ![d].pc = "refused"]
      BY <2>5, <3>2 DEF Receive
    <3>4. job'[d].pc = "refused"
      BY <3>3 DEF InInv, InTypeOK, Delivery
    <3>5. \A e \in Deliveries : job'[e].pc \in {"coming", "refused"}
      BY <2>1, <3>1, <3>4 DEF InKeeps
    <3>6. \A e \in Deliveries : Persists(e)'
      BY <2>1, <2>3, <3>1, <3>3 DEF InKeeps
    <3>7. QED BY <2>2, <3>5, <3>6 DEF TriedInv
  <2>6. CASE ~channel.on /\ inLeft["switches"] = 0
    BY <2>2, <2>6 DEF TriedInv
  <2>7. QED BY <1>1, <2>4, <2>5, <2>6
<1>3. ASSUME NEW d \in Deliveries, StepFails(d) \/ WorkerDies(d) PROVE TriedInv'
  <2>1. /\ UNCHANGED <<channel, owner>> /\ inLeft'["switches"] = inLeft["switches"] /\ job[d].pc \in Working
        /\ inLeft'["faults"] <= inLeft["faults"] /\ \A e \in Deliveries \ {d} : job'[e] = job[e]
        /\ Persists(d) => Persists(d)'
    BY <1>3, FailuresKeep
  <2>2. \A e \in Deliveries : Persists(e) => Persists(e)'
    <3>1. \A e \in Deliveries \ {d} : Persists(e) => Persists(e)'
      BY <1>1, <2>1, OthersPersist
    <3>2. QED BY <2>1, <3>1
  <2>3. channel.on \/ inLeft["switches"] = 0
    BY <1>1, <2>1 DEF TriedInv, Working
  <2>4. QED BY <2>1, <2>2, <2>3 DEF TriedInv
<1>4. CASE DeskSteps
  <2>1. DeskLeaves
    BY <1>4, DeskStepsLeave
  <2>2. \A e \in Deliveries : job'[e].pc = job[e].pc /\ (Persists(e) => Persists(e)')
    BY <1>1, <2>1, OthersPersist DEF DeskLeaves
  <2>3. CASE SwitchChannel
    <3>1. inLeft["switches"] > 0 /\ inLeft'["switches"] = inLeft["switches"] - 1 /\ channel'.on = ~channel.on
      BY <2>3, SpendingLeaves DEF SwitchChannel, InInv, InTypeOK
    <3>2. inLeft'["switches"] = 0 /\ \A e \in Deliveries : Persists(e)
      BY <1>1, <3>1 DEF TriedInv
    <3>3. QED BY <2>2, <3>2 DEF TriedInv
  <2>4. CASE ~SwitchChannel
    <3>1. channel'.on = channel.on
      BY <1>4, <2>4 DEF DeskSteps, BeginStatus, WriteStatus, BeginMark, TellLine, ClearTokens, ForgetMiss,
                        EscalateConversation, inVars, InInv, InTypeOK
    <3>2. inLeft'["switches"] = inLeft["switches"]
      <4>1. ASSUME NEW e \in {"status", "marks", "escalations"}, Spends(e)
            PROVE  inLeft'["switches"] = inLeft["switches"]
        BY <4>1, SpendingLeaves
      <4>2. UNCHANGED inLeft \/ \E e \in {"status", "marks", "escalations"} : Spends(e)
        BY <1>4, <2>4 DEF DeskSteps, BeginStatus, WriteStatus, BeginMark, TellLine, ClearTokens, ForgetMiss,
                          EscalateConversation, inVars
      <4>3. QED BY <4>1, <4>2
    <3>3. QED BY <2>2, <3>1, <3>2 DEF TriedInv
  <2>5. QED BY <2>3, <2>4
<1>5. QED BY <1>2, <1>3, <1>4 DEF InNext, DeskSteps

LEMMA TriedSuffices == ASSUME Patient, InInv, TriedInv PROVE AcceptedIsStored
<1>1. ASSUME NEW d \in Deliveries, NEW i \in DOMAIN Payload[d], job[d].pc \in {"done", "lost"},
             Payload[d][i].type = "message", channel.on
      PROVE  Payload[d][i].id \in Stored
  <2>1. InFit(d) /\ i \in 1..Len(Payload[d])
    BY InTypes DEF InInv
  <2>2. CASE job[d].pc = "done"
    BY <1>1, <2>1, <2>2 DEF InFit, EventHandled
  <2>3. CASE job[d].pc = "lost"
    <3>1. job[d].tries = 0 /\ Persists(d)
      BY <1>1, <2>1, <2>3 DEF InFit, TriedInv
    <3>2. Clash(d) <= 1 /\ Clash(d) \in Nat /\ InUsed("faults") \in Int /\ InUsed("faults") <= InBounds["faults"]
          /\ InBounds["faults"] \in Nat /\ Attempts \in Nat
      <4>1. "faults" \in InEvents
        BY DEF InEvents
      <4>2. inLeft["faults"] \in Nat /\ InBounds["faults"] \in Nat /\ Attempts \in Nat
        BY <4>1, InTypes DEF InInv
      <4>3. QED BY <4>2 DEF Clash, InUsed
    <3>3. QED BY <3>1, <3>2 DEF Persists, Patient
  <2>4. QED BY <1>1, <2>2, <2>3
<1>2. QED BY <1>1 DEF AcceptedIsStored, Unwelcome

-----------------------------------------------------------------------------
(* Inbound: how often a message is handed to the automations.                *)

\* LINE does not put a message into one request twice.
OncePerRequest ==
  \A d \in Deliveries : \A i, k \in DOMAIN Payload[d] :
    Payload[d][i].type = "message" /\ Payload[d][i] = Payload[d][k] => i = k

Bearers(m) == {d \in Deliveries : Bears(d, m)}
DueFor(m) == {d \in Deliveries : IsDue(d, m)}
HandedOver == InUsed("faults") + InUsed("crashes")
HandedInv == \A m \in Messages : handled[m] + Cardinality(DueFor(m)) <= Cardinality(Bearers(m)) + HandedOver

LEMMA DueCounts ==
  ASSUME NEW m \in Messages
  PROVE  /\ IsFiniteSet(DueFor(m)) /\ IsFiniteSet(DueFor(m)') /\ IsFiniteSet(Bearers(m))
         /\ Cardinality(DueFor(m)) \in Nat /\ Cardinality(DueFor(m)') \in Nat /\ Cardinality(Bearers(m)) \in Nat
<1>1. DueFor(m) \subseteq Deliveries /\ DueFor(m)' \subseteq Deliveries /\ Bearers(m) \subseteq Deliveries
  BY DEF DueFor, Bearers
<1>2. QED BY <1>1, FS_Subset, FS_CardinalityType, InboundAssumption

LEMMA HandedIsNumber ==
  ASSUME InTypeOK
  PROVE  /\ HandedOver \in Int
         /\ \A e \in {"faults", "crashes"} : InBounds[e] - inLeft[e] \in Int
         /\ \A e \in {"faults", "crashes"} : inLeft[e] \in Nat /\ InBounds[e] \in Nat
<1>1. "faults" \in InEvents /\ "crashes" \in InEvents
  BY DEF InEvents
<1>2. \A e \in {"faults", "crashes"} : inLeft[e] \in Nat /\ InBounds[e] \in Nat
  BY <1>1, InTypes
<1>3. QED BY <1>2 DEF HandedOver, InUsed

LEMMA HandedInitially == InInit => HandedInv
<1> SUFFICES ASSUME InInit, NEW m \in Messages
             PROVE  handled[m] + Cardinality(DueFor(m)) <= Cardinality(Bearers(m)) + HandedOver
  BY DEF HandedInv
<1>1. \A d \in Deliveries : job[d].pc = "coming"
  BY DEF InInit, Fresh
<1>2. DueFor(m) = Bearers(m)
  BY <1>1 DEF DueFor, Bearers, IsDue, Waiting, Working
<1>3. handled[m] = 0
  BY DEF InInit
<1>4. HandedOver = 0
  BY InboundAssumption DEF HandedOver, InUsed, InInit, InEvents
<1>5. QED BY <1>2, <1>3, <1>4, DueCounts

\* Nothing is handed over, and nothing becomes due again.
LEMMA NothingDue ==
  ASSUME InInv, HandedInv, NEW m \in Messages, handled'[m] = handled[m], HandedOver' = HandedOver,
         DueFor(m)' \subseteq DueFor(m)
  PROVE  handled'[m] + Cardinality(DueFor(m)') <= Cardinality(Bearers(m)) + HandedOver'
<1>1. Cardinality(DueFor(m)') <= Cardinality(DueFor(m))
  BY DueCounts, FS_Subset
<1>2. handled[m] \in Nat /\ HandedOver \in Int
  BY HandedIsNumber DEF InInv, InTypeOK
<1>3. handled[m] + Cardinality(DueFor(m)) <= Cardinality(Bearers(m)) + HandedOver
  BY DEF HandedInv
<1>4. QED BY <1>1, <1>2, <1>3, DueCounts

LEMMA DispatchCounts ==
  ASSUME OncePerRequest, InInv, HandedInv, NEW d \in Deliveries, DispatchMessage(d)
  PROVE  HandedInv'
<1>1. job[d].pc = "dispatch" /\ job[d].pc \in Working \ {"finish"}
  BY DEF DispatchMessage, Working
<1>2. /\ job[d].at \in 1..Len(Payload[d]) /\ Event(d) = Payload[d][job[d].at] /\ Event(d).id \in Messages
      /\ Event(d) \in [type : EventTypes, id : Messages] /\ Event(d).type = "message" /\ job[d].at \in Nat
      /\ DOMAIN Payload[d] = 1..Len(Payload[d])
  BY <1>1, InAt, InTypes DEF StepsOf, EventTypes, InInv
<1>0. PICK m0 \in Messages : m0 = Event(d).id
  BY <1>2
<1>3. Event(d) = [type |-> "message", id |-> m0]
  BY <1>0, <1>2
<1>4. InKeeps(d) /\ job'[d].at = job[d].at + 1 /\ job'[d].pc \in Working
  BY DispatchKeeps DEF InStepIs
<1>5. handled' = [handled EXCEPT ![m0] = @ + 1] /\ HandedOver' = HandedOver
  BY <1>0 DEF DispatchMessage, HandedOver, InUsed
<1>6. m0 \in Messages /\ handled \in [Messages -> Nat]
  BY <1>2 DEF InInv, InTypeOK
<1>7. IsDue(d, m0)
  <2>1. job[d].at \in DOMAIN Payload[d] /\ Payload[d][job[d].at] = [type |-> "message", id |-> m0] /\ job[d].at >= job[d].at
    BY <1>2, <1>3
  <2>2. QED BY <1>1, <2>1 DEF IsDue
<1>8. ~IsDue(d, m0)'
  <2>1. SUFFICES ASSUME IsDue(d, m0)' PROVE FALSE
    OBVIOUS
  <2>2. PICK i \in DOMAIN Payload[d] : i >= job'[d].at /\ Payload[d][i] = [type |-> "message", id |-> m0]
    BY <1>4, <2>1 DEF IsDue, Waiting, Working
  <2>3. i \in Nat /\ i > job[d].at
    BY <1>2, <1>4, <2>2
  <2>4. Payload[d][i] = Payload[d][job[d].at] /\ Payload[d][i].type = "message" /\ job[d].at \in DOMAIN Payload[d]
    BY <1>2, <1>3, <2>2
  <2>5. i = job[d].at
    BY <2>2, <2>4 DEF OncePerRequest
  <2>6. QED BY <2>3, <2>5, <1>2
<1>9. ASSUME NEW m \in Messages, NEW e \in Deliveries, IsDue(e, m)' PROVE IsDue(e, m)
  <2>1. CASE e = d
    BY <1>4, <1>9, <2>1 DEF InKeeps
  <2>2. CASE e # d
    BY <1>4, <1>9, <2>2 DEF InKeeps, IsDue, Bears
  <2>3. QED BY <2>1, <2>2
<1>10. ASSUME NEW m \in Messages
       PROVE  handled'[m] + Cardinality(DueFor(m)') <= Cardinality(Bearers(m)) + HandedOver'
  <2>1. CASE m # m0
    <3>1. handled'[m] = handled[m] /\ DueFor(m)' \subseteq DueFor(m)
      BY <1>5, <1>6, <1>9, <2>1 DEF DueFor
    <3>2. QED BY <1>5, <3>1, NothingDue
  <2>2. CASE m = m0
    <3>1. handled'[m] = handled[m] + 1 /\ handled[m] \in Nat
      BY <1>5, <1>6, <2>2
    <3>2. d \in DueFor(m) /\ DueFor(m)' \subseteq DueFor(m) \ {d}
      BY <1>7, <1>8, <1>9, <2>2 DEF DueFor
    <3>3. IsFiniteSet(DueFor(m) \ {d}) /\ Cardinality(DueFor(m) \ {d}) = Cardinality(DueFor(m)) - 1
      BY <3>2, DueCounts, FS_RemoveElement
    <3>4. Cardinality(DueFor(m)') <= Cardinality(DueFor(m)) - 1
      BY <3>2, <3>3, FS_Subset
    <3>5. HandedOver \in Int /\ handled[m] + Cardinality(DueFor(m)) <= Cardinality(Bearers(m)) + HandedOver
      BY HandedIsNumber DEF HandedInv, InInv
    <3>6. QED BY <1>5, <3>1, <3>4, <3>5, DueCounts
  <2>3. QED BY <2>1, <2>2
<1>11. QED BY <1>10 DEF HandedInv, Bearers, Bears

LEMMA FailuresCount ==
  ASSUME InInv, InInv', HandedInv, NEW d \in Deliveries, StepFails(d) \/ WorkerDies(d)
  PROVE  HandedInv'
<1>1. /\ \A e \in Deliveries \ {d} : job'[e] = job[e]
      /\ inLeft'["faults"] + inLeft'["crashes"] = inLeft["faults"] + inLeft["crashes"] - 1
      /\ UNCHANGED handled
  BY FailuresKeep
<1>2. /\ inLeft["faults"] \in Nat /\ inLeft["crashes"] \in Nat /\ inLeft'["faults"] \in Nat /\ inLeft'["crashes"] \in Nat
      /\ InBounds["faults"] \in Nat /\ InBounds["crashes"] \in Nat
  <2>1. "faults" \in InEvents /\ "crashes" \in InEvents
    BY DEF InEvents
  <2>2. QED BY <2>1, HandedIsNumber DEF InInv, InTypeOK
<1>3. HandedOver \in Int /\ HandedOver' = HandedOver + 1
  BY <1>1, <1>2 DEF HandedOver, InUsed
<1>4. ASSUME NEW m \in Messages
      PROVE  handled'[m] + Cardinality(DueFor(m)') <= Cardinality(Bearers(m)) + HandedOver'
  <2>1. DueFor(m)' \subseteq DueFor(m) \union {d}
    <3>1. \A e \in Deliveries \ {d} : IsDue(e, m)' => IsDue(e, m)
      BY <1>1 DEF IsDue, Bears
    <3>2. QED BY <3>1 DEF DueFor
  <2>2. IsFiniteSet(DueFor(m) \union {d}) /\ Cardinality(DueFor(m) \union {d}) <= Cardinality(DueFor(m)) + 1
        /\ Cardinality(DueFor(m) \union {d}) \in Nat
    <3>1. CASE d \in DueFor(m)
      <4>1. DueFor(m) \union {d} = DueFor(m)
        BY <3>1
      <4>2. QED BY <4>1, DueCounts
    <3>2. CASE d \notin DueFor(m)
      <4>1. IsFiniteSet(DueFor(m) \union {d})
            /\ Cardinality(DueFor(m) \union {d}) = Cardinality(DueFor(m)) + 1
        BY <3>2, DueCounts, FS_AddElement
      <4>2. QED BY <4>1, DueCounts
    <3>3. QED BY <3>1, <3>2
  <2>3. Cardinality(DueFor(m)') <= Cardinality(DueFor(m)) + 1
    BY <2>1, <2>2, DueCounts, FS_Subset
  <2>4. handled'[m] = handled[m] /\ handled[m] \in Nat
    BY <1>1 DEF InInv, InTypeOK
  <2>5. handled[m] + Cardinality(DueFor(m)) <= Cardinality(Bearers(m)) + HandedOver
    BY DEF HandedInv
  <2>6. QED BY <1>3, <2>3, <2>4, <2>5, DueCounts
<1>5. QED BY <1>4 DEF HandedInv, Bearers, Bears

LEMMA HandedStays ==
  ASSUME OncePerRequest, InInv, InInv', HandedInv, [InNext]_inVars
  PROVE  HandedInv'
<1>1. ASSUME UNCHANGED handled, HandedOver' = HandedOver,
             \A e \in Deliveries, m \in Messages : IsDue(e, m)' => IsDue(e, m)
      PROVE  HandedInv'
  <2>1. \A m \in Messages : DueFor(m)' \subseteq DueFor(m)
    BY <1>1 DEF DueFor
  <2>2. \A m \in Messages : handled'[m] + Cardinality(DueFor(m)') <= Cardinality(Bearers(m)) + HandedOver'
    BY <1>1, <2>1, NothingDue
  <2>3. QED BY <2>2 DEF HandedInv, Bearers, Bears
<1>2. ASSUME NEW d \in Deliveries, Receive(d) \/ Step(d), ~DispatchMessage(d) PROVE HandedInv'
  <2>1. InKeeps(d)
    BY <1>2, InStepsKeep DEF InStepIs
  <2>2. UNCHANGED <<handled, inLeft>>
    BY <1>2 DEF Receive, Step, Open, FindCustomer, CreateCustomer, LookUp, UpsertConversation, StoreMessage,
                FindUnsent, EraseUnsent, FollowConversation, Unfollow, Finish, logVars
  <2>3. \A e \in Deliveries \ {d}, m \in Messages : IsDue(e, m)' => IsDue(e, m)
    BY <2>1 DEF InKeeps, IsDue, Bears
  <2>4. QED BY <1>1, <2>1, <2>2, <2>3 DEF InKeeps, HandedOver, InUsed
<1>3. CASE DeskSteps
  <2>1. DeskLeaves
    BY <1>3, DeskStepsLeave
  <2>2. \A e \in Deliveries, m \in Messages : IsDue(e, m)' => IsDue(e, m)
    BY <2>1 DEF DeskLeaves, IsDue, Bears
  <2>3. UNCHANGED handled /\ HandedOver' = HandedOver
    BY <2>1 DEF DeskLeaves, HandedOver, InUsed
  <2>4. QED BY <1>1, <2>2, <2>3
<1>4. QED BY <1>2, <1>3, DispatchCounts, FailuresCount DEF InNext, DeskSteps

-----------------------------------------------------------------------------
\* What LINE handed over is stored, and handed to the automations again only after a failure,
\* for any number of requests, events and workers; if there are two attempts more than faults, if
\* the channel is switched once at most, and if LINE does not repeat a message within a request.
THEOREM DeliveriesAreKept == Patient /\ OncePerRequest => (ConversationsSpec => []DeliveriesAreHandled)
<1> SUFFICES ASSUME Patient, OncePerRequest PROVE ConversationsSpec => []DeliveriesAreHandled
  OBVIOUS
<1> DEFINE J == InInv /\ TriedInv /\ HandedInv
           I == part = "inbound" => J
<1>1. ConversationsInit => I
  BY InInitially, TriedInitially, HandedInitially DEF ConversationsInit
<1>2. I /\ [ConversationsNext]_coVars => I'
  <2> SUFFICES ASSUME I, [ConversationsNext]_coVars, part' = "inbound"
               PROVE  J'
    OBVIOUS
  <2>1. part = "inbound" /\ [InNext]_inVars /\ J
    BY DEF ConversationsNext, coVars
  <2>2. InInv'
    BY <2>1, InboundStepKeeps
  <2>3. QED BY <2>1, <2>2, TriedStays, HandedStays
<1>3. J => AcceptedIsStored /\ HandledAgainAfterFailure
  <2> SUFFICES ASSUME J PROVE AcceptedIsStored /\ HandledAgainAfterFailure
    OBVIOUS
  <2>1. AcceptedIsStored
    BY TriedSuffices
  <2>2. ASSUME NEW m \in Messages
        PROVE  handled[m] <= Cardinality(Bearers(m)) + HandedOver
    <3>1. handled[m] + Cardinality(DueFor(m)) <= Cardinality(Bearers(m)) + HandedOver /\ handled[m] \in Nat
      BY DEF HandedInv, InInv, InTypeOK
    <3>2. HandedOver \in Int
      BY HandedIsNumber DEF InInv
    <3>3. QED BY <3>1, <3>2, DueCounts
  <2>3. \A e \in {"faults", "crashes"} : InBounds[e] - inLeft[e] \in Int
    BY HandedIsNumber DEF InInv
  <2>4. ASSUME NEW m \in Messages
        PROVE  handled[m] <= Cardinality(Bearers(m)) + (InBounds["faults"] - inLeft["faults"])
                               + (InBounds["crashes"] - inLeft["crashes"])
    <3>1. handled[m] \in Nat
      BY DEF InInv, InTypeOK
    <3>2. QED BY <2>2, <2>3, <3>1, DueCounts DEF HandedOver, InUsed
  <2>5. QED BY <2>1, <2>4 DEF HandledAgainAfterFailure, Bearers, Bears
<1>4. I => DeliveriesAreHandled
  BY <1>3 DEF DeliveriesAreHandled
<1>5. QED BY <1>1, <1>2, <1>4, PTL DEF ConversationsSpec

\* What was unsent stays hidden, a message counts as read when LINE was told so, and the row
\* of the conversation tells what was written last, for any number of requests, events,
\* workers and agents, and any failures.
THEOREM ThreadStaysTrue == ConversationsSpec => []ThreadIsTrue
<1> DEFINE J == InInv /\ ToldInv
           I == part = "inbound" => J
<1>1. ConversationsInit => I
  BY InInitially, ToldInitially DEF ConversationsInit
<1>2. I /\ [ConversationsNext]_coVars => I'
  <2> SUFFICES ASSUME I, [ConversationsNext]_coVars, part' = "inbound"
               PROVE  J'
    OBVIOUS
  <2>1. part = "inbound" /\ [InNext]_inVars /\ J
    BY DEF ConversationsNext, coVars
  <2>2. QED BY <2>1, InboundStepKeeps, ToldStays
<1>3. J => UnsentIsHidden /\ ReadWasTold /\ MessageReopens /\ StartMatchesStatus
  <2>1. ASSUME J, NEW d \in Deliveries, NEW i \in DOMAIN Payload[d], job[d].pc = "done",
               Payload[d][i].type = "unsend", Payload[d][i].id \in Visible
        PROVE  Payload[d][i].id \in missed
    <3>1. InFit(d) /\ i \in 1..Len(Payload[d])
      BY <2>1, InTypes DEF InInv
    <3>2. QED BY <2>1, <3>1 DEF InFit, EventHandled, Visible
  <2>2. QED BY <2>1 DEF InInv, RowFits, ToldInv, UnsentIsHidden
<1>4. I => ThreadIsTrue
  BY <1>3 DEF ThreadIsTrue
<1>5. QED BY <1>1, <1>2, <1>4, PTL DEF ConversationsSpec

-----------------------------------------------------------------------------
(* Drafts: made for who waits, offered to who has not answered.              *)

FlowTyped == flow \in [Flows -> Flow \union {Free}]
DfTyped == DfTypeOK /\ FlowTyped

\* What is shown at all, be it the latest or not, was answered by no agent since.
ShownIsUnanswered ==
  \A i \in DOMAIN sugg : sugg[i].status = "shown" =>
    \A k \in (sugg[i].after + 1)..Len(said) :
      said[k] = "agent" => k \in marred.loose \/ \E f \in Flows : At(f, "supersede") /\ flow[f].at = k

\* The customer waits, and nothing was missed.
CustomerWaits ==
  /\ setting = {"hybrid"} /\ ~marred.missed
  /\ said # <<>> /\ said[Len(said)] = "customer"

\* A flow that will start the quiet period, or that makes or has made a draft with the
\* last message in view.
Attends(f) ==
  \/ At(f, "check") \/ At(f, "arm")
  \/ /\ flow[f] # Free /\ Kind(f) = "draft"
     /\ \/ flow[f].pc \in {"count", "expiry", "generate"}
        \/ flow[f].pc \in {"answer", "retire", "offer"} /\ flow[f].saw = Len(said)

\* Somebody looks after the customer who waits.
WaitingIsAttended ==
  CustomerWaits => \/ timer # {} \/ \E f \in Flows : Attends(f)
                   \/ \E i \in DOMAIN sugg : sugg[i].saw = Len(said)

DfInv == DfTyped /\ ShownIsUnanswered /\ WaitingIsAttended /\ CountersExpire

MarkedSets == [loose : SUBSET Nat, missed : BOOLEAN, stuck : SUBSET Counters]

-----------------------------------------------------------------------------

LEMMA FlowIsNotFree == \A r \in Flow : r # Free
<1> SUFFICES ASSUME NEW r \in Flow, r = Free PROVE FALSE
  OBVIOUS
<1>1. "pc" \in DOMAIN r
  BY DEF Flow
<1>2. DOMAIN <<>> = {}
  OBVIOUS
<1> QED
  BY <1>1, <1>2 DEF Free

\* A flow is moved, begun or ended, and the rest is what it was.
MovesOnly(f, v) == /\ v \in Flow \union {Free} /\ flow' = [flow EXCEPT ![f] = v]

LEMMA GoesMoves ==
  ASSUME FlowTyped, NEW f \in Flows, NEW step \in Steps, flow[f] # Free, Goes(f, step)
  PROVE  /\ MovesOnly(f, [flow[f] EXCEPT !.pc = step])
         /\ flow'[f] \in Flow /\ flow'[f] # Free /\ flow'[f].pc = step
         /\ flow'[f].kind = flow[f].kind /\ flow'[f].saw = flow[f].saw /\ flow'[f].at = flow[f].at
         /\ flow'[f].home = flow[f].home /\ flow'[f].prev = flow[f].prev
<1> DEFINE v == [flow[f] EXCEPT !.pc = step]
<1>1. flow[f] \in Flow
  BY DEF FlowTyped
<1>2. v \in Flow
  BY <1>1 DEF Flow
<1>3. /\ v.pc = step /\ v.kind = flow[f].kind /\ v.saw = flow[f].saw /\ v.at = flow[f].at
      /\ v.home = flow[f].home /\ v.prev = flow[f].prev
  BY <1>1 DEF Flow
<1>4. flow' = [flow EXCEPT ![f] = v]
  BY DEF Goes
<1>5. v # Free
  BY <1>2, FlowIsNotFree
<1> HIDE DEF v
<1>6. flow'[f] = v
  BY <1>4 DEF FlowTyped
<1>7. MovesOnly(f, v)
  BY <1>2, <1>4 DEF MovesOnly
<1> QED
  BY <1>2, <1>3, <1>5, <1>6, <1>7 DEF v

LEMMA StartsMoves ==
  ASSUME FlowTyped, NEW f \in Flows, NEW kind \in Kinds, NEW i \in Instances, NEW step \in Steps,
         NEW prev \in Nat, Starts(f, kind, i, step, prev)
  PROVE  /\ MovesOnly(f, [pc |-> step, kind |-> kind, home |-> i, saw |-> 0, at |-> 0, prev |-> prev])
         /\ flow[f] = Free
         /\ flow'[f] \in Flow /\ flow'[f] # Free /\ flow'[f].pc = step /\ flow'[f].kind = kind
<1> DEFINE v == [pc |-> step, kind |-> kind, home |-> i, saw |-> 0, at |-> 0, prev |-> prev]
<1>1. v \in Flow /\ v.pc = step /\ v.kind = kind
  BY DEF Flow
<1>2. flow' = [flow EXCEPT ![f] = v] /\ flow[f] = Free
  BY DEF Starts
<1>3. v # Free
  BY <1>1, FlowIsNotFree
<1> HIDE DEF v
<1>4. flow'[f] = v
  BY <1>2 DEF FlowTyped
<1>5. MovesOnly(f, v)
  BY <1>1, <1>2 DEF MovesOnly
<1> QED
  BY <1>1, <1>2, <1>3, <1>4, <1>5 DEF v

LEMMA StopsMoves ==
  ASSUME FlowTyped, NEW f \in Flows, Stops(f)
  PROVE  MovesOnly(f, Free) /\ flow'[f] = Free
BY DEF Stops, MovesOnly, FlowTyped

LEMMA MovedFlows ==
  ASSUME FlowTyped, NEW f \in Flows, NEW v, MovesOnly(f, v)
  PROVE  /\ FlowTyped' /\ flow'[f] = v
         /\ \A g \in Flows : g # f => flow'[g] = flow[g]
BY DEF MovesOnly, FlowTyped

LEMMA DfUsed ==
  ASSUME DfTypeOK, NEW e \in DfEvents, Uses(e)
  PROVE  dfLeft' \in [DfEvents -> Nat]
BY DEF DfTypeOK, Uses

\* Most steps move one flow, and at most set a timer or note what was lost.
LEMMA FlowMoves ==
  ASSUME DfInv, NEW f \in Flows, NEW v, MovesOnly(f, v),
         UNCHANGED <<setting, said, sugg, rate>>,
         pushed' \in Nat, human' \subseteq {"tagged", "marked", "raised"}, dfLeft' \in [DfEvents -> Nat],
         timer \subseteq timer', timer' \subseteq Instances,
         marred' \in MarkedSets, marred.loose \subseteq marred'.loose, marred.stuck \subseteq marred'.stuck,
         marred.missed => marred'.missed,
         At(f, "supersede") => flow[f].at \in marred'.loose,
         At(f, "expiry") => CounterOf(f) \in marred'.stuck,
         CustomerWaits /\ ~marred'.missed /\ Attends(f) => timer' # {} \/ Attends(f)'
  PROVE  DfInv'
<1> USE DEF DfInv
<1>1. /\ FlowTyped' /\ \A g \in Flows : g # f => flow'[g] = flow[g]
  BY MovedFlows DEF DfTyped
<1>2. DfTyped'
  BY <1>1 DEF DfTyped, DfTypeOK, FlowTyped, MarkedSets
<1>3. ShownIsUnanswered'
  <2> SUFFICES ASSUME NEW i \in DOMAIN sugg, sugg[i].status = "shown",
                      NEW k \in (sugg[i].after + 1)..Len(said), said[k] = "agent", k \notin marred'.loose
               PROVE  \E g \in Flows : At(g, "supersede")' /\ flow'[g].at = k
    BY DEF ShownIsUnanswered, At
  <2>1. PICK g \in Flows : At(g, "supersede") /\ flow[g].at = k
    BY DEF ShownIsUnanswered
  <2>2. g # f
    BY <2>1
  <2>3. flow'[g] = flow[g]
    BY <1>1, <2>2
  <2> QED
    BY <2>1, <2>3 DEF At
<1>4. WaitingIsAttended'
  <2> SUFFICES ASSUME CustomerWaits', timer' = {}, ~\E i \in DOMAIN sugg : sugg[i].saw = Len(said)
               PROVE  \E g \in Flows : Attends(g)'
    BY DEF WaitingIsAttended
  <2>1. CustomerWaits /\ ~marred'.missed
    BY DEF CustomerWaits, DfTyped, DfTypeOK, MarkedSets
  <2>2. timer = {}
    OBVIOUS
  <2>3. PICK g \in Flows : Attends(g)
    BY <2>1, <2>2 DEF WaitingIsAttended
  <2>4. CASE g = f
    BY <2>1, <2>3, <2>4
  <2>5. CASE g # f
    <3>1. flow'[g] = flow[g]
      BY <1>1, <2>5
    <3> QED
      BY <2>3, <3>1 DEF Attends, At, Kind
  <2> QED
    BY <2>4, <2>5
<1>5. CountersExpire'
  <2> SUFFICES ASSUME NEW c \in Counters, rate[c].count > 0, ~rate[c].expires, c \notin marred'.stuck
               PROVE  \E g \in Flows : At(g, "expiry")' /\ CounterOf(g)' = c
    BY DEF CountersExpire
  <2>1. PICK g \in Flows : At(g, "expiry") /\ CounterOf(g) = c
    BY DEF CountersExpire
  <2>2. g # f
    BY <2>1
  <2>3. flow'[g] = flow[g]
    BY <1>1, <2>2
  <2> QED
    BY <2>1, <2>3 DEF At, CounterOf, Kind
<1> QED
  BY <1>2, <1>3, <1>4, <1>5

-----------------------------------------------------------------------------

LEMMA MessageKeeps ==
  ASSUME DfInv, NEW f \in Flows, NEW i \in Instances, Message(f, i)
  PROVE  DfInv'
<1> USE DEF DfInv
<1> DEFINE v == [pc |-> "check", kind |-> "auto", home |-> i, saw |-> 0, at |-> 0, prev |-> 0]
<1>1. /\ said' = Append(said, "customer") /\ Starts(f, "auto", i, "check", 0)
      /\ UNCHANGED <<setting, pushed, sugg, rate, timer, human, marred>> /\ Uses("messages")
  BY DEF Message
<1>2. /\ MovesOnly(f, v) /\ flow[f] = Free /\ flow'[f] # Free /\ flow'[f].pc = "check"
  BY <1>1, StartsMoves DEF DfTyped, Steps, Kinds
<1>3. FlowTyped' /\ \A g \in Flows : g # f => flow'[g] = flow[g]
  BY <1>2, MovedFlows DEF DfTyped
<1>4. /\ said' \in Seq(Voices) /\ Len(said') = Len(said) + 1
      /\ \A k \in 1..Len(said) : said'[k] = said[k]
      /\ said'[Len(said) + 1] = "customer" /\ Len(said) \in Nat
  BY <1>1 DEF DfTyped, DfTypeOK, Voices
<1>5. dfLeft' \in [DfEvents -> Nat]
  BY <1>1, DfUsed DEF DfEvents, DfTyped
<1>6. DfTyped'
  BY <1>1, <1>3, <1>4, <1>5 DEF DfTyped, DfTypeOK, FlowTyped
<1>7. ShownIsUnanswered'
  <2> SUFFICES ASSUME NEW j \in DOMAIN sugg, sugg[j].status = "shown",
                      NEW k \in (sugg[j].after + 1)..Len(said'), said'[k] = "agent", k \notin marred.loose
               PROVE  \E g \in Flows : At(g, "supersede")' /\ flow'[g].at = k
    <3>1. sugg' = sugg /\ marred' = marred
      BY <1>1
    <3> QED
      BY <3>1 DEF ShownIsUnanswered
  <2>1. sugg[j] \in Suggestion
    BY DEF DfTyped, DfTypeOK
  <2>2. sugg[j].after \in Nat
    BY <2>1 DEF Suggestion
  <2> HIDE DEF DfInv
  <2>6. k \in Nat /\ k >= sugg[j].after + 1 /\ k <= Len(said) + 1
    BY <1>4, <2>2
  <2>7. k # Len(said) + 1
    BY <1>4
  <2>8. k \in 1..Len(said) /\ k \in (sugg[j].after + 1)..Len(said)
    BY <1>4, <2>2, <2>6, <2>7
  <2>3. k \in (sugg[j].after + 1)..Len(said) /\ said[k] = "agent"
    BY <1>4, <2>8
  <2> USE DEF DfInv
  <2>4. PICK g \in Flows : At(g, "supersede") /\ flow[g].at = k
    BY <2>3 DEF ShownIsUnanswered
  <2>5. flow'[g] = flow[g]
    BY <1>2, <1>3, <2>4 DEF At
  <2> QED
    BY <2>4, <2>5 DEF At
<1>8. WaitingIsAttended'
  BY <1>2 DEF WaitingIsAttended, Attends, At
<1>9. CountersExpire'
  <2> SUFFICES ASSUME NEW c \in Counters, rate[c].count > 0, ~rate[c].expires, c \notin marred.stuck
               PROVE  \E g \in Flows : At(g, "expiry")' /\ CounterOf(g)' = c
    BY <1>1 DEF CountersExpire
  <2>1. PICK g \in Flows : At(g, "expiry") /\ CounterOf(g) = c
    BY DEF CountersExpire
  <2>2. flow'[g] = flow[g]
    BY <1>2, <1>3, <2>1 DEF At
  <2> QED
    BY <2>1, <2>2 DEF At, CounterOf, Kind
<1> QED
  BY <1>6, <1>7, <1>8, <1>9

\* A free slot was at no step.
LEMMA FreeIsNowhere ==
  ASSUME NEW f \in Flows, flow[f] = Free, NEW step
  PROVE  ~At(f, step) /\ ~Attends(f)
BY DEF At, Attends

LEMMA QuietlyBegun ==
  ASSUME DfInv, NEW f \in Flows, NEW kind \in Kinds, NEW i \in Instances, NEW step \in Steps, NEW prev \in Nat,
         Starts(f, kind, i, step, prev), dfLeft' \in [DfEvents -> Nat],
         UNCHANGED <<setting, said, pushed, sugg, rate, timer, human, marred>>
  PROVE  DfInv'
<1> DEFINE v == [pc |-> step, kind |-> kind, home |-> i, saw |-> 0, at |-> 0, prev |-> prev]
<1>1. MovesOnly(f, v) /\ flow[f] = Free
  BY StartsMoves DEF DfTyped, DfInv
<1>2. ~At(f, "supersede") /\ ~At(f, "expiry") /\ ~Attends(f)
  BY <1>1, FreeIsNowhere
<1>3. /\ UNCHANGED <<setting, said, sugg, rate>>
      /\ pushed' \in Nat /\ human' \subseteq {"tagged", "marked", "raised"} /\ dfLeft' \in [DfEvents -> Nat]
      /\ timer \subseteq timer' /\ timer' \subseteq Instances /\ marred' \in MarkedSets
      /\ marred.loose \subseteq marred'.loose /\ marred.stuck \subseteq marred'.stuck
      /\ (marred.missed => marred'.missed)
  BY DEF DfInv, DfTyped, DfTypeOK, MarkedSets
<1> HIDE DEF v
<1> QED
  BY <1>1, <1>2, <1>3, FlowMoves

LEMMA RequestsKeep ==
  ASSUME DfInv, NEW f \in Flows, NEW i \in Instances,
         Reply(f, i) \/ RuleReplies(f, i) \/ \E prev \in 0..Len(sugg) : AskSuggestion(f, i, prev)
  PROVE  DfInv'
<1>1. DfTypeOK
  BY DEF DfInv, DfTyped
<1>2. CASE Reply(f, i)
  <2>1. dfLeft' \in [DfEvents -> Nat]
    BY <1>1, <1>2, DfUsed DEF Reply, DfEvents
  <2>2. Starts(f, "reply", i, "push", 0) /\ UNCHANGED <<setting, said, pushed, sugg, rate, timer, human, marred>>
    BY <1>2 DEF Reply
  <2> QED
    BY <2>1, <2>2, QuietlyBegun DEF Kinds, Steps
<1>3. CASE RuleReplies(f, i)
  <2>1. dfLeft' \in [DfEvents -> Nat]
    BY <1>1, <1>3, DfUsed DEF RuleReplies, DfEvents
  <2>2. Starts(f, "rule", i, "generate", 0) /\ UNCHANGED <<setting, said, pushed, sugg, rate, timer, human, marred>>
    BY <1>3 DEF RuleReplies
  <2> QED
    BY <2>1, <2>2, QuietlyBegun DEF Kinds, Steps
<1>4. CASE \E prev \in 0..Len(sugg) : AskSuggestion(f, i, prev)
  <2>1. PICK prev \in 0..Len(sugg) : AskSuggestion(f, i, prev)
    BY <1>4
  <2>2. dfLeft' \in [DfEvents -> Nat]
    BY <1>1, <2>1, DfUsed DEF AskSuggestion, DfEvents
  <2>3. Starts(f, "ask", i, "count", prev) /\ UNCHANGED <<setting, said, pushed, sugg, rate, timer, human, marred>>
    BY <2>1 DEF AskSuggestion
  <2>4. prev \in Nat
    BY <1>1 DEF DfTypeOK
  <2> QED
    BY <2>2, <2>3, <2>4, QuietlyBegun DEF Kinds, Steps
<1> QED
  BY <1>2, <1>3, <1>4

-----------------------------------------------------------------------------

\* A flow that is neither between storing a reply and superseding, nor between counting
\* and setting the expiry, moves on, and who waits is still attended to.
LEMMA QuietlyMoved ==
  ASSUME DfInv, NEW f \in Flows, NEW v, MovesOnly(f, v), ~At(f, "supersede"), ~At(f, "expiry"),
         CustomerWaits => (Attends(f) => Attends(f)'),
         UNCHANGED <<setting, said, sugg, rate, timer, marred, dfLeft>>,
         pushed' \in Nat, human' \subseteq {"tagged", "marked", "raised"}
  PROVE  DfInv'
<1>1. /\ dfLeft' \in [DfEvents -> Nat]
      /\ timer \subseteq timer' /\ timer' \subseteq Instances /\ marred' \in MarkedSets
      /\ marred.loose \subseteq marred'.loose /\ marred.stuck \subseteq marred'.stuck
      /\ (marred.missed => marred'.missed)
  BY DEF DfInv, DfTyped, DfTypeOK, MarkedSets
<1> QED
  BY <1>1, FlowMoves

LEMMA TryAutoReplyKeeps ==
  ASSUME DfInv, NEW f \in Flows, TryAutoReply(f)
  PROVE  DfInv'
<1>1. /\ At(f, "check") /\ UNCHANGED <<setting, said, pushed, sugg, rate, timer, human, marred, dfLeft>>
      /\ \/ Goes(f, "arm")
         \/ "auto" \in setting /\ (Goes(f, "tag") \/ Stops(f) \/ Goes(f, "count"))
  BY DEF TryAutoReply
<1>2. FlowTyped /\ pushed \in Nat /\ human \subseteq {"tagged", "marked", "raised"}
  BY DEF DfInv, DfTyped, DfTypeOK
<1>3. flow[f] # Free /\ ~At(f, "supersede") /\ ~At(f, "expiry")
  BY <1>1 DEF At
<1>4. CASE Goes(f, "arm")
  <2>1. Attends(f)'
    BY <1>2, <1>3, <1>4, GoesMoves DEF Attends, At, Steps
  <2>2. PICK v : MovesOnly(f, v)
    BY <1>2, <1>3, <1>4, GoesMoves DEF Steps
  <2> QED
    BY <1>1, <1>2, <1>3, <2>1, <2>2, QuietlyMoved
<1>5. CASE "auto" \in setting /\ (Goes(f, "tag") \/ Stops(f) \/ Goes(f, "count"))
  <2>1. ~CustomerWaits
    BY <1>5 DEF CustomerWaits
  <2>2. PICK v : MovesOnly(f, v)
    BY <1>2, <1>3, <1>5, GoesMoves, StopsMoves DEF Steps
  <2> QED
    BY <1>1, <1>2, <1>3, <2>1, <2>2, QuietlyMoved
<1> QED
  BY <1>1, <1>4, <1>5

LEMMA TryHybridDraftKeeps ==
  ASSUME DfInv, NEW f \in Flows, TryHybridDraft(f)
  PROVE  DfInv'
<1>1. /\ At(f, "arm") /\ Stops(f) /\ UNCHANGED <<setting, said, pushed, sugg, rate, human, marred, dfLeft>>
      /\ timer' = IF "hybrid" \in setting THEN timer \union {flow[f].home} ELSE timer
  BY DEF TryHybridDraft
<1>2. FlowTyped /\ DfTypeOK
  BY DEF DfInv, DfTyped
<1>3. flow[f] \in Flow
  BY <1>1, <1>2 DEF At, FlowTyped
<1>4. flow[f].home \in Instances
  BY <1>3 DEF Flow
<1>5. MovesOnly(f, Free)
  BY <1>1, <1>2, StopsMoves
<1>6. ~At(f, "supersede") /\ ~At(f, "expiry")
  BY <1>1 DEF At
<1>7. CustomerWaits => timer' # {}
  BY <1>1 DEF CustomerWaits
<1>8. /\ UNCHANGED <<setting, said, sugg, rate>>
      /\ pushed' \in Nat /\ human' \subseteq {"tagged", "marked", "raised"} /\ dfLeft' \in [DfEvents -> Nat]
      /\ timer \subseteq timer' /\ timer' \subseteq Instances /\ marred' \in MarkedSets
      /\ marred.loose \subseteq marred'.loose /\ marred.stuck \subseteq marred'.stuck
      /\ (marred.missed => marred'.missed)
  BY <1>1, <1>2, <1>4 DEF DfTypeOK, MarkedSets
<1> QED
  BY <1>5, <1>6, <1>7, <1>8, FlowMoves

LEMMA BeginDraftKeeps ==
  ASSUME DfInv, NEW f \in Flows, BeginDraft(f)
  PROVE  DfInv'
<1>1. /\ At(f, "check") /\ Kind(f) = "draft"
      /\ UNCHANGED <<setting, said, pushed, sugg, rate, timer, human, marred, dfLeft>>
      /\ IF "hybrid" \in setting /\ said[Len(said)] = "customer" THEN Goes(f, "count") ELSE Stops(f)
  BY DEF BeginDraft
<1>2. FlowTyped /\ pushed \in Nat /\ human \subseteq {"tagged", "marked", "raised"}
  BY DEF DfInv, DfTyped, DfTypeOK
<1>3. flow[f] # Free /\ ~At(f, "supersede") /\ ~At(f, "expiry")
  BY <1>1 DEF At
<1>4. CASE Goes(f, "count")
  <2>1. Attends(f)'
    BY <1>1, <1>2, <1>3, <1>4, GoesMoves DEF Attends, At, Steps, Kind
  <2>2. PICK v : MovesOnly(f, v)
    BY <1>2, <1>3, <1>4, GoesMoves DEF Steps
  <2> QED
    BY <1>1, <1>2, <1>3, <2>1, <2>2, QuietlyMoved
<1>5. CASE Stops(f) /\ ~("hybrid" \in setting /\ said[Len(said)] = "customer")
  <2>1. ~CustomerWaits
    BY <1>5 DEF CustomerWaits
  <2>2. PICK v : MovesOnly(f, v)
    BY <1>2, <1>5, StopsMoves
  <2> QED
    BY <1>1, <1>2, <1>3, <2>1, <2>2, QuietlyMoved
<1> QED
  BY <1>1, <1>4, <1>5

LEMMA GenerateKeeps ==
  ASSUME DfInv, NEW f \in Flows, Generate(f)
  PROVE  DfInv'
<1> DEFINE v == [flow[f] EXCEPT !.pc = "answer", !.saw = Len(said)]
<1>1. /\ At(f, "generate") /\ flow' = [flow EXCEPT ![f].pc = "answer", ![f].saw = Len(said)]
      /\ UNCHANGED <<setting, said, pushed, sugg, rate, timer, human, marred, dfLeft>>
  BY DEF Generate
<1>2. FlowTyped /\ pushed \in Nat /\ human \subseteq {"tagged", "marked", "raised"} /\ Len(said) \in Nat
  BY DEF DfInv, DfTyped, DfTypeOK
<1>3. flow[f] # Free /\ flow[f].pc = "generate" /\ flow[f] \in Flow /\ ~At(f, "supersede") /\ ~At(f, "expiry")
  BY <1>1, <1>2 DEF At, FlowTyped
<1>4. /\ v \in Flow /\ v.pc = "answer" /\ v.saw = Len(said) /\ v.kind = flow[f].kind
  BY <1>2, <1>3 DEF Flow, Steps
<1>5. flow' = [flow EXCEPT ![f] = v]
  BY <1>1, <1>2 DEF FlowTyped
<1>6. v # Free
  BY <1>4, FlowIsNotFree
<1> HIDE DEF v
<1>7. MovesOnly(f, v) /\ flow'[f] = v
  BY <1>2, <1>4, <1>5 DEF MovesOnly, FlowTyped
<1>8. Attends(f) => Attends(f)'
  BY <1>1, <1>3, <1>4, <1>6, <1>7 DEF Attends, At, Kind
<1> QED
  BY <1>1, <1>2, <1>3, <1>7, <1>8, QuietlyMoved

LEMMA EscalationKeeps ==
  ASSUME DfInv, NEW f \in Flows, Tag(f) \/ Mark(f) \/ Raise(f)
  PROVE  DfInv'
<1>1. /\ At(f, "tag") \/ At(f, "mark") \/ At(f, "raise")
      /\ UNCHANGED <<setting, said, pushed, sugg, rate, timer, marred, dfLeft>>
      /\ Stops(f) \/ Goes(f, "mark") \/ Goes(f, "raise") \/ Goes(f, "retire")
      /\ \E w \in {"tagged", "marked", "raised"} : human' = human \union {w}
  BY DEF Tag, Mark, Raise
<1>2. FlowTyped /\ pushed \in Nat /\ human \subseteq {"tagged", "marked", "raised"}
  BY DEF DfInv, DfTyped, DfTypeOK
<1>3. flow[f] # Free /\ ~At(f, "supersede") /\ ~At(f, "expiry") /\ ~Attends(f)
  BY <1>1 DEF At, Attends
<1>4. PICK v : MovesOnly(f, v)
  BY <1>1, <1>2, <1>3, GoesMoves, StopsMoves DEF Steps
<1> QED
  BY <1>1, <1>2, <1>3, <1>4, QuietlyMoved

LEMMA PushKeeps ==
  ASSUME DfInv, NEW f \in Flows, Push(f)
  PROVE  DfInv'
<1>1. /\ At(f, "push") /\ UNCHANGED <<setting, said, sugg, rate, timer, human, marred, dfLeft>>
      /\ Stops(f) \/ Goes(f, "store")
      /\ pushed' = pushed + 1 \/ pushed' = pushed
  BY DEF Push
<1>2. FlowTyped /\ pushed \in Nat /\ human \subseteq {"tagged", "marked", "raised"}
  BY DEF DfInv, DfTyped, DfTypeOK
<1>3. flow[f] # Free /\ ~At(f, "supersede") /\ ~At(f, "expiry") /\ ~Attends(f)
  BY <1>1 DEF At, Attends
<1>4. PICK v : MovesOnly(f, v)
  BY <1>1, <1>2, <1>3, GoesMoves, StopsMoves DEF Steps
<1> QED
  BY <1>1, <1>2, <1>3, <1>4, QuietlyMoved

\* A draft whose answer does not come is missed; the others made for nobody who waits.
LEMMA TakeAnswerKeeps ==
  ASSUME DfInv, NEW f \in Flows, TakeAnswer(f)
  PROVE  DfInv'
<1>1. /\ At(f, "answer") /\ UNCHANGED <<setting, said, pushed, sugg, rate, timer, human, dfLeft>>
      /\ \/ /\ Stops(f)
            /\ marred' = IF Kind(f) = "draft" THEN [marred EXCEPT !.missed = TRUE] ELSE marred
         \/ marred' = marred /\ Kind(f) \in {"auto", "rule"} /\ (Goes(f, "push") \/ Goes(f, "tag"))
         \/ marred' = marred /\ Goes(f, "retire")
  BY DEF TakeAnswer
<1>2. FlowTyped /\ DfTypeOK
  BY DEF DfInv, DfTyped
<1>3. flow[f] # Free /\ ~At(f, "supersede") /\ ~At(f, "expiry") /\ flow[f].pc = "answer"
  BY <1>1 DEF At
<1>4. PICK v : MovesOnly(f, v)
  BY <1>1, <1>2, <1>3, GoesMoves, StopsMoves DEF Steps
<1>5. marred' \in MarkedSets /\ marred'.loose = marred.loose /\ marred'.stuck = marred.stuck
      /\ (marred.missed => marred'.missed)
  BY <1>1, <1>2 DEF DfTypeOK, MarkedSets
<1>6. ASSUME ~marred'.missed, Attends(f) PROVE Attends(f)'
  <2>1. Kind(f) = "draft" /\ flow[f].saw = Len(said)
    BY <1>3, <1>6 DEF Attends, At
  <2>2. CASE Goes(f, "retire")
    BY <1>1, <1>2, <1>3, <2>1, <2>2, GoesMoves DEF Attends, At, Kind, Steps
  <2>3. CASE Stops(f) /\ marred' = IF Kind(f) = "draft" THEN [marred EXCEPT !.missed = TRUE] ELSE marred
    BY <1>2, <1>6, <2>1, <2>3 DEF DfTypeOK
  <2> QED
    BY <1>1, <2>1, <2>2, <2>3
<1>7. /\ UNCHANGED <<setting, said, sugg, rate>>
      /\ pushed' \in Nat /\ human' \subseteq {"tagged", "marked", "raised"} /\ dfLeft' \in [DfEvents -> Nat]
      /\ timer \subseteq timer' /\ timer' \subseteq Instances
  BY <1>1, <1>2 DEF DfTypeOK
<1> QED
  BY <1>3, <1>4, <1>5, <1>6, <1>7, FlowMoves

\* What a flow takes with it when it breaks off is noted.
LEMMA DamageIsMarked ==
  ASSUME DfTyped, NEW F \in SUBSET Flows
  PROVE  /\ Marred(F) \in MarkedSets
         /\ marred.loose \subseteq Marred(F).loose /\ marred.stuck \subseteq Marred(F).stuck
         /\ marred.missed => Marred(F).missed
         /\ \A f \in F : /\ At(f, "supersede") => flow[f].at \in Marred(F).loose
                         /\ At(f, "expiry") => CounterOf(f) \in Marred(F).stuck
                         /\ Attends(f) => Marred(F).missed
<1>1. \A f \in F : /\ Damage(f).loose = (IF At(f, "supersede") THEN {flow[f].at} ELSE {})
                   /\ Damage(f).missed = (flow[f] # Free /\ (At(f, "arm") \/ At(f, "check") \/ Kind(f) = "draft"))
                   /\ Damage(f).stuck = (IF At(f, "expiry") THEN {CounterOf(f)} ELSE {})
  BY DEF Damage
<1>2. \A f \in Flows : flow[f] # Free => flow[f].at \in Nat
  <2> TAKE f \in Flows
  <2>1. flow[f] # Free => flow[f] \in Flow
    BY DEF DfTyped, DfTypeOK
  <2> QED
    BY <2>1 DEF Flow
<1>3. \A f \in F : /\ Damage(f).loose \subseteq Nat /\ Damage(f).missed \in BOOLEAN /\ Damage(f).stuck \subseteq Counters
                   /\ At(f, "supersede") => flow[f].at \in Damage(f).loose
                   /\ At(f, "expiry") => CounterOf(f) \in Damage(f).stuck
                   /\ Attends(f) => Damage(f).missed
  BY <1>1, <1>2 DEF At, CounterOf, Counters, Attends, Kind
<1>4. /\ Marred(F).loose = marred.loose \union UNION {Damage(f).loose : f \in F}
      /\ Marred(F).missed = (marred.missed \/ \E f \in F : Damage(f).missed)
      /\ Marred(F).stuck = marred.stuck \union UNION {Damage(f).stuck : f \in F}
      /\ Marred(F) = [loose |-> Marred(F).loose, missed |-> Marred(F).missed, stuck |-> Marred(F).stuck]
  BY DEF Marred
<1>5. marred.loose \subseteq Nat /\ marred.missed \in BOOLEAN /\ marred.stuck \subseteq Counters
  BY DEF DfTyped, DfTypeOK
<1>6. Marred(F).loose \subseteq Nat /\ Marred(F).missed \in BOOLEAN /\ Marred(F).stuck \subseteq Counters
  BY <1>3, <1>4, <1>5
<1>7. Marred(F) \in MarkedSets
  BY <1>4, <1>6 DEF MarkedSets
<1> HIDE DEF Damage, Marred
<1>8. \A f \in F : /\ Damage(f).loose \subseteq Marred(F).loose
                   /\ Damage(f).missed => Marred(F).missed
                   /\ Damage(f).stuck \subseteq Marred(F).stuck
  BY <1>4
<1> QED
  BY <1>3, <1>4, <1>7, <1>8

LEMMA FlowFailsKeeps ==
  ASSUME DfInv, NEW f \in Flows, FlowFails(f)
  PROVE  DfInv'
<1>1. /\ Uses("faults") /\ marred' = Marred({f}) /\ Stops(f)
      /\ UNCHANGED <<setting, said, pushed, sugg, rate, timer, human>>
  BY DEF FlowFails
<1>2. DfTyped /\ DfTypeOK /\ FlowTyped
  BY DEF DfInv, DfTyped
<1>3. MovesOnly(f, Free)
  BY <1>1, <1>2, StopsMoves
<1>4. /\ marred' \in MarkedSets /\ marred.loose \subseteq marred'.loose /\ marred.stuck \subseteq marred'.stuck
      /\ (marred.missed => marred'.missed)
      /\ (At(f, "supersede") => flow[f].at \in marred'.loose)
      /\ (At(f, "expiry") => CounterOf(f) \in marred'.stuck)
      /\ (Attends(f) => marred'.missed)
  BY <1>1, <1>2, DamageIsMarked, f \in {f}, {f} \in SUBSET Flows
<1>5. /\ pushed' \in Nat /\ human' \subseteq {"tagged", "marked", "raised"} /\ dfLeft' \in [DfEvents -> Nat]
      /\ timer \subseteq timer' /\ timer' \subseteq Instances
  BY <1>1, <1>2, DfUsed DEF DfTypeOK, DfEvents
<1> QED
  BY <1>1, <1>3, <1>4, <1>5, FlowMoves

-----------------------------------------------------------------------------
(* Steps that change what is suggested, counted or stored.                   *)

LEMMA ShownStays ==
  ASSUME DfInv, said' = said, DOMAIN sugg' = DOMAIN sugg,
         \A i \in DOMAIN sugg : sugg'[i].status = "shown" => sugg[i].status = "shown" /\ sugg'[i].after = sugg[i].after,
         marred.loose \subseteq marred'.loose,
         \A g \in Flows : At(g, "supersede")
            => flow[g].at \in marred'.loose \/ (At(g, "supersede")' /\ flow'[g].at = flow[g].at)
  PROVE  ShownIsUnanswered'
<1> SUFFICES ASSUME NEW i \in DOMAIN sugg, sugg'[i].status = "shown",
                    NEW k \in (sugg[i].after + 1)..Len(said), said[k] = "agent", k \notin marred'.loose
             PROVE  \E g \in Flows : At(g, "supersede")' /\ flow'[g].at = k
  BY DEF ShownIsUnanswered, At
<1>1. sugg[i].status = "shown" /\ k \notin marred.loose
  OBVIOUS
<1>2. PICK g \in Flows : At(g, "supersede") /\ flow[g].at = k
  BY <1>1 DEF ShownIsUnanswered, DfInv
<1> QED
  BY <1>2

LEMMA AttendedStays ==
  ASSUME DfInv, UNCHANGED <<said, setting>>, marred.missed => marred'.missed,
         timer # {} => marred'.missed \/ timer' # {} \/ \E g \in Flows : Attends(g)',
         \A g \in Flows : Attends(g) => \/ marred'.missed \/ Attends(g)'
                                        \/ \E i \in DOMAIN sugg' : sugg'[i].saw = Len(said),
         \A i \in DOMAIN sugg : sugg[i].saw = Len(said) => \E j \in DOMAIN sugg' : sugg'[j].saw = Len(said)
  PROVE  WaitingIsAttended'
<1> SUFFICES ASSUME CustomerWaits', timer' = {}, ~\E i \in DOMAIN sugg' : sugg'[i].saw = Len(said)
             PROVE  \E g \in Flows : Attends(g)'
  BY DEF WaitingIsAttended
<1>1. CustomerWaits /\ ~marred'.missed
  BY DEF CustomerWaits
<1>2. timer # {} \/ \E g \in Flows : Attends(g)
  BY <1>1 DEF WaitingIsAttended, DfInv
<1> QED
  BY <1>1, <1>2

LEMMA ExpiryStays ==
  ASSUME DfInv, rate' = rate, marred.stuck \subseteq marred'.stuck,
         \A g \in Flows : At(g, "expiry")
            => CounterOf(g) \in marred'.stuck \/ (At(g, "expiry")' /\ CounterOf(g)' = CounterOf(g))
  PROVE  CountersExpire'
<1> SUFFICES ASSUME NEW c \in Counters, rate[c].count > 0, ~rate[c].expires, c \notin marred'.stuck
             PROVE  \E g \in Flows : At(g, "expiry")' /\ CounterOf(g)' = c
  BY DEF CountersExpire
<1>1. c \notin marred.stuck
  OBVIOUS
<1>2. PICK g \in Flows : At(g, "expiry") /\ CounterOf(g) = c
  BY <1>1 DEF CountersExpire, DfInv
<1> QED
  BY <1>2

\* A flow that did not move is where it was.
LEMMA UnmovedFlow ==
  ASSUME NEW g, flow'[g] = flow[g], said' = said
  PROVE  /\ \A step : At(g, step)' = At(g, step)
         /\ Attends(g)' = Attends(g) /\ CounterOf(g)' = CounterOf(g)
BY DEF At, Attends, CounterOf, Kind

LEMMA TimerFiresKeeps ==
  ASSUME DfInv, NEW f \in Flows, NEW i \in Instances, TimerFires(f, i)
  PROVE  DfInv'
<1> DEFINE v == [pc |-> "check", kind |-> "draft", home |-> i, saw |-> 0, at |-> 0, prev |-> 0]
<1>1. /\ timer' = timer \ {i} /\ Starts(f, "draft", i, "check", 0)
      /\ UNCHANGED <<setting, said, pushed, sugg, rate, human, marred, dfLeft>>
  BY DEF TimerFires
<1>2. DfTyped /\ DfTypeOK /\ FlowTyped
  BY DEF DfInv, DfTyped
<1>3. /\ MovesOnly(f, v) /\ flow[f] = Free /\ flow'[f] # Free /\ flow'[f].pc = "check"
  BY <1>1, <1>2, StartsMoves DEF Steps, Kinds
<1> HIDE DEF v
<1>4. FlowTyped' /\ \A g \in Flows : g # f => flow'[g] = flow[g]
  BY <1>2, <1>3, MovedFlows
<1>5. Attends(f)' /\ ~Attends(f) /\ ~At(f, "supersede") /\ ~At(f, "expiry")
  BY <1>3, FreeIsNowhere DEF Attends, At
<1>6. \A g \in Flows : g # f => /\ At(g, "supersede")' = At(g, "supersede") /\ At(g, "expiry")' = At(g, "expiry")
                                /\ Attends(g)' = Attends(g) /\ CounterOf(g)' = CounterOf(g)
  BY <1>1, <1>4, UnmovedFlow
<1>7. DfTyped'
  BY <1>1, <1>2, <1>4 DEF DfTyped, DfTypeOK, FlowTyped
<1>8. ShownIsUnanswered'
  BY <1>1, <1>4, <1>5, <1>6, ShownStays
<1>9. WaitingIsAttended'
  BY <1>1, <1>5, <1>6, AttendedStays
<1>10. CountersExpire'
  BY <1>1, <1>5, <1>6, ExpiryStays
<1> QED
  BY <1>7, <1>8, <1>9, <1>10 DEF DfInv

LEMMA SwitchHybridKeeps ==
  ASSUME DfInv, NEW f \in Flows, NEW i \in Instances, SwitchHybrid(f, i)
  PROVE  DfInv'
<1>1. /\ Uses("switches") /\ marred' = [marred EXCEPT !.missed = TRUE]
      /\ UNCHANGED <<said, pushed, sugg, rate, timer, human>>
      /\ setting' = setting \ {"hybrid"} \/ setting' = setting \union {"hybrid"}
      /\ Starts(f, "draft", i, "hide", 0) \/ flow' = flow
  BY DEF SwitchHybrid
<1>2. DfTyped /\ DfTypeOK /\ FlowTyped
  BY DEF DfInv, DfTyped
<1>3. /\ FlowTyped' /\ \A g \in Flows : flow'[g] = flow[g] \/ (g = f /\ flow[f] = Free)
  <2>1. CASE flow' = flow
    BY <1>2, <2>1 DEF FlowTyped
  <2>2. CASE Starts(f, "draft", i, "hide", 0)
    <3>1. PICK v : MovesOnly(f, v) /\ flow[f] = Free
      BY <1>2, <2>2, StartsMoves DEF Steps, Kinds
    <3> QED
      BY <1>2, <3>1, MovedFlows
  <2> QED
    BY <1>1, <2>1, <2>2
<1>4. marred' \in MarkedSets /\ marred'.loose = marred.loose /\ marred'.stuck = marred.stuck /\ marred'.missed
  BY <1>1, <1>2 DEF DfTypeOK, MarkedSets
<1>5. dfLeft' \in [DfEvents -> Nat] /\ setting' \subseteq Features
  BY <1>1, <1>2, DfUsed DEF DfEvents, DfTypeOK, Features
<1>6. DfTyped'
  BY <1>1, <1>2, <1>3, <1>4, <1>5 DEF DfTyped, DfTypeOK, FlowTyped, MarkedSets
<1>7. \A g \in Flows : /\ At(g, "supersede") => At(g, "supersede")' /\ flow'[g].at = flow[g].at
                       /\ At(g, "expiry") => At(g, "expiry")' /\ CounterOf(g)' = CounterOf(g)
  BY <1>3 DEF At, CounterOf, Kind
<1>8. ShownIsUnanswered'
  BY <1>1, <1>4, <1>7, ShownStays
<1>9. WaitingIsAttended'
  BY <1>4 DEF WaitingIsAttended, CustomerWaits
<1>10. CountersExpire'
  BY <1>1, <1>4, <1>7, ExpiryStays
<1> QED
  BY <1>6, <1>8, <1>9, <1>10 DEF DfInv

-----------------------------------------------------------------------------

\* The suggestions are what they were, but for their status.
Restatused ==
  /\ sugg' \in Seq(Suggestion) /\ Len(sugg') = Len(sugg) /\ DOMAIN sugg' = DOMAIN sugg
  /\ \A k \in DOMAIN sugg : /\ sugg'[k].after = sugg[k].after /\ sugg'[k].saw = sugg[k].saw
                            /\ sugg'[k].status = "shown" => sugg[k].status = "shown"

LEMMA ListedIsSequence ==
  ASSUME NEW S, NEW n \in Nat, NEW q \in [1..n -> S]
  PROVE  q \in Seq(S) /\ Len(q) = n /\ DOMAIN q = 1..n
OBVIOUS

LEMMA SupersededRestatuses ==
  ASSUME DfTypeOK, NEW which, sugg' = Superseded(which)
  PROVE  Restatused /\ \A k \in DOMAIN sugg : k \in which => sugg'[k].status # "shown"
<1> DEFINE e(k) == IF sugg[k].status = "shown" /\ k \in which THEN [sugg[k] EXCEPT !.status = "superseded"] ELSE sugg[k]
<1>1. sugg \in Seq(Suggestion)
  BY DEF DfTypeOK
<1>2. \A k \in DOMAIN sugg : sugg[k] \in Suggestion
  BY <1>1
<1>3. ASSUME NEW k \in DOMAIN sugg
      PROVE  /\ e(k) \in Suggestion /\ e(k).after = sugg[k].after /\ e(k).saw = sugg[k].saw
             /\ e(k).status = "shown" => sugg[k].status = "shown" /\ k \notin which
  BY <1>2 DEF Suggestion, SuggestionStatus
<1>4. sugg' = [k \in DOMAIN sugg |-> e(k)]
  BY DEF Superseded
<1> HIDE DEF e
<1>5. DOMAIN sugg = 1..Len(sugg) /\ Len(sugg) \in Nat
  BY <1>1
<1>6. sugg' \in [1..Len(sugg) -> Suggestion]
  BY <1>3, <1>4, <1>5
<1>6a. ASSUME NEW q \in [1..Len(sugg) -> Suggestion]
       PROVE  q \in Seq(Suggestion) /\ Len(q) = Len(sugg) /\ DOMAIN q = 1..Len(sugg)
  BY <1>5, ListedIsSequence
<1>7. sugg' \in Seq(Suggestion) /\ Len(sugg') = Len(sugg) /\ DOMAIN sugg' = DOMAIN sugg
  BY <1>5, <1>6, <1>6a
<1>8. \A k \in DOMAIN sugg : sugg'[k] = e(k)
  BY <1>4
<1> QED
  BY <1>3, <1>7, <1>8 DEF Restatused

LEMMA VerdictRestatuses ==
  ASSUME DfTypeOK, NEW p, NEW s \in SuggestionStatus \ {"shown"}, sugg' = [sugg EXCEPT ![p].status = s]
  PROVE  Restatused
<1> DEFINE e(k) == IF k = p THEN [sugg[k] EXCEPT !.status = s] ELSE sugg[k]
<1>1. sugg \in Seq(Suggestion)
  BY DEF DfTypeOK
<1>2. \A k \in DOMAIN sugg : sugg[k] \in Suggestion
  BY <1>1
<1>3. ASSUME NEW k \in DOMAIN sugg
      PROVE  /\ e(k) \in Suggestion /\ e(k).after = sugg[k].after /\ e(k).saw = sugg[k].saw
             /\ e(k).status = "shown" => sugg[k].status = "shown"
  BY <1>2 DEF Suggestion
<1>5. DOMAIN sugg = 1..Len(sugg) /\ Len(sugg) \in Nat
  BY <1>1
<1>4. sugg' = [k \in DOMAIN sugg |-> e(k)]
  BY <1>1, <1>5
<1> HIDE DEF e
<1>6. sugg' \in [1..Len(sugg) -> Suggestion]
  BY <1>3, <1>4, <1>5
<1>6a. ASSUME NEW q \in [1..Len(sugg) -> Suggestion]
       PROVE  q \in Seq(Suggestion) /\ Len(q) = Len(sugg) /\ DOMAIN q = 1..Len(sugg)
  BY <1>5, ListedIsSequence
<1>7. sugg' \in Seq(Suggestion) /\ Len(sugg') = Len(sugg) /\ DOMAIN sugg' = DOMAIN sugg
  BY <1>5, <1>6, <1>6a
<1>8. \A k \in DOMAIN sugg : sugg'[k] = e(k)
  BY <1>4
<1> QED
  BY <1>3, <1>7, <1>8 DEF Restatused

\* Suggestions change their status, and a flow that holds nothing dear moves.
LEMMA RestatusingKeeps ==
  ASSUME DfInv, Restatused, FlowTyped', UNCHANGED <<setting, said, pushed, rate, timer, human, marred>>,
         dfLeft' \in [DfEvents -> Nat],
         \A g \in Flows : /\ At(g, "supersede") => At(g, "supersede")' /\ flow'[g].at = flow[g].at
                          /\ At(g, "expiry") => At(g, "expiry")' /\ CounterOf(g)' = CounterOf(g)
                          /\ Attends(g) => Attends(g)'
  PROVE  DfInv'
<1>1. DfTyped /\ DfTypeOK
  BY DEF DfInv, DfTyped
<1>2. DfTyped'
  BY <1>1 DEF DfTyped, DfTypeOK, FlowTyped, Restatused
<1>3. ShownIsUnanswered'
  BY ShownStays DEF Restatused
<1>4. WaitingIsAttended'
  BY AttendedStays DEF Restatused
<1>5. CountersExpire'
  BY ExpiryStays
<1> QED
  BY <1>2, <1>3, <1>4, <1>5 DEF DfInv

LEMMA UpdateSuggestionKeeps ==
  ASSUME DfInv, NEW k, NEW s \in {"sent", "edited", "rejected"}, UpdateSuggestion(k, s)
  PROVE  DfInv'
<1>1. /\ Uses("verdicts") /\ sugg' = [sugg EXCEPT ![k].status = s]
      /\ UNCHANGED <<setting, said, pushed, rate, timer, flow, human, marred>>
  BY DEF UpdateSuggestion
<1>2. DfTyped /\ DfTypeOK /\ FlowTyped
  BY DEF DfInv, DfTyped
<1>3. Restatused
  BY <1>1, <1>2, VerdictRestatuses DEF SuggestionStatus
<1>4. dfLeft' \in [DfEvents -> Nat] /\ FlowTyped'
  BY <1>1, <1>2, DfUsed DEF DfEvents, FlowTyped
<1>5. \A g \in Flows : /\ At(g, "supersede") => At(g, "supersede")' /\ flow'[g].at = flow[g].at
                       /\ At(g, "expiry") => At(g, "expiry")' /\ CounterOf(g)' = CounterOf(g)
                       /\ Attends(g) => Attends(g)'
  BY <1>1, UnmovedFlow
<1> QED
  BY <1>1, <1>3, <1>4, <1>5, RestatusingKeeps

LEMMA HideDraftsKeeps ==
  ASSUME DfInv, NEW f \in Flows, HideDrafts(f)
  PROVE  DfInv'
<1>1. /\ At(f, "hide") /\ sugg' = Superseded(Background) /\ Stops(f)
      /\ UNCHANGED <<setting, said, pushed, rate, timer, human, marred, dfLeft>>
  BY DEF HideDrafts
<1>2. DfTyped /\ DfTypeOK /\ FlowTyped
  BY DEF DfInv, DfTyped
<1>3. Restatused
  BY <1>1, <1>2, SupersededRestatuses
<1>4. MovesOnly(f, Free)
  BY <1>1, <1>2, StopsMoves
<1>5. FlowTyped' /\ \A g \in Flows : g # f => flow'[g] = flow[g]
  BY <1>2, <1>4, MovedFlows
<1>6. ~At(f, "supersede") /\ ~At(f, "expiry") /\ ~Attends(f)
  BY <1>1 DEF At, Attends
<1>7. \A g \in Flows : /\ At(g, "supersede") => At(g, "supersede")' /\ flow'[g].at = flow[g].at
                       /\ At(g, "expiry") => At(g, "expiry")' /\ CounterOf(g)' = CounterOf(g)
                       /\ Attends(g) => Attends(g)'
  BY <1>1, <1>5, <1>6, UnmovedFlow
<1>8. dfLeft' \in [DfEvents -> Nat]
  BY <1>1, <1>2 DEF DfTypeOK
<1> QED
  BY <1>1, <1>3, <1>5, <1>7, <1>8, RestatusingKeeps

LEMMA RetireKeeps ==
  ASSUME DfInv, NEW f \in Flows, Retire(f)
  PROVE  DfInv'
<1>1. /\ At(f, "retire") /\ Goes(f, "offer")
      /\ \/ UNCHANGED sugg \/ sugg' = [sugg EXCEPT ![flow[f].prev].status = "superseded"]
         \/ sugg' = Superseded(DOMAIN sugg)
      /\ UNCHANGED <<setting, said, pushed, rate, timer, human, marred, dfLeft>>
  BY DEF Retire
<1>2. DfTyped /\ DfTypeOK /\ FlowTyped
  BY DEF DfInv, DfTyped
<1>3. Restatused
  <2>1. CASE UNCHANGED sugg
    BY <1>2, <2>1 DEF Restatused, DfTypeOK
  <2>2. CASE sugg' = [sugg EXCEPT ![flow[f].prev].status = "superseded"]
    <3>1. "superseded" \in SuggestionStatus \ {"shown"}
      BY DEF SuggestionStatus
    <3> QED
      BY <1>2, <2>2, <3>1, VerdictRestatuses
  <2>3. CASE sugg' = Superseded(DOMAIN sugg)
    BY <1>2, <2>3, SupersededRestatuses
  <2> QED
    BY <1>1, <2>1, <2>2, <2>3
<1>4. flow[f] # Free /\ flow[f].pc = "retire"
  BY <1>1 DEF At
<1>5. PICK v : /\ MovesOnly(f, v) /\ flow'[f] # Free /\ flow'[f].pc = "offer"
               /\ flow'[f].kind = flow[f].kind /\ flow'[f].saw = flow[f].saw
  BY <1>1, <1>2, <1>4, GoesMoves DEF Steps
<1>6. FlowTyped' /\ \A g \in Flows : g # f => flow'[g] = flow[g]
  BY <1>2, <1>5, MovedFlows
<1>7. ~At(f, "supersede") /\ ~At(f, "expiry") /\ (Attends(f) => Attends(f)')
  BY <1>1, <1>4, <1>5 DEF At, Attends, Kind
<1>8. \A g \in Flows : /\ At(g, "supersede") => At(g, "supersede")' /\ flow'[g].at = flow[g].at
                       /\ At(g, "expiry") => At(g, "expiry")' /\ CounterOf(g)' = CounterOf(g)
                       /\ Attends(g) => Attends(g)'
  BY <1>1, <1>6, <1>7, UnmovedFlow
<1>9. dfLeft' \in [DfEvents -> Nat]
  BY <1>1, <1>2 DEF DfTypeOK
<1> QED
  BY <1>1, <1>3, <1>6, <1>8, <1>9, RestatusingKeeps

\* The new suggestion follows every message there is.
LEMMA OfferKeeps ==
  ASSUME DfInv, NEW f \in Flows, Offer(f)
  PROVE  DfInv'
<1> DEFINE s == [status |-> "shown", background |-> Kind(f) # "ask", saw |-> flow[f].saw, after |-> Len(said)]
<1>1. /\ At(f, "offer") /\ sugg' = Append(sugg, s) /\ Stops(f)
      /\ UNCHANGED <<setting, said, pushed, rate, timer, human, marred, dfLeft>>
  BY DEF Offer
<1>2. DfTyped /\ DfTypeOK /\ FlowTyped
  BY DEF DfInv, DfTyped
<1>3. flow[f] # Free /\ flow[f].pc = "offer" /\ flow[f] \in Flow
  BY <1>1, <1>2 DEF At, FlowTyped
<1>4. s \in Suggestion /\ s.after = Len(said) /\ s.saw = flow[f].saw /\ Len(said) \in Nat
  BY <1>2, <1>3 DEF Suggestion, SuggestionStatus, Flow, DfTypeOK
<1> HIDE DEF s
<1>5. /\ sugg \in Seq(Suggestion) /\ sugg' \in Seq(Suggestion) /\ DOMAIN sugg = 1..Len(sugg)
      /\ DOMAIN sugg' = 1..(Len(sugg) + 1) /\ Len(sugg) \in Nat /\ sugg'[Len(sugg) + 1] = s
      /\ \A k \in DOMAIN sugg : k \in DOMAIN sugg' /\ sugg'[k] = sugg[k]
  BY <1>1, <1>2, <1>4 DEF DfTypeOK
<1>6. MovesOnly(f, Free)
  BY <1>1, <1>2, StopsMoves
<1>7. FlowTyped' /\ \A g \in Flows : g # f => flow'[g] = flow[g]
  BY <1>2, <1>6, MovedFlows
<1>8. ~At(f, "supersede") /\ ~At(f, "expiry")
  BY <1>1 DEF At
<1>9. \A g \in Flows : g # f => /\ At(g, "supersede")' = At(g, "supersede") /\ At(g, "expiry")' = At(g, "expiry")
                                /\ Attends(g)' = Attends(g) /\ CounterOf(g)' = CounterOf(g)
  BY <1>1, <1>7, UnmovedFlow
<1>10. DfTyped'
  BY <1>1, <1>2, <1>5, <1>7 DEF DfTyped, DfTypeOK, FlowTyped
<1>11. ShownIsUnanswered'
  <2> SUFFICES ASSUME NEW i \in DOMAIN sugg', sugg'[i].status = "shown",
                      NEW k \in (sugg'[i].after + 1)..Len(said), said[k] = "agent", k \notin marred.loose
               PROVE  \E g \in Flows : At(g, "supersede")' /\ flow'[g].at = k
    <3>1. said' = said /\ marred' = marred
      BY <1>1
    <3> QED
      BY <3>1 DEF ShownIsUnanswered
  <2>1. i # Len(sugg) + 1
    <3> SUFFICES ASSUME i = Len(sugg) + 1 PROVE FALSE
      OBVIOUS
    <3>1. sugg'[i].after = Len(said)
      BY <1>4, <1>5
    <3> QED
      BY <1>4, <3>1
  <2>2. i \in DOMAIN sugg
    BY <1>5, <2>1
  <2>3. sugg'[i] = sugg[i]
    BY <1>5, <2>2
  <2>4. sugg[i].status = "shown" /\ k \in (sugg[i].after + 1)..Len(said)
    BY <2>3
  <2>5. PICK g \in Flows : At(g, "supersede") /\ flow[g].at = k
    BY <2>2, <2>4 DEF ShownIsUnanswered, DfInv
  <2>6. g # f
    BY <1>8, <2>5
  <2> QED
    BY <1>7, <1>9, <2>5, <2>6
<1>12. WaitingIsAttended'
  <2>1. Attends(f) => sugg'[Len(sugg) + 1].saw = Len(said)
    BY <1>3, <1>4, <1>5 DEF Attends, At
  <2>2. \A g \in Flows : Attends(g) => Attends(g)' \/ \E i \in DOMAIN sugg' : sugg'[i].saw = Len(said)
    BY <1>5, <1>9, <2>1
  <2>3. \A i \in DOMAIN sugg : sugg[i].saw = Len(said) => \E j \in DOMAIN sugg' : sugg'[j].saw = Len(said)
    BY <1>5
  <2> QED
    BY <1>1, <2>2, <2>3, AttendedStays
<1>13. CountersExpire'
  BY <1>1, <1>8, <1>9, ExpiryStays
<1> QED
  BY <1>10, <1>11, <1>12, <1>13 DEF DfInv

-----------------------------------------------------------------------------

LEMMA CountRateKeeps ==
  ASSUME DfInv, NEW f \in Flows, CountRate(f)
  PROVE  DfInv'
<1> DEFINE c == CounterOf(f)
           n == rate[c].count + 1
<1>1. /\ At(f, "count") /\ rate' = [rate EXCEPT ![c].count = n]
      /\ \/ NeedsExpiry(n) /\ Goes(f, "expiry")
         \/ ~NeedsExpiry(n) /\ n > DfLimit /\ Stops(f)
         \/ ~NeedsExpiry(n) /\ ~(n > DfLimit) /\ Goes(f, "generate")
      /\ marred' = IF n > DfLimit /\ Kind(f) = "draft" THEN [marred EXCEPT !.missed = TRUE] ELSE marred
      /\ UNCHANGED <<setting, said, pushed, sugg, timer, human, dfLeft>>
  BY DEF CountRate
<1>2. DfTyped /\ DfTypeOK /\ FlowTyped
  BY DEF DfInv, DfTyped
<1>3. flow[f] # Free /\ flow[f].pc = "count" /\ c \in Counters
  BY <1>1 DEF At, CounterOf, Counters
<1>4. /\ n \in Nat \ {0} /\ \A d \in Counters : rate[d].count \in Nat /\ rate[d].expires \in BOOLEAN
  BY <1>2, <1>3 DEF DfTypeOK
<1> HIDE DEF n
<1>5. /\ rate' \in [Counters -> [count : Nat, expires : BOOLEAN]]
      /\ \A d \in Counters : d # c => rate'[d] = rate[d]
      /\ rate'[c].count = n /\ rate'[c].expires = rate[c].expires
  BY <1>1, <1>2, <1>3, <1>4 DEF DfTypeOK
<1>6. PICK v : MovesOnly(f, v)
  BY <1>1, <1>2, <1>3, GoesMoves, StopsMoves DEF Steps
<1>7. FlowTyped' /\ \A g \in Flows : g # f => flow'[g] = flow[g]
  BY <1>2, <1>6, MovedFlows
<1>8. marred' \in MarkedSets /\ marred'.loose = marred.loose /\ marred'.stuck = marred.stuck
      /\ (marred.missed => marred'.missed)
  BY <1>1, <1>2 DEF DfTypeOK, MarkedSets
<1>9. \A g \in Flows : g # f => /\ At(g, "supersede")' = At(g, "supersede") /\ At(g, "expiry")' = At(g, "expiry")
                                /\ Attends(g)' = Attends(g) /\ CounterOf(g)' = CounterOf(g)
  BY <1>1, <1>7, UnmovedFlow
<1>10. ~At(f, "supersede") /\ ~At(f, "expiry")
  BY <1>3 DEF At
<1>11. DfTyped'
  BY <1>1, <1>2, <1>5, <1>7, <1>8 DEF DfTyped, DfTypeOK, FlowTyped, MarkedSets
<1>12. ShownIsUnanswered'
  BY <1>1, <1>7, <1>8, <1>9, <1>10, ShownStays
<1>13. WaitingIsAttended'
  <2>1. ASSUME Attends(f), ~marred'.missed PROVE Attends(f)'
    <3>1. Kind(f) = "draft"
      BY <1>3, <2>1 DEF Attends, At
    <3>2. ~(n > DfLimit)
      BY <1>1, <2>1, <3>1, <1>2 DEF DfTypeOK
    <3>3. CASE Goes(f, "expiry")
      BY <1>2, <1>3, <3>1, <3>3, GoesMoves DEF Attends, Steps, Kind
    <3>4. CASE Goes(f, "generate")
      BY <1>2, <1>3, <3>1, <3>4, GoesMoves DEF Attends, Steps, Kind
    <3>5. CASE ~NeedsExpiry(n) /\ n > DfLimit /\ Stops(f)
      BY <3>2, <3>5
    <3> QED
      BY <1>1, <3>3, <3>4, <3>5
  <2>2. \A g \in Flows : Attends(g) => marred'.missed \/ Attends(g)'
    BY <1>9, <2>1
  <2> QED
    BY <1>1, <1>8, <2>2, AttendedStays
<1>14. CountersExpire'
  <2> SUFFICES ASSUME NEW d \in Counters, rate'[d].count > 0, ~rate'[d].expires, d \notin marred'.stuck
               PROVE  \E g \in Flows : At(g, "expiry")' /\ CounterOf(g)' = d
    BY DEF CountersExpire
  <2>1. CASE d = c /\ n = 1
    <3>1. Goes(f, "expiry")
      BY <1>1, <2>1 DEF NeedsExpiry
    <3>2. flow'[f] # Free /\ flow'[f].pc = "expiry" /\ flow'[f].kind = flow[f].kind
      BY <1>2, <1>3, <3>1, GoesMoves DEF Steps
    <3> QED
      BY <2>1, <3>2 DEF At, CounterOf, Kind
  <2>2. CASE ~(d = c /\ n = 1)
    <3>1. rate[d].count > 0 /\ ~rate[d].expires
      BY <1>4, <1>5, <2>2 DEF n
    <3>2. PICK g \in Flows : At(g, "expiry") /\ CounterOf(g) = d
      BY <1>8, <3>1 DEF CountersExpire, DfInv
    <3> QED
      BY <1>9, <1>10, <3>2
  <2> QED
    BY <2>1, <2>2
<1> QED
  BY <1>11, <1>12, <1>13, <1>14 DEF DfInv

LEMMA SetExpiryKeeps ==
  ASSUME DfInv, NEW f \in Flows, SetExpiry(f)
  PROVE  DfInv'
<1> DEFINE c == CounterOf(f)
<1>1. /\ At(f, "expiry") /\ Goes(f, "generate")
      /\ rate' = [rate EXCEPT ![c].expires = @ \/ rate[c].count > 0]
      /\ UNCHANGED <<setting, said, pushed, sugg, timer, human, marred, dfLeft>>
  BY DEF SetExpiry
<1>2. DfTyped /\ DfTypeOK /\ FlowTyped
  BY DEF DfInv, DfTyped
<1>3. flow[f] # Free /\ flow[f].pc = "expiry" /\ c \in Counters
  BY <1>1 DEF At, CounterOf, Counters
<1>4. \A d \in Counters : rate[d] \in [count : Nat, expires : BOOLEAN]
  BY <1>2 DEF DfTypeOK
<1> DEFINE w == [rate[c] EXCEPT !.expires = @ \/ rate[c].count > 0]
<1>5. w \in [count : Nat, expires : BOOLEAN] /\ (w.count > 0 => w.expires)
  BY <1>3, <1>4
<1>6. rate' = [rate EXCEPT ![c] = w]
  BY <1>1
<1> HIDE DEF w
<1>7. /\ rate' \in [Counters -> [count : Nat, expires : BOOLEAN]]
      /\ \A d \in Counters : d # c => rate'[d] = rate[d]
      /\ rate'[c] = w
  BY <1>2, <1>3, <1>5, <1>6 DEF DfTypeOK
<1>8. PICK v : MovesOnly(f, v) /\ flow'[f] # Free /\ flow'[f].pc = "generate" /\ flow'[f].kind = flow[f].kind
  BY <1>1, <1>2, <1>3, GoesMoves DEF Steps
<1>9. FlowTyped' /\ \A g \in Flows : g # f => flow'[g] = flow[g]
  BY <1>2, <1>8, MovedFlows
<1>10. \A g \in Flows : g # f => /\ At(g, "supersede")' = At(g, "supersede") /\ At(g, "expiry")' = At(g, "expiry")
                                 /\ Attends(g)' = Attends(g) /\ CounterOf(g)' = CounterOf(g)
  BY <1>1, <1>9, UnmovedFlow
<1>11. ~At(f, "supersede") /\ (Attends(f) => Attends(f)')
  BY <1>3, <1>8 DEF At, Attends, Kind
<1>12. DfTyped'
  BY <1>1, <1>2, <1>7, <1>9 DEF DfTyped, DfTypeOK, FlowTyped
<1>13. ShownIsUnanswered'
  BY <1>1, <1>9, <1>10, <1>11, ShownStays
<1>14. WaitingIsAttended'
  BY <1>1, <1>10, <1>11, AttendedStays
<1>15. CountersExpire'
  <2> SUFFICES ASSUME NEW d \in Counters, rate'[d].count > 0, ~rate'[d].expires, d \notin marred'.stuck
               PROVE  \E g \in Flows : At(g, "expiry")' /\ CounterOf(g)' = d
    BY DEF CountersExpire
  <2>1. d # c
    BY <1>5, <1>7
  <2>2. rate[d].count > 0 /\ ~rate[d].expires /\ d \notin marred.stuck
    BY <1>1, <1>7, <2>1
  <2>3. PICK g \in Flows : At(g, "expiry") /\ CounterOf(g) = d
    BY <2>2 DEF CountersExpire, DfInv
  <2>4. g # f
    BY <2>1, <2>3
  <2> QED
    BY <1>10, <2>3, <2>4
<1> QED
  BY <1>12, <1>13, <1>14, <1>15 DEF DfInv

LEMMA ExpireKeeps ==
  ASSUME DfInv, NEW c \in Counters, Expire(c)
  PROVE  DfInv'
<1>1. /\ rate' = [rate EXCEPT ![c] = NoneCounted]
      /\ UNCHANGED <<setting, said, pushed, sugg, timer, flow, human, marred, dfLeft>>
  BY DEF Expire
<1>2. DfTyped /\ DfTypeOK /\ FlowTyped
  BY DEF DfInv, DfTyped
<1>3. /\ rate' \in [Counters -> [count : Nat, expires : BOOLEAN]]
      /\ \A d \in Counters : rate'[d] = rate[d] \/ rate'[d].count = 0
  BY <1>1, <1>2 DEF DfTypeOK, NoneCounted
<1>4. \A g \in Flows : /\ At(g, "supersede")' = At(g, "supersede") /\ At(g, "expiry")' = At(g, "expiry")
                       /\ Attends(g)' = Attends(g) /\ CounterOf(g)' = CounterOf(g)
  BY <1>1, UnmovedFlow
<1>5. DfTyped'
  BY <1>1, <1>2, <1>3 DEF DfTyped, DfTypeOK, FlowTyped
<1>6. ShownIsUnanswered'
  BY <1>1, <1>4, ShownStays
<1>7. WaitingIsAttended'
  BY <1>1, <1>4, AttendedStays
<1>8. CountersExpire'
  BY <1>1, <1>3, <1>4 DEF CountersExpire, DfInv
<1> QED
  BY <1>5, <1>6, <1>7, <1>8 DEF DfInv

\* A reply of an agent is the last message, and its flow goes on to supersede.
LEMMA StoreReplyKeeps ==
  ASSUME DfInv, NEW f \in Flows, StoreReply(f)
  PROVE  DfInv'
<1> DEFINE who == IF Kind(f) = "reply" THEN "agent" ELSE "system"
           v == IF Kind(f) = "reply" THEN [flow[f] EXCEPT !.pc = "supersede", !.at = Len(said) + 1] ELSE Free
<1>1. /\ At(f, "store") /\ said' = Append(said, who)
      /\ flow' = [flow EXCEPT ![f] = IF Kind(f) = "reply"
                                     THEN [@ EXCEPT !.pc = "supersede", !.at = Len(said) + 1] ELSE Free]
      /\ UNCHANGED <<setting, pushed, sugg, rate, timer, human, marred, dfLeft>>
  BY DEF StoreReply
<1>2. DfTyped /\ DfTypeOK /\ FlowTyped
  BY DEF DfInv, DfTyped
<1>3. flow[f] # Free /\ flow[f].pc = "store" /\ flow[f] \in Flow /\ Len(said) \in Nat
  BY <1>1, <1>2 DEF At, FlowTyped, DfTypeOK
<1>4. /\ v \in Flow \union {Free}
      /\ Kind(f) = "reply" => v \in Flow /\ v.pc = "supersede" /\ v.at = Len(said) + 1
  <2> DEFINE w == [flow[f] EXCEPT !.pc = "supersede", !.at = Len(said) + 1]
  <2>1. w \in Flow /\ w.pc = "supersede" /\ w.at = Len(said) + 1
    <3>1. Len(said) + 1 \in Nat /\ "supersede" \in Steps
      BY <1>3 DEF Steps
    <3> QED
      BY <1>3, <3>1 DEF Flow
  <2>2. v = IF Kind(f) = "reply" THEN w ELSE Free
    OBVIOUS
  <2> HIDE DEF w, v
  <2> QED
    BY <2>1, <2>2
<1>5. Kind(f) = "reply" => v # Free
  BY <1>4, FlowIsNotFree
<1>6. flow' = [flow EXCEPT ![f] = v]
  BY <1>1, <1>2 DEF FlowTyped
<1> HIDE DEF v
<1>7. MovesOnly(f, v) /\ flow'[f] = v
  BY <1>2, <1>4, <1>6 DEF MovesOnly, FlowTyped
<1>8. FlowTyped' /\ \A g \in Flows : g # f => flow'[g] = flow[g]
  BY <1>2, <1>7, MovedFlows
<1>9. /\ said' \in Seq(Voices) /\ Len(said') = Len(said) + 1
      /\ said'[Len(said) + 1] = who /\ who # "customer"
      /\ \A k \in 1..Len(said) : said'[k] = said[k]
  BY <1>1, <1>2, <1>3 DEF DfTypeOK, Voices
<1>10. ~At(f, "supersede") /\ ~At(f, "expiry")
  BY <1>3 DEF At
<1>11. DfTyped'
  BY <1>1, <1>2, <1>8, <1>9 DEF DfTyped, DfTypeOK, FlowTyped
<1>12. ShownIsUnanswered'
  <2> SUFFICES ASSUME NEW j \in DOMAIN sugg, sugg[j].status = "shown",
                      NEW k \in (sugg[j].after + 1)..Len(said'), said'[k] = "agent", k \notin marred.loose
               PROVE  \E g \in Flows : At(g, "supersede")' /\ flow'[g].at = k
    <3>1. sugg' = sugg /\ marred' = marred
      BY <1>1
    <3> QED
      BY <3>1 DEF ShownIsUnanswered
  <2>1. sugg[j] \in Suggestion
    BY <1>2 DEF DfTypeOK
  <2>2. sugg[j].after \in Nat
    BY <2>1 DEF Suggestion
  <2>3. k \in Nat /\ k >= sugg[j].after + 1 /\ k <= Len(said) + 1
    BY <1>3, <1>9, <2>2
  <2>4. CASE k = Len(said) + 1
    <3>1. Kind(f) = "reply"
      BY <1>9, <2>4
    <3> QED
      BY <1>4, <1>5, <1>7, <2>4, <3>1 DEF At
  <2>5. CASE k # Len(said) + 1
    <3>1. k \in 1..Len(said) /\ k \in (sugg[j].after + 1)..Len(said)
      BY <1>3, <2>2, <2>3, <2>5
    <3>2. said[k] = "agent"
      BY <1>9, <3>1
    <3>3. PICK g \in Flows : At(g, "supersede") /\ flow[g].at = k
      BY <3>1, <3>2 DEF ShownIsUnanswered, DfInv
    <3>4. flow'[g] = flow[g]
      BY <1>8, <1>10, <3>3
    <3> QED
      BY <3>3, <3>4 DEF At
  <2> QED
    BY <2>4, <2>5
<1>13. WaitingIsAttended'
  <2>1. said'[Len(said')] # "customer"
    BY <1>9
  <2> QED
    BY <2>1 DEF WaitingIsAttended, CustomerWaits
<1>14. CountersExpire'
  <2>1. \A g \in Flows : At(g, "expiry") => At(g, "expiry")' /\ CounterOf(g)' = CounterOf(g)
    BY <1>8, <1>10 DEF At, CounterOf, Kind
  <2> QED
    BY <1>1, <2>1, ExpiryStays
<1> QED
  BY <1>11, <1>12, <1>13, <1>14 DEF DfInv

\* Superseding leaves nothing shown.
LEMMA SupersedeByReplyKeeps ==
  ASSUME DfInv, NEW f \in Flows, SupersedeByReply(f)
  PROVE  DfInv'
<1>1. /\ At(f, "supersede") /\ sugg' = Superseded(DOMAIN sugg) /\ Stops(f)
      /\ UNCHANGED <<setting, said, pushed, rate, timer, human, marred, dfLeft>>
  BY DEF SupersedeByReply, GivesWay
<1>2. DfTyped /\ DfTypeOK /\ FlowTyped
  BY DEF DfInv, DfTyped
<1>3. Restatused /\ \A k \in DOMAIN sugg : sugg'[k].status # "shown"
  BY <1>1, <1>2, SupersededRestatuses
<1>4. MovesOnly(f, Free)
  BY <1>1, <1>2, StopsMoves
<1>5. FlowTyped' /\ \A g \in Flows : g # f => flow'[g] = flow[g]
  BY <1>2, <1>4, MovedFlows
<1>6. ~At(f, "expiry") /\ ~Attends(f)
  BY <1>1 DEF At, Attends
<1>7. \A g \in Flows : /\ At(g, "expiry") => At(g, "expiry")' /\ CounterOf(g)' = CounterOf(g)
                       /\ Attends(g) => Attends(g)'
  BY <1>1, <1>5, <1>6, UnmovedFlow
<1>8. DfTyped'
  BY <1>1, <1>2, <1>3, <1>5 DEF DfTyped, DfTypeOK, FlowTyped, Restatused
<1>9. ShownIsUnanswered'
  BY <1>3 DEF ShownIsUnanswered, Restatused
<1>10. WaitingIsAttended'
  BY <1>1, <1>3, <1>7, AttendedStays DEF Restatused
<1>11. CountersExpire'
  BY <1>1, <1>7, ExpiryStays
<1> QED
  BY <1>8, <1>9, <1>10, <1>11 DEF DfInv

LEMMA InstanceDiesKeeps ==
  ASSUME DfInv, NEW i \in Instances, InstanceDies(i)
  PROVE  DfInv'
<1> DEFINE dead == {f \in Flows : flow[f] # Free /\ flow[f].home = i}
<1>1. /\ Uses("crashes") /\ marred' = [Marred(dead) EXCEPT !.missed = @ \/ i \in timer]
      /\ flow' = [f \in Flows |-> IF f \in dead THEN Free ELSE flow[f]] /\ timer' = timer \ {i}
      /\ UNCHANGED <<setting, said, pushed, sugg, rate, human>>
  BY DEF InstanceDies
<1>2. DfTyped /\ DfTypeOK /\ FlowTyped
  BY DEF DfInv, DfTyped
<1>3. dead \in SUBSET Flows
  OBVIOUS
<1> HIDE DEF dead
<1>4. /\ Marred(dead) \in MarkedSets
      /\ marred.loose \subseteq Marred(dead).loose /\ marred.stuck \subseteq Marred(dead).stuck
      /\ (marred.missed => Marred(dead).missed)
      /\ \A f \in dead : /\ At(f, "supersede") => flow[f].at \in Marred(dead).loose
                         /\ At(f, "expiry") => CounterOf(f) \in Marred(dead).stuck
                         /\ Attends(f) => Marred(dead).missed
  BY <1>2, <1>3, DamageIsMarked
<1> HIDE DEF Marred
<1>5. /\ marred' \in MarkedSets /\ marred'.loose = Marred(dead).loose /\ marred'.stuck = Marred(dead).stuck
      /\ Marred(dead).missed \/ i \in timer => marred'.missed
  BY <1>1, <1>4 DEF MarkedSets
<1>6. FlowTyped' /\ \A g \in Flows : g \notin dead => flow'[g] = flow[g]
  BY <1>1, <1>2 DEF FlowTyped
<1>7. \A g \in Flows : g \notin dead => /\ At(g, "supersede")' = At(g, "supersede") /\ At(g, "expiry")' = At(g, "expiry")
                                        /\ Attends(g)' = Attends(g) /\ CounterOf(g)' = CounterOf(g)
  BY <1>1, <1>6, UnmovedFlow
<1>8. \A g \in Flows : /\ At(g, "supersede") => flow[g].at \in marred'.loose \/ (At(g, "supersede")' /\ flow'[g].at = flow[g].at)
                       /\ At(g, "expiry") => CounterOf(g) \in marred'.stuck \/ (At(g, "expiry")' /\ CounterOf(g)' = CounterOf(g))
                       /\ Attends(g) => marred'.missed \/ Attends(g)'
  BY <1>4, <1>5, <1>6, <1>7
<1>9. dfLeft' \in [DfEvents -> Nat]
  BY <1>1, <1>2, DfUsed DEF DfEvents
<1>10. DfTyped'
  BY <1>1, <1>2, <1>5, <1>6, <1>9 DEF DfTyped, DfTypeOK, FlowTyped, MarkedSets
<1>11. ShownIsUnanswered'
  BY <1>1, <1>4, <1>5, <1>8, ShownStays
<1>12. WaitingIsAttended'
  <2>1. timer # {} => marred'.missed \/ timer' # {}
    BY <1>1, <1>5
  <2> QED
    BY <1>1, <1>4, <1>5, <1>8, <2>1, AttendedStays
<1>13. CountersExpire'
  BY <1>1, <1>4, <1>5, <1>8, ExpiryStays
<1> QED
  BY <1>10, <1>11, <1>12, <1>13 DEF DfInv

-----------------------------------------------------------------------------

LEMMA DraftsBegin == DfInit => DfInv
<1> SUFFICES ASSUME DfInit PROVE DfInv
  OBVIOUS
<1>1. DfTypeOK
  BY DraftsAssumption DEF DfInit, DfTypeOK, Features, NoneCounted, DfEvents
<1>2. FlowTyped
  BY DEF DfInit, FlowTyped
<1>3. ShownIsUnanswered /\ WaitingIsAttended
  BY DEF DfInit, ShownIsUnanswered, WaitingIsAttended, CustomerWaits
<1>4. CountersExpire
  BY DEF DfInit, CountersExpire, NoneCounted
<1> QED
  BY <1>1, <1>2, <1>3, <1>4 DEF DfInv, DfTyped

LEMMA DraftsIdle == DfInv /\ UNCHANGED dfVars => DfInv'
<1> SUFFICES ASSUME DfInv, UNCHANGED dfVars PROVE DfInv'
  OBVIOUS
<1>1. UNCHANGED <<setting, said, pushed, sugg, rate, timer, flow, human, marred, dfLeft>>
  BY DEF dfVars
<1>2. \A g \in Flows : /\ At(g, "supersede")' = At(g, "supersede") /\ At(g, "expiry")' = At(g, "expiry")
                       /\ Attends(g)' = Attends(g) /\ CounterOf(g)' = CounterOf(g)
  BY <1>1, UnmovedFlow
<1>3. DfTyped'
  BY <1>1 DEF DfTyped, DfTypeOK, FlowTyped, DfInv
<1>4. ShownIsUnanswered'
  BY <1>1, <1>2, ShownStays
<1>5. WaitingIsAttended'
  BY <1>1, <1>2, AttendedStays
<1>6. CountersExpire'
  BY <1>1, <1>2, ExpiryStays
<1> QED
  BY <1>3, <1>4, <1>5, <1>6 DEF DfInv

LEMMA DraftsStep == DfInv /\ [DfNext]_dfVars => DfInv'
<1> SUFFICES ASSUME DfInv, DfNext PROVE DfInv'
  BY DraftsIdle
<1>1. ASSUME NEW f \in Flows, NEW i \in Instances,
             Message(f, i) \/ TimerFires(f, i) \/ Reply(f, i) \/ RuleReplies(f, i) \/ SwitchHybrid(f, i)
               \/ \E prev \in 0..Len(sugg) : AskSuggestion(f, i, prev)
      PROVE  DfInv'
  BY <1>1, MessageKeeps, TimerFiresKeeps, RequestsKeep, SwitchHybridKeeps
<1>2. ASSUME NEW f \in Flows,
             \/ TryAutoReply(f) \/ TryHybridDraft(f) \/ BeginDraft(f) \/ HideDrafts(f)
             \/ CountRate(f) \/ SetExpiry(f) \/ Generate(f) \/ TakeAnswer(f) \/ Retire(f) \/ Offer(f)
             \/ Tag(f) \/ Mark(f) \/ Raise(f) \/ Push(f) \/ StoreReply(f) \/ SupersedeByReply(f)
             \/ FlowFails(f)
      PROVE  DfInv'
  BY <1>2, TryAutoReplyKeeps, TryHybridDraftKeeps, BeginDraftKeeps, HideDraftsKeeps, CountRateKeeps,
     SetExpiryKeeps, GenerateKeeps, TakeAnswerKeeps, RetireKeeps, OfferKeeps, EscalationKeeps, PushKeeps,
     StoreReplyKeeps, SupersedeByReplyKeeps, FlowFailsKeeps
<1>3. ASSUME NEW k \in 1..Len(sugg), NEW s \in {"sent", "edited", "rejected"}, UpdateSuggestion(k, s)
      PROVE  DfInv'
  BY <1>3, UpdateSuggestionKeeps
<1>4. ASSUME NEW c \in Counters, Expire(c) PROVE DfInv'
  BY <1>4, ExpireKeeps
<1>5. ASSUME NEW i \in Instances, InstanceDies(i) PROVE DfInv'
  BY <1>5, InstanceDiesKeeps
<1> QED
  BY <1>1, <1>2, <1>3, <1>4, <1>5 DEF DfNext

\* What is offered is shown.
LEMMA OffersAreUnanswered == DfInv => OfferIsUnanswered
<1> SUFFICES ASSUME DfInv PROVE OfferIsUnanswered
  OBVIOUS
<1>1. DOMAIN sugg = 1..Len(sugg)
  BY DEF DfInv, DfTyped, DfTypeOK
<1>2. \A i \in Offered : i \in DOMAIN sugg /\ sugg[i].status = "shown"
  BY <1>1 DEF Offered, Latest, Shown
<1> QED
  BY <1>2 DEF OfferIsUnanswered, ShownIsUnanswered, DfInv

LEMMA WaitingHasADraft == DfInv => DraftsCatchUp
<1> SUFFICES ASSUME DfInv, timer = {}, \A f \in Flows : flow[f] = Free, CustomerWaits
             PROVE  \E i \in DOMAIN sugg : sugg[i].saw = Len(said)
  BY DEF DraftsCatchUp, CustomerWaits
<1>1. \A f \in Flows : ~Attends(f)
  BY DEF Attends, At
<1> QED
  BY <1>1 DEF DfInv, WaitingIsAttended

\* An agent is offered nothing that a reply of an agent has overtaken, a customer who waits
\* gets a draft made with his last message in view, and the counters of the rate limits
\* expire, but for what broke off half-way, however the flows of the instances interleave.
THEOREM DraftsStayTimely == ConversationsSpec => []DraftsAreTimely
<1> DEFINE I == part = "drafts" => DfInv
<1>1. ConversationsInit => I
  BY DraftsBegin DEF ConversationsInit
<1>2. I /\ [ConversationsNext]_coVars => I'
  <2> SUFFICES ASSUME I, [ConversationsNext]_coVars, part' = "drafts" PROVE DfInv'
    OBVIOUS
  <2>1. part = "drafts" /\ [DfNext]_dfVars
    BY DEF ConversationsNext, coVars
  <2> QED
    BY <2>1, DraftsStep
<1>3. I => DraftsAreTimely
  BY OffersAreUnanswered, WaitingHasADraft DEF DraftsAreTimely, DfInv
<1> QED
  BY <1>1, <1>2, <1>3, PTL DEF ConversationsSpec
=============================================================================
