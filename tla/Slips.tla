-------------------------------- MODULE Slips --------------------------------
(***************************************************************************)
(* Bank-transfer slips sent to one conversation of a tenant                *)
(* (apps/api/src/slip/slip.service.ts): the QR code is looked for among    *)
(* the verified slips, then asked of SlipOK within a monthly quota; the    *)
(* text of the picture gives a score; the verdict is stored, tagged and    *)
(* told to the customer.  The webhook starts one task per image it handles *)
(* and does not wait for it; an event delivered again starts another one.  *)
(* SlipOK, the OCR model, LINE and the object store are external.          *)
(***************************************************************************)
EXTENDS Integers, Sequences, FiniteSets, FiniteSetsExt

CONSTANTS
  Images,      \* the image messages
  Tasks,       \* slots for tasks under way
  Codes,       \* contents of QR codes
  SlLimit,     \* the monthly quota
  SlDeliveries, \* how often images are handled, redeliveries included
  SlFaults     \* how many calls fail

ASSUME SlipsAssumption ==
  /\ IsFiniteSet(Tasks)
  /\ SlLimit \in Nat \ {0} /\ SlDeliveries \in Nat /\ SlFaults \in Nat
  /\ Codes \intersect {"NOT_FOUND", "FAILED"} = {}

VARIABLES
  picture,        \* what an image shows: its QR code and the fields its text has
  checks,         \* does the tenant have the duplicate check on
  begun,          \* how many tasks there were
  task,
  verifications,  \* the stored verifications, oldest first
  quota,          \* the counter of the month
  known,          \* external: the codes SlipOK has seen
  billed,         \* external: how many answers SlipOK charges for
  cooling,        \* no acknowledgement while this is set
  tags, links,    \* the tags of the tenant, and those of the conversation
  verdictsTold,   \* the verdicts the customer was told
  slLost,         \* charges that did not reach the counter
  slLeft

slVars == <<picture, checks, begun, task, verifications, quota, known, billed, cooling, tags, links, verdictsTold, slLost, slLeft>>

Weight == [bankName |-> 20, amount |-> 20, dateTime |-> 20, reference |-> 30, promptpay |-> 10]
Fields == DOMAIN Weight
NoCode == {"NOT_FOUND", "FAILED"}
Verdicts == {"PENDING", "VERIFIED", "DUPLICATE", "INVALID", "MANUAL_REVIEW"}
SlipTags == {"waiting", "suspicious"}
SlSteps == {"lookup", "quota", "verify", "charge", "read", "acknowledge", "store",
            "tag", "link", "tell"}

NoTask == <<>>
Task == [pc : SlSteps, image : Images, verdict : Verdicts, seen : SUBSET Fields, adding : SlipTags, owed : SUBSET SlipTags]
Row == [image : Images, verdict : Verdicts]

SlTypeOK ==
  /\ picture \in [Images -> [qr : Codes \union NoCode, fields : SUBSET Fields]]
  /\ checks \in BOOLEAN
  /\ begun \in Nat
  /\ \A t \in Tasks : task[t] # NoTask => task[t] \in Task
  /\ verifications \in Seq(Row)
  /\ quota \in Nat /\ billed \in Nat /\ slLost \in Nat /\ slLeft \in Nat
  /\ known \subseteq Codes
  /\ cooling \in BOOLEAN
  /\ tags \subseteq SlipTags /\ links \subseteq tags
  /\ verdictsTold \in Seq(Row)

\* The score of a text with these fields; a readable QR code adds to it, an empty text
\* has none.
Score(fields, qr) ==
  LET base == MapThenSumSet(LAMBDA f : Weight[f], fields) IN
  IF fields # {} /\ qr \notin NoCode THEN (IF base > 60 THEN 100 ELSE base + 40) ELSE base
IsSlip(score) == score >= 60

SlInit ==
  /\ \E fields \in {{"bankName", "amount"}, {"bankName", "amount", "dateTime"}} :
       picture \in [Images -> [qr : Codes \union {"NOT_FOUND"}, fields : {fields}]]
  /\ checks \in BOOLEAN
  /\ begun = 0
  /\ task = [t \in Tasks |-> NoTask]
  /\ verifications = <<>> /\ quota = 0 /\ known = {} /\ billed = 0 /\ slLost = 0
  /\ cooling = FALSE /\ tags = {} /\ links = {} /\ verdictsTold = <<>>
  /\ slLeft = SlFaults

InTask(t, step) == task[t] # NoTask /\ task[t].pc = step
To(t, step) == task' = [task EXCEPT ![t].pc = step]
ToWith(t, step, verdict) == task' = [task EXCEPT ![t].pc = step, ![t].verdict = verdict]
EndTask(t) == task' = [task EXCEPT ![t] = NoTask]
QrOf(t) == picture[task[t].image].qr
SlFault == slLeft > 0 /\ slLeft' = slLeft - 1

-----------------------------------------------------------------------------
\* The webhook handles an image, for the first time or again: it is downloaded, copied to
\* the object store and searched for a code, or the task ends there.
StartSlip(t, m) ==
  /\ task[t] = NoTask /\ begun < SlDeliveries
  /\ begun' = begun + 1
  /\ task' = [task EXCEPT ![t] = [pc |-> IF picture[m].qr \in NoCode THEN "read" ELSE "lookup",
                                  image |-> m, verdict |-> "PENDING", seen |-> {},
                                  adding |-> "waiting", owed |-> {}]]
  /\ UNCHANGED <<picture, checks, verifications, quota, known, billed, cooling, tags, links, verdictsTold, slLost, slLeft>>

VerifiedBefore(qr) == \E i \in DOMAIN verifications : verifications[i].verdict = "VERIFIED" /\ picture[verifications[i].image].qr = qr

\* Among the verified slips; a failing query counts as none.
LookUpSlip(t) ==
  /\ InTask(t, "lookup")
  /\ \/ /\ IF checks /\ VerifiedBefore(QrOf(t)) THEN ToWith(t, "read", "DUPLICATE") ELSE To(t, "quota")
        /\ UNCHANGED slLeft
     \/ SlFault /\ To(t, "quota")
  /\ UNCHANGED <<picture, checks, begun, verifications, quota, known, billed, cooling, tags, links, verdictsTold, slLost>>

\* The counter is read; when it cannot be, it counts as zero.
ReadQuota(t) ==
  /\ InTask(t, "quota")
  /\ \/ /\ IF quota >= SlLimit THEN ToWith(t, "read", "MANUAL_REVIEW") ELSE To(t, "verify")
        /\ UNCHANGED <<slLost, slLeft>>
     \/ SlFault /\ slLost' = slLost + 1 /\ To(t, "verify")
  /\ UNCHANGED <<picture, checks, begun, verifications, quota, known, billed, cooling, tags, links, verdictsTold>>

\* Mutant: whatever SlipOK does not call invalid is verified.
VerdictLoose(answer) ==
  CASE answer = "invalid" -> "INVALID" [] answer = "error" -> "MANUAL_REVIEW" [] OTHER -> "VERIFIED"
VerdictOf(answer) ==
  CASE answer = "valid" -> "VERIFIED" [] answer = "duplicate" -> "DUPLICATE"
    [] answer = "invalid" -> "INVALID" [] OTHER -> "MANUAL_REVIEW"

Charged(answer) == answer # "error"

\* External: SlipOK knows the codes it was asked for; a timeout loses its answer, or the
\* question, and whatever else the service refuses with counts as invalid.
AskSlipOk(t) ==
  /\ InTask(t, "verify")
  /\ \E answer \in {IF QrOf(t) \in known THEN "duplicate" ELSE "valid", "invalid", "error"} :
       /\ IF answer = "error" THEN SlFault ELSE UNCHANGED slLeft
       /\ known' \in {known \union {QrOf(t)}} \union (IF answer \in {"invalid", "error"} THEN {known} ELSE {})
       /\ billed' = IF answer = "error" THEN billed ELSE billed + 1
       /\ ToWith(t, IF Charged(answer) THEN "charge" ELSE "read", VerdictOf(answer))
  /\ UNCHANGED <<picture, checks, begun, verifications, quota, cooling, tags, links, verdictsTold, slLost>>

ChargeQuota(t) ==
  /\ InTask(t, "charge")
  /\ \/ quota' = quota + 1 /\ UNCHANGED <<slLost, slLeft>>
     \/ SlFault /\ slLost' = slLost + 1 /\ UNCHANGED quota
  /\ To(t, "read")
  /\ UNCHANGED <<picture, checks, begun, verifications, known, billed, cooling, tags, links, verdictsTold>>

\* The OCR model reads the text; without an answer there is none.
ReadText(t) ==
  /\ InTask(t, "read")
  /\ \E seen \in {picture[task[t].image].fields, {}} :
       /\ IF seen = {} THEN SlFault ELSE UNCHANGED slLeft
       /\ task' = [task EXCEPT ![t].seen = seen,
                               ![t].pc = IF IsSlip(Score(seen, QrOf(t))) THEN "acknowledge" ELSE "store"]
  /\ UNCHANGED <<picture, checks, begun, verifications, quota, known, billed, cooling, tags, links, verdictsTold, slLost>>

\* The acknowledgement, if the tenant sends them: one every ten seconds (or two, by tasks
\* that read the cooldown together).  A reply that LINE refuses is logged.
Acknowledge(t) ==
  /\ InTask(t, "acknowledge")
  /\ cooling' \in {cooling, TRUE}
  /\ To(t, "store")
  /\ UNCHANGED <<picture, checks, begun, verifications, quota, known, billed, tags, links, verdictsTold, slLost, slLeft>>

CooldownEnds ==
  /\ cooling /\ cooling' = FALSE
  /\ UNCHANGED <<picture, checks, begun, task, verifications, quota, known, billed, tags, links, verdictsTold, slLost, slLeft>>

Suspicious(t) == QrOf(t) \in NoCode \/ task[t].verdict \in {"INVALID", "DUPLICATE", "MANUAL_REVIEW"}

\* The verdict is stored; a text that looks like a slip without the code is tagged.
StoreSlip(t) ==
  /\ InTask(t, "store")
  /\ verifications' = Append(verifications, [image |-> task[t].image, verdict |-> task[t].verdict])
  /\ IF IsSlip(Score(task[t].seen, "NOT_FOUND"))
     THEN task' = [task EXCEPT ![t].pc = "tag", ![t].adding = "waiting",
                               ![t].owed = IF Suspicious(t) THEN {"suspicious"} ELSE {}]
     ELSE EndTask(t)
  /\ UNCHANGED <<picture, checks, begun, quota, known, billed, cooling, tags, links, verdictsTold, slLost, slLeft>>

\* The tag is looked up and created; another task may create it in between, which ends
\* this one.
EnsureTag(t) ==
  /\ InTask(t, "tag")
  /\ \/ tags' = tags \union {task[t].adding} /\ To(t, "link")
     \/ /\ \E u \in Tasks \ {t} : task[u] # NoTask /\ task[u].pc \in {"link", "tag", "tell"}
        /\ task[t].adding \in tags /\ EndTask(t) /\ UNCHANGED tags
  /\ UNCHANGED <<picture, checks, begun, verifications, quota, known, billed, cooling, links, verdictsTold, slLost, slLeft>>

\* Mutant: the second tag is linked with the first, before it is known to exist.
LinkTagsAtOnce(t) ==
  /\ InTask(t, "link")
  /\ links' = links \union {task[t].adding} \union task[t].owed
  /\ task' = IF task[t].owed = {} THEN [task EXCEPT ![t].pc = "tell"]
             ELSE [task EXCEPT ![t].pc = "tag", ![t].adding = "suspicious", ![t].owed = {}]
  /\ UNCHANGED <<picture, checks, begun, verifications, quota, known, billed, cooling, tags, verdictsTold, slLost, slLeft>>

\* The link is looked up and made; another task may make it in between, which ends this one.
LinkTag(t) ==
  /\ InTask(t, "link")
  /\ \/ /\ links' = links \union {task[t].adding}
        /\ task' = IF task[t].owed = {} THEN [task EXCEPT ![t].pc = "tell"]
                   ELSE [task EXCEPT ![t].pc = "tag", ![t].adding = "suspicious", ![t].owed = {}]
     \/ /\ \E u \in Tasks \ {t} : task[u] # NoTask /\ task[u].pc \in {"link", "tag", "tell"}
        /\ task[t].adding \in links /\ EndTask(t) /\ UNCHANGED links
  /\ UNCHANGED <<picture, checks, begun, verifications, quota, known, billed, cooling, tags, verdictsTold, slLost, slLeft>>

\* The verdict is told, if the tenant has a message for it; a pending one has none.
TellVerdict(t) ==
  /\ InTask(t, "tell")
  /\ \/ task[t].verdict # "PENDING" /\ verdictsTold' = Append(verdictsTold, [image |-> task[t].image, verdict |-> task[t].verdict])
     \/ UNCHANGED verdictsTold
  /\ EndTask(t)
  /\ UNCHANGED <<picture, checks, begun, verifications, quota, known, billed, cooling, tags, links, slLost, slLeft>>

\* The object store or the database fails, or the process ends.
SlipFails(t) ==
  /\ task[t] # NoTask /\ task[t].pc \in {"verify", "charge", "store", "tag", "link"} /\ SlFault
  /\ slLost' = IF InTask(t, "charge") THEN slLost + 1 ELSE slLost
  /\ EndTask(t)
  /\ UNCHANGED <<picture, checks, begun, verifications, quota, known, billed, cooling, tags, links, verdictsTold>>

SlNext ==
  \/ CooldownEnds
  \/ \E t \in Tasks :
       \/ \E m \in Images : StartSlip(t, m)
       \/ LookUpSlip(t) \/ ReadQuota(t) \/ AskSlipOk(t) \/ ChargeQuota(t) \/ ReadText(t)
       \/ Acknowledge(t) \/ StoreSlip(t) \/ EnsureTag(t) \/ LinkTag(t) \/ TellVerdict(t)
       \/ SlipFails(t)

SlSpec == SlInit /\ [][SlNext]_slVars

-----------------------------------------------------------------------------
(* Properties. *)

\* A transfer is accepted once: whatever tasks and deliveries overlap, and whether the
\* tenant checks for duplicates or not, no two verifications of the same code are
\* VERIFIED, and the customer is told so of one message at most, after it was stored.
TransferAcceptedOnce ==
  /\ \A i, j \in DOMAIN verifications :
       verifications[i].verdict = "VERIFIED" /\ verifications[j].verdict = "VERIFIED"
         /\ picture[verifications[i].image].qr = picture[verifications[j].image].qr => i = j
  /\ \A i \in DOMAIN verdictsTold : verdictsTold[i].verdict = "VERIFIED" => \E j \in DOMAIN verifications : verifications[j] = verdictsTold[i]

\* The answers SlipOK bills stay within the quota, but for the tasks that read the
\* counter together and the charges that did not reach it.
QuotaNearlyKept == billed <= SlLimit + (Cardinality(Tasks) - 1) + slLost
=============================================================================
