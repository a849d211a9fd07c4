------------------------------ MODULE Inbound ------------------------------
(***************************************************************************)
(* One thread of one LINE channel: the webhook deliveries that carry its   *)
(* events (apps/api/src/line/line-webhook*.ts), the BullMQ workers that    *)
(* process them side by side, from the start again when a step throws, and *)
(* the agents who change the conversation's status and mark it as read     *)
(* meanwhile (apps/api/src/inbox/inbox.service.ts).  A delivery is split   *)
(* where it awaits the database, LINE or Redis.  What a stored message     *)
(* sets off beyond this, in AutomationRuns and in Drafts, is only counted. *)
(***************************************************************************)
EXTENDS Integers, Sequences, FiniteSets

CONSTANTS
  Deliveries,   \* webhook requests; LINE may send the same event in two of them
  Payload,      \* the events of each request
  Messages,     \* the messages of the thread, by their LINE ids
  Agents,
  Attempts,     \* attempts of a queued delivery
  InBounds      \* how many faults, crashes, status changes... there may be, and in all

InEvents == {"faults", "crashes", "switches", "status", "marks", "escalations", "all"}
EventTypes == {"message", "unsend", "follow", "unfollow"}

ASSUME InboundAssumption ==
  /\ IsFiniteSet(Deliveries)
  /\ Payload \in [Deliveries -> Seq([type : EventTypes, id : Messages])]
  /\ Attempts \in Nat \ {0}
  /\ InBounds \in [InEvents -> Nat]

ConvStatus == {"OPEN", "IN_PROGRESS", "RESOLVED"}

VARIABLES
  channel,   \* on: is the LINE channel active; miss: is its absence cached
  owner,     \* is there a CustomerChannel row, with its customer, for the thread's user
  conv,      \* the conversation row, and what wrote it last
  thread,    \* the stored messages, in the order of their createdAt
  unread,    \* the messages whose markAsReadToken is set
  erased,    \* the messages whose deletedAt is set
  job,       \* the deliveries
  desk,      \* what each agent is doing
  told,      \* the messages LINE was told are read
  crossed,   \* the messages stored while LINE was being told
  missed,    \* the messages looked up by their unsend before they were stored
  handled,   \* how often each message was handed to the automations
  inLeft

convVars == <<owner, conv>>
msgVars == <<thread, unread, erased>>
logVars == <<told, crossed, missed, handled>>
inVars == <<channel, convVars, msgVars, job, desk, logVars, inLeft>>

-----------------------------------------------------------------------------

Waiting == {"coming", "queued"}
Over == {"refused", "done", "lost"}
Working == {"customer", "create", "look", "upsert", "store", "dispatch", "find",
            "erase", "follow", "unfollow", "finish"}

\* at: the event in progress; seen: the status read by look, with stale telling
\* whether somebody wrote another since.
Delivery == [pc : Waiting \union Over \union Working, at : Nat, tries : 0..Attempts,
             seen : ConvStatus \union {"absent"}, stale : BOOLEAN]
Desk == [pc : {"idle", "write", "tell", "clear"}, to : ConvStatus, upto : Nat]
Conversation == [status : ConvStatus \union {"absent"}, started : BOOLEAN,
                 by : {"nobody", "message", "desk", "escalation"}, overlooked : BOOLEAN]

InTypeOK ==
  /\ channel \in [on : BOOLEAN, miss : BOOLEAN]
  /\ owner \in BOOLEAN
  /\ conv \in Conversation
  /\ thread \in Seq(Messages)
  /\ unread \subseteq Messages /\ erased \subseteq Messages
  /\ job \in [Deliveries -> Delivery]
  /\ desk \in [Agents -> Desk]
  /\ told \subseteq Messages /\ crossed \subseteq Messages /\ missed \subseteq Messages
  /\ handled \in [Messages -> Nat]
  /\ inLeft \in [InEvents -> Nat]

Fresh == [pc |-> "queued", at |-> 1, tries |-> Attempts, seen |-> "absent", stale |-> FALSE]
AtRest == [pc |-> "idle", to |-> "OPEN", upto |-> 0]
Stored == {thread[i] : i \in 1..Len(thread)}
Visible == Stored \ erased

InInit ==
  /\ channel \in [on : BOOLEAN, miss : {FALSE}]
  /\ owner \in BOOLEAN
  /\ conv = [status |-> "absent", started |-> FALSE, by |-> "nobody", overlooked |-> FALSE]
  /\ thread = <<>> /\ unread = {} /\ erased = {}
  /\ job = [d \in Deliveries |-> [Fresh EXCEPT !.pc = "coming"]]
  /\ desk = [a \in Agents |-> AtRest]
  /\ told = {} /\ crossed = {} /\ missed = {}
  /\ handled = [m \in Messages |-> 0]
  /\ inLeft = InBounds

Spends(e) ==
  /\ inLeft[e] > 0 /\ inLeft["all"] > 0
  /\ inLeft' = [inLeft EXCEPT ![e] = @ - 1, !["all"] = @ - 1]

-----------------------------------------------------------------------------
(* Accepting a delivery. *)

\* A miss in the cache, or a channel that is absent or off, refuses it; the
\* latter is remembered.  Otherwise it is queued.
Receive(d) ==
  /\ job[d].pc = "coming"
  /\ LET known == ~channel.miss /\ channel.on IN
     /\ job' = [job EXCEPT ![d].pc = IF known THEN "queued" ELSE "refused"]
     /\ channel' = [channel EXCEPT !.miss = ~known]
  /\ UNCHANGED <<convVars, msgVars, desk, logVars, inLeft>>

\* The cached miss is a minute old.
ForgetMiss ==
  /\ channel.miss
  /\ channel' = [channel EXCEPT !.miss = FALSE]
  /\ UNCHANGED <<convVars, msgVars, job, desk, logVars, inLeft>>

\* An administrator switches the channel.
SwitchChannel ==
  /\ Spends("switches")
  /\ channel' = [channel EXCEPT !.on = ~@]
  /\ UNCHANGED <<convVars, msgVars, job, desk, logVars>>

-----------------------------------------------------------------------------
(* Processing a delivery. *)

Event(d) == Payload[d][job[d].at]
EntryOf == [message |-> "customer", follow |-> "customer", unsend |-> "find",
            unfollow |-> "unfollow"]

\* The step that begins event k, or ends the delivery.
Entry(d, k) == IF k > Len(Payload[d]) THEN "finish" ELSE EntryOf[Payload[d][k].type]
Moves(d, pc) == job' = [job EXCEPT ![d].pc = pc]
Turns(d) == job' = [job EXCEPT ![d].pc = Entry(d, job[d].at + 1), ![d].at = @ + 1]

\* Mutant: an attempt too few.
GivesUpEarly(d) == job[d].tries <= 2
\* The attempt that threw was the last one.
GivesUp(d) == job[d].tries = 1
Throws(d) ==
  job' = [job EXCEPT ![d] = [Fresh EXCEPT !.pc = IF GivesUp(d) THEN "lost" ELSE "queued",
                                          !.tries = job[d].tries - 1]]

Open(d) ==
  /\ job[d].pc = "queued"
  /\ IF channel.on
     THEN job' = [job EXCEPT ![d].pc = Entry(d, 1), ![d].at = 1]
     ELSE Throws(d)
  /\ UNCHANGED <<channel, convVars, msgVars, desk, logVars, inLeft>>

AfterCustomer(d) == IF Event(d).type = "message" THEN "look" ELSE "follow"

\* The customer of the thread; the profile only changes names.  Nothing in the
\* program deletes a customer, so that the branch for a deleted one is left out.
FindCustomer(d) ==
  /\ job[d].pc = "customer"
  /\ Moves(d, IF owner THEN AfterCustomer(d) ELSE "create")
  /\ UNCHANGED <<channel, convVars, msgVars, desk, logVars, inLeft>>

\* The unique key on the LINE user lets one row in.
CreateCustomer(d) ==
  /\ job[d].pc = "create"
  /\ IF ~owner
     THEN owner' = TRUE /\ Moves(d, AfterCustomer(d))
     ELSE UNCHANGED owner /\ Throws(d)
  /\ UNCHANGED <<channel, conv, msgVars, desk, logVars, inLeft>>

LookUp(d) ==
  /\ job[d].pc = "look"
  /\ job' = [job EXCEPT ![d].pc = "upsert", ![d].seen = conv.status, ![d].stale = FALSE]
  /\ UNCHANGED <<channel, convVars, msgVars, desk, logVars, inLeft>>

\* What the update does to the status, by what was read before.
Reopened(row, seen) ==
  IF seen = "RESOLVED" THEN [row EXCEPT !.status = "OPEN", !.started = FALSE] ELSE row

\* The row is created open, or updated with the status the read calls for.
UpsertConversation(d) ==
  /\ job[d].pc = "upsert"
  /\ LET row == IF conv.status = "absent"
                THEN [conv EXCEPT !.status = "OPEN"]
                ELSE Reopened(conv, job[d].seen)
     IN conv' = [row EXCEPT !.by = "message", !.overlooked = job[d].stale]
  /\ job' = [job EXCEPT ![d].pc = "store", ![d].seen = "absent", ![d].stale = FALSE]
  /\ UNCHANGED <<channel, owner, msgVars, desk, logVars, inLeft>>

ErasedAfterStore(m) == erased

StoreMessage(d) ==
  /\ job[d].pc = "store"
  /\ LET m == Event(d).id IN
     /\ thread' = IF m \in Stored THEN thread ELSE Append(thread, m)
     /\ unread' = unread \union {m}
     /\ erased' = ErasedAfterStore(m)
     /\ crossed' = IF \E a \in Agents : desk[a].pc \in {"tell", "clear"}
                   THEN crossed \union {m} ELSE crossed \ {m}
     /\ told' = told \ {m}
  /\ Moves(d, "dispatch")
  /\ UNCHANGED <<channel, convVars, desk, missed, handled, inLeft>>

\* After the audit log and the event of the tenant's stream, which may throw, the
\* scenarios, automations, auto-reply and draft; what they throw is caught.
DispatchMessage(d) ==
  /\ job[d].pc = "dispatch"
  /\ handled' = [handled EXCEPT ![Event(d).id] = @ + 1]
  /\ Turns(d)
  /\ UNCHANGED <<channel, convVars, msgVars, desk, told, crossed, missed, inLeft>>

\* The message that was unsent, if it is there.
FindUnsent(d) ==
  /\ job[d].pc = "find"
  /\ LET m == Event(d).id IN
     IF m \in Visible
     THEN Moves(d, "erase") /\ UNCHANGED missed
     ELSE /\ Turns(d)
          /\ missed' = IF m \in Stored THEN missed ELSE missed \union {m}
  /\ UNCHANGED <<channel, convVars, msgVars, desk, told, crossed, handled, inLeft>>

EraseUnsent(d) ==
  /\ job[d].pc = "erase"
  /\ erased' = erased \union {Event(d).id}
  /\ Turns(d)
  /\ UNCHANGED <<channel, convVars, thread, unread, desk, logVars, inLeft>>

\* A follow opens the conversation, or leaves its status as it is.
FollowConversation(d) ==
  /\ job[d].pc = "follow"
  /\ conv' = IF conv.status = "absent" THEN [conv EXCEPT !.status = "OPEN"] ELSE conv
  /\ Turns(d)
  /\ UNCHANGED <<channel, owner, msgVars, desk, logVars, inLeft>>

\* Only written to the audit log.
Unfollow(d) ==
  /\ job[d].pc = "unfollow"
  /\ Turns(d)
  /\ UNCHANGED <<channel, convVars, msgVars, desk, logVars, inLeft>>

\* lastWebhookAt of the channel.
Finish(d) ==
  /\ job[d].pc = "finish"
  /\ job' = [job EXCEPT ![d].pc = "done", ![d].at = 1, ![d].tries = Attempts]
  /\ UNCHANGED <<channel, convVars, msgVars, desk, logVars, inLeft>>

\* The step in progress throws instead.
StepFails(d) ==
  /\ job[d].pc \in Working
  /\ Spends("faults")
  /\ Throws(d)
  /\ UNCHANGED <<channel, convVars, msgVars, desk, logVars>>

\* The worker dies; BullMQ hands the stalled job out again.
WorkerDies(d) ==
  /\ job[d].pc \in Working
  /\ Spends("crashes")
  /\ job' = [job EXCEPT ![d] = [Fresh EXCEPT !.tries = job[d].tries]]
  /\ UNCHANGED <<channel, convVars, msgVars, desk, logVars>>

-----------------------------------------------------------------------------
(* The desk. *)

Sits(a, frame) == desk' = [desk EXCEPT ![a] = frame]
Rises(a) == Sits(a, AtRest)

\* The deliveries whose read of the status is now out of date.
Overtaken == [d \in Deliveries |-> [job[d] EXCEPT !.stale = @ \/ job[d].pc = "upsert"]]

\* updateStatus, or a rule that closes the conversation, reads the row ...
BeginStatus(a, s) ==
  /\ desk[a].pc = "idle" /\ conv.status # "absent"
  /\ Spends("status")
  /\ Sits(a, [pc |-> "write", to |-> s, upto |-> 0])
  /\ UNCHANGED <<channel, convVars, msgVars, job, logVars>>

Started(s) == s = "IN_PROGRESS"

\* ... and writes the status, with a start while it is in progress.
WriteStatus(a) ==
  /\ desk[a].pc = "write"
  /\ conv' = [status |-> desk[a].to, started |-> Started(desk[a].to),
              by |-> "desk", overlooked |-> FALSE]
  /\ job' = Overtaken
  /\ Rises(a)
  /\ UNCHANGED <<channel, owner, msgVars, logVars, inLeft>>

\* The auto-reply gives the conversation to a human: open, the start untouched.
EscalateConversation ==
  /\ conv.status # "absent"
  /\ Spends("escalations")
  /\ conv' = [conv EXCEPT !.status = "OPEN", !.by = "escalation", !.overlooked = FALSE]
  /\ job' = Overtaken
  /\ UNCHANGED <<channel, owner, msgVars, desk, logVars>>

Unseen == unread \intersect Visible

\* markAsRead takes the latest unread message ...
BeginMark(a) ==
  /\ desk[a].pc = "idle" /\ channel.on
  /\ Unseen # {}
  /\ Spends("marks")
  /\ \E i \in 1..Len(thread) :
       /\ thread[i] \in Unseen
       /\ \A k \in (i + 1)..Len(thread) : thread[k] \notin Unseen
       /\ Sits(a, [pc |-> "tell", to |-> "OPEN", upto |-> i])
  /\ UNCHANGED <<channel, convVars, msgVars, job, logVars>>

\* Mutant: the tokens are cleared although LINE refused.
ClearsAnyway(a) ==
  /\ desk[a].pc = "tell"
  /\ desk' = [desk EXCEPT ![a].pc = "clear"]
  /\ told' \in {told, told \union {thread[i] : i \in 1..desk[a].upto}}
  /\ UNCHANGED <<channel, convVars, msgVars, job, crossed, missed, handled, inLeft>>

\* ... tells LINE everything up to it is read, which LINE may refuse ...
TellLine(a) ==
  /\ desk[a].pc = "tell"
  /\ \/ /\ desk' = [desk EXCEPT ![a].pc = "clear"]
        /\ told' = told \union {thread[i] : i \in 1..desk[a].upto}
     \/ Rises(a) /\ UNCHANGED told
  /\ UNCHANGED <<channel, convVars, msgVars, job, crossed, missed, handled, inLeft>>

\* ... and clears the tokens of the whole conversation.
ClearTokens(a) ==
  /\ desk[a].pc = "clear"
  /\ unread' = {}
  /\ Rises(a)
  /\ UNCHANGED <<channel, convVars, thread, erased, job, logVars, inLeft>>

Step(d) ==
  \/ Open(d) \/ FindCustomer(d) \/ CreateCustomer(d) \/ LookUp(d)
  \/ UpsertConversation(d) \/ StoreMessage(d) \/ DispatchMessage(d)
  \/ FindUnsent(d) \/ EraseUnsent(d) \/ FollowConversation(d) \/ Unfollow(d) \/ Finish(d)

InNext ==
  \/ \E d \in Deliveries : Receive(d) \/ Step(d) \/ StepFails(d) \/ WorkerDies(d)
  \/ \E a \in Agents :
       \/ \E s \in ConvStatus : BeginStatus(a, s)
       \/ WriteStatus(a) \/ BeginMark(a) \/ TellLine(a) \/ ClearTokens(a)
  \/ ForgetMiss \/ SwitchChannel \/ EscalateConversation

InSpec == InInit /\ [][InNext]_inVars

-----------------------------------------------------------------------------
(* Properties. *)

\* A delivery that is never to be processed for want of an active channel.
Unwelcome == ~channel.on

\* What LINE handed over is not lost: every message of a delivery that was accepted
\* and is over is stored, although its first customer row may have been created by
\* another worker at the same moment, a step may have thrown and the worker died;
\* only a channel that was switched off drops it.
AcceptedIsStored ==
  \A d \in Deliveries : \A i \in DOMAIN Payload[d] :
    (job[d].pc \in {"done", "lost"} /\ Payload[d][i].type = "message")
      => (Payload[d][i].id \in Stored \/ Unwelcome)

\* Once its unsend was handled a message is hidden, and delivering or handling
\* it again does not bring it back; the one way round is an unsend that was
\* handled before the message was stored.
UnsentIsHidden ==
  \A d \in Deliveries : \A i \in DOMAIN Payload[d] :
    (job[d].pc = "done" /\ Payload[d][i].type = "unsend" /\ Payload[d][i].id \in Visible)
      => Payload[d][i].id \in missed

\* An agent's unread count follows what LINE shows the customer: a message counts
\* as read only when LINE was told so, or when it came in while LINE was being told.
ReadWasTold == Visible \ unread \subseteq told \union crossed

\* A message that is handled reopens its conversation: after it the conversation
\* is resolved only if that was written between the handler's read and its update.
MessageReopens ==
  (conv.status = "RESOLVED" /\ conv.by = "message") => conv.overlooked

\* The columns status and inProgressStartedAt of the conversation agree whoever
\* wrote them; only an escalation leaves a start on a conversation that is open.
StartMatchesStatus ==
  /\ conv.status = "IN_PROGRESS" => conv.started
  /\ (conv.started /\ conv.status # "IN_PROGRESS") => inLeft["escalations"] < InBounds["escalations"]

\* Automations and auto-replies see a message once for each time LINE delivered
\* it; each further time takes a step that threw, or a worker that died, after it.
HandledAgainAfterFailure ==
  \A m \in Messages :
    handled[m] <= Cardinality({d \in Deliveries : \E i \in DOMAIN Payload[d] :
                                 Payload[d][i] = [type |-> "message", id |-> m]})
                  + (InBounds["faults"] - inLeft["faults"])
                  + (InBounds["crashes"] - inLeft["crashes"])
=============================================================================
