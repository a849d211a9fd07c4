# Verification of OmniChat

This directory holds TLA+ specifications of OmniChat (the API `apps/api`, a
NestJS service on PostgreSQL, Redis and BullMQ, and the web application
`apps/web`, on Next.js), the TLC configurations that check them on small
instances, and proofs, checked by TLAPS, that the most important properties
hold for every value of the constants. The specifications are translated from
the source; where a document of the repository and the code disagree, the code
is modelled, and the disagreement is shown by a run or listed in section 6.

## 1. The system

OmniChat lets the members of a workspace answer customers who write to the
workspace's LINE channels. One API process (or several behind a balancer)
serves the web front end and LINE's webhooks; BullMQ workers run inside the
API processes. What the processes share is in PostgreSQL (rows, through
Prisma, almost never inside a transaction) and in Redis (queues, counters,
refresh sessions). Consequently every `await` is a point where anything else
may happen, and most of the hard behaviour is of that kind. The pages of the
web application are clients of the same kind: they keep what they loaded, send
requests whose answers come in any order, and rarely compare an answer with
what is shown by the time it arrives.

| part | module | state it keeps | operations | what is hard | what makes it correct |
|---|---|---|---|---|---|
| **Automation engine** | `AutomationRuns` | runs with status and step; queued steps | dispatch, start, step, pause, resume, complete, fail, hourly timeout | stateless calls that know one index; retries, stalls, pauses resumed by concurrent messages, edits under way | no step skipped; steps repeat only after failures; each pause ended once; every run settles |
| **Automation rules** | `Rules`, `Hours` | rules; forms | fill in, save, load, delete; match an event | form, request, stored rule and matching each leave something out | a rule fires for what its form shows |
| **Broadcasts** | `Broadcast` | jobs with status, schedule, deletion | create, claim, send in parts, mark, cancel, delete | several instances claim the same row; failure between parts | nothing sent twice; SENT is complete; due jobs are claimed |
| **AI credits** | `AiCredits` | a counter per tenant and month | reserve, keep, return; check, charge | last credit raced for; month ends under a call | counters add up; limits hold |
| **LINE webhook** | `Inbound` | queue of payloads; customers, conversations, messages | message, follow, unfollow, unsend | redelivery, concurrent jobs, retries of a whole payload, first messages racing on unique keys | what was accepted is stored; a message reopens; unread means not told |
| **Inbox: tags, notes, saved replies, assignment** | `Desk` | rows and links of one conversation | the agents' operations and the bot's | read-then-write by id beside others | an answer was true; what is deleted is gone |
| **Replies, drafts, auto-reply** | `Drafts` | suggestions, timers per process, rate counters | reply, draft, ask, answer, escalate | quiet periods of several instances; slow drafts; crash between two calls | who waits has a draft; what was answered is not offered |
| **Slip verification** | `Slips` | verifications, monthly quota, cooldown | verify an image | the same slip at once; quota checked and charged apart | a transfer is accepted once |
| **Scenarios** | `Scenarios`, `Hours` | scenarios; tags, assignment and priority of a conversation | choose, apply action by action | three callers side by side, beside agents; a call fails | the right one is chosen and takes effect |
| **Knowledge base** | `Knowledge` | documents, chunks, articles | upload, ingest, index again, delete, edit | deletion or queueing again while ingesting | what was ingested in peace is quoted; what was deleted is not |
| **AI quality and settings** | `Quality` | scores, settings row, screens | nightly sampling, guardrail, read and save whole | several processes; a save of an older read | the guardrail decides as its design does, but for one day; its notice means that auto-reply is off |
| **Sessions** | `Sessions` | refresh tokens, Redis sessions | login, exchange, logout, end all | concurrent exchanges of one token; failure between claim and issue | a login never forks; logout holds |
| **Accounts** | `Accounts` | failure counter, links, password, second factor | sign in, refresh, change workspace, reset, change, enrol | counter and expiry apart; a reset beside what opens sessions | lockout holds and ends; a link works once; a new password ends the older sessions |
| **Members, plans, invitations, channels** | `Members` | memberships, invitations, plan | invite, accept, remove, change role and plan, open and delete | counted in one call, relied on in a later one | an owner remains; the plan is kept |
| **Guards and roles** | `Access` | memberships, token, screen | route by route, screen by screen | the token is older than the membership | the guards see the database; what is shown works |
| **Store connections** | `Connections` | connections, secrets, the store system | create, test, rotate, disconnect, suspend, search | rows read before an external call; two pages | suspensions stand; a held secret works |
| **Web: session** | `Browser` | cookies shared by tabs | refresh after 401, logout, switch workspace | answers late, lost, overtaken | who signed in stays so until he leaves |
| **Web: thread and composer** | `Client` | thread, drafts, optimistic messages | load, page, poll, send, take a draft | answers after another conversation was opened; missed events | the thread is whole; the draft is of the open one |
| **Web: list and panel** | `Workbench` | list, selection, panel, dialog | load, open, page, change status, edit | the same | list and panel are of the open conversation |
| **Web: list screens** | `Screens` | choice, list, form | load, edit, delete, reload | twenty screens that differ in a few traits | a list follows its choice; no answer harms a form |

`PROJECT.json` lists every part with its files and status, and under `hazards`
each place in the code where an order of steps, a failure or a stale value
matters, with the properties that would notice. Section 7 says what is left
out.

How the parts interact: a webhook delivery (`Inbound`) stores the message, then
applies a scenario (`Scenarios`), resumes and starts runs (`AutomationRuns`),
starts an auto-reply or a draft (`Drafts`) and a slip's task (`Slips`). Replies
and drafts take credits (`AiCredits`), quote documents (`Knowledge`) and are
judged at night (`Quality`). Agents' requests pass the guards (`Access`) with
a token that `Sessions` issued to a `Browser`; they change the conversation
(`Desk`, `Inbound`) and are shown the result (`Client`, `Workbench`,
`Screens`).

## 2. Plan

Modules in the order in which they were written, most important behaviour
first: `AutomationRuns` with the abstract `AutomationPromise`, `Broadcast`,
`AiCredits`, `Sessions`, each with its proofs; then `Inbound`, `Desk`,
`Drafts`, `Slips`, `Knowledge`, `Accounts`, `Members`; then the web
application and what it talks to, `Browser`, `Access`, `Screens`, `Quality`,
`Client`, `Connections`, `Workbench`; then `Hours`, `Scenarios`, `Rules`.

Proved since, in this order: the engine, broadcasts, credits and sessions, then
people, connections, deliveries, desk, slips, knowledge and quality, then
drafts, scenarios and rules, and last the web application: `Access`, `Screens`,
`Workbench`, `Client`. Every safety property the passing runs check is now a
theorem.

Left: curation (two approvals of one suggestion), the files' trash and the
backup rows, each a small module.

Liveness stays with TLC throughout, and so does everything that needs an
induction over data.

## 3. How the modules correspond to the code

General conventions. A thread (worker, handler, request, scheduler, page) has a
program counter; each `await` that reads or writes state a property can see is
an action of its own, and a read is carried in the thread until it is used.
A call that only reads what nobody changes, writes the audit log with nothing
after it, or formats text takes no step. `Spend("faults")` and its likes are a
failed call (to the database, the queue, Redis or LINE), `Spend("crashes")` the
death of a process. Each module has a record of `Bounds` that says how many
events of each kind a behaviour may have; the newer modules take a *set* of
such records, the scenarios of a run, and the initial state picks one. The
theorems hold for every value. Names of later modules carry a prefix of two
letters (`InNext`, `DkNext`, ...) so that they can be extended together.

Some variables are *history*: they exist only in the model and remember that
two things crossed, that a call broke off, or who did what. They are used in
two ways. Most say from what moment a property speaks (`made`, `saw`, `was`).
Others, such as `marred`, `crossed`, `upset`, `excuse`, `raced`, name the
circumstance in which the code does not keep a promise it keeps otherwise. Each
is set by one kind of step, and the section on its module says what goes wrong
then: the property says that nothing *else* breaks it.

### AutomationRuns

One conversation, its rules, their runs, and the threads that drive them.

| model | code |
|---|---|
| `rules`, `runs` | rows of `AutomationRule`, `AutomationRun`; a run also notes the message that started it (`by`) |
| `jobs`, `active` | the BullMQ queue `automation-runs`, the job each worker holds |
| `frame[t]` | the call of `processRunStep` in thread t; `depth` is the nesting when the queue is inline |
| `handler[h]` | the inbound pipeline: dispatch of CONVERSATION_CREATED, `resumeWaitingRuns`, dispatch of MESSAGE_RECEIVED, then of OFF_HOURS; or a status change by an agent |
| `cron[c]` | what `failStaleWaitingForReplyRuns` has read |
| `Load .. Return`, `Fault` | `processRunStep` await by await, its catch block, and the paths that reject outside of it |
| `Retried`, `Crash` | three attempts per job; BullMQ hands a stalled job out once more |
| `StartRun`, `Submit` | `startRun`: create the row, then enqueue step 0 |
| `ListWaiting`, `ResumeNext` | `resumeWaitingRuns`: one read, then resumptions one after the other |
| `UpdateRule`, `DeleteRule` | the same operations of `AutomationService` |

Abstracted: which message creates the conversation (the first does; that two
first messages at once may both find it new, or that a follow event has made it
already, `line-webhook.service.ts:168-177` and `500-528`, is left out), what a
step does (it takes effect once, may throw before or after), the conditions of a
rule (any rule of the trigger may match or not; `Rules`
says which), times (a delayed job may run at any time; a paused run may be
stale at any time).

`AutomationPromise` is the abstract specification; `KeepsThePromise` in
`AutomationRuns` instantiates it with `performed <- executed` and the settled
runs, and `automation_serial` checks it as a property.

### Rules, Hours

A rule of the automation on its way through the code: `page[e]` is the form of
`automation-manager.tsx` an administrator e fills in, `Sends` the request it
makes of it, `Complete` what the browser insists on, `Acceptable` the checks of
`AutomationService.assertTriggerConfig` and of the step parser, `Refusal` the
answer if they fail, `Written` what the row holds then, `ToForm` what the form
shows when the rule is opened again, `StartsOn` whether
`AutomationService.dispatch` and `automation-match.util.ts` let an event start
it. Two pages, one rule. `RuleIsAsShown` says that a rule in force starts for
the events that its last saved form describes; `OpeningChangesNothing`, that
opening and saving without a change leaves it as it was; `RefusedForGone`, that
a form the browser lets through is refused only if the rule was deleted, or for
more steps than a rule may have (`RuLongest`, twenty in the code and two in the
run; the page does not count them, and the proof needed the case).
`Hours!Within` is `isWithinActiveHours`, which scenarios use as it is and
off-hours rules the other way round.

Abstracted: a keyword occurs in a text or does not, so that case and duplicates
disappear; names, priorities and the order of rules of equal standing are left
out; a message always has a text; nobody types between a save and its answer
(`Screens` has that).

What the code does and the properties allow for: a form that says "all
channels" leaves an existing rule with its old channel (the empty choice turns
into `undefined`, which the update skips); fields of another trigger keep
hidden values; a window that begins and ends at the same hour never fires,
although the form's hint reads "does not fire during {start}:00–{end}:59". Over
the API, not over the form, a PATCH with `offHourStart: null` or
`triggerStatus: null` passes the check, which falls back on the stored value,
and is then written.

### Broadcast

`job` are the rows, `thread` the calls of `executeBroadcastJob` of requests and
schedulers, `due` what a scheduler's round has read, `agent` the deletion a
request has decided on. `Claim` is the conditional update to PROCESSING. A
multicast is cut in parts of 500 recipients; `Send` hands one part to LINE and
may lose the answer. `received` counts what LINE accepted.

### AiCredits

`Background` calls go through `runWithAiCredit` (`Begin`, `Reserve`, `RunInVain`
or `RunAnswers`, `Keep` or `Release`); `Manual` calls are agents' requests
(`Check`, `Generate`, `Charge`). A call keeps its outcome: *paid* bought an
answer, *lost* bought nothing because the credit could not be returned or was
taken by an update whose answer never came, *ended* cost nothing. A failing call
may have taken effect or not: taking, returning and charging a credit each have
both ends. `month` is the usage period; a call keeps the period it started in.

### Inbound

One thread of a channel. A delivery is LINE's request (`Receive`: signature and
channel, then the queue) and a job that handles its events one after the other;
`job[d].pc` says before which call it stands, and a throw sends the whole
payload back to the queue for its next attempt. `owner` is the customer's row,
created under a unique key, `conv` the conversation with `status`, start, and
who wrote it last (`by`), `thread`, `unread`, `erased` its messages. Agents
change the status (with its optimistic reopening) and mark as read; the read
mark is told to LINE (`told`) before the rows are updated. What the message
sets off further is a counter, `handled`.

`overlooked` is set where the reopening misses: the handler has read the status
before, and an agent resolves before its update. `missed` is an unsend that is
handled before its message was stored: it finds nothing, and the message stays
visible. The branch that revives a soft-deleted conversation
(`line-webhook.service.ts:646-652`) is left out, since nothing deletes one.

### Desk

Tags, links, notes, saved replies, assignee and priority of one conversation,
changed by an administrator and an agent side by side; `call[a]` is a request
between its read and its write. `Bot` tags by name as automations and
escalations do. `was` is history: whether what the request answers was true at
some moment of it. Allowed for: the list of conversations still shows a
conversation's deleted tags; a deleted tag keeps its name, so that a bot that
tags by that name fails; roles are checked on what was read.

### Drafts

One conversation, its flows on several instances: `hybrid` (a timer per
instance, restarted by each message, then a draft), `ask` (`aiSuggest`),
`auto` and `rule` (auto-reply and an automation's reply, which send or, when a
human must look, leave a suggestion), `reply` (an agent's). `said` is the
conversation, `pushed` what LINE took, `sugg` the suggestions with what they
`saw` and what they came `after`. The order *push, row, supersede* of
`line-reply.service.ts` is three steps with a break between any two.
`CountersExpire` is about `INCR` followed by `EXPIRE`: a flow that breaks off in
between leaves a counter that never lapses (`stuck`), and from its limit on that
conversation gets no draft and no auto-reply.

### Slips

Tasks for the images of one conversation: find the QR code among the verified
ones, read the quota, ask SlipOK, count, read the text, score, store, tag,
answer, each a call. Nothing in the database keeps two verifications of a code
apart; what does is that SlipOK, external, calls a code valid once (`known`),
and that VERIFIED is stored for such an answer only. `quota` is what the
tenant's counter says, `billed` what SlipOK charged. SlipOK's client takes every
failure it does not know for "invalid", whether or not the code was noted. A tag
or a link that another task makes in between fails this one's (unique keys).
Known: an image that LINE delivers again is
compared with its own first verification and can become its own duplicate; the
quota is passed by as many tasks as read it together; a tag of that name that
was deleted is used all the same.

### Scenarios

`setup` is the situation: the rows (channel, hours, keywords, tags, priority,
instructions and actions), the switch, the words of the message and the tags of
the customer's conversations. `Chosen` is `findMatchingScenario`: rows of the
channel that are on, within hours, whose keywords *and* tags match, lowest
priority first. Then the actions one call after the other: tag, member,
priority (an escalation without one raises it to HIGH). Three callers: the webhook (`inbound`), an agent's request
for a suggestion (`ask`, by way of the generator, which looks at the last three
messages and at the tags of *all* the customer's conversations), and the
background draft (`draft`). Auto-replies and automations' replies pass
`applyScenarioActions: false`. `ActionsTake` says that an action answered
without an error has taken effect unless an agent overruled it since; rows do
not change meanwhile.

`BreaksOffForAReason` states a defect: the background draft passes the user
`"system"`, and `audit_logs.userId` refers to `users`, so that the audit row of
any action fails and with it the draft, although `ai-hybrid-draft.service.ts`
means to "allow tags/routing for human review". The property says that an
application breaks off for a failed call, a deleted tag of the same name, a
member who left or another application at the same moment, and that one which
serves a draft breaks off whenever it acts.

### Knowledge

A document with its text, its row and its chunks, jobs of two workers or of the
request itself, requests to index again and to delete, and articles.
`broken[d]` remembers that a job failed or ran beside another; the audit row of
a finished job may fail, and READY then becomes FAILED. Known: a job
that was under way when its document was deleted writes its chunks afterwards
and leaves them behind (no answer quotes them, since the row is deleted); two
jobs of one document may mix their chunks.

### Accounts, Sessions

`Accounts` has one account and requests that overlap: sign-in (count of
failures, password, code, session), refresh, change of workspace, a reset by a
mailed link, a change of password, enrolment. `failures` is the counter with its
expiry, `links` the mailed links, each key with an expiry of its own.
`LockoutHolds` allows for requests that read the counter together and for a
Redis that does not answer, where the code lets the attempt pass.

`sessions` has a row for each session opened, with the password of the sign-in
it goes back to. Three operations open one: `login`; `refresh`
(`StartRefresh`, `ClaimSession`, `IssueTokens`, or `IssueFails` and
`ReleaseToken`, which gives the token back whatever became of it); and
`switchTenant` (`StartSwitch`), which asks for an access token only, good for 15
minutes whatever happens to its session. `OldPasswordIsOut` says what a new
password that has ended all sessions (`revokeAllUserRefreshTokens`) leaves of
the older ones: what was opened or given back `late`, by a request that was past
its checks by then, by a change of workspace, or in exchange for such a session.
Everything else is out; in particular a refresh that read its row before the end
and claims it afterwards gets nothing, because the claim looks again.

`Sessions` has the refresh tokens of one user. `row` is the RefreshToken row,
`session` and `index` the Redis keys `refresh:<hash>` and `refresh:user:<id>`,
`request[r]` a request being served, which can only present a token that was
once in a response (`handed`). `BeginRefresh .. Claim` is `refresh` up to its
conditional update, `Create .. Sign` are `issueTokens` and
`issueSuperOwnerTokens`, `CreateFails .. SignFails` their failures (a failed
call may have taken effect or not), `Release` the catch block of `refresh`,
`DropKey .. Answer` its end. `LogoutRow .. LogoutIndex` is `logout`;
`RevokeAll .. DeleteKeys` is what `handleRefreshReuse`, `changePassword`,
`resetPassword` and `resetMemberPassword` have in common, and `refresh` falls
into it when the token is revoked. `root` and `from` are history: which login a
token descends from, and which token it was exchanged for. Abstracted:
passwords, codes and memberships (a login may succeed at any time, an exchange
may be refused), times (a live token may have expired whenever it is presented,
a session may lapse at any time).

### Members

Operations of two requests at a time over four people and two workspaces:
invite, accept, revoke, remove, change a role, open and delete a workspace,
change the plan, connect and remove a channel. `TenantKeepsAnOwner` names in
`shaken` what the code does not guard: `updateMemberRole` and the deletion of a
workspace do not look for another owner, two removals may count each other, and
a removal counts owners of deleted workspaces as well (`Buried`).
Allowed for: revoking an invitation that was just accepted marks it REVOKED and
leaves the member; removing a member leaves conversations assigned to him; a
change of role leaves tokens that carry the older one.

### Access

One person, whose memberships change while a token is out. `Controllers` are the
controllers of the API, each a table of routes with their guards and roles (what
a handler or a service asks about roles by itself, as for shared saved replies
in `inbox.controller.ts:165`, is left out);
`Rule` looks a route up (no name is in two tables, a lemma of the proof),
`ScreenFor` the screens a role is shown, with the calls each `needs` and
`offers`. `ScreensWork` says that
whoever is shown a screen is served what it needs, but for `KnownGaps`, each a
disagreement of a screen and a controller (section 6).

### Screens

One screen at a time out of twenty (`AutomationScreen`, `TeamScreen`, ... say how
each differs: what chooses its list, whether it polls, whether a save reloads,
clears or closes the form, whether a delete looks at it). A row is unborn,
alive or gone: the database gives each new one an id of its own, so none comes
back, which matters, since a form goes by the id of the row it edits. `loads`
are requests under way, with the choice
they were sent for; an answer is shown when it comes. `list.late` is an answer
that came after a newer one was sent. `harm` collects what an answer did to text
typed meanwhile. Known: the quality notes' page keeps one note per row and each
reload wipes the unsaved ones; on the team page a change acts on the selected
workspace with rows of the one before; a field that was emptied is not cleared
by an edit (the empty string becomes `undefined`).

### Quality

Days, replies made on them, scores, the settings row and two administrators'
sheets. `StartNight .. Disable` is the nightly job: choose among
yesterday's replies, score them, then average over windows that end with each of
the last three days; the
code scores a conversation's last outbound message of that day, whoever wrote
it. `trail` is history: the nights on which the guardrail turned auto-reply off,
and those on which it saw no reason to. `GuardrailMissesOneDay` holds these
decisions against the windows of the design (section 6), computed from the
scores by themselves: both agree, but for scores of the oldest of a window's
three days. `NoticeStands` says that the notice is up only while auto-reply is
off.

A screen writes back the whole row it holds, whenever it was read. No property
limits that, since the code does not (section 6). Known besides: auto-reply that
was turned on again is turned off the next night over the same scores; two
processes sample twice; a screen whose read failed shows the defaults and can
save them.

### Connections

The newest live connection of a tenant, its secret and the one before with its
window of 24 hours, the store system's side (`shop`), two settings pages, the
super owner, an agent's search. `HeldSecretWorks` allows for rotations that
cross. Known: a failure of the audit row after `create` or `rotate` loses the
secret that is shown once; with a plan of several, disconnecting the newest
shows the form for a new one while an older answers; an older test's answer may
overwrite a newer one's; two creations at once pass the plan.

### Browser

The cookies of one browser with two tabs, the Next.js route handlers and
middleware, and requests in three steps: sent with the cookies of that time,
served, answered. `excuse` names what ends a session unasked: two tabs exchange
the same token (the loser's 401 clears all cookies), the answer of an exchange
is lost, a refresh fails at the server, an answer arrives after a logout and
brings cookies back, after a switch of workspace and reverts it, or after the
next sign-in and overwrites its cookies. A spent token is only refused here; that
it also ends all sessions of the user (`auth.service.ts:254-257`) is in
`Sessions` and `Accounts`.

### Client

The thread of the open conversation, its pages, events, optimistic bubbles and
the composer's draft. `log` is the database, times are places in it. `stream`
is the server-sent events, which may break; events missed meanwhile are not
loaded on reconnection. `thread.stale` says that what is shown is of the
conversation before, until the first load lands; a quiet load brings the latest
page and adds it to what is shown (`Merged`). `untold` names the conversations
of which the page has lost something, and of which the properties are silent
until they are opened again: events missed, a request that failed, a load
overtaken by a newer one or a page of older messages that lands in a thread
loaded anew (`Overtaken`), and more than a page (50 messages,
`useMessages.ts`) between two loads, which leaves a gap in the thread that
nothing fills (`Misses`). How many loads may be under way at once is a
parameter (`LoadPlaces`, `AskPlaces`; two of each in the run). Known, and allowed for: a first load that fails
leaves the previous customer's messages shown, and quiet loads then mix the two;
a bubble of a quick reply that is added after the reply is shown stays; the
answer of a requested draft lands in whatever composer is empty when it comes
(`astray`); sending or dismissing clears the composer of a conversation opened
meanwhile; an unsent message stays shown while its thread is open, and as the
oldest one it makes "load older" answer 404.

### Workbench

The list (a page of two, three conversations), the open row, the customer panel
and the resolve dialog. A page of older conversations that brings in the open one, which was not
listed until then, loads the panel as if it had been opened (`LandLoad`).
Known, each behind a flag: `crossed` (an answer of the
list older than a change), `raced` (panel answers after a turn to another
conversation: a failed load leaves the notes of the one before; assigning or
renaming the open conversation wipes the note being written), `astray` (a phone
number typed for one customer and saved after turning to another goes to the
other: "in haste" if `raced` had been set when the first one did, "calmly" if
not, which `PhonesGoHome` excludes), `jumped` (the count of unanswered messages returns after a turn, and
its question resolves the conversation it was asked for). Facts that need no
flag: a link `?conversationId=` draws its agent back at every change of the
list; the notification listener links `?conversation=`, which the inbox
ignores; changes of status publish no event; opening a resolved conversation
reopens it.

## 4. The runs

Every run disables the deadlock check: messages, jobs, calls and requests are
finite in number, so the system stops when they are used up.

| run | instance | what it shows |
|---|---|---|
| `automation_serial` | two rules, two runs, two workers, one handler, three messages, no failures; step lists with two pauses or a delay | `ReplyStepsFollowAResume`, `ResumedByALaterMessage`, `PauseEndsOnce`, `NoDoubleFire`, `SettledIsFinal` and the refinement `KeepsThePromise`: this is what the engine promises when messages are handled one at a time |
| `automation_settles` | one rule, two runs, two workers, the hourly timeout, fair scheduling | `EveryRunSettles` |
| `automation_rough` | one rule, two workers, one handler, the timeout; two failed calls, one crash, one edit that switches to a list of another length or deletes the rule | `StepsComeWhole` (`NoStepSkipped`, and COMPLETED means that every step took effect), `RepeatsNeedACrash` |
| `automation_rough_inline` | inline queue, two rules (on creation, on a status change), two concurrent handlers, an agent, a failed call, a handler that dies | `NoStepSkipped` where steps nest |
| `broadcast` | a job of up to three parts, its request, two schedulers, an agent, a failure, a crash; fair schedulers | `ReceivedOnce`, `SentIsComplete`, `DeletedInTimeStaysUnsent`, `DueJobsAreClaimed` |
| `credits` | parts: *credits* (three background calls, an agent's request, two months, plans with 0, 1 and 2 credits, a plan change, a failure, a crash), *knowledge*, *quality*, *client*, *workbench* | `CreditsAddUp`, `ReservedInLimit`, `IngestedIsQuoted`, `DeletedStaysUnquoted`, `GuardrailStands`, `InboxIsRight`, `BenchIsRight` |
| `sessions` | parts: *sessions* (three tokens, two requests, two troubles), *accounts*, *members*, *browser*, *connections* | `OneLivePerLogin`, `ExchangedOnce`, `LoggedOutStaysOut`, `CredentialsHold`, `TenancyHolds`, `SessionSurvives` |
| `conversations` | parts: *inbound* (two deliveries that share a message, an agent, a failure, a crash), *desk*, *drafts*, *slips*, *access*, *screens*, *scenarios*, *rules* | `DeliveriesAreHandled`, `ThreadIsTrue`, `LinksAreTrue`, `GoneStaysGone`, `DraftsAreTimely`, `TransfersCountOnce`, `PagesAreRight`, `ScenariosAndRulesHold` |
| `automation_concurrent` | two handlers, no failures | counterexample to `PauseEndsOnce` |
| `automation_delay` | a delay followed by a step that waits for the customer | counterexample to `ReplyStepsFollowAResume` |
| `broadcast_cancel` | one scheduler, an agent, no failures | counterexample to `CancelledIsNotSent` |
| `credits_checked` | two agents' requests, one credit | counterexample to `CreditsWithinLimit` |

The composite runs. `MCPlatform`, `MCPeople` and `MCConversations` each check
several components. These components write none of each other's rows and never
wait for each other; what one needs of another (a draft needs a message, a page
a token) is an event of its own module. Interleaving them would multiply their
states and show nothing. So a behaviour belongs to one component, its `part`,
and the variables of the others hold the value `Absent`. A property of a
component is checked as `part = "slips" => ...`, and the property of a run is
the conjunction of what its component's module states separately: the module
says what each conjunct means. Interchangeable values (requests, workers, tags,
images) are shared by the parts of a run, in few and small symmetry groups; no
run with symmetry checks liveness. What does interact is composed inside one
module: webhook, queue and agents in `Inbound`; pages, API, console and the
store system in `Connections`; cookies, tabs and server in `Browser`; form,
service and matcher in `Rules`; thread, composer and events in `Client`.

Why the bounds are enough. The races are between two actors over one row, so
two workers, handlers, requests, instances, tabs or pages show them; a third
message lets a pause be ended after another one; three steps give a first, a
middle and a last one. Two failures are what the catch block of the engine
needs to fail itself. Three parts have a first, a middle and a last; three
background calls are one more than the largest plan allows. A token, its
exchange and a second exchange of either are three tokens; two troubles let an
exchange fail to issue and then fail to tidy up. Two conversations on a page
and a third beyond it give the list an order, a next page and a row that is not
listed. Three days are judged at night, over windows that reach one day (the
code's) or two (the design's) further back; a scenario of *quality* begins after
days with low and good scores, so that within six days windows with and without
their oldest day occur, on which guardrail and design disagree in either
direction. Where all kinds of events together are too many, the scenarios of a run
(`AcScenarios`, `DfScenarios`, ...) combine those that touch the same state;
each names its question in a comment. What is proved does not depend on bounds.

Fairness. `automation_settles` assumes weak fairness of the workers, of the
handlers that have begun, and of the hourly job for each run that stays paused
(`@Cron` every hour); `broadcast` that each instance's scheduler comes round
(`@Cron` every minute) and works through what it has read. Nothing makes a
customer, an agent or LINE act. The other components are checked for safety
only, including what must hold *once nothing is under way* (`DraftsCatchUp`,
`SettledDocumentIsIndexed`, `ThreadIsWhole`, `ListIsTrue`): that is the part of
"eventually" that depends on the code and not on the network.

## 5. What is proved

Eight modules hold the proofs: `AutomationRunsProofs`, `BroadcastProofs`,
`SessionsProofs`, `ConnectionsProofs`, `PeopleProofs` (the parts of the run
`sessions`), `ConversationsProofs` and `PagesProofs` (those of
`conversations`), `PlatformProofs` (those of `credits`).

The theorems are about the unrestricted specifications: any sets of rules,
runs, threads, jobs, parts, calls, tokens, pages and requests, any number of
failures and crashes. The assumptions are the `ASSUME`s of the modules: sets of
different kinds of threads do not overlap, ids are finite where counted, bounds
are numbers. A rule's first step does not wait for the customer (the parser
enforces it). Some theorems about the engine have a further hypothesis, an
implication in their statement, which names what the property needs and the
code does not give; the end of this section says where it fails without. All
of them hold in the checked configuration `automation_serial`.

### The automation engine

`TypeCorrect`, `NothingSkipped` (`NoStepSkipped`). The property is almost
inductive, but says nothing of what a call knows. The invariant `Inv` adds: a
call holds the step list it has loaded, with its index inside it; from *advance*
and *enqueue* on the step at its index has been carried out; jobs and snapshots
refer to runs that exist. Each action is then checked against each place a run
may go on from.

`RunsAreWhole` (`StepsComeWhole`: none skipped, and COMPLETED means every step).
As long as no rule was edited, the list a call holds is that of its rule
(`StepsAreCurrent`), and a call that is about to complete a run has every step
behind it (`CompletesWhole`).

The remaining theorems need to know that nobody else is on the way to the step
a call is at. `Shape` says who is in what: a worker in the job it holds, a
handler in another run than those it still has to resume.

* `StepsRepeatAfterFailures` (`RepeatsNeedACrash`), if one message is handled at
  a time (`OneHandler`; `automation_concurrent` shows why). A weight is
  bounded: what is to come for a step (jobs at or before it, calls that lead to
  it, the pause that will) counts double together with how often it was carried
  out, and a call in its catch block counts once. A crash adds two to the
  allowance and a fault one; a step that moves a run only passes weight on. A
  fault turns a call into a failing one (half a repetition), a second one sends
  the failing call's job back (the other half): this is where the
  `faults \div 2` of the property comes from.
* `PausesEndOnce` (`PauseEndsOnce`), without faults and crashes (`Calm`) and with
  `OneHandler`: then the weight allows one task per step, so that when a pause
  is ended nothing leads to it any more (`PausesAreOver`), and no step brings
  back a place that was left (`Goes`).
* `SettledRunsStay` (`SettledIsFinal`) and `EngineKeepsThePromise`, the refinement
  of `AutomationPromise`, under `Serial`: `Calm`, `OneHandler` and no hourly
  timeout. A settled run has nothing on its way (`SettledIsQuiet`). Initial
  states map to initial states; `Act` maps to *Perform* of the step at the
  call's index, which all earlier steps precede (`NoStepSkipped`) and which was not
  performed (the weight); `Complete` to *Settle*; everything else, edits, dying
  handlers, redeliveries and agents' events included, to a stutter.
* `RepliesComeLater` (`ResumedByALaterMessage`), if each message is delivered
  once and no rule starts on the creation of a conversation (`Once`; section 6
  has what happens otherwise): `Posted` says that a message is in the hands of
  one handler, and that no run is due to it before that handler has resumed the
  paused ones. Faults, crashes, deaths and edits are allowed.
* `OneEffectPerMessage` (`NoDoubleFire`), under `Once` and without faults (a
  rejected resumption loses the list of rules, section 6): each rule a message
  resumed is in its handler's skip list, or is that of the run the handler is
  still in (`Remembers`).
* `RepliesAreAwaited` (`ReplyStepsFollowAResume`), if no rule is edited and no
  delay precedes a step that waits for the customer (`automation_delay`): no job
  and no worker is at such a step, and a call that is at one is a resumption
  (`Answered`). Everything else may fail.

### Broadcasts, credits, sessions

* `BroadcastProofs!SentOnce` (`ReceivedOnce`), `SentMeansComplete`
  (`SentIsComplete`), `DeletionInTimeHolds` (`DeletedInTimeStaysUnsent`). The
  invariant says that a job has at most one thread past its claim, that it has
  one only while PROCESSING (or while the audit row of a SENT job is written),
  that this thread's `next` divides the parts received from those that are not,
  and that an unclaimed job has received nothing.
* `PlatformProofs!TypeCorrect`, `CountersTellTheTruth` (`CreditsAddUp`),
  `ReservationsKeepTheLimit` (`ReservedInLimit`). `CreditsAddUp` with the types
  is inductive; the work is in the cardinalities, which change by one when one
  call enters or leaves the charged set. For the limit, a lemma shows that only
  a granted reservation adds to what the flows hold, and the counter bounds
  that from above.
* `SessionsProofs!TypeCorrect`, `LoginsNeverFork` (`OneLivePerLogin`),
  `TokensAreExchangedOnce` (`ExchangedOnce`), `LogoutsHold`
  (`LoggedOutStaysOut`). That live tokens of a login are one says nothing of the
  requests between claim and answer, which hold the right to make a token live.
  The invariant counts these with the live tokens: all of them belong to
  different logins. It adds that the token being exchanged, and any token that
  has bought another, is revoked and can be released by nobody else, and that a
  logged out token has no session. Most steps change none of this (`Quiet`);
  claim, insertion, release and answer are proved one by one.

### People

* `PeopleProofs!CredentialsAreHeld` (`CredentialsHold`). Lockout counts the
  failures together with the sign-ins that have passed the lock and are not yet
  counted (`GuessesBounded`), so that the sum is bounded when each request is.
  Links carry increasing numbers (`LinksAreNew`), one is used up when it is
  claimed (`ClaimedOnce`), and while requests for links do not meet, the link
  that works is the one on record or about to be (`InOrder`). For the sessions,
  a request that carries a token knows the password it goes back to (`Presents`)
  and has either read the one in force or begun before the last end of all
  sessions (`Traced`), while no end is still to come (`NoneEnding`); hence a
  live session of an older password is `late` (`LineageKept`).
* `TenancyIsHeld` (`TenancyHolds`). Seats and workspaces are counted together
  with the requests that have counted and not yet added (`SeatsKept`,
  `SpacesKept`); removals of owners with the owners that would be left
  (`OwnersKept`). The attempt showed that removals count owners of deleted
  workspaces too (`workspaces.service.ts:148-156`), and that a change of role or
  an invitation may still land in a workspace after its deletion: a tenant can
  so be left without an owner who can act. `Members` now names it (`Buried`).
* `SessionIsKept` (`SessionSurvives`). A live session is brought by one answer to
  a browser that does not have it yet (`TokensKept`); without an excuse no
  exchange is refused (`AnswersKept`, `OneRefreshEach`); a browser that is out
  gets no session back (`OutKept`). Here, too, the attempt found a case: an
  answer for an earlier session that is still on its way at the next sign-in
  overwrites the new cookies (`excuse` "crossed").
* `ConnectionsProofs!ConnectionIsHeld` (`ConnectionHolds`, a part of what
  `TenancyHolds` checks). A row that no two rotations crossed keeps the secret
  before the present one (`RowsKept`); a request knows of its row what it has
  read (`AskKept`); a connection whose proof stands is sound as soon as a row or
  a test vouches for it (`ProofKept`); a page that nothing upset shows what is,
  or will when its answer lands (`TabKept`).
* `PeopleAreWellTyped` (`TypesOK`), from the invariants of all five parts.

### Conversations and platform

* `ConversationsProofs!DeliveriesAreKept` (`DeliveriesAreHandled`). A delivery has
  handled every event before the one it is at, and no step of anybody else takes
  that back (`InFit`, `Grows`). It has as many attempts left as it was not failed
  by faults and, once, by another worker's customer row (`Persists`): a delivery
  that finds the row cannot create one, and so cannot clash again. Hence the
  hypothesis `Patient`, that faults leave two of the attempts
  (`line-webhook-queue.service.ts:67` gives three), and that the channel is
  switched once at most: while it is off its deliveries are dropped by design. How often the
  automations see a message is counted together with the deliveries that may
  still hand it to them (`HandedInv`); LINE does not repeat a message within one
  request (`OncePerRequest`).
* `ThreadStaysTrue` (`ThreadIsTrue`), without hypothesis: until its mark is
  written or given up, everything visible is told, crossed, or among what an
  agent is about to tell (`ToldInv`); a handler that is about to update a
  resolved row has seen it resolved or is `stale`.
* `ConversationsProofs!TransfersAreCountedOnce` (`TransfersCountOnce`). SlipOK
  has seen every code that is accepted or about to be (`AcceptedIsKnown`), and a
  task on its way to store a valid answer is alone with its code
  (`OneOnTheWay`). For the quota, tasks that ask or are charged hold one of the
  places that the limit leaves to tasks side by side (`QuotaInv`).
* `LinkAnswersWereTrue` (`LinksAreTrue`), `DeletedRowsStayDeleted`
  (`GoneStaysGone`): what a request may answer at each point, `Fit`, and that no
  step of a request brings a deleted row back.
* `PlatformProofs!IngestedDocumentsAreQuoted` (`IngestedIsQuoted`),
  `DeletedIsNeverQuoted` (`DeletedStaysUnquoted`). For a document none of whose
  jobs broke off or met, one thing at most is under way: a request, a purge, a
  queued or a running job (`OneAtATime`), and a job about to say so has stored
  its text and nothing else (`JobFits`).
* `GuardrailDecidesByDesign` (`GuardrailStands`). Scores are low or good, so an
  average is below the threshold when more are low. A window of the design has
  one day more than the code's (`OneDayApart`): without scores of that day of
  the kind that would tip the average, both compare alike. Scores made after a
  decision change nothing about it, since no window reaches the night's own day
  (`WindowsAreClosed`) and no night is ahead of its day (`NotAhead`).

* `DraftsStayTimely` (`DraftsAreTimely`). No agent has replied after a suggestion
  that is shown, unless the reply is about to supersede it or has left it
  `loose` (`ShownIsUnanswered`); a customer who waits is looked after by a timer,
  by a flow that has yet to read or has read his last message, or by a
  suggestion that saw it (`WaitingIsAttended`). The work is in what each kind of
  flow may still do.

### The web application, scenarios and rules

* `PagesProofs!PagesStayRight` (`PagesAreRight`). Access: the token's role was
  the membership's when it was issued (`AxInv`); that every screen is served
  what it needs is then a finite check of roles, routes and screens, done by
  cases. Screens: what a call may still do to the form depends on what the form
  has noticed of it (`CallFits`), a call has one reload at most (`OneReloads`),
  and a list that no answer came late for is of the current choice and up to
  date, as is what the newest load brings (`ListFits`, `LoadFits`).
* `PagesProofs!ScenariosAndRulesAreKept` (`ScenariosAndRulesHold`). For scenarios: an
  application that has chosen row i stands for the first row that matches what
  it read, what it has done is done unless it was undone, and as long as nothing
  stirs one is under way and finds what it saw (`Undisturbed`). For rules: a
  form can only be filled in to a shape that its fields have (`PageOK`), a form
  the browser lets through parses, writing it and opening it again gives the
  same rule, and the rule that is stored is as its form showed it
  (`IsAsShown`). The clock needs its own lemmas (`Hours`: a window that passes
  midnight, and its complement).
* `ConversationsAreWellTyped` (`TypesOK`), from the invariants of all eight parts.
* `PlatformProofs!WorkbenchIsRight` (`BenchIsRight`). Loads and calls that nothing
  overtook (`CalmLoads`, `CalmLooks`, `CalmCalls`) carry what is stored; a row of
  the list is true or a call that will put it right is on its way (`ListInv`,
  `Owed`); the same of the panel (`PanelInv`), of the question whether to
  resolve (`QuestionInv`) and of the phone (`PhonesAtHome`).
* `InboxStaysRight` (`InboxIsRight`). Every message after the latest that the
  thread reflects is coming, by an event or a load (`Coming`); a thread that
  is stale has its full load coming; one that is not is whole from its oldest
  message up to the latest it reflects, and its bubbles are at most those of
  replies after it, those that failed and those not yet stored (`ThreadInv`). A
  draft on offer is in the composer, or a load that will bring it is coming,
  unless the agent has turned to the composer (`BarInv`).
* `PlatformIsWellTyped` (`TypesOK`), from the invariants of all five parts.

What the attempts changed. An invariant of a page that is not inductive has as a
rule meant that the page does something the model or the property did not say:
more than a page of messages between two loads (`Client`), a page of older
conversations that brings in the open one (`Workbench`), a row that takes the
id of a deleted one (`Screens`, where the model was wrong), a form of more steps
than the parser takes (`Rules`). The model was corrected each time.
`ThreadIsWhole` and `DraftsComeThrough` came out stronger than they had been:
the first speaks of a thread that is still stale as well, the second of a
composer with text in it.

### Model-checked only

Liveness (`EveryRunSettles`, `DueJobsAreClaimed`), which the prover cannot treat
under fairness. All other properties of the passing runs are theorems; those of
the engine that have a hypothesis beyond the modules' assumptions are
model-checked in instances that satisfy it. That these
hypotheses cannot be dropped is shown by runs
(`OneHandler`, the delay) or stated in section 6 (`Once`, faults).

## 6. Where code and documents differ

Shown by runs:

* `automation_concurrent`: two messages handled at once resume the same pause
  twice; the design promises that the run resumes once.
* `automation_delay`: the step after a delay is carried out without waiting for
  the customer although it asks to; the design says delay first, then pause.
* `broadcast_cancel`: a cancellation decided on a status read earlier is
  audited although the job was sent in between.
* `credits_checked`: agents' requests check before and charge after the call of
  the LLM, the very pattern the comment in `ai-credit.util.ts` warns of.

Seen while modelling, and kept as the exceptions the properties name:

* Automation: with an inline queue, or a fast worker, the message that creates a
  conversation starts a run and is then taken for the reply that resumes it,
  because the webhook resumes after dispatching CONVERSATION_CREATED; if one
  resumption rejects, `resumeWaitingRuns` loses the list of rules already
  resumed and they fire again for the same message.
* Broadcasts: a job sent in full turns FAILED when its audit row cannot be
  written, and can then be deleted from the list.
* Sessions: `refresh` claims the old token before it stores the new one,
  whereas `docs/security/stage-1-superpowers-remaining-spec.md:96` asks for the
  new Redis entry first; a request that breaks off in between leaves its client
  without a token. `Release` makes the row live again even if a logout revoked
  it in the meantime; what then keeps the token from being exchanged is that its
  session is gone, which is why `LoggedOutStaysOut` is about the session.
* Roles: `permission-matrix.md` gives administrators "Reply to Conversation" and
  "View Channel Settings", `line-channels.controller.ts:27,62` admits agents
  only; it gives viewers "View Team Reports", while the reports page
  (`reports/page.tsx:236-242`) also asks for figures that `qa.controller.ts:60`
  refuses them. The inbox offers every role every button.
* Guardrail: `docs/superpowers/specs/2026-06-24-stage-12-ai-qa-policy-design.md:93`
  asks to "compute rolling 3-day average (scores from UTC days D-2..D inclusive)
  for each of the last 3 complete days", and its line 158 speaks of a "Rolling
  3-day window average". `ai-guardrail.service.ts:101-113` begins a window two
  days (`ROLLING_WINDOW_DAYS - 1`) before the midnight at which it ends: it has
  the scores of two days. With good scores on day 0 and low ones on days 1, 3
  and 4 the code turns auto-reply off and the design would not; with low scores
  on days 0, 3 and 4 the design would, and the code finds an empty window.
  `GuardrailMissesOneDay` states how far the two can differ; `credits` reaches
  both cases.
* Settings screen: `ai-settings.tsx:228-260` sends every field it shows. A screen
  that was read before the guardrail fired and is saved after turns auto-reply
  on again and takes the notice away, and one that was read before another
  administrator saved writes that one's changes over; neither administrator has
  touched the field.
* Sessions after a new password: `password-reset.service.spec.ts:120` expects that
  a reset "sets the new password, revokes sessions, clears lockout, and audits".
  A refresh that has claimed its token stores a new live row after all were
  revoked (`auth.service.ts:276-301`), or makes the old row live again when
  issuing fails; `switchTenant` (`127-151`) opens a session on an access token of
  15 minutes (`auth.service.ts:42`), which no revocation ends. `Accounts` has
  both (`late`), and `OldPasswordIsOut` that there is no third way.
* Passwords: the comment in `password-reset.service.ts` says that only the most
  recent link stays valid; two requests at once leave two.
* Workspaces: "Cannot remove the last owner in the tenant" guards removals only,
  and not two at once.
* Connections: `chatwai-connect-v1.md:42` and the settings page say that the old
  secret keeps working for 24 hours; a second rotation within them drops it.
* Hours: a design document speaks of `[start, end)`, the code includes the
  closing hour (`isWithinActiveHours`).
* Scenarios: a background draft fails when its scenario has an action (above).

Left open by the code, by design of no property here: a run whose handler dies
before its first job is queued stays PENDING, and one whose inline caller dies
stays RUNNING; a broadcast whose instance dies after the claim stays
PROCESSING.

## 7. Not modelled

* Storage and files: an adapter of the object store. `cleanupTrash` calls
  `deleteFile`, which finds only rows that are not yet deleted, so that it
  removes nothing; a model would restate this one condition.
* Mail, Redis and Prisma wrappers, health checks: I/O without decisions; their
  failures are failed calls of the modules that use them.
* Backup: rows for runs of `pg_dump` and `psql`, one process at a time.
* Landing page, texts, theme, layout, sounds, filters: presentation.
* Partly: of the inbox the text of summaries and prompt templates, and files;
  of the reply generator the prompts, and the providers, which are one external
  call that answers, hands over or fails; of curation and compliance the
  queries (two approvals at once create two articles) and the CSV; of the
  realtime service the fan-out over Redis, which keeps only subscriptions; of
  reporting, audit and monitoring the queries, of which `monitor.service.ts`
  counts in memory and loses increments across instances.
