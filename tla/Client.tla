-------------------------------- MODULE Client --------------------------------
(***************************************************************************)
(* An agent's inbox page (apps/web/app/app/inbox): the thread of the open  *)
(* conversation, the reply composer with the drafts of the AI, and the     *)
(* stream of events that makes both load again (apps/api/src/realtime).    *)
(* Answers come in any order.  Times of messages are their places in log.  *)
(***************************************************************************)
EXTENDS Integers, Sequences, FiniteSets

CONSTANTS
  Convs,       \* conversations
  PageSize,    \* messages in a page of a thread
  LoadPlaces,  \* places of the page loads under way
  AskPlaces,   \* places of the loads of a draft under way
  Earlier,     \* the conversation of each message that is there at first
  ClBounds     \* by whether drafts are made unasked: how often each thing happens

NoConv == "none"

ASSUME ClientAssumption == PageSize \in Nat \ {0} /\ Earlier \in Seq(Convs) /\ NoConv \notin Convs

VARIABLES
  hybrid,  \* the setting enableHybridAutoDraft
  log,     \* the messages the API stores
  draft,   \* by conversation: the last AI draft, is it still to be shown, and since which message
  stream,  \* the event stream, and the conversations it did not tell about
  open,    \* the conversation that is open
  thread,  \* the messages shown, and the optimistic ones after them
  fetches, \* the page loads under way
  bar,     \* the composer
  asks,    \* the loads of the active draft under way
  calls,   \* the calls of the composer under way
  clLeft

clVars == <<hybrid, log, draft, stream, open, thread, fetches, bar, asks, calls, clLeft>>

CallNames == {"send", "quick", "generate", "dismiss"}
Nothing == [of |-> NoConv]
NoText == [by |-> "nobody"]
Typed == [by |-> "agent"]
Made(c, n) == [by |-> "ai", of |-> c, n |-> n]

ClUses(what) == clLeft[what] > 0 /\ clLeft' = [clLeft EXCEPT ![what] = @ - 1]

-----------------------------------------------------------------------------
(* The API. *)

Held(c) == {i \in DOMAIN log : log[i].of = c /\ log[i].alive}
Latest(S) == {i \in S : Cardinality({j \in S : j > i}) < PageSize}
Lowest(S) == CHOOSE i \in S : \A j \in S : i <= j
Highest(S) == CHOOSE i \in S : \A j \in S : j <= i

\* The events go to the pages that listen; nothing is kept for the others.
Published(type, c) ==
  IF stream.open THEN [stream EXCEPT !.queue = Append(@, [type |-> type, of |-> c])]
  ELSE [stream EXCEPT !.untold = @ \union {c}]
\* The answer of an agent settles the draft; that of an automation hides it until the customer writes.
Stored(c, by) ==
  /\ log' = Append(log, [of |-> c, out |-> by # "customer", alive |-> TRUE])
  /\ draft' = [draft EXCEPT ![c].live = @ /\ by # "agent"]
  /\ stream' = Published("message", c)

CustomerWrites(c) ==
  /\ ClUses("messages") /\ Stored(c, "customer")
  /\ UNCHANGED <<open, thread, fetches, bar, asks, calls>>

\* Another agent, or an automation.
OtherReplies(c) ==
  /\ ClUses("messages") /\ \E by \in {"agent", "automation"} : Stored(c, by)
  /\ UNCHANGED <<open, thread, fetches, bar, asks, calls>>

CustomerUnsends(i) ==
  /\ log[i].alive /\ ~log[i].out /\ ClUses("unsends")
  /\ log' = [log EXCEPT ![i].alive = FALSE]
  /\ stream' = Published("deleted", log[i].of)
  /\ UNCHANGED <<draft, open, thread, fetches, bar, asks, calls>>

\* The last draft; one before it that was never settled is left out.
NewDraft(c) == [n |-> draft[c].n + 1, live |-> TRUE, since |-> Len(log)]
OnOffer(c) ==
  draft[c].live /\ ~\E i \in Held(c) : i > draft[c].since /\ log[i].out /\ \A j \in Held(c) : j <= i
DraftIsMade(c) ==
  /\ hybrid /\ ClUses("drafts")
  /\ draft' = [draft EXCEPT ![c] = NewDraft(c)]
  /\ stream' = Published("draft", c)
  /\ UNCHANGED <<log, open, thread, fetches, bar, asks, calls>>

-----------------------------------------------------------------------------
(* What the page starts: page loads, and loads of the active draft.         *)

FreeLoad == {n \in LoadPlaces : fetches[n] = Nothing}
FreeAsk == {n \in AskPlaces : asks[n] = Nothing}
NewLoad(kind, c, before) ==
  [of |-> c, kind |-> kind, before |-> before, got |-> "pending", ids |-> {}, more |-> FALSE, upto |-> 0]
Starting(kind, c, before) ==
  [fetches EXCEPT ![CHOOSE n \in FreeLoad : TRUE] = NewLoad(kind, c, before)]
NewAsk(c, last) == [of |-> c, last |-> last, got |-> "pending", n |-> 0]
Asking(c, last) == [asks EXCEPT ![CHOOSE n \in FreeAsk : TRUE] = NewAsk(c, last)]

AsksFor(c) == IF hybrid THEN FreeAsk # {} /\ asks' = Asking(c, bar.last) ELSE UNCHANGED asks
\* A quiet load of the open thread, and of no other.
Refreshes(c) ==
  IF open = c THEN FreeLoad # {} /\ fetches' = Starting("quiet", c, 0) ELSE UNCHANGED fetches
\* After a reply was sent no draft is loaded until a message comes or the conversation changes.
Looks(c) == IF open = c /\ ~bar.suppressed THEN AsksFor(c) ELSE UNCHANGED asks

-----------------------------------------------------------------------------

EmptyBar == [text |-> NoText, draft |-> Nothing, last |-> NoText, suppressed |-> FALSE, turned |-> FALSE, astray |-> FALSE]
EmptyThread == [ids |-> {}, bubbles |-> 0, ghosts |-> 0, more |-> FALSE, stale |-> TRUE, upto |-> 0]

ClTypeOK ==
  /\ hybrid \in BOOLEAN /\ open \in Convs \union {NoConv}
  /\ log \in Seq([of : Convs, out : BOOLEAN, alive : BOOLEAN])
  /\ draft \in [Convs -> [n : Nat, live : BOOLEAN, since : 0..Len(log)]]
  /\ stream.queue \in Seq([type : {"message", "deleted", "draft"}, of : Convs]) /\ stream.untold \subseteq Convs
  /\ thread.ids \subseteq DOMAIN log /\ thread.bubbles \in Nat /\ thread.ghosts \in Nat
  /\ \A n \in LoadPlaces : fetches[n] # Nothing =>
       fetches[n].of \in Convs /\ fetches[n].kind \in {"full", "quiet", "older"}
  /\ \A n \in AskPlaces : asks[n] # Nothing => asks[n].of \in Convs
  /\ \A k \in CallNames : calls[k].of \in Convs \union {NoConv}
  /\ bar.draft # Nothing => bar.draft.of \in Convs /\ bar.draft.n \in 1..draft[bar.draft.of].n

ClInit ==
  /\ log = [i \in DOMAIN Earlier |-> [of |-> Earlier[i], out |-> FALSE, alive |-> TRUE]]
  /\ draft = [c \in Convs |-> [n |-> 0, live |-> FALSE, since |-> 0]]
  /\ stream = [open |-> TRUE, queue |-> <<>>, untold |-> {}]
  /\ open = NoConv /\ thread = EmptyThread /\ bar = EmptyBar
  /\ fetches = [n \in LoadPlaces |-> Nothing]
  /\ asks = [n \in AskPlaces |-> Nothing]
  /\ calls = [k \in CallNames |-> Nothing]
  /\ hybrid \in BOOLEAN /\ clLeft \in ClBounds[hybrid]

\* Mutant: the composer keeps what it holds.
KeptBar(c) == [bar EXCEPT !.suppressed = FALSE, !.turned = FALSE, !.astray = FALSE]
\* The composer is emptied; the thread keeps the messages of the conversation before until its own have come.
ClearedBar(c) == EmptyBar
Select(c) ==
  /\ c # open /\ FreeLoad # {} /\ ClUses("selects")
  /\ open' = c
  /\ thread' = [thread EXCEPT !.stale = TRUE, !.more = FALSE, !.upto = 0]
  /\ fetches' = Starting("full", c, 0)
  /\ bar' = ClearedBar(c)
  /\ AsksFor(c)
  /\ stream' = [stream EXCEPT !.untold = @ \ {c}]
  /\ UNCHANGED <<log, draft, calls>>

Close ==
  /\ open # NoConv /\ ClUses("selects")
  /\ open' = NoConv /\ bar' = ClearedBar(NoConv)
  /\ thread' = EmptyThread
  /\ UNCHANGED <<log, draft, stream, fetches, asks, calls>>

-----------------------------------------------------------------------------
(* The event stream. *)

LooksFor(event) == IF event.type # "deleted" THEN Looks(event.of) ELSE UNCHANGED asks
TakeEvent ==
  /\ stream.queue # <<>>
  /\ stream' = [stream EXCEPT !.queue = Tail(@)]
  /\ LET event == Head(stream.queue) IN
       /\ LooksFor(event)
       /\ IF event.type # "draft" THEN Refreshes(event.of) ELSE UNCHANGED fetches
  /\ UNCHANGED <<log, draft, open, thread, bar, calls, clLeft>>

\* The stream opens again a second later, and nothing is loaded because of it.
StreamBreaks ==
  /\ stream.open /\ ClUses("breaks")
  /\ stream' = [open |-> FALSE, queue |-> <<>>,
                untold |-> stream.untold \union {stream.queue[i].of : i \in DOMAIN stream.queue}]
  /\ UNCHANGED <<log, draft, open, thread, fetches, bar, asks, calls>>

StreamOpens ==
  /\ ~stream.open /\ stream' = [stream EXCEPT !.open = TRUE]
  /\ UNCHANGED <<log, draft, open, thread, fetches, bar, asks, calls, clLeft>>

\* Every ten seconds, while the stream is down.
PollThread ==
  /\ ~stream.open /\ open # NoConv /\ ClUses("polls")
  /\ Refreshes(open)
  /\ UNCHANGED <<log, draft, stream, open, thread, bar, asks, calls>>

-----------------------------------------------------------------------------
(* The thread. *)

LoadOlder ==
  /\ open # NoConv /\ thread.ids # {} /\ thread.more
  /\ \A n \in LoadPlaces : fetches[n] # Nothing => fetches[n].kind # "older"
  /\ FreeLoad # {} /\ fetches' = Starting("older", open, Lowest(thread.ids))
  /\ UNCHANGED <<log, draft, stream, open, thread, bar, asks, calls, clLeft>>

\* The page of a message that is gone, or of another conversation, is not found.
Within(load) == {i \in Held(load.of) : load.kind = "older" => i < load.before}
Page(load) ==
  [load EXCEPT !.got = "page", !.ids = Latest(Within(load)), !.more = Cardinality(Within(load)) > PageSize,
               !.upto = Len(log)]
ServePage(n) ==
  /\ fetches[n] # Nothing /\ fetches[n].got = "pending"
  /\ \/ /\ fetches[n].kind = "older" => fetches[n].before \in Held(fetches[n].of)
        /\ fetches' = [fetches EXCEPT ![n] = Page(@)]
        /\ UNCHANGED clLeft
     \/ fetches' = [fetches EXCEPT ![n].got = "failed"] /\ ClUses("faults")
     \/ /\ fetches[n].kind = "older" /\ fetches[n].before \notin Held(fetches[n].of)
        /\ fetches' = [fetches EXCEPT ![n].got = "failed"] /\ UNCHANGED clLeft
  /\ UNCHANGED <<log, draft, stream, open, thread, bar, asks, calls>>

HighestOf(a, b) == IF a < b THEN b ELSE a

\* A full load replaces what is shown; a quiet one adds to it, each new reply taking the place
\* of an optimistic one; an older page goes before it, whatever is shown by then.
NewReplies(load) == {i \in load.ids \ thread.ids : log[i].out}
Merged(load) ==
  IF load.kind = "full"
  THEN [ids |-> load.ids, bubbles |-> 0, ghosts |-> 0, more |-> load.more, stale |-> FALSE, upto |-> load.upto]
  ELSE IF load.kind = "quiet"
  THEN [thread EXCEPT !.ids = @ \union load.ids, !.bubbles = HighestOf(0, @ - Cardinality(NewReplies(load))),
                      !.more = load.more, !.upto = HighestOf(@, load.upto)]
  ELSE [thread EXCEPT !.ids = @ \union load.ids, !.more = load.more]

\* More than a page came after what was there.
Misses(seen, upto, ids) == \E i \in Held(open) : seen < i /\ i <= upto /\ \A j \in ids : i < j
\* An answer that was overtaken, or that does not reach what is shown, leaves the thread short.
Overtaken(load) ==
  \/ load.kind = "full" /\ load.upto < thread.upto
  \/ load.kind = "older" /\ ~thread.stale /\ load.before \notin thread.ids
  \/ /\ load.kind = "quiet" /\ ~thread.stale
     /\ \/ Misses(thread.upto, load.upto, load.ids)
        \/ load.ids # {} /\ Misses(load.upto, thread.upto, thread.ids)

LastInbound(ids) == LET S == {i \in ids : ~log[i].out} IN IF S = {} THEN 0 ELSE Highest(S)

\* An answer is used while its conversation is open; a new last message has the draft looked for.
LandPage(n) ==
  /\ fetches[n] # Nothing /\ fetches[n].got = "page"
  /\ fetches' = [fetches EXCEPT ![n] = Nothing]
  /\ IF fetches[n].of # open THEN UNCHANGED <<thread, bar, asks, stream>>
     ELSE /\ thread' = Merged(fetches[n])
          /\ stream' = IF Overtaken(fetches[n]) THEN [stream EXCEPT !.untold = @ \union {open}] ELSE stream
          /\ IF LastInbound(thread'.ids) \notin {0, LastInbound(thread.ids)}
             THEN /\ bar' = [bar EXCEPT !.suppressed = FALSE]
                  /\ AsksFor(open)
             ELSE UNCHANGED <<bar, asks>>
  /\ UNCHANGED <<log, draft, open, calls, clLeft>>

LoadFails(n) ==
  /\ fetches[n] # Nothing /\ fetches[n].got = "failed"
  /\ fetches' = [fetches EXCEPT ![n] = Nothing]
  /\ stream' = IF fetches[n].kind # "older" THEN [stream EXCEPT !.untold = @ \union {fetches[n].of}] ELSE stream
  /\ UNCHANGED <<log, draft, open, thread, bar, asks, calls, clLeft>>

-----------------------------------------------------------------------------
(* The composer. *)

Sending == calls["send"] # Nothing
Writes(text) ==
  /\ open # NoConv /\ ~Sending
  /\ bar' = [bar EXCEPT !.text = text]
  /\ UNCHANGED <<log, draft, stream, open, thread, fetches, asks, calls>>
TypeText == bar.text # Typed /\ ClUses("types") /\ Writes(Typed)
Wipe == bar.text # NoText /\ ClUses("types") /\ Writes(NoText)

ServeAsk(n) ==
  /\ asks[n] # Nothing /\ asks[n].got = "pending"
  /\ LET c == asks[n].of IN
       \/ /\ asks' = [asks EXCEPT ![n].got = "answer", ![n].n = IF OnOffer(c) THEN draft[c].n ELSE 0]
          /\ UNCHANGED <<stream, clLeft>>
       \/ /\ ClUses("faults") /\ asks' = [asks EXCEPT ![n] = Nothing]
          /\ stream' = [stream EXCEPT !.untold = @ \union {c}]
  /\ UNCHANGED <<log, draft, open, thread, fetches, bar, calls>>

\* The draft goes into an empty composer, or over the draft that was there when it was asked for,
\* whatever conversation is open by now.
Offered(c, n) == [bar EXCEPT !.text = Made(c, n), !.draft = [of |-> c, n |-> n], !.last = Made(c, n),
                             !.astray = @ \/ c # open]
LandAsk(n) ==
  /\ asks[n] # Nothing /\ asks[n].got = "answer"
  /\ asks' = [asks EXCEPT ![n] = Nothing]
  /\ bar' = IF asks[n].n = 0 THEN bar
            ELSE IF bar.text \in {NoText, asks[n].last} THEN Offered(asks[n].of, asks[n].n)
            ELSE [bar EXCEPT !.turned = TRUE]
  /\ UNCHANGED <<log, draft, stream, open, thread, fetches, calls, clLeft>>

\* A call for a conversation, and the draft it is about.
Called(c, which) == [of |-> c, got |-> "pending", draft |-> which]
\* The draft that is there is rejected first.
PressGenerate ==
  /\ open # NoConv /\ ~Sending /\ calls["generate"] = Nothing /\ ClUses("generates")
  /\ calls' = [calls EXCEPT !["generate"] = Called(open, bar.draft)]
  /\ bar' = [bar EXCEPT !.draft = Nothing, !.last = IF bar.draft = Nothing THEN @ ELSE NoText]
  /\ UNCHANGED <<log, draft, stream, open, thread, fetches, asks>>

ServeGenerate ==
  /\ calls["generate"] # Nothing /\ calls["generate"].got = "pending"
  /\ LET c == calls["generate"].of IN
       \/ /\ draft' = [draft EXCEPT ![c] = NewDraft(c)]
          /\ calls' = [calls EXCEPT !["generate"].got = "draft",
                                    !["generate"].draft = [of |-> c, n |-> draft[c].n + 1]]
          /\ UNCHANGED <<stream, clLeft>>
       \/ /\ ClUses("faults")
          /\ draft' = [draft EXCEPT ![c].live = @ /\ calls["generate"].draft # [of |-> c, n |-> draft[c].n]]
          /\ calls' = [calls EXCEPT !["generate"] = Nothing]
          /\ stream' = [stream EXCEPT !.untold = @ \union {c}]
  /\ UNCHANGED <<log, open, thread, fetches, bar, asks>>

\* Over whatever the composer holds.
LandGenerate ==
  /\ calls["generate"] # Nothing /\ calls["generate"].got = "draft"
  /\ bar' = Offered(calls["generate"].of, calls["generate"].draft.n)
  /\ calls' = [calls EXCEPT !["generate"] = Nothing]
  /\ UNCHANGED <<log, draft, stream, open, thread, fetches, asks, clLeft>>

\* A draft that is dismissed; that the call failed is not noticed.
PressDismiss ==
  /\ bar.draft # Nothing /\ calls["dismiss"] = Nothing /\ ClUses("dismissals")
  /\ calls' = [calls EXCEPT !["dismiss"] = Called(bar.draft.of, bar.draft)]
  /\ UNCHANGED <<log, draft, stream, open, thread, fetches, bar, asks>>

ServeDismiss ==
  LET call == calls["dismiss"] IN
  /\ call # Nothing /\ call.got = "pending"
  /\ calls' = [calls EXCEPT !["dismiss"].got = "done"]
  /\ \/ /\ draft' = [draft EXCEPT ![call.of].live = @ /\ draft[call.of].n # call.draft.n]
        /\ UNCHANGED <<stream, clLeft>>
     \/ /\ ClUses("faults") /\ UNCHANGED draft
        /\ stream' = [stream EXCEPT !.untold = @ \union {call.of}]
  /\ UNCHANGED <<log, open, thread, fetches, bar, asks>>

\* The composer is emptied, whatever it holds by now.
LandDismiss ==
  /\ calls["dismiss"] # Nothing /\ calls["dismiss"].got = "done"
  /\ bar' = [bar EXCEPT !.text = NoText, !.draft = Nothing, !.last = NoText, !.turned = TRUE]
  /\ calls' = [calls EXCEPT !["dismiss"] = Nothing]
  /\ UNCHANGED <<log, draft, stream, open, thread, fetches, asks, clLeft>>

-----------------------------------------------------------------------------
(* Replies. *)

Bubble(c, ghost) ==
  IF open = c THEN [thread EXCEPT !.bubbles = @ + 1, !.ghosts = @ + ghost] ELSE thread

\* The optimistic message of a reply is there before the reply is sent.
ShownFirst(c) == Bubble(c, 0)
PressSend ==
  /\ open # NoConv /\ ~Sending /\ bar.text # NoText /\ ClUses("sends")
  /\ thread' = ShownFirst(open)
  /\ calls' = [calls EXCEPT !["send"] = Called(open, Nothing)]
  /\ UNCHANGED <<log, draft, stream, open, fetches, bar, asks>>

\* With Quick Reply Auto Enter the reply goes out, and otherwise into the composer.
PressQuick ==
  /\ open # NoConv /\ calls["quick"] = Nothing /\ ClUses("sends")
  /\ \/ calls' = [calls EXCEPT !["quick"] = Called(open, Nothing)] /\ UNCHANGED bar
     \/ bar' = [bar EXCEPT !.text = Typed] /\ UNCHANGED calls
  /\ UNCHANGED <<log, draft, stream, open, thread, fetches, asks>>

\* Sent, or sent with the answer lost, or not sent.
ServeReply(k) ==
  /\ calls[k] # Nothing /\ calls[k].got = "pending"
  /\ \/ Stored(calls[k].of, "agent") /\ calls' = [calls EXCEPT ![k].got = "done"] /\ UNCHANGED clLeft
     \/ Stored(calls[k].of, "agent") /\ calls' = [calls EXCEPT ![k].got = "failed"] /\ ClUses("faults")
     \/ UNCHANGED <<log, draft, stream>> /\ calls' = [calls EXCEPT ![k].got = "failed"] /\ ClUses("faults")
  /\ UNCHANGED <<open, thread, fetches, bar, asks>>

\* The composer is emptied, though another conversation may be open by now.
LandSend ==
  /\ calls["send"].of # NoConv /\ calls["send"].got = "done"
  /\ bar' = [EmptyBar EXCEPT !.suppressed = TRUE]
  /\ Refreshes(calls["send"].of)
  /\ calls' = [calls EXCEPT !["send"] = Nothing]
  /\ UNCHANGED <<log, draft, stream, open, thread, asks, clLeft>>

\* The optimistic message comes when the reply may be shown already.
LandQuick ==
  /\ calls["quick"].of # NoConv /\ calls["quick"].got = "done"
  /\ thread' = Bubble(calls["quick"].of, 1)
  /\ Refreshes(calls["quick"].of)
  /\ calls' = [calls EXCEPT !["quick"] = Nothing]
  /\ UNCHANGED <<log, draft, stream, open, bar, asks, clLeft>>

\* An error is shown; the optimistic message stays.
ReplyFails(k) ==
  /\ calls[k].of # NoConv /\ calls[k].got = "failed"
  /\ thread' = IF k = "send" /\ open = calls[k].of THEN [thread EXCEPT !.ghosts = @ + 1] ELSE thread
  /\ calls' = [calls EXCEPT ![k] = Nothing]
  /\ UNCHANGED <<log, draft, stream, open, fetches, bar, asks, clLeft>>

-----------------------------------------------------------------------------

ClMoves == \/ \E c \in Convs : CustomerWrites(c) \/ OtherReplies(c) \/ DraftIsMade(c) \/ Select(c)
           \/ \E i \in DOMAIN log : CustomerUnsends(i)
           \/ Close \/ TakeEvent \/ StreamBreaks \/ StreamOpens \/ PollThread \/ LoadOlder
           \/ \E n \in LoadPlaces : ServePage(n) \/ LandPage(n) \/ LoadFails(n)
           \/ \E n \in AskPlaces : ServeAsk(n) \/ LandAsk(n)
           \/ TypeText \/ Wipe \/ PressGenerate \/ ServeGenerate \/ LandGenerate
           \/ PressDismiss \/ ServeDismiss \/ LandDismiss
           \/ PressSend \/ PressQuick \/ LandSend \/ LandQuick
           \/ \E k \in {"send", "quick"} : ServeReply(k) \/ ReplyFails(k)
ClNext == ClMoves /\ UNCHANGED hybrid

ClSpec == ClInit /\ [][ClNext]_clVars

-----------------------------------------------------------------------------
(* Properties. *)

Still ==
  /\ open # NoConv /\ stream.queue = <<>> /\ open \notin stream.untold
  /\ \A n \in LoadPlaces : fetches[n] = Nothing
  /\ \A n \in AskPlaces : asks[n] = Nothing
  /\ \A k \in CallNames : calls[k] = Nothing

\* Once nothing is under way, no event was lost, no answer overtaken, and no more than a page
\* came at once, the thread shows messages of the open conversation only, and every one since
\* the oldest it shows (the messages a customer has unsent since may stay).
ThreadIsWhole ==
  Still =>
    /\ \A i \in thread.ids : log[i].of = open
    /\ \A i \in Held(open) : thread.ids # {} /\ \A j \in thread.ids : j <= i => i \in thread.ids

\* No optimistic message outlives its reply, but those of replies that failed and of quick replies.
NoGhosts == Still => thread.bubbles <= thread.ghosts

\* A draft in the composer was made for the open conversation, unless its answer came after
\* another one was chosen; a composer that nobody turned to has taken the draft on offer.
DraftsComeThrough ==
  /\ bar.draft # Nothing /\ ~bar.astray => bar.draft.of = open
  /\ Still /\ hybrid /\ OnOffer(open) /\ ~bar.suppressed /\ ~bar.turned => bar.draft # Nothing

PageHolds == ThreadIsWhole /\ NoGhosts /\ DraftsComeThrough
=============================================================================
