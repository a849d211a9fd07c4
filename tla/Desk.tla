-------------------------------- MODULE Desk --------------------------------
(***************************************************************************)
(* What a team keeps around one conversation                               *)
(* (apps/api/src/inbox/inbox.service.ts and inbox.controller.ts): tags and *)
(* their links to the conversation, internal notes, saved replies, the     *)
(* assigned member and the priority.  Requests run side by side: each      *)
(* reads the rows it is about, is allowed or refused, and then writes by   *)
(* id.  The bot, that is, an automation or an escalation, tags by name.    *)
(***************************************************************************)
EXTENDS Integers, FiniteSets

CONSTANTS
  Users,
  RoleOf,      \* the role in the token of each user
  Bot,
  Tags, Notes, Replies,   \* the rows there may be
  Names,       \* of tags; one of them is the bot's
  DkBound      \* how many requests there may be

Roles == {"OWNER", "ADMIN", "AGENT", "QC"}

ASSUME DeskAssumption ==
  /\ RoleOf \in [Users -> Roles]
  /\ Bot \notin Users
  /\ DkBound \in Nat

Actors == Users \union {Bot}
Nobody == Bot   \* stands for the absent author, owner or assignee

VARIABLES
  tag, link,       \* the tags of the tenant, and their links to the conversation
  note, reply,     \* internal notes and saved replies
  holder, priority,
  member,          \* the users whose membership is active
  call,            \* the request of each actor
  dkLeft

rows == <<tag, link, note, reply>>
dkVars == <<rows, holder, priority, member, call, dkLeft>>

State == {"none", "live", "gone"}
Priorities == {"LOW", "NORMAL", "HIGH", "URGENT"}

\* Row is a tag, a note, a reply or a user; was: did the link stand as asked for at
\* some moment of the call; seen: the link it read.
Call == [do : {"idle", "editTag", "deleteTag", "lookLink", "addLink", "findLink", "dropLink", "writeNote",
               "deleteNote", "editReply", "deleteReply", "assign", "makeTag", "answer"},
         row : Tags \union Notes \union Replies \union Actors, to : Names \union BOOLEAN,
         seen : State, was : BOOLEAN, adds : BOOLEAN]

DkTypeOK ==
  /\ tag \in [Tags -> [state : State, name : Names \union {Bot}]]
  /\ link \in [Tags -> State]
  /\ note \in [Notes -> [state : State, by : Actors]]
  /\ reply \in [Replies -> [state : State, by : Actors, active : BOOLEAN]]
  /\ holder \in Actors /\ priority \in Priorities
  /\ member \subseteq Users
  /\ call \in [Actors -> Call]
  /\ dkLeft \in 0..DkBound

Idle == [do |-> "idle", row |-> Bot, to |-> FALSE, seen |-> "none", was |-> FALSE, adds |-> FALSE]

DkInit ==
  /\ tag = [t \in Tags |-> [state |-> "none", name |-> Bot]]
  /\ link = [t \in Tags |-> "none"]
  /\ note = [n \in Notes |-> [state |-> "none", by |-> Nobody]]
  /\ reply = [r \in Replies |-> [state |-> "none", by |-> Nobody, active |-> TRUE]]
  /\ holder = Nobody /\ priority = "NORMAL"
  /\ member = Users
  /\ call = [a \in Actors |-> Idle]
  /\ dkLeft = DkBound

-----------------------------------------------------------------------------
(* Who may do what: the guards, which ask for an active membership and let   *)
(* an owner through, and the checks of the services.                        *)

Allowed(u, roles) == u \in member /\ RoleOf[u] \in roles \union {"OWNER"}
Manages(u) == RoleOf[u] \in {"OWNER", "ADMIN"}
Everyone == {"ADMIN", "AGENT", "QC"}

\* A personal reply is its owner's, a shared one the administrators'.
MayChange(u, r) == reply[r].by = u \/ Manages(u)
MayDeleteNote(u, n) == note[n].by = u \/ Manages(u)

-----------------------------------------------------------------------------
(* What is listed. *)

ShownTags == {t \in Tags : tag[t].state = "live"}
ShownNotes == {n \in Notes : note[n].state = "live"}
ShownReplies == {r \in Replies : reply[r].state = "live" /\ reply[r].active}

\* The unique key on tenant and name does not look at deletedAt.
Taken(name, t) == \E u \in Tags \ {t} : tag[u].state # "none" /\ tag[u].name = name

-----------------------------------------------------------------------------
(* Requests. *)

Spend == dkLeft > 0 /\ dkLeft' = dkLeft - 1
Begins(a, what, row, to) ==
  /\ call[a].do = "idle" /\ Spend
  /\ call' = [call EXCEPT ![a] = [Idle EXCEPT !.do = what, !.row = row, !.to = to]]
Ends(a) == call' = [call EXCEPT ![a] = Idle]
Writing(a, what) == call[a].do = what

CreateTag(u, name) ==
  /\ Allowed(u, {"ADMIN"}) /\ call[u].do = "idle" /\ Spend
  /\ \E t \in Tags :
       /\ tag[t].state = "none" /\ ~Taken(name, t)
       /\ tag' = [tag EXCEPT ![t] = [state |-> "live", name |-> name]]
  /\ UNCHANGED <<link, note, reply, holder, priority, member, call>>

BeginTagChange(u) ==
  /\ Allowed(u, {"ADMIN"})
  /\ \E t \in ShownTags : \/ \E name \in Names : Begins(u, "editTag", t, name)
                          \/ Begins(u, "deleteTag", t, FALSE)
  /\ UNCHANGED <<rows, holder, priority, member>>

\* Mutant: the whole row is saved as it was read.
EditedAsRead(row, change) == [change EXCEPT !.state = "live"]
\* An edit writes its own columns; deletedAt is not among them.
Edited(row, change) == [change EXCEPT !.state = row.state]

EditTag(u) ==
  /\ Writing(u, "editTag")
  /\ LET t == call[u].row IN
     tag' = IF Taken(call[u].to, t) THEN tag
            ELSE [tag EXCEPT ![t] = Edited(@, [@ EXCEPT !.name = call[u].to])]
  /\ Ends(u)
  /\ UNCHANGED <<link, note, reply, holder, priority, member, dkLeft>>

DeleteTag(u) ==
  /\ Writing(u, "deleteTag")
  /\ tag' = [tag EXCEPT ![call[u].row].state = "gone"]
  /\ Ends(u)
  /\ UNCHANGED <<link, note, reply, holder, priority, member, dkLeft>>

\* addConversationTag and removeConversationTag find the tag ...
BeginLink(u) ==
  /\ Allowed(u, {"ADMIN", "AGENT"})
  /\ \E t \in ShownTags : Begins(u, "lookLink", t, FALSE) \/ Begins(u, "findLink", t, FALSE)
  /\ UNCHANGED <<rows, holder, priority, member>>

\* The link of a call that is under way, as it stands now.
Standing(c, now) ==
  [c EXCEPT !.was = @ \/ (c.do \in {"lookLink", "addLink"} /\ now[c.row] = "live")
                      \/ (c.do \in {"findLink", "dropLink"} /\ now[c.row] # "live")]
Witness(calls, now) ==
  [a \in Actors |-> IF calls[a].do \in {"lookLink", "addLink", "findLink", "dropLink"}
                    THEN Standing(calls[a], now) ELSE calls[a]]
Answers(a, adds, now) ==
  LET w == Standing(call[a], now) IN
  [Witness(call, now) EXCEPT ![a] = [w EXCEPT !.do = "answer", !.adds = adds]]

\* Mutant: any link row counts as a link.
LinkedAlready(seen) == seen # "none"
Linked(seen) == seen = "live"

\* ... then the link ...
LookLink(a) ==
  /\ Writing(a, "lookLink")
  /\ LET now == link[call[a].row] IN
     IF Linked(now)
     THEN call' = Answers(a, TRUE, link)
     ELSE call' = [call EXCEPT ![a] = [Standing(@, link) EXCEPT !.do = "addLink", !.seen = now]]
  /\ UNCHANGED <<rows, holder, priority, member, dkLeft>>

\* ... and revive it, or create it, which fails when somebody else did.
AddLink(a) ==
  /\ Writing(a, "addLink")
  /\ LET t == call[a].row
         now == [link EXCEPT ![t] = "live"] IN
     IF call[a].seen = "none" /\ link[t] # "none"
     THEN Ends(a) /\ UNCHANGED link
     ELSE link' = now /\ call' = Answers(a, TRUE, now)
  /\ UNCHANGED <<tag, note, reply, holder, priority, member, dkLeft>>

FindLink(u) ==
  /\ Writing(u, "findLink")
  /\ IF link[call[u].row] = "live"
     THEN call' = [call EXCEPT ![u].do = "dropLink"]
     ELSE Ends(u)
  /\ UNCHANGED <<rows, holder, priority, member, dkLeft>>

DropLink(u) ==
  /\ Writing(u, "dropLink")
  /\ LET now == [link EXCEPT ![call[u].row] = "gone"] IN
     link' = now /\ call' = Answers(u, FALSE, now)
  /\ UNCHANGED <<tag, note, reply, holder, priority, member, dkLeft>>

Answer(a) ==
  /\ Writing(a, "answer")
  /\ Ends(a)
  /\ UNCHANGED <<rows, holder, priority, member, dkLeft>>

\* addTagByName: a live tag of that name, or a new one, which fails when a deleted
\* tag or another call has taken the name.
BeginTagByName(name) ==
  /\ \/ \E t \in ShownTags : tag[t].name = name /\ Begins(Bot, "lookLink", t, FALSE)
     \/ /\ \A t \in ShownTags : tag[t].name # name
        /\ Begins(Bot, "makeTag", Bot, name)
  /\ UNCHANGED <<rows, holder, priority, member>>

FreeTags(name) == {t \in Tags : tag[t].state = "none" /\ ~Taken(name, t)}

MakeTag ==
  /\ Writing(Bot, "makeTag")
  /\ LET name == call[Bot].to IN
     IF FreeTags(name) = {}
     THEN Ends(Bot) /\ UNCHANGED tag
     ELSE \E t \in FreeTags(name) :
            /\ tag' = [tag EXCEPT ![t] = [state |-> "live", name |-> name]]
            /\ call' = [call EXCEPT ![Bot] = [Idle EXCEPT !.do = "lookLink", !.row = t]]
  /\ UNCHANGED <<link, note, reply, holder, priority, member, dkLeft>>

BeginNote(u) ==
  /\ Allowed(u, {"ADMIN", "AGENT"})
  /\ \/ Begins(u, "writeNote", u, FALSE)
     \/ \E n \in ShownNotes : MayDeleteNote(u, n) /\ Begins(u, "deleteNote", n, FALSE)
  /\ UNCHANGED <<rows, holder, priority, member>>

WriteNote(u) ==
  /\ Writing(u, "writeNote")
  /\ \E n \in Notes : note[n].state = "none"
                      /\ note' = [note EXCEPT ![n] = [state |-> "live", by |-> u]]
  /\ Ends(u)
  /\ UNCHANGED <<tag, link, reply, holder, priority, member, dkLeft>>

DeleteNote(u) ==
  /\ Writing(u, "deleteNote")
  /\ note' = [note EXCEPT ![call[u].row].state = "gone"]
  /\ Ends(u)
  /\ UNCHANGED <<tag, link, reply, holder, priority, member, dkLeft>>

\* A shared reply by an administrator, a personal one by its owner.
CreateReply(u) ==
  /\ Allowed(u, Everyone) /\ call[u].do = "idle" /\ Spend
  /\ \E by \in {u} \union (IF Manages(u) THEN {Nobody} ELSE {}) : \E r \in Replies :
       /\ reply[r].state = "none"
       /\ reply' = [reply EXCEPT ![r] = [state |-> "live", by |-> by, active |-> TRUE]]
  /\ UNCHANGED <<tag, link, note, holder, priority, member, call>>

BeginReplyChange(u) ==
  /\ Allowed(u, Everyone)
  /\ \E r \in Replies :
       /\ reply[r].state = "live" /\ MayChange(u, r)
       /\ \/ \E active \in BOOLEAN : Begins(u, "editReply", r, active)
          \/ Begins(u, "deleteReply", r, FALSE)
  /\ UNCHANGED <<rows, holder, priority, member>>

EditReply(u) ==
  /\ Writing(u, "editReply")
  /\ LET r == call[u].row IN
     reply' = [reply EXCEPT ![r] = Edited(@, [@ EXCEPT !.active = call[u].to])]
  /\ Ends(u)
  /\ UNCHANGED <<tag, link, note, holder, priority, member, dkLeft>>

DeleteReply(u) ==
  /\ Writing(u, "deleteReply")
  /\ reply' = [reply EXCEPT ![call[u].row].state = "gone", ![call[u].row].active = FALSE]
  /\ Ends(u)
  /\ UNCHANGED <<tag, link, note, holder, priority, member, dkLeft>>

\* The new assignee, if any, is found active before the row is written.
BeginAssign(u) ==
  /\ Allowed(u, {"ADMIN", "AGENT"})
  /\ \E who \in member \union {Nobody} : Begins(u, "assign", who, FALSE)
  /\ UNCHANGED <<rows, holder, priority, member>>

Assign(u) ==
  /\ Writing(u, "assign")
  /\ holder' = call[u].row
  /\ Ends(u)
  /\ UNCHANGED <<rows, priority, member, dkLeft>>

UpdatePriority(u, p) ==
  /\ Allowed(u, {"ADMIN", "AGENT"}) /\ call[u].do = "idle" /\ Spend
  /\ priority' = p
  /\ UNCHANGED <<rows, holder, member, call>>

RemoveMember(u) ==
  /\ u \in member /\ Spend
  /\ member' = member \ {u}
  /\ UNCHANGED <<rows, holder, priority, call>>

DkNext ==
  \/ \E u \in Users :
       \/ \E name \in Names : CreateTag(u, name)
       \/ BeginTagChange(u) \/ EditTag(u) \/ DeleteTag(u)
       \/ BeginLink(u) \/ FindLink(u) \/ DropLink(u)
       \/ BeginNote(u) \/ WriteNote(u) \/ DeleteNote(u)
       \/ CreateReply(u) \/ BeginReplyChange(u) \/ EditReply(u) \/ DeleteReply(u)
       \/ BeginAssign(u) \/ Assign(u) \/ RemoveMember(u)
       \/ \E p \in Priorities : UpdatePriority(u, p)
  \/ \E a \in Actors : LookLink(a) \/ AddLink(a) \/ Answer(a)
  \/ \E name \in Names : BeginTagByName(name)
  \/ MakeTag

DkSpec == DkInit /\ [][DkNext]_dkVars

-----------------------------------------------------------------------------
(* Properties. *)

\* A tag, note or saved reply that was deleted is never listed again, also when an
\* edit, allowed while it was there, is written after the deletion.
ShowsNothingDeleted ==
  /\ \A t \in Tags : tag[t].state = "gone" => t \notin ShownTags'
  /\ \A n \in Notes : note[n].state = "gone" => n \notin ShownNotes'
  /\ \A r \in Replies : reply[r].state = "gone" => r \notin ShownReplies'

\* When a request to add or remove a tag answers without an error, the conversation
\* carried the tag, or did not, at some moment of the request, whatever the other
\* requests and the bot did to the same link meanwhile.
LinkAnswersAreTrue ==
  \A a \in Actors : call[a].do = "answer" => call[a].was
=============================================================================
