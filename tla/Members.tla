------------------------------- MODULE Members -------------------------------
(***************************************************************************)
(* Who belongs to a tenant: its plan (apps/api/src/tenants), its           *)
(* workspaces and their members (apps/api/src/workspaces), the invitations *)
(* by which people join (apps/api/src/invitations) and its LINE channels   *)
(* (line/line-channels.service.ts).  Limits and conditions are read in one *)
(* call of the database and relied on in a later one.                      *)
(***************************************************************************)
EXTENDS Integers, FiniteSets

CONSTANTS
  People, Workspaces, Invitations, Channels,
  Founder, Home,     \* the owner and the workspace the tenant was created with
  Ops,               \* slots for requests under way
  MbBounds           \* the scenarios: how many requests of each kind there may be

MbEvents == {"invites", "accepts", "removals", "roles", "spaces", "plans", "channels", "faults"}
Plans == {"small", "large"}
MaxAgents == [small |-> 2, large |-> 3]
MaxWorkspaces == [small |-> 1, large |-> 2]

ASSUME MembersAssumption ==
  /\ IsFiniteSet(People) /\ IsFiniteSet(Workspaces) /\ IsFiniteSet(Ops) /\ Ops # {}
  /\ Founder \in People /\ Home \in Workspaces
  /\ MbBounds \subseteq [MbEvents -> Nat]

VARIABLES
  plan,
  space,      \* "none", "open" or "deleted"
  member,     \* by workspace and person: the role, and is it active
  badge,      \* the role in the access token of a person who is signed in
  account,    \* the people who have an account
  invite,
  channel,    \* "none", "open" or "deleted", and its workspace
  op,         \* the requests under way
  shaken,     \* what happened that conditions read earlier do not cover
  mbLeft

mbVars == <<plan, space, member, badge, account, invite, channel, op, shaken, mbLeft>>

Roles == {"OWNER", "ADMIN", "AGENT", "QC", "VIEWER"}
InviteStatus == {"none", "PENDING", "ACCEPTED", "EXPIRED", "REVOKED"}
MbKinds == {"space", "invite", "accept", "revoke", "remove", "role"}
NoOp == <<>>
NoMember == [role |-> "VIEWER", active |-> FALSE]

MbTypeOK ==
  /\ plan \in Plans
  /\ space \in [Workspaces -> {"none", "open", "deleted"}]
  /\ member \in [Workspaces -> [People -> [role : Roles, active : BOOLEAN]]]
  /\ badge \in [People -> Roles \union {"none"}]
  /\ account \subseteq People
  /\ invite \in [Invitations -> [status : InviteStatus, person : People, space : Workspaces, role : Roles,
                                 due : BOOLEAN, joined : Nat]]
  /\ channel \in [Channels -> [state : {"none", "open", "deleted"}, space : Workspaces]]
  /\ \A o \in Ops : op[o] # NoOp =>
       op[o] \in [kind : MbKinds, pc : {"check", "count", "write", "revoke"}, space : Workspaces, person : People,
                  role : Roles, invite : SUBSET Invitations]
  /\ shaken \subseteq {"owner", "plan"}
  /\ mbLeft \in [MbEvents -> Nat]

MbInit ==
  /\ plan \in Plans
  /\ space = [w \in Workspaces |-> IF w = Home THEN "open" ELSE "none"]
  /\ \E second \in People \ {Founder}, role \in {"OWNER", "ADMIN"} :
       /\ member = [w \in Workspaces |-> [p \in People |->
                     CASE w = Home /\ p = Founder -> [role |-> "OWNER", active |-> TRUE]
                       [] w = Home /\ p = second -> [role |-> role, active |-> TRUE]
                       [] OTHER -> NoMember]]
       /\ badge = [p \in People |-> CASE p = Founder -> "OWNER" [] p = second -> role [] OTHER -> "none"]
       /\ account = {Founder, second}
  /\ invite = [i \in Invitations |-> [status |-> "none", person |-> Founder, space |-> Home, role |-> "AGENT",
                                      due |-> FALSE, joined |-> 0]]
  /\ channel = [c \in Channels |-> [state |-> "none", space |-> Home]]
  /\ op = [o \in Ops |-> NoOp]
  /\ shaken = {}
  /\ mbLeft \in MbBounds

MbUses(e) == mbLeft[e] > 0 /\ mbLeft' = [mbLeft EXCEPT ![e] = @ - 1]
Active(p) == \E w \in Workspaces : space[w] = "open" /\ member[w][p].active
Seats == {p \in People : \E w \in Workspaces : member[w][p].active}
Owners == {o \in Workspaces \X People : member[o[1]][o[2]] = [role |-> "OWNER", active |-> TRUE]}
OpenSpaces == {w \in Workspaces : space[w] = "open"}

\* A request is let in by the role in the token and by an active membership.
MayManage(p) == badge[p] \in {"OWNER", "ADMIN"} /\ Active(p)
Begins(o, kind, step, w, p, role, invites) ==
  /\ op[o] = NoOp
  /\ op' = [op EXCEPT ![o] = [kind |-> kind, pc |-> step, space |-> w, person |-> p, role |-> role, invite |-> invites]]
OpAt(o, kind, step) == op[o] # NoOp /\ op[o].kind = kind /\ op[o].pc = step
Steps(o, step) == op' = [op EXCEPT ![o].pc = step]
Done(o) == op' = [op EXCEPT ![o] = NoOp]

\* Signing in, or refreshing the token, takes the role of a membership.
SignIn(p) ==
  /\ p \in account
  /\ \E w \in OpenSpaces : member[w][p].active /\ badge' = [badge EXCEPT ![p] = member[w][p].role]
  /\ badge' # badge
  /\ UNCHANGED <<plan, space, member, account, invite, channel, op, shaken, mbLeft>>

-----------------------------------------------------------------------------
(* Plans, workspaces and channels. *)

UpdatePlan(new) ==
  /\ new # plan /\ MbUses("plans")
  /\ plan' = new /\ shaken' = shaken \union {"plan"}
  /\ UNCHANGED <<space, member, badge, account, invite, channel, op>>

Room(n, max) == n < max

\* The workspaces are counted, then one is added.
BeginCreateWorkspace(o, w) ==
  /\ \E p \in People : MayManage(p)
  /\ space[w] = "none" /\ MbUses("spaces")
  /\ ~\E q \in Ops : op[q] # NoOp /\ op[q].kind = "space" /\ op[q].space = w
  /\ Room(Cardinality(OpenSpaces), MaxWorkspaces[plan])
  /\ Begins(o, "space", "write", w, Founder, "AGENT", {})
  /\ UNCHANGED <<plan, space, member, badge, account, invite, channel, shaken>>

CreateWorkspace(o) ==
  /\ OpAt(o, "space", "write")
  /\ space' = [space EXCEPT ![op[o].space] = "open"]
  /\ Done(o)
  /\ UNCHANGED <<plan, member, badge, account, invite, channel, shaken, mbLeft>>

\* Its members stay as they are.
DeleteWorkspace(w) ==
  /\ space[w] = "open" /\ MbUses("spaces")
  /\ \E p \in People : badge[p] = "OWNER" /\ Active(p)
  /\ space' = [space EXCEPT ![w] = "deleted"]
  /\ shaken' = shaken \union (IF \E p \in People : <<w, p>> \in Owners THEN {"owner"} ELSE {})
  /\ UNCHANGED <<plan, member, badge, account, invite, channel, op>>

\* A channel is connected to a workspace, again if it was disconnected before.
ConnectChannel(c, w) ==
  /\ space[w] = "open" /\ MbUses("channels")
  /\ channel' = [channel EXCEPT ![c] = [state |-> "open", space |-> w]]
  /\ UNCHANGED <<plan, space, member, badge, account, invite, op, shaken>>

DisconnectChannel(c) ==
  /\ channel[c].state = "open" /\ MbUses("channels")
  /\ channel' = [channel EXCEPT ![c].state = "deleted"]
  /\ UNCHANGED <<plan, space, member, badge, account, invite, op, shaken>>

-----------------------------------------------------------------------------
(* Invitations. *)

\* A mail that does not go out revokes the invitation.
CreateInvitation(i, w, p, role) ==
  /\ \E m \in People : MayManage(m)
  /\ invite[i].status = "none" /\ space[w] = "open" /\ MbUses("invites")
  /\ \E status \in {"PENDING", "REVOKED"} :
       invite' = [invite EXCEPT ![i] = [@ EXCEPT !.status = status, !.space = w, !.person = p, !.role = role]]
  /\ UNCHANGED <<plan, space, member, badge, account, channel, op, shaken>>

\* Whatever its status.
RevokeInvitation(i) ==
  /\ \E m \in People : MayManage(m)
  /\ invite[i].status \notin {"none", "REVOKED"}
  /\ invite' = [invite EXCEPT ![i].status = "REVOKED"]
  /\ UNCHANGED <<plan, space, member, badge, account, channel, op, shaken, mbLeft>>

InvitationFallsDue(i) ==
  /\ invite[i].status = "PENDING" /\ ~invite[i].due
  /\ invite' = [invite EXCEPT ![i].due = TRUE]
  /\ UNCHANGED <<plan, space, member, badge, account, channel, op, shaken, mbLeft>>

\* Looking at a due invitation marks it.
VerifyInvitation(i) ==
  /\ invite[i].status = "PENDING" /\ invite[i].due
  /\ invite' = [invite EXCEPT ![i].status = "EXPIRED"]
  /\ UNCHANGED <<plan, space, member, badge, account, channel, op, shaken, mbLeft>>

\* The invitation is pending and its address has no account yet; then the members are
\* counted ...
BeginAccept(o, i) ==
  /\ invite[i].status = "PENDING" /\ ~invite[i].due /\ MbUses("accepts")
  /\ invite[i].person \notin account
  /\ Begins(o, "accept", "count", invite[i].space, invite[i].person, invite[i].role, {i})
  /\ UNCHANGED <<plan, space, member, badge, account, invite, channel, shaken>>

CheckSeats(o) ==
  /\ OpAt(o, "accept", "count")
  /\ IF Room(Cardinality(Seats), MaxAgents[plan]) THEN Steps(o, "write") ELSE Done(o)
  /\ UNCHANGED <<plan, space, member, badge, account, invite, channel, shaken, mbLeft>>

Joined(p) == p \in account
\* It makes an owner of a workspace that was deleted meanwhile.
Buried(o) == op[o].role = "OWNER" /\ space[op[o].space] # "open"

\* ... and account, membership and status are written together, or the address is taken.
Join(o) ==
  /\ OpAt(o, "accept", "write")
  /\ LET p == op[o].person  w == op[o].space IN \E i \in op[o].invite :
     IF Joined(p) THEN UNCHANGED <<member, account, invite, shaken>>
     ELSE /\ account' = account \union {p}
          /\ member' = [member EXCEPT ![w][p] = [role |-> op[o].role, active |-> TRUE]]
          /\ invite' = [invite EXCEPT ![i].status = "ACCEPTED", ![i].joined = @ + 1]
          /\ shaken' = IF Buried(o) THEN shaken \union {"owner"} ELSE shaken
  /\ Done(o)
  /\ UNCHANGED <<plan, space, badge, channel, mbLeft>>

-----------------------------------------------------------------------------
(* Members. *)

\* The member is found; an owner only if there is another one.
BeginRemove(o, actor, w, p) ==
  /\ actor # p /\ MayManage(actor) /\ MbUses("removals")
  /\ space[w] = "open" /\ member[w][p].active
  /\ Begins(o, "remove", IF member[w][p].role = "OWNER" THEN "count" ELSE "write", w, p, member[w][p].role, {})
  /\ UNCHANGED <<plan, space, member, badge, account, invite, channel, shaken>>

\* Mutant: one owner is enough to remove one.
NoOwner == Owners = {}
LastOwner == Cardinality(Owners) <= 1

CountOwners(o) ==
  /\ OpAt(o, "remove", "count")
  /\ IF LastOwner THEN Done(o) ELSE Steps(o, "write")
  /\ UNCHANGED <<plan, space, member, badge, account, invite, channel, shaken, mbLeft>>

\* The count may be out of date by now.
RemoveMember(o) ==
  /\ OpAt(o, "remove", "write")
  /\ LET w == op[o].space  p == op[o].person IN
     /\ member' = [member EXCEPT ![w][p].active = FALSE]
     /\ shaken' = IF member[w][p].role = "OWNER"
                     /\ \/ op[o].role # "OWNER"
                        \/ \E q \in Ops \ {o} : op[q] # NoOp /\ op[q].kind \in {"remove", "role"}
                  THEN shaken \union {"owner"} ELSE shaken
  /\ Steps(o, "revoke")
  /\ UNCHANGED <<plan, space, badge, account, invite, channel, mbLeft>>

\* The sessions end; the access token goes on until the guard looks at the membership.
RevokeMember(o) ==
  /\ OpAt(o, "remove", "revoke")
  /\ badge' = [badge EXCEPT ![op[o].person] = "none"]
  /\ Done(o)
  /\ UNCHANGED <<plan, space, member, account, invite, channel, shaken, mbLeft>>

\* The role of an active member is written, whoever else is an owner.
BeginRoleChange(o, actor, w, p, role) ==
  /\ MayManage(actor) /\ MbUses("roles")
  /\ space[w] = "open" /\ member[w][p].active /\ role # member[w][p].role
  /\ Begins(o, "role", "write", w, p, role, {})
  /\ UNCHANGED <<plan, space, member, badge, account, invite, channel, shaken>>

ChangeRole(o) ==
  /\ OpAt(o, "role", "write")
  /\ LET w == op[o].space  p == op[o].person IN
     /\ member' = [member EXCEPT ![w][p].role = op[o].role]
     /\ shaken' = IF <<w, p>> \in Owners \/ Buried(o) THEN shaken \union {"owner"} ELSE shaken
  /\ Done(o)
  /\ UNCHANGED <<plan, space, badge, account, invite, channel, mbLeft>>

\* The process ends, or a call fails.
OpFails(o) ==
  /\ op[o] # NoOp /\ MbUses("faults") /\ Done(o)
  /\ UNCHANGED <<plan, space, member, badge, account, invite, channel, shaken>>

MbNext ==
  \/ \E p \in People : SignIn(p)
  \/ \E new \in Plans : UpdatePlan(new)
  \/ \E w \in Workspaces : DeleteWorkspace(w)
  \/ \E c \in Channels : DisconnectChannel(c) \/ \E w \in Workspaces : ConnectChannel(c, w)
  \/ \E i \in Invitations :
       \/ RevokeInvitation(i) \/ InvitationFallsDue(i) \/ VerifyInvitation(i)
       \/ \E w \in Workspaces, p \in People, role \in {"OWNER", "AGENT"} : CreateInvitation(i, w, p, role)
  \/ \E o \in Ops :
       \/ CreateWorkspace(o) \/ CheckSeats(o) \/ Join(o) \/ CountOwners(o) \/ RemoveMember(o) \/ RevokeMember(o)
       \/ ChangeRole(o) \/ OpFails(o)
       \/ \E i \in Invitations : BeginAccept(o, i)
       \/ \E w \in Workspaces :
            \/ BeginCreateWorkspace(o, w)
            \/ \E actor, p \in People :
                 \/ BeginRemove(o, actor, w, p)
                 \/ \E role \in {"OWNER", "AGENT"} : BeginRoleChange(o, actor, w, p, role)

MbSpec == MbInit /\ [][MbNext]_mbVars

-----------------------------------------------------------------------------
(* Properties. *)

\* A tenant keeps an owner who can act for it, unless an owner was given another role,
\* an owner's workspace was deleted, one was made an owner of a deleted workspace, or
\* owners were removed at the same time.
TenantKeepsAnOwner ==
  "owner" \in shaken \/ \E o \in Owners : space[o[1]] = "open"

\* While the plan stays, no more people and workspaces than it allows, but for the
\* requests that counted together.
PlanKept ==
  "plan" \notin shaken =>
    /\ Cardinality(Seats) <= MaxAgents[plan] + Cardinality(Ops) - 1
    /\ Cardinality(OpenSpaces) <= MaxWorkspaces[plan] + Cardinality(Ops) - 1

\* An invitation admits one person once, to the workspace it names; two invitations to
\* one address do not both admit them.
InvitationAdmitsOnce ==
  \A i \in Invitations :
    /\ invite[i].joined <= 1
    /\ invite[i].joined = 1 => \A k \in Invitations \ {i} : invite[k].person = invite[i].person => invite[k].joined = 0
=============================================================================
