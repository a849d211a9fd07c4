------------------------------ MODULE MCPeople ------------------------------
(***************************************************************************)
(* Sessions, Accounts, Members, Browser and Connections, checked in one    *)
(* run.                                                                    *)
(* They work on different rows and never wait for each other; where one    *)
(* needs another (a login ends in a session, a page asks for a token) it   *)
(* has its own view of it.  So a behaviour is one of a single component,   *)
(* its part: Sessions keeps its initial state meanwhile, and the variables *)
(* of the others are absent.  Sessions has three tokens, so that a token   *)
(* can be exchanged twice or by two requests, and two troubles, so that a  *)
(* failed exchange fails to tidy up as well.                               *)
(***************************************************************************)
EXTENDS Sessions, Accounts, Members, Browser, Connections, TLC

VARIABLE part

CONSTANTS founder, home

peVars == <<vars, acVars, mbVars, brVars, coVars, part>>

Absent == "absent"

-----------------------------------------------------------------------------
(* Accounts. *)
AcScenario(logins, refreshes, switches, lnks, resets, changes, codes, faults) ==
  [logins |-> logins, refreshes |-> refreshes, switches |-> switches, links |-> lnks, resets |-> resets,
   changes |-> changes, codes |-> codes, faults |-> faults]
Guesses == AcScenario(5, 0, 0, 0, 0, 0, 0, 1)
AcScenarios == {Guesses,
                AcScenario(2, 0, 0, 0, 0, 1, 2, 1),     \* the owner changes the password, or enrolls
                AcScenario(2, 2, 0, 0, 0, 1, 0, 1),     \* while sessions are exchanged
                AcScenario(1, 1, 1, 0, 0, 2, 0, 0),     \* or the workspace changed
                AcScenario(1, 0, 0, 2, 2, 0, 0, 1)}     \* the password is forgotten

(* Members. *)
MbScenario(invites, accepts, removals, rls, spaces, plns, chans, faults) ==
  [invites |-> invites, accepts |-> accepts, removals |-> removals, roles |-> rls, spaces |-> spaces,
   plans |-> plns, channels |-> chans, faults |-> faults]
Joining == MbScenario(2, 2, 0, 0, 0, 0, 0, 0)
MbScenarios == {Joining,
                MbScenario(1, 1, 1, 0, 0, 1, 0, 1),    \* one joins, one leaves
                MbScenario(0, 0, 2, 1, 0, 0, 0, 0),    \* owners remove each other
                MbScenario(0, 0, 1, 0, 3, 0, 0, 0),    \* workspaces come and go
                MbScenario(1, 1, 1, 0, 2, 0, 0, 0),    \* with people in them
                MbScenario(0, 0, 0, 0, 1, 0, 3, 0)}    \* and channels

(* Browser. *)
BrScenario(logins, cls, refreshes, logouts, switches, expiries, faults, opens, revokes) ==
  [logins |-> logins, calls |-> cls, refreshes |-> refreshes, logouts |-> logouts, switches |-> switches,
   expiries |-> expiries, faults |-> faults, opens |-> opens, revokes |-> revokes]
Leaving == BrScenario(1, 0, 1, 1, 1, 1, 1, 1, 0)
BrScenarios == {Leaving,
                BrScenario(1, 1, 1, 0, 1, 1, 1, 1, 0),
                BrScenario(1, 1, 1, 0, 0, 1, 0, 1, 1),
                BrScenario(2, 0, 0, 1, 1, 0, 0, 0, 1)}    \* an answer crosses the next sign-in

(* Connections: twice connected; tested while the store system changes; rotated; suspended. *)
CoScenario(loads, creates, tests, rotations, disconnects, bans, shops, searches, faults) ==
  [loads |-> loads, creates |-> creates, tests |-> tests, rotations |-> rotations, disconnects |-> disconnects,
   bans |-> bans, shop |-> shops, searches |-> searches, faults |-> faults]
TwoCreations == CoScenario(2, 2, 0, 0, 1, 1, 0, 0, 0)
CoScenarios == {TwoCreations, CoScenario(2, 2, 0, 0, 2, 0, 0, 0, 0),
                CoScenario(1, 1, 2, 0, 0, 0, 2, 0, 1), CoScenario(1, 1, 1, 0, 0, 0, 1, 2, 0),
                CoScenario(2, 1, 1, 1, 0, 0, 2, 0, 0), CoScenario(1, 1, 1, 2, 0, 0, 2, 0, 0),
                CoScenario(2, 1, 0, 2, 0, 0, 1, 0, 1), CoScenario(2, 1, 1, 0, 1, 1, 1, 0, 0)}

(* The parts share their interchangeable values: the smaller the group, the faster. *)
Symmetry == Permutations(Tokens) \union Permutations(Requests)

-----------------------------------------------------------------------------

NoAccounts ==
  /\ password = Absent /\ secret = Absent /\ failures = Absent /\ sessions = Absent
  /\ links = Absent /\ ac = Absent /\ halted = Absent /\ acLeft = Absent
NoMembers ==
  /\ plan = Absent /\ space = Absent /\ member = Absent /\ badge = Absent /\ account = Absent
  /\ invite = Absent /\ channel = Absent /\ op = Absent /\ shaken = Absent /\ mbLeft = Absent
NoBrowser ==
  /\ super = Absent /\ granted = Absent /\ cookie = Absent /\ tab = Absent /\ req = Absent
  /\ signedIn = Absent /\ excuse = Absent /\ expelled = Absent /\ brLeft = Absent
NoConnections ==
  /\ planMax = Absent /\ conn = Absent /\ shop = Absent /\ settings = Absent /\ ask = Absent
  /\ panel = Absent /\ unproved = Absent /\ crossed = Absent /\ crowded = Absent /\ upset = Absent
  /\ coLeft = Absent

-----------------------------------------------------------------------------

PeopleInit ==
  \/ /\ part = "sessions" /\ Init
     /\ NoAccounts /\ NoMembers /\ NoBrowser /\ NoConnections
  \/ /\ part = "accounts" /\ AcInit /\ Init
     /\ NoMembers /\ NoBrowser /\ NoConnections
  \/ /\ part = "members" /\ MbInit /\ Init
     /\ NoAccounts /\ NoBrowser /\ NoConnections
  \/ /\ part = "browser" /\ BrInit /\ Init
     /\ NoAccounts /\ NoMembers /\ NoConnections
  \/ /\ part = "connections" /\ CoInit /\ Init
     /\ NoAccounts /\ NoMembers /\ NoBrowser

PeopleNext ==
  \/ part = "sessions" /\ Next /\ UNCHANGED <<acVars, mbVars, brVars, coVars, part>>
  \/ part = "accounts" /\ AcNext /\ UNCHANGED <<vars, mbVars, brVars, coVars, part>>
  \/ part = "members" /\ MbNext /\ UNCHANGED <<vars, acVars, brVars, coVars, part>>
  \/ part = "browser" /\ BrNext /\ UNCHANGED <<vars, acVars, mbVars, coVars, part>>
  \/ part = "connections" /\ CoNext /\ UNCHANGED <<vars, acVars, mbVars, brVars, part>>

PeopleSpec == PeopleInit /\ [][PeopleNext]_peVars

-----------------------------------------------------------------------------

\* The part that moves keeps to its types.
TypesOK ==
  /\ TypeOK
  /\ part = "accounts" => AcTypeOK
  /\ part = "members" => MbTypeOK
  /\ part = "browser" => BrTypeOK
  /\ part = "connections" => CoTypeOK

\* Guesses are stopped, a reset link works once, and a new password ends the sessions of the old one.
CredentialsHold == part = "accounts" => LockoutHolds /\ OneLinkWorks /\ OldPasswordIsOut

\* A browser stays signed in until its user signs out, and is signed out then.
SessionSurvives == part = "browser" => StaysSignedIn /\ LogoutHolds

\* A tenant keeps an owner and its plan, an invitation admits one person, and the store system
\* is connected only when it may be, and can be.
TenancyHolds ==
  /\ part = "members" => TenantKeepsAnOwner /\ PlanKept /\ InvitationAdmitsOnce
  /\ part = "connections" => ConnectionHolds
=============================================================================
