------------------------------- MODULE Access -------------------------------
(***************************************************************************)
(* Who may do what: the guards of the API (apps/api/src/auth/guards,       *)
(* super-admin/guards), the roles its controllers list, and the screens of *)
(* the web application with the calls they make (apps/web/app).  One       *)
(* person, whose memberships change while an access token is out; a screen *)
(* is shown by the role in the token.                                      *)
(***************************************************************************)
EXTENDS Integers, FiniteSets

CONSTANTS
  Spaces,        \* workspaces
  AxChanges      \* how many times memberships, workspaces and two-factor codes change

ASSUME AccessAssumption == AxChanges \in Nat

VARIABLES
  mine,      \* the person's membership by workspace: its role, or "none"
  unclosed,  \* the workspaces that are not deleted
  console,   \* is the person the super owner, and with two-factor codes
  token,     \* the access token the browser holds
  outdated,  \* has the membership's role changed since the token was issued
  display,   \* the screen that is open, and for whom
  axLeft

axVars == <<mine, unclosed, console, token, outdated, display, axLeft>>

WorkRoles == {"OWNER", "ADMIN", "AGENT", "QC", "VIEWER"}
NoSession == [kind |-> "none", space |-> {}, role |-> "none"]
Blank == [name |-> "none", role |-> "none"]

-----------------------------------------------------------------------------
(* The routes: by controller, who is let in.  No roles means everyone; a    *)
(* controller's own roles may be widened or narrowed by its handlers.       *)

Leads == {"OWNER", "ADMIN"}
Staff == {"ADMIN", "AGENT"}
FrontDesk == Staff \union {"QC"}
Quality == Leads \union {"QC"}
Writers == Leads \union {"AGENT"}

Only(roles) == [guard |-> "tenant", roles |-> roles]
Member == Only({})
Signed == [guard |-> "user", roles |-> {}]
Super == [guard |-> "super", roles |-> {}]
Public == [guard |-> "none", roles |-> {}]

AuthRoutes ==
  [login |-> Public, refresh |-> Public, logout |-> Public, forgotPassword |-> Public, resetPassword |-> Public,
   getMe |-> Signed, listMemberships |-> Signed, setupSuperOwnerTwoFa |-> Signed, verifySuperOwnerTwoFa |-> Signed,
   switchTenant |-> Member, setupTwoFa |-> Member, verifyTwoFa |-> Member, disableTwoFa |-> Member,
   changePassword |-> Member]

InboxReadRoutes ==
  [listConversations |-> Only(FrontDesk), getConversation |-> Only(FrontDesk), countEscalated |-> Only(FrontDesk),
   getInboxSettings |-> Only(FrontDesk), getMessages |-> Only(FrontDesk), getMessageMedia |-> Only(FrontDesk),
   listTags |-> Only(FrontDesk), getUnrepliedCount |-> Only(FrontDesk), listNotes |-> Only(FrontDesk), listSlips |-> Only(FrontDesk)]
SavedReplyRoutes ==
  [listSavedReplies |-> Only(FrontDesk), createSavedReply |-> Only(FrontDesk), updateSavedReply |-> Only(FrontDesk),
   deleteSavedReply |-> Only(FrontDesk)]
InboxWriteRoutes ==
  [createTag |-> Only({"ADMIN"}), updateTag |-> Only({"ADMIN"}), deleteTag |-> Only({"ADMIN"}),
   updateInboxSettings |-> Only({"ADMIN"}), renameCustomer |-> Only(Staff), updateStatus |-> Only(Staff),
   assignConversation |-> Only(Staff), updatePriority |-> Only(Staff), addConversationTag |-> Only(Staff),
   removeConversationTag |-> Only(Staff), createNote |-> Only(Staff), deleteNote |-> Only(Staff),
   markAsRead |-> Only(Staff)]
InboxAiRoutes ==
  [getSummary |-> Only(Leads \union FrontDesk), getActiveSuggestion |-> Only(Leads \union FrontDesk),
   aiSuggest |-> Only(Leads \union FrontDesk), updateAiSuggestion |-> Only(Leads \union FrontDesk),
   getAiUsage |-> Only(Leads), aiTest |-> Only(Leads), getPromptTemplate |-> Only(Leads),
   updatePromptTemplate |-> Only(Leads)]

LineRoutes ==
  [listChannels |-> Only({"AGENT"}), connectChannel |-> Only({"ADMIN"}), updateChannel |-> Only({"ADMIN"}),
   removeChannel |-> Only({"ADMIN"}), reply |-> Only({"AGENT"}), broadcast |-> Only(Leads),
   multicast |-> Only(Leads), getBroadcasts |-> Only(Leads), deleteBroadcast |-> Only(Leads)]

CurationRoutes ==
  [listPairs |-> Only(Quality), exportPairs |-> Only(Quality), updatePair |-> Only(Quality),
   approvePair |-> Only(Quality), deletePair |-> Only(Quality)]
AuditRoutes == [listAuditLogs |-> Only(Leads), exportAuditLogs |-> Only({"OWNER"})]
AutomationRoutes ==
  [listRules |-> Only(WorkRoles), findRule |-> Only(WorkRoles), createRule |-> Only(Leads),
   updateRule |-> Only(Leads), deleteRule |-> Only(Leads)]
ScenarioRoutes ==
  [listScenarios |-> Only(WorkRoles), findScenario |-> Only(WorkRoles), createScenario |-> Only(Leads),
   updateScenario |-> Only(Leads), deleteScenario |-> Only(Leads)]
ArticleRoutes ==
  [listArticles |-> Only(WorkRoles), findArticle |-> Only(WorkRoles), createArticle |-> Only(Writers),
   updateArticle |-> Only(Writers), deleteArticle |-> Only(Leads)]
DocumentRoutes ==
  [listDocuments |-> Only(WorkRoles), findDocument |-> Only(WorkRoles), createDocument |-> Only(Writers),
   uploadDocument |-> Only(Writers), createFromUrl |-> Only(Writers), reindexDocument |-> Only(Writers),
   requestReindex |-> Only(Leads), deleteDocument |-> Only(Leads)]
CustomerRoutes == [findCustomer |-> Only(Leads \union FrontDesk), updateCustomer |-> Only(Writers)]
ConnectionRoutes ==
  [getStatus |-> Only(Writers), lookupCustomers |-> Only(Writers), getOrder |-> Only(Writers),
   getConnection |-> Only(Leads), createConnection |-> Only(Leads), testConnection |-> Only(Leads),
   rotate |-> Only(Leads), disconnect |-> Only(Leads)]
InvitationRoutes ==
  [createInvitation |-> Only({"ADMIN"}), listInvitations |-> Only({"ADMIN"}), revokeInvitation |-> Only({"ADMIN"}),
   verifyInvitation |-> Public, acceptInvitation |-> Public]
QaRoutes ==
  [listScores |-> Only(Quality), getScore |-> Only(Quality), reviewScore |-> Only(Quality),
   complianceSummary |-> Only(Quality), complianceExport |-> Only({"OWNER"})]
StreamRoutes == [streamTenantEvents |-> Only(FrontDesk)]
ReportRoutes ==
  [reportSummary |-> Only(Quality \union {"VIEWER"}), charts |-> Only(Quality \union {"VIEWER"}),
   aiSummary |-> Only(Quality \union {"VIEWER"}), aiQaSummary |-> Only(Quality \union {"VIEWER"})]
SlipRoutes == [getVerifications |-> Only(Leads)]
StorageRoutes == [storageStats |-> Only(Leads), listFiles |-> Only(Leads), deleteFile |-> Only(Leads)]
TenantRoutes ==
  [createTenant |-> Signed, getTenant |-> Member, updateTenant |-> Only({"ADMIN"}),
   getTenantSettings |-> Only({"ADMIN"}), updateTenantSettings |-> Only({"ADMIN"}),
   getPlan |-> Only({"ADMIN"}), updatePlan |-> Only({"OWNER"})]
UserRoutes == [getProfile |-> Member, updateProfile |-> Member]
WorkspaceRoutes ==
  [listWorkspaces |-> Member, getWorkspace |-> Member, listMembers |-> Member,
   createWorkspace |-> Only({"ADMIN"}), updateWorkspace |-> Only({"ADMIN"}), updateMemberRole |-> Only({"ADMIN"}),
   removeMember |-> Only({"ADMIN"}), resetMemberPassword |-> Only({"ADMIN"}), removeWorkspace |-> Only({"OWNER"})]
PlatformRoutes ==
  [listTenants |-> Super, createTenantWithOwner |-> Super, aiStats |-> Super, aiSlowest |-> Super,
   aiHealth |-> Super, aiQaTotals |-> Super, aiTenantUsage |-> Super, backupRuns |-> Super,
   backupHealth |-> Super, triggerBackup |-> Super, listIntegrations |-> Super, suspendIntegration |-> Super,
   resumeIntegration |-> Super, updateTenantPlan |-> Super]
MonitorRoutes ==
  [browserReceived |-> Signed, clientTrace |-> Signed, uiRendered |-> Signed,
   listFlows |-> Super, flowStats |-> Super, slowestFlows |-> Super, flowDetail |-> Super]

Controllers ==
  {AuthRoutes, InboxReadRoutes, SavedReplyRoutes, InboxWriteRoutes, InboxAiRoutes, LineRoutes, CurationRoutes,
   AuditRoutes, AutomationRoutes, ScenarioRoutes, ArticleRoutes, DocumentRoutes, CustomerRoutes, ConnectionRoutes,
   InvitationRoutes, QaRoutes, StreamRoutes, ReportRoutes, SlipRoutes, StorageRoutes, TenantRoutes, UserRoutes,
   WorkspaceRoutes, PlatformRoutes, MonitorRoutes}
\* No route is in two of them.
Rule ==
  [route \in UNION {DOMAIN table : table \in Controllers} |->
     (CHOOSE table \in Controllers : route \in DOMAIN table)[route]]
Routes == DOMAIN Rule

-----------------------------------------------------------------------------
(* The guards. *)

\* JwtAuthGuard: the membership the token names is looked up in the database.
Belongs == \E w \in token.space : w \in unclosed /\ mine[w] # "none"
IsUser == token.kind = "super" \/ (token.kind = "member" /\ Belongs)

HasContext == token.space # {}                                   \* TenantGuard
HasRole(roles) == roles = {} \/ token.role \in roles \union {"OWNER"}  \* RolesGuard
IsSuper == token.kind = "super" /\ console = "codes"              \* SuperOwnerGuard

LetIn(route) ==
  CASE Rule[route].guard = "none"   -> TRUE
    [] Rule[route].guard = "user"   -> IsUser
    [] Rule[route].guard = "tenant" -> IsUser /\ HasContext /\ HasRole(Rule[route].roles)
    [] Rule[route].guard = "super"  -> IsUser /\ IsSuper

-----------------------------------------------------------------------------
(* The screens: the roles they are shown to, the calls without which they  *)
(* show an error instead of their content, and the operations they offer.  *)

Screen(shown, needs, offers) == [shown |-> shown, needs |-> needs, offers |-> offers]
CanEdit(role, roles, calls) == IF role \in roles THEN calls ELSE {}

ScreenFor ==
  [role \in WorkRoles |->
  [inbox |-> Screen(Leads \union FrontDesk,
     {"listConversations", "getMessages", "listTags", "listSavedReplies", "listNotes", "findCustomer"},
     {"reply", "updateStatus", "assignConversation", "updatePriority", "createNote", "addConversationTag",
      "removeConversationTag", "createTag", "updateCustomer", "renameCustomer", "updateInboxSettings", "aiSuggest",
      "getSummary"}),
   channels |-> Screen(Leads, {"listWorkspaces", "listChannels"}, {"connectChannel", "updateChannel", "removeChannel"}),
   replies |-> Screen(Writers, {"listChannels"}, {"createSavedReply", "updateSavedReply", "deleteSavedReply"}),
   articles |-> Screen(Writers \union {"QC"}, {"listArticles"},
     CanEdit(role, Writers, {"createArticle", "updateArticle"}) \union CanEdit(role, Leads, {"deleteArticle"})),
   documents |-> Screen(Writers \union {"QC"}, {"listDocuments"},
     CanEdit(role, Writers, {"createDocument", "uploadDocument", "createFromUrl", "reindexDocument"})
     \union CanEdit(role, Leads, {"requestReindex", "deleteDocument"})),
   scenarios |-> Screen(WorkRoles, {"listScenarios"},
     CanEdit(role, Leads, {"createScenario", "updateScenario", "deleteScenario"})),
   automation |-> Screen(WorkRoles, {"listRules"}, CanEdit(role, Leads, {"createRule", "updateRule", "deleteRule"})),
   team |-> Screen(Leads, {"listWorkspaces", "listMembers", "listInvitations"},
     {"createInvitation", "revokeInvitation", "updateMemberRole", "removeMember", "resetMemberPassword"}),
   profile |-> Screen(WorkRoles, {"getProfile"}, {"updateProfile", "changePassword"}),
   ai |-> Screen(Leads, {"getInboxSettings", "getPromptTemplate"},
     {"updateInboxSettings", "updatePromptTemplate", "aiTest", "getAiUsage"}),
   curation |-> Screen(Quality, {"listPairs"}, {"updatePair", "approvePair", "deletePair", "exportPairs"}),
   integrations |-> Screen(Leads, {"getConnection"}, {"createConnection", "testConnection", "rotate", "disconnect"}),
   auditLogs |-> Screen(Leads, {"listAuditLogs"}, CanEdit(role, {"OWNER"}, {"exportAuditLogs"})),
   broadcasts |-> Screen(Leads, {"listChannels", "getBroadcasts"}, {"broadcast", "multicast", "deleteBroadcast"}),
   slips |-> Screen(Leads, {"getVerifications"}, {}),
   reports |-> Screen(Quality \union {"VIEWER"},
     {"reportSummary", "charts", "aiSummary", "aiQaSummary", "complianceSummary"}, {}),
   qa |-> Screen(Quality, {"listScores", "complianceSummary"}, {"reviewScore", "complianceExport"})]]

ScreenNames == DOMAIN ScreenFor["OWNER"]

-----------------------------------------------------------------------------

AxTypeOK ==
  /\ mine \in [Spaces -> WorkRoles \union {"none"}]
  /\ unclosed \subseteq Spaces
  /\ console \in {"no", "plain", "codes"}
  /\ token \in [kind : {"none", "member", "super"}, space : SUBSET Spaces, role : WorkRoles \union {"none"}]
  /\ outdated \in BOOLEAN
  /\ display \in [name : ScreenNames \union {"none"}, role : WorkRoles \union {"none"}]
  /\ axLeft \in 0..AxChanges

\* The super owner has no workspace.
AxInit ==
  /\ console \in {"no", "plain", "codes"}
  /\ mine \in [Spaces -> WorkRoles \union {"none"}]
  /\ IF console = "no" THEN \E w \in Spaces : mine[w] # "none" ELSE \A w \in Spaces : mine[w] = "none"
  /\ unclosed = Spaces /\ token = NoSession /\ outdated = FALSE /\ display = Blank
  /\ axLeft = AxChanges

Changes == axLeft > 0 /\ axLeft' = axLeft - 1
TokenOf(w, role) == [kind |-> "member", space |-> {w}, role |-> role]

\* A login takes the first membership, a switch of the workspace another.
Enter(w) ==
  /\ console = "no" /\ w \in unclosed /\ mine[w] # "none"
  /\ token.space # {w}
  /\ token' = TokenOf(w, mine[w]) /\ outdated' = FALSE
  /\ display' = Blank
  /\ UNCHANGED <<mine, unclosed, console, axLeft>>

EnterConsole ==
  /\ console # "no" /\ token.kind # "super"
  /\ token' = [kind |-> "super", space |-> {}, role |-> "none"] /\ outdated' = FALSE
  /\ display' = Blank
  /\ UNCHANGED <<mine, unclosed, console, axLeft>>

\* Mutant: a refreshed token takes the role the session was stored with.
RoleOfSession(w) == token.role
RoleNow(w) == mine[w]

\* A refresh keeps the workspace and looks the membership up again.
RefreshToken ==
  /\ token.kind = "member" /\ Belongs
  /\ \E w \in token.space : token' = TokenOf(w, RoleNow(w))
  /\ outdated' = FALSE
  /\ UNCHANGED <<mine, unclosed, console, display, axLeft>>

TokenExpires ==
  /\ token # NoSession
  /\ token' = NoSession /\ outdated' = FALSE /\ display' = Blank
  /\ UNCHANGED <<mine, unclosed, console, axLeft>>

\* Others change the person's role, or end the membership.
RoleChanges(w, role) ==
  /\ mine[w] \notin {"none", role} /\ Changes
  /\ mine' = [mine EXCEPT ![w] = role]
  /\ outdated' = (outdated \/ (w \in token.space /\ token.role # role))
  /\ UNCHANGED <<unclosed, console, token, display>>

WorkspaceCloses(w) ==
  /\ w \in unclosed /\ Changes
  /\ unclosed' = unclosed \ {w}
  /\ UNCHANGED <<mine, console, token, outdated, display>>

\* The super owner sets up two-factor codes with the token there is.
SetUpCodes ==
  /\ console = "plain" /\ LetIn("setupSuperOwnerTwoFa") /\ console' = "codes"
  /\ UNCHANGED <<mine, unclosed, token, outdated, display, axLeft>>

\* The role is the one in the token, as the API reports it.
OpenScreen(name) ==
  /\ LetIn("getMe") /\ token.kind = "member"
  /\ token.role \in ScreenFor[token.role][name].shown
  /\ display' = [name |-> name, role |-> token.role]
  /\ UNCHANGED <<mine, unclosed, console, token, outdated, axLeft>>

AxNext ==
  \/ EnterConsole \/ RefreshToken \/ TokenExpires \/ SetUpCodes
  \/ \E w \in Spaces :
       \/ Enter(w) \/ WorkspaceCloses(w)
       \/ \E role \in WorkRoles \union {"none"} : RoleChanges(w, role)
  \/ \E name \in ScreenNames : OpenScreen(name)

AxSpec == AxInit /\ [][AxNext]_axVars

-----------------------------------------------------------------------------
(* Properties. *)

\* However old the token, nobody is let in by a membership that has ended, to a
\* workspace that was deleted, or to the console without two-factor codes.
GuardsSeeTheDatabase ==
  \A route \in Routes : LetIn(route) =>
    CASE Rule[route].guard = "none"  -> TRUE
      [] Rule[route].guard = "super" -> console = "codes"
      [] OTHER -> console # "no" \/ \E w \in token.space : w \in unclosed /\ mine[w] # "none"

\* The role a token carries is the membership's, unless it was changed since the token
\* was issued.
RoleLastsAsLongAsTheToken ==
  token.kind = "member" /\ ~outdated => \A w \in token.space : mine[w] = token.role

\* Screens that fail, and operations that are refused: administrators are not let in to
\* channels and replies, nor the reports screen's compliance figures to viewers; the inbox
\* offers everyone everything, and the quality screen its export.
KnownGaps ==
  {<<"ADMIN", "listChannels">>, <<"ADMIN", "reply">>, <<"VIEWER", "complianceSummary">>}
  \union {<<role, "complianceExport">> : role \in {"ADMIN", "QC"}}
  \union {<<"AGENT", call>> : call \in {"createTag", "updateInboxSettings"}}
  \union {<<"QC", call>> : call \in ScreenFor["QC"].inbox.offers \ {"aiSuggest", "getSummary"}}

\* A screen that is shown to somebody who still belongs is served what it needs, and what
\* it offers is not refused, but for the known gaps.
ScreensWork ==
  display.name # "none" /\ Belongs /\ display.role = token.role =>
    LET page == ScreenFor[display.role][display.name] IN
    \A call \in page.needs \union page.offers : LetIn(call) \/ <<display.role, call>> \in KnownGaps

\* The access of a person to the system is what the database, the token and the screens
\* agree on.
AccessIsRight == GuardsSeeTheDatabase /\ RoleLastsAsLongAsTheToken /\ ScreensWork
=============================================================================
