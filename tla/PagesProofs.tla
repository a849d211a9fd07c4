---------------------------- MODULE PagesProofs ----------------------------
(* Proofs about what members see and set up, beside the conversation itself:   *)
(* Access, Screens, Scenarios and Rules; and of the types of every component   *)
(* of MCConversations.                                                         *)
EXTENDS ConversationsProofs

-----------------------------------------------------------------------------
(* Access: the guards, the token and the screens agree.                      *)

\* Every route has one of the guards, so LetIn is defined for it.
Guarded(f) == \A r \in DOMAIN f : f[r].guard \in {"none", "user", "tenant", "super"}

LEMMA KindsOfGuard ==
  /\ \A roles : Only(roles).guard = "tenant" /\ Only(roles).roles = roles
  /\ Member.guard = "tenant" /\ Member.roles = {}
  /\ Signed.guard = "user" /\ Super.guard = "super" /\ Public.guard = "none"
BY DEF Only, Member, Signed, Super, Public

LEMMA GroupsAreGuarded ==
  /\ Guarded(AuthRoutes) /\ Guarded(InboxReadRoutes) /\ Guarded(SavedReplyRoutes) /\ Guarded(InboxWriteRoutes)
  /\ Guarded(InboxAiRoutes) /\ Guarded(LineRoutes) /\ Guarded(CurationRoutes) /\ Guarded(AuditRoutes)
  /\ Guarded(AutomationRoutes) /\ Guarded(ScenarioRoutes) /\ Guarded(ArticleRoutes) /\ Guarded(DocumentRoutes)
  /\ Guarded(CustomerRoutes) /\ Guarded(ConnectionRoutes) /\ Guarded(InvitationRoutes) /\ Guarded(QaRoutes)
  /\ Guarded(StreamRoutes) /\ Guarded(ReportRoutes) /\ Guarded(SlipRoutes) /\ Guarded(StorageRoutes)
  /\ Guarded(TenantRoutes) /\ Guarded(UserRoutes) /\ Guarded(WorkspaceRoutes) /\ Guarded(PlatformRoutes)
  /\ Guarded(MonitorRoutes)
<1>1. Guarded(AuthRoutes) /\ Guarded(InboxReadRoutes) /\ Guarded(SavedReplyRoutes)
  BY KindsOfGuard DEF Guarded, AuthRoutes, InboxReadRoutes, SavedReplyRoutes
<1>2. Guarded(InboxWriteRoutes) /\ Guarded(InboxAiRoutes) /\ Guarded(LineRoutes)
  BY KindsOfGuard DEF Guarded, InboxWriteRoutes, InboxAiRoutes, LineRoutes
<1>3. Guarded(CurationRoutes) /\ Guarded(AuditRoutes) /\ Guarded(AutomationRoutes) /\ Guarded(ScenarioRoutes)
  BY KindsOfGuard DEF Guarded, CurationRoutes, AuditRoutes, AutomationRoutes, ScenarioRoutes
<1>4. Guarded(ArticleRoutes) /\ Guarded(DocumentRoutes) /\ Guarded(CustomerRoutes) /\ Guarded(ConnectionRoutes)
  BY KindsOfGuard DEF Guarded, ArticleRoutes, DocumentRoutes, CustomerRoutes, ConnectionRoutes
<1>5. Guarded(InvitationRoutes) /\ Guarded(QaRoutes) /\ Guarded(StreamRoutes) /\ Guarded(ReportRoutes)
  BY KindsOfGuard DEF Guarded, InvitationRoutes, QaRoutes, StreamRoutes, ReportRoutes
<1>6. Guarded(SlipRoutes) /\ Guarded(StorageRoutes) /\ Guarded(TenantRoutes) /\ Guarded(UserRoutes)
  BY KindsOfGuard DEF Guarded, SlipRoutes, StorageRoutes, TenantRoutes, UserRoutes
<1>7. Guarded(WorkspaceRoutes) /\ Guarded(PlatformRoutes) /\ Guarded(MonitorRoutes)
  BY KindsOfGuard DEF Guarded, WorkspaceRoutes, PlatformRoutes, MonitorRoutes
<1>8. QED BY <1>1, <1>2, <1>3, <1>4, <1>5, <1>6, <1>7

LEMMA RoutesAreGuarded == Guarded(Rule)
<1>1. \A table \in Controllers : Guarded(table)
  BY GroupsAreGuarded DEF Controllers
<1>2. SUFFICES ASSUME NEW r \in DOMAIN Rule PROVE Rule[r].guard \in {"none", "user", "tenant", "super"}
  BY DEF Guarded
<1>3. \E table \in Controllers : r \in DOMAIN table
  BY DEF Rule
<1>4. PICK table \in Controllers : r \in DOMAIN table /\ Rule[r] = table[r]
  BY <1>3 DEF Rule
<1>5. QED BY <1>1, <1>4 DEF Guarded
\* What a role is let in to with a token that still holds, but for the known gaps.
Serves(role, op) ==
  \/ Rule[op].guard = "tenant" /\ (Rule[op].roles = {} \/ role \in Rule[op].roles \union {"OWNER"})
  \/ <<role, op>> \in KnownGaps


(* No route has two rules. *)

\* The names of the routes of each controller, and those of the controllers listed after it.
AuthNames ==
  {"login", "refresh", "logout", "forgotPassword", "resetPassword", "getMe", "listMemberships",
  "setupSuperOwnerTwoFa", "verifySuperOwnerTwoFa", "switchTenant", "setupTwoFa", "verifyTwoFa", "disableTwoFa",
  "changePassword"}
InboxReadNames ==
  {"listConversations", "getConversation", "countEscalated", "getInboxSettings",
  "getMessages", "getMessageMedia", "listTags", "getUnrepliedCount", "listNotes", "listSlips"}
SavedReplyNames == {"listSavedReplies", "createSavedReply", "updateSavedReply", "deleteSavedReply"}
InboxWriteNames ==
  {"createTag", "updateTag", "deleteTag", "updateInboxSettings", "renameCustomer",
  "updateStatus", "assignConversation", "updatePriority", "addConversationTag", "removeConversationTag",
  "createNote", "deleteNote", "markAsRead"}
InboxAiNames ==
  {"getSummary", "getActiveSuggestion", "aiSuggest", "updateAiSuggestion", "getAiUsage",
  "aiTest", "getPromptTemplate", "updatePromptTemplate"}
LineNames ==
  {"listChannels", "connectChannel", "updateChannel", "removeChannel", "reply", "broadcast",
  "multicast", "getBroadcasts", "deleteBroadcast"}
CurationNames == {"listPairs", "exportPairs", "updatePair", "approvePair", "deletePair"}
AuditNames == {"listAuditLogs", "exportAuditLogs"}
AutomationNames == {"listRules", "findRule", "createRule", "updateRule", "deleteRule"}
ScenarioNames == {"listScenarios", "findScenario", "createScenario", "updateScenario", "deleteScenario"}
ArticleNames == {"listArticles", "findArticle", "createArticle", "updateArticle", "deleteArticle"}
DocumentNames ==
  {"listDocuments", "findDocument", "createDocument", "uploadDocument", "createFromUrl",
  "reindexDocument", "requestReindex", "deleteDocument"}
CustomerNames == {"findCustomer", "updateCustomer"}
ConnectionNames ==
  {"getStatus", "lookupCustomers", "getOrder", "getConnection", "createConnection",
  "testConnection", "rotate", "disconnect"}
InvitationNames ==
  {"createInvitation", "listInvitations", "revokeInvitation", "verifyInvitation",
  "acceptInvitation"}
QaNames == {"listScores", "getScore", "reviewScore", "complianceSummary", "complianceExport"}
StreamNames == {"streamTenantEvents"}
ReportNames == {"reportSummary", "charts", "aiSummary", "aiQaSummary"}
SlipNames == {"getVerifications"}
StorageNames == {"storageStats", "listFiles", "deleteFile"}
TenantNames ==
  {"createTenant", "getTenant", "updateTenant", "getTenantSettings", "updateTenantSettings",
  "getPlan", "updatePlan"}
UserNames == {"getProfile", "updateProfile"}
WorkspaceNames ==
  {"listWorkspaces", "getWorkspace", "listMembers", "createWorkspace", "updateWorkspace",
  "updateMemberRole", "removeMember", "resetMemberPassword", "removeWorkspace"}
PlatformNames ==
  {"listTenants", "createTenantWithOwner", "aiStats", "aiSlowest", "aiHealth", "aiQaTotals",
  "aiTenantUsage", "backupRuns", "backupHealth", "triggerBackup", "listIntegrations", "suspendIntegration",
  "resumeIntegration", "updateTenantPlan"}
MonitorNames ==
  {"browserReceived", "clientTrace", "uiRendered", "listFlows", "flowStats", "slowestFlows",
  "flowDetail"}

BeyondPlatform == MonitorNames
BeyondWorkspace == PlatformNames \union BeyondPlatform
BeyondUser == WorkspaceNames \union BeyondWorkspace
BeyondTenant == UserNames \union BeyondUser
BeyondStorage == TenantNames \union BeyondTenant
BeyondSlip == StorageNames \union BeyondStorage
BeyondReport == SlipNames \union BeyondSlip
BeyondStream == ReportNames \union BeyondReport
BeyondQa == StreamNames \union BeyondStream
BeyondInvitation == QaNames \union BeyondQa
BeyondConnection == InvitationNames \union BeyondInvitation
BeyondCustomer == ConnectionNames \union BeyondConnection
BeyondDocument == CustomerNames \union BeyondCustomer
BeyondArticle == DocumentNames \union BeyondDocument
BeyondScenario == ArticleNames \union BeyondArticle
BeyondAutomation == ScenarioNames \union BeyondScenario
BeyondAudit == AutomationNames \union BeyondAutomation
BeyondCuration == AuditNames \union BeyondAudit
BeyondLine == CurationNames \union BeyondCuration
BeyondInboxAi == LineNames \union BeyondLine
BeyondInboxWrite == InboxAiNames \union BeyondInboxAi
BeyondSavedReply == InboxWriteNames \union BeyondInboxWrite
BeyondInboxRead == SavedReplyNames \union BeyondSavedReply
BeyondAuth == InboxReadNames \union BeyondInboxRead

LEMMA DomainsOfControllers ==
  /\ DOMAIN AuthRoutes = AuthNames
  /\ DOMAIN InboxReadRoutes = InboxReadNames
  /\ DOMAIN SavedReplyRoutes = SavedReplyNames
  /\ DOMAIN InboxWriteRoutes = InboxWriteNames
  /\ DOMAIN InboxAiRoutes = InboxAiNames
  /\ DOMAIN LineRoutes = LineNames
  /\ DOMAIN CurationRoutes = CurationNames
  /\ DOMAIN AuditRoutes = AuditNames
  /\ DOMAIN AutomationRoutes = AutomationNames
  /\ DOMAIN ScenarioRoutes = ScenarioNames
  /\ DOMAIN ArticleRoutes = ArticleNames
  /\ DOMAIN DocumentRoutes = DocumentNames
  /\ DOMAIN CustomerRoutes = CustomerNames
  /\ DOMAIN ConnectionRoutes = ConnectionNames
  /\ DOMAIN InvitationRoutes = InvitationNames
  /\ DOMAIN QaRoutes = QaNames
  /\ DOMAIN StreamRoutes = StreamNames
  /\ DOMAIN ReportRoutes = ReportNames
  /\ DOMAIN SlipRoutes = SlipNames
  /\ DOMAIN StorageRoutes = StorageNames
  /\ DOMAIN TenantRoutes = TenantNames
  /\ DOMAIN UserRoutes = UserNames
  /\ DOMAIN WorkspaceRoutes = WorkspaceNames
  /\ DOMAIN PlatformRoutes = PlatformNames
  /\ DOMAIN MonitorRoutes = MonitorNames
BY DEF AuthRoutes, AuthNames, InboxReadRoutes, InboxReadNames, SavedReplyRoutes, SavedReplyNames,
       InboxWriteRoutes, InboxWriteNames, InboxAiRoutes, InboxAiNames, LineRoutes, LineNames, CurationRoutes,
       CurationNames, AuditRoutes, AuditNames, AutomationRoutes, AutomationNames, ScenarioRoutes,
       ScenarioNames, ArticleRoutes, ArticleNames, DocumentRoutes, DocumentNames, CustomerRoutes,
       CustomerNames, ConnectionRoutes, ConnectionNames, InvitationRoutes, InvitationNames, QaRoutes, QaNames,
       StreamRoutes, StreamNames, ReportRoutes, ReportNames, SlipRoutes, SlipNames, StorageRoutes,
       StorageNames, TenantRoutes, TenantNames, UserRoutes, UserNames, WorkspaceRoutes, WorkspaceNames,
       PlatformRoutes, PlatformNames, MonitorRoutes, MonitorNames

LEMMA RoutesAreApart ==
  \A table, second \in Controllers : \A op \in DOMAIN table : op \in DOMAIN second => second = table
<1> USE DEF AuthNames, InboxReadNames, SavedReplyNames, InboxWriteNames, InboxAiNames, LineNames,
            CurationNames, AuditNames, AutomationNames, ScenarioNames, ArticleNames, DocumentNames,
            CustomerNames, ConnectionNames, InvitationNames, QaNames, StreamNames, ReportNames, SlipNames,
            StorageNames, TenantNames, UserNames, WorkspaceNames, PlatformNames, MonitorNames, BeyondAuth,
            BeyondInboxRead, BeyondSavedReply, BeyondInboxWrite, BeyondInboxAi, BeyondLine, BeyondCuration,
            BeyondAudit, BeyondAutomation, BeyondScenario, BeyondArticle, BeyondDocument, BeyondCustomer,
            BeyondConnection, BeyondInvitation, BeyondQa, BeyondStream, BeyondReport, BeyondSlip, BeyondStorage,
            BeyondTenant, BeyondUser, BeyondWorkspace, BeyondPlatform
<1>1. \A op \in AuthNames : op \notin BeyondAuth
  OBVIOUS
<1>2. \A op \in InboxReadNames : op \notin BeyondInboxRead
  OBVIOUS
<1>3. \A op \in SavedReplyNames : op \notin BeyondSavedReply
  OBVIOUS
<1>4. \A op \in InboxWriteNames : op \notin BeyondInboxWrite
  OBVIOUS
<1>5. \A op \in InboxAiNames : op \notin BeyondInboxAi
  OBVIOUS
<1>6. \A op \in LineNames : op \notin BeyondLine
  OBVIOUS
<1>7. \A op \in CurationNames : op \notin BeyondCuration
  OBVIOUS
<1>8. \A op \in AuditNames : op \notin BeyondAudit
  OBVIOUS
<1>9. \A op \in AutomationNames : op \notin BeyondAutomation
  OBVIOUS
<1>10. \A op \in ScenarioNames : op \notin BeyondScenario
  OBVIOUS
<1>11. \A op \in ArticleNames : op \notin BeyondArticle
  OBVIOUS
<1>12. \A op \in DocumentNames : op \notin BeyondDocument
  OBVIOUS
<1>13. \A op \in CustomerNames : op \notin BeyondCustomer
  OBVIOUS
<1>14. \A op \in ConnectionNames : op \notin BeyondConnection
  OBVIOUS
<1>15. \A op \in InvitationNames : op \notin BeyondInvitation
  OBVIOUS
<1>16. \A op \in QaNames : op \notin BeyondQa
  OBVIOUS
<1>17. \A op \in StreamNames : op \notin BeyondStream
  OBVIOUS
<1>18. \A op \in ReportNames : op \notin BeyondReport
  OBVIOUS
<1>19. \A op \in SlipNames : op \notin BeyondSlip
  OBVIOUS
<1>20. \A op \in StorageNames : op \notin BeyondStorage
  OBVIOUS
<1>21. \A op \in TenantNames : op \notin BeyondTenant
  OBVIOUS
<1>22. \A op \in UserNames : op \notin BeyondUser
  OBVIOUS
<1>23. \A op \in WorkspaceNames : op \notin BeyondWorkspace
  OBVIOUS
<1>24. \A op \in PlatformNames : op \notin BeyondPlatform
  OBVIOUS
<1> HIDE DEF AuthNames, InboxReadNames, SavedReplyNames, InboxWriteNames, InboxAiNames, LineNames,
             CurationNames, AuditNames, AutomationNames, ScenarioNames, ArticleNames, DocumentNames,
             CustomerNames, ConnectionNames, InvitationNames, QaNames, StreamNames, ReportNames, SlipNames,
             StorageNames, TenantNames, UserNames, WorkspaceNames, PlatformNames, MonitorNames
<1>25. QED
  BY <1>1, <1>2, <1>3, <1>4, <1>5, <1>6, <1>7, <1>8, <1>9, <1>10, <1>11, <1>12, <1>13, <1>14, <1>15, <1>16,
     <1>17, <1>18, <1>19, <1>20, <1>21, <1>22, <1>23, <1>24, DomainsOfControllers DEF Controllers

LEMMA RuleOfController ==
  ASSUME NEW table \in Controllers, NEW op \in DOMAIN table
  PROVE  Rule[op] = table[op]
<1>1. op \in DOMAIN Rule /\ Rule[op] = (CHOOSE t \in Controllers : op \in DOMAIN t)[op]
  BY DEF Rule
<1>2. (CHOOSE t \in Controllers : op \in DOMAIN t) = table
  BY RoutesAreApart
<1>3. QED BY <1>1, <1>2

\* The rules of what the screens call.
LEMMA RulesOfCalls ==
  /\ \A op \in {"listConversations", "getMessages", "listTags", "listNotes", "getInboxSettings",
               "listSavedReplies", "createSavedReply", "updateSavedReply", "deleteSavedReply"} :
       Rule[op] = Only(FrontDesk)
  /\ \A op \in {"findCustomer", "aiSuggest", "getSummary"} :
       Rule[op] = Only(Leads \union FrontDesk)
  /\ \A op \in {"updateCustomer", "createArticle", "updateArticle", "createDocument", "uploadDocument",
               "createFromUrl", "reindexDocument"} :
       Rule[op] = Only(Writers)
  /\ \A op \in {"reply", "listChannels"} :
       Rule[op] = Only({"AGENT"})
  /\ \A op \in {"connectChannel", "updateChannel", "removeChannel", "createTag", "updateInboxSettings",
               "updateMemberRole", "removeMember", "resetMemberPassword", "listInvitations",
               "createInvitation", "revokeInvitation"} :
       Rule[op] = Only({"ADMIN"})
  /\ \A op \in {"getBroadcasts", "broadcast", "multicast", "deleteBroadcast", "getPromptTemplate",
               "updatePromptTemplate", "aiTest", "getAiUsage", "deleteArticle", "requestReindex",
               "deleteDocument", "createScenario", "updateScenario", "deleteScenario", "createRule",
               "updateRule", "deleteRule", "getConnection", "createConnection", "testConnection", "rotate",
               "disconnect", "listAuditLogs", "getVerifications"} :
       Rule[op] = Only(Leads)
  /\ \A op \in {"updateStatus", "assignConversation", "updatePriority", "createNote", "addConversationTag",
               "removeConversationTag", "renameCustomer"} :
       Rule[op] = Only(Staff)
  /\ \A op \in {"listWorkspaces", "listMembers", "getProfile", "updateProfile", "changePassword"} :
       Rule[op] = Member
  /\ \A op \in {"listArticles", "listDocuments", "listScenarios", "listRules"} :
       Rule[op] = Only(WorkRoles)
  /\ \A op \in {"listPairs", "updatePair", "approvePair", "deletePair", "exportPairs", "complianceSummary",
               "listScores", "reviewScore"} :
       Rule[op] = Only(Quality)
  /\ \A op \in {"exportAuditLogs", "complianceExport"} :
       Rule[op] = Only({"OWNER"})
  /\ \A op \in {"reportSummary", "charts", "aiSummary", "aiQaSummary"} :
       Rule[op] = Only(Quality \union {"VIEWER"})
<1>1. /\ \A op \in {"listConversations", "getMessages", "listTags", "listNotes", "getInboxSettings"} : Rule[op] = Only(FrontDesk)
  BY RuleOfController DEF Controllers, InboxReadRoutes
<1>2. /\ \A op \in {"listSavedReplies", "createSavedReply", "updateSavedReply", "deleteSavedReply"} : Rule[op] = Only(FrontDesk)
  BY RuleOfController DEF Controllers, SavedReplyRoutes
<1>3. /\ \A op \in {"findCustomer"} : Rule[op] = Only(Leads \union FrontDesk)
      /\ \A op \in {"updateCustomer"} : Rule[op] = Only(Writers)
  BY RuleOfController DEF Controllers, CustomerRoutes
<1>4. /\ \A op \in {"reply", "listChannels"} : Rule[op] = Only({"AGENT"})
      /\ \A op \in {"connectChannel", "updateChannel", "removeChannel"} : Rule[op] = Only({"ADMIN"})
      /\ \A op \in {"getBroadcasts", "broadcast", "multicast", "deleteBroadcast"} : Rule[op] = Only(Leads)
  BY RuleOfController DEF Controllers, LineRoutes
<1>5. /\ \A op \in {"updateStatus", "assignConversation", "updatePriority", "createNote", "addConversationTag",
                    "removeConversationTag", "renameCustomer"} : Rule[op] = Only(Staff)
      /\ \A op \in {"createTag", "updateInboxSettings"} : Rule[op] = Only({"ADMIN"})
  BY RuleOfController DEF Controllers, InboxWriteRoutes
<1>6. /\ \A op \in {"aiSuggest", "getSummary"} : Rule[op] = Only(Leads \union FrontDesk)
      /\ \A op \in {"getPromptTemplate", "updatePromptTemplate", "aiTest", "getAiUsage"} : Rule[op] = Only(Leads)
  BY RuleOfController DEF Controllers, InboxAiRoutes
<1>7. /\ \A op \in {"listWorkspaces", "listMembers"} : Rule[op] = Member
      /\ \A op \in {"updateMemberRole", "removeMember", "resetMemberPassword"} : Rule[op] = Only({"ADMIN"})
  BY RuleOfController DEF Controllers, WorkspaceRoutes
<1>8. /\ \A op \in {"listArticles"} : Rule[op] = Only(WorkRoles)
      /\ \A op \in {"createArticle", "updateArticle"} : Rule[op] = Only(Writers)
      /\ \A op \in {"deleteArticle"} : Rule[op] = Only(Leads)
  BY RuleOfController DEF Controllers, ArticleRoutes
<1>9. /\ \A op \in {"listDocuments"} : Rule[op] = Only(WorkRoles)
      /\ \A op \in {"createDocument", "uploadDocument", "createFromUrl", "reindexDocument"} : Rule[op] = Only(Writers)
      /\ \A op \in {"requestReindex", "deleteDocument"} : Rule[op] = Only(Leads)
  BY RuleOfController DEF Controllers, DocumentRoutes
<1>10. /\ \A op \in {"listScenarios"} : Rule[op] = Only(WorkRoles)
       /\ \A op \in {"createScenario", "updateScenario", "deleteScenario"} : Rule[op] = Only(Leads)
  BY RuleOfController DEF Controllers, ScenarioRoutes
<1>11. /\ \A op \in {"listRules"} : Rule[op] = Only(WorkRoles)
       /\ \A op \in {"createRule", "updateRule", "deleteRule"} : Rule[op] = Only(Leads)
  BY RuleOfController DEF Controllers, AutomationRoutes
<1>12. /\ \A op \in {"listInvitations", "createInvitation", "revokeInvitation"} : Rule[op] = Only({"ADMIN"})
  BY RuleOfController DEF Controllers, InvitationRoutes
<1>13. /\ \A op \in {"getProfile", "updateProfile"} : Rule[op] = Member
  BY RuleOfController DEF Controllers, UserRoutes
<1>14. /\ \A op \in {"changePassword"} : Rule[op] = Member
  BY RuleOfController DEF Controllers, AuthRoutes
<1>15. /\ \A op \in {"listPairs", "updatePair", "approvePair", "deletePair", "exportPairs"} : Rule[op] = Only(Quality)
  BY RuleOfController DEF Controllers, CurationRoutes
<1>16. /\ \A op \in {"getConnection", "createConnection", "testConnection", "rotate", "disconnect"} : Rule[op] = Only(Leads)
  BY RuleOfController DEF Controllers, ConnectionRoutes
<1>17. /\ \A op \in {"listAuditLogs"} : Rule[op] = Only(Leads)
       /\ \A op \in {"exportAuditLogs"} : Rule[op] = Only({"OWNER"})
  BY RuleOfController DEF Controllers, AuditRoutes
<1>18. /\ \A op \in {"getVerifications"} : Rule[op] = Only(Leads)
  BY RuleOfController DEF Controllers, SlipRoutes
<1>19. /\ \A op \in {"reportSummary", "charts", "aiSummary", "aiQaSummary"} : Rule[op] = Only(Quality \union {"VIEWER"})
  BY RuleOfController DEF Controllers, ReportRoutes
<1>20. /\ \A op \in {"complianceSummary", "listScores", "reviewScore"} : Rule[op] = Only(Quality)
       /\ \A op \in {"complianceExport"} : Rule[op] = Only({"OWNER"})
  BY RuleOfController DEF Controllers, QaRoutes
<1>21. QED
  BY <1>1, <1>2, <1>3, <1>4, <1>5, <1>6, <1>7, <1>8, <1>9, <1>10, <1>11, <1>12, <1>13, <1>14,
       <1>15, <1>16, <1>17, <1>18, <1>19, <1>20

\* And whom they serve.
LEMMA CallsServe ==
  /\ \A op \in {"listConversations", "getMessages", "listTags", "listNotes", "getInboxSettings",
               "listSavedReplies", "createSavedReply", "updateSavedReply", "deleteSavedReply"} :
       \A role \in {"OWNER", "ADMIN", "AGENT", "QC"} : Serves(role, op)
  /\ \A op \in {"findCustomer", "aiSuggest", "getSummary"} :
       \A role \in {"OWNER", "ADMIN", "AGENT", "QC"} : Serves(role, op)
  /\ \A op \in {"updateCustomer", "createArticle", "updateArticle", "createDocument", "uploadDocument",
               "createFromUrl", "reindexDocument"} :
       \A role \in {"OWNER", "ADMIN", "AGENT"} : Serves(role, op)
  /\ \A op \in {"reply", "listChannels"} :
       \A role \in {"OWNER", "AGENT"} : Serves(role, op)
  /\ \A op \in {"connectChannel", "updateChannel", "removeChannel", "createTag", "updateInboxSettings",
               "updateMemberRole", "removeMember", "resetMemberPassword", "listInvitations",
               "createInvitation", "revokeInvitation"} :
       \A role \in {"OWNER", "ADMIN"} : Serves(role, op)
  /\ \A op \in {"getBroadcasts", "broadcast", "multicast", "deleteBroadcast", "getPromptTemplate",
               "updatePromptTemplate", "aiTest", "getAiUsage", "deleteArticle", "requestReindex",
               "deleteDocument", "createScenario", "updateScenario", "deleteScenario", "createRule",
               "updateRule", "deleteRule", "getConnection", "createConnection", "testConnection", "rotate",
               "disconnect", "listAuditLogs", "getVerifications"} :
       \A role \in {"OWNER", "ADMIN"} : Serves(role, op)
  /\ \A op \in {"updateStatus", "assignConversation", "updatePriority", "createNote", "addConversationTag",
               "removeConversationTag", "renameCustomer"} :
       \A role \in {"OWNER", "ADMIN", "AGENT"} : Serves(role, op)
  /\ \A op \in {"listWorkspaces", "listMembers", "getProfile", "updateProfile", "changePassword"} :
       \A role \in {"OWNER", "ADMIN", "AGENT", "QC", "VIEWER"} : Serves(role, op)
  /\ \A op \in {"listArticles", "listDocuments", "listScenarios", "listRules"} :
       \A role \in {"OWNER", "ADMIN", "AGENT", "QC", "VIEWER"} : Serves(role, op)
  /\ \A op \in {"listPairs", "updatePair", "approvePair", "deletePair", "exportPairs", "complianceSummary",
               "listScores", "reviewScore"} :
       \A role \in {"OWNER", "ADMIN", "QC"} : Serves(role, op)
  /\ \A op \in {"exportAuditLogs", "complianceExport"} :
       \A role \in {"OWNER"} : Serves(role, op)
  /\ \A op \in {"reportSummary", "charts", "aiSummary", "aiQaSummary"} :
       \A role \in {"OWNER", "ADMIN", "QC", "VIEWER"} : Serves(role, op)
<1>1. \A op, roles : Rule[op] = Only(roles) => \A role \in roles \union {"OWNER"} : Serves(role, op)
  BY KindsOfGuard DEF Serves
<1>2. \A op, role : Rule[op] = Member => Serves(role, op)
  BY KindsOfGuard DEF Serves
<1>3. \A op \in {"listConversations", "getMessages", "listTags", "listNotes", "getInboxSettings",
               "listSavedReplies", "createSavedReply", "updateSavedReply", "deleteSavedReply"} :
       \A role \in {"OWNER", "ADMIN", "AGENT", "QC"} : Serves(role, op)
  <2>1. \A op \in {"listConversations", "getMessages", "listTags", "listNotes", "getInboxSettings",
                     "listSavedReplies", "createSavedReply", "updateSavedReply", "deleteSavedReply"} : Rule[op] = Only(FrontDesk)
    BY RulesOfCalls
  <2>2. QED BY <2>1, <1>1 DEF FrontDesk, Staff
<1>4. \A op \in {"findCustomer", "aiSuggest", "getSummary"} :
       \A role \in {"OWNER", "ADMIN", "AGENT", "QC"} : Serves(role, op)
  <2>1. \A op \in {"findCustomer", "aiSuggest", "getSummary"} : Rule[op] = Only(Leads \union FrontDesk)
    BY RulesOfCalls
  <2>2. QED BY <2>1, <1>1 DEF Leads, FrontDesk, Staff
<1>5. \A op \in {"updateCustomer", "createArticle", "updateArticle", "createDocument", "uploadDocument",
               "createFromUrl", "reindexDocument"} :
       \A role \in {"OWNER", "ADMIN", "AGENT"} : Serves(role, op)
  <2>1. \A op \in {"updateCustomer", "createArticle", "updateArticle", "createDocument", "uploadDocument",
                     "createFromUrl", "reindexDocument"} : Rule[op] = Only(Writers)
    BY RulesOfCalls
  <2>2. QED BY <2>1, <1>1 DEF Writers, Leads
<1>6. \A op \in {"reply", "listChannels"} :
       \A role \in {"OWNER", "AGENT"} : Serves(role, op)
  <2>1. \A op \in {"reply", "listChannels"} : Rule[op] = Only({"AGENT"})
    BY RulesOfCalls
  <2>2. QED BY <2>1, <1>1
<1>7. \A op \in {"connectChannel", "updateChannel", "removeChannel", "createTag", "updateInboxSettings",
               "updateMemberRole", "removeMember", "resetMemberPassword", "listInvitations",
               "createInvitation", "revokeInvitation"} :
       \A role \in {"OWNER", "ADMIN"} : Serves(role, op)
  <2>1. \A op \in {"connectChannel", "updateChannel", "removeChannel", "createTag", "updateInboxSettings",
                     "updateMemberRole", "removeMember", "resetMemberPassword", "listInvitations",
                     "createInvitation", "revokeInvitation"} : Rule[op] = Only({"ADMIN"})
    BY RulesOfCalls
  <2>2. QED BY <2>1, <1>1
<1>8. \A op \in {"getBroadcasts", "broadcast", "multicast", "deleteBroadcast", "getPromptTemplate",
               "updatePromptTemplate", "aiTest", "getAiUsage", "deleteArticle", "requestReindex",
               "deleteDocument", "createScenario", "updateScenario", "deleteScenario", "createRule",
               "updateRule", "deleteRule", "getConnection", "createConnection", "testConnection", "rotate",
               "disconnect", "listAuditLogs", "getVerifications"} :
       \A role \in {"OWNER", "ADMIN"} : Serves(role, op)
  <2>1. \A op \in {"getBroadcasts", "broadcast", "multicast", "deleteBroadcast", "getPromptTemplate",
                     "updatePromptTemplate", "aiTest", "getAiUsage", "deleteArticle", "requestReindex",
                     "deleteDocument", "createScenario", "updateScenario", "deleteScenario",
                     "createRule", "updateRule", "deleteRule", "getConnection", "createConnection",
                     "testConnection", "rotate", "disconnect", "listAuditLogs", "getVerifications"} : Rule[op] = Only(Leads)
    BY RulesOfCalls
  <2>2. QED BY <2>1, <1>1 DEF Leads
<1>9. \A op \in {"updateStatus", "assignConversation", "updatePriority", "createNote", "addConversationTag",
               "removeConversationTag", "renameCustomer"} :
       \A role \in {"OWNER", "ADMIN", "AGENT"} : Serves(role, op)
  <2>1. \A op \in {"updateStatus", "assignConversation", "updatePriority", "createNote", "addConversationTag",
                     "removeConversationTag", "renameCustomer"} : Rule[op] = Only(Staff)
    BY RulesOfCalls
  <2>2. QED BY <2>1, <1>1 DEF Staff
<1>10. \A op \in {"listWorkspaces", "listMembers", "getProfile", "updateProfile", "changePassword"} :
       \A role \in {"OWNER", "ADMIN", "AGENT", "QC", "VIEWER"} : Serves(role, op)
  <2>1. \A op \in {"listWorkspaces", "listMembers", "getProfile", "updateProfile", "changePassword"} : Rule[op] = Member
    BY RulesOfCalls
  <2>2. QED BY <2>1, <1>2
<1>11. \A op \in {"listArticles", "listDocuments", "listScenarios", "listRules"} :
       \A role \in {"OWNER", "ADMIN", "AGENT", "QC", "VIEWER"} : Serves(role, op)
  <2>1. \A op \in {"listArticles", "listDocuments", "listScenarios", "listRules"} : Rule[op] = Only(WorkRoles)
    BY RulesOfCalls
  <2>2. QED BY <2>1, <1>1 DEF WorkRoles
<1>12. \A op \in {"listPairs", "updatePair", "approvePair", "deletePair", "exportPairs", "complianceSummary",
               "listScores", "reviewScore"} :
       \A role \in {"OWNER", "ADMIN", "QC"} : Serves(role, op)
  <2>1. \A op \in {"listPairs", "updatePair", "approvePair", "deletePair", "exportPairs", "complianceSummary",
                     "listScores", "reviewScore"} : Rule[op] = Only(Quality)
    BY RulesOfCalls
  <2>2. QED BY <2>1, <1>1 DEF Quality, Leads
<1>13. \A op \in {"exportAuditLogs", "complianceExport"} :
       \A role \in {"OWNER"} : Serves(role, op)
  <2>1. \A op \in {"exportAuditLogs", "complianceExport"} : Rule[op] = Only({"OWNER"})
    BY RulesOfCalls
  <2>2. QED BY <2>1, <1>1
<1>14. \A op \in {"reportSummary", "charts", "aiSummary", "aiQaSummary"} :
       \A role \in {"OWNER", "ADMIN", "QC", "VIEWER"} : Serves(role, op)
  <2>1. \A op \in {"reportSummary", "charts", "aiSummary", "aiQaSummary"} : Rule[op] = Only(Quality \union {"VIEWER"})
    BY RulesOfCalls
  <2>2. QED BY <2>1, <1>1 DEF Quality, Leads
<1>15. QED
  BY <1>3, <1>4, <1>5, <1>6, <1>7, <1>8, <1>9, <1>10, <1>11, <1>12, <1>13, <1>14

LEMMA GapsAreKnown ==
  /\ Serves("ADMIN", "listChannels") /\ Serves("ADMIN", "reply") /\ Serves("VIEWER", "complianceSummary")
  /\ Serves("ADMIN", "complianceExport") /\ Serves("QC", "complianceExport")
  /\ Serves("AGENT", "createTag") /\ Serves("AGENT", "updateInboxSettings")
  /\ \A op \in ScreenFor["QC"].inbox.offers \ {"aiSuggest", "getSummary"} : Serves("QC", op)
BY DEF Serves, KnownGaps

LEMMA ScreensServed ==
  ASSUME NEW role \in WorkRoles, NEW name \in ScreenNames, role \in ScreenFor[role][name].shown,
         NEW op \in ScreenFor[role][name].needs \union ScreenFor[role][name].offers
  PROVE  Serves(role, op)
<1>1. name \in {"inbox", "channels", "replies", "articles", "documents", "scenarios", "automation",
               "team", "profile", "ai", "curation", "integrations", "auditLogs",
               "broadcasts", "slips", "reports", "qa"}
  BY DEF ScreenNames, ScreenFor, WorkRoles
<1>2. CASE name = "inbox"
  <2>1. ScreenFor[role][name] =
          Screen(Leads \union FrontDesk,
            {"listConversations", "getMessages", "listTags", "listSavedReplies", "listNotes", "findCustomer"},
            {"reply", "updateStatus", "assignConversation", "updatePriority", "createNote", "addConversationTag",
            "removeConversationTag", "createTag", "updateCustomer", "renameCustomer", "updateInboxSettings", "aiSuggest",
            "getSummary"})
    BY <1>2 DEF ScreenFor
  <2>2. ScreenFor["QC"].inbox.offers = ScreenFor[role][name].offers
    <3>1. ScreenFor["QC"].inbox = ScreenFor[role].inbox
      BY DEF ScreenFor, WorkRoles
    <3>2. QED BY <3>1, <1>2
  <2>3. role \in {"OWNER", "ADMIN", "AGENT", "QC"}
    BY <2>1 DEF Screen, Leads, FrontDesk, Staff
  <2>4. QED BY <2>1, <2>2, <2>3, CallsServe, GapsAreKnown DEF Screen
<1>3. CASE name = "channels"
  <2>1. ScreenFor[role][name] =
          Screen(Leads, {"listWorkspaces", "listChannels"}, {"connectChannel", "updateChannel", "removeChannel"})
    BY <1>3 DEF ScreenFor
  <2>2. QED BY <2>1, CallsServe, GapsAreKnown DEF Screen, CanEdit, Leads, Staff, FrontDesk, Quality, Writers, WorkRoles
<1>4. CASE name = "replies"
  <2>1. ScreenFor[role][name] =
          Screen(Writers, {"listChannels"}, {"createSavedReply", "updateSavedReply", "deleteSavedReply"})
    BY <1>4 DEF ScreenFor
  <2>2. QED BY <2>1, CallsServe, GapsAreKnown DEF Screen, CanEdit, Leads, Staff, FrontDesk, Quality, Writers, WorkRoles
<1>5. CASE name = "articles"
  <2>1. ScreenFor[role][name] =
          Screen(Writers \union {"QC"}, {"listArticles"},
            CanEdit(role, Writers, {"createArticle", "updateArticle"}) \union CanEdit(role, Leads, {"deleteArticle"}))
    BY <1>5 DEF ScreenFor
  <2>2. QED BY <2>1, CallsServe DEF Screen, CanEdit, Leads, Staff, FrontDesk, Quality, Writers, WorkRoles
<1>6. CASE name = "documents"
  <2>1. ScreenFor[role][name] =
          Screen(Writers \union {"QC"}, {"listDocuments"},
            CanEdit(role, Writers, {"createDocument", "uploadDocument", "createFromUrl", "reindexDocument"})
            \union CanEdit(role, Leads, {"requestReindex", "deleteDocument"}))
    BY <1>6 DEF ScreenFor
  <2>2. QED BY <2>1, CallsServe DEF Screen, CanEdit, Leads, Staff, FrontDesk, Quality, Writers, WorkRoles
<1>7. CASE name = "scenarios"
  <2>1. ScreenFor[role][name] =
          Screen(WorkRoles, {"listScenarios"},
            CanEdit(role, Leads, {"createScenario", "updateScenario", "deleteScenario"}))
    BY <1>7 DEF ScreenFor
  <2>2. QED BY <2>1, CallsServe DEF Screen, CanEdit, Leads, Staff, FrontDesk, Quality, Writers, WorkRoles
<1>8. CASE name = "automation"
  <2>1. ScreenFor[role][name] =
          Screen(WorkRoles, {"listRules"}, CanEdit(role, Leads, {"createRule", "updateRule", "deleteRule"}))
    BY <1>8 DEF ScreenFor
  <2>2. QED BY <2>1, CallsServe DEF Screen, CanEdit, Leads, Staff, FrontDesk, Quality, Writers, WorkRoles
<1>9. CASE name = "team"
  <2>1. ScreenFor[role][name] =
          Screen(Leads, {"listWorkspaces", "listMembers", "listInvitations"},
            {"createInvitation", "revokeInvitation", "updateMemberRole", "removeMember", "resetMemberPassword"})
    BY <1>9 DEF ScreenFor
  <2>2. QED BY <2>1, CallsServe DEF Screen, CanEdit, Leads, Staff, FrontDesk, Quality, Writers, WorkRoles
<1>10. CASE name = "profile"
  <2>1. ScreenFor[role][name] =
          Screen(WorkRoles, {"getProfile"}, {"updateProfile", "changePassword"})
    BY <1>10 DEF ScreenFor
  <2>2. QED BY <2>1, CallsServe DEF Screen, CanEdit, Leads, Staff, FrontDesk, Quality, Writers, WorkRoles
<1>11. CASE name = "ai"
  <2>1. ScreenFor[role][name] =
          Screen(Leads, {"getInboxSettings", "getPromptTemplate"},
            {"updateInboxSettings", "updatePromptTemplate", "aiTest", "getAiUsage"})
    BY <1>11 DEF ScreenFor
  <2>2. QED BY <2>1, CallsServe DEF Screen, CanEdit, Leads, Staff, FrontDesk, Quality, Writers, WorkRoles
<1>12. CASE name = "curation"
  <2>1. ScreenFor[role][name] =
          Screen(Quality, {"listPairs"}, {"updatePair", "approvePair", "deletePair", "exportPairs"})
    BY <1>12 DEF ScreenFor
  <2>2. QED BY <2>1, CallsServe DEF Screen, CanEdit, Leads, Staff, FrontDesk, Quality, Writers, WorkRoles
<1>13. CASE name = "integrations"
  <2>1. ScreenFor[role][name] =
          Screen(Leads, {"getConnection"}, {"createConnection", "testConnection", "rotate", "disconnect"})
    BY <1>13 DEF ScreenFor
  <2>2. QED BY <2>1, CallsServe DEF Screen, CanEdit, Leads, Staff, FrontDesk, Quality, Writers, WorkRoles
<1>14. CASE name = "auditLogs"
  <2>1. ScreenFor[role][name] =
          Screen(Leads, {"listAuditLogs"}, CanEdit(role, {"OWNER"}, {"exportAuditLogs"}))
    BY <1>14 DEF ScreenFor
  <2>2. QED BY <2>1, CallsServe DEF Screen, CanEdit, Leads, Staff, FrontDesk, Quality, Writers, WorkRoles
<1>15. CASE name = "broadcasts"
  <2>1. ScreenFor[role][name] =
          Screen(Leads, {"listChannels", "getBroadcasts"}, {"broadcast", "multicast", "deleteBroadcast"})
    BY <1>15 DEF ScreenFor
  <2>2. QED BY <2>1, CallsServe, GapsAreKnown DEF Screen, CanEdit, Leads, Staff, FrontDesk, Quality, Writers, WorkRoles
<1>16. CASE name = "slips"
  <2>1. ScreenFor[role][name] =
          Screen(Leads, {"getVerifications"}, {})
    BY <1>16 DEF ScreenFor
  <2>2. QED BY <2>1, CallsServe DEF Screen, CanEdit, Leads, Staff, FrontDesk, Quality, Writers, WorkRoles
<1>17. CASE name = "reports"
  <2>1. ScreenFor[role][name] =
          Screen(Quality \union {"VIEWER"},
            {"reportSummary", "charts", "aiSummary", "aiQaSummary", "complianceSummary"}, {})
    BY <1>17 DEF ScreenFor
  <2>2. QED BY <2>1, CallsServe, GapsAreKnown DEF Screen, CanEdit, Leads, Staff, FrontDesk, Quality, Writers, WorkRoles
<1>18. CASE name = "qa"
  <2>1. ScreenFor[role][name] =
          Screen(Quality, {"listScores", "complianceSummary"}, {"reviewScore", "complianceExport"})
    BY <1>18 DEF ScreenFor
  <2>2. QED BY <2>1, CallsServe, GapsAreKnown DEF Screen, CanEdit, Leads, Staff, FrontDesk, Quality, Writers, WorkRoles
<1>19. QED
  BY <1>1, <1>2, <1>3, <1>4, <1>5, <1>6, <1>7, <1>8, <1>9, <1>10, <1>11, <1>12, <1>13, <1>14,
       <1>15, <1>16, <1>17, <1>18

\* The token is that of a membership, whose role it carries while nothing changed it; the
\* screen is one that its role is shown.
AxInv ==
  /\ AxTypeOK
  /\ token.kind = "member" => /\ \E w \in Spaces : token.space = {w} /\ (~outdated => mine[w] = token.role)
                              /\ token.role \in WorkRoles
  /\ token.kind # "member" => token.space = {}
  /\ token.kind = "super" => console # "no"
  /\ display.name # "none" => /\ display.name \in ScreenNames /\ display.role \in WorkRoles
                              /\ display.role \in ScreenFor[display.role][display.name].shown

LEMMA AccessStart == ASSUME AxInit PROVE AxInv
<1>1. "none" \in WorkRoles \union {"none"} /\ "none" \in ScreenNames \union {"none"}
  OBVIOUS
<1>2. NoSession \in [kind : {"none", "member", "super"}, space : SUBSET Spaces, role : WorkRoles \union {"none"}]
  BY <1>1 DEF NoSession
<1>3. Blank \in [name : ScreenNames \union {"none"}, role : WorkRoles \union {"none"}]
  BY <1>1 DEF Blank
<1>4. AxTypeOK
  <2>1. axLeft \in 0..AxChanges /\ outdated \in BOOLEAN /\ unclosed \subseteq Spaces
    <3>1. axLeft = AxChanges /\ outdated = FALSE /\ unclosed = Spaces
      BY DEF AxInit
    <3>2. AxChanges \in 0..AxChanges
      BY AccessAssumption
    <3>3. QED BY <3>1, <3>2
  <2>2. mine \in [Spaces -> WorkRoles \union {"none"}] /\ console \in {"no", "plain", "codes"}
    BY DEF AxInit
  <2>3. token = NoSession /\ display = Blank
    BY DEF AxInit
  <2>4. QED BY <2>1, <2>2, <2>3, <1>2, <1>3 DEF AxTypeOK
<1>5. token.kind = "none" /\ token.space = {} /\ display.name = "none"
  BY DEF AxInit, NoSession, Blank
<1>6. QED BY <1>4, <1>5 DEF AxInv

LEMMA TokenIsTyped ==
  ASSUME NEW w \in Spaces, NEW role \in WorkRoles
  PROVE  /\ TokenOf(w, role) \in [kind : {"none", "member", "super"}, space : SUBSET Spaces, role : WorkRoles \union {"none"}]
         /\ TokenOf(w, role).kind = "member" /\ TokenOf(w, role).space = {w} /\ TokenOf(w, role).role = role
BY DEF TokenOf

LEMMA AccessStepKeeps == ASSUME AxInv, [AxNext]_axVars PROVE AxInv'
<1> USE DEF AxInv
<1>0. /\ mine \in [Spaces -> WorkRoles \union {"none"}] /\ unclosed \subseteq Spaces
      /\ console \in {"no", "plain", "codes"} /\ outdated \in BOOLEAN /\ axLeft \in 0..AxChanges
      /\ token \in [kind : {"none", "member", "super"}, space : SUBSET Spaces, role : WorkRoles \union {"none"}]
      /\ display \in [name : ScreenNames \union {"none"}, role : WorkRoles \union {"none"}]
  BY DEF AxTypeOK
<1>1. Blank \in [name : ScreenNames \union {"none"}, role : WorkRoles \union {"none"}] /\ Blank.name = "none"
  BY DEF Blank
<1>2. ASSUME UNCHANGED axVars PROVE AxInv'
  BY <1>2 DEF axVars, AxTypeOK
<1>3. ASSUME EnterConsole PROVE AxInv'
  <2> DEFINE t == [kind |-> "super", space |-> {}, role |-> "none"]
  <2>1. /\ t \in [kind : {"none", "member", "super"}, space : SUBSET Spaces, role : WorkRoles \union {"none"}]
        /\ t.kind = "super" /\ t.space = {}
    OBVIOUS
  <2> HIDE DEF t
  <2>2. AxTypeOK'
    BY <2>1, <1>0, <1>1, <1>3 DEF EnterConsole, AxTypeOK, t
  <2>3. token' = t /\ console' # "no" /\ display' = Blank
    BY <1>3 DEF EnterConsole, t
  <2>4. QED BY <2>1, <2>2, <2>3, <1>1
<1>4. ASSUME RefreshToken PROVE AxInv'
  <2>1. PICK w \in token.space : token' = TokenOf(w, mine[w])
    BY <1>4 DEF RefreshToken, RoleNow
  <2>2. w \in Spaces /\ mine[w] \in WorkRoles
    <3>1. PICK v \in Spaces : token.space = {v}
      BY <1>4 DEF RefreshToken
    <3>2. mine[v] # "none"
      BY <3>1, <1>4 DEF RefreshToken, Belongs
    <3>3. QED BY <3>1, <3>2, <2>1, <1>0
  <2>3. /\ outdated' = FALSE /\ mine' = mine /\ unclosed' = unclosed /\ console' = console /\ display' = display
        /\ axLeft' = axLeft
    BY <1>4 DEF RefreshToken
  <2>4. AxTypeOK'
    BY <2>1, <2>2, <2>3, <1>0, TokenIsTyped DEF AxTypeOK
  <2>5. token'.kind = "member" /\ token'.space = {w} /\ token'.role = mine[w]
    BY <2>1, <2>2, TokenIsTyped
  <2>6. QED BY <2>2, <2>3, <2>4, <2>5
<1>5. ASSUME TokenExpires PROVE AxInv'
  <2>1. /\ NoSession \in [kind : {"none", "member", "super"}, space : SUBSET Spaces, role : WorkRoles \union {"none"}]
        /\ NoSession.kind = "none" /\ NoSession.space = {}
    BY DEF NoSession
  <2>2. AxTypeOK'
    BY <2>1, <1>0, <1>1, <1>5 DEF TokenExpires, AxTypeOK
  <2>3. QED BY <2>1, <2>2, <1>1, <1>5 DEF TokenExpires
<1>6. ASSUME SetUpCodes PROVE AxInv'
  <2>1. AxTypeOK'
    BY <1>0, <1>6 DEF SetUpCodes, AxTypeOK
  <2>2. QED BY <2>1, <1>6 DEF SetUpCodes
<1>7. ASSUME NEW w \in Spaces, Enter(w) PROVE AxInv'
  <2>1. mine[w] \in WorkRoles /\ token' = TokenOf(w, mine[w])
    BY <1>0, <1>7 DEF Enter
  <2>2. /\ outdated' = FALSE /\ mine' = mine /\ unclosed' = unclosed /\ console' = console /\ display' = Blank
        /\ axLeft' = axLeft
    BY <1>7 DEF Enter
  <2>3. AxTypeOK'
    BY <2>1, <2>2, <1>0, <1>1, TokenIsTyped DEF AxTypeOK
  <2>4. token'.kind = "member" /\ token'.space = {w} /\ token'.role = mine[w]
    BY <2>1, TokenIsTyped
  <2>5. QED BY <2>1, <2>2, <2>3, <2>4, <1>1
<1>8. ASSUME NEW w \in Spaces, WorkspaceCloses(w) PROVE AxInv'
  <2>1. AxTypeOK'
    BY <1>0, <1>8, AccessAssumption DEF WorkspaceCloses, Changes, AxTypeOK
  <2>2. QED BY <2>1, <1>8 DEF WorkspaceCloses
<1>9. ASSUME NEW w \in Spaces, NEW role \in WorkRoles \union {"none"}, RoleChanges(w, role) PROVE AxInv'
  <2>1. /\ mine' = [mine EXCEPT ![w] = role] /\ outdated' = (outdated \/ (w \in token.space /\ token.role # role))
        /\ unclosed' = unclosed /\ console' = console /\ token' = token /\ display' = display
        /\ axLeft' \in 0..AxChanges
    BY <1>0, <1>9, AccessAssumption DEF RoleChanges, Changes
  <2>2. AxTypeOK'
    <3>1. outdated' \in BOOLEAN
      BY <2>1
    <3>2. mine' \in [Spaces -> WorkRoles \union {"none"}]
      BY <2>1, <1>0
    <3>3. QED BY <2>1, <1>0, <3>1, <3>2 DEF AxTypeOK
  <2>3. ASSUME token.kind = "member"
        PROVE  \E v \in Spaces : token.space = {v} /\ (~outdated' => mine'[v] = token.role)
    <3>1. PICK v \in Spaces : token.space = {v} /\ (~outdated => mine[v] = token.role)
      BY <2>3
    <3>2. ~outdated' => mine'[v] = token.role
      BY <3>1, <2>1, <1>0
    <3>3. QED BY <3>1, <3>2
  <2>4. QED BY <2>1, <2>2, <2>3
<1>10. ASSUME NEW name \in ScreenNames, OpenScreen(name) PROVE AxInv'
  <2> DEFINE d == [name |-> name, role |-> token.role]
  <2>1. d.name = name /\ d.role = token.role /\ token.role \in WorkRoles
    BY <1>10 DEF OpenScreen
  <2>2. d \in [name : ScreenNames \union {"none"}, role : WorkRoles \union {"none"}]
    BY <2>1
  <2>3. /\ display' = d /\ token.role \in ScreenFor[token.role][name].shown
        /\ mine' = mine /\ unclosed' = unclosed /\ console' = console /\ token' = token /\ outdated' = outdated
        /\ axLeft' = axLeft
    BY <1>10 DEF OpenScreen
  <2> HIDE DEF d
  <2>4. AxTypeOK'
    BY <2>2, <2>3, <1>0 DEF AxTypeOK
  <2>5. QED BY <2>1, <2>3, <2>4
<1>11. QED BY <1>2, <1>3, <1>4, <1>5, <1>6, <1>7, <1>8, <1>9, <1>10 DEF AxNext

LEMMA AxInvIsRight == ASSUME AxInv PROVE AccessIsRight
<1>1. GuardsSeeTheDatabase
  <2> SUFFICES ASSUME NEW route \in Routes, LetIn(route)
               PROVE  CASE Rule[route].guard = "none"  -> TRUE
                        [] Rule[route].guard = "super" -> console = "codes"
                        [] OTHER -> console # "no" \/ \E w \in token.space : w \in unclosed /\ mine[w] # "none"
    BY DEF GuardsSeeTheDatabase
  <2>1. Rule[route].guard \in {"none", "user", "tenant", "super"}
    BY RoutesAreGuarded DEF Guarded, Routes
  <2>2. Rule[route].guard = "super" => console = "codes"
    BY <2>1 DEF LetIn, IsSuper
  <2>3. Rule[route].guard \in {"user", "tenant"} => IsUser
    BY <2>1 DEF LetIn
  <2>4. IsUser => console # "no" \/ \E w \in token.space : w \in unclosed /\ mine[w] # "none"
    BY DEF IsUser, Belongs, AxInv
  <2>5. QED BY <2>1, <2>2, <2>3, <2>4
<1>2. RoleLastsAsLongAsTheToken
  BY DEF RoleLastsAsLongAsTheToken, AxInv
<1>3. ScreensWork
  <2> SUFFICES ASSUME display.name # "none", Belongs, display.role = token.role,
                      NEW op \in ScreenFor[display.role][display.name].needs \union ScreenFor[display.role][display.name].offers
               PROVE  LetIn(op) \/ <<display.role, op>> \in KnownGaps
    BY DEF ScreensWork
  <2>1. Serves(display.role, op)
    BY ScreensServed DEF AxInv
  <2>2. IsUser /\ HasContext
    BY DEF IsUser, HasContext, Belongs, AxInv, AxTypeOK
  <2>3. QED BY <2>1, <2>2 DEF Serves, LetIn, HasRole
<1>4. QED BY <1>1, <1>2, <1>3 DEF AccessIsRight

-----------------------------------------------------------------------------
(* Screens: the list is that of the choice, and no answer harms a form.      *)

Somewhere == Places \union {Shared}
Shots == UNION {[D -> Somewhere] : D \in SUBSET Rows}
ScLoad == [of : Selectable, got : {"pending", "rows", "failed"}, rows : Shots, frees : WriteSlots \union {"none"},
           newest : BOOLEAN]
ScForm == [on : Rows \union {"new"}, at : Somewhere, was : Somewhere, typed : BOOLEAN, late : BOOLEAN, astray : BOOLEAN]
ScCall == [on : Rows \union {"new"}, at : Somewhere, was : Somewhere, astray : BOOLEAN, of : Selectable,
           editing : Rows \union {"none", "new"}, got : {"pending", "done", "failed", "reload"}]
ScList == [rows : Shots, of : Selectable, newest : BOOLEAN, late : BOOLEAN, failed : BOOLEAN]
ScTyped ==
  /\ screen \in Screens /\ choice \in Selectable /\ spinner \in BOOLEAN
  /\ row \in [Rows -> [life : {"unborn", "alive", "gone"}, at : Somewhere]]
  /\ list \in ScList /\ loads \in [LoadSlots -> ScLoad \union {NoLoad}]
  /\ form \in ScForm \union {NoForm} /\ writes \in [WriteSlots -> ScCall \union {NoWrite}]

\* A screen that sends the choice along with a save has its rows where the choice is.
WithChoice == "save" \in screen.sends
\* Where a save cannot move a row.
Fixed == ~screen.every /\ ~WithChoice

\* Rows that were answered: they were born, and are where they were then, where none can move.
ShotOK(shot, of) ==
  \A r \in DOMAIN shot :
    /\ row[r].life # "unborn"
    /\ ~screen.every => shot[r] = of
    /\ Fixed => shot[r] = row[r].at

\* Of a form f on a row.
FormFits(f) ==
  f.on \in Rows =>
    /\ "edit" \in screen.does /\ row[f.on].life # "unborn"
    /\ Fixed => f.at = row[f.on].at
    /\ WithChoice /\ ~f.astray => f.was = choice

\* Of a call x from the slot s: what was edited is still what the form is open on, unless
\* the form has noticed the call.
CallFits(s, x) ==
  /\ form = NoForm \/ form.late \/ form.on = x.editing
  /\ x.on \in Rows => row[x.on].life # "unborn"
  /\ s = "save" =>
       /\ x.editing = x.on
       /\ x.on \in Rows => /\ "edit" \in screen.does
                           /\ Fixed => x.at = row[x.on].at
                           /\ WithChoice /\ ~x.astray => x.was = x.of
  /\ s # "save" => x.on \in Rows
  /\ s = "remove" /\ x.got = "done" => row[x.on].life = "gone"

\* The API has done its part of a call, and the screen has yet to hear of it.
Unheard(s) == writes[s] # NoWrite /\ writes[s].got \in {"done", "failed"}
Creating == Unheard("save") /\ writes["save"].on = "new"
Removing(r) == Unheard("remove") /\ writes["remove"].on = r

\* Rows that are up to date, but for the calls that were served.
UpToDate(shot, of) ==
  IF screen.local
  THEN ~Creating => \A r \in Rows : Removing(r) \/ (r \in DOMAIN shot <=> r \in Listed(of))
  ELSE (\A s \in WriteSlots : ~Unheard(s)) => shot = AnswerTo(of)

\* Of a load x.
LoadFits(x) ==
  /\ ShotOK(x.rows, x.of)
  /\ x.newest /\ x.frees = "none" => x.of = choice
  /\ x.newest /\ x.got = "rows" /\ ~list.failed => UpToDate(x.rows, x.of)
  /\ x.frees # "none" => writes[x.frees] # NoWrite /\ writes[x.frees].got = "reload"

ListFits ==
  /\ ShotOK(list.rows, list.of)
  /\ list.newest /\ ~list.late => list.of = choice
  /\ list.newest /\ ~list.failed => UpToDate(list.rows, list.of)

OneReloads ==
  \A n, k \in LoadSlots : loads[n] # NoLoad /\ loads[k] # NoLoad /\ loads[n].frees = loads[k].frees
    /\ loads[n].frees # "none" => n = k

ScInv ==
  /\ ScTyped
  /\ form # NoForm => FormFits(form)
  /\ \A s \in WriteSlots : writes[s] # NoWrite => CallFits(s, writes[s])
  /\ \A n \in LoadSlots : loads[n] # NoLoad => LoadFits(loads[n])
  /\ ListFits
  /\ OneReloads
  /\ harm = {}

LEMMA ScreenTraits ==
  \A s \in Screens : /\ "save" \in s.sends => ~s.every
                     /\ "save" \in s.sends /\ "edit" \in s.does => s.resets
                     /\ s.local => ~s.every /\ "save" \notin s.sends
<1> DEFINE T(s) == /\ "save" \in s.sends => ~s.every
                   /\ "save" \in s.sends /\ "edit" \in s.does => s.resets
                   /\ s.local => ~s.every /\ "save" \notin s.sends
<1>1. T(ScenarioScreen) /\ T(AutomationScreen) /\ T(ArticleScreen) /\ T(DocumentScreen)
  BY DEF ScenarioScreen, AutomationScreen, ArticleScreen, DocumentScreen, Reads
<1>2. T(ReplyScreen) /\ T(CurationScreen) /\ T(ChannelScreen) /\ T(TeamScreen) /\ T(BroadcastScreen)
  BY DEF ReplyScreen, CurationScreen, ChannelScreen, TeamScreen, BroadcastScreen, Reads
<1>3. T(SlipScreen) /\ T(ReportScreen) /\ T(AuditScreen) /\ T(SlipPanelScreen) /\ T(NoteScreen)
  BY DEF SlipScreen, ReportScreen, AuditScreen, SlipPanelScreen, NoteScreen, Reads
<1>4. T(QaScreen) /\ T(TenantScreen) /\ T(IntegrationScreen) /\ T(BackupScreen) /\ T(AiMonitorScreen) /\ T(FlowMonitorScreen)
  BY DEF QaScreen, TenantScreen, IntegrationScreen, BackupScreen, AiMonitorScreen, FlowMonitorScreen, Reads
<1> HIDE DEF T
<1>5. \A s \in Screens : T(s)
  BY <1>1, <1>2, <1>3, <1>4 DEF Screens
<1>6. QED BY <1>5 DEF T

LEMMA ShotIs == \A f : f \in Shots <=> \E D \in SUBSET Rows : f \in [D -> Somewhere]
BY DEF Shots

LEMMA EmptyShot == <<>> \in Shots /\ DOMAIN <<>> = {}
<1>1. <<>> \in [{} -> Somewhere] /\ DOMAIN <<>> = {}
  OBVIOUS
<1>2. QED BY <1>1, ShotIs

LEMMA ShotIsTyped ==
  ASSUME NEW f \in Shots
  PROVE  /\ DOMAIN f \subseteq Rows /\ \A r \in DOMAIN f : f[r] \in Somewhere
         /\ \A r : Dropping(f, r) \in Shots
<1>1. PICK D \in SUBSET Rows : f \in [D -> Somewhere]
  BY ShotIs
<1>2. ASSUME NEW r PROVE Dropping(f, r) \in Shots
  <2>1. Dropping(f, r) \in [D \ {r} -> Somewhere]
    BY <1>1 DEF Dropping
  <2>2. D \ {r} \in SUBSET Rows
    BY <1>1
  <2>3. QED BY <2>1, <2>2, ShotIs
<1>3. QED BY <1>1, <1>2

LEMMA AnswerIsTyped ==
  ASSUME row \in [Rows -> [life : {"unborn", "alive", "gone"}, at : Somewhere]]
  PROVE  \A of : AnswerTo(of) \in Shots /\ DOMAIN AnswerTo(of) = Listed(of) /\ Listed(of) \subseteq Rows
<1> TAKE of
<1>1. Listed(of) \in SUBSET Rows
  BY DEF Listed
<1>2. AnswerTo(of) \in [Listed(of) -> Somewhere]
  BY <1>1 DEF AnswerTo
<1>3. QED BY <1>1, <1>2, ShotIs DEF AnswerTo

\* What a slot holds tells it from an empty one.
LEMMA TellsApart ==
  /\ \A x \in ScLoad : x # NoLoad
  /\ \A x \in ScForm : x # NoForm
  /\ \A x \in ScCall : x # NoWrite
  /\ NoForm.on = "none" /\ NoLoad.got = "none" /\ NoWrite.on = "none"
<1>1. NoForm.on = "none" /\ NoLoad.got = "none" /\ NoWrite.on = "none"
  BY DEF NoForm, NoLoad, NoWrite
<1>2. "none" \notin Rows
  BY ScreensAssumption
<1>3. \A x \in ScLoad : x.got # "none"
  BY DEF ScLoad
<1>4. \A x \in ScForm : x.on # "none"
  BY <1>2 DEF ScForm
<1>5. \A x \in ScCall : x.on # "none"
  BY <1>2 DEF ScCall
<1>6. QED BY <1>1, <1>3, <1>4, <1>5

\* The slot a load takes.
LEMMA NextLoadIsFree == ASSUME FreeLoads # {} PROVE NextLoad \in LoadSlots /\ loads[NextLoad] = NoLoad
<1>1. FreeLoads \subseteq 1..3
  BY DEF FreeLoads, LoadSlots
<1>2. \E n \in FreeLoads : \A k \in FreeLoads : n <= k
  <2>1. CASE 1 \in FreeLoads
    BY <2>1, <1>1
  <2>2. CASE 1 \notin FreeLoads /\ 2 \in FreeLoads
    BY <2>2, <1>1
  <2>3. CASE 1 \notin FreeLoads /\ 2 \notin FreeLoads
    <3>1. \A k \in FreeLoads : k = 3
      BY <2>3, <1>1
    <3>2. QED BY <3>1
  <2>4. QED BY <2>1, <2>2, <2>3
<1>3. NextLoad \in FreeLoads
  BY <1>2 DEF NextLoad
<1>4. QED BY <1>3 DEF FreeLoads

\* The load a screen has begun, in the slot m: those before are older, and the list awaits it.
StartsToLoad(m, of, frees) ==
  /\ m \in LoadSlots /\ loads[m] = NoLoad
  /\ loads' \in [LoadSlots -> ScLoad \union {NoLoad}]
  /\ loads'[m] # NoLoad /\ loads'[m].of = of /\ loads'[m].got = "pending" /\ loads'[m].rows = <<>>
  /\ loads'[m].frees = frees
  /\ \A n \in LoadSlots : n # m =>
       IF loads[n] = NoLoad THEN loads'[n] = NoLoad
       ELSE /\ loads'[n] # NoLoad /\ ~loads'[n].newest
            /\ loads'[n].of = loads[n].of /\ loads'[n].rows = loads[n].rows /\ loads'[n].frees = loads[n].frees
            /\ loads'[n].got = loads[n].got
  /\ list' \in ScList /\ list'.rows = list.rows /\ list'.of = list.of /\ ~list'.newest /\ ~list'.failed

LEMMA OlderIsTyped ==
  ASSUME NEW x \in ScLoad
  PROVE  LET y == [x EXCEPT !.newest = FALSE] IN
         /\ y \in ScLoad /\ ~y.newest /\ y.of = x.of /\ y.rows = x.rows /\ y.frees = x.frees /\ y.got = x.got
BY DEF ScLoad

LEMMA LoadBegins ==
  ASSUME loads \in [LoadSlots -> ScLoad \union {NoLoad}], list \in ScList,
         NEW of \in Selectable, NEW frees \in WriteSlots \union {"none"}, Load(of, frees)
  PROVE  \E m \in LoadSlots : StartsToLoad(m, of, frees)
<1> DEFINE new == [of |-> of, got |-> "pending", rows |-> <<>>, frees |-> frees, newest |-> TRUE]
           Old(x) == [x EXCEPT !.newest = FALSE]
           m == NextLoad
<1>1. /\ new \in ScLoad /\ new.of = of /\ new.got = "pending" /\ new.rows = <<>> /\ new.frees = frees
  BY EmptyShot DEF ScLoad
<1>2. m \in LoadSlots /\ loads[m] = NoLoad
  BY NextLoadIsFree DEF Load
<1>3. loads' = [[n \in LoadSlots |-> IF loads[n] = NoLoad THEN NoLoad ELSE Old(loads[n])] EXCEPT ![m] = new]
  BY DEF Load, Loading
<1>4. /\ loads'[m] = new
      /\ \A n \in LoadSlots : n # m => loads'[n] = IF loads[n] = NoLoad THEN NoLoad ELSE Old(loads[n])
      /\ DOMAIN loads' = LoadSlots /\ loads' = [n \in LoadSlots |-> loads'[n]]
  <2> HIDE DEF new, Old, m
  <2>1. QED BY <1>2, <1>3
<1>5. \A x \in ScLoad : /\ Old(x) \in ScLoad /\ ~Old(x).newest /\ Old(x).of = x.of /\ Old(x).rows = x.rows
                        /\ Old(x).frees = x.frees /\ Old(x).got = x.got
  BY OlderIsTyped
<1>6. list' \in ScList /\ list'.rows = list.rows /\ list'.of = list.of /\ ~list'.newest /\ ~list'.failed
  <2>1. list' = [list EXCEPT !.newest = FALSE, !.failed = FALSE]
    BY DEF Load
  <2>2. QED BY <2>1 DEF ScList
<1> HIDE DEF new, Old, m
<1>7. \A n \in LoadSlots : loads[n] = NoLoad \/ loads[n] \in ScLoad
  OBVIOUS
<1>8. \A n \in LoadSlots : loads'[n] \in ScLoad \union {NoLoad}
  BY <1>1, <1>4, <1>5, <1>7
<1>9. \A n \in LoadSlots : n # m =>
       IF loads[n] = NoLoad THEN loads'[n] = NoLoad
       ELSE /\ loads'[n] # NoLoad /\ ~loads'[n].newest
            /\ loads'[n].of = loads[n].of /\ loads'[n].rows = loads[n].rows /\ loads'[n].frees = loads[n].frees
            /\ loads'[n].got = loads[n].got
  BY <1>4, <1>5, <1>7, TellsApart
<1>10. loads'[m] # NoLoad
  BY <1>1, <1>4, TellsApart
<1>11. StartsToLoad(m, of, frees)
  BY <1>1, <1>2, <1>4, <1>6, <1>8, <1>9, <1>10 DEF StartsToLoad
<1>12. QED BY <1>11, <1>2

LEMMA ScreensStart == ASSUME ScInit PROVE ScInv
<1> DEFINE new == [of |-> choice, got |-> "pending", rows |-> <<>>, frees |-> "none", newest |-> TRUE]
           blank == [rows |-> <<>>, of |-> choice, newest |-> FALSE, late |-> FALSE, failed |-> FALSE]
<1>1. choice \in Selectable
  BY ScreensAssumption DEF ScInit, Selectable
<1>2. new \in ScLoad /\ new.rows = <<>> /\ new.of = choice /\ new.got = "pending" /\ new.frees = "none"
  BY <1>1, EmptyShot DEF ScLoad
<1>3. blank \in ScList /\ blank.rows = <<>> /\ ~blank.newest
  BY <1>1, EmptyShot DEF ScList
<1>4. /\ loads = [n \in LoadSlots |-> IF n = 1 THEN new ELSE NoLoad]
      /\ list = blank /\ form = NoForm /\ writes = [s \in WriteSlots |-> NoWrite] /\ harm = {}
  BY DEF ScInit
<1> HIDE DEF new, blank
<1>5. ScTyped
  <2>1. row \in [Rows -> [life : {"unborn", "alive", "gone"}, at : Somewhere]]
    BY DEF ScInit, Somewhere
  <2>2. screen \in Screens /\ spinner \in BOOLEAN
    BY DEF ScInit
  <2>3. loads \in [LoadSlots -> ScLoad \union {NoLoad}] /\ writes \in [WriteSlots -> ScCall \union {NoWrite}]
    BY <1>2, <1>4
  <2>4. QED BY <1>1, <1>3, <1>4, <2>1, <2>2, <2>3 DEF ScTyped
<1>6. \A of : ShotOK(<<>>, of)
  BY EmptyShot DEF ShotOK
<1>7. \A n \in LoadSlots : loads[n] # NoLoad => n = 1 /\ loads[n] = new
  BY <1>4
<1>8. \A n \in LoadSlots : loads[n] # NoLoad => LoadFits(loads[n])
  BY <1>2, <1>6, <1>7 DEF LoadFits
<1>9. ListFits
  BY <1>3, <1>4, <1>6 DEF ListFits
<1>10. OneReloads
  BY <1>7 DEF OneReloads
<1>11. QED BY <1>4, <1>5, <1>8, <1>9, <1>10 DEF ScInv

-----------------------------------------------------------------------------
(* What an action leaves alone. *)

LEMMA AnswersStay ==
  ASSUME screen' = screen, row' = row
  PROVE  /\ \A of : Listed(of)' = Listed(of) /\ AnswerTo(of)' = AnswerTo(of)
         /\ \A shot, of : ShotOK(shot, of) => ShotOK(shot, of)'
<1>1. \A of : Listed(of)' = Listed(of)
  BY DEF Listed, Alive
<1>2. \A of : AnswerTo(of)' = AnswerTo(of)
  BY <1>1 DEF AnswerTo
<1>3. \A shot, of : ShotOK(shot, of) => ShotOK(shot, of)'
  BY DEF ShotOK, Fixed, WithChoice
<1>4. QED BY <1>1, <1>2, <1>3

\* The calls that were served stay those that were.
SameUnheard ==
  /\ \A s \in WriteSlots : Unheard(s)' => Unheard(s)
  /\ \A s \in WriteSlots : Unheard(s) => Unheard(s)'
  /\ Creating => Creating'
  /\ \A r \in Rows : Removing(r) => Removing(r)'

LEMMA UpToDateStays ==
  ASSUME screen' = screen, row' = row, SameUnheard
  PROVE  \A shot, of : UpToDate(shot, of) => UpToDate(shot, of)'
<1> TAKE shot, of
<1> SUFFICES ASSUME UpToDate(shot, of) PROVE UpToDate(shot, of)'
  OBVIOUS
<1>1. CASE screen.local
  <2> SUFFICES ASSUME ~Creating', NEW r \in Rows PROVE Removing(r)' \/ (r \in DOMAIN shot <=> r \in Listed(of)')
    BY <1>1 DEF UpToDate
  <2>1. ~Creating
    BY DEF SameUnheard
  <2>2. Removing(r) \/ (r \in DOMAIN shot <=> r \in Listed(of))
    BY <1>1, <2>1 DEF UpToDate
  <2>3. QED BY <2>2, AnswersStay DEF SameUnheard
<1>2. CASE ~screen.local
  <2> SUFFICES ASSUME \A s \in WriteSlots : ~Unheard(s)' PROVE shot = AnswerTo(of)'
    BY <1>2 DEF UpToDate
  <2>1. \A s \in WriteSlots : ~Unheard(s)
    BY DEF SameUnheard
  <2>2. shot = AnswerTo(of)
    BY <1>2, <2>1 DEF UpToDate
  <2>3. QED BY <2>2, AnswersStay
<1>3. QED BY <1>1, <1>2

LEMMA TypesStay ==
  ASSUME screen' = screen
  PROVE  Selectable' = Selectable /\ ScLoad' = ScLoad /\ ScList' = ScList /\ ScCall' = ScCall
<1>1. Selectable' = Selectable
  BY DEF Selectable
<1>2. QED BY <1>1 DEF ScLoad, ScList, ScCall

\* The form changes, and nothing else.
LEMMA FormMayChange ==
  ASSUME ScInv, UNCHANGED <<screen, row, choice, list, spinner, loads, writes, harm>>,
         form' \in ScForm \union {NoForm}, form' # NoForm => FormFits(form'),
         \A s \in WriteSlots : writes[s] # NoWrite => form' = NoForm \/ form'.late \/ form'.on = writes[s].editing
  PROVE  ScInv'
<1>1. ScTyped'
  BY TypesStay DEF ScInv, ScTyped
<1>2. (form # NoForm => FormFits(form))'
  BY DEF FormFits, Fixed, WithChoice
<1>3. (\A s \in WriteSlots : writes[s] # NoWrite => CallFits(s, writes[s]))'
  BY DEF ScInv, CallFits, Fixed, WithChoice
<1>4. \A shot, of : UpToDate(shot, of) => UpToDate(shot, of)'
  BY UpToDateStays DEF SameUnheard, Unheard, Creating, Removing
<1>5. (\A n \in LoadSlots : loads[n] # NoLoad => LoadFits(loads[n]))'
  <2> SUFFICES ASSUME NEW n \in LoadSlots, loads[n] # NoLoad PROVE LoadFits(loads[n])'
    OBVIOUS
  <2>1. LoadFits(loads[n])
    BY DEF ScInv
  <2>2. QED BY <2>1, <1>4, AnswersStay DEF LoadFits
<1>6. ListFits'
  BY <1>4, AnswersStay DEF ScInv, ListFits
<1>7. QED BY <1>1, <1>2, <1>3, <1>5, <1>6 DEF ScInv, OneReloads

\* A call is pressed, and nothing else.
LEMMA CallMayStart ==
  ASSUME ScInv, UNCHANGED <<screen, row, choice, list, spinner, loads, form, harm>>,
         NEW slot \in WriteSlots, NEW x \in ScCall, writes[slot] = NoWrite, x.got = "pending", CallFits(slot, x),
         writes' = [writes EXCEPT ![slot] = x]
  PROVE  ScInv'
<1>1. /\ writes'[slot] = x /\ \A s \in WriteSlots : s # slot => writes'[s] = writes[s]
      /\ writes' \in [WriteSlots -> ScCall \union {NoWrite}]
  BY DEF ScInv, ScTyped
<1>2. ScTyped'
  BY <1>1, TypesStay DEF ScInv, ScTyped
<1>3. (form # NoForm => FormFits(form))'
  BY DEF ScInv, FormFits, Fixed, WithChoice
<1>4. (\A s \in WriteSlots : writes[s] # NoWrite => CallFits(s, writes[s]))'
  <2>1. \A s, y : CallFits(s, y) => CallFits(s, y)'
    BY DEF CallFits, Fixed, WithChoice
  <2>2. QED BY <2>1, <1>1 DEF ScInv
<1>5. SameUnheard
  <2>1. \A s \in WriteSlots : Unheard(s)' <=> Unheard(s)
    BY <1>1 DEF Unheard
  <2>2. \A s \in WriteSlots : Unheard(s) => writes'[s] = writes[s]
    BY <1>1 DEF Unheard
  <2>3. "save" \in WriteSlots /\ "remove" \in WriteSlots
    BY DEF WriteSlots
  <2>4. QED BY <2>1, <2>2, <2>3 DEF SameUnheard, Creating, Removing
<1>6. \A shot, of : UpToDate(shot, of) => UpToDate(shot, of)'
  BY <1>5, UpToDateStays
<1>7. (\A n \in LoadSlots : loads[n] # NoLoad => LoadFits(loads[n]))'
  <2> SUFFICES ASSUME NEW n \in LoadSlots, loads[n] # NoLoad PROVE LoadFits(loads[n])'
    OBVIOUS
  <2>1. LoadFits(loads[n]) /\ loads[n] \in ScLoad
    BY DEF ScInv, ScTyped
  <2>2. loads[n].frees \in WriteSlots \union {"none"}
    BY <2>1 DEF ScLoad
  <2>3. QED BY <2>1, <2>2, <1>1, <1>6, AnswersStay DEF LoadFits
<1>8. ListFits'
  BY <1>6, AnswersStay DEF ScInv, ListFits
<1>9. QED BY <1>2, <1>3, <1>4, <1>7, <1>8 DEF ScInv, OneReloads

-----------------------------------------------------------------------------
(* The form and the calls. *)

LEMMA FormSteps ==
  ASSUME ScInv, \/ OpenNew \/ CloseForm
                \/ \E at \in Places \union {Shared} : Type(at)
                \/ \E r \in Rows : OpenRow(r)
  PROVE  ScInv'
<1>1. form \in ScForm \union {NoForm} /\ list \in ScList /\ screen \in Screens
  BY DEF ScInv, ScTyped
<1>2. \A s \in WriteSlots : writes[s] # NoWrite => Busy
  BY DEF Busy
<1>3. Busy \in BOOLEAN /\ Shared \in Somewhere /\ {"none", "new"} \cap Rows = {}
  BY ScreensAssumption DEF Busy, Somewhere
<1>4. ASSUME OpenNew PROVE ScInv'
  <2> DEFINE f == [on |-> "new", at |-> Shared, was |-> Shared, typed |-> FALSE, late |-> Busy, astray |-> FALSE]
  <2>1. f \in ScForm /\ f.on = "new" /\ f.late = Busy
    BY <1>3 DEF ScForm
  <2>2. form' = f /\ UNCHANGED <<screen, row, choice, list, spinner, loads, writes, harm>>
    BY <1>4 DEF OpenNew
  <2> HIDE DEF f
  <2>3. FormFits(form')
    BY <2>1, <2>2, <1>3 DEF FormFits
  <2>4. QED BY <2>1, <2>2, <2>3, <1>2, FormMayChange
<1>5. ASSUME CloseForm PROVE ScInv'
  BY <1>5, FormMayChange DEF CloseForm
<1>6. ASSUME NEW at \in Places \union {Shared}, Type(at) PROVE ScInv'
  <2> DEFINE f == [form EXCEPT !.at = at, !.typed = TRUE, !.late = @ \/ Busy]
  <2>1. form # NoForm /\ form \in ScForm /\ FormFits(form)
    BY <1>1, <1>6 DEF Type, ScInv
  <2>2. /\ f \in ScForm /\ f.on = form.on /\ f.at = at /\ f.was = form.was /\ f.astray = form.astray
        /\ f.late = (form.late \/ Busy)
    BY <2>1, <1>3 DEF ScForm, Somewhere
  <2>3. form' = f /\ UNCHANGED <<screen, row, choice, list, spinner, loads, writes, harm>>
    BY <1>6 DEF Type
  <2>4. Fixed => at = form.at
    BY <1>6 DEF Type, Fixed
  <2> HIDE DEF f
  <2>5. FormFits(form')
    BY <2>1, <2>2, <2>3, <2>4 DEF FormFits
  <2>6. QED BY <2>2, <2>3, <2>5, <1>2, FormMayChange
<1>7. ASSUME NEW r \in Rows, OpenRow(r) PROVE ScInv'
  <2> DEFINE f == [on |-> r, at |-> list.rows[r], was |-> list.rows[r], typed |-> FALSE, late |-> Busy,
                   astray |-> list.of # choice]
  <2>1. "edit" \in screen.does /\ r \in DOMAIN list.rows
    BY <1>7 DEF OpenRow, OnScreen
  <2>2. list.rows[r] \in Somewhere /\ ShotOK(list.rows, list.of)
    BY <2>1, <1>1, ShotIsTyped DEF ScList, ScInv, ListFits
  <2>3. f \in ScForm /\ f.on = r /\ f.at = list.rows[r] /\ f.was = list.rows[r] /\ f.late = Busy /\ f.astray = (list.of # choice)
    BY <2>2, <1>3 DEF ScForm
  <2>4. form' = f /\ UNCHANGED <<screen, row, choice, list, spinner, loads, writes, harm>>
    BY <1>7 DEF OpenRow
  <2> HIDE DEF f
  <2>5. WithChoice => ~screen.every
    BY <1>1, ScreenTraits DEF WithChoice
  <2>6. FormFits(form')
    BY <2>1, <2>2, <2>3, <2>4, <2>5 DEF FormFits, ShotOK
  <2>7. QED BY <2>3, <2>4, <2>6, <1>2, FormMayChange
<1>8. QED BY <1>4, <1>5, <1>6, <1>7

LEMMA PressSteps ==
  ASSUME ScInv, PressSave \/ \E r \in Rows : PressDelete(r) \/ PressAct(r)
  PROVE  ScInv'
<1>1. /\ form \in ScForm \union {NoForm} /\ choice \in Selectable /\ form.on \in Rows \union {"none", "new"}
      /\ Shared \in Somewhere
  BY TellsApart DEF ScInv, ScTyped, ScForm, Somewhere
<1>2. \A on, at, was, astray :
        LET x == Pressed(on, at, was, astray) IN
        /\ x.on = on /\ x.at = at /\ x.was = was /\ x.astray = astray /\ x.of = choice /\ x.editing = form.on
        /\ x.got = "pending"
        /\ on \in Rows \union {"new"} /\ at \in Somewhere /\ was \in Somewhere /\ astray \in BOOLEAN => x \in ScCall
  BY <1>1 DEF Pressed, ScCall
<1>3. \A slot, x : Presses(slot, x) =>
        /\ UNCHANGED <<screen, row, choice, list, spinner, loads, form, harm>>
        /\ writes[slot] = NoWrite /\ writes' = [writes EXCEPT ![slot] = x]
  BY DEF Presses
<1>4. ASSUME PressSave PROVE ScInv'
  <2> DEFINE x == Pressed(form.on, form.at, form.was, form.astray)
  <2>1. form # NoForm /\ form \in ScForm
    BY <1>1, <1>4, TellsApart DEF PressSave
  <2>2. FormFits(form) /\ Presses("save", x)
    BY <2>1, <1>4 DEF PressSave, ScInv
  <2>3. form.on \in Rows \union {"new"} /\ form.at \in Somewhere /\ form.was \in Somewhere /\ form.astray \in BOOLEAN
    BY <2>1 DEF ScForm
  <2>4. /\ x \in ScCall /\ x.on = form.on /\ x.at = form.at /\ x.was = form.was /\ x.astray = form.astray
        /\ x.of = choice /\ x.editing = form.on /\ x.got = "pending"
    BY <2>3, <1>2
  <2> HIDE DEF x
  <2>5. CallFits("save", x)
    BY <2>2, <2>4 DEF CallFits, FormFits
  <2>6. "save" \in WriteSlots
    BY DEF WriteSlots
  <2>7. QED BY <2>2, <2>4, <2>5, <2>6, <1>3, CallMayStart
<1>5. ASSUME NEW r \in Rows, PressDelete(r) \/ PressAct(r) PROVE ScInv'
  <2> DEFINE x == Pressed(r, Shared, Shared, FALSE)
  <2>1. PICK slot \in {"remove", "act"} : Presses(slot, x) /\ OnScreen(r)
    BY <1>5 DEF PressDelete, PressAct
  <2>2. x \in ScCall /\ x.on = r /\ x.editing = form.on /\ x.got = "pending"
    BY <1>1 DEF Pressed, ScCall
  <2> HIDE DEF x
  <2>3. row[r].life # "unborn"
    BY <2>1 DEF OnScreen, ScInv, ListFits, ShotOK
  <2>4. CallFits(slot, x)
    BY <2>1, <2>2, <2>3 DEF CallFits
  <2>5. slot \in WriteSlots
    BY DEF WriteSlots
  <2>6. QED BY <2>1, <2>2, <2>4, <2>5, <1>3, CallMayStart
<1>6. QED BY <1>4, <1>5

-----------------------------------------------------------------------------
(* The loads. *)

\* What a load that begins leaves of the others, and of the list.
LEMMA LoadMayBegin ==
  ASSUME ScInv, screen' = screen, row' = row, NEW of, NEW frees, NEW m, StartsToLoad(m, of, frees),
         frees = "none" => of = choice',
         frees # "none" => writes'[frees] # NoWrite /\ writes'[frees].got = "reload",
         \A n \in LoadSlots : loads[n] # NoLoad /\ loads[n].frees # "none" =>
            /\ loads[n].frees # frees
            /\ writes'[loads[n].frees] # NoWrite /\ writes'[loads[n].frees].got = "reload"
  PROVE  /\ (\A n \in LoadSlots : loads[n] # NoLoad => LoadFits(loads[n]))'
         /\ ListFits' /\ OneReloads'
<1>1. (\A n \in LoadSlots : loads[n] # NoLoad => LoadFits(loads[n]))'
  <2> SUFFICES ASSUME NEW n \in LoadSlots, loads'[n] # NoLoad PROVE LoadFits(loads[n])'
    OBVIOUS
  <2>1. CASE n = m
    <3>1. ShotOK(loads[n].rows, loads[n].of)'
      BY <2>1, EmptyShot DEF StartsToLoad, ShotOK
    <3>2. QED BY <2>1, <3>1 DEF StartsToLoad, LoadFits
  <2>2. CASE n # m
    <3>1. /\ loads[n] # NoLoad /\ ~loads'[n].newest /\ loads'[n].of = loads[n].of /\ loads'[n].rows = loads[n].rows
          /\ loads'[n].frees = loads[n].frees
      BY <2>2 DEF StartsToLoad
    <3>2. ShotOK(loads[n].rows, loads[n].of)
      BY <3>1 DEF ScInv, LoadFits
    <3>3. ShotOK(loads[n].rows, loads[n].of)'
      BY <3>1, <3>2, AnswersStay
    <3>4. QED BY <3>1, <3>3 DEF LoadFits
  <2>3. QED BY <2>1, <2>2
<1>2. ListFits'
  <2>1. ShotOK(list.rows, list.of)'
    BY AnswersStay DEF ScInv, ListFits, StartsToLoad
  <2>2. QED BY <2>1 DEF ListFits, StartsToLoad
<1>3. OneReloads'
  <2> SUFFICES ASSUME NEW n \in LoadSlots, NEW k \in LoadSlots, loads'[n] # NoLoad, loads'[k] # NoLoad,
                      loads'[n].frees = loads'[k].frees, loads'[n].frees # "none"
               PROVE  n = k
    BY DEF OneReloads
  <2>1. \A i \in LoadSlots : i # m /\ loads'[i] # NoLoad => loads[i] # NoLoad /\ loads'[i].frees = loads[i].frees
    BY DEF StartsToLoad
  <2>2. loads'[m].frees = frees
    BY DEF StartsToLoad
  <2>3. QED BY <2>1, <2>2 DEF ScInv, OneReloads
<1>4. QED BY <1>1, <1>2, <1>3

LEMMA ChooseStep == ASSUME ScInv, NEW c \in Selectable, Choose(c) PROVE ScInv'
<1>1. /\ choice' = c /\ spinner' = TRUE /\ Load(c, "none") /\ form' = IF screen.resets THEN NoForm ELSE form
      /\ screen' = screen /\ row' = row /\ writes' = writes /\ harm' = harm
  BY DEF Choose
<1>2. PICK m \in LoadSlots : StartsToLoad(m, c, "none")
  BY <1>1, LoadBegins DEF ScInv, ScTyped
<1>3. \A n \in LoadSlots : loads[n] # NoLoad /\ loads[n].frees # "none" =>
         writes[loads[n].frees] # NoWrite /\ writes[loads[n].frees].got = "reload"
  BY DEF ScInv, LoadFits
<1>4. /\ (\A n \in LoadSlots : loads[n] # NoLoad => LoadFits(loads[n]))'
      /\ ListFits' /\ OneReloads'
  BY <1>1, <1>2, <1>3, LoadMayBegin
<1>5. ScTyped'
  BY <1>1, <1>2, TypesStay DEF ScInv, ScTyped, StartsToLoad
<1>6. (form # NoForm => FormFits(form))'
  <2> SUFFICES ASSUME form' # NoForm PROVE FormFits(form)'
    OBVIOUS
  <2>1. form' = form /\ ~screen.resets /\ FormFits(form)
    BY <1>1 DEF ScInv
  <2>2. "edit" \in screen.does => ~WithChoice
    BY <2>1, ScreenTraits DEF WithChoice, ScInv, ScTyped
  <2>3. QED BY <1>1, <2>1, <2>2 DEF FormFits, Fixed, WithChoice
<1>7. (\A s \in WriteSlots : writes[s] # NoWrite => CallFits(s, writes[s]))'
  BY <1>1 DEF ScInv, CallFits, Fixed, WithChoice
<1>8. QED BY <1>1, <1>4, <1>5, <1>6, <1>7 DEF ScInv

LEMMA PollStep == ASSUME ScInv, Poll PROVE ScInv'
<1>1. /\ Load(choice, "none") /\ choice' = choice /\ spinner' = spinner /\ form' = form
      /\ screen' = screen /\ row' = row /\ writes' = writes /\ harm' = harm
  BY DEF Poll
<1>2. PICK m \in LoadSlots : StartsToLoad(m, choice, "none")
  BY <1>1, LoadBegins DEF ScInv, ScTyped
<1>3. \A n \in LoadSlots : loads[n] # NoLoad /\ loads[n].frees # "none" =>
         writes[loads[n].frees] # NoWrite /\ writes[loads[n].frees].got = "reload"
  BY DEF ScInv, LoadFits
<1>4. /\ (\A n \in LoadSlots : loads[n] # NoLoad => LoadFits(loads[n]))'
      /\ ListFits' /\ OneReloads'
  BY <1>1, <1>2, <1>3, LoadMayBegin
<1>5. ScTyped'
  BY <1>1, <1>2, TypesStay DEF ScInv, ScTyped, StartsToLoad
<1>6. (form # NoForm => FormFits(form))'
  BY <1>1 DEF ScInv, FormFits, Fixed, WithChoice
<1>7. (\A s \in WriteSlots : writes[s] # NoWrite => CallFits(s, writes[s]))'
  BY <1>1 DEF ScInv, CallFits, Fixed, WithChoice
<1>8. QED BY <1>1, <1>4, <1>5, <1>6, <1>7 DEF ScInv

LEMMA ServeLoadStep == ASSUME ScInv, NEW n \in LoadSlots, ServeLoad(n) PROVE ScInv'
<1> DEFINE x == loads[n]
           answered == [x EXCEPT !.got = "rows", !.rows = AnswerTo(x.of)]
           refused == [x EXCEPT !.got = "failed"]
<1>1. /\ x.got = "pending" /\ UNCHANGED <<screen, row, choice, list, spinner, form, writes, harm>>
      /\ \/ loads' = [loads EXCEPT ![n] = answered]
         \/ loads' = [loads EXCEPT ![n] = refused]
  BY DEF ServeLoad
<1>2. x # NoLoad /\ x \in ScLoad /\ LoadFits(x)
  BY <1>1, TellsApart DEF ScInv, ScTyped
<1>3. AnswerTo(x.of) \in Shots /\ DOMAIN AnswerTo(x.of) = Listed(x.of) /\ Listed(x.of) \subseteq Rows
  BY AnswerIsTyped DEF ScInv, ScTyped
<1>4. PICK y \in ScLoad :
        /\ loads' = [loads EXCEPT ![n] = y] /\ y.of = x.of /\ y.frees = x.frees /\ y.newest = x.newest
        /\ \/ y.got = "rows" /\ y.rows = AnswerTo(x.of)
           \/ y.got = "failed" /\ y.rows = x.rows
  <2>1. /\ answered \in ScLoad /\ answered.of = x.of /\ answered.frees = x.frees /\ answered.newest = x.newest
        /\ answered.got = "rows" /\ answered.rows = AnswerTo(x.of)
    <3> DEFINE shot == AnswerTo(x.of)
    <3> HIDE DEF shot, x
    <3>1. shot \in Shots /\ x \in ScLoad
      BY <1>2, <1>3 DEF shot
    <3>2. [x EXCEPT !.got = "rows", !.rows = shot] \in ScLoad
      BY <3>1 DEF ScLoad
    <3>3. answered = [x EXCEPT !.got = "rows", !.rows = shot]
      BY DEF shot
    <3>4. /\ answered.of = x.of /\ answered.frees = x.frees /\ answered.newest = x.newest
          /\ answered.got = "rows" /\ answered.rows = shot
      BY <3>1, <3>3 DEF ScLoad
    <3>5. QED BY <3>2, <3>3, <3>4 DEF shot
  <2>2. /\ refused \in ScLoad /\ refused.of = x.of /\ refused.frees = x.frees /\ refused.newest = x.newest
        /\ refused.got = "failed" /\ refused.rows = x.rows
    BY <1>2 DEF ScLoad
  <2> HIDE DEF answered, refused, x
  <2>3. QED BY <2>1, <2>2, <1>1
<1> HIDE DEF answered, refused
<1>5. /\ loads'[n] = y /\ \A k \in LoadSlots : k # n => loads'[k] = loads[k]
      /\ loads' \in [LoadSlots -> ScLoad \union {NoLoad}]
  BY <1>4 DEF ScInv, ScTyped
<1>6. ScTyped'
  BY <1>1, <1>5, TypesStay DEF ScInv, ScTyped
<1>7. \A shot, of : UpToDate(shot, of) => UpToDate(shot, of)'
  BY <1>1, UpToDateStays DEF SameUnheard, Unheard, Creating, Removing
<1>8. LoadFits(y)
  <2>1. CASE y.got = "rows" /\ y.rows = AnswerTo(x.of)
    <3>1. ShotOK(y.rows, y.of)
      <4> SUFFICES ASSUME NEW r \in Listed(x.of)
                   PROVE  /\ row[r].life # "unborn" /\ (~screen.every => AnswerTo(x.of)[r] = x.of)
                          /\ AnswerTo(x.of)[r] = row[r].at
        BY <1>3, <1>4, <2>1 DEF ShotOK
      <4>1. AnswerTo(x.of)[r] = row[r].at
        BY DEF AnswerTo
      <4>2. row[r].life # "unborn"
        BY DEF Listed, Alive
      <4>3. ASSUME ~screen.every PROVE row[r].at = x.of
        <5>1. x.of \in Places /\ Everywhere \notin Places
          BY <4>3, <1>2, ScreensAssumption DEF ScLoad, Selectable, Everywhere
        <5>2. QED BY <4>3, <5>1 DEF Listed
      <4>4. QED BY <4>1, <4>2, <4>3
    <3>2. UpToDate(y.rows, y.of)
      BY <2>1, <1>3, <1>4 DEF UpToDate
    <3>3. QED BY <3>1, <3>2, <1>2, <1>4 DEF LoadFits
  <2>2. CASE y.got = "failed" /\ y.rows = x.rows
    BY <2>2, <1>2, <1>4 DEF LoadFits
  <2>3. QED BY <2>1, <2>2, <1>4
<1>9. (\A k \in LoadSlots : loads[k] # NoLoad => LoadFits(loads[k]))'
  <2>1. \A z : LoadFits(z) => LoadFits(z)'
    BY <1>1, <1>7, AnswersStay DEF LoadFits
  <2>2. \A k \in LoadSlots : loads'[k] # NoLoad => LoadFits(loads'[k])
    BY <1>5, <1>8 DEF ScInv
  <2>3. QED BY <2>1, <2>2
<1>10. ListFits'
  BY <1>1, <1>7, AnswersStay DEF ScInv, ListFits
<1>11. OneReloads'
  <2>1. \A k \in LoadSlots : loads'[k] # NoLoad => loads[k] # NoLoad /\ loads'[k].frees = loads[k].frees
    BY <1>2, <1>4, <1>5
  <2>2. QED BY <2>1 DEF ScInv, OneReloads
<1>12. (form # NoForm => FormFits(form))'
  BY <1>1 DEF ScInv, FormFits, Fixed, WithChoice
<1>13. (\A s \in WriteSlots : writes[s] # NoWrite => CallFits(s, writes[s]))'
  BY <1>1 DEF ScInv, CallFits, Fixed, WithChoice
<1>14. QED BY <1>1, <1>6, <1>9, <1>10, <1>11, <1>12, <1>13 DEF ScInv

LEMMA LandLoadStep == ASSUME ScInv, NEW n \in LoadSlots, LandLoad(n) PROVE ScInv'
<1>0. PICK x : x = loads[n]
  OBVIOUS
<1>1. /\ x # NoLoad /\ x.got # "pending" /\ UNCHANGED <<screen, row, choice, form, harm>>
      /\ list' = Shows(x) /\ spinner' = FALSE /\ loads' = [loads EXCEPT ![n] = NoLoad]
      /\ writes' = [s \in WriteSlots |-> IF s = x.frees THEN NoWrite ELSE writes[s]]
  BY <1>0 DEF LandLoad
<1>2. /\ x \in ScLoad /\ LoadFits(x) /\ list \in ScList /\ ListFits
      /\ x.rows \in Shots /\ x.of \in Selectable /\ x.newest \in BOOLEAN /\ x.got \in {"pending", "rows", "failed"}
  <2>1. x \in ScLoad /\ LoadFits(x) /\ list \in ScList /\ ListFits
    BY <1>0, <1>1 DEF ScInv, ScTyped
  <2>2. QED BY <2>1 DEF ScLoad
<1>3. /\ loads'[n] = NoLoad /\ \A k \in LoadSlots : k # n => loads'[k] = loads[k]
      /\ loads' \in [LoadSlots -> ScLoad \union {NoLoad}]
  BY <1>1 DEF ScInv, ScTyped
<1>4. /\ \A s \in WriteSlots : writes'[s] = IF s = x.frees THEN NoWrite ELSE writes[s]
      /\ writes' \in [WriteSlots -> ScCall \union {NoWrite}]
  BY <1>1 DEF ScInv, ScTyped
<1>5. /\ list' \in ScList
      /\ \/ /\ x.got = "rows" /\ list'.rows = x.rows /\ list'.of = x.of /\ list'.newest = x.newest
            /\ list'.late = (x.frees # "none" /\ x.of # choice) /\ list'.failed = list.failed
         \/ list'.rows \in {<<>>, list.rows} /\ list'.of = list.of /\ list'.newest = list.newest
            /\ list'.late = list.late /\ list'.failed
  <2>1. CASE x.got # "failed"
    <3>1. list' = [rows |-> x.rows, of |-> x.of, newest |-> x.newest, late |-> x.frees # "none" /\ x.of # choice,
                   failed |-> list.failed]
      BY <1>1, <2>1 DEF Shows
    <3>2. list.failed \in BOOLEAN
      BY <1>2 DEF ScList
    <3>3. QED BY <3>1, <3>2, <1>1, <1>2, <2>1 DEF ScList
  <2>2. CASE x.got = "failed"
    <3>1. PICK shot \in {<<>>, list.rows} : list' = [list EXCEPT !.rows = shot, !.failed = TRUE]
      <4>1. list' = [list EXCEPT !.rows = IF screen.emptied THEN <<>> ELSE list.rows, !.failed = TRUE]
        BY <1>1, <2>2 DEF Shows
      <4>2. QED BY <4>1
    <3>2. shot \in Shots
      BY <1>2, EmptyShot DEF ScList
    <3>3. QED BY <3>1, <3>2, <1>2 DEF ScList
  <2>3. QED BY <2>1, <2>2
<1>6. ScTyped'
  BY <1>1, <1>3, <1>4, <1>5, TypesStay DEF ScInv, ScTyped
<1>7. x.frees # "none" => writes[x.frees] # NoWrite /\ writes[x.frees].got = "reload"
  BY <1>2 DEF LoadFits
<1>8. SameUnheard
  <2>1. x.frees \in WriteSlots \union {"none"} /\ "none" \notin WriteSlots
    BY <1>2 DEF ScLoad, WriteSlots
  <2>2. \A s \in WriteSlots : Unheard(s) => s # x.frees
    BY <1>7, <2>1 DEF Unheard
  <2>3. \A s \in WriteSlots : Unheard(s)' => writes'[s] = writes[s] /\ Unheard(s)
    BY <1>4 DEF Unheard
  <2>4. \A s \in WriteSlots : Unheard(s) => writes'[s] = writes[s] /\ Unheard(s)'
    BY <2>2, <1>4 DEF Unheard
  <2>5. "save" \in WriteSlots /\ "remove" \in WriteSlots
    BY DEF WriteSlots
  <2>6. QED BY <2>3, <2>4, <2>5 DEF SameUnheard, Creating, Removing
<1>9. \A shot, of : UpToDate(shot, of) => UpToDate(shot, of)'
  BY <1>1, <1>8, UpToDateStays
<1>10. (\A k \in LoadSlots : loads[k] # NoLoad => LoadFits(loads[k]))'
  <2> SUFFICES ASSUME NEW k \in LoadSlots, loads'[k] # NoLoad PROVE LoadFits(loads[k])'
    OBVIOUS
  <2>1. k # n /\ loads'[k] = loads[k] /\ loads[k] # NoLoad
    BY <1>3
  <2>2. LoadFits(loads[k]) /\ loads[k].frees \in WriteSlots \union {"none"}
    BY <2>1 DEF ScInv, ScTyped, ScLoad
  <2>3. loads[k].frees # "none" => loads[k].frees # x.frees
    BY <2>1, <1>0, <1>1 DEF ScInv, OneReloads
  <2>4. loads[k].frees # "none" => writes'[loads[k].frees] = writes[loads[k].frees]
    BY <2>2, <2>3, <1>4
  <2>5. ~list'.failed => ~list.failed
    BY <1>5
  <2>6. QED BY <2>1, <2>2, <2>4, <2>5, <1>1, <1>9, AnswersStay DEF LoadFits
<1>11. ListFits'
  <2>1. CASE /\ x.got = "rows" /\ list'.rows = x.rows /\ list'.of = x.of /\ list'.newest = x.newest
             /\ list'.late = (x.frees # "none" /\ x.of # choice) /\ list'.failed = list.failed
    <3>1. ShotOK(x.rows, x.of)'
      BY <1>1, <1>2, AnswersStay DEF LoadFits
    <3>2. list'.newest /\ ~list'.late => x.of = choice
      BY <2>1, <1>2 DEF LoadFits
    <3>3. list'.newest /\ ~list'.failed => UpToDate(x.rows, x.of)'
      BY <2>1, <1>2, <1>9 DEF LoadFits
    <3>4. QED BY <2>1, <3>1, <3>2, <3>3, <1>1 DEF ListFits
  <2>2. CASE /\ list'.rows \in {<<>>, list.rows} /\ list'.of = list.of /\ list'.newest = list.newest
             /\ list'.late = list.late /\ list'.failed
    <3>1. \A of : ShotOK(<<>>, of)'
      BY EmptyShot DEF ShotOK
    <3>2. \A shot, of : shot = list.rows /\ of = list.of => ShotOK(shot, of)'
      BY <1>1, <1>2, AnswersStay DEF ListFits
    <3>3. ShotOK(list.rows, list.of)'
      BY <2>2, <3>1, <3>2
    <3>4. QED BY <2>2, <3>3, <1>1, <1>2 DEF ListFits
  <2>3. QED BY <2>1, <2>2, <1>5
<1>12. OneReloads'
  BY <1>3 DEF ScInv, OneReloads
<1>13. (form # NoForm => FormFits(form))'
  BY <1>1 DEF ScInv, FormFits, Fixed, WithChoice
<1>14. (\A s \in WriteSlots : writes[s] # NoWrite => CallFits(s, writes[s]))'
  <2>1. \A s, z : CallFits(s, z) => CallFits(s, z)'
    BY <1>1 DEF CallFits, Fixed, WithChoice
  <2>2. QED BY <2>1, <1>4 DEF ScInv
<1>15. QED BY <1>1, <1>6, <1>10, <1>11, <1>12, <1>13, <1>14 DEF ScInv

-----------------------------------------------------------------------------
(* The API's part of a call. *)

\* A row that was born stays so, and where none can move it stays where it is.
RowsStay ==
  \A r \in Rows :
    /\ row[r].life # "unborn" => row'[r].life # "unborn" /\ (Fixed => row'[r].at = row[r].at)
    /\ row[r].life = "gone" => row'[r].life = "gone"

LEMMA RowsStayFits ==
  ASSUME screen' = screen, choice' = choice, form' = form, RowsStay
  PROVE  /\ \A shot, of : DOMAIN shot \subseteq Rows /\ ShotOK(shot, of) => ShotOK(shot, of)'
         /\ \A f : FormFits(f) => FormFits(f)'
         /\ \A s, x : x.on \in Rows \union {"new"} /\ (s # "save" => x.on \in Rows) /\ CallFits(s, x) => CallFits(s, x)'
<1>1. Fixed' = Fixed /\ WithChoice' = WithChoice
  BY DEF Fixed, WithChoice
<1>2. \A shot, of : DOMAIN shot \subseteq Rows /\ ShotOK(shot, of) => ShotOK(shot, of)'
  BY <1>1 DEF ShotOK, RowsStay
<1>3. \A f : FormFits(f) => FormFits(f)'
  BY <1>1 DEF FormFits, RowsStay
<1>4. ASSUME NEW s, NEW x, x.on \in Rows \union {"new"}, s # "save" => x.on \in Rows, CallFits(s, x)
      PROVE  CallFits(s, x)'
  BY <1>1, <1>4 DEF CallFits, RowsStay
<1>5. QED BY <1>2, <1>3, <1>4

LEMMA EffectDoes ==
  ASSUME ScInv, NEW slot \in WriteSlots, NEW x, x = writes[slot], x # NoWrite, Effect(slot), screen' = screen
  PROVE  /\ row' \in [Rows -> [life : {"unborn", "alive", "gone"}, at : Somewhere]]
         /\ RowsStay /\ harm' = harm
         /\ slot = "remove" => row'[x.on].life = "gone" /\ \A r \in Rows : r # x.on => row'[r] = row[r]
         /\ slot # "remove" /\ x.on \in Rows /\ Fixed =>
              \A r \in Rows : row'[r].life = row[r].life /\ row'[r].at = row[r].at
<1>1. x \in ScCall /\ CallFits(slot, x) /\ row \in [Rows -> [life : {"unborn", "alive", "gone"}, at : Somewhere]]
  BY DEF ScInv, ScTyped
<1>2. /\ x.on \in Rows \union {"new"} /\ x.at \in Somewhere /\ x.of \in Selectable /\ "new" \notin Rows
      /\ Shared \in Somewhere
  BY <1>1, ScreensAssumption DEF ScCall, Somewhere
<1>3. WithChoice => ~screen.every /\ Selectable = Places
  <2>1. screen \in Screens
    BY DEF ScInv, ScTyped
  <2>2. QED BY <2>1, ScreenTraits DEF WithChoice, Selectable
<1>4. PICK p : p = Placed(x)
  OBVIOUS
<1>5. p \in Somewhere
  BY <1>1, <1>2, <1>3, <1>4 DEF Placed, WithChoice, Somewhere
<1>6. CASE x.on = "new"
  <2>1. PICK b \in Rows : row[b].life = "unborn" /\ row' = [row EXCEPT ![b] = [life |-> "alive", at |-> p]] /\ harm' = harm
    BY <1>4, <1>6 DEF Effect
  <2>2. slot = "save"
    BY <1>1, <1>2, <1>6 DEF CallFits
  <2>3. row'[b].life = "alive" /\ \A r \in Rows : r # b => row'[r] = row[r]
    BY <2>1, <1>1
  <2>4. row' \in [Rows -> [life : {"unborn", "alive", "gone"}, at : Somewhere]]
    BY <2>1, <1>1, <1>5
  <2>5. RowsStay
    BY <2>1, <2>3 DEF RowsStay
  <2>6. QED BY <2>1, <2>2, <2>4, <2>5, <1>2, <1>6
<1>7. CASE x.on # "new"
  <2>1. x.on \in Rows /\ Found(slot) /\ row[x.on].life = "alive"
    BY <1>2, <1>7 DEF Effect, Found, Alive
  <2>2. CASE slot = "save"
    <3>1. /\ row' = [row EXCEPT ![x.on].at = p]
          /\ harm' = IF p \in {x.was, x.at, row[x.on].at} \/ x.astray THEN harm ELSE harm \union {"moved"}
      BY <1>4, <1>7, <2>2 DEF Effect
    <3>2. p \in {x.was, x.at, row[x.on].at} \/ x.astray
      BY <2>1, <2>2, <1>1, <1>2, <1>4 DEF Placed, CallFits, WithChoice
    <3>3. Fixed => p = row[x.on].at
      BY <2>1, <2>2, <1>1, <1>2, <1>4 DEF Placed, CallFits, WithChoice, Fixed
    <3>4. /\ row'[x.on].life = row[x.on].life /\ row'[x.on].at = p /\ \A r \in Rows : r # x.on => row'[r] = row[r]
          /\ row' \in [Rows -> [life : {"unborn", "alive", "gone"}, at : Somewhere]]
      BY <3>1, <2>1, <1>1, <1>5
    <3>5. RowsStay
      BY <2>1, <3>3, <3>4 DEF RowsStay
    <3>6. QED BY <2>2, <3>1, <3>2, <3>3, <3>4, <3>5
  <2>3. CASE slot = "remove"
    <3>1. row' = [row EXCEPT ![x.on].life = "gone"] /\ harm' = harm
      BY <1>7, <2>3 DEF Effect
    <3>2. /\ row'[x.on].life = "gone" /\ row'[x.on].at = row[x.on].at /\ \A r \in Rows : r # x.on => row'[r] = row[r]
          /\ row' \in [Rows -> [life : {"unborn", "alive", "gone"}, at : Somewhere]]
      BY <3>1, <2>1, <1>1
    <3>3. RowsStay
      BY <2>1, <3>2 DEF RowsStay
    <3>4. QED BY <2>3, <3>1, <3>2, <3>3
  <2>4. CASE slot = "act"
    <3>1. row' = row /\ harm' = harm
      BY <1>7, <2>4 DEF Effect
    <3>2. QED BY <2>4, <3>1, <1>1 DEF RowsStay
  <2>5. QED BY <2>2, <2>3, <2>4 DEF WriteSlots
<1>8. QED BY <1>6, <1>7

LEMMA AnsweredIsTyped ==
  ASSUME NEW x \in ScCall, NEW got \in {"done", "failed", "reload"}, NEW y, y = [x EXCEPT !.got = got]
  PROVE  /\ y \in ScCall /\ y.got = got /\ y.on = x.on /\ y.at = x.at /\ y.was = x.was /\ y.astray = x.astray
         /\ y.of = x.of /\ y.editing = x.editing
BY DEF ScCall

LEMMA ServeWriteStep == ASSUME ScInv, NEW slot \in WriteSlots, ServeWrite(slot) PROVE ScInv'
<1>0. PICK x : x = writes[slot]
  OBVIOUS
<1>1. x # NoWrite /\ x.got = "pending" /\ UNCHANGED <<screen, choice, list, spinner, loads, form>>
  BY <1>0 DEF ServeWrite
<1>2. x \in ScCall /\ CallFits(slot, x)
  BY <1>0, <1>1 DEF ScInv, ScTyped
<1>3. PICK got \in {"done", "failed"} :
        /\ writes' = [writes EXCEPT ![slot].got = got]
        /\ \/ Effect(slot)
           \/ got = "failed" /\ row' = row /\ harm' = harm
  BY DEF ServeWrite
<1>4. PICK y : y = [x EXCEPT !.got = got]
  OBVIOUS
<1>5. /\ y \in ScCall /\ y.got = got /\ y.on = x.on /\ y.at = x.at /\ y.was = x.was /\ y.astray = x.astray
      /\ y.of = x.of /\ y.editing = x.editing
  BY <1>2, <1>4, AnsweredIsTyped
<1>6. /\ writes'[slot] = y /\ \A s \in WriteSlots : s # slot => writes'[s] = writes[s]
      /\ writes' \in [WriteSlots -> ScCall \union {NoWrite}]
  <2>1. writes' = [writes EXCEPT ![slot] = y]
    BY <1>0, <1>3, <1>4
  <2>2. QED BY <2>1, <1>5 DEF ScInv, ScTyped
<1>7. /\ row' \in [Rows -> [life : {"unborn", "alive", "gone"}, at : Somewhere]]
      /\ RowsStay /\ harm' = {}
      /\ slot = "remove" => \A r \in Rows : r # x.on => row'[r] = row[r]
      /\ slot = "remove" /\ got = "done" => row'[x.on].life = "gone"
      /\ slot # "remove" /\ x.on \in Rows /\ Fixed =>
           \A r \in Rows : row'[r].life = row[r].life /\ row'[r].at = row[r].at
  <2>1. CASE Effect(slot)
    BY <2>1, <1>0, <1>1, EffectDoes DEF ScInv
  <2>2. CASE got = "failed" /\ row' = row /\ harm' = harm
    BY <2>2 DEF ScInv, ScTyped, RowsStay
  <2>3. QED BY <2>1, <2>2, <1>3
<1>8. ScTyped'
  BY <1>1, <1>6, <1>7, TypesStay DEF ScInv, ScTyped
<1>9. /\ y # NoWrite /\ x.on \in Rows \union {"new"} /\ "new" \notin Rows /\ Unheard(slot)' /\ ~Unheard(slot)
      /\ \A s \in WriteSlots : s # slot => (Unheard(s)' <=> Unheard(s))
  <2>1. y # NoWrite /\ x.on \in Rows \union {"new"} /\ "new" \notin Rows
    BY <1>2, <1>5, TellsApart, ScreensAssumption DEF ScCall
  <2>2. QED BY <2>1, <1>0, <1>1, <1>5, <1>6 DEF Unheard
<1>10. ASSUME NEW shot, NEW of, UpToDate(shot, of) PROVE UpToDate(shot, of)'
  <2>1. CASE ~screen.local
    BY <2>1, <1>1, <1>9 DEF UpToDate
  <2>2. CASE screen.local
    <3> SUFFICES ASSUME ~Creating', NEW r \in Rows PROVE Removing(r)' \/ (r \in DOMAIN shot <=> r \in Listed(of)')
      BY <2>2, <1>1 DEF UpToDate
    <3>1. Fixed /\ screen.local
      BY <2>2, ScreenTraits DEF Fixed, WithChoice, ScInv, ScTyped
    <3>2. ~Creating
      <4>1. CASE slot = "save"
        BY <4>1, <1>9 DEF Creating
      <4>2. CASE slot # "save"
        BY <4>2, <1>6, <1>9 DEF Creating, WriteSlots
      <4>3. QED BY <4>1, <4>2
    <3>3. Removing(r) \/ (r \in DOMAIN shot <=> r \in Listed(of))
      BY <1>10, <3>1, <3>2 DEF UpToDate
    <3>4. CASE slot = "remove"
      <4>1. CASE r = x.on
        BY <3>4, <4>1, <1>5, <1>6, <1>9 DEF Removing
      <4>2. CASE r # x.on
        <5>1. ~Removing(r)
          BY <3>4, <1>9 DEF Removing
        <5>2. r \in Listed(of)' <=> r \in Listed(of)
          BY <3>4, <4>2, <1>1, <1>7 DEF Listed, Alive
        <5>3. QED BY <3>3, <5>1, <5>2
      <4>3. QED BY <4>1, <4>2
    <3>5. CASE slot # "remove"
      <4>1. x.on \in Rows
        <5>1. CASE slot = "save"
          BY <5>1, <1>5, <1>6, <1>9 DEF Creating
        <5>2. CASE slot # "save"
          BY <5>2, <1>2 DEF CallFits
        <5>3. QED BY <5>1, <5>2
      <4>2. r \in Listed(of)' <=> r \in Listed(of)
        BY <3>1, <3>5, <4>1, <1>1, <1>7 DEF Listed, Alive
      <4>3. Removing(r) => Removing(r)'
        BY <3>5, <1>6, <1>9 DEF Removing, WriteSlots
      <4>4. QED BY <3>3, <4>2, <4>3
    <3>6. QED BY <3>4, <3>5
  <2>3. QED BY <2>1, <2>2
<1>11. /\ \A shot, of : DOMAIN shot \subseteq Rows /\ ShotOK(shot, of) => ShotOK(shot, of)'
       /\ \A f : FormFits(f) => FormFits(f)'
       /\ \A s, z : z.on \in Rows \union {"new"} /\ (s # "save" => z.on \in Rows) /\ CallFits(s, z) => CallFits(s, z)'
  BY <1>1, <1>7, RowsStayFits
<1>12. (\A n \in LoadSlots : loads[n] # NoLoad => LoadFits(loads[n]))'
  <2> SUFFICES ASSUME NEW n \in LoadSlots, loads[n] # NoLoad PROVE LoadFits(loads[n])'
    BY <1>1
  <2>1. PICK z \in ScLoad : z = loads[n] /\ LoadFits(z)
    BY DEF ScInv, ScTyped
  <2>2. DOMAIN z.rows \subseteq Rows /\ z.frees \in WriteSlots \union {"none"}
    BY ShotIsTyped DEF ScLoad
  <2>3. ShotOK(z.rows, z.of)'
    BY <2>1, <2>2, <1>11 DEF LoadFits
  <2>4. z.frees # "none" => z.frees # slot /\ writes'[z.frees] = writes[z.frees]
    BY <2>1, <2>2, <1>0, <1>1, <1>6 DEF LoadFits
  <2>5. z.newest /\ z.got = "rows" /\ ~list.failed => UpToDate(z.rows, z.of)'
    BY <2>1, <1>10 DEF LoadFits
  <2>6. LoadFits(z)'
    BY <2>1, <2>3, <2>4, <2>5, <1>1 DEF LoadFits
  <2>7. QED BY <2>1, <2>6, <1>1
<1>13. ListFits'
  <2>1. DOMAIN list.rows \subseteq Rows
    BY ShotIsTyped DEF ScInv, ScTyped, ScList
  <2>2. PICK shot, of : shot = list.rows /\ of = list.of
    OBVIOUS
  <2>3. ShotOK(shot, of)'
    BY <2>1, <2>2, <1>11 DEF ScInv, ListFits
  <2>4. list.newest /\ ~list.failed => UpToDate(shot, of)'
    BY <2>2, <1>10 DEF ScInv, ListFits
  <2>5. QED BY <2>2, <2>3, <2>4, <1>1 DEF ScInv, ListFits
<1>14. OneReloads'
  BY <1>1 DEF ScInv, OneReloads
<1>15. (form # NoForm => FormFits(form))'
  BY <1>1, <1>11 DEF ScInv
<1>16. (\A s \in WriteSlots : writes[s] # NoWrite => CallFits(s, writes[s]))'
  <2> SUFFICES ASSUME NEW s \in WriteSlots, writes'[s] # NoWrite PROVE CallFits(s, writes[s])'
    OBVIOUS
  <2>1. CASE s = slot
    <3>1. (slot # "save" => x.on \in Rows) /\ x.on \in Rows \union {"new"}
      BY <1>2, <1>9 DEF CallFits
    <3>2. CallFits(slot, x)'
      BY <3>1, <1>2, <1>11
    <3>3. CallFits(slot, y)'
      BY <3>2, <1>5, <1>7 DEF CallFits
    <3>4. QED BY <3>3, <2>1, <1>6
  <2>2. CASE s # slot
    <3>1. PICK z : z = writes[s]
      OBVIOUS
    <3>2. z # NoWrite /\ z \in ScCall /\ CallFits(s, z) /\ writes'[s] = z
      BY <2>2, <3>1, <1>6 DEF ScInv, ScTyped
    <3>3. z.on \in Rows \union {"new"} /\ (s # "save" => z.on \in Rows)
      BY <3>2 DEF ScCall, CallFits
    <3>4. CallFits(s, z)'
      BY <3>2, <3>3, <1>11
    <3>5. QED BY <3>2, <3>4
  <2>3. QED BY <2>1, <2>2
<1>17. QED BY <1>7, <1>8, <1>12, <1>13, <1>14, <1>15, <1>16 DEF ScInv

-----------------------------------------------------------------------------
(* The answer to a call. *)

\* The form is what it was or closed: what it holds fits as before, and so do the calls.
LEMMA FormMayClose ==
  ASSUME ScInv, screen' = screen, row' = row, choice' = choice, form' \in {form, NoForm}
  PROVE  /\ (form # NoForm => FormFits(form))'
         /\ \A s, x : CallFits(s, x) => CallFits(s, x)'
         /\ form' \in ScForm \union {NoForm}
<1>1. (form # NoForm => FormFits(form))'
  BY DEF ScInv, FormFits, Fixed, WithChoice
<1>2. \A s, x : CallFits(s, x) => CallFits(s, x)'
  BY DEF CallFits, Fixed, WithChoice
<1>3. form' \in ScForm \union {NoForm}
  BY DEF ScInv, ScTyped
<1>4. QED BY <1>1, <1>2, <1>3

\* A call is answered and the list loaded again for it.
LEMMA ReloadMayBegin ==
  ASSUME ScInv, NEW slot \in WriteSlots, NEW x, x = writes[slot], x # NoWrite, x.got \in {"done", "failed"},
         Load(x.of, slot), writes' = [writes EXCEPT ![slot].got = "reload"],
         screen' = screen, row' = row, choice' = choice, form' \in {form, NoForm}, harm' = {}, spinner' \in BOOLEAN
  PROVE  ScInv'
<1>1. x \in ScCall /\ CallFits(slot, x) /\ x.of \in Selectable
  BY DEF ScInv, ScTyped, ScCall
<1>2. PICK m \in LoadSlots : StartsToLoad(m, x.of, slot)
  BY <1>1, LoadBegins DEF ScInv, ScTyped
<1>3. PICK y : y = [x EXCEPT !.got = "reload"]
  OBVIOUS
<1>4. /\ y \in ScCall /\ y.got = "reload" /\ y.on = x.on /\ y.at = x.at /\ y.was = x.was /\ y.astray = x.astray
      /\ y.of = x.of /\ y.editing = x.editing
  BY <1>1, <1>3, AnsweredIsTyped
<1>5. /\ writes'[slot] = y /\ \A s \in WriteSlots : s # slot => writes'[s] = writes[s]
      /\ writes' \in [WriteSlots -> ScCall \union {NoWrite}]
  <2>1. writes' = [writes EXCEPT ![slot] = y]
    BY <1>3
  <2>2. QED BY <2>1, <1>4 DEF ScInv, ScTyped
<1>6. y # NoWrite
  BY <1>4, TellsApart
<1>7. \A n \in LoadSlots : loads[n] # NoLoad /\ loads[n].frees # "none" =>
         /\ loads[n].frees # slot
         /\ writes'[loads[n].frees] # NoWrite /\ writes'[loads[n].frees].got = "reload"
  <2> SUFFICES ASSUME NEW n \in LoadSlots, loads[n] # NoLoad, loads[n].frees # "none"
               PROVE  /\ loads[n].frees # slot
                      /\ writes'[loads[n].frees] # NoWrite /\ writes'[loads[n].frees].got = "reload"
    OBVIOUS
  <2>1. writes[loads[n].frees] # NoWrite /\ writes[loads[n].frees].got = "reload"
    BY DEF ScInv, LoadFits
  <2>2. loads[n].frees \in WriteSlots
    BY DEF ScInv, ScTyped, ScLoad
  <2>3. QED BY <2>1, <2>2, <1>5
<1>8. slot # "none"
  BY DEF WriteSlots
<1>9. /\ (\A n \in LoadSlots : loads[n] # NoLoad => LoadFits(loads[n]))'
      /\ ListFits' /\ OneReloads'
  BY <1>2, <1>4, <1>5, <1>6, <1>7, <1>8, LoadMayBegin
<1>10. ScTyped'
  BY <1>2, <1>5, FormMayClose, TypesStay DEF ScInv, ScTyped, StartsToLoad
<1>11. (\A s \in WriteSlots : writes[s] # NoWrite => CallFits(s, writes[s]))'
  <2> SUFFICES ASSUME NEW s \in WriteSlots, writes'[s] # NoWrite PROVE CallFits(s, writes[s])'
    OBVIOUS
  <2>1. CallFits(slot, x)'
    BY <1>1, FormMayClose
  <2>2. CallFits(slot, y)'
    BY <2>1, <1>4 DEF CallFits
  <2>3. CASE s # slot
    BY <2>3, <1>5, FormMayClose DEF ScInv
  <2>4. QED BY <2>2, <2>3, <1>5
<1>12. QED BY <1>9, <1>10, <1>11, FormMayClose DEF ScInv

\* A call is answered and forgotten; the loads and the list are not fresher than before.
LEMMA CallMayEnd ==
  ASSUME ScInv, NEW slot \in WriteSlots, NEW x, x = writes[slot], x # NoWrite, x.got \in {"done", "failed"},
         writes' = [writes EXCEPT ![slot] = NoWrite],
         screen' = screen, row' = row, choice' = choice, form' \in {form, NoForm}, harm' = {}, spinner' \in BOOLEAN,
         loads' \in [LoadSlots -> ScLoad \union {NoLoad}],
         \A n \in LoadSlots : loads'[n] # NoLoad =>
           /\ loads[n] # NoLoad /\ loads'[n].of = loads[n].of /\ loads'[n].rows = loads[n].rows
           /\ loads'[n].frees = loads[n].frees
           /\ loads'[n].newest => loads[n].newest /\ list'.failed,
         list' \in ScList, ListFits'
  PROVE  ScInv'
<1>1. /\ writes'[slot] = NoWrite /\ \A s \in WriteSlots : s # slot => writes'[s] = writes[s]
      /\ writes' \in [WriteSlots -> ScCall \union {NoWrite}]
  BY DEF ScInv, ScTyped
<1>2. ScTyped'
  BY <1>1, FormMayClose, TypesStay DEF ScInv, ScTyped
<1>3. (\A n \in LoadSlots : loads[n] # NoLoad => LoadFits(loads[n]))'
  <2> SUFFICES ASSUME NEW n \in LoadSlots, loads'[n] # NoLoad PROVE LoadFits(loads[n])'
    OBVIOUS
  <2>1. PICK z : z = loads[n] /\ z # NoLoad /\ z \in ScLoad /\ LoadFits(z)
    BY DEF ScInv, ScTyped
  <2>2. /\ loads'[n].of = z.of /\ loads'[n].rows = z.rows /\ loads'[n].frees = z.frees
        /\ loads'[n].newest => z.newest /\ list'.failed
    BY <2>1
  <2>3. ShotOK(z.rows, z.of)'
    BY <2>1, AnswersStay DEF LoadFits
  <2>4. ShotOK(loads[n].rows, loads[n].of)'
    BY <2>2, <2>3
  <2>5. z.frees # "none" => writes'[z.frees] # NoWrite /\ writes'[z.frees].got = "reload"
    <3>1. z.frees \in WriteSlots \union {"none"}
      BY <2>1 DEF ScLoad
    <3>2. z.frees # "none" => writes[z.frees] # NoWrite /\ writes[z.frees].got = "reload"
      BY <2>1 DEF LoadFits
    <3>3. QED BY <3>1, <3>2, <1>1
  <2>6. z.newest /\ z.frees = "none" => z.of = choice
    BY <2>1 DEF LoadFits
  <2>7. QED BY <2>2, <2>4, <2>5, <2>6 DEF LoadFits
<1>4. OneReloads'
  BY DEF ScInv, OneReloads
<1>5. (\A s \in WriteSlots : writes[s] # NoWrite => CallFits(s, writes[s]))'
  BY <1>1, FormMayClose DEF ScInv
<1>6. QED BY <1>2, <1>3, <1>4, <1>5, FormMayClose DEF ScInv

LEMMA WriteFailsStep == ASSUME ScInv, NEW slot \in WriteSlots, WriteFails(slot) PROVE ScInv'
<1>0. PICK x : x = writes[slot]
  OBVIOUS
<1>1. x # NoWrite /\ x.got = "failed" /\ UNCHANGED <<screen, row, choice, spinner, form, harm>>
  BY <1>0 DEF WriteFails
<1>2. harm' = {} /\ spinner' \in BOOLEAN
  BY <1>1 DEF ScInv, ScTyped
<1>3. CASE screen.retries /\ slot = "remove"
  <2>1. Load(x.of, slot) /\ writes' = [writes EXCEPT ![slot].got = "reload"]
    BY <1>0, <1>3 DEF WriteFails
  <2>2. QED BY <2>1, <1>0, <1>1, <1>2, ReloadMayBegin
<1>4. CASE ~(screen.retries /\ slot = "remove")
  <2>1. writes' = [writes EXCEPT ![slot] = NoWrite] /\ list' = [list EXCEPT !.failed = TRUE] /\ loads' = loads
    BY <1>0, <1>4 DEF WriteFails
  <2>2. /\ list' \in ScList /\ list'.rows = list.rows /\ list'.of = list.of /\ list'.newest = list.newest
        /\ list'.late = list.late /\ list'.failed
    BY <2>1 DEF ScInv, ScTyped, ScList
  <2>3. ShotOK(list.rows, list.of)'
    <3>1. PICK shot, of : shot = list.rows /\ of = list.of
      OBVIOUS
    <3>2. ShotOK(shot, of)'
      BY <3>1, <1>1, AnswersStay DEF ScInv, ListFits
    <3>3. QED BY <3>1, <3>2, <2>2
  <2>4. ListFits'
    BY <2>2, <2>3, <1>1 DEF ScInv, ListFits
  <2>5. loads' \in [LoadSlots -> ScLoad \union {NoLoad}]
    BY <2>1 DEF ScInv, ScTyped
  <2>6. QED BY <2>1, <2>2, <2>4, <2>5, <1>0, <1>1, <1>2, CallMayEnd
<1>5. QED BY <1>3, <1>4

\* The answer to a call closes no form that was filled in while nothing was under way, and
\* leaves none open on what its user deleted.
LEMMA NothingIsLost ==
  ASSUME ScInv, NEW slot \in WriteSlots, LandWrite(slot)
  PROVE  form' \in {form, NoForm} /\ harm' = {}
<1>0. PICK x : x = writes[slot]
  OBVIOUS
<1>1. x # NoWrite /\ x \in ScCall /\ CallFits(slot, x) /\ harm = {}
  BY <1>0 DEF LandWrite, ScInv, ScTyped
<1>2. NoForm.on = "none" /\ (slot # "save" => x.on # "none")
  BY <1>1, TellsApart, ScreensAssumption DEF CallFits
<1>3. CASE ClosedBy(slot)
  <2>1. x.editing = x.on
    BY <1>0, <1>1, <1>3 DEF ClosedBy, CallFits
  <2>2. form.on \in {"none", x.on} \/ form.late
    BY <2>1, <1>1, <1>2 DEF CallFits
  <2>3. QED BY <2>2, <1>0, <1>1, <1>3 DEF LandWrite
<1>4. CASE ~ClosedBy(slot)
  <2>1. ~(slot = "remove" /\ screen.closes /\ form.on = x.on /\ ~form.late)
    BY <1>0, <1>1, <1>2, <1>4 DEF ClosedBy, CallFits
  <2>2. QED BY <2>1, <1>0, <1>1, <1>4 DEF LandWrite
<1>5. QED BY <1>3, <1>4

LEMMA LandWriteStep == ASSUME ScInv, NEW slot \in WriteSlots, LandWrite(slot) PROVE ScInv'
<1>0. PICK x : x = writes[slot]
  OBVIOUS
<1>1. /\ x # NoWrite /\ x.got = "done" /\ x \in ScCall /\ CallFits(slot, x)
      /\ screen' = screen /\ row' = row /\ choice' = choice
  BY <1>0 DEF LandWrite, ScInv, ScTyped
<1>2. form' \in {form, NoForm} /\ harm' = {}
  BY NothingIsLost
<1>3. CASE ~(screen.local /\ x.on # "new")
  <2>1. Load(x.of, slot) /\ writes' = [writes EXCEPT ![slot].got = "reload"] /\ spinner' = TRUE
    BY <1>0, <1>3 DEF LandWrite
  <2>2. QED BY <2>1, <1>0, <1>1, <1>2, ReloadMayBegin
<1>4. CASE screen.local /\ x.on # "new"
  <2>1. /\ list' = IF slot = "remove" THEN [list EXCEPT !.rows = Dropping(list.rows, x.on)] ELSE list
        /\ loads' = [n \in LoadSlots |-> IF loads[n] = NoLoad THEN NoLoad ELSE [loads[n] EXCEPT !.newest = FALSE]]
        /\ writes' = [writes EXCEPT ![slot] = NoWrite] /\ spinner' = spinner
    BY <1>0, <1>4 DEF LandWrite
  <2>2. /\ loads' \in [LoadSlots -> ScLoad \union {NoLoad}]
        /\ \A n \in LoadSlots : loads'[n] # NoLoad =>
             /\ loads[n] # NoLoad /\ loads'[n].of = loads[n].of /\ loads'[n].rows = loads[n].rows
             /\ loads'[n].frees = loads[n].frees /\ ~loads'[n].newest
    <3> DEFINE Old(z) == [z EXCEPT !.newest = FALSE]
    <3>1. \A z \in ScLoad : Old(z) \in ScLoad /\ ~Old(z).newest /\ Old(z).of = z.of /\ Old(z).rows = z.rows
                            /\ Old(z).frees = z.frees
      BY OlderIsTyped
    <3>2. loads' = [n \in LoadSlots |-> IF loads[n] = NoLoad THEN NoLoad ELSE Old(loads[n])]
      BY <2>1
    <3>3. \A n \in LoadSlots : loads[n] \in ScLoad \union {NoLoad}
      BY DEF ScInv, ScTyped
    <3> HIDE DEF Old
    <3>4. QED BY <3>1, <3>2, <3>3
  <2>3. PICK shot, of : shot = list.rows /\ of = list.of
    OBVIOUS
  <2>4. /\ shot \in Shots /\ list \in ScList /\ ShotOK(shot, of) /\ (list.newest /\ ~list.late => of = choice)
        /\ list.newest /\ ~list.failed => UpToDate(shot, of)
    BY <2>3 DEF ScInv, ScTyped, ScList, ListFits
  <2>5. PICK rest : rest = IF slot = "remove" THEN Dropping(shot, x.on) ELSE shot
    OBVIOUS
  <2>6. /\ rest \in Shots /\ \A r \in DOMAIN rest : r \in DOMAIN shot /\ rest[r] = shot[r]
        /\ slot = "remove" => DOMAIN rest = DOMAIN shot \ {x.on}
    BY <2>4, <2>5, ShotIsTyped DEF Dropping
  <2>7. /\ list' \in ScList /\ list'.rows = rest /\ list'.of = of /\ list'.newest = list.newest
        /\ list'.late = list.late /\ list'.failed = list.failed
    BY <2>1, <2>3, <2>4, <2>5, <2>6 DEF ScList
  <2>8. ShotOK(rest, of)'
    <3>1. ShotOK(rest, of)
      BY <2>4, <2>6 DEF ShotOK
    <3>2. QED BY <3>1, <1>1, AnswersStay
  <2>9. ASSUME UpToDate(shot, of) PROVE UpToDate(rest, of)'
    <3> SUFFICES ASSUME ~Creating', NEW r \in Rows PROVE Removing(r)' \/ (r \in DOMAIN rest <=> r \in Listed(of)')
      BY <1>1, <1>4 DEF UpToDate
    <3>1. \A s \in WriteSlots : s # slot => writes'[s] = writes[s]
      BY <2>1
    <3>2. ~Creating
      <4>1. CASE slot = "save"
        BY <4>1, <1>0, <1>4 DEF Creating
      <4>2. CASE slot # "save"
        BY <4>2, <3>1 DEF Creating, Unheard, WriteSlots
      <4>3. QED BY <4>1, <4>2
    <3>3. Removing(r) \/ (r \in DOMAIN shot <=> r \in Listed(of))
      BY <2>9, <1>4, <3>2 DEF UpToDate
    <3>4. Listed(of)' = Listed(of)
      BY <1>1, AnswersStay
    <3>5. CASE slot = "remove"
      <4>1. CASE r = x.on
        <5>1. row[r].life = "gone"
          BY <4>1, <3>5, <1>1 DEF CallFits
        <5>2. QED BY <5>1, <4>1, <3>4, <3>5, <2>6 DEF Listed, Alive
      <4>2. CASE r # x.on
        <5>1. ~Removing(r)
          BY <4>2, <3>5, <1>0 DEF Removing
        <5>2. QED BY <5>1, <4>2, <3>3, <3>4, <3>5, <2>6
      <4>3. QED BY <4>1, <4>2
    <3>6. CASE slot # "remove"
      <4>1. Removing(r) => Removing(r)'
        BY <3>1, <3>6 DEF Removing, Unheard, WriteSlots
      <4>2. QED BY <4>1, <3>3, <3>4, <3>6, <2>5
    <3>7. QED BY <3>5, <3>6
  <2>10. ListFits'
    BY <2>4, <2>7, <2>8, <2>9, <1>1 DEF ListFits
  <2>11. spinner' \in BOOLEAN
    BY <2>1 DEF ScInv, ScTyped
  <2>12. \A n \in LoadSlots : loads'[n] # NoLoad =>
           /\ loads[n] # NoLoad /\ loads'[n].of = loads[n].of /\ loads'[n].rows = loads[n].rows
           /\ loads'[n].frees = loads[n].frees
           /\ loads'[n].newest => loads[n].newest /\ list'.failed
    BY <2>2
  <2>13. writes' = [writes EXCEPT ![slot] = NoWrite] /\ loads' \in [LoadSlots -> ScLoad \union {NoLoad}]
         /\ list' \in ScList /\ x.got \in {"done", "failed"}
    BY <2>1, <2>2, <2>7, <1>1
  <2>14. QED BY <2>10, <2>11, <2>12, <2>13, <1>0, <1>1, <1>2, CallMayEnd
<1>5. QED BY <1>3, <1>4

LEMMA ScreensStepKeeps == ASSUME ScInv, [ScNext]_scVars PROVE ScInv'
<1>1. ASSUME UNCHANGED scVars PROVE ScInv'
  BY <1>1, FormMayChange DEF scVars, ScInv, ScTyped, CallFits
<1>2. ASSUME NEW n \in LoadSlots, ServeLoad(n) \/ LandLoad(n) PROVE ScInv'
  BY <1>2, ServeLoadStep, LandLoadStep
<1>3. ASSUME NEW slot \in WriteSlots, ServeWrite(slot) \/ LandWrite(slot) \/ WriteFails(slot) PROVE ScInv'
  BY <1>3, ServeWriteStep, LandWriteStep, WriteFailsStep
<1>4. ASSUME Poll \/ \E c \in Selectable : Choose(c) PROVE ScInv'
  BY <1>4, PollStep, ChooseStep
<1>5. QED BY <1>1, <1>2, <1>3, <1>4, FormSteps, PressSteps DEF ScNext

\* Once nothing is under way, what is up to date is what the API would answer.
LEMMA ScInvHolds == ASSUME ScInv PROVE ScreensHold
<1>1. NothingIsHarmed
  BY DEF ScInv, NothingIsHarmed
<1>2. ListFollowsTheChoice
  <2> SUFFICES ASSUME Settled, list.newest, ~list.late, ~list.failed
               PROVE  list.of = choice /\ list.rows = AnswerTo(choice)
    BY DEF ListFollowsTheChoice
  <2>1. list.of = choice /\ UpToDate(list.rows, choice) /\ ShotOK(list.rows, choice)
    BY DEF ScInv, ListFits
  <2>2. \A s \in WriteSlots : writes[s] = NoWrite
    BY DEF Settled, Busy
  <2>3. \A s \in WriteSlots : ~Unheard(s)
    BY <2>2 DEF Unheard
  <2>4. CASE ~screen.local
    BY <2>1, <2>3, <2>4 DEF UpToDate
  <2>5. CASE screen.local
    <3>1. ~Creating /\ \A r \in Rows : ~Removing(r)
      BY <2>3 DEF Creating, Removing, WriteSlots
    <3>2. \A r \in Rows : r \in DOMAIN list.rows <=> r \in Listed(choice)
      BY <2>1, <2>5, <3>1 DEF UpToDate
    <3>3. list.rows \in Shots /\ screen \in Screens
      BY DEF ScInv, ScTyped, ScList
    <3>4. PICK D \in SUBSET Rows : list.rows \in [D -> Somewhere]
      BY <3>3, ShotIs
    <3>5. D = Listed(choice)
      BY <3>2, <3>4 DEF Listed
    <3>6. Fixed
      BY <2>5, <3>3, ScreenTraits DEF Fixed, WithChoice
    <3>7. \A r \in D : list.rows[r] = row[r].at
      BY <2>1, <3>4, <3>6 DEF ShotOK
    <3>8. QED BY <2>1, <3>4, <3>5, <3>7 DEF AnswerTo
  <2>6. QED BY <2>1, <2>4, <2>5
<1>3. QED BY <1>1, <1>2 DEF ScreensHold

\* The token names a workspace that its holder was in, with the role he had there, and the
\* screens show and do what that role is served; a list is that of the choice, the spinner
\* ends, and no answer harms a form: for any members, screens, rows and calls in any order.
THEOREM PagesStayRight == ConversationsSpec => []PagesAreRight
<1> DEFINE I == (part = "access" => AxInv) /\ (part = "screens" => ScInv)
<1>1. ConversationsInit => I
  BY AccessStart, ScreensStart DEF ConversationsInit
<1>2. I /\ [ConversationsNext]_coVars => I'
  <2>1. ASSUME part = "access" => AxInv, [ConversationsNext]_coVars, part' = "access" PROVE AxInv'
    <3>1. part = "access" /\ [AxNext]_axVars
      BY <2>1 DEF ConversationsNext, coVars
    <3> QED
      BY <2>1, <3>1, AccessStepKeeps
  <2>2. ASSUME part = "screens" => ScInv, [ConversationsNext]_coVars, part' = "screens" PROVE ScInv'
    <3>1. part = "screens" /\ [ScNext]_scVars
      BY <2>2 DEF ConversationsNext, coVars
    <3> QED
      BY <2>2, <3>1, ScreensStepKeeps
  <2> QED
    BY <2>1, <2>2
<1>3. I => PagesAreRight
  BY AxInvIsRight, ScInvHolds DEF PagesAreRight
<1> QED
  BY <1>1, <1>2, <1>3, PTL DEF ConversationsSpec

-----------------------------------------------------------------------------
(* Hours: a window of opening hours, by the clock.                           *)

LEMMA HourModulus ==
  /\ \A x \in 0..23 : x % 24 = x
  /\ \A x \in 24..47 : x % 24 = x - 24
  /\ \A x \in (-23)..(-1) : x % 24 = x + 24
<1>1. \A x \in 0..23 : x % 24 = x
  OBVIOUS
<1>2. \A x \in 24..47 : x % 24 = x - 24
  OBVIOUS
<1>3. \A x \in (-23)..(-1) : x % 24 = x + 24
  OBVIOUS
<1> QED
  BY <1>1, <1>2, <1>3
\* A window of hours is the hours passed by the clock.
LEMMA WithinIsByTheClock ==
  ASSUME NEW h \in Hour, NEW s \in Hour \union {NoHour}, NEW t \in Hour \union {NoHour}
  PROVE  Within(h, s, t) <=> h \in ClockWindow(s, t)
<1>1. CASE s = NoHour \/ t = NoHour \/ s = t
  BY <1>1 DEF Within, ClockWindow
<1>2. CASE ~(s = NoHour \/ t = NoHour \/ s = t)
  <2>1. s \in 0..23 /\ t \in 0..23 /\ h \in 0..23 /\ s # t
    BY <1>2 DEF Hour
  <2>2. ClockWindow(s, t) = {(s + k) % 24 : k \in 0..((t - s) % 24)}
    BY <1>2 DEF ClockWindow
  <2>3. CASE s < t
    <3>1. (t - s) % 24 = t - s
      BY <2>1, <2>3, HourModulus
    <3>2. \A k \in 0..(t - s) : (s + k) % 24 = s + k
      BY <2>1, <2>3, HourModulus
    <3>3. ASSUME Within(h, s, t) PROVE h \in ClockWindow(s, t)
      <4>1. s <= h /\ h <= t
        BY <1>2, <2>1, <2>3, <3>3 DEF Within
      <4>2. h - s \in 0..(t - s) /\ s + (h - s) = h
        BY <2>1, <4>1
      <4> QED
        BY <2>2, <3>1, <3>2, <4>2
    <3>4. ASSUME h \in ClockWindow(s, t) PROVE Within(h, s, t)
      <4>1. PICK k \in 0..(t - s) : h = (s + k) % 24
        BY <2>2, <3>1, <3>4
      <4>2. h = s + k
        BY <3>2, <4>1
      <4> QED
        BY <2>1, <2>3, <4>1, <4>2 DEF Within
    <3> QED
      BY <3>3, <3>4
  <2>4. CASE s > t
    <3>1. (t - s) % 24 = t - s + 24
      BY <2>1, <2>4, HourModulus
    <3>2. \A k \in 0..(t - s + 24) : (s + k) % 24 = IF s + k < 24 THEN s + k ELSE s + k - 24
      <4> TAKE k \in 0..(t - s + 24)
      <4>1. s + k \in 0..47
        BY <2>1, <2>4
      <4> QED
        BY <4>1, HourModulus
    <3>3. ASSUME Within(h, s, t) PROVE h \in ClockWindow(s, t)
      <4>1. h >= s \/ h <= t
        BY <1>2, <2>1, <2>4, <3>3 DEF Within
      <4>2. CASE h >= s
        <5>1. h - s \in 0..(t - s + 24) /\ s + (h - s) = h /\ h < 24
          BY <2>1, <4>2
        <5>2. (s + (h - s)) % 24 = h
          BY <3>2, <5>1
        <5> QED
          BY <2>2, <3>1, <5>1, <5>2
      <4>3. CASE h <= t
        <5>1. h - s + 24 \in 0..(t - s + 24) /\ s + (h - s + 24) = h + 24 /\ ~(h + 24 < 24)
          BY <2>1, <4>3
        <5>2. (s + (h - s + 24)) % 24 = h
          BY <3>2, <5>1, <2>1
        <5> QED
          BY <2>2, <3>1, <5>1, <5>2
      <4> QED
        BY <4>1, <4>2, <4>3
    <3>4. ASSUME h \in ClockWindow(s, t) PROVE Within(h, s, t)
      <4>1. PICK k \in 0..(t - s + 24) : h = (s + k) % 24
        BY <2>2, <3>1, <3>4
      <4>2. h = IF s + k < 24 THEN s + k ELSE s + k - 24
        BY <3>2, <4>1
      <4>3. h >= s \/ h <= t
        BY <2>1, <4>1, <4>2
      <4> QED
        BY <2>4, <4>3 DEF Within
    <3> QED
      BY <3>3, <3>4
  <2> QED
    BY <2>1, <2>3, <2>4
<1> QED
  BY <1>1, <1>2

-----------------------------------------------------------------------------
(* Scenarios: the right one is applied, and takes effect.                    *)

SnWorld == SnTypeOK /\ setup \in SnSetups

\* Of an application x: the scenario it has chosen.
RowOf(x) == setup.rows[x.row]
AfterTags == {"tagAudit", "member", "assign", "assignAudit", "prio", "audit", "done"}
AfterMembers == {"assignAudit", "prio", "audit", "done"}

\* It is only where its scenario leads, and those of drafts never come to an end.
OnPath(x) ==
  /\ x.pc \in {"idle", "match"} => x.row = 0
  /\ x.pc \in {"tag", "makeTag", "link", "revive", "makeLink", "tagAudit"} => x.row # 0 /\ RowOf(x).label # NoLabel
  /\ x.pc \in {"member", "assign", "assignAudit"} => x.row # 0 /\ RowOf(x).member # NoOne
  /\ x.pc = "prio" => x.row # 0 /\ PrioOf(RowOf(x)) # Unset
  /\ x.pc = "audit" => x.row # 0 /\ Acts(RowOf(x))
  /\ x.pc = "done" /\ x.by = "draft" => x.row = 0 \/ ~Acts(RowOf(x))
  /\ x.pc = "failed" => stirred # {} \/ (x.by = "draft" /\ x.row # 0 /\ Acts(RowOf(x)))

\* What it has done so far is still so, unless it was undone.
TagTaken(x) ==
  x.row # 0 /\ RowOf(x).label # NoLabel /\ "label" \notin x.undone =>
    /\ x.pc \in {"link", "revive", "makeLink"} \union AfterTags => labels[RowOf(x).label] = "live"
    /\ x.pc \in AfterTags => worn[RowOf(x).label] = "live"
MemberTaken(x) ==
  x.row # 0 /\ RowOf(x).member # NoOne /\ "member" \notin x.undone /\ x.pc \in AfterMembers
    => inCharge = RowOf(x).member
PrioTaken(x) ==
  x.row # 0 /\ PrioOf(RowOf(x)) # Unset /\ "prio" \notin x.undone /\ x.pc \in {"audit", "done"}
    => prio = PrioOf(RowOf(x))

\* The scenario it has chosen is the first that matches.
RightRow(x) ==
  x.row # 0 => x.row \in FirstOf({i \in DOMAIN setup.rows : Matches(setup.rows[i], WordsFor(x.by), x.tags)})

ApOK(x) == OnPath(x) /\ TagTaken(x) /\ MemberTaken(x) /\ PrioTaken(x) /\ RightRow(x)

\* As long as nothing stirs, one application is under way, and finds what it saw.
Undisturbed ==
  stirred = {} =>
    /\ \A a, b \in Appliers : Underway(a) /\ Underway(b) => a = b
    /\ staff = SnStaff
    /\ \A l \in Labels : labels[l] # "gone"
    /\ \A a \in Appliers : /\ ApAt(a, "makeTag") => labels[RowOf(ap[a]).label] = "none"
                           /\ ApAt(a, "makeLink") => worn[RowOf(ap[a]).label] = "none"

SnInv == SnWorld /\ (\A a \in Appliers : ApOK(ap[a])) /\ Undisturbed

Application == [by : Sources, pc : ApSteps, row : 0..Len(setup.rows), tags : SUBSET Labels,
                undone : SUBSET {"label", "member", "prio"}]

-----------------------------------------------------------------------------

LEMMA SetupTyped ==
  ASSUME setup \in SnSetups
  PROVE  /\ setup.rows \in Seq(ScenarioRow) /\ Len(setup.rows) \in Nat /\ DOMAIN setup.rows = 1..Len(setup.rows)
         /\ \A i \in DOMAIN setup.rows : setup.rows[i] \in ScenarioRow
         /\ setup.elsewhere \subseteq Labels /\ setup.hour \in Hour /\ setup.left \in [SnEvents -> Nat]
<1>1. setup.rows \in Seq(ScenarioRow) /\ setup.elsewhere \subseteq Labels /\ setup.hour \in Hour
      /\ setup.left \in [SnEvents -> Nat]
  BY ScenariosAssumption
<1> HIDE DEF ScenarioRow
<1> QED
  BY <1>1

LEMMA RowTyped ==
  ASSUME SnWorld, NEW a \in Appliers, ap[a].row # 0
  PROVE  /\ Doing(a) = RowOf(ap[a]) /\ ap[a].row \in DOMAIN setup.rows
         /\ RowOf(ap[a]) \in ScenarioRow
         /\ RowOf(ap[a]).label \in Labels \union {NoLabel} /\ RowOf(ap[a]).member \in SnStaff \union {NoOne}
         /\ PrioOf(RowOf(ap[a])) \in Prios \union {Unset}
<1>1. setup \in SnSetups /\ ap[a] \in Application
  BY DEF SnWorld, SnTypeOK, Application
<1>2. ap[a].row \in 1..Len(setup.rows)
  BY <1>1, SetupTyped DEF Application
<1>3. ap[a].row \in DOMAIN setup.rows
  BY <1>1, <1>2, SetupTyped
<1> DEFINE r == setup.rows[ap[a].row]
<1>4. r \in ScenarioRow
  BY <1>1, <1>3, SetupTyped
<1>5. r.label \in Labels \union {NoLabel} /\ r.member \in SnStaff \union {NoOne} /\ r.prio \in Prios \union {Unset}
  BY <1>4 DEF ScenarioRow
<1>6. PrioOf(r) \in Prios \union {Unset}
  BY <1>5 DEF PrioOf, Prios
<1> QED
  BY <1>3, <1>4, <1>5, <1>6 DEF RowOf, Doing

LEMMA SnUsed ==
  ASSUME SnTypeOK, NEW e \in SnEvents, SnUses(e)
  PROVE  snLeft' \in [SnEvents -> Nat]
BY DEF SnTypeOK, SnUses

\* Of an application nothing changes but what was undone.
OnlyUndone(x, y) ==
  /\ x \in Application /\ y \in Application
  /\ y.by = x.by /\ y.pc = x.pc /\ y.row = x.row /\ y.tags = x.tags /\ x.undone \subseteq y.undone

\* What the others do leaves an application as it was, or notes what was undone.
LEMMA OthersLeaveItAlone ==
  ASSUME NEW x, NEW y, ApOK(x), OnlyUndone(x, y), setup' = setup, stirred \subseteq stirred',
         \A l \in Labels : labels[l] = "live" => labels'[l] = "live"
            \/ (x.row # 0 /\ RowOf(x).label = l => "label" \in y.undone),
         \A l \in Labels : worn[l] = "live" => worn'[l] = "live"
            \/ (x.row # 0 /\ RowOf(x).label = l => "label" \in y.undone),
         x.row # 0 => RowOf(x).label \in Labels \union {NoLabel},
         x.row # 0 /\ inCharge = RowOf(x).member => inCharge' = inCharge \/ "member" \in y.undone,
         x.row # 0 /\ prio = PrioOf(RowOf(x)) => prio' = prio \/ "prio" \in y.undone
  PROVE  ApOK(y)'
<1> DEFINE r == RowOf(x)
<1>1. RowOf(y)' = r /\ y.row = x.row /\ y.pc = x.pc /\ y.by = x.by /\ y.tags = x.tags /\ x.undone \subseteq y.undone
  BY DEF RowOf, OnlyUndone
<1>2. OnPath(y)'
  BY <1>1 DEF ApOK, OnPath
<1>3. TagTaken(y)'
  BY <1>1 DEF ApOK, TagTaken
<1>4. MemberTaken(y)'
  BY <1>1 DEF ApOK, MemberTaken
<1>5. PrioTaken(y)'
  BY <1>1 DEF ApOK, PrioTaken
<1>6. RightRow(y)'
  <2>1. WordsFor(y.by)' = WordsFor(x.by)
    BY <1>1 DEF WordsFor
  <2>2. \A q, w, g : Matches(q, w, g)' = Matches(q, w, g)
    BY DEF Matches
  <2>3. \A S : FirstOf(S)' = FirstOf(S)
    BY DEF FirstOf
  <2> HIDE DEF Matches, FirstOf, WordsFor
  <2> QED
    BY <1>1, <2>1, <2>2, <2>3 DEF ApOK, RightRow
<1> QED
  BY <1>2, <1>3, <1>4, <1>5, <1>6 DEF ApOK

\* As long as the conversation is what it was, so is what holds of an application.
LEMMA SameConversation ==
  ASSUME UNCHANGED <<setup, labels, worn, inCharge, prio, stirred>>, NEW z, ApOK(z)
  PROVE  ApOK(z)'
<1>1. OnPath(z)' /\ TagTaken(z)' /\ MemberTaken(z)' /\ PrioTaken(z)'
  BY DEF ApOK, OnPath, TagTaken, MemberTaken, PrioTaken, RowOf
<1>2. RightRow(z)'
  <2>1. WordsFor(z.by)' = WordsFor(z.by)
    BY DEF WordsFor
  <2>2. \A q, w, g : Matches(q, w, g)' = Matches(q, w, g)
    BY DEF Matches
  <2>3. \A S : FirstOf(S)' = FirstOf(S)
    BY DEF FirstOf
  <2> HIDE DEF Matches, FirstOf, WordsFor
  <2> QED
    BY <2>1, <2>2, <2>3 DEF ApOK, RightRow
<1> QED
  BY <1>1, <1>2 DEF ApOK

\* An application takes its next step.
Steps1(a, p) == /\ p \in ApSteps /\ ap \in [Appliers -> Application]
                /\ ap' = [ap EXCEPT ![a].pc = p]

LEMMA Stepping ==
  ASSUME NEW a \in Appliers, NEW p, Steps1(a, p), setup' = setup
  PROVE  /\ ap' \in [Appliers -> Application]
         /\ \A o \in Appliers : o # a => ap'[o] = ap[o]
         /\ ap'[a].pc = p /\ ap'[a].by = ap[a].by /\ ap'[a].row = ap[a].row
         /\ ap'[a].tags = ap[a].tags /\ ap'[a].undone = ap[a].undone
<1> DEFINE y == [ap[a] EXCEPT !.pc = p]
<1>1. ap[a] \in Application
  BY DEF Steps1
<1>2. y \in Application
  BY <1>1 DEF Steps1, Application
<1>3. y.pc = p /\ y.by = ap[a].by /\ y.row = ap[a].row /\ y.tags = ap[a].tags /\ y.undone = ap[a].undone
  BY <1>1 DEF Application
<1>4. ap' = [ap EXCEPT ![a] = y]
  BY DEF Steps1
<1> HIDE DEF y, Application
<1> QED
  BY <1>2, <1>3, <1>4 DEF Steps1

LEMMA ApplicationsTyped ==
  ASSUME SnWorld
  PROVE  ap \in [Appliers -> Application]
BY DEF SnWorld, SnTypeOK, Application

LEMMA UndisturbedStep ==
  ASSUME Undisturbed, NEW a \in Appliers, setup' = setup,
         UNCHANGED <<labels, worn, staff, stirred>>,
         \A o \in Appliers : o # a => ap'[o] = ap[o],
         Underway(a)' => Underway(a),
         stirred = {} /\ ApAt(a, "makeTag")' => labels[RowOf(ap'[a]).label] = "none",
         stirred = {} /\ ApAt(a, "makeLink")' => worn[RowOf(ap'[a]).label] = "none"
  PROVE  Undisturbed'
<1> SUFFICES ASSUME stirred' = {} PROVE
    /\ \A o, b \in Appliers : Underway(o)' /\ Underway(b)' => o = b
    /\ staff = SnStaff
    /\ \A l \in Labels : labels[l] # "gone"
    /\ \A o \in Appliers : /\ ApAt(o, "makeTag")' => labels[RowOf(ap'[o]).label] = "none"
                           /\ ApAt(o, "makeLink")' => worn[RowOf(ap'[o]).label] = "none"
  BY DEF Undisturbed, RowOf, ApAt
<1>1. \A o \in Appliers : Underway(o)' => Underway(o)
  BY DEF Underway
<1>2. \A o \in Appliers : o # a => /\ ApAt(o, "makeTag")' = ApAt(o, "makeTag") /\ ApAt(o, "makeLink")' = ApAt(o, "makeLink")
                                   /\ RowOf(ap'[o]) = RowOf(ap[o])
  BY DEF ApAt, RowOf
<1> QED
  BY <1>1, <1>2 DEF Undisturbed

\* A step that leaves the conversation alone.
LEMMA StepKeeps ==
  ASSUME SnInv, NEW a \in Appliers, NEW p \in ApSteps, ApGoes(a, p),
         UNCHANGED <<setup, labels, worn, inCharge, prio, staff, stirred, snLeft>>, Underway(a),
         OnPath(ap'[a]), TagTaken(ap'[a]), MemberTaken(ap'[a]), PrioTaken(ap'[a]),
         stirred = {} /\ p = "makeTag" => labels[RowOf(ap[a]).label] = "none",
         stirred = {} /\ p = "makeLink" => worn[RowOf(ap[a]).label] = "none"
  PROVE  SnInv'
<1>1. SnWorld /\ Undisturbed /\ ap \in [Appliers -> Application]
  BY ApplicationsTyped DEF SnInv
<1>2. Steps1(a, p)
  BY <1>1 DEF Steps1, ApGoes
<1>3. /\ ap' \in [Appliers -> Application]
      /\ \A o \in Appliers : o # a => ap'[o] = ap[o]
      /\ ap'[a].pc = p /\ ap'[a].by = ap[a].by /\ ap'[a].row = ap[a].row
      /\ ap'[a].tags = ap[a].tags /\ ap'[a].undone = ap[a].undone
  BY <1>2, Stepping
<1>4. SnWorld'
  BY <1>1, <1>3 DEF SnWorld, SnTypeOK, Application
<1>5. ApOK(ap'[a])
  <2>1. RightRow(ap'[a])
    BY <1>3 DEF SnInv, ApOK, RightRow
  <2> QED
    BY <2>1 DEF ApOK
<1>6. \A o \in Appliers : ApOK(ap'[o])
  BY <1>3, <1>5 DEF SnInv
<1>7. \A o \in Appliers : ApOK(ap[o])'
  <2> TAKE o \in Appliers
  <2> DEFINE z == ap'[o]
  <2>1. PICK x : x = z
    OBVIOUS
  <2>2. ApOK(x)
    BY <1>6, <2>1
  <2>3. ApOK(x)'
    BY <2>2, SameConversation
  <2> QED
    BY <2>1, <2>3
<1>8. Undisturbed'
  <2>1. /\ stirred = {} /\ ApAt(a, "makeTag")' => labels[RowOf(ap'[a]).label] = "none"
        /\ stirred = {} /\ ApAt(a, "makeLink")' => worn[RowOf(ap'[a]).label] = "none"
    BY <1>3 DEF ApAt, RowOf
  <2> QED
    BY <1>1, <1>3, <2>1, UndisturbedStep
<1> QED
  BY <1>4, <1>7, <1>8 DEF SnInv

\* Where an application goes when its tag is there, and when its member is in charge.
LEMMA OnAfterMember ==
  ASSUME NEW x, NEW y, x.row # 0, y.row = x.row, y.undone = x.undone, y.by = x.by,
         y.pc = AfterMember(RowOf(x)), Acts(RowOf(x)) \/ RowOf(x).label = NoLabel,
         RowOf(x).label # NoLabel /\ "label" \notin x.undone
           => labels[RowOf(x).label] = "live" /\ worn[RowOf(x).label] = "live",
         RowOf(x).member # NoOne /\ "member" \notin x.undone => inCharge = RowOf(x).member
  PROVE  /\ y.pc \in {"prio", "audit", "done"} /\ OnPath(y) /\ TagTaken(y) /\ MemberTaken(y) /\ PrioTaken(y)
<1> DEFINE r == RowOf(x)
<1>1. RowOf(y) = r
  BY DEF RowOf
<1>2. \/ /\ y.pc = "prio" /\ PrioOf(r) # Unset
      \/ /\ y.pc = "audit" /\ Acts(r) /\ PrioOf(r) = Unset
      \/ /\ y.pc = "done" /\ ~Acts(r) /\ PrioOf(r) = Unset
  BY DEF AfterMember
<1> HIDE DEF r, RowOf, PrioOf, Acts
<1>3. OnPath(y)
  BY <1>1, <1>2 DEF OnPath
<1>4. TagTaken(y) /\ MemberTaken(y)
  BY <1>1, <1>2 DEF TagTaken, MemberTaken, AfterTags, AfterMembers, r
<1>5. PrioTaken(y)
  BY <1>1, <1>2 DEF PrioTaken, r
<1> QED
  BY <1>2, <1>3, <1>4, <1>5

LEMMA OnAfterTag ==
  ASSUME NEW x, NEW y, x.row # 0, y.row = x.row, y.undone = x.undone, y.by = x.by,
         y.pc = AfterTag(RowOf(x)),
         RowOf(x).label # NoLabel /\ "label" \notin x.undone
           => labels[RowOf(x).label] = "live" /\ worn[RowOf(x).label] = "live"
  PROVE  /\ y.pc \in {"member", "prio", "audit", "done"}
         /\ OnPath(y) /\ TagTaken(y) /\ MemberTaken(y) /\ PrioTaken(y)
<1>1. CASE RowOf(x).member # NoOne
  <2>1. y.pc = "member" /\ RowOf(y) = RowOf(x)
    BY <1>1 DEF AfterTag, RowOf
  <2> HIDE DEF RowOf
  <2>2. OnPath(y)
    BY <1>1, <2>1 DEF OnPath
  <2> QED
    BY <2>1, <2>2 DEF TagTaken, MemberTaken, PrioTaken, AfterTags, AfterMembers
<1>2. CASE RowOf(x).member = NoOne
  <2>1. y.pc = AfterMember(RowOf(x))
    BY <1>2 DEF AfterTag
  <2>2. Acts(RowOf(x)) \/ RowOf(x).label = NoLabel
    BY DEF Acts
  <2> HIDE DEF AfterMember, RowOf, Acts
  <2> QED
    BY <1>2, <2>1, <2>2, OnAfterMember
<1> QED
  BY <1>1, <1>2

LEMMA SnWorking ==
  ASSUME SnInv, NEW a \in Appliers
  PROVE  /\ SnWorld /\ Undisturbed /\ ap \in [Appliers -> Application]
         /\ ap[a] \in Application /\ ap[a].pc \in ApSteps
         /\ OnPath(ap[a]) /\ TagTaken(ap[a]) /\ MemberTaken(ap[a]) /\ PrioTaken(ap[a]) /\ RightRow(ap[a])
<1>1. SnWorld /\ Undisturbed /\ ap \in [Appliers -> Application] /\ ApOK(ap[a])
  BY ApplicationsTyped DEF SnInv
<1>2. ap[a].pc \in ApSteps
  BY <1>1 DEF Application
<1> QED
  BY <1>1, <1>2 DEF ApOK

\* A step that goes to p is right if whatever is then at p is.
LEMMA QuietStep ==
  ASSUME SnInv, NEW a \in Appliers, NEW p \in ApSteps, ApGoes(a, p),
         UNCHANGED <<setup, labels, worn, inCharge, prio, staff, stirred, snLeft>>, Underway(a),
         \A y : /\ y.row = ap[a].row /\ y.undone = ap[a].undone /\ y.by = ap[a].by /\ y.pc = p
                => OnPath(y) /\ TagTaken(y) /\ MemberTaken(y) /\ PrioTaken(y),
         stirred = {} /\ p = "makeTag" => labels[RowOf(ap[a]).label] = "none",
         stirred = {} /\ p = "makeLink" => worn[RowOf(ap[a]).label] = "none"
  PROVE  SnInv'
<1>1. ap \in [Appliers -> Application]
  BY SnWorking
<1>2. Steps1(a, p)
  BY <1>1 DEF Steps1, ApGoes
<1>3. ap'[a].row = ap[a].row /\ ap'[a].undone = ap[a].undone /\ ap'[a].by = ap[a].by /\ ap'[a].pc = p
  BY <1>2, Stepping
<1>4. OnPath(ap'[a]) /\ TagTaken(ap'[a]) /\ MemberTaken(ap'[a]) /\ PrioTaken(ap'[a])
  BY <1>3
<1> QED
  BY <1>4, StepKeeps

LEMMA FindTagKeeps ==
  ASSUME SnInv, NEW a \in Appliers, FindTag(a)
  PROVE  SnInv'
<1> DEFINE x == ap[a]
           r == RowOf(x)
           p == IF labels[r.label] = "live" THEN "link" ELSE "makeTag"
<1>1. x.pc = "tag" /\ Underway(a)
  BY DEF FindTag, ApAt, Underway
<1>2. OnPath(x) /\ TagTaken(x) /\ SnWorld /\ Undisturbed
  BY SnWorking
<1>3. x.row # 0 /\ r.label # NoLabel
  BY <1>1, <1>2 DEF OnPath
<1>4. Doing(a) = r /\ r.label \in Labels
  BY <1>2, <1>3, RowTyped
<1>5. /\ ApGoes(a, p) /\ p \in ApSteps
      /\ UNCHANGED <<setup, labels, worn, inCharge, prio, staff, stirred, snLeft>>
  BY <1>4 DEF FindTag, ApSteps
<1>6. stirred = {} /\ p = "makeTag" => labels[r.label] = "none"
  BY <1>2, <1>4 DEF SnWorld, SnTypeOK, RowState, Undisturbed
<1>7. p # "makeLink"
  OBVIOUS
<1>8. ASSUME NEW y, y.row = x.row, y.undone = x.undone, y.by = x.by, y.pc = p
      PROVE  OnPath(y) /\ TagTaken(y) /\ MemberTaken(y) /\ PrioTaken(y)
  <2>1. RowOf(y) = r
    BY <1>8 DEF RowOf
  <2>2. (p = "link" /\ labels[r.label] = "live") \/ p = "makeTag"
    OBVIOUS
  <2> HIDE DEF r, p, RowOf
  <2> QED
    BY <1>3, <1>8, <2>1, <2>2 DEF OnPath, TagTaken, MemberTaken, PrioTaken, AfterTags, AfterMembers
<1> HIDE DEF p
<1> QED
  BY <1>1, <1>5, <1>6, <1>7, <1>8, QuietStep

LEMMA AfterTagIsAStep ==
  ASSUME NEW r
  PROVE  AfterTag(r) \in {"member", "prio", "audit", "done"} /\ AfterMember(r) \in {"prio", "audit", "done"}
         /\ {"member", "prio", "audit", "done", "failed"} \subseteq ApSteps
BY DEF AfterTag, AfterMember, ApSteps

LEMMA LookForLinkKeeps ==
  ASSUME SnInv, NEW a \in Appliers, LookForLink(a)
  PROVE  SnInv'
<1> DEFINE x == ap[a]
           r == RowOf(x)
           p == IF worn[r.label] = "live" THEN AfterTag(r) ELSE IF worn[r.label] = "gone" THEN "revive" ELSE "makeLink"
<1>1. x.pc = "link" /\ Underway(a)
  BY DEF LookForLink, ApAt, Underway
<1>2. OnPath(x) /\ TagTaken(x) /\ SnWorld /\ Undisturbed
  BY SnWorking
<1>3. x.row # 0 /\ r.label # NoLabel /\ ("label" \notin x.undone => labels[r.label] = "live")
  BY <1>1, <1>2 DEF OnPath, TagTaken
<1>4. Doing(a) = r /\ r.label \in Labels
  BY <1>2, <1>3, RowTyped
<1>5. worn[r.label] \in RowState
  BY <1>2, <1>4 DEF SnWorld, SnTypeOK
<1>6. /\ ApGoes(a, p) /\ UNCHANGED <<setup, labels, worn, inCharge, prio, staff, stirred, snLeft>>
  BY <1>4, <1>5 DEF LookForLink, LinkStep, RowState
<1>7. p \in ApSteps
  <2>1. AfterTag(r) \in ApSteps
    BY AfterTagIsAStep
  <2> HIDE DEF r
  <2> QED
    BY <2>1 DEF ApSteps
<1>8. p # "makeTag" /\ (p = "makeLink" => worn[r.label] = "none")
  <2>1. AfterTag(r) \in {"member", "prio", "audit", "done"}
    BY AfterTagIsAStep
  <2> HIDE DEF r
  <2> QED
    BY <1>5, <2>1 DEF RowState
<1>9. ASSUME NEW y, y.row = x.row, y.undone = x.undone, y.by = x.by, y.pc = p
      PROVE  OnPath(y) /\ TagTaken(y) /\ MemberTaken(y) /\ PrioTaken(y)
  <2>1. RowOf(y) = r
    BY <1>9 DEF RowOf
  <2>2. CASE worn[r.label] = "live"
    <3>1. y.pc = AfterTag(r)
      BY <1>9, <2>2
    <3> HIDE DEF p
    <3> QED
      BY <1>3, <1>9, <2>2, <3>1, OnAfterTag
  <2>3. CASE worn[r.label] # "live"
    <3>1. p \in {"revive", "makeLink"}
      BY <2>3
    <3> HIDE DEF p, r, RowOf
    <3> QED
      BY <1>3, <1>9, <2>1, <3>1 DEF OnPath, TagTaken, MemberTaken, PrioTaken, AfterTags, AfterMembers
  <2> QED
    BY <2>2, <2>3
<1> HIDE DEF p
<1> QED
  BY <1>1, <1>6, <1>7, <1>8, <1>9, QuietStep

\* A draft gives up at the first row of the audit log.
LEMMA FailsQuietly ==
  ASSUME NEW x, NEW y, OnPath(x), y.row = x.row, y.undone = x.undone, y.by = x.by, y.pc = "failed",
         stirred # {} \/ (x.by = "draft" /\ x.row # 0 /\ Acts(RowOf(x)))
  PROVE  OnPath(y) /\ TagTaken(y) /\ MemberTaken(y) /\ PrioTaken(y)
<1>1. RowOf(y) = RowOf(x)
  BY DEF RowOf
<1> HIDE DEF RowOf, Acts
<1> QED
  BY <1>1 DEF OnPath, TagTaken, MemberTaken, PrioTaken, AfterTags, AfterMembers

LEMMA AuditTagKeeps ==
  ASSUME SnInv, NEW a \in Appliers, AuditTag(a)
  PROVE  SnInv'
<1> DEFINE x == ap[a]
           r == RowOf(x)
           p == IF x.by = "draft" THEN "failed" ELSE AfterTag(r)
<1>1. x.pc = "tagAudit" /\ Underway(a)
  BY DEF AuditTag, ApAt, Underway
<1>2. OnPath(x) /\ TagTaken(x) /\ SnWorld
  BY SnWorking
<1>3. /\ x.row # 0 /\ r.label # NoLabel
      /\ "label" \notin x.undone => labels[r.label] = "live" /\ worn[r.label] = "live"
  BY <1>1, <1>2 DEF OnPath, TagTaken, AfterTags
<1>4. Doing(a) = r
  BY <1>2, <1>3, RowTyped
<1>5. /\ ApGoes(a, p) /\ UNCHANGED <<setup, labels, worn, inCharge, prio, staff, stirred, snLeft>>
  BY <1>4 DEF AuditTag, Audited
<1>6. p \in {"member", "prio", "audit", "done", "failed"}
  <2>1. AfterTag(r) \in {"member", "prio", "audit", "done"}
    BY AfterTagIsAStep
  <2> HIDE DEF r
  <2> QED
    BY <2>1
<1>7. p \in ApSteps /\ p # "makeTag" /\ p # "makeLink"
  BY <1>6, AfterTagIsAStep
<1>8. ASSUME NEW y, y.row = x.row, y.undone = x.undone, y.by = x.by, y.pc = p
      PROVE  OnPath(y) /\ TagTaken(y) /\ MemberTaken(y) /\ PrioTaken(y)
  <2>1. CASE x.by = "draft"
    <3>1. y.pc = "failed" /\ Acts(r)
      BY <1>3, <1>8, <2>1 DEF Acts
    <3> HIDE DEF p
    <3> QED
      BY <1>2, <1>3, <1>8, <2>1, <3>1, FailsQuietly
  <2>2. CASE x.by # "draft"
    <3>1. y.pc = AfterTag(r)
      BY <1>8, <2>2
    <3> HIDE DEF p
    <3> QED
      BY <1>3, <1>8, <3>1, OnAfterTag
  <2> QED
    BY <2>1, <2>2
<1> HIDE DEF p
<1> QED
  BY <1>1, <1>5, <1>7, <1>8, QuietStep

LEMMA FindMemberKeeps ==
  ASSUME SnInv, NEW a \in Appliers, FindMember(a)
  PROVE  SnInv'
<1> DEFINE x == ap[a]
           r == RowOf(x)
           p == IF r.member \notin staff THEN "failed" ELSE IF inCharge = r.member THEN AfterMember(r) ELSE "assign"
<1>1. x.pc = "member" /\ Underway(a)
  BY DEF FindMember, ApAt, Underway
<1>2. OnPath(x) /\ TagTaken(x) /\ SnWorld /\ Undisturbed
  BY SnWorking
<1>3. /\ x.row # 0 /\ r.member # NoOne
      /\ r.label # NoLabel /\ "label" \notin x.undone => labels[r.label] = "live" /\ worn[r.label] = "live"
  BY <1>1, <1>2 DEF OnPath, TagTaken, AfterTags
<1>4. Doing(a) = r /\ r.member \in SnStaff
  BY <1>2, <1>3, RowTyped
<1>5. /\ ApGoes(a, p) /\ UNCHANGED <<setup, labels, worn, inCharge, prio, staff, stirred, snLeft>>
  BY <1>4 DEF FindMember
<1>6. p \in {"failed", "assign", "prio", "audit", "done"}
  <2>1. AfterMember(r) \in {"prio", "audit", "done"}
    BY AfterTagIsAStep
  <2> HIDE DEF r
  <2> QED
    BY <2>1
<1>7. p \in ApSteps /\ p # "makeTag" /\ p # "makeLink"
  BY <1>6 DEF ApSteps
<1>8. ASSUME NEW y, y.row = x.row, y.undone = x.undone, y.by = x.by, y.pc = p
      PROVE  OnPath(y) /\ TagTaken(y) /\ MemberTaken(y) /\ PrioTaken(y)
  <2>1. CASE r.member \notin staff
    <3>1. y.pc = "failed" /\ stirred # {}
      BY <1>2, <1>4, <1>8, <2>1 DEF Undisturbed
    <3> HIDE DEF p
    <3> QED
      BY <1>2, <1>8, <3>1, FailsQuietly
  <2>2. CASE r.member \in staff /\ inCharge = r.member
    <3>1. y.pc = AfterMember(r) /\ Acts(r)
      BY <1>3, <1>8, <2>2 DEF Acts
    <3> HIDE DEF p
    <3> QED
      BY <1>3, <1>8, <2>2, <3>1, OnAfterMember
  <2>3. CASE r.member \in staff /\ inCharge # r.member
    <3>1. y.pc = "assign" /\ RowOf(y) = r
      BY <1>8, <2>3 DEF RowOf
    <3> HIDE DEF p, r, RowOf
    <3> QED
      BY <1>2, <1>3, <1>8, <3>1 DEF OnPath, TagTaken, MemberTaken, PrioTaken, AfterTags, AfterMembers, r
  <2> QED
    BY <2>1, <2>2, <2>3
<1> HIDE DEF p
<1> QED
  BY <1>1, <1>5, <1>7, <1>8, QuietStep

LEMMA AuditAssignmentKeeps ==
  ASSUME SnInv, NEW a \in Appliers, AuditAssignment(a)
  PROVE  SnInv'
<1> DEFINE x == ap[a]
           r == RowOf(x)
           p == IF x.by = "draft" THEN "failed" ELSE AfterMember(r)
<1>1. x.pc = "assignAudit" /\ Underway(a)
  BY DEF AuditAssignment, ApAt, Underway
<1>2. OnPath(x) /\ TagTaken(x) /\ MemberTaken(x) /\ SnWorld
  BY SnWorking
<1>3. /\ x.row # 0 /\ r.member # NoOne /\ ("member" \notin x.undone => inCharge = r.member)
      /\ r.label # NoLabel /\ "label" \notin x.undone => labels[r.label] = "live" /\ worn[r.label] = "live"
  BY <1>1, <1>2 DEF OnPath, TagTaken, MemberTaken, AfterTags, AfterMembers
<1>4. Doing(a) = r /\ Acts(r)
  BY <1>2, <1>3, RowTyped DEF Acts
<1>5. /\ ApGoes(a, p) /\ UNCHANGED <<setup, labels, worn, inCharge, prio, staff, stirred, snLeft>>
  BY <1>4 DEF AuditAssignment, Audited
<1>6. p \in {"failed", "prio", "audit", "done"}
  <2>1. AfterMember(r) \in {"prio", "audit", "done"}
    BY AfterTagIsAStep
  <2> HIDE DEF r
  <2> QED
    BY <2>1
<1>7. p \in ApSteps /\ p # "makeTag" /\ p # "makeLink"
  BY <1>6 DEF ApSteps
<1>8. ASSUME NEW y, y.row = x.row, y.undone = x.undone, y.by = x.by, y.pc = p
      PROVE  OnPath(y) /\ TagTaken(y) /\ MemberTaken(y) /\ PrioTaken(y)
  <2>1. CASE x.by = "draft"
    <3>1. y.pc = "failed"
      BY <1>8, <2>1
    <3> HIDE DEF p
    <3> QED
      BY <1>2, <1>3, <1>4, <1>8, <2>1, <3>1, FailsQuietly
  <2>2. CASE x.by # "draft"
    <3>1. y.pc = AfterMember(r)
      BY <1>8, <2>2
    <3> HIDE DEF p
    <3> QED
      BY <1>3, <1>4, <1>8, <3>1, OnAfterMember
  <2> QED
    BY <2>1, <2>2
<1> HIDE DEF p
<1> QED
  BY <1>1, <1>5, <1>7, <1>8, QuietStep

LEMMA AuditMatchKeeps ==
  ASSUME SnInv, NEW a \in Appliers, AuditMatch(a)
  PROVE  SnInv'
<1> DEFINE x == ap[a]
           r == RowOf(x)
           p == IF x.by = "draft" THEN "failed" ELSE "done"
<1>1. x.pc = "audit" /\ Underway(a)
  BY DEF AuditMatch, ApAt, Underway
<1>2. OnPath(x) /\ TagTaken(x) /\ MemberTaken(x) /\ PrioTaken(x)
  BY SnWorking
<1>3. x.row # 0 /\ Acts(r)
  BY <1>1, <1>2 DEF OnPath
<1>4. /\ ApGoes(a, p) /\ UNCHANGED <<setup, labels, worn, inCharge, prio, staff, stirred, snLeft>>
  BY DEF AuditMatch, Audited
<1>5. p \in ApSteps /\ p # "makeTag" /\ p # "makeLink"
  BY DEF ApSteps
<1>6. ASSUME NEW y, y.row = x.row, y.undone = x.undone, y.by = x.by, y.pc = p
      PROVE  OnPath(y) /\ TagTaken(y) /\ MemberTaken(y) /\ PrioTaken(y)
  <2>1. CASE x.by = "draft"
    <3>1. y.pc = "failed"
      BY <1>6, <2>1
    <3> HIDE DEF p
    <3> QED
      BY <1>2, <1>3, <1>6, <2>1, <3>1, FailsQuietly
  <2>2. CASE x.by # "draft"
    <3>1. y.pc = "done" /\ RowOf(y) = r /\ y.by # "draft"
      BY <1>6, <2>2 DEF RowOf
    <3> HIDE DEF p, r, RowOf
    <3> QED
      BY <1>1, <1>2, <1>6, <3>1 DEF OnPath, TagTaken, MemberTaken, PrioTaken, AfterTags, AfterMembers, r
  <2> QED
    BY <2>1, <2>2
<1> HIDE DEF p
<1> QED
  BY <1>1, <1>4, <1>5, <1>6, QuietStep

\* Whoever does not step keeps what it has, as far as it is not undone.
LEMMA OtherIsLeftAlone ==
  ASSUME SnInv, NEW o \in Appliers, OnlyUndone(ap[o], ap'[o]), setup' = setup, stirred \subseteq stirred',
         \A l \in Labels : labels[l] = "live" => labels'[l] = "live"
            \/ (ap[o].row # 0 /\ RowOf(ap[o]).label = l => "label" \in ap'[o].undone),
         \A l \in Labels : worn[l] = "live" => worn'[l] = "live"
            \/ (ap[o].row # 0 /\ RowOf(ap[o]).label = l => "label" \in ap'[o].undone),
         ap[o].row # 0 /\ inCharge = RowOf(ap[o]).member => inCharge' = inCharge \/ "member" \in ap'[o].undone,
         ap[o].row # 0 /\ prio = PrioOf(RowOf(ap[o])) => prio' = prio \/ "prio" \in ap'[o].undone
  PROVE  ApOK(ap[o])'
<1>1. ap[o].row # 0 => RowOf(ap[o]).label \in Labels \union {NoLabel}
  BY SnWorking, RowTyped
<1>2. ApOK(ap[o])
  BY DEF SnInv
<1>3. PICK x, y : x = ap[o] /\ y = ap'[o]
  OBVIOUS
<1> HIDE DEF ApOK, RowOf, OnlyUndone, PrioOf
<1>4. ApOK(y)'
  BY <1>1, <1>2, <1>3, OthersLeaveItAlone
<1> QED
  BY <1>3, <1>4 DEF ApOK

LEMMA SameIsOnlyUndone ==
  ASSUME NEW o, ap[o] \in Application, ap'[o] = ap[o]
  PROVE  OnlyUndone(ap[o], ap'[o])
<1> HIDE DEF Application
<1> QED
  BY DEF OnlyUndone

\* One application steps, and no tag is deleted.
LEMMA UndisturbedMove ==
  ASSUME Undisturbed, NEW a \in Appliers, Underway(a), \A o \in Appliers : o # a => ap'[o].pc = ap[o].pc,
         staff' = staff, stirred \subseteq stirred',
         stirred' = {} => \A l \in Labels : labels'[l] # "gone",
         ap'[a].pc \notin {"makeTag", "makeLink"}
  PROVE  Undisturbed'
<1> SUFFICES ASSUME stirred' = {} PROVE
    /\ \A o, b \in Appliers : Underway(o)' /\ Underway(b)' => o = b
    /\ staff' = SnStaff
    /\ \A l \in Labels : labels'[l] # "gone"
    /\ \A o \in Appliers : ~ApAt(o, "makeTag")' /\ ~ApAt(o, "makeLink")'
  BY DEF Undisturbed
<1>1. stirred = {}
  OBVIOUS
<1>2. \A o \in Appliers : o # a => ~Underway(o)
  BY <1>1 DEF Undisturbed
<1>3. \A o \in Appliers : o # a => ~Underway(o)' /\ ~ApAt(o, "makeTag")' /\ ~ApAt(o, "makeLink")'
  BY <1>2 DEF Underway, ApAt
<1>4. ~ApAt(a, "makeTag")' /\ ~ApAt(a, "makeLink")'
  BY DEF ApAt
<1> QED
  BY <1>1, <1>3, <1>4 DEF Undisturbed

LEMMA StartApplyingKeeps ==
  ASSUME SnInv, NEW a \in Appliers, NEW by \in Sources, StartApplying(a, by)
  PROVE  SnInv'
<1> DEFINE y == [NoAp EXCEPT !.by = by, !.pc = "match", !.tags = TagsFor(by)]
<1>1. SnWorld /\ Undisturbed /\ ap \in [Appliers -> Application]
  BY SnWorking
<1>2. TagsFor(by) \subseteq Labels
  BY <1>1, SetupTyped DEF TagsFor, Worn, SnWorld
<1>3. y \in Application
  <2>1. 0 \in 0..Len(setup.rows)
    <3>1. Len(setup.rows) \in Nat
      BY <1>1, SetupTyped DEF SnWorld
    <3> QED
      BY <3>1
  <2>2. "match" \in ApSteps
    BY DEF ApSteps
  <2>3. PICK T : T = TagsFor(by)
    OBVIOUS
  <2>4. [NoAp EXCEPT !.by = by, !.pc = "match", !.tags = T] \in Application
    BY <1>2, <2>1, <2>2, <2>3 DEF NoAp, Application
  <2> QED
    BY <2>3, <2>4
<1>4. y.pc = "match" /\ y.row = 0
  BY DEF NoAp
<1>5. ap' = [ap EXCEPT ![a] = y] /\ UNCHANGED <<setup, labels, worn, inCharge, prio, staff>> /\ stirred \subseteq stirred'
  BY DEF StartApplying
<1> HIDE DEF y, Application
<1>6. ap' \in [Appliers -> Application] /\ ap'[a] = y /\ \A o \in Appliers : o # a => ap'[o] = ap[o]
  BY <1>1, <1>3, <1>5
<1>7. SnWorld'
  <2>1. snLeft' \in [SnEvents -> Nat]
    BY <1>1, SnUsed DEF StartApplying, SnWorld, SnEvents
  <2>2. stirred' \subseteq {"beside", "deleted", "left", "fault"}
    BY <1>1 DEF StartApplying, SnWorld, SnTypeOK
  <2> QED
    BY <1>1, <1>5, <1>6, <2>1, <2>2 DEF SnWorld, SnTypeOK, Application
<1>8. \A o \in Appliers : ApOK(ap[o])'
  <2> TAKE o \in Appliers
  <2>1. CASE o = a
    <3>1. ap'[o].pc = "match" /\ ap'[o].row = 0
      BY <1>4, <1>6, <2>1
    <3> QED
      BY <3>1 DEF ApOK, OnPath, TagTaken, MemberTaken, PrioTaken, RightRow
  <2>2. CASE o # a
    <3>1. OnlyUndone(ap[o], ap'[o])
      BY <1>1, <1>6, <2>2, SameIsOnlyUndone
    <3> QED
      BY <1>5, <3>1, OtherIsLeftAlone
  <2> QED
    BY <2>1, <2>2
<1>9. Undisturbed'
  <2>1. ASSUME stirred' = {} PROVE stirred = {} /\ \A o \in Appliers : o # a => ~Underway(o)
    BY <2>1 DEF StartApplying
  <2>2. ~ApAt(a, "makeTag")' /\ ~ApAt(a, "makeLink")'
    BY <1>4, <1>6 DEF ApAt
  <2>3. \A o \in Appliers : o # a => Underway(o)' = Underway(o)
    BY <1>6 DEF Underway
  <2>4. ASSUME stirred' = {}, NEW o \in Appliers, o # a PROVE ~ApAt(o, "makeTag")' /\ ~ApAt(o, "makeLink")'
    BY <1>6, <2>1, <2>4 DEF ApAt, Underway
  <2> HIDE DEF ApAt, Underway
  <2>5. stirred' = {} => \A o, b \in Appliers : Underway(o)' /\ Underway(b)' => o = b
    BY <2>1, <2>3
  <2>6. stirred' = {} => \A o \in Appliers : ~ApAt(o, "makeTag")' /\ ~ApAt(o, "makeLink")'
    BY <2>2, <2>4
  <2> QED
    BY <1>1, <1>5, <2>1, <2>5, <2>6 DEF Undisturbed
<1> QED
  BY <1>7, <1>8, <1>9 DEF SnInv

\* An application steps and changes the conversation for the better.
LEMMA MovingStep ==
  ASSUME SnInv, NEW a \in Appliers, NEW y \in Application, ap' = [ap EXCEPT ![a] = y], Underway(a),
         UNCHANGED <<setup, inCharge, prio, staff, stirred, snLeft>>,
         labels' \in [Labels -> RowState], worn' \in [Labels -> RowState],
         \A l \in Labels : labels'[l] = labels[l] \/ labels'[l] = "live",
         \A l \in Labels : worn'[l] = worn[l] \/ worn'[l] = "live",
         y.pc \notin {"makeTag", "makeLink"}, ApOK(y)'
  PROVE  SnInv'
<1> HIDE DEF Application
<1>1. SnWorld /\ Undisturbed /\ ap \in [Appliers -> Application]
  BY SnWorking
<1>2. ap' \in [Appliers -> Application] /\ ap'[a] = y /\ \A o \in Appliers : o # a => ap'[o] = ap[o]
  BY <1>1
<1>3. SnWorld'
  BY <1>1, <1>2 DEF SnWorld, SnTypeOK, Application
<1>4. \A o \in Appliers : ApOK(ap[o])'
  <2> TAKE o \in Appliers
  <2>1. CASE o = a
    BY <1>2, <2>1 DEF ApOK
  <2>2. CASE o # a
    <3>1. OnlyUndone(ap[o], ap'[o])
      BY <1>1, <1>2, <2>2, SameIsOnlyUndone
    <3> QED
      BY <3>1, OtherIsLeftAlone
  <2> QED
    BY <2>1, <2>2
<1>5. stirred' = {} => \A l \in Labels : labels'[l] # "gone"
  BY <1>1 DEF Undisturbed
<1>6. Undisturbed'
  BY <1>1, <1>2, <1>5, UndisturbedMove
<1> QED
  BY <1>3, <1>4, <1>6 DEF SnInv

LEMMA MakeLabelKeeps ==
  ASSUME SnInv, NEW a \in Appliers, MakeLabel(a)
  PROVE  SnInv'
<1> DEFINE x == ap[a]
           r == RowOf(x)
           y == [x EXCEPT !.pc = "link"]
<1>1. x.pc = "makeTag" /\ Underway(a)
  BY DEF MakeLabel, ApAt, Underway
<1>2. OnPath(x) /\ RightRow(x) /\ SnWorld /\ Undisturbed /\ x \in Application /\ ap \in [Appliers -> Application]
  BY SnWorking
<1>3. x.row # 0 /\ r.label # NoLabel
  BY <1>1, <1>2 DEF OnPath
<1>4. Doing(a) = r /\ r.label \in Labels
  BY <1>2, <1>3, RowTyped
<1>5. CASE labels[r.label] = "none"
  <2>1. labels' = [labels EXCEPT ![r.label] = "live"] /\ ApGoes(a, "link")
        /\ UNCHANGED <<setup, worn, inCharge, prio, staff, stirred, snLeft>>
    BY <1>4, <1>5 DEF MakeLabel
  <2>2. ap' = [ap EXCEPT ![a] = y]
    BY <2>1 DEF ApGoes
  <2>3. /\ y \in Application /\ y.pc = "link" /\ y.row = x.row /\ y.by = x.by /\ y.tags = x.tags
        /\ y.undone = x.undone
    BY <1>2 DEF Application, ApSteps
  <2>4. PICK z : z = y
    OBVIOUS
  <2>5. z.pc = "link" /\ z.row = x.row /\ z.by = x.by /\ z.tags = x.tags /\ z.undone = x.undone /\ z \in Application
    BY <2>3, <2>4
  <2>6. labels \in [Labels -> RowState] /\ worn \in [Labels -> RowState]
    BY <1>2 DEF SnWorld, SnTypeOK
  <2>7. labels' \in [Labels -> RowState] /\ worn' \in [Labels -> RowState] /\ labels'[r.label] = "live"
        /\ \A l \in Labels : labels'[l] = labels[l] \/ labels'[l] = "live"
    BY <1>4, <2>1, <2>6 DEF RowState
  <2> HIDE DEF y, x, r, Application
  <2>8. RowOf(z)' = r
    BY <2>1, <2>5 DEF RowOf, r, x
  <2>9. RightRow(z)'
    BY <1>2, <2>1, <2>5 DEF RightRow, WordsFor, Matches, FirstOf
  <2>10. ApOK(z)'
    BY <1>3, <2>5, <2>7, <2>8, <2>9 DEF ApOK, OnPath, TagTaken, MemberTaken, PrioTaken, AfterTags, AfterMembers
  <2>11. ap' = [ap EXCEPT ![a] = z]
    BY <2>2, <2>4
  <2> QED
    BY <1>1, <2>1, <2>5, <2>7, <2>10, <2>11, MovingStep
<1>6. CASE labels[r.label] # "none"
  <2>1. ApGoes(a, "failed") /\ UNCHANGED <<setup, labels, worn, inCharge, prio, staff, stirred, snLeft>>
    BY <1>4, <1>6 DEF MakeLabel
  <2>2. stirred # {}
    BY <1>1, <1>2, <1>6 DEF Undisturbed, ApAt
  <2>3. ASSUME NEW y1, y1.row = x.row, y1.undone = x.undone, y1.by = x.by, y1.pc = "failed"
        PROVE  OnPath(y1) /\ TagTaken(y1) /\ MemberTaken(y1) /\ PrioTaken(y1)
    BY <1>2, <2>2, <2>3, FailsQuietly
  <2>4. "failed" \in ApSteps
    BY DEF ApSteps
  <2> QED
    BY <1>1, <2>1, <2>3, <2>4, QuietStep
<1> QED
  BY <1>5, <1>6

\* The link is made, or made anew.
LEMMA LinkIsMade ==
  ASSUME SnInv, NEW a \in Appliers, ap[a].pc \in {"revive", "makeLink"},
         worn' = [worn EXCEPT ![Doing(a).label] = "live"], ApGoes(a, "tagAudit"),
         UNCHANGED <<setup, labels, inCharge, prio, staff, stirred, snLeft>>
  PROVE  SnInv'
<1> DEFINE x == ap[a]
           r == RowOf(x)
           y == [x EXCEPT !.pc = "tagAudit"]
<1>1. Underway(a)
  BY DEF Underway
<1>2. /\ OnPath(x) /\ TagTaken(x) /\ RightRow(x) /\ SnWorld /\ Undisturbed /\ x \in Application
      /\ ap \in [Appliers -> Application]
  BY SnWorking
<1>3. x.row # 0 /\ r.label # NoLabel /\ ("label" \notin x.undone => labels[r.label] = "live")
  BY <1>2 DEF OnPath, TagTaken
<1>4. Doing(a) = r /\ r.label \in Labels
  BY <1>2, <1>3, RowTyped
<1>5. ap' = [ap EXCEPT ![a] = y]
  BY DEF ApGoes
<1>6. /\ y \in Application /\ y.pc = "tagAudit" /\ y.row = x.row /\ y.by = x.by /\ y.tags = x.tags
      /\ y.undone = x.undone
  BY <1>2 DEF Application, ApSteps
<1>7. PICK z : z = y
  OBVIOUS
<1>8. z.pc = "tagAudit" /\ z.row = x.row /\ z.by = x.by /\ z.tags = x.tags /\ z.undone = x.undone /\ z \in Application
  BY <1>6, <1>7
<1>9. labels \in [Labels -> RowState] /\ worn \in [Labels -> RowState]
  BY <1>2 DEF SnWorld, SnTypeOK
<1>10. worn' \in [Labels -> RowState] /\ labels' \in [Labels -> RowState] /\ worn'[r.label] = "live"
       /\ \A l \in Labels : worn'[l] = worn[l] \/ worn'[l] = "live"
  BY <1>4, <1>9 DEF RowState
<1> HIDE DEF y, x, r, Application
<1>11. RowOf(z)' = r
  BY <1>8 DEF RowOf, r, x
<1>12. RightRow(z)'
  BY <1>2, <1>8 DEF RightRow, WordsFor, Matches, FirstOf
<1>13. ApOK(z)'
  BY <1>3, <1>8, <1>10, <1>11, <1>12 DEF ApOK, OnPath, TagTaken, MemberTaken, PrioTaken, AfterTags, AfterMembers
<1>14. ap' = [ap EXCEPT ![a] = z]
  BY <1>5, <1>7
<1> QED
  BY <1>1, <1>8, <1>10, <1>13, <1>14, MovingStep

LEMMA ReviveLinkKeeps ==
  ASSUME SnInv, NEW a \in Appliers, ReviveLink(a)
  PROVE  SnInv'
BY LinkIsMade DEF ReviveLink, ApAt

LEMMA MakeLinkKeeps ==
  ASSUME SnInv, NEW a \in Appliers, MakeLink(a)
  PROVE  SnInv'
<1> DEFINE x == ap[a]
           r == RowOf(x)
<1>1. x.pc = "makeLink" /\ Underway(a)
  BY DEF MakeLink, ApAt, Underway
<1>2. OnPath(x) /\ SnWorld /\ Undisturbed
  BY SnWorking
<1>3. x.row # 0 /\ Doing(a) = r
  BY <1>1, <1>2, RowTyped DEF OnPath
<1>4. CASE worn[r.label] = "none"
  BY <1>1, <1>3, <1>4, LinkIsMade DEF MakeLink
<1>5. CASE worn[r.label] # "none"
  <2>1. ApGoes(a, "failed") /\ UNCHANGED <<setup, labels, worn, inCharge, prio, staff, stirred, snLeft>>
    BY <1>3, <1>5 DEF MakeLink
  <2>2. stirred # {}
    BY <1>1, <1>2, <1>5 DEF Undisturbed, ApAt
  <2>3. ASSUME NEW y1, y1.row = x.row, y1.undone = x.undone, y1.by = x.by, y1.pc = "failed"
        PROVE  OnPath(y1) /\ TagTaken(y1) /\ MemberTaken(y1) /\ PrioTaken(y1)
    BY <1>2, <2>2, <2>3, FailsQuietly
  <2>4. "failed" \in ApSteps
    BY DEF ApSteps
  <2> QED
    BY <1>1, <2>1, <2>3, <2>4, QuietStep
<1> QED
  BY <1>4, <1>5

\* What somebody does to the conversation is noted with those it overrules.
Noted(w, S) ==
  /\ ap' \in [Appliers -> Application]
  /\ \A o \in Appliers : OnlyUndone(ap[o], ap'[o]) /\ (o \in S => w \in ap'[o].undone)

LEMMA OverruledIsNoted ==
  ASSUME ap \in [Appliers -> Application], NEW w \in {"label", "member", "prio"}, NEW S, setup' = setup,
         ap' = Overruled(w, S)
  PROVE  Noted(w, S)
<1>1. ASSUME NEW o \in Appliers
      PROVE  ap'[o] \in Application /\ OnlyUndone(ap[o], ap'[o]) /\ (o \in S => w \in ap'[o].undone)
  <2> DEFINE z == [ap[o] EXCEPT !.undone = @ \union {w}]
  <2>1. ap[o] \in Application
    OBVIOUS
  <2>2. /\ z \in Application /\ z.by = ap[o].by /\ z.pc = ap[o].pc /\ z.row = ap[o].row /\ z.tags = ap[o].tags
        /\ z.undone = ap[o].undone \union {w}
    BY <2>1 DEF Application
  <2>3. ap'[o] = IF o \in S THEN z ELSE ap[o]
    BY DEF Overruled
  <2> HIDE DEF z, Application
  <2> QED
    BY <2>1, <2>2, <2>3 DEF OnlyUndone
<1>2. ap' = [o \in Appliers |-> ap'[o]]
  BY DEF Overruled
<1>3. ap' \in [Appliers -> Application]
  BY <1>1, <1>2
<1> HIDE DEF Application
<1> QED
  BY <1>1, <1>3 DEF Noted

\* An application does what overrules others.
Prevails(a, w, S, p) ==
  /\ ap' \in [Appliers -> Application]
  /\ \A o \in Appliers : o # a => OnlyUndone(ap[o], ap'[o]) /\ (o \in S => w \in ap'[o].undone)
  /\ ap'[a].pc = p /\ ap'[a].row = ap[a].row /\ ap'[a].by = ap[a].by /\ ap'[a].tags = ap[a].tags
  /\ ap'[a].undone \union {w} = ap[a].undone \union {w}

LEMMA WhoPrevails ==
  ASSUME ap \in [Appliers -> Application], NEW a \in Appliers, NEW w \in {"label", "member", "prio"}, NEW S, a \notin S,
         NEW p \in ApSteps, ap' = [Overruled(w, S) EXCEPT ![a].pc = p, ![a].undone = @ \ {w}]
  PROVE  Prevails(a, w, S, p)
<1> DEFINE f == Overruled(w, S)
           y == [ap[a] EXCEPT !.pc = p, !.undone = @ \ {w}]
<1>1. f = [o \in Appliers |-> IF o \in S THEN [ap[o] EXCEPT !.undone = @ \union {w}] ELSE ap[o]]
  BY DEF Overruled
<1>2. f[a] = ap[a] /\ ap[a] \in Application
  BY <1>1
<1>3. /\ y \in Application /\ y.pc = p /\ y.by = ap[a].by /\ y.row = ap[a].row /\ y.tags = ap[a].tags
      /\ y.undone = ap[a].undone \ {w}
  BY <1>2 DEF Application
<1>4. ap' = [f EXCEPT ![a] = y]
  BY <1>1, <1>2
<1>5. ASSUME NEW o \in Appliers, o # a
      PROVE  /\ ap'[o] \in Application /\ OnlyUndone(ap[o], ap'[o]) /\ (o \in S => w \in ap'[o].undone)
  <2> DEFINE z == [ap[o] EXCEPT !.undone = @ \union {w}]
  <2>1. ap[o] \in Application
    OBVIOUS
  <2>2. /\ z \in Application /\ z.by = ap[o].by /\ z.pc = ap[o].pc /\ z.row = ap[o].row /\ z.tags = ap[o].tags
        /\ z.undone = ap[o].undone \union {w}
    BY <2>1 DEF Application
  <2>3. ap'[o] = IF o \in S THEN z ELSE ap[o]
    BY <1>1, <1>4, <1>5
  <2> HIDE DEF z, Application, f, y
  <2> QED
    BY <2>1, <2>2, <2>3 DEF OnlyUndone
<1>6. ap'[a] = y
  BY <1>1, <1>4
<1>7. ap' = [o \in Appliers |-> ap'[o]]
  BY <1>1, <1>4
<1> HIDE DEF y, f, Application
<1>8. \A o \in Appliers : ap'[o] \in Application
  BY <1>3, <1>5, <1>6
<1>9. ap' \in [Appliers -> Application]
  BY <1>7, <1>8
<1> QED
  BY <1>3, <1>5, <1>6, <1>9 DEF Prevails

LEMMA AssignMemberKeeps ==
  ASSUME SnInv, NEW a \in Appliers, AssignMember(a)
  PROVE  SnInv'
<1> DEFINE x == ap[a]
           r == RowOf(x)
           S == OfOther(r.member)
<1>1. x.pc = "assign" /\ Underway(a)
  BY DEF AssignMember, ApAt, Underway
<1>2. /\ OnPath(x) /\ TagTaken(x) /\ RightRow(x) /\ SnWorld /\ Undisturbed /\ x \in Application
      /\ ap \in [Appliers -> Application]
  BY SnWorking
<1>3. /\ x.row # 0 /\ r.member # NoOne
      /\ r.label # NoLabel /\ "label" \notin x.undone => labels[r.label] = "live" /\ worn[r.label] = "live"
  BY <1>1, <1>2 DEF OnPath, TagTaken, AfterTags
<1>4. Doing(a) = r /\ r.member \in SnStaff
  BY <1>2, <1>3, RowTyped
<1>5. /\ inCharge' = r.member /\ UNCHANGED <<setup, labels, worn, prio, staff, stirred, snLeft>>
      /\ ap' = [Overruled("member", S) EXCEPT ![a].pc = "assignAudit", ![a].undone = @ \ {"member"}]
  BY <1>4 DEF AssignMember
<1>6. a \notin S /\ "assignAudit" \in ApSteps
  BY <1>4 DEF OfOther, ApSteps
<1>7. Prevails(a, "member", S, "assignAudit")
  <2> HIDE DEF S, r, x, Application
  <2> QED
    BY <1>2, <1>5, <1>6, WhoPrevails
<1>8. SnWorld'
  BY <1>2, <1>4, <1>5, <1>7 DEF SnWorld, SnTypeOK, Application, Prevails
<1>9. \A o \in Appliers : ApOK(ap[o])'
  <2> TAKE o \in Appliers
  <2>1. CASE o = a
    <3>1. PICK z : z = ap'[a]
      OBVIOUS
    <3>2. z.pc = "assignAudit" /\ z.row = x.row /\ z.by = x.by /\ z.tags = x.tags
          /\ z.undone \union {"member"} = x.undone \union {"member"}
      BY <1>7, <3>1 DEF Prevails
    <3>3. RowOf(z)' = r
      BY <1>5, <3>2 DEF RowOf
    <3> HIDE DEF r, x, S
    <3>4. RightRow(z)'
      BY <1>2, <1>5, <3>2 DEF RightRow, WordsFor, Matches, FirstOf
    <3>5. "label" \in z.undone <=> "label" \in x.undone
      BY <3>2
    <3>6. ApOK(z)'
      BY <1>3, <1>5, <3>2, <3>3, <3>4, <3>5
         DEF ApOK, OnPath, TagTaken, MemberTaken, PrioTaken, AfterTags, AfterMembers
    <3> QED
      BY <2>1, <3>1, <3>6 DEF ApOK
  <2>2. CASE o # a
    <3>1. OnlyUndone(ap[o], ap'[o]) /\ (o \in S => "member" \in ap'[o].undone)
      BY <1>7, <2>2 DEF Prevails
    <3>2. ap[o].row # 0 /\ inCharge = RowOf(ap[o]).member => inCharge' = inCharge \/ "member" \in ap'[o].undone
      BY <1>5, <3>1 DEF OfOther, Chose, Doing, RowOf
    <3> QED
      BY <1>5, <3>1, <3>2, OtherIsLeftAlone
  <2> QED
    BY <2>1, <2>2
<1>10. Undisturbed'
  <2>1. \A o \in Appliers : o # a => ap'[o].pc = ap[o].pc
    BY <1>7 DEF Prevails, OnlyUndone
  <2>2. ap'[a].pc = "assignAudit"
    BY <1>7 DEF Prevails
  <2>3. stirred' = {} => \A l \in Labels : labels'[l] # "gone"
    BY <1>2, <1>5 DEF Undisturbed
  <2> QED
    BY <1>1, <1>2, <1>5, <2>1, <2>2, <2>3, UndisturbedMove
<1> QED
  BY <1>8, <1>9, <1>10 DEF SnInv

LEMMA SetPrioKeeps ==
  ASSUME SnInv, NEW a \in Appliers, SetPrio(a)
  PROVE  SnInv'
<1> DEFINE x == ap[a]
           r == RowOf(x)
           S == OfOtherPrio(PrioOf(r))
<1>1. x.pc = "prio" /\ Underway(a)
  BY DEF SetPrio, ApAt, Underway
<1>2. /\ OnPath(x) /\ TagTaken(x) /\ MemberTaken(x) /\ RightRow(x) /\ SnWorld /\ Undisturbed /\ x \in Application
      /\ ap \in [Appliers -> Application]
  BY SnWorking
<1>3. /\ x.row # 0 /\ PrioOf(r) # Unset
  BY <1>1, <1>2 DEF OnPath
<1>4. /\ r.label # NoLabel /\ "label" \notin x.undone => labels[r.label] = "live" /\ worn[r.label] = "live"
  BY <1>1, <1>2, <1>3 DEF TagTaken, AfterTags
<1>5. r.member # NoOne /\ "member" \notin x.undone => inCharge = r.member
  BY <1>1, <1>2, <1>3 DEF MemberTaken, AfterMembers
<1>6. Doing(a) = r /\ PrioOf(r) \in Prios /\ Acts(r)
  BY <1>2, <1>3, RowTyped DEF Acts
<1>7. /\ prio' = PrioOf(r) /\ UNCHANGED <<setup, labels, worn, inCharge, staff, stirred, snLeft>>
      /\ ap' = [Overruled("prio", S) EXCEPT ![a].pc = "audit", ![a].undone = @ \ {"prio"}]
  BY <1>6 DEF SetPrio
<1>8. a \notin S /\ "audit" \in ApSteps
  BY <1>6 DEF OfOtherPrio, ApSteps
<1>9. Prevails(a, "prio", S, "audit")
  <2> HIDE DEF S, r, x, Application
  <2> QED
    BY <1>2, <1>7, <1>8, WhoPrevails
<1>10. SnWorld'
  BY <1>2, <1>6, <1>7, <1>9 DEF SnWorld, SnTypeOK, Application, Prevails
<1>11. \A o \in Appliers : ApOK(ap[o])'
  <2> TAKE o \in Appliers
  <2>1. CASE o = a
    <3>1. PICK z : z = ap'[a]
      OBVIOUS
    <3>2. z.pc = "audit" /\ z.row = x.row /\ z.by = x.by /\ z.tags = x.tags
          /\ z.undone \union {"prio"} = x.undone \union {"prio"}
      BY <1>9, <3>1 DEF Prevails
    <3>3. RowOf(z)' = r
      BY <1>7, <3>2 DEF RowOf
    <3> HIDE DEF r, x, S
    <3>4. RightRow(z)'
      BY <1>2, <1>7, <3>2 DEF RightRow, WordsFor, Matches, FirstOf
    <3>5. ("label" \in z.undone <=> "label" \in x.undone) /\ ("member" \in z.undone <=> "member" \in x.undone)
      BY <3>2
    <3> HIDE DEF PrioOf, Acts
    <3>6. ApOK(z)'
      BY <1>3, <1>4, <1>5, <1>6, <1>7, <3>2, <3>3, <3>4, <3>5
         DEF ApOK, OnPath, TagTaken, MemberTaken, PrioTaken, AfterTags, AfterMembers
    <3> QED
      BY <2>1, <3>1, <3>6 DEF ApOK
  <2>2. CASE o # a
    <3>1. OnlyUndone(ap[o], ap'[o]) /\ (o \in S => "prio" \in ap'[o].undone)
      BY <1>9, <2>2 DEF Prevails
    <3>2. ap[o].row # 0 /\ prio = PrioOf(RowOf(ap[o])) => prio' = prio \/ "prio" \in ap'[o].undone
      BY <1>7, <3>1 DEF OfOtherPrio, Chose, Doing, RowOf
    <3> QED
      BY <1>7, <3>1, <3>2, OtherIsLeftAlone
  <2> QED
    BY <2>1, <2>2
<1>12. Undisturbed'
  <2>1. \A o \in Appliers : o # a => ap'[o].pc = ap[o].pc
    BY <1>9 DEF Prevails, OnlyUndone
  <2>2. ap'[a].pc = "audit"
    BY <1>9 DEF Prevails
  <2>3. stirred' = {} => \A l \in Labels : labels'[l] # "gone"
    BY <1>2, <1>7 DEF Undisturbed
  <2> QED
    BY <1>1, <1>2, <1>7, <2>1, <2>2, <2>3, UndisturbedMove
<1> QED
  BY <1>10, <1>11, <1>12 DEF SnInv

LEMMA ApplyFailsKeeps ==
  ASSUME SnInv, NEW a \in Appliers, ApplyFails(a)
  PROVE  SnInv'
<1>1. SnWorld /\ ap \in [Appliers -> Application] /\ OnPath(ap[a]) /\ RightRow(ap[a])
  BY SnWorking
<1>2. "failed" \in ApSteps
  BY DEF ApSteps
<1>3. /\ ap' = [ap EXCEPT ![a].pc = "failed"] /\ stirred' = stirred \union {"fault"}
      /\ UNCHANGED <<setup, labels, worn, inCharge, prio, staff>>
  BY DEF ApplyFails, ApGoes
<1> HIDE DEF Application
<1>4. /\ ap' \in [Appliers -> Application]
      /\ \A o \in Appliers : o # a => ap'[o] = ap[o]
      /\ ap'[a].pc = "failed" /\ ap'[a].by = ap[a].by /\ ap'[a].row = ap[a].row
      /\ ap'[a].tags = ap[a].tags /\ ap'[a].undone = ap[a].undone
  <2>1. Steps1(a, "failed")
    BY <1>1, <1>2, <1>3 DEF Steps1
  <2> QED
    BY <1>3, <2>1, Stepping
<1>5. SnWorld'
  <2>1. snLeft' \in [SnEvents -> Nat]
    BY <1>1, SnUsed DEF ApplyFails, SnWorld, SnEvents
  <2> QED
    BY <1>1, <1>3, <1>4, <2>1 DEF SnWorld, SnTypeOK, Application
<1>6. \A o \in Appliers : ApOK(ap[o])'
  <2> TAKE o \in Appliers
  <2>1. CASE o = a
    <3>1. PICK z : z = ap'[a]
      OBVIOUS
    <3>2. z.pc = "failed" /\ z.row = ap[a].row /\ z.by = ap[a].by /\ z.tags = ap[a].tags
      BY <1>4, <3>1
    <3>3. RightRow(z)'
      <4>1. RightRow(z) /\ setup' = setup
        BY <1>1, <1>3, <3>2 DEF RightRow
      <4>2. QED BY <4>1 DEF RightRow, WordsFor, Matches, FirstOf
    <3>4. stirred' # {}
      BY <1>3
    <3>5. ApOK(z)'
      BY <3>2, <3>3, <3>4 DEF ApOK, OnPath, TagTaken, MemberTaken, PrioTaken, AfterTags, AfterMembers
    <3> QED
      BY <2>1, <3>1, <3>5 DEF ApOK
  <2>2. CASE o # a
    <3>1. OnlyUndone(ap[o], ap'[o])
      BY <1>1, <1>4, <2>2, SameIsOnlyUndone
    <3> QED
      BY <1>3, <3>1, OtherIsLeftAlone
  <2> QED
    BY <2>1, <2>2
<1>7. Undisturbed'
  BY <1>3 DEF Undisturbed
<1> QED
  BY <1>5, <1>6, <1>7 DEF SnInv

LEMMA AgentUnlinksKeeps ==
  ASSUME SnInv, NEW l \in Labels, AgentUnlinks(l)
  PROVE  SnInv'
<1>1. SnWorld /\ Undisturbed /\ ap \in [Appliers -> Application]
  BY ApplicationsTyped DEF SnInv
<1>2. /\ worn[l] = "live" /\ worn' = [worn EXCEPT ![l] = "gone"] /\ ap' = Overruled("label", OfLabel(l))
      /\ UNCHANGED <<setup, labels, inCharge, prio, staff, stirred>>
  BY DEF AgentUnlinks
<1> HIDE DEF Application
<1>3. Noted("label", OfLabel(l))
  BY <1>1, <1>2, OverruledIsNoted
<1>4. SnWorld'
  <2>1. snLeft' \in [SnEvents -> Nat]
    BY <1>1, SnUsed DEF AgentUnlinks, SnWorld, SnEvents
  <2>2. worn' \in [Labels -> RowState]
    BY <1>1, <1>2 DEF SnWorld, SnTypeOK, RowState
  <2> QED
    BY <1>1, <1>2, <1>3, <2>1, <2>2 DEF SnWorld, SnTypeOK, Application, Noted
<1>5. \A o \in Appliers : ApOK(ap[o])'
  <2> TAKE o \in Appliers
  <2>1. OnlyUndone(ap[o], ap'[o]) /\ (o \in OfLabel(l) => "label" \in ap'[o].undone)
    BY <1>3 DEF Noted
  <2>2. ap[o].row # 0 /\ RowOf(ap[o]).label = l => "label" \in ap'[o].undone
    BY <2>1 DEF OfLabel, Chose, Doing, RowOf
  <2>3. \A l1 \in Labels : l1 # l => worn'[l1] = worn[l1]
    BY <1>1, <1>2 DEF SnWorld, SnTypeOK
  <2> QED
    BY <1>2, <2>1, <2>2, <2>3, OtherIsLeftAlone
<1>6. Undisturbed'
  <2>1. \A o \in Appliers : ap'[o].pc = ap[o].pc /\ ap'[o].row = ap[o].row
    BY <1>3 DEF Noted, OnlyUndone
  <2>2. \A o \in Appliers : Underway(o)' = Underway(o) /\ ApAt(o, "makeTag")' = ApAt(o, "makeTag")
                            /\ ApAt(o, "makeLink")' = ApAt(o, "makeLink") /\ RowOf(ap[o])' = RowOf(ap[o])
    BY <1>2, <2>1 DEF Underway, ApAt, RowOf
  <2>3. \A l1 : worn[l1] = "none" => worn'[l1] = "none"
    BY <1>1, <1>2 DEF SnWorld, SnTypeOK
  <2> HIDE DEF Underway, ApAt, RowOf
  <2> QED
    BY <1>1, <1>2, <2>2, <2>3 DEF Undisturbed
<1> QED
  BY <1>4, <1>5, <1>6 DEF SnInv

LEMMA LabelDeletedKeeps ==
  ASSUME SnInv, NEW l \in Labels, LabelDeleted(l)
  PROVE  SnInv'
<1>1. SnWorld /\ ap \in [Appliers -> Application]
  BY SnWorking, ApplicationsTyped DEF SnInv
<1>2. /\ labels' = [labels EXCEPT ![l] = "gone"] /\ ap' = Overruled("label", OfLabel(l))
      /\ stirred' = stirred \union {"deleted"} /\ UNCHANGED <<setup, worn, inCharge, prio, staff>>
  BY DEF LabelDeleted
<1> HIDE DEF Application
<1>3. Noted("label", OfLabel(l))
  BY <1>1, <1>2, OverruledIsNoted
<1>4. SnWorld'
  <2>1. snLeft' \in [SnEvents -> Nat]
    BY <1>1, SnUsed DEF LabelDeleted, SnWorld, SnEvents
  <2>2. labels' \in [Labels -> RowState]
    BY <1>1, <1>2 DEF SnWorld, SnTypeOK, RowState
  <2> QED
    BY <1>1, <1>2, <1>3, <2>1, <2>2 DEF SnWorld, SnTypeOK, Application, Noted
<1>5. \A o \in Appliers : ApOK(ap[o])'
  <2> TAKE o \in Appliers
  <2>1. OnlyUndone(ap[o], ap'[o]) /\ (o \in OfLabel(l) => "label" \in ap'[o].undone)
    BY <1>3 DEF Noted
  <2>2. ap[o].row # 0 /\ RowOf(ap[o]).label = l => "label" \in ap'[o].undone
    BY <2>1 DEF OfLabel, Chose, Doing, RowOf
  <2>3. \A l1 \in Labels : l1 # l => labels'[l1] = labels[l1]
    BY <1>1, <1>2 DEF SnWorld, SnTypeOK
  <2> QED
    BY <1>2, <2>1, <2>2, <2>3, OtherIsLeftAlone
<1>6. Undisturbed'
  BY <1>2 DEF Undisturbed
<1> QED
  BY <1>4, <1>5, <1>6 DEF SnInv

LEMMA AgentTakesOverKeeps ==
  ASSUME SnInv, NEW who \in SnStaff \union {NoOne}, NEW p \in Prios, AgentTakesOver(who, p)
  PROVE  SnInv'
<1>1. SnWorld /\ Undisturbed /\ ap \in [Appliers -> Application]
  BY SnWorking, ApplicationsTyped DEF SnInv
<1>2. /\ inCharge' = who /\ prio' = p /\ UNCHANGED <<setup, labels, worn, staff, stirred>>
      /\ ap' = [o \in Appliers |->
                  [ap[o] EXCEPT !.undone = @ \union (IF o \in OfOther(who) THEN {"member"} ELSE {})
                                           \union (IF o \in OfOtherPrio(p) THEN {"prio"} ELSE {})]]
  BY DEF AgentTakesOver
<1>3. ASSUME NEW o \in Appliers
      PROVE  /\ ap'[o] \in Application /\ OnlyUndone(ap[o], ap'[o])
             /\ o \in OfOther(who) => "member" \in ap'[o].undone
             /\ o \in OfOtherPrio(p) => "prio" \in ap'[o].undone
  <2> DEFINE U == (IF o \in OfOther(who) THEN {"member"} ELSE {}) \union (IF o \in OfOtherPrio(p) THEN {"prio"} ELSE {})
             z == [ap[o] EXCEPT !.undone = @ \union U]
  <2>1. U \subseteq {"label", "member", "prio"} /\ (o \in OfOther(who) => "member" \in U)
        /\ (o \in OfOtherPrio(p) => "prio" \in U)
    OBVIOUS
  <2>2. ap'[o] = z
    BY <1>2
  <2> HIDE DEF U
  <2>3. /\ z \in Application /\ z.by = ap[o].by /\ z.pc = ap[o].pc /\ z.row = ap[o].row /\ z.tags = ap[o].tags
        /\ z.undone = ap[o].undone \union U
    BY <1>1, <2>1 DEF Application
  <2> HIDE DEF z, Application
  <2>4. OnlyUndone(ap[o], ap'[o])
    BY <1>1, <2>2, <2>3 DEF OnlyUndone
  <2> QED
    BY <2>1, <2>2, <2>3, <2>4
<1>4. ap' \in [Appliers -> Application]
  <2>1. ap' = [o \in Appliers |-> ap'[o]]
    BY <1>2
  <2> HIDE DEF Application
  <2> QED
    BY <1>3, <2>1
<1>5. SnWorld'
  <2>1. snLeft' \in [SnEvents -> Nat]
    BY <1>1, SnUsed DEF AgentTakesOver, SnWorld, SnEvents
  <2> QED
    BY <1>1, <1>2, <1>4, <2>1 DEF SnWorld, SnTypeOK, Application
<1>6. \A o \in Appliers : ApOK(ap[o])'
  <2> TAKE o \in Appliers
  <2>1. ap[o].row # 0 /\ inCharge = RowOf(ap[o]).member => inCharge' = inCharge \/ "member" \in ap'[o].undone
    BY <1>2, <1>3 DEF OfOther, Chose, Doing, RowOf
  <2>2. ap[o].row # 0 /\ prio = PrioOf(RowOf(ap[o])) => prio' = prio \/ "prio" \in ap'[o].undone
    BY <1>2, <1>3 DEF OfOtherPrio, Chose, Doing, RowOf
  <2>3. UNCHANGED <<setup, labels, worn, stirred>>
    BY <1>2
  <2> QED
    BY <1>3, <2>1, <2>2, <2>3, OtherIsLeftAlone
<1>7. Undisturbed'
  <2>1. \A o \in Appliers : ap'[o].pc = ap[o].pc /\ ap'[o].row = ap[o].row
    BY <1>3 DEF OnlyUndone
  <2>2. \A o \in Appliers : Underway(o)' = Underway(o) /\ ApAt(o, "makeTag")' = ApAt(o, "makeTag")
                            /\ ApAt(o, "makeLink")' = ApAt(o, "makeLink") /\ RowOf(ap[o])' = RowOf(ap[o])
    BY <1>2, <2>1 DEF Underway, ApAt, RowOf
  <2>3. UNCHANGED <<labels, worn, staff, stirred>>
    BY <1>2
  <2> HIDE DEF Underway, ApAt, RowOf
  <2> QED
    BY <1>1, <2>2, <2>3 DEF Undisturbed
<1> QED
  BY <1>5, <1>6, <1>7 DEF SnInv

LEMMA MemberLeavesKeeps ==
  ASSUME SnInv, NEW m \in SnStaff, MemberLeaves(m)
  PROVE  SnInv'
<1>1. SnWorld /\ ap \in [Appliers -> Application]
  BY ApplicationsTyped DEF SnInv
<1>2. /\ staff' = staff \ {m} /\ stirred' = stirred \union {"left"}
      /\ UNCHANGED <<setup, labels, worn, inCharge, prio, ap>>
  BY DEF MemberLeaves
<1>3. SnWorld'
  <2>1. snLeft' \in [SnEvents -> Nat]
    BY <1>1, SnUsed DEF MemberLeaves, SnWorld, SnEvents
  <2> QED
    BY <1>1, <1>2, <2>1 DEF SnWorld, SnTypeOK
<1>4. \A o \in Appliers : ApOK(ap[o])'
  <2> TAKE o \in Appliers
  <2>1. ap[o] \in Application /\ ap'[o] = ap[o]
    BY <1>1, <1>2
  <2>2. OnlyUndone(ap[o], ap'[o])
    BY <2>1, SameIsOnlyUndone
  <2> QED
    BY <1>2, <2>2, OtherIsLeftAlone
<1>5. Undisturbed'
  BY <1>2 DEF Undisturbed
<1> QED
  BY <1>3, <1>4, <1>5 DEF SnInv

\* The first scenario that matches is taken, and its first action is next.
LEMMA MatchScenarioKeeps ==
  ASSUME SnInv, NEW a \in Appliers, MatchScenario(a)
  PROVE  SnInv'
<1> DEFINE x == ap[a]
<1>1. x.pc = "match" /\ Underway(a)
  BY DEF MatchScenario, ApAt, Underway
<1>2. /\ OnPath(x) /\ SnWorld /\ Undisturbed /\ x \in Application /\ ap \in [Appliers -> Application]
      /\ UNCHANGED <<setup, labels, worn, inCharge, prio, staff, stirred, snLeft>>
  BY SnWorking DEF MatchScenario
<1>3. x.row = 0
  BY <1>1, <1>2 DEF OnPath
<1>4. CASE Chosen(x.by, x.tags) = {}
  <2>1. ApGoes(a, "done") /\ "done" \in ApSteps
    BY <1>4 DEF MatchScenario, ApSteps
  <2>2. ASSUME NEW y, y.row = x.row, y.undone = x.undone, y.by = x.by, y.pc = "done"
        PROVE  OnPath(y) /\ TagTaken(y) /\ MemberTaken(y) /\ PrioTaken(y)
    BY <1>3, <2>2 DEF OnPath, TagTaken, MemberTaken, PrioTaken
  <2> QED
    BY <1>1, <1>2, <2>1, <2>2, QuietStep
<1>5. CASE Chosen(x.by, x.tags) # {}
  <2>1. PICK i \in Chosen(x.by, x.tags) :
          ap' = [ap EXCEPT ![a].row = i,
                           ![a].pc = IF setup.rows[i].label # NoLabel THEN "tag" ELSE AfterTag(setup.rows[i])]
    BY <1>5 DEF MatchScenario
  <2> DEFINE r == setup.rows[i]
             p == IF r.label # NoLabel THEN "tag" ELSE AfterTag(r)
             y == [x EXCEPT !.row = i, !.pc = p]
  <2>2. i \in FirstOf({j \in DOMAIN setup.rows : Matches(setup.rows[j], WordsFor(x.by), x.tags)})
    BY DEF Chosen
  <2>3. i \in DOMAIN setup.rows
    BY <2>2 DEF FirstOf
  <2>4. i \in 0..Len(setup.rows) /\ i # 0
    <3>1. DOMAIN setup.rows = 1..Len(setup.rows) /\ Len(setup.rows) \in Nat
      BY <1>2, SetupTyped DEF SnWorld
    <3> QED
      BY <2>3, <3>1
  <2>5. p \in {"tag", "member", "prio", "audit", "done"}
    <3>1. AfterTag(r) \in {"member", "prio", "audit", "done"}
      BY AfterTagIsAStep
    <3> HIDE DEF r
    <3> QED
      BY <3>1
  <2>6. p \in ApSteps
    BY <2>5 DEF ApSteps
  <2>7. ap' = [ap EXCEPT ![a] = y]
    BY <2>1
  <2> HIDE DEF p
  <2>8. /\ y \in Application /\ y.pc = p /\ y.row = i /\ y.by = x.by /\ y.tags = x.tags
        /\ y.undone = x.undone
    BY <1>2, <2>4, <2>6 DEF Application
  <2>9. PICK z : z = y
    OBVIOUS
  <2>10. z.pc = p /\ z.row = i /\ z.by = x.by /\ z.tags = x.tags /\ z.undone = x.undone /\ z \in Application
    BY <2>8, <2>9
  <2>11. ap' = [ap EXCEPT ![a] = z]
    BY <2>7, <2>9
  <2> HIDE DEF y
  <2>12. OnPath(z) /\ TagTaken(z) /\ MemberTaken(z) /\ PrioTaken(z)
    <3>1. RowOf(z) = r
      BY <2>10 DEF RowOf
    <3>2. CASE r.label # NoLabel
      <4>1. p = "tag"
        BY <3>2 DEF p
      <4> HIDE DEF r, RowOf
      <4> QED
        BY <2>4, <2>10, <3>1, <3>2, <4>1
           DEF OnPath, TagTaken, MemberTaken, PrioTaken, AfterTags, AfterMembers
    <3>3. CASE r.label = NoLabel
      <4>1. z.pc = AfterTag(RowOf(z))
        BY <2>10, <3>1, <3>3 DEF p
      <4> HIDE DEF r, RowOf
      <4> QED
        BY <2>4, <2>10, <3>1, <3>3, <4>1, OnAfterTag
    <3> QED
      BY <3>2, <3>3
  <2>13. RightRow(z)
    BY <2>2, <2>10 DEF RightRow
  <2>14. ApOK(z)
    BY <2>12, <2>13 DEF ApOK
  <2> HIDE DEF r, x, Application
  <2>15. ApOK(z)'
    BY <1>2, <2>14, SameConversation
  <2>16. labels' \in [Labels -> RowState] /\ worn' \in [Labels -> RowState]
    BY <1>2 DEF SnWorld, SnTypeOK
  <2>17. z.pc \notin {"makeTag", "makeLink"}
    BY <2>5, <2>10
  <2>18. UNCHANGED <<setup, labels, worn, inCharge, prio, staff, stirred, snLeft>>
    BY <1>2
  <2> QED
    BY <1>1, <2>10, <2>11, <2>15, <2>16, <2>17, <2>18, MovingStep
<1> QED
  BY <1>4, <1>5

-----------------------------------------------------------------------------

LEMMA ScenariosStart ==
  ASSUME SnInit
  PROVE  SnInv
<1>1. setup \in SnSetups /\ ap = [a \in Appliers |-> NoAp] /\ stirred = {} /\ staff = SnStaff
  BY DEF SnInit
<1>2. NoAp \in Application
  <2>1. 0 \in 0..Len(setup.rows)
    <3>1. Len(setup.rows) \in Nat
      BY <1>1, SetupTyped
    <3> QED
      BY <3>1
  <2> QED
    BY <2>1 DEF NoAp, Application, ApSteps, Sources
<1>3. SnWorld
  <2>1. snLeft \in [SnEvents -> Nat]
    BY <1>1, SetupTyped DEF SnInit
  <2>2. labels \in [Labels -> RowState] /\ worn \in [Labels -> RowState]
    BY DEF SnInit, RowState
  <2>3. ap \in [Appliers -> Application]
    BY <1>1, <1>2
  <2>4. prio \in Prios /\ inCharge \in SnStaff \union {NoOne} /\ stirred \subseteq {"beside", "deleted", "left", "fault"}
    BY DEF SnInit, Prios
  <2> QED
    BY <1>1, <2>1, <2>2, <2>3, <2>4 DEF SnWorld, SnTypeOK, Application
<1>4. \A a \in Appliers : ap[a].pc = "idle" /\ ap[a].row = 0
  BY <1>1 DEF NoAp
<1>5. \A a \in Appliers : ApOK(ap[a])
  BY <1>4 DEF ApOK, OnPath, TagTaken, MemberTaken, PrioTaken, RightRow
<1>6. Undisturbed
  <2>1. \A l \in Labels : labels[l] # "gone"
    BY DEF SnInit
  <2>2. \A a \in Appliers : ~Underway(a) /\ ~ApAt(a, "makeTag") /\ ~ApAt(a, "makeLink")
    BY <1>4 DEF Underway, ApAt
  <2> QED
    BY <1>1, <2>1, <2>2 DEF Undisturbed
<1> QED
  BY <1>3, <1>5, <1>6 DEF SnInv

LEMMA NoScenarioStep ==
  ASSUME SnInv, UNCHANGED snVars
  PROVE  SnInv'
<1>1. UNCHANGED <<setup, labels, worn, inCharge, prio, staff, ap, stirred, snLeft>>
  BY DEF snVars
<1>2. SnWorld'
  BY <1>1 DEF SnInv, SnWorld, SnTypeOK
<1>3. \A a \in Appliers : ApOK(ap[a])'
  <2> TAKE a \in Appliers
  <2>1. PICK z : z = ap[a] /\ z = ap'[a]
    BY <1>1
  <2>2. ApOK(z)
    BY <2>1 DEF SnInv
  <2>3. ApOK(z)'
    BY <1>1, <2>2, SameConversation
  <2> QED
    BY <2>1, <2>3 DEF ApOK
<1>4. Undisturbed'
  <2>1. \A a \in Appliers : Underway(a)' = Underway(a) /\ ApAt(a, "makeTag")' = ApAt(a, "makeTag")
                            /\ ApAt(a, "makeLink")' = ApAt(a, "makeLink") /\ RowOf(ap[a])' = RowOf(ap[a])
    BY <1>1 DEF Underway, ApAt, RowOf
  <2> HIDE DEF Underway, ApAt, RowOf
  <2> QED
    BY <1>1, <2>1 DEF SnInv, Undisturbed
<1> QED
  BY <1>2, <1>3, <1>4 DEF SnInv

LEMMA ScenariosStepKeeps ==
  ASSUME SnInv, [SnNext]_snVars
  PROVE  SnInv'
<1>1. CASE UNCHANGED snVars
  BY <1>1, NoScenarioStep
<1>2. ASSUME NEW a \in Appliers,
             \/ \E by \in Sources : StartApplying(a, by)
             \/ MatchScenario(a) \/ FindTag(a) \/ MakeLabel(a) \/ LookForLink(a) \/ ReviveLink(a) \/ MakeLink(a)
             \/ AuditTag(a) \/ FindMember(a) \/ AssignMember(a) \/ AuditAssignment(a) \/ SetPrio(a) \/ AuditMatch(a)
             \/ ApplyFails(a)
      PROVE  SnInv'
  BY <1>2, StartApplyingKeeps, MatchScenarioKeeps, FindTagKeeps, MakeLabelKeeps, LookForLinkKeeps, ReviveLinkKeeps,
     MakeLinkKeeps, AuditTagKeeps, FindMemberKeeps, AssignMemberKeeps, AuditAssignmentKeeps, SetPrioKeeps,
     AuditMatchKeeps, ApplyFailsKeeps
<1>3. ASSUME NEW l \in Labels, AgentUnlinks(l) \/ LabelDeleted(l)
      PROVE  SnInv'
  BY <1>3, AgentUnlinksKeeps, LabelDeletedKeeps
<1>4. ASSUME NEW m \in SnStaff, MemberLeaves(m)
      PROVE  SnInv'
  BY <1>4, MemberLeavesKeeps
<1>5. ASSUME NEW who \in SnStaff \union {NoOne}, NEW p \in Prios, AgentTakesOver(who, p)
      PROVE  SnInv'
  BY <1>5, AgentTakesOverKeeps
<1> QED
  BY <1>1, <1>2, <1>3, <1>4, <1>5 DEF SnNext

\* What a scenario asks for, and what the property asks of one that fits.
LEMMA MatchesByTheClock ==
  ASSUME SnWorld, NEW r \in ScenarioRow, NEW W, NEW T
  PROVE  Matches(r, W, T) <=>
           /\ r.on /\ r.here /\ setup.hour \in ClockWindow(r.from, r.till)
           /\ \E t \in {<<r.words, W>>, <<r.labels, T>>} : t[1] # {}
           /\ \A t \in {<<r.words, W>>, <<r.labels, T>>} : t[1] # {} => t[1] \intersect t[2] # {}
<1>1. setup.hour \in Hour /\ r.from \in Hour \union {NoHour} /\ r.till \in Hour \union {NoHour}
  BY SetupTyped DEF SnWorld, ScenarioRow
<1>2. Within(setup.hour, r.from, r.till) <=> setup.hour \in ClockWindow(r.from, r.till)
  BY <1>1, WithinIsByTheClock
<1>3. r.words \union r.labels # {} <=> r.words # {} \/ r.labels # {}
  OBVIOUS
<1> HIDE DEF Within, ClockWindow, ScenarioRow
<1> QED
  BY <1>2, <1>3 DEF Matches

LEMMA SnInvActionsTake ==
  ASSUME SnInv
  PROVE  ActionsTake
<1> SUFFICES ASSUME NEW a \in Appliers, ap[a].pc = "done", ap[a].row # 0
             PROVE  LET r == Doing(a) IN
                    /\ r.label # NoLabel /\ "label" \notin ap[a].undone => r.label \in Worn
                    /\ r.member # NoOne /\ "member" \notin ap[a].undone => inCharge = r.member
                    /\ PrioOf(r) # Unset /\ "prio" \notin ap[a].undone => prio = PrioOf(r)
  BY DEF ActionsTake, ApAt
<1>1. SnWorld /\ TagTaken(ap[a]) /\ MemberTaken(ap[a]) /\ PrioTaken(ap[a])
  BY SnWorking
<1>2. Doing(a) = RowOf(ap[a]) /\ RowOf(ap[a]).label \in Labels \union {NoLabel}
  BY <1>1, RowTyped
<1> HIDE DEF Doing, RowOf, PrioOf
<1> QED
  BY <1>1, <1>2 DEF TagTaken, MemberTaken, PrioTaken, AfterTags, AfterMembers, Worn

LEMMA SnInvBreaksOff ==
  ASSUME SnInv
  PROVE  BreaksOffForAReason
<1> SUFFICES ASSUME NEW a \in Appliers
             PROVE  /\ ap[a].pc = "failed" => stirred # {} \/ (ap[a].by = "draft" /\ Acts(Doing(a)))
                    /\ ap[a].by = "draft" /\ ap[a].pc = "done" => ap[a].row = 0 \/ ~Acts(Doing(a))
  BY DEF BreaksOffForAReason, ApAt
<1>1. SnWorld /\ OnPath(ap[a])
  BY SnWorking
<1>2. Doing(a) = RowOf(ap[a])
  BY DEF Doing, RowOf
<1> HIDE DEF Doing, RowOf, Acts
<1> QED
  BY <1>1, <1>2 DEF OnPath

LEMMA SnInvRightOne ==
  ASSUME SnInv
  PROVE  RightOneIsChosen
<1> SUFFICES ASSUME NEW a \in Appliers, ap[a].row # 0
             PROVE  LET Fits(r) == /\ r.on /\ r.here /\ setup.hour \in ClockWindow(r.from, r.till)
                                   /\ \E t \in {<<r.words, WordsFor(ap[a].by)>>, <<r.labels, ap[a].tags>>} : t[1] # {}
                                   /\ \A t \in {<<r.words, WordsFor(ap[a].by)>>, <<r.labels, ap[a].tags>>} :
                                        t[1] # {} => t[1] \intersect t[2] # {} IN
                    /\ Fits(Doing(a))
                    /\ \A i \in DOMAIN setup.rows : Fits(setup.rows[i]) =>
                         \/ Doing(a).rank < setup.rows[i].rank
                         \/ Doing(a).rank = setup.rows[i].rank /\ ap[a].row <= i
  BY DEF RightOneIsChosen
<1>1. SnWorld /\ RightRow(ap[a])
  BY SnWorking
<1> DEFINE k == ap[a].row
           W == WordsFor(ap[a].by)
           T == ap[a].tags
           F(r) == /\ r.on /\ r.here /\ setup.hour \in ClockWindow(r.from, r.till)
                   /\ \E t \in {<<r.words, W>>, <<r.labels, T>>} : t[1] # {}
                   /\ \A t \in {<<r.words, W>>, <<r.labels, T>>} : t[1] # {} => t[1] \intersect t[2] # {}
<1>2. Doing(a) = setup.rows[k]
  BY DEF Doing
<1>3. k \in FirstOf({i \in DOMAIN setup.rows : Matches(setup.rows[i], W, T)})
  BY <1>1 DEF RightRow
<1>4. \A i \in DOMAIN setup.rows : setup.rows[i] \in ScenarioRow
  BY <1>1, SetupTyped DEF SnWorld
<1>5. \A i \in DOMAIN setup.rows : Matches(setup.rows[i], W, T) <=> F(setup.rows[i])
  <2> TAKE i \in DOMAIN setup.rows
  <2>1. PICK w, t : w = W /\ t = T
    OBVIOUS
  <2> HIDE DEF Matches
  <2> QED
    BY <1>1, <1>4, <2>1, MatchesByTheClock
<1>6. k \in DOMAIN setup.rows /\ Matches(setup.rows[k], W, T)
  BY <1>3 DEF FirstOf
<1>7. F(setup.rows[k])
  BY <1>5, <1>6
<1>8. \A i \in DOMAIN setup.rows : F(setup.rows[i]) =>
         \/ setup.rows[k].rank < setup.rows[i].rank
         \/ setup.rows[k].rank = setup.rows[i].rank /\ k <= i
  <2> HIDE DEF F, Matches, k
  <2> QED
    BY <1>3, <1>5 DEF FirstOf
<1> QED
  BY <1>2, <1>7, <1>8

-----------------------------------------------------------------------------
(* Rules: the rule is as the form that was saved last shows it.              *)

FormRow == [trigger : Triggers, terms : SUBSET RuTerms, marks : SUBSET RuMarks, status : Statuses,
            from : Hour \union {NoHour}, till : Hour \union {NoHour}, place : RuPlaces \union {Anywhere},
            enabled : BOOLEAN, steps : Seq(Draft)]
FormOK(f) == f \in FormRow /\ Len(f.steps) >= 1
PageRow == [for : {"new", "edit"}, form : FormRow, call : [step : CallSteps]]

\* What an old rule brings along where a request leaves something out.
OldOK(o) ==
  /\ o.state \in {"live", "gone"} /\ o.status \in Statuses \union {Unsent}
  /\ o.from \in Hour \union {NoHour} /\ o.till \in Hour \union {NoHour}
  /\ o.place \in RuPlaces \union {Anywhere}

\* A rule says what the form said, also in the fields that were left out.
IsAsShown(r, f) ==
  /\ r.trigger = f.trigger /\ r.terms = f.terms /\ r.marks = f.marks /\ r.enabled = f.enabled
  /\ f.trigger = "STATUS_CHANGED" => r.status = f.status
  /\ f.trigger = "OFF_HOURS" => r.from = f.from /\ r.till = f.till
  /\ f.place # Anywhere => r.place = f.place
  /\ Len(r.steps) = Len(f.steps) /\ \A i \in DOMAIN r.steps : r.steps[i] = ToStep(f.steps[i], i)

\* It can run, and its trigger is set up.
CanRun(r) ==
  /\ Parses(r.steps)
  /\ r.trigger = "OFF_HOURS" => r.from # NoHour /\ r.till # NoHour
  /\ r.trigger = "STATUS_CHANGED" => r.status # Unsent

RuWorld ==
  /\ saved = NoRule \/ (saved \in RuleRow /\ CanRun(saved) /\ shown # NeverShown)
  /\ shown = NeverShown \/ (FormOK(shown) /\ saved # NoRule)
  /\ page \in [Editors -> PageRow] /\ ruLeft \in [RuEvents -> Nat]

\* A request is under way for a form the browser has let through; one rule is made.
PageOK(x) ==
  /\ FormOK(x.form)
  /\ x.for = "edit" => saved # NoRule
  /\ x.call.step \in {"read", "write"} => Complete(x.form)
  /\ x.call.step = "read" => x.for = "edit"
  /\ x.call.step = "write" => Len(x.form.steps) <= RuLongest \/ (x.for = "new" /\ saved = NoRule)
  /\ x.call.step = "write" /\ x.for = "new" => saved = NoRule
  /\ x.call.step = "refused" => x.for = "edit" /\ saved.state = "gone"
Creates(x) == x.for = "new" /\ x.call.step = "write"

RuInv ==
  /\ RuWorld /\ \A e \in Editors : PageOK(page[e])
  /\ \A e, o \in Editors : Creates(page[e]) /\ Creates(page[o]) => e = o
  /\ shown # NeverShown /\ saved.state = "live" => IsAsShown(saved, shown)

-----------------------------------------------------------------------------

LEMMA FieldsKnown ==
  /\ \A t \in StepTypes : ArgOf[t] \in ArgFields
  /\ {"SEND_TEXT_REPLY", "ADD_TAG"} \subseteq StepTypes
  /\ DefaultArgs \in [ArgFields -> Values]
<1>1. \A t \in StepTypes : ArgOf[t] \in ArgFields
  BY DEF ArgFields
<1>2. {"SEND_TEXT_REPLY", "ADD_TAG"} \subseteq StepTypes
  BY DEF StepTypes, ArgOf
<1>3. DefaultArgs \in [ArgFields -> Values]
  BY DEF DefaultArgs, Values
<1> QED
  BY <1>1, <1>2, <1>3

LEMMA DraftsKnown ==
  /\ EmptyStep \in Draft
  /\ [EmptyStep EXCEPT !.args["text"] = 1] \in Draft
  /\ [EmptyStep EXCEPT !.type = "ADD_TAG", !.args["tagName"] = 1, !.waits = TRUE] \in Draft
<1>1. {"SEND_TEXT_REPLY", "ADD_TAG"} \subseteq StepTypes /\ DefaultArgs \in [ArgFields -> Values] /\ 1 \in Values
  BY FieldsKnown DEF Values
<1>2. [DefaultArgs EXCEPT !["text"] = 1] \in [ArgFields -> Values]
      /\ [DefaultArgs EXCEPT !["tagName"] = 1] \in [ArgFields -> Values]
  <2> HIDE DEF DefaultArgs, Values, ArgFields
  <2> QED
    BY <1>1
<1> HIDE DEF DefaultArgs, Values, ArgFields, StepTypes
<1>3. EmptyStep \in Draft
  BY <1>1 DEF EmptyStep, Draft
<1>4. [EmptyStep EXCEPT !.args["text"] = 1] \in Draft
  BY <1>1, <1>2 DEF EmptyStep, Draft
<1>5. [EmptyStep EXCEPT !.type = "ADD_TAG", !.args["tagName"] = 1, !.waits = TRUE] \in Draft
  BY <1>1, <1>2 DEF EmptyStep, Draft
<1> QED
  BY <1>3, <1>4, <1>5

LEMMA FormsKnown ==
  FormOK(EmptyForm) /\ FormOK(OffHoursTemplate) /\ FormOK(FaqTemplate)
<1> DEFINE d1 == [EmptyStep EXCEPT !.args["text"] = 1]
           d2 == [EmptyStep EXCEPT !.type = "ADD_TAG", !.args["tagName"] = 1, !.waits = TRUE]
<1>1. EmptyStep \in Draft /\ d1 \in Draft /\ d2 \in Draft
  BY DraftsKnown
<1>2. <<EmptyStep>> \in Seq(Draft) /\ <<d1>> \in Seq(Draft) /\ <<d1, d2>> \in Seq(Draft)
      /\ Len(<<EmptyStep>>) = 1 /\ Len(<<d1>>) = 1 /\ Len(<<d1, d2>>) = 2
  <2> HIDE DEF d1, d2, Draft
  <2> QED
    BY <1>1
<1>3. EmptyForm = [trigger |-> "OFF_HOURS", terms |-> {}, marks |-> {}, status |-> "RESOLVED", from |-> 9, till |-> 18,
                   place |-> Anywhere, enabled |-> TRUE, steps |-> <<EmptyStep>>]
  BY DEF EmptyForm
<1>4. EmptyForm \in FormRow /\ EmptyForm.steps = <<EmptyStep>>
  <2> HIDE DEF EmptyStep, Draft
  <2> QED
    BY <1>2, <1>3 DEF FormRow, Triggers, Statuses, Hour
<1> DEFINE OffHours(b, h, k, q) == [b EXCEPT !.from = h, !.till = k, !.steps = q]
           Faq(b, t, w, q) == [b EXCEPT !.trigger = t, !.terms = w, !.steps = q]
<1>5. ASSUME NEW b \in FormRow, NEW h \in Hour, NEW k \in Hour, NEW q \in Seq(Draft)
      PROVE  OffHours(b, h, k, q) \in FormRow /\ OffHours(b, h, k, q).steps = q
  <2> HIDE DEF Draft, Hour, NoHour
  <2> QED
    BY <1>5 DEF FormRow
<1>9. ASSUME NEW b \in FormRow, NEW t \in Triggers, NEW w \in SUBSET RuTerms, NEW q \in Seq(Draft)
      PROVE  Faq(b, t, w, q) \in FormRow /\ Faq(b, t, w, q).steps = q
  <2> HIDE DEF Draft, Hour, NoHour
  <2> QED
    BY <1>9 DEF FormRow
<1>6. 8 \in Hour /\ 23 \in Hour /\ "MESSAGE_RECEIVED" \in Triggers
  BY DEF Hour, Triggers
<1>7. OffHoursTemplate \in FormRow /\ OffHoursTemplate.steps = <<d1>>
  <2>1. OffHoursTemplate = OffHours(EmptyForm, 8, 23, <<d1>>)
    BY Zenon DEF OffHoursTemplate
  <2> HIDE DEF OffHours, Faq, d1, FormRow, EmptyForm, EmptyStep
  <2> QED
    BY <1>2, <1>4, <1>5, <1>6, <2>1
<1>8. FaqTemplate \in FormRow /\ FaqTemplate.steps = <<d1, d2>>
  <2>1. FaqTemplate = Faq(EmptyForm, "MESSAGE_RECEIVED", RuTerms, <<d1, d2>>)
    BY Zenon DEF FaqTemplate
  <2> HIDE DEF OffHours, Faq, d1, d2, FormRow, EmptyForm, EmptyStep
  <2>2. RuTerms \in SUBSET RuTerms
    OBVIOUS
  <2> QED
    BY <1>2, <1>4, <1>9, <1>6, <2>1, <2>2
<1> HIDE DEF d1, d2, FormRow, EmptyForm, EmptyStep
<1> QED
  BY <1>2, <1>4, <1>7, <1>8 DEF FormOK

LEMMA ShapesAreForms ==
  ASSUME NEW f, FormOK(f), NEW g \in Shapes(f)
  PROVE  FormOK(g)
<1>1. f \in FormRow /\ Len(f.steps) >= 1
  BY DEF FormOK
<1>2. RuHours \union {NoHour} \subseteq Hour \union {NoHour}
  BY RulesAssumption
<1> HIDE DEF Draft, Hour, NoHour
<1>3. \A t \in Triggers : FormOK([f EXCEPT !.trigger = t])
  BY <1>1 DEF FormOK, FormRow
<1>4. \A w \in SUBSET RuTerms : FormOK([f EXCEPT !.terms = w])
  BY <1>1 DEF FormOK, FormRow
<1>5. \A m \in SUBSET RuMarks : FormOK([f EXCEPT !.marks = m])
  BY <1>1 DEF FormOK, FormRow
<1>6. \A s \in Statuses : FormOK([f EXCEPT !.status = s])
  BY <1>1 DEF FormOK, FormRow
<1>7. \A h \in RuHours \union {NoHour} : FormOK([f EXCEPT !.from = h]) /\ FormOK([f EXCEPT !.till = h])
  BY <1>1, <1>2 DEF FormOK, FormRow
<1>8. \A p \in RuPlaces \union {Anywhere} : FormOK([f EXCEPT !.place = p])
  BY <1>1 DEF FormOK, FormRow
<1>9. FormOK([f EXCEPT !.enabled = ~f.enabled])
  BY <1>1 DEF FormOK, FormRow
<1> HIDE DEF FormOK
<1> QED
  BY <1>3, <1>4, <1>5, <1>6, <1>7, <1>8, <1>9 DEF Shapes

LEMMA OneIsRemoved ==
  ASSUME NEW S, NEW s \in Seq(S), NEW i \in 1..Len(s)
  PROVE  RemoveAt(s, i) \in Seq(S) /\ Len(RemoveAt(s, i)) = Len(s) - 1
<1> DEFINE a == SubSeq(s, 1, i - 1)
           b == SubSeq(s, i + 1, Len(s))
<1>1. Len(s) \in Nat /\ i \in Nat /\ i >= 1 /\ i <= Len(s)
  OBVIOUS
<1>2. a \in Seq(S) /\ Len(a) = i - 1
  BY <1>1
<1>3. b \in Seq(S) /\ Len(b) = Len(s) - i
  BY <1>1
<1> HIDE DEF a, b
<1>4. a \o b \in Seq(S) /\ Len(a \o b) = Len(a) + Len(b)
  BY <1>2, <1>3
<1>5. Len(a \o b) = Len(s) - 1
  BY <1>1, <1>2, <1>3, <1>4
<1>6. RemoveAt(s, i) = a \o b
  BY DEF RemoveAt, a, b
<1> QED
  BY <1>4, <1>5, <1>6

LEMMA OneIsChanged ==
  ASSUME NEW S, NEW s \in Seq(S), NEW i \in DOMAIN s, NEW d \in S
  PROVE  [s EXCEPT ![i] = d] \in Seq(S) /\ Len([s EXCEPT ![i] = d]) = Len(s)
<1>1. Len(s) \in Nat /\ s \in [1..Len(s) -> S]
  OBVIOUS
<1>2. [s EXCEPT ![i] = d] \in [1..Len(s) -> S]
  BY <1>1
<1> QED
  BY <1>1, <1>2, ListedIsSequence

LEMMA StepShapesAreForms ==
  ASSUME NEW f, FormOK(f), NEW g \in StepShapes(f)
  PROVE  FormOK(g)
<1>1. f \in FormRow /\ Len(f.steps) >= 1 /\ f.steps \in Seq(Draft) /\ DOMAIN f.steps = 1..Len(f.steps)
  BY DEF FormOK, FormRow
<1>2. EmptyStep \in Draft
  BY DraftsKnown
<1>3. ASSUME NEW s \in Seq(Draft), Len(s) >= 1 PROVE FormOK([f EXCEPT !.steps = s])
  <2> HIDE DEF Draft
  <2> QED
    BY <1>1, <1>3 DEF FormOK, FormRow
<1>4. FormOK([f EXCEPT !.steps = Append(f.steps, EmptyStep)])
  <2>1. Append(f.steps, EmptyStep) \in Seq(Draft) /\ Len(Append(f.steps, EmptyStep)) = Len(f.steps) + 1
    <3> HIDE DEF Draft, EmptyStep
    <3> QED
      BY <1>1, <1>2
  <2>2. Len(f.steps) + 1 >= 1
    BY <1>1
  <2> QED
    BY <1>3, <2>1, <2>2
<1>5. ASSUME Len(f.steps) > 1, NEW i \in DOMAIN f.steps PROVE FormOK([f EXCEPT !.steps = RemoveAt(f.steps, i)])
  <2>1. RemoveAt(f.steps, i) \in Seq(Draft) /\ Len(RemoveAt(f.steps, i)) = Len(f.steps) - 1
    <3> HIDE DEF Draft
    <3> QED
      BY <1>1, <1>5, OneIsRemoved
  <2>2. Len(f.steps) - 1 >= 1
    BY <1>1, <1>5
  <2> QED
    BY <1>3, <2>1, <2>2
<1>6. ASSUME NEW i \in DOMAIN f.steps, NEW d \in Draft PROVE FormOK([f EXCEPT !.steps[i] = d])
  <2>1. [f.steps EXCEPT ![i] = d] \in Seq(Draft) /\ Len([f.steps EXCEPT ![i] = d]) = Len(f.steps)
    <3> HIDE DEF Draft
    <3> QED
      BY <1>1, <1>6, OneIsChanged
  <2>2. [f EXCEPT !.steps[i] = d] = [f EXCEPT !.steps = [f.steps EXCEPT ![i] = d]]
    BY <1>1
  <2> QED
    BY <1>1, <1>3, <2>1, <2>2
<1>7. ASSUME NEW i \in DOMAIN f.steps, NEW t \in RuSteps PROVE FormOK([f EXCEPT !.steps[i].type = t])
  <2> DEFINE d == [f.steps[i] EXCEPT !.type = t]
  <2>1. d \in Draft
    <3>1. f.steps[i] \in Draft /\ t \in StepTypes
      BY <1>1, <1>7, RulesAssumption
    <3> QED
      BY <3>1 DEF Draft
  <2> HIDE DEF Draft
  <2> QED
    BY <1>6, <1>7, <2>1
<1>8. ASSUME NEW i \in DOMAIN f.steps, NEW v \in 1..2
      PROVE FormOK([f EXCEPT !.steps[i].args[ArgOf[f.steps[i].type]] = v])
  <2> DEFINE q == ArgOf[f.steps[i].type]
             d == [f.steps[i] EXCEPT !.args[q] = v]
  <2>1. d \in Draft
    <3>1. f.steps[i] \in Draft /\ v \in Values
      BY <1>1, <1>8 DEF Values
    <3> HIDE DEF q, Values
    <3> QED
      BY <3>1 DEF Draft
  <2> HIDE DEF Draft, q
  <2> SUFFICES FormOK([f EXCEPT !.steps[i].args[q] = v])
    BY DEF q
  <2> QED
    BY <1>6, <1>8, <2>1
<1>9. ASSUME NEW i \in 2..Len(f.steps) PROVE FormOK([f EXCEPT !.steps[i].waits = ~f.steps[i].waits])
  <2> DEFINE w == ~f.steps[i].waits
             d == [f.steps[i] EXCEPT !.waits = w]
  <2>1. i \in DOMAIN f.steps
    BY <1>1, <1>9
  <2>2. d \in Draft
    <3>1. f.steps[i] \in Draft /\ w \in BOOLEAN
      BY <1>1, <2>1
    <3> HIDE DEF w
    <3> QED
      BY <3>1 DEF Draft
  <2> HIDE DEF Draft, w
  <2> SUFFICES FormOK([f EXCEPT !.steps[i].waits = w])
    BY DEF w
  <2> QED
    BY <1>6, <1>9, <2>1, <2>2
<1>10. \/ g = [f EXCEPT !.steps = Append(f.steps, EmptyStep)]
       \/ Len(f.steps) > 1 /\ \E i \in DOMAIN f.steps : g = [f EXCEPT !.steps = RemoveAt(f.steps, i)]
       \/ \E i \in DOMAIN f.steps, t \in RuSteps : g = [f EXCEPT !.steps[i].type = t]
       \/ \E i \in DOMAIN f.steps, v \in 1..2 : g = [f EXCEPT !.steps[i].args[ArgOf[f.steps[i].type]] = v]
       \/ \E i \in 2..Len(f.steps) : g = [f EXCEPT !.steps[i].waits = ~f.steps[i].waits]
  <2> DEFINE S1 == {[f EXCEPT !.steps = Append(f.steps, EmptyStep)]}
             S2 == {[f EXCEPT !.steps = RemoveAt(f.steps, i)] : i \in DOMAIN f.steps}
             F3(i, t) == [f EXCEPT !.steps[i].type = t]
             F4(i, v) == [f EXCEPT !.steps[i].args[ArgOf[f.steps[i].type]] = v]
             S3 == {F3(i, t) : i \in DOMAIN f.steps, t \in RuSteps}
             S4 == {F4(i, v) : i \in DOMAIN f.steps, v \in 1..2}
             S5 == {[f EXCEPT !.steps[i].waits = ~f.steps[i].waits] : i \in 2..Len(f.steps)}
  <2>1. StepShapes(f) = S1 \union (IF Len(f.steps) > 1 THEN S2 ELSE {}) \union S3 \union S4 \union S5
    BY DEF StepShapes
  <2>2. g \in S1 => g = [f EXCEPT !.steps = Append(f.steps, EmptyStep)]
    OBVIOUS
  <2>3. g \in S2 => \E i \in DOMAIN f.steps : g = [f EXCEPT !.steps = RemoveAt(f.steps, i)]
    OBVIOUS
  <2>4. g \in S3 => \E i \in DOMAIN f.steps, t \in RuSteps : g = [f EXCEPT !.steps[i].type = t]
    <3>1. g \in S3 => \E i \in DOMAIN f.steps, t \in RuSteps : g = F3(i, t)
      <4> HIDE DEF F3
      <4> QED
        OBVIOUS
    <3> HIDE DEF S3
    <3> QED
      BY <3>1, Zenon DEF F3
  <2>5. g \in S4 => \E i \in DOMAIN f.steps, v \in 1..2 : g = [f EXCEPT !.steps[i].args[ArgOf[f.steps[i].type]] = v]
    <3>1. g \in S4 => \E i \in DOMAIN f.steps, v \in 1..2 : g = F4(i, v)
      <4> HIDE DEF F4
      <4> QED
        OBVIOUS
    <3> HIDE DEF S4
    <3> QED
      BY <3>1, Zenon DEF F4
  <2>6. g \in S5 => \E i \in 2..Len(f.steps) : g = [f EXCEPT !.steps[i].waits = ~f.steps[i].waits]
    BY Zenon
  <2> HIDE DEF S1, S2, S3, S4, S5
  <2>7. g \in S1 \/ (Len(f.steps) > 1 /\ g \in S2) \/ g \in S3 \/ g \in S4 \/ g \in S5
    BY <2>1
  <2> QED
    BY <2>2, <2>3, <2>4, <2>5, <2>6, <2>7
<1> HIDE DEF FormOK, EmptyStep
<1>11. CASE g = [f EXCEPT !.steps = Append(f.steps, EmptyStep)]
  BY <1>4, <1>11
<1>12. CASE Len(f.steps) > 1 /\ \E i \in DOMAIN f.steps : g = [f EXCEPT !.steps = RemoveAt(f.steps, i)]
  BY <1>5, <1>12
<1>13. CASE \E i \in DOMAIN f.steps, t \in RuSteps : g = [f EXCEPT !.steps[i].type = t]
  BY <1>7, <1>13
<1>14. CASE \E i \in DOMAIN f.steps, v \in 1..2 : g = [f EXCEPT !.steps[i].args[ArgOf[f.steps[i].type]] = v]
  BY <1>8, <1>14, Zenon
<1>15. CASE \E i \in 2..Len(f.steps) : g = [f EXCEPT !.steps[i].waits = ~f.steps[i].waits]
  BY <1>9, <1>15, Zenon
<1> QED
  BY <1>10, <1>11, <1>12, <1>13, <1>14, <1>15

\* What a form sends, and whether the service takes it.
LEMMA StepsSent ==
  ASSUME NEW f, FormOK(f)
  PROVE  /\ Sends(f).steps \in Seq(RuleStep) /\ Len(Sends(f).steps) = Len(f.steps) /\ DOMAIN Sends(f).steps = DOMAIN f.steps
         /\ DOMAIN f.steps = 1..Len(f.steps) /\ Len(f.steps) \in Nat /\ Len(f.steps) >= 1
         /\ \A i \in DOMAIN f.steps : /\ f.steps[i] \in Draft /\ Sends(f).steps[i] = ToStep(f.steps[i], i)
                                      /\ ToStep(f.steps[i], i) \in RuleStep
<1>1. f.steps \in Seq(Draft) /\ Len(f.steps) \in Nat /\ Len(f.steps) >= 1 /\ DOMAIN f.steps = 1..Len(f.steps)
  BY DEF FormOK, FormRow
<1>2. \A i \in DOMAIN f.steps : f.steps[i] \in Draft
  BY <1>1
<1>3. ASSUME NEW i \in DOMAIN f.steps PROVE ToStep(f.steps[i], i) \in RuleStep
  <2>1. f.steps[i] \in Draft /\ i \in Nat
    BY <1>1, <1>2
  <2>2. WaitsAt(f.steps[i], i) \in BOOLEAN
    BY <2>1 DEF WaitsAt
  <2>3. ArgOf[f.steps[i].type] \in ArgFields
    BY <2>1, FieldsKnown DEF Draft
  <2> HIDE DEF ArgOf, Values, StepTypes, ArgFields
  <2> QED
    BY <2>1, <2>2, <2>3 DEF ToStep, Draft, RuleStep
<1> DEFINE q == [i \in DOMAIN f.steps |-> ToStep(f.steps[i], i)]
<1>4. Sends(f).steps = q
  BY DEF Sends
<1>5. q \in [1..Len(f.steps) -> RuleStep] /\ \A i \in DOMAIN f.steps : q[i] = ToStep(f.steps[i], i)
  <2> HIDE DEF RuleStep, ToStep, Draft
  <2> QED
    BY <1>1, <1>3
<1> HIDE DEF q, RuleStep, ToStep, Draft, Sends
<1>6. q \in Seq(RuleStep) /\ Len(q) = Len(f.steps) /\ DOMAIN q = 1..Len(f.steps)
  BY <1>1, <1>5, ListedIsSequence
<1> QED
  BY <1>1, <1>2, <1>3, <1>4, <1>5, <1>6

LEMMA NeverUnsent ==
  (\A h \in Hour \union {NoHour} : h # UnsentHour) /\ (\A s \in Statuses : s # Unsent)
<1>1. \A h \in Hour \union {NoHour} : h # UnsentHour
  BY DEF Hour, NoHour, UnsentHour
<1>2. \A s \in Statuses : s # Unsent
  BY DEF Statuses, Unsent
<1> QED
  BY <1>1, <1>2

LEMMA CompleteIsTaken ==
  ASSUME NEW f, FormOK(f), Complete(f), NEW o
  PROVE  /\ TriggerIsSetUp(Sends(f), o)
         /\ Len(f.steps) <= RuLongest => Parses(Sends(f).steps) /\ Acceptable(Sends(f), o)
         /\ Len(Sends(f).steps) = Len(f.steps)
<1>1. TriggerIsSetUp(Sends(f), o)
  <2>1. f.from \in Hour \union {NoHour} /\ f.till \in Hour \union {NoHour} /\ f.status \in Statuses
    BY DEF FormOK, FormRow
  <2>2. f.trigger = "OFF_HOURS" => f.from # NoHour /\ f.till # NoHour
    BY DEF Complete
  <2>3. /\ Sends(f).trigger = f.trigger
        /\ Sends(f).status = IF f.trigger = "STATUS_CHANGED" THEN f.status ELSE Unsent
        /\ Sends(f).from = IF f.trigger = "OFF_HOURS" /\ f.from # NoHour THEN f.from ELSE UnsentHour
        /\ Sends(f).till = IF f.trigger = "OFF_HOURS" /\ f.till # NoHour THEN f.till ELSE UnsentHour
    BY DEF Sends
  <2>4. f.from # UnsentHour /\ f.till # UnsentHour /\ f.status # Unsent
    BY <2>1, NeverUnsent
  <2> HIDE DEF Sends
  <2> QED
    BY <2>2, <2>3, <2>4 DEF TriggerIsSetUp, Merged
<1>2. ASSUME Len(f.steps) <= RuLongest PROVE Parses(Sends(f).steps)
  <2> DEFINE q == Sends(f).steps
  <2>1. /\ Len(q) = Len(f.steps) /\ DOMAIN q = DOMAIN f.steps /\ DOMAIN f.steps = 1..Len(f.steps)
        /\ Len(f.steps) \in Nat /\ Len(f.steps) >= 1
        /\ \A i \in DOMAIN f.steps : f.steps[i] \in Draft /\ q[i] = ToStep(f.steps[i], i)
    BY StepsSent
  <2> HIDE DEF q
  <2>2. \A i \in DOMAIN f.steps : /\ q[i].type = f.steps[i].type /\ (q[i].waits => i > 1)
                                  /\ q[i].arg = f.steps[i].args[ArgOf[f.steps[i].type]]
    <3>1. \A d, i : /\ ToStep(d, i).type = d.type /\ ToStep(d, i).arg = d.args[ArgOf[d.type]]
                    /\ ToStep(d, i).waits = WaitsAt(d, i)
      BY DEF ToStep
    <3>2. \A d, i : WaitsAt(d, i) => i > 1
      BY DEF WaitsAt
    <3> HIDE DEF ArgOf, Draft
    <3> QED
      BY <2>1, <3>1, <3>2
  <2>3. \A i \in DOMAIN f.steps :
          ArgOf[f.steps[i].type] # "nothing" => f.steps[i].args[ArgOf[f.steps[i].type]] # 0
    BY DEF Complete
  <2>4. ~q[1].waits
    <3>1. 1 \in DOMAIN f.steps
      BY <2>1
    <3> QED
      BY <2>2, <3>1
  <2>5. \A i \in DOMAIN q : ArgOf[q[i].type] # "nothing" => q[i].arg # 0
    <3> HIDE DEF ArgOf
    <3> QED
      BY <2>1, <2>2, <2>3
  <2>6. Len(q) \in 1..RuLongest
    BY <1>2, <2>1, RulesAssumption
  <2> QED
    BY <2>4, <2>5, <2>6 DEF Parses, q
<1> QED
  BY <1>1, <1>2, StepsSent DEF Acceptable

LEMMA ParsesIsShort ==
  ASSUME NEW f, FormOK(f), Parses(Sends(f).steps)
  PROVE  Len(f.steps) <= RuLongest
<1>1. Len(Sends(f).steps) = Len(f.steps) /\ Len(f.steps) \in Nat
  BY StepsSent
<1> QED
  BY <1>1, RulesAssumption DEF Parses

\* What is written is what the form shows.
LEMMA WrittenIsShown ==
  ASSUME NEW f, FormOK(f), Complete(f), Len(f.steps) <= RuLongest, NEW o, OldOK(o)
  PROVE  LET r == Written(Sends(f), o) IN
         r \in RuleRow /\ r.state = o.state /\ IsAsShown(r, f) /\ CanRun(r)
<1> DEFINE p == Sends(f)
           r == Written(p, o)
<1>1. /\ f.trigger \in Triggers /\ f.terms \in SUBSET RuTerms /\ f.marks \in SUBSET RuMarks /\ f.status \in Statuses
      /\ f.from \in Hour \union {NoHour} /\ f.till \in Hour \union {NoHour} /\ f.place \in RuPlaces \union {Anywhere}
      /\ f.enabled \in BOOLEAN
  BY DEF FormOK, FormRow
<1>2. f.trigger = "OFF_HOURS" => f.from # NoHour /\ f.till # NoHour
  BY DEF Complete
<1>3. /\ p.trigger = f.trigger /\ p.terms = f.terms /\ p.marks = f.marks /\ p.enabled = f.enabled
      /\ p.status = IF f.trigger = "STATUS_CHANGED" THEN f.status ELSE Unsent
      /\ p.from = IF f.trigger = "OFF_HOURS" /\ f.from # NoHour THEN f.from ELSE UnsentHour
      /\ p.till = IF f.trigger = "OFF_HOURS" /\ f.till # NoHour THEN f.till ELSE UnsentHour
      /\ p.place = IF f.place = Anywhere THEN Unsent ELSE f.place
  BY DEF Sends
<1>4. p.steps \in Seq(RuleStep) /\ Parses(p.steps) /\ Len(p.steps) = Len(f.steps)
      /\ DOMAIN p.steps = DOMAIN f.steps /\ \A i \in DOMAIN f.steps : p.steps[i] = ToStep(f.steps[i], i)
  BY StepsSent, CompleteIsTaken
<1>5. f.from # UnsentHour /\ f.till # UnsentHour /\ f.status # Unsent
  BY <1>1, NeverUnsent
<1>6. f.place # Anywhere => f.place # Unsent
  BY <1>1, RulesAssumption
<1> HIDE DEF p
<1>7. /\ r.state = o.state /\ r.trigger = p.trigger /\ r.terms = p.terms /\ r.marks = p.marks
      /\ r.status = Merged(p.status, o.status, Unsent) /\ r.from = Merged(p.from, o.from, UnsentHour)
      /\ r.till = Merged(p.till, o.till, UnsentHour) /\ r.place = Merged(p.place, o.place, Unsent)
      /\ r.enabled = p.enabled /\ r.steps = p.steps
  BY DEF Written
<1>8. /\ Merged(p.status, o.status, Unsent) \in Statuses \union {Unsent}
      /\ Merged(p.from, o.from, UnsentHour) \in Hour \union {NoHour}
      /\ Merged(p.till, o.till, UnsentHour) \in Hour \union {NoHour}
      /\ Merged(p.place, o.place, Unsent) \in RuPlaces \union {Anywhere}
  <2> HIDE DEF Hour, NoHour, Statuses, Unsent, UnsentHour
  <2> QED
    BY <1>1, <1>3 DEF Merged, OldOK
<1>9. r \in RuleRow
  <2> HIDE DEF Hour, NoHour, Statuses, Unsent, UnsentHour, Triggers, Merged, RuleStep
  <2>1. o.state \in {"live", "gone"}
    BY DEF OldOK
  <2> QED
    BY <1>1, <1>3, <1>4, <1>8, <2>1 DEF RuleRow, Written
<1>10. IsAsShown(r, f)
  <2> HIDE DEF r
  <2> QED
    BY <1>2, <1>3, <1>4, <1>5, <1>6, <1>7 DEF IsAsShown, Merged
<1>11. CanRun(r)
  <2> HIDE DEF r
  <2> QED
    BY <1>2, <1>3, <1>4, <1>5, <1>7 DEF CanRun, Merged
<1> QED
  BY <1>7, <1>9, <1>10, <1>11 DEF p

\* What a form shows of a rule can be sent back.
LEMMA ShownForm ==
  ASSUME NEW r \in RuleRow, CanRun(r)
  PROVE  /\ FormOK(ToForm(r)) /\ Complete(ToForm(r)) /\ Len(ToForm(r).steps) = Len(r.steps)
         /\ Len(r.steps) \in 1..RuLongest /\ r.steps \in Seq(RuleStep) /\ DOMAIN r.steps = 1..Len(r.steps)
         /\ \A i \in DOMAIN r.steps : ToForm(r).steps[i] = ToDraft(r.steps[i])
         /\ \A i \in DOMAIN r.steps : ToStep(ToDraft(r.steps[i]), i) = r.steps[i]
<1> DEFINE g == ToForm(r)
           q == [i \in DOMAIN r.steps |-> ToDraft(r.steps[i])]
<1>1. r.steps \in Seq(RuleStep) /\ DOMAIN r.steps = 1..Len(r.steps) /\ Len(r.steps) \in Nat
      /\ \A i \in DOMAIN r.steps : r.steps[i] \in RuleStep
  BY DEF RuleRow
<1>2. /\ Len(r.steps) \in 1..RuLongest /\ Len(r.steps) >= 1 /\ ~r.steps[1].waits
      /\ \A i \in DOMAIN r.steps : ArgOf[r.steps[i].type] # "nothing" => r.steps[i].arg # 0
  BY <1>1, RulesAssumption DEF CanRun, Parses
<1>3. ASSUME NEW s \in RuleStep
      PROVE  /\ ToDraft(s) \in Draft /\ ToDraft(s).type = s.type /\ ToDraft(s).waits = s.waits
             /\ ToDraft(s).args[ArgOf[s.type]] = s.arg
  <2>1. ArgOf[s.type] \in ArgFields /\ DefaultArgs \in [ArgFields -> Values]
    BY FieldsKnown DEF RuleStep
  <2> HIDE DEF ArgOf, ArgFields, DefaultArgs, Values, StepTypes
  <2>2. s.arg \in Values
    BY DEF RuleStep
  <2>3. [DefaultArgs EXCEPT ![ArgOf[s.type]] = s.arg] \in [ArgFields -> Values]
        /\ [DefaultArgs EXCEPT ![ArgOf[s.type]] = s.arg][ArgOf[s.type]] = s.arg
    BY <2>1, <2>2
  <2> QED
    BY <2>3 DEF ToDraft, Draft, RuleStep
<1>4. g.steps = q /\ g.trigger = r.trigger /\ g.from = r.from /\ g.till = r.till
  BY DEF ToForm
<1>5. q \in [1..Len(r.steps) -> Draft] /\ \A i \in DOMAIN r.steps : q[i] = ToDraft(r.steps[i])
  <2> HIDE DEF Draft, RuleStep, ToDraft
  <2> QED
    BY <1>1, <1>3
<1>6. q \in Seq(Draft) /\ Len(q) = Len(r.steps) /\ DOMAIN q = 1..Len(r.steps)
  <2> HIDE DEF q, Draft
  <2> QED
    BY <1>1, <1>5, ListedIsSequence
<1>7. g \in FormRow
  <2> DEFINE s == IF r.status = Unsent THEN "RESOLVED" ELSE r.status
  <2>1. s \in Statuses
    BY DEF RuleRow, Statuses
  <2>2. g = [trigger |-> r.trigger, terms |-> r.terms, marks |-> r.marks, status |-> s, from |-> r.from, till |-> r.till,
             place |-> r.place, enabled |-> r.enabled, steps |-> q]
    BY DEF ToForm
  <2> HIDE DEF s, q, g, Draft, RuleStep, Hour, NoHour, Triggers, Statuses
  <2> QED
    BY <1>6, <2>1, <2>2 DEF RuleRow, FormRow
<1>8. FormOK(g)
  BY <1>2, <1>4, <1>6, <1>7 DEF FormOK
<1>9. Complete(g)
  <2>1. g.trigger = "OFF_HOURS" => NoHour \notin {g.from, g.till}
    BY <1>4 DEF CanRun
  <2>2. \A i \in DOMAIN g.steps : ArgOf[g.steps[i].type] # "nothing" => g.steps[i].args[ArgOf[g.steps[i].type]] # 0
    <3> HIDE DEF q, g, ArgOf, ToDraft, Draft, RuleStep
    <3> QED
      BY <1>1, <1>2, <1>3, <1>4, <1>5, <1>6
  <2> QED
    BY <2>1, <2>2 DEF Complete
<1>10. ASSUME NEW i \in DOMAIN r.steps PROVE ToStep(ToDraft(r.steps[i]), i) = r.steps[i]
  <2>1. r.steps[i] \in RuleStep
    BY <1>1
  <2>2. (i > 1 /\ r.steps[i].waits) = r.steps[i].waits
    <3>1. i > 1 \/ i = 1
      BY <1>1
    <3>2. r.steps[i].waits \in BOOLEAN
      BY <2>1 DEF RuleStep
    <3> QED
      BY <1>2, <3>1, <3>2
  <2> DEFINE s == r.steps[i]
             d == ToDraft(s)
  <2>3. d.type = s.type /\ d.waits = s.waits /\ d.args[ArgOf[s.type]] = s.arg
    BY <1>3, <2>1
  <2>4. s = [type |-> s.type, arg |-> s.arg, waits |-> s.waits]
    BY <2>1 DEF RuleStep
  <2> HIDE DEF d, s, ArgOf
  <2>5. ToStep(d, i) = [type |-> d.type, arg |-> d.args[ArgOf[d.type]], waits |-> (i > 1 /\ d.waits)]
    BY DEF ToStep, WaitsAt
  <2>6. ToStep(d, i) = [type |-> s.type, arg |-> s.arg, waits |-> (i > 1 /\ s.waits)]
    BY <2>3, <2>5
  <2>7. (i > 1 /\ s.waits) = s.waits
    BY <2>2 DEF s
  <2>8. ToStep(d, i) = s
    BY <2>4, <2>6, <2>7
  <2> QED
    BY <2>8 DEF d, s
<1> HIDE DEF q
<1> QED
  BY <1>1, <1>2, <1>4, <1>5, <1>6, <1>8, <1>9, <1>10

\* The rule starts for what its form says.
LEMMA StartsAsShown ==
  ASSUME NEW r \in RuleRow, NEW f, FormOK(f), IsAsShown(r, f), CanRun(r), r.state = "live", NEW c \in Happenings
  PROVE  StartsOn(r, c) <=> SaysStart(IF f.place = Anywhere THEN [f EXCEPT !.place = r.place] ELSE f, c)
<1> DEFINE g == IF f.place = Anywhere THEN [f EXCEPT !.place = r.place] ELSE f
<1>1. /\ f \in FormRow
      /\ r.trigger = f.trigger /\ r.terms = f.terms /\ r.marks = f.marks /\ r.enabled = f.enabled
      /\ f.trigger = "STATUS_CHANGED" => r.status = f.status
      /\ f.trigger = "OFF_HOURS" => r.from = f.from /\ r.till = f.till
      /\ f.place # Anywhere => r.place = f.place
  BY DEF FormOK, IsAsShown
<1>2. /\ g.trigger = f.trigger /\ g.terms = f.terms /\ g.marks = f.marks /\ g.enabled = f.enabled /\ g.place = r.place
      /\ g.status = f.status /\ g.from = f.from /\ g.till = f.till
  BY <1>1 DEF FormRow
<1>3. /\ r.trigger = "OFF_HOURS" => r.from # NoHour /\ r.till # NoHour
      /\ r.trigger = "STATUS_CHANGED" => r.status # Unsent
  BY DEF CanRun
<1>4. c.on = "OFF_HOURS" => c.hour \in Hour
  BY RulesAssumption DEF Happenings
<1>5. ASSUME r.trigger = "OFF_HOURS", c.on = "OFF_HOURS"
      PROVE  IsOffHours(c.hour, r.from, r.till) <=> c.hour \notin ClockWindow(r.from, r.till)
  <2>1. r.from \in Hour \union {NoHour} /\ r.till \in Hour \union {NoHour}
    BY DEF RuleRow
  <2>2. Within(c.hour, r.from, r.till) <=> c.hour \in ClockWindow(r.from, r.till)
    BY <1>4, <1>5, <2>1, WithinIsByTheClock
  <2> HIDE DEF Within, ClockWindow, RuleRow
  <2> QED
    BY <1>3, <1>5, <2>2 DEF IsOffHours
<1>6. KeywordMatches(r, c) <=> (f.terms = {} \/ \E w \in f.terms : w \in c.terms)
  BY <1>1 DEF KeywordMatches
<1> HIDE DEF g, ClockWindow, IsOffHours, KeywordMatches, RuleRow, FormRow, Happenings
<1>7. StartsOn(r, c) <=> SaysStart(g, c)
  BY <1>1, <1>2, <1>3, <1>5, <1>6 DEF StartsOn, SaysStart
<1> QED
  BY <1>7 DEF g

\* Opened and saved untouched, it is the same.
LEMMA SameWhenSaved ==
  ASSUME NEW r \in RuleRow, CanRun(r)
  PROVE  Written(Sends(ToForm(r)), r) = r
<1> DEFINE g == ToForm(r)
           p == Sends(g)
<1>1. /\ r.from \in Hour \union {NoHour} /\ r.till \in Hour \union {NoHour} /\ r.status \in Statuses \union {Unsent}
      /\ r.place \in RuPlaces \union {Anywhere} /\ r.trigger \in Triggers
  BY DEF RuleRow
<1>2. r = [state |-> r.state, trigger |-> r.trigger, terms |-> r.terms, marks |-> r.marks, status |-> r.status,
           from |-> r.from, till |-> r.till, place |-> r.place, enabled |-> r.enabled, steps |-> r.steps]
  <2> HIDE DEF Triggers, Statuses, Hour, NoHour, Unsent, RuleStep
  <2> QED
    BY DEF RuleRow
<1>3. /\ r.trigger = "OFF_HOURS" => r.from # NoHour /\ r.till # NoHour
      /\ r.trigger = "STATUS_CHANGED" => r.status # Unsent
  BY DEF CanRun
<1>4. /\ g.trigger = r.trigger /\ g.terms = r.terms /\ g.marks = r.marks /\ g.enabled = r.enabled
      /\ g.from = r.from /\ g.till = r.till /\ g.place = r.place
      /\ g.status = IF r.status = Unsent THEN "RESOLVED" ELSE r.status
  BY DEF ToForm
<1>5. FormOK(g) /\ Len(g.steps) = Len(r.steps) /\ r.steps \in Seq(RuleStep) /\ DOMAIN r.steps = 1..Len(r.steps)
      /\ \A i \in DOMAIN r.steps : ToStep(g.steps[i], i) = r.steps[i]
  BY ShownForm
<1>6. r.from # UnsentHour /\ r.till # UnsentHour
  BY <1>1, NeverUnsent
<1> HIDE DEF g
<1>7. /\ p.trigger = g.trigger /\ p.terms = g.terms /\ p.marks = g.marks /\ p.enabled = g.enabled
      /\ p.status = IF g.trigger = "STATUS_CHANGED" THEN g.status ELSE Unsent
      /\ p.from = IF g.trigger = "OFF_HOURS" /\ g.from # NoHour THEN g.from ELSE UnsentHour
      /\ p.till = IF g.trigger = "OFF_HOURS" /\ g.till # NoHour THEN g.till ELSE UnsentHour
      /\ p.place = IF g.place = Anywhere THEN Unsent ELSE g.place
  BY DEF Sends
<1>8. p.steps = r.steps
  <2>1. /\ p.steps \in Seq(RuleStep) /\ Len(p.steps) = Len(r.steps)
        /\ \A i \in DOMAIN r.steps : p.steps[i] = r.steps[i]
    BY <1>5, StepsSent
  <2> DEFINE q == p.steps
             s == r.steps
  <2> SUFFICES q = s
    OBVIOUS
  <2> HIDE DEF q, s, RuleStep
  <2>2. q \in [1..Len(s) -> RuleStep] /\ s \in [1..Len(s) -> RuleStep] /\ \A i \in 1..Len(s) : q[i] = s[i]
    BY <1>5, <2>1 DEF q, s
  <2> QED
    BY <2>2
<1> HIDE DEF p
<1>9. /\ Merged(p.status, r.status, Unsent) = r.status /\ Merged(p.from, r.from, UnsentHour) = r.from
      /\ Merged(p.till, r.till, UnsentHour) = r.till /\ Merged(p.place, r.place, Unsent) = r.place
  <2> HIDE DEF Unsent, UnsentHour, NoHour, Hour
  <2> QED
    BY <1>1, <1>3, <1>4, <1>6, <1>7 DEF Merged
<1>10. Written(p, r) = [state |-> r.state, trigger |-> r.trigger, terms |-> r.terms, marks |-> r.marks, status |-> r.status,
           from |-> r.from, till |-> r.till, place |-> r.place, enabled |-> r.enabled, steps |-> r.steps]
  BY <1>4, <1>7, <1>8, <1>9 DEF Written
<1> QED
  BY <1>2, <1>10 DEF p, g

LEMMA RuInvHolds ==
  ASSUME RuInv
  PROVE  RulesHold
<1>1. RuWorld /\ (\A e \in Editors : PageOK(page[e])) /\ (shown # NeverShown /\ saved.state = "live" => IsAsShown(saved, shown))
  BY DEF RuInv
<1>2. RuleIsAsShown
  <2> SUFFICES ASSUME shown # NeverShown, saved.state = "live"
               PROVE  /\ \A c \in Happenings :
                           StartsOn(saved, c) <=>
                             SaysStart(IF shown.place = Anywhere THEN [shown EXCEPT !.place = saved.place] ELSE shown, c)
                      /\ Len(saved.steps) = Len(shown.steps)
                      /\ \A i \in DOMAIN saved.steps :
                           <<saved.steps[i].type, saved.steps[i].arg, saved.steps[i].waits>> = SaysStep(shown.steps[i], i)
    BY DEF RuleIsAsShown
  <2>1. saved \in RuleRow /\ CanRun(saved) /\ FormOK(shown) /\ IsAsShown(saved, shown)
    BY <1>1 DEF RuWorld
  <2>2. \A c \in Happenings :
          StartsOn(saved, c) <=>
            SaysStart(IF shown.place = Anywhere THEN [shown EXCEPT !.place = saved.place] ELSE shown, c)
    BY <2>1, StartsAsShown
  <2>3. Len(saved.steps) = Len(shown.steps) /\ \A i \in DOMAIN saved.steps : saved.steps[i] = ToStep(shown.steps[i], i)
    BY <2>1 DEF IsAsShown
  <2>4. \A d, i : <<ToStep(d, i).type, ToStep(d, i).arg, ToStep(d, i).waits>> = SaysStep(d, i)
    BY DEF ToStep, SaysStep, WaitsAt
  <2>5. \A i \in DOMAIN saved.steps :
          <<saved.steps[i].type, saved.steps[i].arg, saved.steps[i].waits>> = SaysStep(shown.steps[i], i)
    <3> HIDE DEF ToStep, SaysStep
    <3> QED
      BY <2>3, <2>4
  <2> QED
    BY <2>2, <2>3, <2>5
<1>3. OpeningChangesNothing
  <2> SUFFICES ASSUME saved # NoRule
               PROVE  /\ Parses(saved.steps) /\ Complete(ToForm(saved))
                      /\ Written(Sends(ToForm(saved)), saved) = saved
    BY DEF OpeningChangesNothing
  <2>1. saved \in RuleRow /\ CanRun(saved)
    BY <1>1 DEF RuWorld
  <2> QED
    BY <2>1, ShownForm, SameWhenSaved DEF CanRun
<1>4. RefusedForGone
  <2>1. saved.state = "gone" => \A c \in Happenings : ~StartsOn(saved, c)
    BY DEF StartsOn
  <2>2. \A e \in Editors : CallAt(e, "refused") => page[e].for = "edit" /\ saved.state = "gone"
    BY <1>1 DEF PageOK, CallAt
  <2> QED
    BY <2>1, <2>2 DEF RefusedForGone
<1> QED
  BY <1>2, <1>3, <1>4 DEF RulesHold

\* A page changes, and the rule stays as it is.
LEMMA PageTurns ==
  ASSUME RuInv, NEW e \in Editors, NEW y \in PageRow, PageOK(y), page' = [page EXCEPT ![e] = y],
         UNCHANGED <<saved, shown>>, ruLeft' \in [RuEvents -> Nat],
         Creates(y) => \A o \in Editors : o # e => ~Creates(page[o])
  PROVE  RuInv'
<1> HIDE DEF PageRow
<1>1. RuWorld /\ page \in [Editors -> PageRow]
  BY DEF RuInv, RuWorld
<1>2. page' \in [Editors -> PageRow] /\ page'[e] = y /\ \A o \in Editors : o # e => page'[o] = page[o]
  BY <1>1
<1>3. RuWorld'
  BY <1>1, <1>2 DEF RuWorld
<1>4. \A x : PageOK(x) => PageOK(x)'
  BY DEF PageOK
<1>5. \A o \in Editors : PageOK(page'[o])
  BY <1>2 DEF RuInv
<1>6. \A o \in Editors : PageOK(page[o])'
  <2> TAKE o \in Editors
  <2>1. PICK x : x = page'[o]
    OBVIOUS
  <2>2. PageOK(x)'
    BY <1>4, <1>5, <2>1
  <2> QED
    BY <2>1, <2>2 DEF PageOK
<1>7. \A o, b \in Editors : Creates(page'[o]) /\ Creates(page'[b]) => o = b
  BY <1>2 DEF RuInv
<1>8. shown' # NeverShown /\ saved'.state = "live" => IsAsShown(saved', shown')
  BY DEF RuInv
<1> QED
  BY <1>3, <1>6, <1>7, <1>8 DEF RuInv, Creates, IsAsShown

LEMMA RuUsed ==
  ASSUME RuInv, NEW w \in RuEvents, RuUses(w)
  PROVE  ruLeft' \in [RuEvents -> Nat]
BY DEF RuInv, RuWorld, RuUses

LEMMA PageNow ==
  ASSUME RuInv, NEW e \in Editors
  PROVE  page[e] \in PageRow /\ PageOK(page[e]) /\ page \in [Editors -> PageRow]
BY DEF RuInv, RuWorld

LEMMA NewPageIsOK ==
  NewPage \in PageRow /\ PageOK(NewPage) /\ ~Creates(NewPage) /\ NewPage.for = "new" /\ NewPage.call.step = "idle"
<1>1. FormOK(EmptyForm) /\ EmptyForm \in FormRow
  BY FormsKnown DEF FormOK
<1>2. NoCall \in [step : CallSteps]
  BY DEF NoCall, CallSteps
<1>3. NewPage.for = "new" /\ NewPage.form = EmptyForm /\ NewPage.call.step = "idle"
  BY DEF NewPage, NoCall
<1>4. NewPage \in PageRow
  <2> HIDE DEF EmptyForm, NoCall, CallSteps, FormRow
  <2> QED
    BY <1>1, <1>2 DEF NewPage, PageRow
<1> HIDE DEF NewPage
<1> QED
  BY <1>1, <1>3, <1>4 DEF PageOK, Creates

LEMMA OpenRuleKeeps ==
  ASSUME RuInv, NEW e \in Editors, OpenRule(e)
  PROVE  RuInv'
<1> DEFINE y == [for |-> "edit", form |-> ToForm(saved), call |-> NoCall]
<1>1. saved.state = "live" /\ page' = [page EXCEPT ![e] = y] /\ UNCHANGED <<saved, shown>>
      /\ ruLeft' \in [RuEvents -> Nat]
  BY RuUsed DEF OpenRule, RuEvents
<1>2. saved # NoRule /\ saved \in RuleRow /\ CanRun(saved)
  BY <1>1 DEF NoRule, RuInv, RuWorld
<1>3. FormOK(ToForm(saved)) /\ ToForm(saved) \in FormRow
  BY <1>2, ShownForm DEF FormOK
<1>4. y.for = "edit" /\ y.form = ToForm(saved) /\ y.call.step = "idle"
  BY DEF NoCall
<1>5. y \in PageRow
  <2>1. NoCall \in [step : CallSteps]
    BY DEF NoCall, CallSteps
  <2> HIDE DEF NoCall, CallSteps, FormRow, ToForm
  <2> QED
    BY <1>3, <2>1 DEF PageRow
<1> HIDE DEF y, ToForm
<1>6. PageOK(y) /\ ~Creates(y)
  BY <1>2, <1>3, <1>4 DEF PageOK, Creates
<1> QED
  BY <1>1, <1>5, <1>6, PageTurns

LEMMA UseTemplateKeeps ==
  ASSUME RuInv, NEW e \in Editors, NEW f, FormOK(f), UseTemplate(e, f)
  PROVE  RuInv'
<1> DEFINE y == [for |-> "new", form |-> f, call |-> NoCall]
<1>1. page' = [page EXCEPT ![e] = y] /\ UNCHANGED <<saved, shown>> /\ ruLeft' \in [RuEvents -> Nat]
  BY RuUsed DEF UseTemplate, RuEvents
<1>2. y.for = "new" /\ y.form = f /\ y.call.step = "idle"
  BY DEF NoCall
<1>3. y \in PageRow
  <2>1. NoCall \in [step : CallSteps] /\ f \in FormRow
    BY DEF NoCall, CallSteps, FormOK
  <2> HIDE DEF NoCall, CallSteps, FormRow
  <2> QED
    BY <2>1 DEF PageRow
<1> HIDE DEF y
<1>4. PageOK(y) /\ ~Creates(y)
  BY <1>2 DEF PageOK, Creates
<1> QED
  BY <1>1, <1>3, <1>4, PageTurns

\* Nobody fills in a form that is being sent.
LEMMA FillsKeeps ==
  ASSUME RuInv, NEW e \in Editors, NEW f, FormOK(f), Editable(e), Fills(e, f), UNCHANGED <<saved, shown>>,
         ruLeft' \in [RuEvents -> Nat]
  PROVE  RuInv'
<1> DEFINE y == [page[e] EXCEPT !.form = f]
<1>1. page[e] \in PageRow /\ PageOK(page[e]) /\ page[e].call.step \in {"idle", "refused", "tooLong"} /\ f \in FormRow
  BY PageNow DEF Editable, FormOK
<1>2. page' = [page EXCEPT ![e] = y]
  BY DEF Fills
<1>3. y \in PageRow /\ y.for = page[e].for /\ y.form = f /\ y.call = page[e].call
  <2> HIDE DEF CallSteps, FormRow
  <2> QED
    BY <1>1 DEF PageRow
<1> HIDE DEF y
<1>4. PageOK(y) /\ ~Creates(y)
  BY <1>1, <1>3 DEF PageOK, Creates
<1> QED
  BY <1>2, <1>3, <1>4, PageTurns

LEMMA ChangeFieldKeeps ==
  ASSUME RuInv, NEW e \in Editors, ChangeField(e)
  PROVE  RuInv'
<1>1. PICK f \in Shapes(page[e].form) : Fills(e, f)
  BY DEF ChangeField
<1>2. FormOK(f)
  BY PageNow, ShapesAreForms DEF PageOK
<1>3. Editable(e) /\ UNCHANGED <<saved, shown>> /\ ruLeft' \in [RuEvents -> Nat]
  BY RuUsed DEF ChangeField, RuEvents
<1> QED
  BY <1>1, <1>2, <1>3, FillsKeeps

LEMMA ChangeStepKeeps ==
  ASSUME RuInv, NEW e \in Editors, ChangeStep(e)
  PROVE  RuInv'
<1>1. PICK f \in StepShapes(page[e].form) : Fills(e, f)
  BY DEF ChangeStep
<1>2. FormOK(f)
  BY PageNow, StepShapesAreForms DEF PageOK
<1>3. Editable(e) /\ UNCHANGED <<saved, shown>> /\ ruLeft' \in [RuEvents -> Nat]
  BY RuUsed DEF ChangeStep, RuEvents
<1> QED
  BY <1>1, <1>2, <1>3, FillsKeeps

\* A request moves on.
LEMMA CallMoves ==
  ASSUME NEW e \in Editors, RuInv, NEW s \in CallSteps, page' = [page EXCEPT ![e].call = [step |-> s]]
  PROVE  \E y \in PageRow : /\ page' = [page EXCEPT ![e] = y]
                            /\ y.for = page[e].for /\ y.form = page[e].form /\ y.call.step = s
<1> DEFINE y == [page[e] EXCEPT !.call = [step |-> s]]
<1>1. page[e] \in PageRow
  BY PageNow
<1>2. y \in PageRow /\ y.for = page[e].for /\ y.form = page[e].form /\ y.call = [step |-> s]
  <2> HIDE DEF CallSteps, FormRow
  <2> QED
    BY <1>1 DEF PageRow
<1>3. page' = [page EXCEPT ![e] = y]
  OBVIOUS
<1>4. y.call.step = s
  BY <1>2
<1> HIDE DEF y
<1> QED
  BY <1>2, <1>3, <1>4

LEMMA SubmitRuleKeeps ==
  ASSUME RuInv, NEW e \in Editors, SubmitRule(e)
  PROVE  RuInv'
<1> DEFINE s == IF page[e].for = "new" THEN "write" ELSE "read"
<1>1. /\ Complete(page[e].form) /\ UNCHANGED <<saved, shown>> /\ ruLeft' \in [RuEvents -> Nat]
      /\ page[e].for = "new" => saved = NoRule /\ \A o \in Editors : CallAt(o, "write") => page[o].for # "new"
      /\ page' = [page EXCEPT ![e].call = [step |-> s]]
  BY RuUsed DEF SubmitRule, RuEvents
<1>2. s \in CallSteps /\ s \in {"read", "write"} /\ (s = "write" <=> page[e].for = "new")
  BY DEF CallSteps
<1> HIDE DEF s
<1>3. PICK y \in PageRow : /\ page' = [page EXCEPT ![e] = y]
                           /\ y.for = page[e].for /\ y.form = page[e].form /\ y.call.step = s
  BY <1>1, <1>2, CallMoves
<1>4. page[e] \in PageRow /\ PageOK(page[e])
  BY PageNow
<1>5. page[e].for \in {"new", "edit"}
  BY <1>4 DEF PageRow
<1>6. PageOK(y)
  BY <1>1, <1>2, <1>3, <1>4, <1>5 DEF PageOK
<1>7. Creates(y) => \A o \in Editors : o # e => ~Creates(page[o])
  BY <1>1, <1>3 DEF Creates, CallAt
<1> HIDE DEF PageRow
<1> QED
  BY <1>1, <1>3, <1>6, <1>7, PageTurns

\* It is taken, unless the rule is gone or has too many steps.
LEMMA Answered ==
  ASSUME NEW f, FormOK(f), Complete(f), NEW o
  PROVE  \/ Acceptable(Sends(f), o) /\ Len(f.steps) <= RuLongest
         \/ ~Acceptable(Sends(f), o) /\ Len(f.steps) > RuLongest /\ Refusal(Sends(f), o) = IF o.state = "live" THEN "tooLong" ELSE "refused"
<1>1. Len(f.steps) \in Nat /\ Len(Sends(f).steps) = Len(f.steps)
  BY StepsSent
<1>2. CASE Len(f.steps) <= RuLongest
  BY <1>2, CompleteIsTaken
<1>3. CASE Len(f.steps) > RuLongest
  <2>1. ~Acceptable(Sends(f), o)
    BY <1>1, <1>3, ParsesIsShort, RulesAssumption DEF Acceptable
  <2> QED
    BY <1>1, <1>3, <2>1 DEF Refusal
<1> QED
  BY <1>1, <1>2, <1>3, RulesAssumption

LEMMA ReadRuleKeeps ==
  ASSUME RuInv, NEW e \in Editors, ReadRule(e)
  PROVE  RuInv'
<1> DEFINE p == Sends(page[e].form)
           s == IF saved.state = "live" /\ Acceptable(p, saved) THEN "write" ELSE Refusal(p, saved)
<1>1. page[e].call.step = "read" /\ UNCHANGED <<saved, shown, ruLeft>> /\ page' = [page EXCEPT ![e].call = [step |-> s]]
  BY DEF ReadRule, CallAt
<1>2. page[e] \in PageRow /\ PageOK(page[e])
  BY PageNow
<1>3. FormOK(page[e].form) /\ Complete(page[e].form) /\ page[e].for = "edit" /\ saved # NoRule
  BY <1>1, <1>2 DEF PageOK
<1>4. saved.state \in {"live", "gone"}
  BY <1>3 DEF RuInv, RuWorld, RuleRow
<1>5. \/ saved.state = "live" /\ s = "write" /\ Len(page[e].form.steps) <= RuLongest
      \/ s = "tooLong"
      \/ s = "refused" /\ saved.state = "gone"
  BY <1>3, <1>4, Answered DEF Refusal
<1>6. s \in CallSteps
  BY <1>5 DEF CallSteps
<1> HIDE DEF s
<1>7. PICK y \in PageRow : /\ page' = [page EXCEPT ![e] = y]
                           /\ y.for = page[e].for /\ y.form = page[e].form /\ y.call.step = s
  BY <1>1, <1>6, CallMoves
<1>8. PageOK(y) /\ ~Creates(y)
  BY <1>3, <1>5, <1>7 DEF PageOK, Creates
<1>9. ruLeft' \in [RuEvents -> Nat]
  BY <1>1 DEF RuInv, RuWorld
<1> HIDE DEF PageRow
<1> QED
  BY <1>1, <1>7, <1>8, <1>9, PageTurns

\* The rule changes, the pages keep what they have.
LEMMA OthersKeepTheirPage ==
  ASSUME RuInv, NEW o \in Editors, saved' # NoRule, saved = NoRule \/ saved'.state = saved.state \/ saved'.state = "gone",
         ~Creates(page[o])
  PROVE  \A x : x = page[o] => PageOK(x)'
<1> TAKE x
<1> HAVE x = page[o]
<1>1. PageOK(x) /\ ~Creates(x)
  BY PageNow
<1>2. NoRule.state = "none"
  BY DEF NoRule
<1>3. x.call.step = "refused" => saved.state = "gone" /\ saved # NoRule
  BY <1>1, <1>2 DEF PageOK
<1>4. x.call.step = "write" => x.for # "new"
  BY <1>1 DEF Creates
<1> QED
  BY <1>1, <1>3, <1>4 DEF PageOK

LEMMA WriteRuleKeeps ==
  ASSUME RuInv, NEW e \in Editors, WriteRule(e)
  PROVE  RuInv'
<1> DEFINE f == page[e].form
           p == Sends(f)
           old == IF page[e].for = "new" THEN BlankRule ELSE saved
<1>1. page[e].call.step = "write" /\ ruLeft' = ruLeft
  BY DEF WriteRule, CallAt
<1>2. page[e] \in PageRow /\ PageOK(page[e]) /\ page[e].for \in {"new", "edit"} /\ RuWorld
  BY PageNow DEF PageRow, RuInv
<1>3. /\ FormOK(f) /\ Complete(f) /\ (page[e].for = "new" => saved = NoRule) /\ (page[e].for = "edit" => saved # NoRule)
      /\ page[e].for = "edit" => Len(f.steps) <= RuLongest
  BY <1>1, <1>2 DEF PageOK
<1>4. OldOK(old) /\ (page[e].for = "new" => old.state = "live")
  <2>1. CASE page[e].for = "new"
    BY <2>1 DEF OldOK, BlankRule
  <2>2. CASE page[e].for = "edit"
    <3>1. saved \in RuleRow /\ old = saved
      BY <1>2, <1>3, <2>2 DEF RuWorld
    <3> QED
      BY <2>2, <3>1 DEF OldOK, RuleRow
  <2> QED
    BY <1>2, <2>1, <2>2
<1>5. ruLeft' \in [RuEvents -> Nat]
  BY <1>1, <1>2 DEF RuWorld
<1>6. CASE page[e].for = "new" /\ ~Acceptable(p, old)
  <2>1. page' = [page EXCEPT ![e].call = [step |-> Refusal(p, old)]] /\ UNCHANGED <<saved, shown>>
    BY <1>6 DEF WriteRule
  <2>2. Refusal(p, old) = "tooLong" /\ "tooLong" \in CallSteps
    BY <1>3, <1>4, <1>6, Answered DEF CallSteps
  <2> HIDE DEF f, p, old
  <2>3. PICK y \in PageRow : /\ page' = [page EXCEPT ![e] = y]
                             /\ y.for = page[e].for /\ y.form = page[e].form /\ y.call.step = "tooLong"
    BY <2>1, <2>2, CallMoves
  <2>4. PageOK(y) /\ ~Creates(y)
    BY <1>2, <2>3 DEF PageOK, Creates
  <2> HIDE DEF PageRow
  <2> QED
    BY <1>5, <2>1, <2>3, <2>4, PageTurns
<1>7. CASE ~(page[e].for = "new" /\ ~Acceptable(p, old))
  <2>1. saved' = Written(p, old) /\ shown' = f /\ page' = [page EXCEPT ![e] = NewPage]
    BY <1>7 DEF WriteRule
  <2>2. Len(f.steps) <= RuLongest
    BY <1>2, <1>3, <1>7, Answered
  <2>3. saved' \in RuleRow /\ saved'.state = old.state /\ IsAsShown(saved', f) /\ CanRun(saved')
    <3> HIDE DEF f, old
    <3> QED
      BY <1>3, <1>4, <2>1, <2>2, WrittenIsShown
  <2>4. saved' # NoRule /\ f # NeverShown
    <3>1. saved'.state \in {"live", "gone"} /\ f.trigger \in Triggers
      BY <1>3, <2>3 DEF RuleRow, FormOK, FormRow
    <3> QED
      BY <3>1 DEF NoRule, NeverShown, Triggers
  <2>5. NewPage \in PageRow /\ PageOK(NewPage) /\ ~Creates(NewPage)
    BY NewPageIsOK
  <2> HIDE DEF PageRow
  <2>6. page' \in [Editors -> PageRow] /\ page'[e] = NewPage /\ \A o \in Editors : o # e => page'[o] = page[o]
    BY <1>2, <2>1, <2>5 DEF RuWorld
  <2>7. RuWorld'
    BY <1>3, <1>5, <2>1, <2>3, <2>4, <2>6 DEF RuWorld
  <2>8. \A o \in Editors : o # e => ~Creates(page[o])
    <3>1. ASSUME NEW o \in Editors, o # e, Creates(page[o]) PROVE FALSE
      <4>1. saved = NoRule
        BY <3>1, PageNow DEF PageOK, Creates
      <4>2. Creates(page[e])
        BY <1>1, <1>2, <1>3, <4>1 DEF Creates
      <4> QED
        BY <3>1, <4>2 DEF RuInv
    <3> QED
      BY <3>1
  <2>9. \A o \in Editors : PageOK(page[o])'
    <3> TAKE o \in Editors
    <3>1. CASE o = e
      <4>1. PICK x : x = page'[o]
        OBVIOUS
      <4>2. x.for = "new" /\ x.call.step = "idle" /\ FormOK(x.form)
        BY <2>6, <3>1, <4>1, NewPageIsOK DEF PageOK
      <4>3. PageOK(x)'
        BY <4>2 DEF PageOK
      <4> QED
        BY <4>1, <4>3 DEF PageOK
    <3>2. CASE o # e
      <4>1. saved = NoRule \/ saved'.state = saved.state
        BY <1>2, <1>3, <2>3
      <4>2. PICK x : x = page[o] /\ x = page'[o]
        BY <2>6, <3>2
      <4>3. PageOK(x)'
        BY <2>4, <2>8, <3>2, <4>1, <4>2, OthersKeepTheirPage
      <4> QED
        BY <4>2, <4>3 DEF PageOK
    <3> QED
      BY <3>1, <3>2
  <2>10. \A o, b \in Editors : Creates(page'[o]) /\ Creates(page'[b]) => o = b
    BY <2>5, <2>6, <2>8
  <2> QED
    BY <2>1, <2>3, <2>7, <2>9, <2>10 DEF RuInv, Creates, IsAsShown
<1> QED
  BY <1>6, <1>7

LEMMA DeleteRuleKeeps ==
  ASSUME RuInv, NEW e \in Editors, DeleteRule(e)
  PROVE  RuInv'
<1>1. /\ saved.state = "live" /\ saved' = [saved EXCEPT !.state = "gone", !.enabled = FALSE] /\ shown' = shown
      /\ page' = IF page[e].for = "edit" THEN [page EXCEPT ![e] = NewPage] ELSE page
      /\ page[e].call.step \in {"idle", "refused", "tooLong"} /\ ruLeft' \in [RuEvents -> Nat]
  BY RuUsed DEF DeleteRule, Editable, RuEvents
<1>2. saved # NoRule
  BY <1>1 DEF NoRule
<1>3. RuWorld /\ saved \in RuleRow /\ CanRun(saved) /\ shown # NeverShown
  BY <1>2 DEF RuInv, RuWorld
<1>4. saved' \in RuleRow /\ saved'.state = "gone" /\ saved'.steps = saved.steps /\ saved'.trigger = saved.trigger
      /\ saved'.status = saved.status /\ saved'.from = saved.from /\ saved'.till = saved.till
  <2> HIDE DEF RuleStep, Triggers, Statuses, Hour, NoHour, Unsent
  <2> QED
    BY <1>1, <1>3 DEF RuleRow
<1>5. saved' # NoRule
  BY <1>4 DEF NoRule
<1>6. CanRun(saved')
  BY <1>3, <1>4 DEF CanRun
<1>7. NewPage \in PageRow /\ PageOK(NewPage) /\ ~Creates(NewPage)
  BY NewPageIsOK
<1> HIDE DEF PageRow
<1>8. page' \in [Editors -> PageRow] /\ (page'[e] = NewPage \/ page'[e] = page[e])
      /\ \A o \in Editors : o # e => page'[o] = page[o]
  BY <1>1, <1>3, <1>7 DEF RuWorld
<1>9. RuWorld'
  BY <1>1, <1>3, <1>4, <1>5, <1>6, <1>8 DEF RuWorld
<1>10. \A o \in Editors : ~Creates(page[o])
  BY <1>2, PageNow DEF PageOK, Creates
<1>11. \A o \in Editors : PageOK(page[o])'
  <2> TAKE o \in Editors
  <2>1. CASE page'[o] = page[o]
    <3>1. PICK x : x = page[o] /\ x = page'[o]
      BY <2>1
    <3>2. PageOK(x)'
      BY <1>4, <1>5, <1>10, <3>1, OthersKeepTheirPage
    <3> QED
      BY <3>1, <3>2 DEF PageOK
  <2>2. CASE page'[o] = NewPage
    <3>1. PICK x : x = page'[o]
      OBVIOUS
    <3>2. x.for = "new" /\ x.call.step = "idle" /\ FormOK(x.form)
      BY <2>2, <3>1, NewPageIsOK DEF PageOK
    <3>3. PageOK(x)'
      BY <3>2 DEF PageOK
    <3> QED
      BY <3>1, <3>3 DEF PageOK
  <2> QED
    BY <1>8, <2>1, <2>2
<1>12. \A o, b \in Editors : Creates(page'[o]) /\ Creates(page'[b]) => o = b
  BY <1>7, <1>8, <1>10
<1> QED
  BY <1>4, <1>9, <1>11, <1>12 DEF RuInv, Creates, IsAsShown

LEMMA RulesStart ==
  ASSUME RuInit
  PROVE  RuInv
<1>1. saved = NoRule /\ page = [e \in Editors |-> NewPage] /\ shown = NeverShown /\ ruLeft \in [RuEvents -> Nat]
  BY RulesAssumption DEF RuInit
<1>2. NewPage \in PageRow /\ PageOK(NewPage) /\ ~Creates(NewPage)
  BY NewPageIsOK
<1> HIDE DEF PageRow, NewPage
<1>3. page \in [Editors -> PageRow] /\ \A e \in Editors : PageOK(page[e]) /\ ~Creates(page[e])
  BY <1>1, <1>2
<1> QED
  BY <1>1, <1>3 DEF RuInv, RuWorld

LEMMA RulesStepKeeps ==
  ASSUME RuInv, [RuNext]_ruVars
  PROVE  RuInv'
<1>1. CASE UNCHANGED ruVars
  <2>1. UNCHANGED <<saved, page, shown, ruLeft>>
    BY <1>1 DEF ruVars
  <2>2. RuWorld'
    BY <2>1 DEF RuInv, RuWorld
  <2>3. \A e \in Editors : PageOK(page[e])'
    BY <2>1 DEF RuInv, PageOK
  <2> QED
    BY <2>1, <2>2, <2>3 DEF RuInv, Creates, IsAsShown
<1>2. ASSUME NEW e \in Editors,
             \/ OpenRule(e) \/ ChangeField(e) \/ ChangeStep(e) \/ SubmitRule(e) \/ ReadRule(e) \/ WriteRule(e)
             \/ DeleteRule(e) \/ UseTemplate(e, OffHoursTemplate) \/ UseTemplate(e, FaqTemplate)
      PROVE  RuInv'
  BY <1>2, OpenRuleKeeps, ChangeFieldKeeps, ChangeStepKeeps, SubmitRuleKeeps, ReadRuleKeeps, WriteRuleKeeps,
     DeleteRuleKeeps, UseTemplateKeeps, FormsKnown
<1> QED
  BY <1>1, <1>2 DEF RuNext

\* The scenario that is applied to a conversation is the first that matches it, by the clock,
\* and takes effect unless somebody undid it or something stirred; an automation rule starts
\* for what its form said that was saved last, and runs its steps: for any scenarios and
\* rules, however many are applied or filled in side by side.
THEOREM ScenariosAndRulesAreKept == ConversationsSpec => []ScenariosAndRulesHold
<1> DEFINE I == (part = "scenarios" => SnInv) /\ (part = "rules" => RuInv)
<1>1. ConversationsInit => I
  BY ScenariosStart, RulesStart DEF ConversationsInit
<1>2. I /\ [ConversationsNext]_coVars => I'
  <2>1. ASSUME part = "scenarios" => SnInv, [ConversationsNext]_coVars, part' = "scenarios" PROVE SnInv'
    <3>1. part = "scenarios" /\ [SnNext]_snVars
      BY <2>1 DEF ConversationsNext, coVars
    <3> QED
      BY <2>1, <3>1, ScenariosStepKeeps
  <2>2. ASSUME part = "rules" => RuInv, [ConversationsNext]_coVars, part' = "rules" PROVE RuInv'
    <3>1. part = "rules" /\ [RuNext]_ruVars
      BY <2>2 DEF ConversationsNext, coVars
    <3> QED
      BY <2>2, <3>1, RulesStepKeeps
  <2> QED
    BY <2>1, <2>2
<1>3. I => ScenariosAndRulesHold
  <2>1. SnInv => ScenariosHold
    BY SnInvActionsTake, SnInvBreaksOff, SnInvRightOne DEF ScenariosHold
  <2>2. RuInv => RulesHold
    BY RuInvHolds
  <2> QED
    BY <2>1, <2>2 DEF ScenariosAndRulesHold
<1> QED
  BY <1>1, <1>2, <1>3, PTL DEF ConversationsSpec

-----------------------------------------------------------------------------
(* Types: the part that moves keeps to them.                                 *)

\* The tag a task is about to link exists, as tags stay.
SlRest ==
  /\ checks \in BOOLEAN /\ begun \in Nat /\ slLeft \in Nat /\ cooling \in BOOLEAN
  /\ tags \subseteq SlipTags /\ links \subseteq tags
  /\ \A t \in Tasks : InTask(t, "link") => task[t].adding \in tags

LEMMA SlipsRestStart == SlInit => SlRest
<1> SUFFICES ASSUME SlInit PROVE SlRest
  OBVIOUS
<1>1. checks \in BOOLEAN /\ begun \in Nat /\ slLeft \in Nat /\ tags = {} /\ links = {}
  BY SlipsAssumption DEF SlInit
<1>2. cooling \in BOOLEAN /\ \A t \in Tasks : ~InTask(t, "link")
  BY DEF SlInit, InTask
<1> QED
  BY <1>1, <1>2 DEF SlRest

\* A task that starts or goes on to anything but a link leaves the others as they are.
LEMMA TagsWait ==
  ASSUME SlInv, SlRest, NEW t \in Tasks, NEW x,
         task' = [task EXCEPT ![t] = x],
         x # NoTask => x.pc # "link" \/ x.adding \in tags',
         tags \subseteq tags', tags' \subseteq SlipTags
  PROVE  (\A u \in Tasks : InTask(u, "link") => task[u].adding \in tags)'
  BY DEF SlInv, SlTyped, SlRest, InTask

LEMMA SlipsRestKeeps ==
  ASSUME SlInv, SlRest, [SlNext]_slVars
  PROVE  SlRest'
<1>1. CASE UNCHANGED slVars
  BY <1>1 DEF slVars, SlRest, InTask
<1>2. CASE CooldownEnds
  BY <1>2 DEF CooldownEnds, SlRest, InTask
<1>3. ASSUME NEW t \in Tasks, NEW m \in Images, StartSlip(t, m) PROVE SlRest'
  BY <1>3 DEF StartSlip, SlRest, InTask, SlInv, SlTyped
<1>4. ASSUME NEW t \in Tasks, LookUpSlip(t) \/ ReadQuota(t) PROVE SlRest'
  <2>1. slLeft' \in Nat /\ UNCHANGED <<checks, begun, cooling, tags, links>>
    BY <1>4 DEF LookUpSlip, ReadQuota, SlFault, SlRest
  <2>2. \A u \in Tasks : InTask(u, "link")' => InTask(u, "link") /\ task'[u].adding = task[u].adding
    BY <1>4 DEF LookUpSlip, ReadQuota, InTask, To, ToWith, SlInv, SlTyped, Task, NoTask
  <2> QED
    BY <2>1, <2>2 DEF SlRest
<1>5. ASSUME NEW t \in Tasks, AskSlipOk(t) PROVE SlRest'
  <2>1. slLeft' \in Nat /\ UNCHANGED <<checks, begun, cooling, tags, links>>
    BY <1>5 DEF AskSlipOk, SlFault, SlRest
  <2>2. \A u \in Tasks : InTask(u, "link")' => InTask(u, "link") /\ task'[u].adding = task[u].adding
    BY <1>5 DEF AskSlipOk, InTask, ToWith, SlInv, SlTyped, Task, NoTask
  <2> QED
    BY <2>1, <2>2 DEF SlRest
<1>6. ASSUME NEW t \in Tasks, ChargeQuota(t) \/ ReadText(t) \/ Acknowledge(t) PROVE SlRest'
  <2>1. cooling' \in {cooling, TRUE} /\ UNCHANGED <<checks, begun, tags, links>>
    BY <1>6 DEF ChargeQuota, ReadText, Acknowledge
  <2>3. SlFault \/ UNCHANGED slLeft
    BY <1>6 DEF ChargeQuota, ReadText, Acknowledge
  <2>4. slLeft' \in Nat
    BY <2>3 DEF SlFault, SlRest
  <2>5. cooling' \in BOOLEAN
    BY <2>1 DEF SlRest
  <2>6. task \in [Tasks -> Task \union {NoTask}] /\ task[t] # NoTask /\ task[t] \in Task
    BY <1>6 DEF ChargeQuota, ReadText, Acknowledge, InTask, SlInv, SlTyped
  <2>7. PICK x : task' = [task EXCEPT ![t] = x] /\ x.pc # "link"
    <3>1. CASE ChargeQuota(t) \/ Acknowledge(t)
      <4>1. PICK p \in {"read", "store"} : task' = [task EXCEPT ![t].pc = p]
        BY <3>1 DEF ChargeQuota, Acknowledge, To
      <4>2. task' = [task EXCEPT ![t] = [task[t] EXCEPT !.pc = p]]
        BY <4>1, <2>6
      <4>3. [task[t] EXCEPT !.pc = p].pc = p
        BY <2>6 DEF Task
      <4>4. QED BY <4>2, <4>3
    <3>2. CASE ReadText(t)
      <4>1. PICK s : task' = [task EXCEPT ![t].seen = s,
                                          ![t].pc = IF IsSlip(Score(s, QrOf(t))) THEN "acknowledge" ELSE "store"]
        BY <3>2 DEF ReadText
      <4>2. PICK p \in {"acknowledge", "store"} : p = IF IsSlip(Score(s, QrOf(t))) THEN "acknowledge" ELSE "store"
        OBVIOUS
      <4>3. task' = [task EXCEPT ![t] = [task[t] EXCEPT !.seen = s, !.pc = p]]
        BY <4>1, <4>2, <2>6
      <4>4. [task[t] EXCEPT !.seen = s, !.pc = p].pc = p
        BY <2>6 DEF Task
      <4>5. QED BY <4>2, <4>3, <4>4
    <3>3. QED BY <1>6, <3>1, <3>2
  <2>2. \A u \in Tasks : InTask(u, "link")' => InTask(u, "link") /\ task'[u].adding = task[u].adding
    BY <2>6, <2>7 DEF InTask
  <2> QED
    BY <2>1, <2>2, <2>4, <2>5 DEF SlRest
<1>7. ASSUME NEW t \in Tasks, StoreSlip(t) \/ TellVerdict(t) \/ SlipFails(t) PROVE SlRest'
  <2>1. slLeft' \in Nat /\ UNCHANGED <<checks, begun, cooling, tags, links>>
    BY <1>7 DEF StoreSlip, TellVerdict, SlipFails, SlFault, SlRest
  <2>2. \A u \in Tasks : InTask(u, "link")' => InTask(u, "link") /\ task'[u].adding = task[u].adding
    BY <1>7 DEF StoreSlip, TellVerdict, SlipFails, EndTask, InTask, SlInv, SlTyped, Task, NoTask
  <2> QED
    BY <2>1, <2>2 DEF SlRest
<1>8. ASSUME NEW t \in Tasks, EnsureTag(t) PROVE SlRest'
  <2>1. task[t] \in Task /\ task[t].adding \in SlipTags
    BY <1>8 DEF EnsureTag, InTask, SlInv, SlTyped, Task
  <2>2. UNCHANGED <<checks, begun, cooling, links, slLeft>> /\ tags \subseteq tags' /\ tags' \subseteq SlipTags
    BY <1>8, <2>1 DEF EnsureTag, SlRest
  <2>3. \/ task[t].adding \in tags' /\ task' = [task EXCEPT ![t] = [task[t] EXCEPT !.pc = "link"]]
        \/ task' = [task EXCEPT ![t] = NoTask]
    BY <1>8 DEF EnsureTag, To, EndTask
  <2>4. (\A u \in Tasks : InTask(u, "link") => task[u].adding \in tags)'
    <3>1. CASE task' = [task EXCEPT ![t] = NoTask]
      BY <2>2, <3>1, TagsWait
    <3>2. CASE task[t].adding \in tags' /\ task' = [task EXCEPT ![t] = [task[t] EXCEPT !.pc = "link"]]
      <4> DEFINE x == [task[t] EXCEPT !.pc = "link"]
      <4>1. x.adding \in tags' /\ task' = [task EXCEPT ![t] = x]
        BY <2>1, <3>2 DEF Task
      <4> HIDE DEF x
      <4> QED
        BY <2>2, <4>1, TagsWait
    <3> QED
      BY <2>3, <3>1, <3>2
  <2> QED
    BY <2>2, <2>4 DEF SlRest
<1>9. ASSUME NEW t \in Tasks, LinkTag(t) PROVE SlRest'
  <2>1. UNCHANGED <<checks, begun, cooling, tags, slLeft>> /\ links' \subseteq tags
    BY <1>9 DEF LinkTag, SlRest
  <2>2. \A u \in Tasks : InTask(u, "link")' => InTask(u, "link") /\ task'[u].adding = task[u].adding
    <3>1. task \in [Tasks -> Task \union {NoTask}] /\ task[t] # NoTask /\ task[t] \in Task
      BY <1>9 DEF LinkTag, InTask, SlInv, SlTyped
    <3>2. CASE EndTask(t)
      BY <3>1, <3>2 DEF EndTask, InTask, NoTask
    <3>3. CASE ~EndTask(t)
      <4>1. PICK x : task' = [task EXCEPT ![t] = x] /\ x.pc # "link"
        <5>1. \/ task' = [task EXCEPT ![t] = [task[t] EXCEPT !.pc = "tell"]]
              \/ task' = [task EXCEPT ![t] = [task[t] EXCEPT !.pc = "tag", !.adding = "suspicious", !.owed = {}]]
          BY <1>9, <3>1, <3>3 DEF LinkTag
        <5>2. /\ [task[t] EXCEPT !.pc = "tell"].pc = "tell"
              /\ [task[t] EXCEPT !.pc = "tag", !.adding = "suspicious", !.owed = {}].pc = "tag"
          BY <3>1 DEF Task
        <5>3. QED BY <5>1, <5>2
      <4>2. QED BY <3>1, <4>1 DEF InTask
    <3>4. QED BY <3>2, <3>3
  <2> QED
    BY <2>1, <2>2 DEF SlRest
<1> QED
  BY <1>1, <1>2, <1>3, <1>4, <1>5, <1>6, <1>7, <1>8, <1>9 DEF SlNext

LEMMA SlipsAreTyped == SlInv /\ SlRest => SlTypeOK
  BY DEF SlInv, SlTyped, SlRest, SlTypeOK

LEMMA ScreensAreTyped == ScInv => ScTypeOK
<1> SUFFICES ASSUME ScInv PROVE ScTypeOK
  OBVIOUS
<1>1. DOMAIN list.rows \subseteq Rows /\ list.of \in Selectable
  BY DEF ScInv, ScTyped, ScList, Shots
<1>2. \A n \in LoadSlots : loads[n] # NoLoad => loads[n] \in ScLoad
  BY DEF ScInv, ScTyped
<1>3. form.on \in Rows \union {"none", "new"}
  BY DEF ScInv, ScTyped, ScForm, NoForm
<1>4. \A s \in WriteSlots : writes[s] # NoWrite => writes[s] \in ScCall
  BY DEF ScInv, ScTyped
<1> QED
  BY <1>1, <1>2, <1>3, <1>4 DEF ScInv, ScTyped, ScTypeOK, ScLoad, ScCall, Somewhere

LEMMA RulesAreTyped == RuInv => RuTypeOK
<1> SUFFICES ASSUME RuInv PROVE RuTypeOK
  OBVIOUS
<1>1. \A e \in Editors : page[e] \in PageRow
  BY DEF RuInv, RuWorld
<1>2. ASSUME NEW e \in Editors, NEW i \in DOMAIN page[e].form.steps PROVE page[e].form.steps[i] \in Draft
  <2>1. page[e].form.steps \in Seq(Draft)
    BY <1>1 DEF PageRow, FormRow
  <2> HIDE DEF Draft
  <2> QED
    BY <2>1
<1>3. \A e \in Editors : /\ page[e].for \in {"new", "edit"} /\ page[e].form.trigger \in Triggers
                         /\ page[e].call.step \in CallSteps
  BY <1>1 DEF PageRow, FormRow
<1> QED
  BY <1>2, <1>3 DEF RuInv, RuWorld, RuTypeOK

\* What a customer's conversation is made of keeps to its types: the messages LINE delivers,
\* the desk, drafts, slips, roles and tokens, lists and forms, scenarios and rules; a slip's tag
\* is linked only once it exists.
THEOREM ConversationsAreWellTyped == ConversationsSpec => []TypesOK
<1> DEFINE I == /\ (part = "inbound" => InInv) /\ (part = "desk" => DkInv)
                /\ (part = "drafts" => DfInv) /\ (part = "slips" => SlInv /\ SlRest)
                /\ (part = "access" => AxInv) /\ (part = "screens" => ScInv)
                /\ (part = "scenarios" => SnInv) /\ (part = "rules" => RuInv)
<1>1. ConversationsInit => I
  BY InInitially, DeskInitially, DraftsBegin, SlipsInitially, SlipsRestStart, AccessStart, ScreensStart,
     ScenariosStart, RulesStart DEF ConversationsInit
<1>2. I /\ [ConversationsNext]_coVars => I'
  <2> SUFFICES ASSUME I, [ConversationsNext]_coVars PROVE I'
    OBVIOUS
  <2>1. ASSUME part' = "inbound" PROVE InInv'
    <3>1. part = "inbound" /\ [InNext]_inVars
      BY <2>1 DEF ConversationsNext, coVars
    <3> QED
      BY <3>1, InboundStepKeeps
  <2>2. ASSUME part' = "desk" PROVE DkInv'
    <3>1. part = "desk" /\ [DkNext]_dkVars
      BY <2>2 DEF ConversationsNext, coVars
    <3> QED
      BY <3>1, DeskStepKeeps
  <2>3. ASSUME part' = "drafts" PROVE DfInv'
    <3>1. part = "drafts" /\ [DfNext]_dfVars
      BY <2>3 DEF ConversationsNext, coVars
    <3> QED
      BY <3>1, DraftsStep
  <2>4. ASSUME part' = "slips" PROVE SlInv' /\ SlRest'
    <3>1. part = "slips" /\ [SlNext]_slVars
      BY <2>4 DEF ConversationsNext, coVars
    <3> QED
      BY <3>1, SlipsStepKeeps, SlipsRestKeeps
  <2>5. ASSUME part' = "access" PROVE AxInv'
    <3>1. part = "access" /\ [AxNext]_axVars
      BY <2>5 DEF ConversationsNext, coVars
    <3> QED
      BY <3>1, AccessStepKeeps
  <2>6. ASSUME part' = "screens" PROVE ScInv'
    <3>1. part = "screens" /\ [ScNext]_scVars
      BY <2>6 DEF ConversationsNext, coVars
    <3> QED
      BY <3>1, ScreensStepKeeps
  <2>7. ASSUME part' = "scenarios" PROVE SnInv'
    <3>1. part = "scenarios" /\ [SnNext]_snVars
      BY <2>7 DEF ConversationsNext, coVars
    <3> QED
      BY <3>1, ScenariosStepKeeps
  <2>8. ASSUME part' = "rules" PROVE RuInv'
    <3>1. part = "rules" /\ [RuNext]_ruVars
      BY <2>8 DEF ConversationsNext, coVars
    <3> QED
      BY <3>1, RulesStepKeeps
  <2> QED
    BY <2>1, <2>2, <2>3, <2>4, <2>5, <2>6, <2>7, <2>8
<1>3. I => TypesOK
  <2>1. (InInv => InTypeOK) /\ (DkInv => DkTypeOK) /\ (DfInv => DfTypeOK) /\ (AxInv => AxTypeOK) /\ (SnInv => SnTypeOK)
    BY DEF InInv, DkInv, DfInv, DfTyped, AxInv, SnInv, SnWorld
  <2> QED
    BY <2>1, SlipsAreTyped, ScreensAreTyped, RulesAreTyped DEF TypesOK
<1> QED
  BY <1>1, <1>2, <1>3, PTL DEF ConversationsSpec
=============================================================================
