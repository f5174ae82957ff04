--------------------------- MODULE ScreensProofs ---------------------------
(***************************************************************************)
(* What the pages call is served, those who decide are told of what waits  *)
(* for them, as far as the mails go, and find it, and those who direct a   *)
(* site reach it: the answers of queries written one by one agree in every *)
(* tenant, however the administration rearranges it.  Each query is read   *)
(* on the tables of one moment; of the past only the types matter and, for *)
(* the forms, that no account became a platform administrator.             *)
(*                                                                         *)
(* The page of a sheet is a different matter: it keeps what it loaded      *)
(* while others move the sheet on.  The second part shows what it keeps,   *)
(* for any number of pages and any requests between theirs.                *)
(***************************************************************************)
EXTENDS Screens, TimesheetScreen, TimesheetWorkflowProofs

---------------------------------------------------------------------------
(* Leave requests: those who decide are told.                              *)

\* A site whose chief may decide for o is one of those whose managers and
\* chiefs are written to.
LEMMA DecidersSite ==
  ASSUME NEW o \in active, NEW s \in Sites, site[s].state = "open", WorksOn(o, s)
  PROVE  s \in ApprovalSites(o, NoSite)
BY DEF ApprovalSites, DefaultApprovalSites, WorksOn, active

\* The chief of a site is written to, for its manager or after him, unless he is
\* the employee himself.
LEMMA ChiefIsAsked ==
  ASSUME NEW o, NEW s, ChiefOf(s) \notin {NoUser, o}
  PROVE  ChiefOf(s) \in SiteN1(s, o) \cup SiteN2(s, o)
BY DEF SiteN1, SiteN2

\* The query finds whoever may decide, and none but those who direct a site of o's.
LEMMA FoundWhoDecides ==
  ASSUME NEW o \in active, NEW u \in active, u # o, IsProjectManagerForUser(o, u)
  PROVE  u \in FoundForLeave(o) /\ FoundForLeave(o) \subseteq DirectorsOf(o)
<1>1. PICK s \in Sites : site[s].state = "open" /\ ChiefOf(s) = u /\ WorksOn(o, s)
  BY DEF IsProjectManagerForUser
<1>2. s \in ApprovalSites(o, NoSite)
  BY <1>1, DecidersSite
<1>3. u \in SiteN1(s, o) \cup SiteN2(s, o)
  BY <1>1, ChiefIsAsked, OrganisationAssumption DEF active
<1>4. u \in N1Ids(o, NoSite) \cup N2Ids(o, NoSite)
  BY <1>2, <1>3 DEF N1Ids, N2Ids
<1>5. FoundForLeave(o) = (N1Ids(o, NoSite) \cup N2Ids(o, NoSite)) \cap active
  BY <1>4 DEF FoundForLeave
<1>6. ASSUME NEW v \in N1Ids(o, NoSite) \cup N2Ids(o, NoSite)
      PROVE  v \in DirectorsOf(o)
  <2>1. PICK t \in ApprovalSites(o, NoSite) : v \in SiteN1(t, o) \cup SiteN2(t, o)
    BY <1>6 DEF N1Ids, N2Ids
  <2>2. t \in Sites /\ WorksOn(o, t)
    BY <2>1 DEF ApprovalSites, DefaultApprovalSites, WorksOn
  <2>3. v \in {ManagerOf(t), ChiefOf(t)}
    BY <2>1 DEF SiteN1, SiteN2
  <2>. QED BY <2>2, <2>3 DEF DirectorsOf
<1>. QED BY <1>4, <1>5, <1>6

\* Whoever may decide is told, or the mails are used up on others, whatever the
\* tables hold.
LEMMA ToldWhoDecides == DecidersAreTold
<1>. SUFFICES ASSUME NEW o \in active, NEW u \in active, u # o, IsProjectManagerForUser(o, u),
                     NEW told \in ToldOfLeave(o), u \notin told
              PROVE  Cardinality(told) = MailLimit /\ told \subseteq DirectorsOf(o)
  BY DEF DecidersAreTold
<1>1. u \in FoundForLeave(o) /\ FoundForLeave(o) \subseteq DirectorsOf(o)
  BY FoundWhoDecides
<1>2. told # FoundForLeave(o)
  BY <1>1
<1>3. told \in kSubset(MailLimit, FoundForLeave(o))
  BY <1>2 DEF ToldOfLeave
<1>. QED BY <1>1, <1>3 DEF kSubset

\* Nobody is left out of the mail about a request he may decide on, unless as
\* many as the query keeps are told who direct a site of the employee's
\* (approverIdsFor and isProjectManagerForUser agree), however the organisation
\* is rearranged and wherever the limit is set.
THEOREM DecidersToldAlways == OrgSpec => []DecidersAreTold
BY ToldWhoDecides, PTL

---------------------------------------------------------------------------
(* The menu.                                                               *)

\* The entries, each open to some role.
LEMMA EntriesListed ==
  Entries = {"/dashboard", "/timesheets", "/planning", "/time-off", "/time-off/requests",
             "/reports", "/team", "/projects", "/profile", "/settings", "/audit-log",
             "/admin/tenants", "/admin/subscriptions"}
<1>. USE DEF NavRoles, To, TenantRoles, Supervisors, Roles
<1>1. \A item \in NavRoles :
        item[1] \in {"/dashboard", "/timesheets", "/planning", "/time-off",
                     "/time-off/requests", "/reports", "/team", "/projects", "/profile",
                     "/settings", "/audit-log", "/admin/tenants", "/admin/subscriptions"}
  OBVIOUS
<1>2. \A h \in {"/dashboard", "/timesheets", "/planning", "/time-off",
                "/time-off/requests", "/reports"} : <<h, "HR">> \in NavRoles
  OBVIOUS
<1>3. \A h \in {"/team", "/projects", "/profile", "/settings", "/audit-log"} :
        <<h, "HR">> \in NavRoles
  OBVIOUS
<1>4. \A h \in {"/admin/tenants", "/admin/subscriptions"} : <<h, "SUPER_ADMIN">> \in NavRoles
  OBVIOUS
<1>. QED BY <1>1, <1>2, <1>3, <1>4 DEF Entries

\* Whoever has the entry of the leave requests or of the team in his menu.
LEMMA MenuOfLeave ==
  ASSUME OrgTypeOK, NEW u \in Users, role[u] # "SUPER_ADMIN", SeesLeaveRequests(u)
  PROVE  "/time-off/requests" \in Menu(u)
BY EntriesListed DEF Menu, NavRoles, To, TenantRoles, OrgTypeOK

LEMMA MenuOfTeam ==
  ASSUME NEW u, "/team" \in Menu(u)
  PROVE  role[u] \in Supervisors
BY DEF Menu, NavRoles, To, TenantRoles

---------------------------------------------------------------------------
(* Those who decide, and those who direct.                                 *)

\* The chief of a site that o works on has o in his team.
LEMMA DirectedAreManaged ==
  ASSUME NEW u \in Users, NEW s \in DirectedSites(u), NEW o \in StaffOf(s) \ {u},
         o \in Users
  PROVE  o \in ManagedUsers(u)
BY DEF ManagedUsers

\* Whoever may take the first decision finds the request, and the menu entry if
\* the project is not deleted.
LEMMA ShownWhoDecides == OrgTypeOK => DecidersAreShown
<1>. SUFFICES ASSUME OrgTypeOK, NEW o \in active, NEW u \in active, u # o,
                     role[u] # "SUPER_ADMIN", IsProjectManagerForUser(o, u)
              PROVE  /\ o \in ListedOwners(u)
                     /\ (\E p \in Projects : project[p].state = "open" /\
                           \E s \in Sites : ChiefOf(s) = u /\ ProjectOf(s) = p /\ WorksOn(o, s))
                          => "/time-off/requests" \in Menu(u)
  BY DEF DecidersAreShown
<1>1. o \in Users /\ u \in Users /\ account[o] = "active" /\ u # NoUser
  BY OrganisationAssumption DEF active
<1>2. PICK s \in Sites : site[s].state = "open" /\ ChiefOf(s) = u /\ WorksOn(o, s)
  BY DEF IsProjectManagerForUser
<1>3. s \in DirectedSites(u) /\ o \in StaffOf(s)
  BY <1>1, <1>2 DEF DirectedSites, StaffOf, WorksOn
<1>4. o \in ListedOwners(u)
  BY <1>1, <1>3, DirectedAreManaged DEF ListedOwners, InHisScope
<1>5. ASSUME NEW p \in Projects, project[p].state = "open",
             NEW t \in Sites, ChiefOf(t) = u, ProjectOf(t) = p
      PROVE  "/time-off/requests" \in Menu(u)
  <2>1. LeadsAProject(u)
    BY <1>1, <1>5 DEF LeadsAProject, ChiefOf
  <2>. QED BY <1>1, <2>1, MenuOfLeave DEF SeesLeaveRequests
<1>. QED BY <1>4, <1>5

\* Whoever may take the first decision on a leave request finds it, in every
\* tenant and after any changes: isProjectManagerForUser, managedUserIds and
\* capabilities agree.
THEOREM DecidersFindIt == OrgSpec => []DecidersAreShown
BY ShownWhoDecides, OrgTypeCorrect, PTL

\* The director of a site is shown what is planned on it, to manage if he is its
\* manager.
LEMMA DirectorSeesPlanning ==
  ASSUME NEW u \in active, NEW s \in DirectedSites(u),
         ManagerOf(s) = u \/ OpenProject(ProjectOf(s)), OrgTypeOK,
         NEW l \in PlannableLines(s), NEW planned,
         planned = [author |-> ManagerOf(s), lines |-> {l}, published |-> TRUE]
  PROVE  /\ PlanningOpens(u, planned) /\ LinesShown(u, planned) = {l}
         /\ CanManagePlanning(u, planned) <=> ManagerOf(s) = u
<1>1. l.site = s /\ planned.lines = {l} /\ planned.author = ManagerOf(s) /\ planned.published
  BY DEF PlannableLines
<1>2. u # NoUser /\ s \in Sites /\ site[s].state = "open" /\ u \in {ManagerOf(s), ChiefOf(s)}
  BY OrganisationAssumption DEF active, DirectedSites
<1>3. ManagerOf(s) = u => ManagesASite(u)
  BY <1>2 DEF ManagesASite
<1>4. ManagerOf(s) # u => ChiefOf(s) = u /\ LeadsAProject(u)
  <2>. SUFFICES ASSUME ManagerOf(s) # u PROVE ChiefOf(s) = u /\ LeadsAProject(u)
    OBVIOUS
  <2>1. ChiefOf(s) = u /\ ProjectOf(s) # NoProject
    BY <1>2 DEF ChiefOf
  <2>2. ProjectOf(s) \in Projects
    BY <1>2, <2>1 DEF OrgTypeOK, SiteRow, ProjectOf
  <2>. QED BY <2>1, <2>2 DEF LeadsAProject, ChiefOf, OpenProject
<1>5. DirectsLine(u, l)
  BY <1>1, <1>3, <1>4 DEF DirectsLine
<1>. QED BY <1>1, <1>3, <1>5 DEF PlanningOpens, LinesShown, CanManagePlanning

\* Every page and query leads the director of a site to it.
LEMMA DirectorsReach == OrgTypeOK => DirectorsReachTheirSites
<1>. SUFFICES ASSUME OrgTypeOK, NEW u \in active, NEW s \in Sites, s \in DirectedSites(u),
                     {"/projects", "/team"} \subseteq Menu(u)
              PROVE  /\ \A p \in Projects : ProjectOf(s) = p /\ project[p].state = "open" =>
                          p \in ListedProjects(u) /\ ProjectOpens(u, p) /\ s \in ListedSites(u, p)
                     /\ SiteOpens(u, s)
                     /\ \A v \in (StaffOf(s) \cap active) \ {u} :
                          v \in TeamList(u) /\ EmployeeOpens(u, v)
                     /\ ManagerOf(s) = u \/ OpenProject(ProjectOf(s)) =>
                          \A l \in PlannableLines(s) :
                            LET planned == [author |-> ManagerOf(s), lines |-> {l},
                                          published |-> TRUE]
                            IN  /\ PlanningOpens(u, planned) /\ LinesShown(u, planned) = {l}
                                /\ CanManagePlanning(u, planned) <=> ManagerOf(s) = u
  BY DEF DirectorsReachTheirSites
<1>1. u \in Users /\ u # NoUser /\ site[s].state = "open" /\ u \in {ManagerOf(s), ChiefOf(s)}
  BY OrganisationAssumption DEF active, DirectedSites
<1>2. ASSUME NEW p \in Projects, ProjectOf(s) = p, project[p].state = "open"
      PROVE  p \in ListedProjects(u) /\ ProjectOpens(u, p) /\ s \in ListedSites(u, p)
  <2>1. p # NoProject
    BY OrganisationAssumption
  <2>2. p \in ProjectScope(u, TRUE)
    BY <1>1, <1>2, <2>1 DEF ProjectScope, ChiefOf
  <2>. QED BY <1>1, <1>2, <2>2 DEF ListedProjects, ProjectOpens, ListedSites
<1>3. SiteOpens(u, s)
  BY <1>1 DEF SiteOpens
<1>4. ASSUME NEW v \in (StaffOf(s) \cap active) \ {u}
      PROVE  v \in TeamList(u) /\ EmployeeOpens(u, v)
  <2>1. v \in ManagedUsers(u)
    BY <1>1, DirectedAreManaged DEF active
  <2>2. role[u] # "EMPLOYEE"
    BY MenuOfTeam DEF Supervisors
  <2>. QED BY <2>1, <2>2 DEF TeamList, EmployeeOpens, active
<1>. QED BY <1>2, <1>3, <1>4, DirectorSeesPlanning

\* Whoever directs a site reaches it, those who work there and what is planned
\* there, in every tenant and after any changes.
THEOREM DirectorsAlwaysReach == OrgSpec => []DirectorsReachTheirSites
BY DirectorsReach, OrgTypeCorrect, PTL

---------------------------------------------------------------------------
(* The pages and the routes.                                               *)

\* The gate of a page is that of its menu entry.
LEMMA PagesListed ==
  /\ DOMAIN Section =
       Entries \cup {"/team/:id", "/projects/:id", "/projects/:id/sites/:siteId",
                     "/timesheets/:id", "/planning/:id", "/planning/my-period"}
  /\ \A r \in Roles :
       /\ \A pg \in {"/team", "/team/:id", "/projects", "/projects/:id",
                     "/projects/:id/sites/:siteId"} : Admits(pg, r) => r \in Supervisors
       /\ \A pg \in {"/timesheets", "/timesheets/:id", "/planning", "/planning/:id",
                     "/planning/my-period", "/time-off", "/time-off/requests", "/reports",
                     "/dashboard"} : Admits(pg, r) <=> r \in TenantRoles
       /\ \A pg \in {"/settings", "/audit-log"} : Admits(pg, r) => r = "HR"
       /\ \A pg \in {"/admin/tenants", "/admin/subscriptions"} :
            Admits(pg, r) <=> r = "SUPER_ADMIN"
BY EntriesListed DEF Section, Admits, NavRoles, To, Supervisors, TenantRoles

\* What the shell and the breadcrumb ask for is served to everybody.
LEMMA ShellServed ==
  ASSUME NEW r \in Roles,
         NEW call \in ShellCalls \cup {"timesheet", "employee", "project"}
  PROVE  Serves(call, r)
BY DEF Serves, Routes, To, ShellCalls, LeaveRoutes, NotificationRoutes, TimesheetRoutes,
       EmployeeRoutes, ProjectRoutes

\* The calls of a page are its own, those of the shell and of the breadcrumb.
LEMMA CallsAre ==
  ASSUME NEW r \in Roles, NEW pg \in DOMAIN Section, NEW call \in CallsOf[r][pg]
  PROVE  call \in PageCalls(r)[pg] \/ call \in ShellCalls \cup {"timesheet", "employee", "project"}
BY DEF CallsOf, Breadcrumb

\* No page offers whoever may see it a call he is refused.
LEMMA PagesAreServed ==
  ASSUME NEW r \in Roles, NEW pg \in DOMAIN Section, Admits(pg, r),
         NEW call \in CallsOf[r][pg]
  PROVE  Serves(call, r)
<1>1. CASE call \in ShellCalls \cup {"timesheet", "employee", "project"}
  BY <1>1, ShellServed
<1>2. CASE call \in PageCalls(r)[pg]
  <2>. USE DEF Serves, Routes, To, For, PageCalls, Roles, TenantRoles, Supervisors
  <2>1. CASE pg \in {"/team", "/team/:id"}
    BY <1>2, <2>1, PagesListed
       DEF TeamPage, EmployeePage, EmployeeRoutes, SiteRoutes, SettingsRoutes, LeaveRoutes,
           TimesheetRoutes
  <2>2. CASE pg \in {"/projects", "/projects/:id", "/projects/:id/sites/:siteId"}
    BY <1>2, <2>2, PagesListed
       DEF ProjectsPage, ProjectPage, SitePage, ProjectRoutes, SiteRoutes, SettingsRoutes,
           EmployeeRoutes
  <2>3. CASE pg \in {"/timesheets", "/timesheets/:id"}
    BY <1>2, <2>3, PagesListed
       DEF TimesheetsPage, TimesheetPage, TimesheetRoutes, SettingsRoutes, EmployeeRoutes,
           ProjectRoutes, SiteRoutes
  <2>4. CASE pg \in {"/planning", "/planning/my-period", "/planning/:id"}
    BY <1>2, <2>4, PagesListed
       DEF PlanningPage, PeriodPage, PlanningSheetPage, PlanningRoutes, SettingsRoutes
  <2>5. CASE pg \in {"/time-off", "/time-off/requests"}
    BY <1>2, <2>5 DEF TimeOffPage, LeaveRequestsPage, LeaveRoutes
  <2>6. CASE pg = "/reports"
    BY <1>2, <2>6, PagesListed DEF ReportsPage, ReportRoutes, SiteRoutes, EmployeeRoutes
  <2>7. CASE pg \in {"/settings", "/audit-log"}
    BY <1>2, <2>7, PagesListed DEF SettingsPage, SettingsRoutes, AuditRoutes
  <2>8. CASE pg \in {"/dashboard", "/profile"}
    BY <1>2, <2>8 DEF DashboardRoutes, AccountRoutes
  <2>9. CASE pg \in {"/admin/tenants", "/admin/subscriptions"}
    BY <1>2, <2>9, PagesListed
       DEF TenantsPage, ResourceManagerForm, SubscriptionsPage, TenantRoutes, UserRoutes,
           SubscriptionRoutes
  <2>. QED
    BY <2>1, <2>2, <2>3, <2>4, <2>5, <2>6, <2>7, <2>8, <2>9, PagesListed, EntriesListed
<1>. QED BY <1>1, <1>2, CallsAre

\* The tenant's accounts never become platform administrators: only one of them
\* could make another.
NoPlatformRole == \A u \in Users : role[u] # "SUPER_ADMIN"

LEMMA NoPlatformStep ==
  ASSUME OrgTypeOK, NoPlatformRole, Reorganise
  PROVE  NoPlatformRole'
<1>. USE DEF OrgTypeOK, NoPlatformRole, people
<1>1. ASSUME NEW u \in Users, NEW r \in Roles, EditProfile(u, r)
      PROVE  NoPlatformRole'
  BY <1>1 DEF EditProfile
<1>2. ASSUME NEW u \in Users, NEW r \in Roles, NEW s \in Sites \cup {NoSite},
             Place(u, r, s)
      PROVE  NoPlatformRole'
  BY <1>2 DEF Place
<1>3. ASSUME NEW u \in Users, NEW r \in Roles, NEW st \in AccountState,
             EditAccount(u, r, st)
      PROVE  NoPlatformRole'
  BY <1>3 DEF EditAccount, RequestedBy, active
<1>4. CASE UNCHANGED role
  BY <1>4
<1>. QED
  BY <1>1, <1>2, <1>3, <1>4
     DEF Reorganise, CreateProject, UpdateProject, DeleteProject, CreateSite, UpdateSite,
         DeleteSite, Assign, Deactivate, Midnight

LEMMA NoPlatformHolds ==
  ASSUME NoPlatformAdministrators
  PROVE  OrgSpec => [](OrgTypeOK /\ NoPlatformRole)
<1>1. OrgInit => NoPlatformRole
  BY DEF OrgInit, NoPlatformRole, NoPlatformAdministrators
<1>2. OrgTypeOK /\ NoPlatformRole /\ [Reorganise]_orgVars => NoPlatformRole'
  <2>. SUFFICES ASSUME OrgTypeOK, NoPlatformRole, [Reorganise]_orgVars PROVE NoPlatformRole'
    OBVIOUS
  <2>1. CASE UNCHANGED orgVars
    BY <2>1 DEF orgVars, people, NoPlatformRole
  <2>. QED BY <2>1, NoPlatformStep
<1>. QED BY <1>1, <1>2, OrgTypeCorrect, PTL DEF OrgSpec

\* The forms: owners, roles and closures that are proposed are accepted; chiefs,
\* managers and assignees that are accepted are proposed, and of the others only
\* suspended accounts and those whose assignment ends today.
LEMMA FormsAreServed ==
  ASSUME OrgTypeOK, NoPlatformRole, NEW u \in active
  PROVE  /\ \A v \in OwnersProposed(u) : OwnerAccepted(u, v)
         /\ "updateEmployee" \in CallsOf[role[u]]["/team/:id"] =>
              \A v \in TeamList(u) : RolesProposed(u, v) \subseteq RolesAccepted(u)
         /\ "deleteEmployee" \in CallsOf[role[u]]["/team/:id"] =>
              \A v \in TeamList(u) : ClosureProposed(u, v) => Closable(v)
         /\ "updateProject" \in CallsOf[role[u]]["/projects/:id"] =>
              /\ active \subseteq ChiefsProposed(u) \cap ManagersProposed(u)
              /\ ChiefsProposed(u) \cup ManagersProposed(u) \subseteq active \cup suspended
         /\ "assignSite" \in CallsOf[role[u]]["/projects/:id/sites/:siteId"] =>
              \A s \in Sites :
                /\ active \ assigned[s] \subseteq AssigneesProposed(u, s)
                /\ AssigneesProposed(u, s)
                     \subseteq (active \ assigned[s]) \cup suspended \cup lastDay[s]
<1>1. role[u] \in Roles /\ u \in Users
  BY DEF active, OrgTypeOK
<1>2. {"/timesheets", "/team/:id", "/projects/:id", "/projects/:id/sites/:siteId"}
        \subseteq DOMAIN Section
  BY PagesListed, EntriesListed
<1>. USE DEF PageCalls, ShellCalls, For
<1>3. role[u] \in {"HR", "RESOURCE_MANAGER"} => TeamList(u) = active \cup suspended
  BY DEF TeamList, ManagedUsers, Unrestricted, active, suspended, OrgTypeOK, AccountState
<1>4. \A v \in OwnersProposed(u) : OwnerAccepted(u, v)
  <2>1. "employees" \in CallsOf[role[u]]["/timesheets"] => role[u] # "EMPLOYEE"
    BY <1>1, <1>2, CallsAre DEF TimesheetsPage, TenantRoles, Supervisors
  <2>. QED BY <2>1 DEF OwnersProposed, OwnerAccepted, TeamList
<1>5. \A v \in TeamList(u) : RolesProposed(u, v) \subseteq RolesAccepted(u)
  BY DEF RolesProposed, RolesAccepted
<1>6. \A v \in TeamList(u) : ClosureProposed(u, v) => Closable(v)
  BY DEF ClosureProposed, Closable, TeamList, ManagedUsers, Unrestricted, NoPlatformRole,
         OrgTypeOK, Roles
<1>7. "updateProject" \in CallsOf[role[u]]["/projects/:id"] =>
        /\ active \subseteq ChiefsProposed(u) \cap ManagersProposed(u)
        /\ ChiefsProposed(u) \cup ManagersProposed(u) \subseteq active \cup suspended
  <2>1. "updateProject" \in CallsOf[role[u]]["/projects/:id"] => role[u] = "HR"
    BY <1>1, <1>2, CallsAre DEF ProjectPage
  <2>. QED BY <1>3, <2>1 DEF ChiefsProposed, ManagersProposed
<1>8. "assignSite" \in CallsOf[role[u]]["/projects/:id/sites/:siteId"] =>
        \A s \in Sites :
          /\ active \ assigned[s] \subseteq AssigneesProposed(u, s)
          /\ AssigneesProposed(u, s)
               \subseteq (active \ assigned[s]) \cup suspended \cup lastDay[s]
  <2>1. "assignSite" \in CallsOf[role[u]]["/projects/:id/sites/:siteId"] =>
          role[u] = "RESOURCE_MANAGER"
    BY <1>1, <1>2, CallsAre DEF SitePage
  <2>. QED BY <1>3, <2>1 DEF AssigneesProposed
<1>. QED BY <1>4, <1>5, <1>6, <1>7, <1>8

\* What the pages and the forms offer is served to accounts of a tenant.
LEMMA OffersFromRoles == OrgTypeOK /\ NoPlatformRole => OffersAreServed
<1>. SUFFICES ASSUME OrgTypeOK, NoPlatformRole PROVE OffersAreServed
  OBVIOUS
<1>1. ASSUME NEW r \in {role[u] : u \in active} \cup {"SUPER_ADMIN"}
      PROVE  Deceptive[r] = {} /\ Admits(Home(r), r)
  <2>1. r \in Roles
    BY DEF active, OrgTypeOK, Roles
  <2>2. Deceptive[r] = {}
    BY <2>1, PagesAreServed DEF Deceptive
  <2>3. Admits(Home(r), r)
    BY <2>1, PagesListed DEF Home, TenantRoles
  <2>. QED BY <2>2, <2>3
<1>. QED BY <1>1, FormsAreServed DEF OffersAreServed

\* No page offers its reader a call that his role is refused, no form an owner,
\* role or closure that the service refuses, and those it refuses as chief,
\* manager or assignee among the proposed are suspended or assigned until today,
\* whatever becomes of the roles and of the organisation, in a tenant none of
\* whose accounts is a platform administrator.
THEOREM OffersAlwaysServed ==
  ASSUME NoPlatformAdministrators
  PROVE  OrgSpec => []OffersAreServed
BY OffersFromRoles, NoPlatformHolds, PTL

---------------------------------------------------------------------------
(* The pages of a sheet.  A page shows what was true when it was loaded,   *)
(* and sends rows typed over it; what it always keeps is that its rows     *)
(* name sites offered to the owner of the sheet, and, once the sheet is    *)
(* handed in, that they differ from the lines it shows only where its      *)
(* reader may edit them.                                                   *)

Keys == LineIds \cup NewRows

\* A table of the rows R, few enough for a sheet.
Few(K, R, t) ==
  /\ DOMAIN t \subseteq K
  /\ t \in [DOMAIN t -> R]
  /\ IsFiniteSet(DOMAIN t)
  /\ Cardinality(DOMAIN t) <= MaxLines

\* The rows t name the sites S or none.
Staffed(S, t) == \A k \in DOMAIN t : t[k].site \in S \cup {NoSite}

\* The rows are the lines the page shows, but for the hours its reader may write.
Follows(p, rows) ==
  /\ DOMAIN rows = DOMAIN p.lines
  /\ \A r \in DOMAIN rows :
       /\ rows[r].site = p.lines[r].site
       /\ rows[r].hours = p.lines[r].hours \/ CanEditLine(p.user, p.sheet.owner, p.lines[r])

ShapedPage(p) ==
  p = [pc |-> p.pc, user |-> p.user, sheet |-> p.sheet, lines |-> p.lines,
       rows |-> p.rows, lists |-> p.lists, typed |-> p.typed,
       saving |-> p.saving, sent |-> p.sent, acting |-> p.acting]

PageOK(p) ==
  /\ p.pc \in {"closed", "loading", "ready"}
  /\ p.user \in Users \cup {NoUser}
  /\ p.sheet \in Sheet
  /\ Few(LineIds, Line, p.lines)
  /\ Few(Keys, Row, p.rows)
  /\ Few(Keys, Row, p.sent)
  /\ p.saving \in {"NONE", "SAVE", "SUBMIT"}
  /\ p.acting \in {"NONE", "SUBMIT", "APPROVE", "REJECT", "REOPEN", "DELETE"}

\* What a page holds of the sheet sh.
PageSound(p, sh) ==
  /\ p.sheet # NoSheet => p.sheet.status # "NONE"
  /\ p.pc = "ready" => p.sheet # NoSheet
  /\ p.saving # "NONE" => p.pc = "ready"
  /\ p.pc # "closed" \/ p.acting # "NONE" => p.user \in Users
  /\ p.sheet # NoSheet /\ sh.status # "NONE" => p.sheet.owner = sh.owner
  /\ Staffed(SitesForUser(p.sheet.owner), p.lines)
  /\ Staffed(SitesForUser(p.sheet.owner), p.rows)
  /\ Staffed(SitesForUser(p.sheet.owner), p.sent)
  /\ p.sheet # NoSheet /\ p.sheet.status \notin Editable =>
       /\ Follows(p, p.rows)
       /\ p.saving # "NONE" => Follows(p, p.sent)

PagesSound ==
  /\ page = [x \in Pages |-> page[x]]
  /\ \A x \in Pages : ShapedPage(page[x]) /\ PageOK(page[x]) /\ PageSound(page[x], sheet)

\* The lines of the sheet, too, are few and name sites offered to its owner.
LinesStaffed == Few(LineIds, Line, lines) /\ Staffed(SitesForUser(sheet.owner), lines)

ScreenInv == IInv /\ active = Users /\ LinesStaffed /\ PagesSound

\* A behaviour starts from a sheet in order, filled in on the page.
FilledOnThePage == IInv /\ LinesStaffed

\* The organisation does not move, and neither do the answers drawn from it.
LEMMA AnswersStay ==
  ASSUME UNCHANGED orgVars
  PROVE  /\ active' = active
         /\ \A o : SitesForUser(o)' = SitesForUser(o)
         /\ \A u, o, ln : CanEditLine(u, o, ln)' <=> CanEditLine(u, o, ln)
<1>1. site' = site /\ project' = project /\ assigned' = assigned /\ account' = account
  BY DEF orgVars, people
<1>2. active' = active
  BY <1>1 DEF active
<1>3. OpenSites' = OpenSites
  BY <1>1 DEF OpenSites
<1>4. /\ \A s : ManagerOf(s)' = ManagerOf(s)
      /\ \A s : ProjectOf(s)' = ProjectOf(s)
      /\ \A s : ChiefOf(s)' = ChiefOf(s)
  BY <1>1 DEF ManagerOf, ProjectOf, ChiefOf
<1>5. \A o : SitesForUser(o)' = SitesForUser(o)
  BY <1>1, <1>3, <1>4 DEF SitesForUser
<1>6. \A u, o, ln : CanEditLine(u, o, ln)' <=> CanEditLine(u, o, ln)
  BY <1>4 DEF CanEditLine, OwnerManages
<1>. QED BY <1>2, <1>5, <1>6

\* So a page is as sound as it was.
LEMMA SoundnessStays ==
  ASSUME UNCHANGED orgVars, NEW p, NEW sh
  PROVE  PageSound(p, sh)' <=> PageSound(p, sh)
<1>1. \A rows : Follows(p, rows)' <=> Follows(p, rows)
  BY AnswersStay DEF Follows
<1>. QED BY <1>1, AnswersStay DEF PageSound

---------------------------------------------------------------------------
(* New identifiers.                                                        *)

\* Together, n sets of at most m identifiers have at most n times m.
LEMMA UnionBound ==
  ASSUME NEW S, IsFiniteSet(S), NEW D, NEW m \in Nat,
         \A x \in S : IsFiniteSet(D[x]) /\ Cardinality(D[x]) <= m
  PROVE  /\ IsFiniteSet(UNION {D[x] : x \in S})
         /\ Cardinality(UNION {D[x] : x \in S}) <= m * Cardinality(S)
<1>1. PICK B : B = {s \in SUBSET S :
                      ~ /\ IsFiniteSet(UNION {D[x] : x \in s})
                        /\ Cardinality(UNION {D[x] : x \in s}) <= m * Cardinality(s)}
  OBVIOUS
<1>2. CASE B # {}
  <2>0. B \subseteq SUBSET S
    BY <1>1
  <2>1. PICK s \in B : \A t \in B : t \subseteq s => t = s
    BY <1>2, <2>0, LeastSubset
  <2>2. s \in SUBSET S /\ IsFiniteSet(s)
    BY <1>1, <2>1, FS_Subset
  <2>3. CASE s = {}
    <3>1. UNION {D[x] : x \in s} = {}
      BY <2>3
    <3>2. m * Cardinality(s) = 0
      BY <2>3, FS_EmptySet
    <3>. QED BY <1>1, <2>1, <3>1, <3>2, FS_EmptySet
  <2>4. CASE s # {}
    <3>1. PICK x \in s : TRUE
      BY <2>4
    <3>2. PICK t : t = s \ {x}
      OBVIOUS
    <3>3. t \in SUBSET S /\ t \notin B
      BY <2>1, <2>2, <3>1, <3>2
    <3>4. PICK U, V : U = UNION {D[y] : y \in t} /\ V = UNION {D[y] : y \in s}
      OBVIOUS
    <3>5. IsFiniteSet(U) /\ Cardinality(U) <= m * Cardinality(t)
      BY <1>1, <3>3, <3>4
    <3>6. V = U \cup D[x]
      BY <3>1, <3>2, <3>4
    <3>7. IsFiniteSet(D[x]) /\ Cardinality(D[x]) <= m
      BY <2>2, <3>1
    <3>8. /\ IsFiniteSet(V)
          /\ Cardinality(V) = Cardinality(U) + Cardinality(D[x]) - Cardinality(U \cap D[x])
      BY <3>5, <3>6, <3>7, FS_Union
    <3>9. /\ Cardinality(U) \in Nat /\ Cardinality(D[x]) \in Nat
          /\ Cardinality(U \cap D[x]) \in Nat
      BY <3>5, <3>7, FS_CardinalityType, FS_Intersection
    <3>10. Cardinality(s) \in Nat /\ Cardinality(t) = Cardinality(s) - 1
      BY <2>2, <3>1, <3>2, FS_CardinalityType, FS_RemoveElement
    <3>11. PICK c \in Int : c = Cardinality(s)
      BY <3>10
    <3>12. m * (c - 1) = m * c - m
      OBVIOUS
    <3>13. Cardinality(V) <= m * Cardinality(s)
      <4>1. m * c \in Int
        OBVIOUS
      <4>2. Cardinality(U) <= m * c - m
        BY <3>5, <3>10, <3>11, <3>12
      <4>3. Cardinality(V) <= m * c
        BY <3>7, <3>8, <3>9, <4>1, <4>2
      <4>. QED BY <4>3, <3>11
    <3>. QED BY <1>1, <2>1, <3>4, <3>8, <3>13
  <2>. QED BY <2>3, <2>4
<1>3. CASE B = {}
  BY <1>1, <1>3
<1>. QED BY <1>2, <1>3

\* A set goes one to one into one that is at least as large.
LEMMA RoomForAll ==
  ASSUME NEW S, NEW T, IsFiniteSet(S), IsFiniteSet(T), Cardinality(S) <= Cardinality(T)
  PROVE  \E f \in [S -> T] : \A q, r \in S : f[q] = f[r] => q = r
<1>1. PICK m, n : m = Cardinality(S) /\ n = Cardinality(T)
  OBVIOUS
<1>2. m \in Nat /\ n \in Nat /\ m <= n
  BY <1>1, FS_CardinalityType
<1>3. PICK g : g \in Bijection(1..m, S)
  BY <1>1, FS_CardinalityType DEF ExistsBijection
<1>4. PICK h : h \in Bijection(1..n, T)
  BY <1>1, FS_CardinalityType DEF ExistsBijection
<1>5. \A r \in S : \E i \in 1..m : g[i] = r
  BY <1>3 DEF Bijection, Surjection
<1>6. PICK f : f = [r \in S |-> h[CHOOSE i \in 1..m : g[i] = r]]
  OBVIOUS
<1>7. \A r \in S : \E i \in 1..m : g[i] = r /\ f[r] = h[i]
  BY <1>5, <1>6
<1>8. \A i \in 1..m : i \in 1..n
  BY <1>2
<1>9. f \in [S -> T]
  <2>1. \A r \in S : f[r] \in T
    BY <1>4, <1>7, <1>8 DEF Bijection, Injection
  <2>. QED BY <1>6, <2>1
<1>10. ASSUME NEW q \in S, NEW r \in S, f[q] = f[r]
       PROVE  q = r
  <2>1. PICK i \in 1..m : g[i] = q /\ f[q] = h[i]
    BY <1>7
  <2>2. PICK j \in 1..m : g[j] = r /\ f[r] = h[j]
    BY <1>7
  <2>3. i = j
    BY <1>4, <1>8, <1>10, <2>1, <2>2 DEF Bijection, Injection, IsInjective
  <2>. QED BY <2>1, <2>2, <2>3
<1>. QED BY <1>9, <1>10

Used == DOMAIN lines \cup UNION {DOMAIN page[y].lines : y \in Pages}

\* The server always finds identifiers for the rows of a page.
LEMMA IdentifiersAreLeft ==
  ASSUME ScreenInv, NEW rows, Few(Keys, Row \cup Line, rows)
  PROVE  \E f \in [DOMAIN rows -> LineIds \ Used] :
           \A q, r \in DOMAIN rows : f[q] = f[r] => q = r
<1>1. PICK D : D = [y \in Pages |-> DOMAIN page[y].lines]
  OBVIOUS
<1>2. \A y \in Pages : IsFiniteSet(D[y]) /\ Cardinality(D[y]) <= MaxLines
  BY <1>1 DEF ScreenInv, PagesSound, PageOK, Few
<1>3. PICK shown, held, k, n : /\ shown = UNION {D[y] : y \in Pages} /\ held = DOMAIN lines
                               /\ k = Cardinality(Pages) /\ n = Cardinality(LineIds)
  OBVIOUS
<1>4. /\ IsFiniteSet(Pages) /\ IsFiniteSet(LineIds)
      /\ k \in Nat /\ n \in Nat /\ MaxLines \in Nat /\ n >= MaxLines * (k + 2)
  BY <1>3, ScreenAssumption, RulesAssumption, FS_CardinalityType
<1>5. IsFiniteSet(shown) /\ Cardinality(shown) <= MaxLines * k
  BY <1>2, <1>3, <1>4, UnionBound
<1>6. IsFiniteSet(held) /\ Cardinality(held) <= MaxLines
  BY <1>3 DEF ScreenInv, LinesStaffed, Few
<1>7. Used = held \cup shown
  BY <1>1, <1>3 DEF Used
<1>8. PICK c, s, h, i : /\ c = Cardinality(Used) /\ s = Cardinality(shown)
                        /\ h = Cardinality(held) /\ i = Cardinality(held \cap shown)
  OBVIOUS
<1>9. /\ IsFiniteSet(Used) /\ c = h + s - i
      /\ s \in Nat /\ h \in Nat /\ i \in Nat
  BY <1>5, <1>6, <1>7, <1>8, FS_Union, FS_CardinalityType, FS_Intersection
<1>10. PICK both : both = Cardinality(LineIds \cap Used)
  OBVIOUS
<1>11. /\ IsFiniteSet(LineIds \ Used) /\ Cardinality(LineIds \ Used) = n - both
       /\ both \in Nat /\ both <= c
  BY <1>3, <1>4, <1>8, <1>9, <1>10, FS_Difference, FS_Intersection, FS_CardinalityType
<1>12. MaxLines * (k + 2) = MaxLines * k + MaxLines + MaxLines /\ MaxLines * k \in Nat
  BY <1>4
<1>13. n - both >= MaxLines
  <2>1. s <= MaxLines * k /\ h <= MaxLines
    BY <1>5, <1>6, <1>8
  <2>2. PICK j \in Nat : j = MaxLines * k
    BY <1>12
  <2>. QED BY <1>4, <1>9, <1>11, <1>12, <2>1, <2>2
<1>14. IsFiniteSet(DOMAIN rows) /\ Cardinality(DOMAIN rows) <= Cardinality(LineIds \ Used)
  BY <1>4, <1>11, <1>13, FS_CardinalityType DEF Few
<1>. QED BY <1>11, <1>14, RoomForAll

\* The lines a save inserts are its rows, under new identifiers.
LEMMA InsertedFacts ==
  ASSUME ScreenInv, NEW rows, Few(Keys, Row \cup Line, rows)
  PROVE  \E f \in [DOMAIN rows -> LineIds] :
           /\ \A q, r \in DOMAIN rows : f[q] = f[r] => q = r
           /\ DOMAIN Inserted(rows) = {f[r] : r \in DOMAIN rows}
           /\ Inserted(rows) = [l \in DOMAIN Inserted(rows) |-> Inserted(rows)[l]]
           /\ \A r \in DOMAIN rows : Inserted(rows)[f[r]] = NewLine(rows[r].site, rows[r].hours)
<1>1. PICK f : f = CHOOSE g \in [DOMAIN rows -> LineIds \ Used] :
                     \A q, r \in DOMAIN rows : g[q] = g[r] => q = r
  OBVIOUS
<1>2. /\ f \in [DOMAIN rows -> LineIds \ Used]
      /\ \A q, r \in DOMAIN rows : f[q] = f[r] => q = r
  BY <1>1, IdentifiersAreLeft
<1>3. Inserted(rows) = [l \in {f[r] : r \in DOMAIN rows} |->
                          LET row == rows[CHOOSE r \in DOMAIN rows : f[r] = l]
                          IN  NewLine(row.site, row.hours)]
  BY <1>1 DEF Inserted, Used
<1>4. ASSUME NEW r \in DOMAIN rows
      PROVE  Inserted(rows)[f[r]] = NewLine(rows[r].site, rows[r].hours)
  <2>1. (CHOOSE q \in DOMAIN rows : f[q] = f[r]) = r
    BY <1>2
  <2>. QED BY <1>3, <2>1
<1>5. f \in [DOMAIN rows -> LineIds]
  BY <1>2
<1>6. /\ DOMAIN Inserted(rows) = {f[r] : r \in DOMAIN rows}
      /\ Inserted(rows) = [l \in DOMAIN Inserted(rows) |-> Inserted(rows)[l]]
  BY <1>3
<1>. QED BY <1>2, <1>4, <1>5, <1>6

---------------------------------------------------------------------------
(* What the requests of the pages do to the sheet.                         *)

\* One request leaves of the sheet what the pages count on: it does not come back
\* from deletion, nor change hands, and its lines name sites offered to its owner.
SheetKept ==
  /\ sheet'.status # "NONE" => sheet.status # "NONE" /\ sheet'.owner = sheet.owner
  /\ Few(LineIds, Line, lines')
  /\ Staffed(SitesForUser(sheet'.owner), lines')

\* A request that moves no line keeps the sheet so.
LEMMA LinesMoved ==
  ASSUME ScreenInv, NEW u \in Users, Request(u), sheet'.owner = sheet.owner,
         sheet'.status # "NONE" => sheet.status # "NONE",
         DOMAIN lines' = DOMAIN lines, \A l \in DOMAIN lines : lines'[l].site = lines[l].site
  PROVE  SheetKept
<1>1. TSTypeOK'
  BY RequestType DEF ScreenInv, IInv
<1>. QED BY <1>1 DEF SheetKept, ScreenInv, LinesStaffed, Few, Staffed, TSTypeOK

\* The lines inserted are lines of the workflow.
LEMMA InsertedLines ==
  ASSUME ScreenInv, NEW rows, Few(Keys, Row \cup Line, rows), NEW S, Staffed(S, rows)
  PROVE  /\ Few(LineIds, Line, Inserted(rows))
         /\ Staffed(S, Inserted(rows))
         /\ \E at \in [DOMAIN Inserted(rows) -> Sites \cup {NoSite}],
               h \in [DOMAIN Inserted(rows) -> Hours] :
              Inserted(rows) = [l \in DOMAIN Inserted(rows) |-> NewLine(at[l], h[l])]
<1>1. PICK new : new = Inserted(rows)
  OBVIOUS
<1>2. PICK f \in [DOMAIN rows -> LineIds] :
        /\ \A q, r \in DOMAIN rows : f[q] = f[r] => q = r
        /\ DOMAIN new = {f[r] : r \in DOMAIN rows}
        /\ new = [l \in DOMAIN new |-> new[l]]
        /\ \A r \in DOMAIN rows : new[f[r]] = NewLine(rows[r].site, rows[r].hours)
  <2>1. PICK f \in [DOMAIN rows -> LineIds] :
          /\ \A q, r \in DOMAIN rows : f[q] = f[r] => q = r
          /\ DOMAIN Inserted(rows) = {f[r] : r \in DOMAIN rows}
          /\ Inserted(rows) = [l \in DOMAIN Inserted(rows) |-> Inserted(rows)[l]]
          /\ \A r \in DOMAIN rows : Inserted(rows)[f[r]] = NewLine(rows[r].site, rows[r].hours)
    BY InsertedFacts
  <2>. QED BY <1>1, <2>1
<1>3. \A r \in DOMAIN rows : rows[r].site \in Sites \cup {NoSite} /\ rows[r].hours \in Hours
  BY DEF Few, Row, Line
<1>4. \A l \in DOMAIN new :
        \E r \in DOMAIN rows : l = f[r] /\ new[l] = NewLine(rows[r].site, rows[r].hours)
  BY <1>2
<1>5. \A s, h : NewLine(s, h).site = s /\ NewLine(s, h).hours = h
  BY DEF NewLine
<1>6. \A l \in DOMAIN new : /\ new[l].site \in Sites \cup {NoSite} /\ new[l].hours \in Hours
                            /\ new[l] = NewLine(new[l].site, new[l].hours)
  BY <1>3, <1>4, <1>5
<1>7. IsFiniteSet(DOMAIN new) /\ Cardinality(DOMAIN new) = Cardinality(DOMAIN rows)
  <2>1. f \in [DOMAIN rows -> DOMAIN new]
    BY <1>2
  <2>2. f \in Bijection(DOMAIN rows, DOMAIN new)
    BY <1>2, <2>1 DEF Bijection, Injection, IsInjective, Surjection
  <2>. QED BY <2>2, FS_Bijection DEF Few, ExistsBijection
<1>8. Few(LineIds, Line, new)
  <2>1. \A l \in DOMAIN new : new[l] \in Line
    BY <1>6, NewLineFacts
  <2>2. new \in [DOMAIN new -> Line]
    BY <1>2, <2>1
  <2>3. DOMAIN new \subseteq LineIds
    BY <1>2
  <2>. QED BY <1>7, <2>2, <2>3 DEF Few
<1>9. Staffed(S, new)
  BY <1>4, <1>5 DEF Staffed
<1>10. PICK at, h : /\ at = [l \in DOMAIN new |-> new[l].site]
                    /\ h = [l \in DOMAIN new |-> new[l].hours]
  OBVIOUS
<1>11. /\ at \in [DOMAIN new -> Sites \cup {NoSite}]
       /\ h \in [DOMAIN new -> Hours]
       /\ new = [l \in DOMAIN new |-> NewLine(at[l], h[l])]
  BY <1>2, <1>6, <1>10
<1>. QED BY <1>1, <1>8, <1>9, <1>11

\* A save that is carried out is a request of the workflow.
LEMMA UpdateWrites ==
  ASSUME ScreenInv, NEW u \in Users, NEW rows, Few(Keys, Row \cup Line, rows),
         u = sheet.owner => Staffed(SitesForUser(u), rows), Update(u, rows)
  PROVE  /\ Request(u)
         /\ SheetKept
         /\ sheet' = sheet
<1>1. CASE sheet.status \in Editable /\ sheet.owner = u
  <2>1. PICK new : new = Inserted(rows)
    OBVIOUS
  <2>2. ReplaceLines(u, new)
    BY <1>1, <2>1 DEF Update
  <2>3. PICK at \in [DOMAIN new -> Sites \cup {NoSite}], h \in [DOMAIN new -> Hours] :
          new = [l \in DOMAIN new |-> NewLine(at[l], h[l])]
    BY <1>1, <2>1, InsertedLines
  <2>4. Few(LineIds, Line, new) /\ Staffed(SitesForUser(u), new)
    BY <1>1, <2>1, InsertedLines
  <2>5. Request(u)
    <3>1. DOMAIN new \in SUBSET LineIds /\ Cardinality(DOMAIN new) <= MaxLines
      BY <2>4 DEF Few
    <3>2. ReplaceLines(u, [l \in DOMAIN new |-> NewLine(at[l], h[l])])
      BY <2>2, <2>3
    <3>. QED BY <3>1, <3>2 DEF Request
  <2>6. sheet' = sheet /\ lines' = new
    BY <2>2 DEF ReplaceLines
  <2>. QED BY <1>1, <2>4, <2>5, <2>6 DEF SheetKept
<1>2. CASE ~(sheet.status \in Editable /\ sheet.owner = u)
  <2>1. PICK mine : mine = DOMAIN rows \cap EditableLines(u, sheet, lines)
    OBVIOUS
  <2>2. PICK edits : edits = [l \in mine |-> rows[l].hours]
    OBVIOUS
  <2>3. EditLines(u, edits)
    BY <1>2, <2>1, <2>2 DEF Update
  <2>4. \A l \in mine : edits[l] \in Hours
    BY <2>1, <2>2 DEF Few, Row, Line
  <2>5. edits \in [mine -> Hours] /\ mine \in SUBSET EditableLines(u, sheet, lines)
    BY <2>1, <2>2, <2>4
  <2>6. Request(u)
    BY <2>3, <2>5 DEF Request
  <2>7. lines' = [l \in DOMAIN lines |->
                    IF l \in DOMAIN edits THEN Corrected(lines[l], edits[l]) ELSE lines[l]]
    BY <2>3 DEF EditLines
  <2>8. \A l \in DOMAIN lines : lines[l] \in Line
    BY DEF ScreenInv, LinesStaffed, Few
  <2>9. \A l \in DOMAIN lines : lines'[l].site = lines[l].site
    BY <2>2, <2>4, <2>7, <2>8, CorrectedFacts
  <2>10. sheet' = sheet
    BY <2>3 DEF EditLines
  <2>. QED BY <2>6, <2>7, <2>9, <2>10, LinesMoved
<1>. QED BY <1>1, <1>2

\* So is a button that is obeyed.
LEMMA PerformWrites ==
  ASSUME ScreenInv, NEW u \in Users,
         NEW b \in {"SUBMIT", "APPROVE", "REJECT", "REOPEN", "DELETE"}, Perform(u, b)
  PROVE  Request(u) /\ SheetKept
<1>0. /\ TypeInv /\ u \in active
      /\ sheet \in Sheet
      /\ \A l \in DOMAIN lines : lines[l] \in Line
  BY DEF ScreenInv, IInv, TypeInv, TSTypeOK
<1>1. Request(u)
  BY DEF Perform, Request
<1>2. ASSUME NEW to \in SheetStatus, NEW st \in LineStatus, sheet.status # "NONE",
             Transition(u, to, st)
      PROVE  SheetKept
  <2>1. /\ sheet'.owner = sheet.owner
        /\ DOMAIN lines' = DOMAIN lines
        /\ \A l \in DOMAIN lines : lines'[l] = ResetLine(lines[l], st)
    BY <1>0, <1>2, TransitionEffect
  <2>. QED BY <1>0, <1>1, <1>2, <2>1, ResetLineFacts, LinesMoved
<1>3. CASE b = "SUBMIT"
  <2>1. Submit(u)
    BY <1>3 DEF Perform
  <2>2. sheet.status # "NONE" /\ Transition(u, "SUBMITTED", "SUBMITTED")
    BY <2>1 DEF Submit, CanSubmit, InScope
  <2>3. "SUBMITTED" \in SheetStatus /\ "SUBMITTED" \in LineStatus
    BY DEF SheetStatus, LineStatus
  <2>. QED BY <1>1, <1>2, <2>2, <2>3
<1>4. CASE b = "REOPEN"
  <2>1. Reopen(u)
    BY <1>4 DEF Perform
  <2>2. sheet.status # "NONE" /\ Transition(u, "REOPENED", "DRAFT")
    BY <2>1 DEF Reopen, CanReopen, InScope
  <2>3. "REOPENED" \in SheetStatus /\ "DRAFT" \in LineStatus
    BY DEF SheetStatus, LineStatus
  <2>. QED BY <1>1, <1>2, <2>2, <2>3
<1>5. CASE b = "APPROVE"
  <2>1. Approve(u)
    BY <1>5 DEF Perform
  <2>2. sheet.status # "NONE"
    BY <1>0, <2>1 DEF Approve, TypeInv, SheetIsOwned
  <2>3. sheet'.owner = sheet.owner /\ DOMAIN lines' = DOMAIN lines
    BY <1>0, <2>1, ApproveEffect
  <2>4. ASSUME NEW l \in DOMAIN lines
        PROVE  lines'[l].site = lines[l].site
    <3>1. \/ lines'[l] = Recorded(Approved(lines[l], u, "SITE"), u, "SITE_APPROVED")
          \/ lines'[l] = Recorded(Approved(lines[l], u, "PROJECT"), u, "APPROVED")
          \/ lines'[l] = lines[l]
      BY <1>0, <2>1, ApproveEffect
    <3>. QED BY <1>0, <3>1, DecisionFacts
  <2>. QED BY <1>1, <2>2, <2>3, <2>4, LinesMoved
<1>6. CASE b = "REJECT"
  <2>1. Reject(u)
    BY <1>6 DEF Perform
  <2>2. sheet.status # "NONE"
    BY <1>0, <2>1 DEF Reject, TypeInv, SheetIsOwned
  <2>3. sheet'.owner = sheet.owner /\ DOMAIN lines' = DOMAIN lines
    BY <1>0, <2>1, RejectEffect
  <2>4. ASSUME NEW l \in DOMAIN lines
        PROVE  lines'[l].site = lines[l].site
    <3>1. \/ lines'[l] = Recorded(Rejected(lines[l], u), u, "REJECTED")
          \/ lines'[l] = lines[l]
      BY <1>0, <2>1, RejectEffect
    <3>. QED BY <1>0, <3>1, DecisionFacts
  <2>. QED BY <1>1, <2>2, <2>3, <2>4, LinesMoved
<1>7. CASE b = "DELETE"
  <2>1. sheet' = NoSheet /\ lines' = NoLines
    BY <1>7 DEF Perform, Remove
  <2>2. sheet'.status = "NONE" /\ DOMAIN lines' = {}
    BY <2>1 DEF NoSheet, NoLines
  <2>3. Few(LineIds, Line, lines')
    <3>1. lines' \in [DOMAIN lines' -> Line]
      BY <2>1, <2>2 DEF NoLines
    <3>. QED BY <2>2, <3>1, FS_EmptySet, ScreenAssumption, RulesAssumption DEF Few
  <2>. QED BY <1>1, <2>2, <2>3 DEF SheetKept, Staffed
<1>. QED BY <1>1, <1>3, <1>4, <1>5, <1>6, <1>7

---------------------------------------------------------------------------
(* What the pages keep.                                                    *)

\* q is the page p with another state, other rows and other requests.
Turned(p, q, pc, rows, saving, sent, acting) ==
  /\ ShapedPage(q)
  /\ q.user = p.user /\ q.sheet = p.sheet /\ q.lines = p.lines
  /\ q.pc = pc /\ q.rows = rows /\ q.saving = saving /\ q.sent = sent /\ q.acting = acting

\* Rows that may be shown, or sent, by the page p.
Fitting(p, rows) ==
  /\ Few(Keys, Row, rows)
  /\ Staffed(SitesForUser(p.sheet.owner), rows)
  /\ p.sheet # NoSheet /\ p.sheet.status \notin Editable => Follows(p, rows)

\* What an open page may become: a save under way belongs to a page that shows its
\* rows, and the rows that are shown or sent fit it.
MayTurn(p, pc, rows, saving, sent, acting) ==
  /\ p.user \in Users
  /\ pc \in {"loading", "ready"} /\ (pc = "ready" => p.sheet # NoSheet)
  /\ saving \in {"NONE", "SAVE", "SUBMIT"} /\ (saving # "NONE" => pc = "ready")
  /\ acting \in {"NONE", "SUBMIT", "APPROVE", "REJECT", "REOPEN", "DELETE"}
  /\ Fitting(p, rows)
  /\ IF saving = "NONE" THEN sent \in {p.sent, NoRows} ELSE Fitting(p, sent)

Turns(p, q) ==
  \E pc, rows, saving, sent, acting : /\ MayTurn(p, pc, rows, saving, sent, acting)
                                       /\ Turned(p, q, pc, rows, saving, sent, acting)

LEMMA NoRowsFit ==
  Few(LineIds, Line, NoLines) /\ Few(Keys, Row, NoRows) /\ \A S : Staffed(S, NoRows) /\ Staffed(S, NoLines)
<1>1. DOMAIN NoRows = {} /\ DOMAIN NoLines = {}
  BY DEF NoRows, NoLines
<1>2. NoRows \in [DOMAIN NoRows -> Row] /\ NoLines \in [DOMAIN NoLines -> Line]
  BY DEF NoRows, NoLines
<1>3. IsFiniteSet({}) /\ Cardinality({}) = 0 /\ MaxLines \in Nat
  BY FS_EmptySet, RulesAssumption
<1>. QED BY <1>1, <1>2, <1>3 DEF Few, Staffed

\* A page keeps what it holds as long as its new rows fit.
LEMMA TurnedIsSound ==
  ASSUME NEW p, NEW q, NEW sh, PageOK(p), PageSound(p, sh),
         Turns(p, q)
  PROVE  ShapedPage(q) /\ PageOK(q) /\ PageSound(q, sh)
<1>. PICK pc, rows, saving, sent, acting :
            /\ MayTurn(p, pc, rows, saving, sent, acting)
            /\ Turned(p, q, pc, rows, saving, sent, acting)
  BY DEF Turns
<1>1. ShapedPage(q)
  BY DEF Turned
<1>2. \A t : Follows(q, t) <=> Follows(p, t)
  BY DEF Turned, Follows
<1>3. Few(Keys, Row, sent) /\ Staffed(SitesForUser(p.sheet.owner), sent)
  BY NoRowsFit DEF MayTurn, Fitting, PageOK, PageSound
<1>4. PageOK(q)
  BY <1>3 DEF MayTurn, PageOK, Turned, Fitting
<1>5. PageSound(q, sh)
  BY <1>2, <1>3 DEF MayTurn, PageSound, Turned, Fitting
<1>. QED BY <1>1, <1>4, <1>5

\* The rows a page shows fit, and so do those it has sent.
LEMMA ShownRowsFit ==
  ASSUME NEW p, NEW sh, PageOK(p), PageSound(p, sh)
  PROVE  Fitting(p, p.rows) /\ (p.saving # "NONE" => Fitting(p, p.sent))
BY DEF Fitting, PageOK, PageSound

\* A closed page holds nothing.
LEMMA ClosedIsSound ==
  ASSUME NEW sh
  PROVE  ShapedPage(Closed) /\ PageOK(Closed) /\ PageSound(Closed, sh)
<1>1. NoSheet \in Sheet
  BY DEF NoSheet, Sheet, NoAction, ApprovalActions
<1>2. ShapedPage(Closed)
  BY DEF ShapedPage, Closed
<1>3. /\ Closed.pc = "closed" /\ Closed.user = NoUser /\ Closed.sheet = NoSheet
      /\ Closed.lines = NoLines /\ Closed.rows = NoRows /\ Closed.sent = NoRows
      /\ Closed.saving = "NONE" /\ Closed.acting = "NONE"
  BY DEF Closed
<1>. QED BY <1>1, <1>2, <1>3, NoRowsFit DEF PageOK, PageSound

\* The rows a load fills the grid with are those of its lines, or a blank one in
\* a sheet that is still a draft.
LEMMA LoadedRows ==
  ASSUME NEW u, NEW sh, NEW ls, Few(LineIds, Line, ls), NEW S, Staffed(S, ls)
  PROVE  /\ Few(Keys, Row, RowsOf(u, sh, ls))
         /\ Staffed(S, RowsOf(u, sh, ls))
         /\ sh.status \notin Editable =>
              /\ DOMAIN RowsOf(u, sh, ls) = DOMAIN ls
              /\ \A l \in DOMAIN ls : /\ RowsOf(u, sh, ls)[l].site = ls[l].site
                                      /\ RowsOf(u, sh, ls)[l].hours = ls[l].hours
<1>1. PICK rows : rows = RowsOf(u, sh, ls)
  OBVIOUS
<1>2. CASE DOMAIN ls = {} /\ CanUpdate(u, sh, ls)
  <2>1. PICK n \in NewRows : n = CHOOSE k \in NewRows : TRUE
    BY ScreenAssumption
  <2>2. rows = [r \in {n} |-> BlankRow]
    BY <1>1, <1>2, <2>1 DEF RowsOf
  <2>3. BlankRow \in Row /\ BlankRow.site = NoSite
    BY ScreenAssumption DEF BlankRow, Row
  <2>4. DOMAIN rows = {n} /\ rows \in [DOMAIN rows -> Row] /\ rows[n] = BlankRow
    BY <2>2, <2>3
  <2>5. IsFiniteSet({n}) /\ Cardinality({n}) = 1 /\ 1 <= MaxLines
    <3>1. IsFiniteSet({n}) /\ Cardinality({n}) = 1
      BY FS_Singleton
    <3>2. MaxLines \in Nat /\ MaxLines > 0
      BY ScreenAssumption, RulesAssumption
    <3>. QED BY <3>1, <3>2
  <2>6. sh.status \in Editable
    BY <1>2 DEF CanUpdate
  <2>7. Few(Keys, Row, rows)
    BY <2>4, <2>5 DEF Few, Keys
  <2>8. Staffed(S, rows)
    BY <2>3, <2>4 DEF Staffed
  <2>. QED BY <1>1, <2>6, <2>7, <2>8
<1>3. CASE ~(DOMAIN ls = {} /\ CanUpdate(u, sh, ls))
  <2>1. rows = [l \in DOMAIN ls |->
          [site |-> ls[l].site, place |-> IF ls[l].site = NoSite THEN "OFFICE" ELSE "SITE",
           hours |-> ls[l].hours]]
    BY <1>1, <1>3 DEF RowsOf
  <2>2. \A l \in DOMAIN ls : ls[l].site \in Sites \cup {NoSite} /\ ls[l].hours \in Hours
    BY DEF Few, Line
  <2>3. \A l \in DOMAIN ls : /\ rows[l] \in Row /\ rows[l].site = ls[l].site
                             /\ rows[l].hours = ls[l].hours
    BY <2>1, <2>2 DEF Row
  <2>4. DOMAIN rows = DOMAIN ls /\ rows \in [DOMAIN rows -> Row]
    BY <2>1, <2>3
  <2>5. Few(Keys, Row, rows)
    BY <2>4 DEF Few, Keys
  <2>. QED BY <1>1, <2>3, <2>4, <2>5 DEF Staffed
<1>. QED BY <1>2, <1>3

\* They fit a page that shows those lines.
LEMMA LoadedRowsFit ==
  ASSUME NEW p, NEW sh, PageOK(p), PageSound(p, sh)
  PROVE  Fitting(p, RowsOf(p.user, p.sheet, p.lines))
<1>1. Few(LineIds, Line, p.lines) /\ Staffed(SitesForUser(p.sheet.owner), p.lines)
  BY DEF PageOK, PageSound
<1>2. PICK rows : rows = RowsOf(p.user, p.sheet, p.lines)
  OBVIOUS
<1>3. /\ Few(Keys, Row, rows)
      /\ Staffed(SitesForUser(p.sheet.owner), rows)
      /\ p.sheet.status \notin Editable =>
           /\ DOMAIN rows = DOMAIN p.lines
           /\ \A l \in DOMAIN p.lines : /\ rows[l].site = p.lines[l].site
                                        /\ rows[l].hours = p.lines[l].hours
  BY <1>1, <1>2, LoadedRows
<1>. QED BY <1>2, <1>3 DEF Fitting, Follows

\* Typing hours, where the page lets them be typed.
LEMMA HoursFit ==
  ASSUME NEW x \in Pages, PageOK(page[x]), PageSound(page[x], sheet),
         page[x].sheet # NoSheet,
         NEW r \in DOMAIN page[x].rows, NEW h \in Hours, RowEditable(x, r)
  PROVE  Fitting(page[x], [page[x].rows EXCEPT ![r].hours = h])
<1>1. PICK p, row, rows : /\ p = page[x]
                          /\ row = [p.rows[r] EXCEPT !.hours = h]
                          /\ rows = [p.rows EXCEPT ![r] = row]
  OBVIOUS
<1>2. Fitting(p, p.rows)
  BY <1>1, ShownRowsFit
<1>3. p.rows \in [DOMAIN p.rows -> Row] /\ p.rows[r] \in Row
  BY <1>1, <1>2 DEF Fitting, Few
<1>4. row \in Row /\ row.site = p.rows[r].site /\ row.hours = h
  BY <1>1, <1>3 DEF Row
<1>5. /\ DOMAIN rows = DOMAIN p.rows
      /\ rows \in [DOMAIN rows -> Row]
      /\ rows[r] = row
      /\ \A k \in DOMAIN rows : k # r => rows[k] = p.rows[k]
  BY <1>1, <1>3, <1>4
<1>6. Few(Keys, Row, rows)
  BY <1>2, <1>5 DEF Fitting, Few
<1>7. Staffed(SitesForUser(p.sheet.owner), rows)
  BY <1>1, <1>2, <1>4, <1>5 DEF Fitting, Staffed
<1>8. ASSUME p.sheet.status \notin Editable
      PROVE  Follows(p, rows)
  <2>1. r \in DOMAIN p.lines /\ CanEditLine(p.user, p.sheet.owner, p.lines[r])
    BY <1>1, <1>8 DEF RowEditable
  <2>2. Follows(p, p.rows)
    BY <1>1, <1>2, <1>8 DEF Fitting
  <2>. QED BY <1>1, <1>4, <1>5, <2>1, <2>2 DEF Follows
<1>9. [page[x].rows EXCEPT ![r].hours = h] = rows
  BY <1>1
<1>. QED BY <1>1, <1>6, <1>7, <1>8, <1>9 DEF Fitting

\* A site is chosen among those offered, in a draft.
LEMMA SiteFits ==
  ASSUME NEW x \in Pages, PageOK(page[x]), PageSound(page[x], sheet),
         NEW r \in DOMAIN page[x].rows, page[x].sheet.status \in Editable,
         NEW s \in SitesForUser(page[x].sheet.owner) \cup {NoSite},
         NEW place \in {"SITE", "OFFICE", page[x].rows[r].place}
  PROVE  Fitting(page[x], [page[x].rows EXCEPT ![r].site = s, ![r].place = place])
<1>1. PICK p, row, rows : /\ p = page[x]
                          /\ row = [p.rows[r] EXCEPT !.site = s, !.place = place]
                          /\ rows = [p.rows EXCEPT ![r] = row]
  OBVIOUS
<1>2. Fitting(p, p.rows)
  BY <1>1, ShownRowsFit
<1>3. p.rows \in [DOMAIN p.rows -> Row] /\ p.rows[r] \in Row
  BY <1>1, <1>2 DEF Fitting, Few
<1>4. s \in Sites \cup {NoSite}
  BY DEF SitesForUser, OpenSites
<1>5. row \in Row /\ row.site = s
  BY <1>1, <1>3, <1>4 DEF Row
<1>6. /\ DOMAIN rows = DOMAIN p.rows
      /\ rows \in [DOMAIN rows -> Row]
      /\ rows[r] = row
      /\ \A k \in DOMAIN rows : k # r => rows[k] = p.rows[k]
  BY <1>1, <1>3, <1>5
<1>7. Few(Keys, Row, rows)
  BY <1>2, <1>6 DEF Fitting, Few
<1>8. Staffed(SitesForUser(p.sheet.owner), rows)
  BY <1>1, <1>2, <1>5, <1>6 DEF Fitting, Staffed
<1>9. [page[x].rows EXCEPT ![r].site = s, ![r].place = place] = rows
  BY <1>1, <1>3
<1>. QED BY <1>1, <1>7, <1>8, <1>9 DEF Fitting

\* A row is added as long as there is room,
LEMMA AddedRowFits ==
  ASSUME NEW x \in Pages, PageOK(page[x]), PageSound(page[x], sheet),
         page[x].sheet.status \in Editable, Cardinality(DOMAIN page[x].rows) < MaxLines,
         NEW n \in NewRows \ DOMAIN page[x].rows
  PROVE  Fitting(page[x], [r \in DOMAIN page[x].rows \cup {n} |->
                             IF r = n THEN BlankRow ELSE page[x].rows[r]])
<1>1. PICK p, rows : /\ p = page[x]
                     /\ rows = [r \in DOMAIN p.rows \cup {n} |->
                                  IF r = n THEN BlankRow ELSE p.rows[r]]
  OBVIOUS
<1>2. Fitting(p, p.rows)
  BY <1>1, ShownRowsFit
<1>3. /\ p.rows \in [DOMAIN p.rows -> Row] /\ DOMAIN p.rows \subseteq Keys
      /\ IsFiniteSet(DOMAIN p.rows)
  BY <1>1, <1>2 DEF Fitting, Few
<1>4. BlankRow \in Row /\ BlankRow.site = NoSite
  BY ScreenAssumption DEF BlankRow, Row
<1>5. /\ DOMAIN rows = DOMAIN p.rows \cup {n}
      /\ rows \in [DOMAIN rows -> Row]
      /\ \A r \in DOMAIN rows : rows[r] = BlankRow \/ (r \in DOMAIN p.rows /\ rows[r] = p.rows[r])
  BY <1>1, <1>3, <1>4
<1>6. /\ IsFiniteSet(DOMAIN rows)
      /\ Cardinality(DOMAIN rows) <= MaxLines
  <2>1. /\ IsFiniteSet(DOMAIN p.rows \cup {n})
        /\ Cardinality(DOMAIN p.rows \cup {n}) = Cardinality(DOMAIN p.rows) + 1
        /\ Cardinality(DOMAIN p.rows) \in Nat
    BY <1>1, <1>3, FS_AddElement, FS_CardinalityType
  <2>. QED BY <1>1, <1>5, <2>1, RulesAssumption
<1>7. Few(Keys, Row, rows)
  BY <1>3, <1>5, <1>6 DEF Few, Keys
<1>8. Staffed(SitesForUser(p.sheet.owner), rows)
  BY <1>2, <1>4, <1>5 DEF Fitting, Staffed
<1>. QED BY <1>1, <1>7, <1>8 DEF Fitting

\* and any row may be taken away.
LEMMA RemainingRowsFit ==
  ASSUME NEW x \in Pages, PageOK(page[x]), PageSound(page[x], sheet),
         page[x].sheet.status \in Editable, NEW r
  PROVE  Fitting(page[x], [q \in DOMAIN page[x].rows \ {r} |-> page[x].rows[q]])
<1>1. PICK p, rows : p = page[x] /\ rows = [q \in DOMAIN p.rows \ {r} |-> p.rows[q]]
  OBVIOUS
<1>2. Fitting(p, p.rows)
  BY <1>1, ShownRowsFit
<1>3. /\ p.rows \in [DOMAIN p.rows -> Row] /\ DOMAIN p.rows \subseteq Keys
      /\ IsFiniteSet(DOMAIN p.rows) /\ Cardinality(DOMAIN p.rows) <= MaxLines
  BY <1>1, <1>2 DEF Fitting, Few
<1>4. /\ DOMAIN rows = DOMAIN p.rows \ {r}
      /\ rows \in [DOMAIN rows -> Row]
      /\ \A k \in DOMAIN rows : rows[k] = p.rows[k]
  BY <1>1, <1>3
<1>5. IsFiniteSet(DOMAIN rows) /\ Cardinality(DOMAIN rows) <= MaxLines
  <2>1. /\ IsFiniteSet(DOMAIN rows)
        /\ Cardinality(DOMAIN rows) <= Cardinality(DOMAIN p.rows)
    BY <1>3, <1>4, FS_Subset
  <2>. QED BY <1>3, <2>1, FS_CardinalityType, RulesAssumption
<1>6. Few(Keys, Row, rows)
  BY <1>3, <1>4, <1>5 DEF Few
<1>7. Staffed(SitesForUser(p.sheet.owner), rows)
  BY <1>2, <1>4 DEF Fitting, Staffed
<1>. QED BY <1>1, <1>6, <1>7 DEF Fitting

\* What one step leaves of the pages: x as sound as it was, the others alone.
PageMoved(x) ==
  /\ page' = [y \in Pages |-> page'[y]]
  /\ \A y \in Pages : y # x => page'[y] = page[y]
  /\ ShapedPage(page'[x]) /\ PageOK(page'[x]) /\ PageSound(page'[x], sheet')

LEMMA OnePageMoves ==
  ASSUME PagesSound, NEW x \in Pages, NEW q, page' = [page EXCEPT ![x] = q],
         ShapedPage(q), PageOK(q), PageSound(q, sheet')
  PROVE  PageMoved(x) /\ page'[x] = q
BY DEF PagesSound, PageMoved

\* What the page kept, it keeps of the sheet after a request.
LEMMA SoundAfterRequest ==
  ASSUME NEW p, PageSound(p, sheet), SheetKept \/ sheet' = sheet
  PROVE  PageSound(p, sheet')
BY DEF PageSound, SheetKept

\* Opening, loading and leaving.
LEMMA LoadingIsSound ==
  ASSUME ScreenInv, NEW x \in Pages,
         (\E u \in active : Open(x, u)) \/ Load(x) \/ LoadFails(x) \/ ListsArrive(x) \/ Leave(x)
  PROVE  PageMoved(x)
<1>0. PagesSound /\ ShapedPage(page[x]) /\ PageOK(page[x]) /\ PageSound(page[x], sheet)
  BY DEF ScreenInv, PagesSound
<1>1. PICK p : p = page[x]
  OBVIOUS
<1>2. sheet' = sheet
  BY DEF Open, Load, LoadFails, ListsArrive, Leave, tsVars
<1>3. ShapedPage(Closed) /\ PageOK(Closed) /\ PageSound(Closed, sheet)
  BY ClosedIsSound
<1>4. /\ Closed.pc = "closed" /\ Closed.user = NoUser /\ Closed.sheet = NoSheet
      /\ Closed.lines = NoLines /\ Closed.rows = NoRows /\ Closed.sent = NoRows
      /\ Closed.saving = "NONE" /\ Closed.acting = "NONE"
  BY DEF Closed
<1>5. ASSUME NEW u \in active, Open(x, u)
      PROVE  PageMoved(x)
  <2>1. PICK q : q = [Closed EXCEPT !.pc = "loading", !.user = u]
    OBVIOUS
  <2>2. page' = [page EXCEPT ![x] = q]
    BY <1>5, <2>1 DEF Open
  <2>3. u \in Users
    BY DEF active
  <2>4. /\ ShapedPage(q) /\ q.pc = "loading" /\ q.user = u /\ q.sheet = NoSheet
        /\ q.lines = NoLines /\ q.rows = NoRows /\ q.sent = NoRows
        /\ q.saving = "NONE" /\ q.acting = "NONE"
    BY <2>1 DEF Closed, ShapedPage
  <2>5. PageOK(q)
    BY <1>3, <1>4, <2>3, <2>4 DEF PageOK
  <2>6. PageSound(q, sheet)
    BY <1>3, <1>4, <2>3, <2>4 DEF PageSound
  <2>. QED BY <1>0, <1>2, <2>2, <2>4, <2>5, <2>6, OnePageMoves
<1>6. CASE Load(x)
  <2>1. PICK rows, q :
          /\ rows = RowsOf(p.user, sheet, lines)
          /\ q = [Closed EXCEPT !.pc = "ready", !.user = p.user, !.acting = p.acting,
                                !.sheet = sheet, !.lines = lines, !.rows = rows]
    OBVIOUS
  <2>2. page' = [page EXCEPT ![x] = q]
    BY <1>1, <1>6, <2>1 DEF Load
  <2>3. p.pc = "loading" /\ sheet.status # "NONE"
    BY <1>1, <1>6 DEF Load, InScope
  <2>4. p.user \in Users
    BY <1>0, <1>1, <2>3 DEF PageSound
  <2>5. /\ ShapedPage(q) /\ q.pc = "ready" /\ q.user = p.user /\ q.sheet = sheet
        /\ q.lines = lines /\ q.rows = rows /\ q.sent = NoRows
        /\ q.saving = "NONE" /\ q.acting = p.acting
    BY <2>1 DEF Closed, ShapedPage
  <2>6. Few(LineIds, Line, lines) /\ Staffed(SitesForUser(sheet.owner), lines)
    BY DEF ScreenInv, LinesStaffed
  <2>7. /\ Few(Keys, Row, rows)
        /\ Staffed(SitesForUser(sheet.owner), rows)
        /\ sheet.status \notin Editable =>
             /\ DOMAIN rows = DOMAIN lines
             /\ \A l \in DOMAIN lines : /\ rows[l].site = lines[l].site
                                        /\ rows[l].hours = lines[l].hours
    BY <2>1, <2>6, LoadedRows
  <2>8. sheet \in Sheet
    BY DEF ScreenInv, IInv, TypeInv, TSTypeOK
  <2>9. PageOK(q)
    BY <1>0, <1>1, <2>4, <2>5, <2>6, <2>7, <2>8, NoRowsFit DEF PageOK
  <2>10. NoSheet.status = "NONE"
    BY DEF NoSheet
  <2>11. sheet.status \notin Editable => Follows(q, rows)
    BY <2>5, <2>7 DEF Follows
  <2>12. PageSound(q, sheet)
    BY <2>3, <2>4, <2>5, <2>6, <2>7, <2>10, <2>11, NoRowsFit DEF PageSound
  <2>. QED BY <1>0, <1>2, <2>2, <2>5, <2>9, <2>12, OnePageMoves
<1>7. ASSUME p.sheet # NoSheet, p.pc # "closed", NEW lists, NEW typed,
             NEW q, q = [p EXCEPT !.pc = "ready", !.rows = RowsOf(p.user, p.sheet, p.lines),
                                  !.lists = lists, !.typed = typed],
             p.pc = "loading" => p.saving = "NONE",
             page' = [page EXCEPT ![x] = q]
      PROVE  PageMoved(x)
  <2>1. p.user \in Users
    BY <1>0, <1>1, <1>7 DEF PageSound
  <2>2. PICK rows : rows = RowsOf(p.user, p.sheet, p.lines)
    OBVIOUS
  <2>3. Turned(p, q, "ready", rows, p.saving, p.sent, p.acting)
    BY <1>0, <1>1, <1>7, <2>2 DEF Turned, ShapedPage
  <2>4. Fitting(p, rows)
    BY <1>0, <1>1, <2>2, LoadedRowsFit
  <2>5. IF p.saving = "NONE" THEN p.sent \in {p.sent, NoRows} ELSE Fitting(p, p.sent)
    BY <1>0, <1>1, ShownRowsFit
  <2>6. /\ p.saving \in {"NONE", "SAVE", "SUBMIT"}
        /\ p.acting \in {"NONE", "SUBMIT", "APPROVE", "REJECT", "REOPEN", "DELETE"}
    BY <1>0, <1>1 DEF PageOK
  <2>7. ShapedPage(q) /\ PageOK(q) /\ PageSound(q, sheet)
    <3>1. PageOK(p) /\ PageSound(p, sheet)
      BY <1>0, <1>1
    <3>2. MayTurn(p, "ready", rows, p.saving, p.sent, p.acting)
      BY <1>7, <2>1, <2>4, <2>5, <2>6 DEF MayTurn
    <3>3. Turns(p, q)
      BY <2>3, <3>2 DEF Turns
    <3>. QED BY <3>1, <3>3, TurnedIsSound
  <2>. QED BY <1>0, <1>2, <1>7, <2>7, OnePageMoves
<1>8. CASE LoadFails(x)
  <2>1. p.pc = "loading" /\ p.saving = "NONE"
    BY <1>0, <1>1, <1>8 DEF LoadFails, PageSound
  <2>2. CASE p.sheet = NoSheet
    <3>1. page' = [page EXCEPT ![x] = Closed]
      BY <1>1, <1>8, <2>2 DEF LoadFails
    <3>. QED BY <1>0, <1>2, <1>3, <3>1, OnePageMoves
  <2>3. CASE p.sheet # NoSheet
    <3>1. PICK q : q = [p EXCEPT !.pc = "ready", !.rows = RowsOf(p.user, p.sheet, p.lines),
                                 !.lists = FALSE, !.typed = 0]
      OBVIOUS
    <3>2. page' = [page EXCEPT ![x] = q]
      BY <1>1, <1>8, <2>3, <3>1 DEF LoadFails
    <3>. QED BY <1>7, <2>1, <2>3, <3>1, <3>2
  <2>. QED BY <2>2, <2>3
<1>9. CASE ListsArrive(x)
  <2>1. p.pc = "ready" /\ p.sheet # NoSheet
    BY <1>0, <1>1, <1>9 DEF ListsArrive, PageSound
  <2>2. PICK rows, q : /\ rows = RowsOf(p.user, p.sheet, p.lines)
                       /\ q = [p EXCEPT !.pc = "ready", !.rows = rows,
                                        !.lists = TRUE, !.typed = p.typed]
    OBVIOUS
  <2>3. q = [[p EXCEPT !.lists = TRUE] EXCEPT !.rows = rows]
    BY <1>0, <1>1, <2>1, <2>2 DEF ShapedPage
  <2>4. page' = [page EXCEPT ![x] = q]
    BY <1>0, <1>1, <1>9, <2>2, <2>3 DEF ListsArrive, PagesSound
  <2>. QED BY <1>7, <2>1, <2>2, <2>4
<1>10. CASE Leave(x)
  <2>1. page' = [page EXCEPT ![x] = Closed]
    BY <1>10 DEF Leave
  <2>. QED BY <1>0, <1>2, <1>3, <2>1, OnePageMoves
<1>. QED BY <1>5, <1>6, <1>8, <1>9, <1>10

\* A page turned by a step that keeps the sheet.
LEMMA PageTurns ==
  ASSUME ScreenInv, SheetKept \/ sheet' = sheet, NEW x \in Pages,
         NEW q, Turns(page[x], q), page' = [page EXCEPT ![x] = q]
  PROVE  PageMoved(x) /\ page'[x] = q
<1>1. PagesSound /\ PageOK(page[x]) /\ PageSound(page[x], sheet)
  BY DEF ScreenInv, PagesSound
<1>2. PageSound(page[x], sheet')
  BY <1>1, SoundAfterRequest
<1>3. ShapedPage(q) /\ PageOK(q) /\ PageSound(q, sheet')
  BY <1>1, <1>2, TurnedIsSound
<1>. QED BY <1>1, <1>3, OnePageMoves

\* What is known of a page.
LEMMA PageFacts ==
  ASSUME ScreenInv, NEW x \in Pages
  PROVE  /\ page = [y \in Pages |-> page[y]]
         /\ ShapedPage(page[x]) /\ PageOK(page[x]) /\ PageSound(page[x], sheet)
         /\ Fitting(page[x], page[x].rows)
         /\ page[x].saving # "NONE" => page[x].pc = "ready" /\ Fitting(page[x], page[x].sent)
         /\ page[x].pc = "ready" => page[x].sheet # NoSheet
         /\ page[x].pc # "closed" \/ page[x].acting # "NONE" => page[x].user \in Users
         /\ page[x].pc \in {"closed", "loading", "ready"}
         /\ page[x].saving \in {"NONE", "SAVE", "SUBMIT"}
         /\ page[x].acting \in {"NONE", "SUBMIT", "APPROVE", "REJECT", "REOPEN", "DELETE"}
<1>1. /\ page = [y \in Pages |-> page[y]]
      /\ ShapedPage(page[x]) /\ PageOK(page[x]) /\ PageSound(page[x], sheet)
  BY DEF ScreenInv, PagesSound
<1>2. Fitting(page[x], page[x].rows) /\ (page[x].saving # "NONE" => Fitting(page[x], page[x].sent))
  BY <1>1, ShownRowsFit
<1>. QED BY <1>1, <1>2 DEF PageOK, PageSound

\* Typing.
LEMMA TypingIsSound ==
  ASSUME ScreenInv, NEW x \in Pages, NEW rows, Types(x, rows), Fitting(page[x], rows)
  PROVE  PageMoved(x) /\ page'[x].saving = page[x].saving
<1>1. PICK p : p = page[x]
  OBVIOUS
<1>2. /\ page = [y \in Pages |-> page[y]] /\ ShapedPage(p)
      /\ p.pc = "ready" /\ p.sheet # NoSheet /\ p.user \in Users
      /\ p.saving \in {"NONE", "SAVE", "SUBMIT"}
      /\ p.acting \in {"NONE", "SUBMIT", "APPROVE", "REJECT", "REOPEN", "DELETE"}
      /\ p.saving # "NONE" => Fitting(p, p.sent)
  BY <1>1, PageFacts DEF Types
<1>3. PICK q : q = [p EXCEPT !.rows = rows, !.typed = p.typed + 1]
  OBVIOUS
<1>4. page' = [page EXCEPT ![x] = q]
  BY <1>1, <1>2, <1>3 DEF Types, ShapedPage
<1>5. Turned(p, q, "ready", rows, p.saving, p.sent, p.acting)
  BY <1>2, <1>3 DEF Turned, ShapedPage
<1>6. Turns(page[x], q)
  <2>1. MayTurn(p, "ready", rows, p.saving, p.sent, p.acting)
    BY <1>1, <1>2 DEF MayTurn
  <2>. QED BY <1>1, <1>5, <2>1 DEF Turns
<1>7. sheet' = sheet
  BY DEF Types, tsVars
<1>8. PageMoved(x) /\ page'[x] = q
  BY <1>4, <1>6, <1>7, PageTurns
<1>. QED BY <1>1, <1>5, <1>8 DEF Turned

\* Editing the grid.
LEMMA EditingIsSound ==
  ASSUME ScreenInv, NEW x \in Pages,
         \/ \E r \in DOMAIN page[x].rows, h \in Hours : SetHours(x, r, h)
         \/ \E r \in DOMAIN page[x].rows, s \in Sites \cup {NoSite} : SetSite(x, r, s)
         \/ AddRow(x)
         \/ \E r \in DOMAIN page[x].rows : RemoveRow(x, r)
  PROVE  PageMoved(x) /\ page'[x].saving = page[x].saving
<1>1. PageOK(page[x]) /\ PageSound(page[x], sheet)
  BY PageFacts
<1>2. ASSUME NEW r \in DOMAIN page[x].rows, NEW h \in Hours, SetHours(x, r, h)
      PROVE  \E rows : Types(x, rows) /\ Fitting(page[x], rows)
  <2>1. page[x].sheet # NoSheet
    BY <1>2, PageFacts DEF SetHours, Types
  <2>. QED BY <1>1, <1>2, <2>1, HoursFit DEF SetHours
<1>3. ASSUME NEW r \in DOMAIN page[x].rows, NEW s \in Sites \cup {NoSite}, SetSite(x, r, s)
      PROVE  \E rows : Types(x, rows) /\ Fitting(page[x], rows)
  <2>1. /\ page[x].sheet.status \in Editable
        /\ s \in SitesForUser(page[x].sheet.owner) \cup {NoSite}
    BY <1>3 DEF SetSite, StructureEditable
  <2>2. PICK place \in {"SITE", "OFFICE", page[x].rows[r].place} :
          Types(x, [page[x].rows EXCEPT ![r].site = s, ![r].place = place])
    BY <1>3 DEF SetSite
  <2>. QED BY <1>1, <2>1, <2>2, SiteFits
<1>4. ASSUME AddRow(x)
      PROVE  \E rows : Types(x, rows) /\ Fitting(page[x], rows)
  <2>1. /\ page[x].sheet.status \in Editable
        /\ Cardinality(DOMAIN page[x].rows) < MaxLines
    BY <1>4 DEF AddRow, StructureEditable
  <2>2. PICK n \in NewRows \ DOMAIN page[x].rows :
          Types(x, [r \in DOMAIN page[x].rows \cup {n} |->
                      IF r = n THEN BlankRow ELSE page[x].rows[r]])
    BY <1>4 DEF AddRow
  <2>. QED BY <1>1, <2>1, <2>2, AddedRowFits
<1>5. ASSUME NEW r \in DOMAIN page[x].rows, RemoveRow(x, r)
      PROVE  \E rows : Types(x, rows) /\ Fitting(page[x], rows)
  BY <1>1, <1>5, RemainingRowsFit DEF RemoveRow, StructureEditable
<1>. QED BY <1>2, <1>3, <1>4, <1>5, TypingIsSound

\* A save sends the rows as they are, and a button what its name says.
LEMMA SendingIsSound ==
  ASSUME ScreenInv, NEW x \in Pages,
         \/ \E b \in {"SAVE", "SUBMIT"} : Save(x, b)
         \/ \E b \in {"APPROVE", "REJECT", "REOPEN", "DELETE"} : Act(x, b)
  PROVE  PageMoved(x) /\ (page[x].saving # "NONE" => page'[x].saving # "NONE")
<1>1. PICK p : p = page[x]
  OBVIOUS
<1>2. /\ page = [y \in Pages |-> page[y]] /\ ShapedPage(p)
      /\ p.pc = "ready" /\ p.sheet # NoSheet /\ p.user \in Users
      /\ p.saving \in {"NONE", "SAVE", "SUBMIT"}
      /\ p.acting \in {"NONE", "SUBMIT", "APPROVE", "REJECT", "REOPEN", "DELETE"}
      /\ p.saving # "NONE" => Fitting(p, p.sent)
      /\ Fitting(p, p.rows)
  BY <1>1, PageFacts DEF Save, Act
<1>3. sheet' = sheet
  BY DEF Save, Act, tsVars
<1>4. ASSUME NEW b \in {"SAVE", "SUBMIT"}, Save(x, b)
      PROVE  PageMoved(x) /\ page'[x].saving = b
  <2>1. PICK q : q = [p EXCEPT !.saving = b, !.sent = p.rows]
    OBVIOUS
  <2>2. page' = [page EXCEPT ![x] = q]
    BY <1>1, <1>2, <1>4, <2>1 DEF Save, ShapedPage
  <2>3. Turned(p, q, "ready", p.rows, b, p.rows, p.acting)
    BY <1>2, <2>1 DEF Turned, ShapedPage
  <2>4. MayTurn(p, "ready", p.rows, b, p.rows, p.acting)
    BY <1>2 DEF MayTurn
  <2>5. Turns(page[x], q)
    BY <1>1, <2>3, <2>4 DEF Turns
  <2>6. PageMoved(x) /\ page'[x] = q
    BY <1>3, <2>2, <2>5, PageTurns
  <2>. QED BY <2>3, <2>6 DEF Turned
<1>5. ASSUME NEW b \in {"APPROVE", "REJECT", "REOPEN", "DELETE"}, Act(x, b)
      PROVE  PageMoved(x) /\ page'[x].saving = p.saving
  <2>1. PICK q : q = [p EXCEPT !.acting = b]
    OBVIOUS
  <2>2. page' = [page EXCEPT ![x] = q]
    BY <1>1, <1>2, <1>5, <2>1 DEF Act, ShapedPage
  <2>3. Turned(p, q, "ready", p.rows, p.saving, p.sent, b)
    BY <1>2, <2>1 DEF Turned, ShapedPage
  <2>4. MayTurn(p, "ready", p.rows, p.saving, p.sent, b)
    BY <1>2 DEF MayTurn
  <2>5. Turns(page[x], q)
    BY <1>1, <2>3, <2>4 DEF Turns
  <2>6. PageMoved(x) /\ page'[x] = q
    BY <1>3, <2>2, <2>5, PageTurns
  <2>. QED BY <2>3, <2>6 DEF Turned
<1>. QED BY <1>1, <1>4, <1>5

\* A page has just been told that its save was accepted.
Accepted(x) ==
  /\ page[x].saving # "NONE" /\ page'[x].saving = "NONE"
  /\ page'[x].pc = "loading" \/ page'[x].acting = "SUBMIT"
  /\ page[x].acting = "NONE"

\* A page's save, carried out, is a request of the workflow.
LEMMA SaveIsRequest ==
  ASSUME ScreenInv, NEW x \in Pages, page[x].saving # "NONE",
         Update(page[x].user, page[x].sent)
  PROVE  /\ page[x].user \in Users
         /\ Request(page[x].user)
         /\ SheetKept
<1>1. PICK p : p = page[x]
  OBVIOUS
<1>2. /\ Fitting(p, p.sent) /\ p.user \in Users /\ p.sheet # NoSheet
      /\ PageSound(p, sheet)
  BY <1>1, PageFacts
<1>3. sheet.status # "NONE"
  BY <1>1 DEF Update, InScope
<1>4. p.user = sheet.owner => Staffed(SitesForUser(p.user), p.sent)
  BY <1>2, <1>3 DEF Fitting, PageSound
<1>5. Few(Keys, Row \cup Line, p.sent)
  BY <1>2 DEF Fitting, Few
<1>. QED BY <1>1, <1>2, <1>4, <1>5, UpdateWrites

\* Answers to a save.
LEMMA SaveAnswered ==
  ASSUME ScreenInv, NEW x \in Pages, SaveAccepted(x) \/ SaveUnheard(x) \/ SaveFails(x)
  PROVE  /\ PageMoved(x)
         /\ UNCHANGED tsVars \/ (page[x].user \in Users /\ Request(page[x].user) /\ SheetKept)
         /\ Accepted(x) => SaveAccepted(x)
<1>1. PICK p : p = page[x]
  OBVIOUS
<1>2. p.saving # "NONE"
  BY <1>1 DEF SaveAccepted, SaveUnheard, SaveFails
<1>3. /\ page = [y \in Pages |-> page[y]] /\ ShapedPage(p)
      /\ p.pc = "ready" /\ p.sheet # NoSheet /\ p.user \in Users
      /\ p.acting \in {"NONE", "SUBMIT", "APPROVE", "REJECT", "REOPEN", "DELETE"}
      /\ Fitting(p, p.rows)
      /\ NoRows \in {p.sent, NoRows}
  BY <1>1, <1>2, PageFacts
<1>4. UNCHANGED tsVars \/ (p.user \in Users /\ Request(p.user) /\ SheetKept)
  BY <1>1, <1>2, SaveIsRequest DEF SaveAccepted, SaveUnheard, SaveFails
<1>5. SheetKept \/ sheet' = sheet
  BY <1>4 DEF tsVars
<1>6. ASSUME NEW pc \in {"loading", "ready"},
             NEW acting \in {"NONE", "SUBMIT", "APPROVE", "REJECT", "REOPEN", "DELETE"},
             NEW q, Turned(p, q, pc, p.rows, "NONE", NoRows, acting),
             page' = [page EXCEPT ![x] = q]
      PROVE  PageMoved(x) /\ page'[x].pc = pc /\ page'[x].acting = acting
  <2>1. MayTurn(p, pc, p.rows, "NONE", NoRows, acting)
    BY <1>3 DEF MayTurn
  <2>2. Turns(page[x], q)
    BY <1>1, <1>6, <2>1 DEF Turns
  <2>3. PageMoved(x) /\ page'[x] = q
    BY <1>5, <1>6, <2>2, PageTurns
  <2>. QED BY <1>6, <2>3 DEF Turned
<1>7. CASE SaveAccepted(x)
  <2>1. PICK pc, acting : /\ pc = IF p.saving = "SAVE" THEN "loading" ELSE p.pc
                          /\ acting = IF p.saving = "SUBMIT" THEN "SUBMIT" ELSE p.acting
    OBVIOUS
  <2>2. PICK q : q = [p EXCEPT !.pc = pc, !.acting = acting, !.saving = "NONE", !.sent = NoRows]
    OBVIOUS
  <2>3. page' = [page EXCEPT ![x] = q]
    BY <1>1, <1>7, <2>1, <2>2 DEF SaveAccepted
  <2>4. Turned(p, q, pc, p.rows, "NONE", NoRows, acting)
    BY <1>3, <2>2 DEF Turned, ShapedPage
  <2>5. /\ pc \in {"loading", "ready"}
        /\ acting \in {"NONE", "SUBMIT", "APPROVE", "REJECT", "REOPEN", "DELETE"}
    BY <1>3, <2>1
  <2>6. PageMoved(x)
    BY <1>6, <2>3, <2>4, <2>5
  <2>. QED BY <1>1, <1>4, <1>7, <2>6
<1>8. CASE SaveUnheard(x) \/ SaveFails(x)
  <2>1. PICK q : q = [p EXCEPT !.saving = "NONE", !.sent = NoRows]
    OBVIOUS
  <2>2. page' = [page EXCEPT ![x] = q]
    BY <1>1, <1>8, <2>1 DEF SaveUnheard, SaveFails
  <2>3. Turned(p, q, "ready", p.rows, "NONE", NoRows, p.acting)
    BY <1>3, <2>1 DEF Turned, ShapedPage
  <2>4. p.acting \in {"NONE", "SUBMIT", "APPROVE", "REJECT", "REOPEN", "DELETE"}
    BY <1>3
  <2>5. PageMoved(x) /\ page'[x].pc = "ready" /\ page'[x].acting = p.acting
    BY <1>6, <2>2, <2>3, <2>4
  <2>. QED BY <1>1, <1>4, <2>5 DEF Accepted
<1>. QED BY <1>7, <1>8

\* Answers to a button.
LEMMA ActAnswered ==
  ASSUME ScreenInv, NEW x \in Pages, Performed(x) \/ PerformedUnheard(x) \/ ActFails(x)
  PROVE  /\ PageMoved(x)
         /\ UNCHANGED tsVars \/ (page[x].user \in Users /\ Request(page[x].user) /\ SheetKept)
         /\ page[x].acting # "NONE"
<1>1. PICK p : p = page[x]
  OBVIOUS
<1>2. p.acting # "NONE"
  BY <1>1 DEF Performed, PerformedUnheard, ActFails
<1>3. /\ page = [y \in Pages |-> page[y]] /\ ShapedPage(p) /\ PageOK(p)
      /\ p.user \in Users /\ PageSound(p, sheet)
      /\ p.pc \in {"closed", "loading", "ready"}
      /\ p.saving \in {"NONE", "SAVE", "SUBMIT"}
      /\ p.saving # "NONE" => p.pc = "ready" /\ Fitting(p, p.sent)
      /\ p.pc = "ready" => p.sheet # NoSheet
      /\ p.acting \in {"SUBMIT", "APPROVE", "REJECT", "REOPEN", "DELETE"}
      /\ Fitting(p, p.rows)
      /\ NoRows \in {p.sent, NoRows}
  BY <1>1, <1>2, PageFacts
<1>4. UNCHANGED tsVars \/ (Request(p.user) /\ SheetKept)
  BY <1>1, <1>3, PerformWrites DEF Performed, PerformedUnheard, ActFails
<1>5. SheetKept \/ sheet' = sheet
  BY <1>4 DEF tsVars
<1>6. CASE Performed(x)
  <2>1. ASSUME p.acting = "DELETE" PROVE PageMoved(x)
    <3>1. page' = [page EXCEPT ![x] = Closed]
      BY <1>1, <1>6, <2>1 DEF Performed
    <3>2. PagesSound /\ ShapedPage(Closed) /\ PageOK(Closed) /\ PageSound(Closed, sheet')
      BY ClosedIsSound DEF ScreenInv
    <3>. QED BY <3>1, <3>2, OnePageMoves
  <2>2. ASSUME p.acting # "DELETE" PROVE PageMoved(x)
    <3>1. PICK q : q = [p EXCEPT !.pc = "loading", !.acting = "NONE", !.saving = "NONE",
                                 !.sent = NoRows]
      OBVIOUS
    <3>2. page' = [page EXCEPT ![x] = q]
      BY <1>1, <1>6, <2>2, <3>1 DEF Performed
    <3>3. Turned(p, q, "loading", p.rows, "NONE", NoRows, "NONE")
      BY <1>3, <3>1 DEF Turned, ShapedPage
    <3>4. MayTurn(p, "loading", p.rows, "NONE", NoRows, "NONE")
      BY <1>3 DEF MayTurn
    <3>5. Turns(page[x], q)
      BY <1>1, <3>3, <3>4 DEF Turns
    <3>. QED BY <1>5, <3>2, <3>5, PageTurns
  <2>. QED BY <1>1, <1>2, <1>3, <1>4, <2>1, <2>2
<1>7. CASE PerformedUnheard(x) \/ ActFails(x)
  <2>1. PICK q : q = [p EXCEPT !.acting = "NONE"]
    OBVIOUS
  <2>2. page' = [page EXCEPT ![x] = q]
    BY <1>1, <1>3, <1>7, <2>1 DEF PerformedUnheard, ActFails, ShapedPage
  <2>3. Turned(p, q, p.pc, p.rows, p.saving, p.sent, "NONE")
    BY <1>3, <2>1 DEF Turned, ShapedPage
  <2>4. PagesSound /\ PageSound(p, sheet')
    BY <1>3, <1>5, SoundAfterRequest DEF ScreenInv
  <2>5. \A t : Follows(q, t) <=> Follows(p, t)
    BY <2>3 DEF Turned, Follows
  <2>6. ShapedPage(q) /\ PageOK(q) /\ PageSound(q, sheet')
    BY <1>3, <2>3, <2>4, <2>5 DEF Turned, PageOK, PageSound
  <2>7. PageMoved(x)
    BY <2>2, <2>4, <2>6, OnePageMoves
  <2>. QED BY <1>1, <1>2, <1>3, <1>4, <2>7
<1>. QED BY <1>6, <1>7

\* What is done in other windows.
LEMMA ElsewhereIsRequest ==
  ASSUME ScreenInv, Elsewhere
  PROVE  (\E u \in active : Request(u)) /\ SheetKept /\ page' = page
<1>1. active = Users /\ Few(LineIds, Line, lines) /\ Staffed(SitesForUser(sheet.owner), lines)
  BY DEF ScreenInv, LinesStaffed
<1>2. ASSUME NEW u \in active, NEW b \in {"SUBMIT", "APPROVE", "REJECT", "REOPEN", "DELETE"},
             Perform(u, b)
      PROVE  (\E v \in active : Request(v)) /\ SheetKept
  BY <1>1, <1>2, PerformWrites
<1>3. ASSUME NEW l \in DOMAIN lines, NEW h \in Hours,
             Update(sheet.owner, [lines EXCEPT ![l].hours = h])
      PROVE  (\E v \in active : Request(v)) /\ SheetKept
  <2>1. PICK row, rows : row = [lines[l] EXCEPT !.hours = h] /\ rows = [lines EXCEPT ![l] = row]
    OBVIOUS
  <2>2. lines \in [DOMAIN lines -> Line] /\ lines[l] \in Line
    BY <1>1 DEF Few
  <2>3. row \in Line /\ row.site = lines[l].site
    BY <2>1, <2>2 DEF Line
  <2>4. /\ DOMAIN rows = DOMAIN lines
        /\ rows \in [DOMAIN rows -> Row \cup Line]
        /\ \A k \in DOMAIN rows : rows[k].site = lines[k].site
    BY <2>1, <2>2, <2>3
  <2>5. Few(Keys, Row \cup Line, rows) /\ Staffed(SitesForUser(sheet.owner), rows)
    BY <1>1, <2>4 DEF Few, Staffed, Keys
  <2>6. Update(sheet.owner, rows)
    BY <1>3, <2>1
  <2>7. sheet.owner \in Users
    BY <2>6 DEF Update, InScope, ScreenInv, IInv, TypeInv, SheetIsOwned
  <2>. QED BY <1>1, <2>5, <2>6, <2>7, UpdateWrites
<1>. QED BY <1>2, <1>3 DEF Elsewhere

---------------------------------------------------------------------------
(* The step of a page, and the theorems.                                   *)

\* What one step of the pages does: one request of the workflow or none, one page
\* or none; only an accepted save says that it was accepted.
LEMMA ScreenStep ==
  ASSUME ScreenInv, ScreenNext
  PROVE  /\ [Next]_vars
         /\ SheetKept \/ UNCHANGED tsVars
         /\ page' = page \/ \E x \in Pages : PageMoved(x)
         /\ \A x \in Pages : Accepted(x) => SaveAccepted(x)
<1>1. active = Users /\ UNCHANGED orgVars
  BY DEF ScreenInv, ScreenNext
<1>2. ASSUME UNCHANGED tsVars \/ ((\E u \in active : Request(u)) /\ SheetKept)
      PROVE  [Next]_vars /\ (SheetKept \/ UNCHANGED tsVars)
  BY <1>1, <1>2 DEF Next, vars
<1>3. ASSUME NEW x \in Pages, PageMoved(x), Accepted(x) => SaveAccepted(x)
      PROVE  \A y \in Pages : Accepted(y) => SaveAccepted(y)
  <2>1. \A y \in Pages : y # x => page'[y] = page[y]
    BY <1>3 DEF PageMoved
  <2>. QED BY <1>3, <2>1 DEF Accepted
<1>4. CASE Elsewhere
  <2>1. page' = page
    BY <1>4, ElsewhereIsRequest
  <2>2. \A y \in Pages : ~Accepted(y)
    BY <2>1 DEF Accepted
  <2>. QED BY <1>2, <1>4, <2>1, <2>2, ElsewhereIsRequest
<1>5. ASSUME NEW x \in Pages, PageMoved(x), Accepted(x) => SaveAccepted(x),
             UNCHANGED tsVars \/ (page[x].user \in Users /\ Request(page[x].user) /\ SheetKept)
      PROVE  /\ [Next]_vars
             /\ SheetKept \/ UNCHANGED tsVars
             /\ page' = page \/ \E y \in Pages : PageMoved(y)
             /\ \A y \in Pages : Accepted(y) => SaveAccepted(y)
  BY <1>1, <1>2, <1>3, <1>5
<1>6. ASSUME NEW x \in Pages,
             (\E u \in active : Open(x, u)) \/ Load(x) \/ LoadFails(x) \/ ListsArrive(x) \/ Leave(x)
      PROVE  PageMoved(x) /\ ~Accepted(x) /\ UNCHANGED tsVars
  <2>1. PageMoved(x)
    BY <1>6, LoadingIsSound
  <2>2. UNCHANGED tsVars
    BY <1>6 DEF Open, Load, LoadFails, ListsArrive, Leave
  <2>3. page[x].saving # "NONE" => page[x].pc = "ready"
    BY PageFacts
  <2>4. page[x].pc \in {"loading", "closed"} \/ ListsArrive(x) \/ page[x].saving = "NONE"
    BY <1>6 DEF Open, Load, LoadFails, Leave
  <2>5. ASSUME ListsArrive(x)
        PROVE  page'[x].saving = page[x].saving
    <3>1. PICK p, rows, q : /\ p = page[x]
                            /\ rows = RowsOf(p.user, p.sheet, p.lines)
                            /\ q = [[p EXCEPT !.lists = TRUE] EXCEPT !.rows = rows]
      OBVIOUS
    <3>2. page = [y \in Pages |-> page[y]] /\ ShapedPage(p)
      BY <3>1, PageFacts
    <3>3. page' = [page EXCEPT ![x] = q]
      BY <2>5, <3>1, <3>2 DEF ListsArrive
    <3>4. q.saving = p.saving
      BY <3>1, <3>2 DEF ShapedPage
    <3>. QED BY <3>1, <3>2, <3>3, <3>4
  <2>. QED BY <2>1, <2>2, <2>3, <2>4, <2>5 DEF Accepted
<1>7. ASSUME NEW x \in Pages,
             \/ \E r \in DOMAIN page[x].rows, h \in Hours : SetHours(x, r, h)
             \/ \E r \in DOMAIN page[x].rows, s \in Sites \cup {NoSite} : SetSite(x, r, s)
             \/ AddRow(x)
             \/ \E r \in DOMAIN page[x].rows : RemoveRow(x, r)
      PROVE  PageMoved(x) /\ ~Accepted(x) /\ UNCHANGED tsVars
  <2>1. UNCHANGED tsVars
    BY <1>7 DEF SetHours, SetSite, AddRow, RemoveRow, Types
  <2>. QED BY <1>7, <2>1, EditingIsSound DEF Accepted
<1>8. ASSUME NEW x \in Pages,
             \/ \E b \in {"SAVE", "SUBMIT"} : Save(x, b)
             \/ \E b \in {"APPROVE", "REJECT", "REOPEN", "DELETE"} : Act(x, b)
      PROVE  PageMoved(x) /\ ~Accepted(x) /\ UNCHANGED tsVars
  <2>1. UNCHANGED tsVars
    BY <1>8 DEF Save, Act
  <2>. QED BY <1>8, <2>1, SendingIsSound DEF Accepted
<1>9. ASSUME NEW x \in Pages, SaveAccepted(x) \/ SaveUnheard(x) \/ SaveFails(x)
      PROVE  /\ PageMoved(x) /\ (Accepted(x) => SaveAccepted(x))
             /\ UNCHANGED tsVars \/ (page[x].user \in Users /\ Request(page[x].user) /\ SheetKept)
  BY <1>9, SaveAnswered
<1>10. ASSUME NEW x \in Pages, Performed(x) \/ PerformedUnheard(x) \/ ActFails(x)
       PROVE  /\ PageMoved(x) /\ ~Accepted(x)
              /\ UNCHANGED tsVars \/ (page[x].user \in Users /\ Request(page[x].user) /\ SheetKept)
  BY <1>10, ActAnswered DEF Accepted
<1>11. ASSUME NEW x \in Pages, Answered(x)
       PROVE  /\ PageMoved(x) /\ (Accepted(x) => SaveAccepted(x))
              /\ UNCHANGED tsVars \/ (page[x].user \in Users /\ Request(page[x].user) /\ SheetKept)
  BY <1>6, <1>9, <1>10, <1>11 DEF Answered
<1>. QED
  <2>1. CASE \E x \in Pages : Answered(x)
    BY <2>1, <1>5, <1>11
  <2>2. CASE \E x \in Pages :
               (\E u \in active : Open(x, u)) \/ Load(x) \/ LoadFails(x) \/ ListsArrive(x) \/ Leave(x)
    BY <2>2, <1>5, <1>6
  <2>3. CASE \E x \in Pages :
               \/ \E r \in DOMAIN page[x].rows, h \in Hours : SetHours(x, r, h)
               \/ \E r \in DOMAIN page[x].rows, s \in Sites \cup {NoSite} : SetSite(x, r, s)
               \/ AddRow(x)
               \/ \E r \in DOMAIN page[x].rows : RemoveRow(x, r)
    BY <2>3, <1>5, <1>7
  <2>4. CASE \E x \in Pages :
               \/ \E b \in {"SAVE", "SUBMIT"} : Save(x, b)
               \/ \E b \in {"APPROVE", "REJECT", "REOPEN", "DELETE"} : Act(x, b)
    BY <2>4, <1>5, <1>8
  <2>. QED BY <1>4, <2>1, <2>2, <2>3, <2>4 DEF ScreenNext

\* The invariant holds at the start,
LEMMA ScreenInitInv ==
  ASSUME ScreenInit, FilledOnThePage
  PROVE  ScreenInv
<1>1. active = Users
  BY DEF ScreenInit, OrgInit, active
<1>2. page = [x \in Pages |-> Closed]
  BY DEF ScreenInit
<1>3. PagesSound
  BY <1>2, ClosedIsSound DEF PagesSound
<1>. QED BY <1>1, <1>3 DEF ScreenInv, FilledOnThePage

\* and every step of the pages keeps it.
LEMMA ScreenStepInv ==
  ASSUME ScreenInv, [ScreenNext]_screen
  PROVE  ScreenInv'
<1>1. CASE ScreenNext
  <2>0. IInv /\ active = Users /\ LinesStaffed /\ PagesSound
    BY DEF ScreenInv
  <2>1. /\ [Next]_vars /\ (SheetKept \/ UNCHANGED tsVars)
        /\ page' = page \/ \E x \in Pages : PageMoved(x)
    BY <1>1, ScreenStep
  <2>2. IInv'
    BY <2>0, <2>1, StepInv
  <2>3. UNCHANGED orgVars
    BY <1>1 DEF ScreenNext
  <2>4. active' = Users
    BY <2>0, <2>3, AnswersStay
  <2>5. LinesStaffed'
    BY <2>0, <2>1, <2>3, AnswersStay DEF SheetKept, LinesStaffed, tsVars
  <2>6. ASSUME NEW y \in Pages
        PROVE  ShapedPage(page'[y]) /\ PageOK(page'[y]) /\ PageSound(page'[y], sheet')
    <3>1. ShapedPage(page[y]) /\ PageOK(page[y]) /\ PageSound(page[y], sheet')
      BY <2>0, <2>1, SoundAfterRequest DEF PagesSound, tsVars
    <3>. QED BY <2>1, <3>1 DEF PageMoved
  <2>7. page' = [y \in Pages |-> page'[y]]
    BY <2>0, <2>1 DEF PageMoved, PagesSound
  <2>8. \A p, sh : PageSound(p, sh)' <=> PageSound(p, sh)
    BY <2>3, SoundnessStays
  <2>9. PagesSound'
    BY <2>6, <2>7, <2>8 DEF PagesSound, ShapedPage, PageOK
  <2>. QED BY <2>2, <2>4, <2>5, <2>9 DEF ScreenInv
<1>2. CASE UNCHANGED screen
  <2>1. UNCHANGED <<tsVars, orgVars, page>>
    BY <1>2 DEF screen, vars, screenVars
  <2>2. IInv'
    BY <2>1, StepInv DEF ScreenInv, vars
  <2>3. active' = Users /\ LinesStaffed'
    BY <2>1, AnswersStay DEF ScreenInv, LinesStaffed, tsVars
  <2>4. \A p, sh : PageSound(p, sh)' <=> PageSound(p, sh)
    BY <2>1, SoundnessStays
  <2>5. PagesSound'
    BY <2>1, <2>4 DEF ScreenInv, PagesSound, ShapedPage, PageOK, tsVars
  <2>. QED BY <2>2, <2>3, <2>5 DEF ScreenInv
<1>. QED BY <1>1, <1>2

LEMMA ScreenInvHolds == ScreenSpec /\ FilledOnThePage => []ScreenInv
<1>1. ScreenInit /\ FilledOnThePage => ScreenInv
  BY ScreenInitInv
<1>2. ScreenInv /\ [ScreenNext]_screen => ScreenInv'
  BY ScreenStepInv
<1>. QED BY <1>1, <1>2, PTL DEF ScreenSpec

\* Whatever its pages send, the sheet goes through the workflow: every step of the
\* pages is a request of TimesheetWorkflow, or leaves the sheet alone
\* (timesheet-grid.tsx has no other way to the sheet than timesheets.service.ts).
THEOREM PagesFollowTheWorkflow == ScreenSpec /\ FilledOnThePage => [][Next]_vars
<1>1. ScreenInv /\ [ScreenNext]_screen => [Next]_vars
  BY ScreenStep DEF screen
<1>. QED BY <1>1, ScreenInvHolds, PTL DEF ScreenSpec

\* Who has a stage has a line that waits for him: its status is not that of a draft,
\* he directs its site, and he is the chief of it unless the line waits for its manager.
LEMMA StageMeansLine ==
  ASSUME NEW u, NEW o, NEW ls, ApprovalStage(u, o, ls) # "NONE"
  PROVE  \E l \in DOMAIN ls :
           /\ ls[l].status # "DRAFT"
           /\ ls[l].site # NoSite
           /\ u \in {ManagerOf(ls[l].site), ChiefOf(ls[l].site)}
<1>1. CASE ApprovalStage(u, o, ls) = "SITE"
  <2>1. PICK l \in DOMAIN ls : SiteDecidable(u, o, ls[l])
    BY <1>1, SiteStageFacts
  <2>. QED BY <2>1 DEF SiteDecidable, ManagesLine
<1>2. CASE ApprovalStage(u, o, ls) = "PROJECT"
  <2>1. PICK l \in DOMAIN ls : ProjectDecidable(u, o, ls[l])
    BY <1>2, ProjectStageFacts
  <2>2. ls[l].site # NoSite
    BY <2>1 DEF ProjectDecidable, ProjectOf
  <2>. QED BY <2>1, <2>2 DEF ProjectDecidable
<1>. QED BY <1>1, <1>2, StageFacts

\* He who directs a site is in charge of those who work on it, and the chief of the
\* manager, too.
LEMMA DirectorsTeam ==
  ASSUME OrgTypeOK, NEW u \in Users, NEW o \in Users, u # o, NEW s \in Sites,
         site[s].state = "open", u \in {ManagerOf(s), ChiefOf(s)},
         o \in assigned[s] \/ (o = ManagerOf(s) /\ u = ChiefOf(s))
  PROVE  o \in ManagedUsers(u)
<1>1. CASE role[u] \in Unrestricted
  BY <1>1 DEF ManagedUsers
<1>2. CASE role[u] \notin Unrestricted
  <2>1. s \in DirectedSites(u)
    BY DEF DirectedSites
  <2>2. CASE o \in assigned[s]
    <3>1. o \in StaffOf(s)
      BY <2>2 DEF StaffOf
    <3>. QED BY <1>2, <2>1, <3>1 DEF ManagedUsers
  <2>3. CASE o = ManagerOf(s) /\ u = ChiefOf(s)
    <3>1. o # NoUser
      BY OrganisationAssumption
    <3>. QED BY <1>2, <2>1, <2>3, <3>1 DEF ManagedUsers
  <2>. QED BY <2>2, <2>3
<1>. QED BY <1>1, <1>2

\* Who must act can open the page, for every tenant: the lines of a sheet filled in on
\* the page name only sites where its owner works, or which he directs, and whoever
\* validates there has him in his team.
THEOREM WhoMustActCanOpen == ScreenSpec /\ FilledOnThePage => []ValidatorsCanOpen
<1>1. ASSUME ScreenInv PROVE ValidatorsCanOpen
  <2>. SUFFICES ASSUME RoutingIsSound, NEW u \in active,
                       ApprovalStage(u, sheet.owner, lines) # "NONE"
                PROVE  InScope(u, sheet)
    BY DEF ValidatorsCanOpen
  <2>0. IInv /\ LinesStaffed
    BY <1>1 DEF ScreenInv
  <2>1. PICK l \in DOMAIN lines : /\ lines[l].status # "DRAFT"
                                  /\ lines[l].site # NoSite
                                  /\ u \in {ManagerOf(lines[l].site), ChiefOf(lines[l].site)}
    BY StageMeansLine
  <2>2. PICK s : s = lines[l].site
    OBVIOUS
  <2>3. sheet.status # "NONE" /\ sheet.status # "DRAFT"
    <3>1. SheetMatchesLines /\ sheet.status \in SheetStatus \cup {"NONE"}
      BY <2>0 DEF IInv, TypeInv, TSTypeOK, Sheet
    <3>2. /\ sheet.status = "NONE" => lines = NoLines
          /\ Agrees(sheet.status, LineStatuses)
      BY <3>1, MatchesMeansAgrees
    <3>3. DOMAIN NoLines = {}
      BY DEF NoLines
    <3>4. lines[l].status \in LineStatuses
      BY DEF LineStatuses
    <3>. QED BY <2>1, <3>2, <3>3, <3>4 DEF Agrees, Editable
  <2>4. sheet.owner \in Users
    BY <2>0, <2>3 DEF IInv, TypeInv, SheetIsOwned
  <2>5. u # sheet.owner /\ u \in Users
    BY StageFacts DEF active
  <2>6. s \in SitesForUser(sheet.owner)
    BY <2>0, <2>1, <2>2 DEF LinesStaffed, Staffed
  <2>7. /\ s \in Sites /\ site[s].state = "open"
        /\ sheet.owner \in assigned[s] \/ sheet.owner \in {ManagerOf(s), ChiefOf(s)}
    BY <2>6 DEF SitesForUser, OpenSites
  <2>8. ChiefOf(s) # sheet.owner
    BY <2>2 DEF RoutingIsSound
  <2>9. OrgTypeOK
    BY <2>0 DEF IInv, TypeInv
  <2>10. sheet.owner \in ManagedUsers(u)
    BY <2>1, <2>2, <2>4, <2>5, <2>7, <2>8, <2>9, DirectorsTeam
  <2>. QED BY <2>3, <2>10 DEF InScope
<1>. QED BY <1>1, ScreenInvHolds, PTL

\* Two tables that correspond one to one have the same rows.
LEMMA SameRows ==
  ASSUME NEW rows, IsFiniteSet(DOMAIN rows), NEW ls, NEW f \in [DOMAIN rows -> DOMAIN ls],
         \A q, r \in DOMAIN rows : f[q] = f[r] => q = r,
         \A l \in DOMAIN ls : \E r \in DOMAIN rows : f[r] = l,
         \A r \in DOMAIN rows : ls[f[r]].site = rows[r].site /\ ls[f[r]].hours = rows[r].hours
  PROVE  SameLines(rows, ls)
<1>. SUFFICES ASSUME NEW s \in Sites \cup {NoSite}, NEW h \in Hours
              PROVE  Cardinality({r \in DOMAIN rows : rows[r].site = s /\ rows[r].hours = h}) =
                     Cardinality({l \in DOMAIN ls : ls[l].site = s /\ ls[l].hours = h})
  BY DEF SameLines
<1>1. PICK A, B : /\ A = {r \in DOMAIN rows : rows[r].site = s /\ rows[r].hours = h}
                  /\ B = {l \in DOMAIN ls : ls[l].site = s /\ ls[l].hours = h}
  OBVIOUS
<1>2. PICK g : g = [r \in A |-> f[r]]
  OBVIOUS
<1>3. g \in [A -> B]
  BY <1>1, <1>2
<1>4. \A q, r \in A : g[q] = g[r] => q = r
  BY <1>1, <1>2
<1>5. \A l \in B : \E r \in A : g[r] = l
  BY <1>1, <1>2
<1>6. g \in Bijection(A, B)
  BY <1>3, <1>4, <1>5 DEF Bijection, Injection, IsInjective, Surjection
<1>7. IsFiniteSet(A)
  BY <1>1, FS_Subset
<1>8. Cardinality(B) = Cardinality(A)
  BY <1>6, <1>7, FS_Bijection DEF ExistsBijection
<1>. QED BY <1>1, <1>8

\* What the owner sends to a draft replaces its lines.
LEMMA OwnersRowsAreStored ==
  ASSUME ScreenInv, NEW x \in Pages, SaveAccepted(x), page[x].user = sheet.owner
  PROVE  SameLines(page[x].sent, lines')
<1>1. PICK rows : rows = page[x].sent
  OBVIOUS
<1>2. page[x].saving # "NONE" /\ Update(page[x].user, rows)
  BY <1>1 DEF SaveAccepted
<1>3. Fitting(page[x], rows)
  BY <1>1, <1>2, PageFacts
<1>4. Few(Keys, Row, rows)
  BY <1>3 DEF Fitting
<1>5. Few(Keys, Row \cup Line, rows) /\ IsFiniteSet(DOMAIN rows)
  BY <1>4 DEF Few
<1>6. sheet.status \in Editable
  BY <1>2 DEF Update, CanUpdate
<1>7. lines' = Inserted(rows)
  BY <1>2, <1>6 DEF Update, ReplaceLines
<1>8. PICK f \in [DOMAIN rows -> LineIds] :
        /\ \A q, r \in DOMAIN rows : f[q] = f[r] => q = r
        /\ DOMAIN Inserted(rows) = {f[r] : r \in DOMAIN rows}
        /\ \A r \in DOMAIN rows : Inserted(rows)[f[r]] = NewLine(rows[r].site, rows[r].hours)
  BY <1>5, InsertedFacts
<1>9. \A s, h : NewLine(s, h).site = s /\ NewLine(s, h).hours = h
  BY DEF NewLine
<1>10. PICK ls : ls = lines'
  OBVIOUS
<1>11. /\ \A l \in DOMAIN ls : \E r \in DOMAIN rows : f[r] = l
       /\ f \in [DOMAIN rows -> DOMAIN ls]
       /\ \A r \in DOMAIN rows : ls[f[r]].site = rows[r].site /\ ls[f[r]].hours = rows[r].hours
  BY <1>7, <1>8, <1>9, <1>10
<1>12. SameLines(rows, ls)
  BY <1>5, <1>8, <1>11, SameRows
<1>. QED BY <1>1, <1>10, <1>12

\* What a validator sends to the sheet he sees changes what his page let him change.
LEMMA ValidatorsRowsAreStored ==
  ASSUME ScreenInv, NEW x \in Pages, SaveAccepted(x), page[x].user # sheet.owner,
         sheet.status \notin Editable, page[x].sheet = sheet, page[x].lines = lines
  PROVE  SameLines(page[x].sent, lines')
<1>1. PICK p, rows, u : p = page[x] /\ rows = p.sent /\ u = p.user
  OBVIOUS
<1>2. p.saving # "NONE" /\ Update(u, rows)
  BY <1>1 DEF SaveAccepted
<1>3. sheet # NoSheet /\ sheet.status # "APPROVED"
  BY <1>2 DEF Update, CanUpdate, InScope, NoSheet
<1>4. Fitting(p, rows) /\ Follows(p, rows)
  BY <1>1, <1>2, <1>3, PageFacts DEF Fitting
<1>5. PICK mine : mine = DOMAIN rows \cap EditableLines(u, sheet, lines)
  OBVIOUS
<1>6. PICK edits : edits = [l \in mine |-> rows[l].hours]
  OBVIOUS
<1>7. EditLines(u, edits)
  BY <1>1, <1>2, <1>5, <1>6 DEF Update
<1>8. lines' = [l \in DOMAIN lines |->
                  IF l \in DOMAIN edits THEN Corrected(lines[l], edits[l]) ELSE lines[l]]
  BY <1>7 DEF EditLines
<1>9. DOMAIN rows = DOMAIN lines /\ DOMAIN lines' = DOMAIN lines
  BY <1>1, <1>4, <1>8 DEF Follows
<1>10. ASSUME NEW l \in DOMAIN rows
       PROVE  lines'[l].site = rows[l].site /\ lines'[l].hours = rows[l].hours
  <2>1. lines[l] \in Line /\ rows[l].hours \in Hours
    BY <1>4, <1>9 DEF ScreenInv, LinesStaffed, Fitting, Few, Row
  <2>2. rows[l].site = lines[l].site
    BY <1>1, <1>4 DEF Follows
  <2>3. CASE l \in mine
    <3>1. lines'[l] = Corrected(lines[l], rows[l].hours)
      BY <1>6, <1>8, <1>9, <2>3
    <3>. QED BY <2>1, <2>2, <3>1, CorrectedFacts
  <2>4. CASE l \notin mine
    <3>1. lines'[l] = lines[l]
      BY <1>6, <1>8, <1>9, <2>4
    <3>2. ~CanEditLine(u, sheet.owner, lines[l])
      BY <1>3, <1>5, <1>9, <2>4 DEF EditableLines
    <3>3. rows[l].hours = lines[l].hours
      BY <1>1, <1>4, <3>2 DEF Follows
    <3>. QED BY <2>2, <3>1, <3>3
  <2>. QED BY <2>3, <2>4
<1>11. PICK f, ls : f = [l \in DOMAIN rows |-> l] /\ ls = lines'
  OBVIOUS
<1>12. /\ f \in [DOMAIN rows -> DOMAIN ls]
       /\ \A q, r \in DOMAIN rows : f[q] = f[r] => q = r
       /\ \A l \in DOMAIN ls : \E r \in DOMAIN rows : f[r] = l
       /\ \A r \in DOMAIN rows : ls[f[r]].site = rows[r].site /\ ls[f[r]].hours = rows[r].hours
  BY <1>9, <1>10, <1>11
<1>13. IsFiniteSet(DOMAIN rows)
  BY <1>4 DEF Fitting, Few
<1>14. SameLines(rows, ls)
  BY <1>12, <1>13, SameRows
<1>. QED BY <1>1, <1>11, <1>14

\* What a page says is saved is stored, row for row, for any number of pages: the
\* owner's rows get identifiers of their own, and a validator's page lets him type
\* nothing that the server would pass over.
THEOREM WhatIsSavedIsStored == ScreenSpec /\ FilledOnThePage => AcceptedIsStored
<1>. DEFINE Heeded(x) == page[x].user = sheet.owner
                           \/ /\ sheet.status \notin Editable
                              /\ page[x].sheet = sheet /\ page[x].lines = lines
            Stored == \A x \in Pages :
                        LET p == page[x]
                            accepted == p.saving # "NONE" /\ page'[x].saving = "NONE"
                                          /\ (page'[x].pc = "loading" \/ page'[x].acting = "SUBMIT")
                                          /\ p.acting = "NONE"
                            heeded == p.user = sheet.owner
                                        \/ (sheet.status \notin Editable /\ p.sheet = sheet
                                              /\ p.lines = lines)
                        IN  accepted /\ heeded => SameLines(p.sent, lines')
<1>1. ASSUME ScreenInv, [ScreenNext]_screen
      PROVE  [Stored]_screen
  <2>1. ASSUME ScreenNext, NEW x \in Pages, Accepted(x), Heeded(x)
        PROVE  SameLines(page[x].sent, lines')
    <3>1. SaveAccepted(x)
      BY <1>1, <2>1, ScreenStep
    <3>. QED BY <1>1, <2>1, <3>1, OwnersRowsAreStored, ValidatorsRowsAreStored
  <2>. QED BY <1>1, <2>1 DEF Accepted
<1>. QED BY <1>1, ScreenInvHolds, PTL DEF ScreenSpec, AcceptedIsStored

===========================================================================
