------------------------------ MODULE Screens ------------------------------
(***************************************************************************)
(* The pages of the front end over one tenant: which the menu offers to a  *)
(* role, which calls each makes on opening and behind its buttons, and     *)
(* which rows it lists.  The front end decides from the role of the        *)
(* session; the back end decides again, from the decorators of its         *)
(* controllers and from queries written one by one.  The module has no     *)
(* state of its own: it reads the organisation while the administration    *)
(* changes it, a session having the role its account has now.              *)
(*                                                                         *)
(* Lists are what their queries select: the newest 150 or 250 rows of it   *)
(* that a page is given are a limit on data.  The limit on the mails about *)
(* a leave request is kept, since it leaves people out: MailLimit, five in *)
(* the code.                                                               *)
(***************************************************************************)
EXTENDS Approvals, FiniteSets, FiniteSetsExt

CONSTANT MailLimit   \* `take` of the query for the addressees

ASSUME MailAssumption == MailLimit \in Nat \ {0}

TenantRoles == Roles \ {"SUPER_ADMIN"}

Supervisors == TenantRoles \ {"EMPLOYEE"}

---------------------------------------------------------------------------
(* The routes the pages call, with the roles each serves.  The decorator   *)
(* of a method overrides that of its class; a route with none serves every *)
(* account.                                                                *)

To(roles, things) == things \X roles

ProjectRoutes ==
  To(Roles, {"projects", "project"})
    \cup To({"HR"}, {"createProject", "updateProject", "deleteProject"})

SiteRoutes ==
  To(Roles, {"sites", "site"}) \cup To({"HR"}, {"createSite", "updateSite", "deleteSite"})
    \cup To({"RESOURCE_MANAGER"}, {"assignSite"})

\* Mutant: the list of employees is for the administration only.
EmployeeRoutesAdministration ==
  To({"SUPER_ADMIN", "HR", "RESOURCE_MANAGER"}, {"employees"}) \cup To(Roles, {"employee"})
    \cup To({"HR"}, {"createEmployee", "deleteEmployee"})
    \cup To({"HR", "RESOURCE_MANAGER"}, {"updateEmployee"})

EmployeeRoutes ==
  To(Supervisors \cup {"SUPER_ADMIN"}, {"employees"}) \cup To(Roles, {"employee"})
    \cup To({"HR"}, {"createEmployee", "deleteEmployee"})
    \cup To({"HR", "RESOURCE_MANAGER"}, {"updateEmployee"})

SettingsRoutes ==
  To({"HR", "RESOURCE_MANAGER"},
     {"company", "updateCompany", "holidays", "editHolidays", "leaveTypesSettings",
      "editLeaveTypes"})
    \cup To(TenantRoles, {"taskTypes", "timesheetPeriod", "siteOptions"})
    \cup To({"HR"}, {"updateTaskTypes", "updateTimesheetPeriod", "updateSiteOptions"})

ReportRoutes ==
  To(Supervisors \cup {"SUPER_ADMIN"},
     {"attendanceReport", "hoursBySite", "hoursByEmployee", "leaveReport", "payrollExport"})
    \cup To(Roles, {"timesheetsReport"})

TenantRoutes ==
  To({"SUPER_ADMIN"}, {"tenants", "suspendTenant", "reactivateTenant"})

SubscriptionRoutes == To({"SUPER_ADMIN"}, {"subscriptions", "createPlan", "updatePlan"})

UserRoutes == To({"SUPER_ADMIN", "RESOURCE_MANAGER"}, {"createUser"})

AuditRoutes == To({"HR"}, {"auditLogs"})

TimesheetRoutes ==
  To(Roles, {"timesheets", "timesheet", "createTimesheet", "updateTimesheet",
             "deleteTimesheet", "submitTimesheet", "approveTimesheet", "rejectTimesheet"})
    \cup To({"HR", "RESOURCE_MANAGER"}, {"reopenTimesheet"})

PlanningRoutes ==
  To(Roles, {"planningScope", "planningMyPeriod", "savePlanningPeriod", "planning",
             "updatePlanning", "publishPlanning", "reopenPlanning"})

LeaveRoutes ==
  To(Roles, {"leaveTypes", "leaveBalances", "leaveRequests", "leaveCapabilities",
             "createLeave", "attachLeave", "submitLeave", "approveLeave", "rejectLeave"})

AccountRoutes == To(Roles, {"updateProfile", "changePassword"})

NotificationRoutes == To(Roles, {"notifications", "readNotification", "readNotifications"})

DashboardRoutes == To(Roles, {"dashboard"})

Routes ==
  ProjectRoutes \cup SiteRoutes \cup EmployeeRoutes \cup SettingsRoutes \cup ReportRoutes
    \cup TenantRoutes \cup SubscriptionRoutes \cup UserRoutes \cup AuditRoutes
    \cup TimesheetRoutes \cup PlanningRoutes \cup LeaveRoutes \cup AccountRoutes
    \cup NotificationRoutes \cup DashboardRoutes

Serves(call, r) == <<call, r>> \in Routes

---------------------------------------------------------------------------
(* The menu, and the shell that sends whoever may not see a page back.     *)

NavRoles ==
  To(TenantRoles, {"/dashboard", "/timesheets", "/planning", "/time-off",
                   "/time-off/requests", "/reports"})
    \cup To(Supervisors, {"/team", "/projects"})
    \cup To(Roles, {"/profile"})
    \cup To({"HR"}, {"/settings", "/audit-log"})
    \cup To({"SUPER_ADMIN"}, {"/admin/tenants", "/admin/subscriptions"})

Entries == {item[1] : item \in NavRoles}

\* The menu entry a page belongs to: the longest that is a prefix of its path.
Section ==
  [pg \in Entries \cup {"/team/:id", "/projects/:id", "/projects/:id/sites/:siteId",
                        "/timesheets/:id", "/planning/:id", "/planning/my-period"} |->
     CASE pg = "/team/:id" -> "/team"
       [] pg \in {"/projects/:id", "/projects/:id/sites/:siteId"} -> "/projects"
       [] pg = "/timesheets/:id" -> "/timesheets"
       [] pg \in {"/planning/:id", "/planning/my-period"} -> "/planning"
       [] OTHER -> pg]

Admits(pg, r) == <<Section[pg], r>> \in NavRoles

\* Where the login, the root page and a refusal lead.
Home(r) == IF r = "SUPER_ADMIN" THEN "/admin/tenants" ELSE "/dashboard"

---------------------------------------------------------------------------
(* The calls of each page, on opening and behind its buttons, by the role  *)
(* of the session.                                                         *)

For(roles, r, calls) == IF r \in roles THEN calls ELSE {}

\* The shell of every page: menu, breadcrumb and bell.
ShellCalls == {"leaveCapabilities", "notifications", "readNotification", "readNotifications"}

Breadcrumb ==
  [pg \in {"/timesheets/:id", "/team/:id", "/projects/:id"} |->
     CASE pg = "/timesheets/:id" -> {"timesheet"}
       [] pg = "/team/:id" -> {"employee"}
       [] pg = "/projects/:id" -> {"project"}]

TeamPage(r) == {"employees", "sites", "siteOptions"} \cup For({"HR"}, r, {"createEmployee"})

EmployeePage(r) ==
  {"employee", "leaveBalances", "timesheets"} \cup For({"HR"}, r, {"siteOptions", "deleteEmployee"})
    \cup For({"HR", "RESOURCE_MANAGER"}, r, {"updateEmployee"})

ProjectsPage(r) ==
  {"projects", "siteOptions"} \cup For({"HR"}, r, {"employees", "createProject"})

ProjectPage(r) ==
  {"project", "siteOptions"}
    \cup For({"HR"}, r, {"employees", "updateProject", "deleteProject", "createSite"})

SitePage(r) ==
  {"site", "project"} \cup For({"HR"}, r, {"employees", "updateSite", "deleteSite"})
    \cup For({"RESOURCE_MANAGER"}, r, {"employees", "assignSite"})

\* Human resources read the sheets and do not start one.
TimesheetsPage(r) ==
  {"timesheets"}
    \cup For(TenantRoles \ {"HR"}, r,
             {"timesheetPeriod", "createTimesheet"} \cup For(Supervisors, r, {"employees"}))

TimesheetPage(r) ==
  {"timesheet", "projects", "sites", "taskTypes", "updateTimesheet", "deleteTimesheet",
   "submitTimesheet", "approveTimesheet", "rejectTimesheet"}
    \cup For({"HR", "RESOURCE_MANAGER"}, r, {"reopenTimesheet"})

PlanningPage == {"planningScope"}
PeriodPage == {"planningMyPeriod", "planningScope", "taskTypes", "savePlanningPeriod"}
PlanningSheetPage ==
  {"planning", "planningScope", "updatePlanning", "publishPlanning", "reopenPlanning"}

TimeOffPage ==
  {"leaveBalances", "leaveRequests", "leaveTypes", "createLeave", "attachLeave", "submitLeave"}

LeaveRequestsPage == {"leaveRequests", "approveLeave", "rejectLeave"}

\* The export buttons of the reports page, and its two filters.
ReportsPage(r) ==
  For(Supervisors, r, {"attendanceReport", "hoursBySite", "timesheetsReport"})
    \cup For({"EMPLOYEE"}, r, {"timesheetsReport"})
    \cup For({"HR", "RESOURCE_MANAGER"}, r, {"hoursByEmployee", "leaveReport", "payrollExport"})
    \cup For(Roles \ {"EMPLOYEE"}, r, {"sites"})
    \cup For({"PROJECT_MANAGER", "HR", "RESOURCE_MANAGER"}, r, {"employees"})

SettingsPage ==
  {"company", "updateCompany", "holidays", "editHolidays", "leaveTypesSettings",
   "editLeaveTypes", "taskTypes", "timesheetPeriod", "updateTaskTypes",
   "updateTimesheetPeriod", "siteOptions", "updateSiteOptions"}

\* The page of the tenants, and its form for the first resource manager of one.
ResourceManagerForm == {"createUser"}
TenantsPage == {"tenants", "suspendTenant", "reactivateTenant"} \cup ResourceManagerForm
SubscriptionsPage == {"subscriptions", "createPlan", "updatePlan"}

PageCalls(r) ==
  [pg \in DOMAIN Section |->
     CASE pg = "/team" -> TeamPage(r)
       [] pg = "/team/:id" -> EmployeePage(r)
       [] pg = "/projects" -> ProjectsPage(r)
       [] pg = "/projects/:id" -> ProjectPage(r)
       [] pg = "/projects/:id/sites/:siteId" -> SitePage(r)
       [] pg = "/timesheets" -> TimesheetsPage(r)
       [] pg = "/timesheets/:id" -> TimesheetPage(r)
       [] pg = "/planning" -> PlanningPage
       [] pg = "/planning/my-period" -> PeriodPage
       [] pg = "/planning/:id" -> PlanningSheetPage
       [] pg = "/time-off" -> TimeOffPage
       [] pg = "/time-off/requests" -> LeaveRequestsPage
       [] pg = "/reports" -> ReportsPage(r)
       [] pg = "/settings" -> SettingsPage
       [] pg = "/audit-log" -> {"auditLogs"}
       [] pg = "/dashboard" -> {"dashboard"}
       [] pg = "/profile" -> {"updateProfile", "changePassword"}
       [] pg = "/admin/tenants" -> TenantsPage
       [] pg = "/admin/subscriptions" -> SubscriptionsPage]

CallsOf ==
  [r \in Roles |->
     [pg \in DOMAIN Section |->
        PageCalls(r)[pg] \cup ShellCalls
          \cup IF pg \in DOMAIN Breadcrumb THEN Breadcrumb[pg] ELSE {}]]

\* The pages that offer their reader a call he is refused.
Deceptive ==
  [r \in Roles |-> {pg \in DOMAIN Section :
     Admits(pg, r) /\ \E call \in CallsOf[r][pg] : ~Serves(call, r)}]

---------------------------------------------------------------------------
(* The rows the pages list, and the rows the pages behind them open.       *)

\* Mutant: a project is its chief's only.
ProjectsOfChief(u, own) ==
  IF role[u] \in Unrestricted THEN Projects ELSE {p \in Projects : project[p].chief = u}

\* ProjectsService.scope: with his own assignments when reading, without when
\* changing a project.
ProjectScope(u, own) ==
  IF role[u] \in Unrestricted THEN Projects
  ELSE {p \in Projects :
          \/ project[p].chief = u
          \/ \E s \in Sites : /\ site[s].state = "open" /\ ProjectOf(s) = p
                              /\ ManagerOf(s) = u \/ (own /\ WorksOn(u, s))}

ListedProjects(u) == {p \in ProjectScope(u, TRUE) : project[p].state = "open"}

ProjectOpens(u, p) == project[p].state = "open" /\ p \in ProjectScope(u, TRUE)

\* The sites the page of a project lists, and those its links open: the page
\* of a site counts no assignment.
ListedSites(u, p) ==
  {s \in Sites : /\ site[s].state = "open" /\ ProjectOf(s) = p
                 /\ \/ role[u] \in Unrestricted
                    \/ u \in {ManagerOf(s), ChiefOf(s)}
                    \/ WorksOn(u, s)}

SiteOpens(u, s) ==
  site[s].state = "open" /\ (role[u] \in Unrestricted \/ s \in DirectedSites(u))

\* The team page lists the profiles of open accounts; a profile opens whatever
\* became of the account, to an employee only if it is his own.
TeamList(u) == {v \in ManagedUsers(u) : account[v] # "closed"}

EmployeeOpens(u, v) == v \in ManagedUsers(u) /\ (role[u] = "EMPLOYEE" => v = u)

\* Whom a new timesheet may be for, and whom the form proposes.
OwnersProposed(u) ==
  IF "employees" \in CallsOf[role[u]]["/timesheets"] THEN TeamList(u) \cup {u} ELSE {u}

OwnerAccepted(u, v) == u = v \/ (role[u] # "EMPLOYEE" /\ v \in ManagedUsers(u))

\* LeaveService.capabilities, which the menu asks for.
LeadsAProject(u) == \E p \in Projects : project[p].state = "open" /\ project[p].chief = u

\* Mutant: the entry goes by the role, not by the projects.
SeesLeaveRequestsByRole(u) == role[u] \in {"PROJECT_MANAGER", "RESOURCE_MANAGER", "HR"}

SeesLeaveRequests(u) == LeadsAProject(u) \/ role[u] \in {"RESOURCE_MANAGER", "HR"}

Menu(u) ==
  {h \in Entries :
     <<h, role[u]>> \in NavRoles /\ (h = "/time-off/requests" => SeesLeaveRequests(u))}

\* Whose requests the query of the managed view selects: those of the scope, his
\* own excepted.
ListedOwners(u) == InHisScope(u) \ {u}

\* Whom the query for the addressees of a leave request finds: the hierarchy, or
\* the administration if the hierarchy is empty.
FoundForLeave(o) ==
  LET ids == N1Ids(o, NoSite) \cup N2Ids(o, NoSite)
  IN  IF ids # {} THEN ids \cap active
      ELSE {u \in active : role[u] \in {"RESOURCE_MANAGER", "HR"}}

\* Those a mail may go to: the query asks for MailLimit rows in no order, so of
\* more than that any MailLimit may be the ones.
ToldOfLeave(o) ==
  LET found == FoundForLeave(o)
  IN  IF Cardinality(found) <= MailLimit THEN {found} ELSE kSubset(MailLimit, found)

---------------------------------------------------------------------------
(* The plannings: sheets of lines [user, site] by one author.              *)

ManagesASite(u) == \E s \in Sites : site[s].state = "open" /\ ManagerOf(s) = u

SeesAllPlannings(u) == role[u] \in {"RESOURCE_MANAGER", "HR"}

\* Whether u sees a line because he directs its site: whether he directs one is
\* asked of the rows not deleted, the lines are then matched on any row.
DirectsLine(u, l) ==
  \/ ManagesASite(u) /\ ManagerOf(l.site) = u
  \/ LeadsAProject(u) /\ ChiefOf(l.site) = u

SeesOwnLine(u, l) == ~ManagesASite(u) /\ ~LeadsAProject(u) /\ l.user = u

\* PlanningService.readScope: who opens a sheet.
PlanningOpens(u, sheet) ==
  \/ ManagesASite(u) /\ sheet.author = u
  \/ sheet.published /\ \/ SeesAllPlannings(u)
                        \/ \E l \in sheet.lines : DirectsLine(u, l) \/ SeesOwnLine(u, l)

\* PlanningService.viewerLineWhere: the lines he is shown of it.
LinesShown(u, sheet) ==
  {l \in sheet.lines : SeesAllPlannings(u) \/ DirectsLine(u, l) \/ SeesOwnLine(u, l)}

CanManagePlanning(u, sheet) == sheet.author = u /\ ManagesASite(u)

\* The lines the pages let its manager plan on a site, for those who work there
\* now; they also propose those who did, whom the service refuses.
PlannableLines(s) == [user : assigned[s] \cap active, site : {s}]

---------------------------------------------------------------------------
(* The choices in the administration's forms, filtered from the list of    *)
(* employees: a SUSPENDED account is among them, and refused; an INACTIVE  *)
(* one is refused too, and not among them.                                 *)

suspended == {u \in Users : account[u] = "suspended"}

ChiefsProposed(u) == TeamList(u)

ManagersProposed(u) == TeamList(u)

\* The form takes an assignment that ends today for ended; the service does not.
AssigneesProposed(u, s) == TeamList(u) \ (assigned[s] \ lastDay[s])

\* What the form of a profile may change the role to, and what the service takes.
RolesProposed(u, v) ==
  CASE role[u] = "RESOURCE_MANAGER" -> {"EMPLOYEE", "MANAGER", "PROJECT_MANAGER"}
    [] role[u] = "HR" -> IF role[v] \in {"EMPLOYEE", "RESOURCE_MANAGER"}
                         THEN {"EMPLOYEE", "RESOURCE_MANAGER"} ELSE {}
    [] OTHER -> {}

RolesAccepted(u) ==
  CASE role[u] = "RESOURCE_MANAGER" -> {"EMPLOYEE", "MANAGER", "PROJECT_MANAGER"}
    [] role[u] = "HR" -> {"EMPLOYEE", "RESOURCE_MANAGER"}
    [] OTHER -> Roles

ClosureProposed(u, v) == role[u] = "HR" /\ role[v] # "HR"

---------------------------------------------------------------------------

\* A platform administrator belongs to no tenant.
NoPlatformAdministrators == \A u \in Users : InitialTenant.role[u] # "SUPER_ADMIN"

\* No page an account may see offers it a call that the back end refuses its
\* role, nobody is sent for a page he may not see to another that he may not see
\* either; the forms propose no owner, role or closure the service refuses.  As
\* chief, manager or assignee they propose everyone the service accepts, and of
\* those it refuses only suspended accounts and, for an assignment, an employee
\* whose present one ends today: the gates of the pages, the decorators of the
\* controllers and the checks of the services are written apart, and a late 403
\* shows as an empty list.
OffersAreServed ==
  /\ \A r \in {role[u] : u \in active} \cup {"SUPER_ADMIN"} :
       Deceptive[r] = {} /\ Admits(Home(r), r)
  /\ \A u \in active :
       /\ \A v \in OwnersProposed(u) : OwnerAccepted(u, v)
       /\ "updateEmployee" \in CallsOf[role[u]]["/team/:id"] =>
            \A v \in TeamList(u) : RolesProposed(u, v) \subseteq RolesAccepted(u)
       /\ "deleteEmployee" \in CallsOf[role[u]]["/team/:id"] =>
            \A v \in TeamList(u) : ClosureProposed(u, v) => Closable(v)
       /\ "updateProject" \in CallsOf[role[u]]["/projects/:id"] =>
            /\ active \subseteq ChiefsProposed(u) \cap ManagersProposed(u)
            /\ ChiefsProposed(u) \cup ManagersProposed(u) \subseteq active \cup suspended
       /\ "assignSite" \in CallsOf[role[u]]["/projects/:id/sites/:siteId"] =>
            \A s \in Sites :
              /\ active \ assigned[s] \subseteq AssigneesProposed(u, s)
              /\ AssigneesProposed(u, s)
                   \subseteq (active \ assigned[s]) \cup suspended \cup lastDay[s]

\* Those who direct a site where o works.
DirectorsOf(o) == UNION {{ManagerOf(s), ChiefOf(s)} : s \in {t \in Sites : WorksOn(o, t)}}

\* Whoever may take the first decision on a leave request is told of it, or the
\* mails all go to others who direct a site where the employee works: the search
\* that decides (isProjectManagerForUser) and the one that writes to approvers
\* (approverIdsFor) go through the sites in different ways, and the second keeps
\* the first five it finds.  A chief may be the sixth.
DecidersAreTold ==
  \A o, u \in active : u # o /\ IsProjectManagerForUser(o, u) =>
    \A told \in ToldOfLeave(o) :
      u \in told \/ (Cardinality(told) = MailLimit /\ told \subseteq DirectorsOf(o))

\* Whoever may take the first decision on a leave request finds it among those
\* that the query of his list selects: the search that decides
\* (isProjectManagerForUser) starts from the sites, the one that lists
\* (managedUserIds) from his team, the one that opens the menu (capabilities)
\* from the projects.  That one alone counts no deleted project, whose sites and
\* chief remain: its chief still decides, without a menu entry.
DecidersAreShown ==
  \A o, u \in active :
    u # o /\ role[u] # "SUPER_ADMIN" /\ IsProjectManagerForUser(o, u) =>
      /\ o \in ListedOwners(u)
      /\ (\E p \in Projects : project[p].state = "open" /\
            \E s \in Sites : ChiefOf(s) = u /\ ProjectOf(s) = p /\ WorksOn(o, s))
           => "/time-off/requests" \in Menu(u)

\* Whoever directs a site and has the menu entries for it reaches it and those
\* who work there, and is shown what is planned on it: the list of projects, the
\* page of its project, its own page, the page of the team and the two queries of
\* the plannings are written one by one in four services.  A site without
\* a project, or whose project was deleted, has no page that leads to it.
DirectorsReachTheirSites ==
  \A u \in active, s \in Sites :
    s \in DirectedSites(u) /\ {"/projects", "/team"} \subseteq Menu(u) =>
      /\ \A p \in Projects : ProjectOf(s) = p /\ project[p].state = "open" =>
           p \in ListedProjects(u) /\ ProjectOpens(u, p) /\ s \in ListedSites(u, p)
      /\ SiteOpens(u, s)
      /\ \A v \in (StaffOf(s) \cap active) \ {u} : v \in TeamList(u) /\ EmployeeOpens(u, v)
      /\ ManagerOf(s) = u \/ OpenProject(ProjectOf(s)) =>
           \A l \in PlannableLines(s) :
             LET sheet == [author |-> ManagerOf(s), lines |-> {l}, published |-> TRUE]
             IN  /\ PlanningOpens(u, sheet) /\ LinesShown(u, sheet) = {l}
                 /\ CanManagePlanning(u, sheet) <=> ManagerOf(s) = u

===========================================================================
