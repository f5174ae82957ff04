--------------------------- MODULE Organisation ---------------------------
(***************************************************************************)
(* The organisation of one tenant: who manages a site, who is the chief of *)
(* a project, who works where, with which role and whose account is open.  *)
(* Every workflow of the back end reads these tables to decide who may act *)
(* on whose records (hierarchy.service.ts); the administration screens     *)
(* write them (sites, projects, employees and users services).             *)
(*                                                                         *)
(* Each action is one request taken alone.  The bound MaxChanges caps the  *)
(* number of organisation changes in a behaviour.  Every account has an    *)
(* employee profile; human resources may also mark the profile inactive,   *)
(* which does nothing here but narrow the choice of managers and chiefs.   *)
(***************************************************************************)
EXTENDS Naturals

CONSTANTS
  Users, Sites, Projects,   \* the identifiers rows may use
  NoUser, NoSite, NoProject, \* a null foreign key
  InitialTenant,            \* the tables a behaviour starts from
  MaxChanges                \* bound on organisation changes

Roles == {"SUPER_ADMIN", "RESOURCE_MANAGER", "HR", "PROJECT_MANAGER",
          "MANAGER", "EMPLOYEE"}

\* Rows of sites and projects are created, then soft-deleted (deletedAt).
RowState == {"absent", "open", "deleted"}

SiteRow == [state : RowState, manager : Users \cup {NoUser},
            project : Projects \cup {NoProject}]

ProjectRow == [state : RowState, chief : Users \cup {NoUser}]

\* Accounts are active, or barred for a time (INACTIVE and SUSPENDED), or
\* closed for good (deletedAt).
AccountState == {"active", "suspended", "closed"}

VARIABLES
  site,      \* site[s]: the row of site s, with managerId and projectId
  project,   \* project[p]: the row of project p, with projectManagerId
  assigned,  \* assigned[s]: users with a current assignment to site s
  lastDay,   \* lastDay[s]: those whose assignment ends today
  mainSite,  \* mainSite[u]: the main site of u's employee profile
  role,      \* role[u]: the role of account u
  account,   \* account[u]: whether it can be used
  changes    \* organisation changes so far

people == <<mainSite, role, account>>
orgVars == <<site, project, assigned, lastDay, people, changes>>

ASSUME OrganisationAssumption ==
  /\ NoUser \notin Users
  /\ NoSite \notin Sites
  /\ NoProject \notin Projects
  /\ MaxChanges \in Nat
  /\ InitialTenant \in [site : [Sites -> SiteRow],
                        project : [Projects -> ProjectRow],
                        assigned : [Sites -> SUBSET Users],
                        mainSite : [Users -> Sites \cup {NoSite}],
                        role : [Users -> Roles]]

OrgTypeOK ==
  /\ site \in [Sites -> SiteRow]
  /\ project \in [Projects -> ProjectRow]
  /\ assigned \in [Sites -> SUBSET Users]
  /\ lastDay \in [Sites -> SUBSET Users]
  /\ mainSite \in [Users -> Sites \cup {NoSite}]
  /\ role \in [Users -> Roles]
  /\ account \in [Users -> AccountState]
  /\ changes \in 0..MaxChanges

OrgInit ==
  /\ site = InitialTenant.site
  /\ project = InitialTenant.project
  /\ assigned = InitialTenant.assigned
  /\ lastDay = [s \in Sites |-> {}]
  /\ mainSite = InitialTenant.mainSite
  /\ role = InitialTenant.role
  /\ account = [u \in Users |-> "active"]
  /\ changes = 0

---------------------------------------------------------------------------
(* HierarchyService: the questions every workflow asks.                    *)

\* Those who can log in.
active == {u \in Users : account[u] = "active"}

\* Roles for which managedUserIds and managedSiteIds answer `undefined`:
\* no filter at all.
Unrestricted == {"SUPER_ADMIN", "RESOURCE_MANAGER", "HR"}

ManagerOf(s) == IF s = NoSite THEN NoUser ELSE site[s].manager

ProjectOf(s) == IF s = NoSite THEN NoProject ELSE site[s].project

\* The project row is joined whether or not it is soft-deleted.
ChiefOf(s) ==
  IF ProjectOf(s) = NoProject THEN NoUser ELSE project[ProjectOf(s)].chief

\* The sites u directs, as manager of the site or chief of its project.
DirectedSites(u) ==
  {s \in Sites : site[s].state = "open" /\ u \in {ManagerOf(s), ChiefOf(s)}}

\* Mutant: main sites are read without looking at the account.
StaffOfAnyAccount(s) == assigned[s] \cup {u \in Users : mainSite[u] = s}

\* Those who work on site s: assigned to it, or main site of an open account.
StaffOf(s) ==
  assigned[s] \cup {u \in Users : mainSite[u] = s /\ account[u] # "closed"}

ManagedUsers(u) ==
  IF role[u] \in Unrestricted THEN Users
  ELSE LET directed == DirectedSites(u)
           siteManagers == {ManagerOf(s) : s \in directed} \ {NoUser}
           ownSiteManagers == IF \E s \in directed : ChiefOf(s) = u
                              THEN siteManagers ELSE {}
       IN  (ownSiteManagers \cup UNION {StaffOf(s) : s \in directed}) \ {u}

---------------------------------------------------------------------------
(* The administration requests.                                            *)

\* Some account of one of these roles sends the request, within the bound.
RequestedBy(roles) ==
  /\ \E h \in active : role[h] \in roles
  /\ changes < MaxChanges
  /\ changes' = changes + 1

CreateProject(p, chief) ==
  /\ RequestedBy({"HR"})
  /\ project[p].state = "absent"
  /\ chief \in active
  /\ project' = [project EXCEPT ![p] = [state |-> "open", chief |-> chief]]
  /\ UNCHANGED <<site, assigned, lastDay, people>>

\* Only the chief is modelled: the other columns route nothing.
UpdateProject(p, chief) ==
  /\ RequestedBy({"HR"})
  /\ project[p].state = "open"
  /\ chief \in active
  /\ project' = [project EXCEPT ![p].chief = chief]
  /\ UNCHANGED <<site, assigned, lastDay, people>>

\* The sites of a deleted project keep pointing to it.
DeleteProject(p) ==
  /\ RequestedBy({"HR"})
  /\ project[p].state = "open"
  /\ project' = [project EXCEPT ![p].state = "deleted"]
  /\ UNCHANGED <<site, assigned, lastDay, people>>

OpenProject(p) == p # NoProject => project[p].state = "open"

\* The new site's manager is assigned to it in the same transaction.
CreateSite(s, manager, p) ==
  /\ RequestedBy({"HR"})
  /\ site[s].state = "absent"
  /\ manager \in active
  /\ OpenProject(p)
  /\ site' = [site EXCEPT ![s] = [state |-> "open", manager |-> manager,
                                  project |-> p]]
  /\ assigned' = [assigned EXCEPT ![s] = @ \cup {manager}]
  /\ UNCHANGED <<project, lastDay, people>>

\* An omitted column keeps its value; a null one is cleared, and so is the
\* manager by an empty managerId.  Nobody is (un)assigned.
UpdateSite(s, manager, p) ==
  /\ RequestedBy({"HR"})
  /\ site[s].state = "open"
  /\ manager \in active \cup {NoUser, site[s].manager}
  /\ p = site[s].project \/ OpenProject(p)
  /\ site' = [site EXCEPT ![s].manager = manager, ![s].project = p]
  /\ UNCHANGED <<project, assigned, lastDay, people>>

\* Mutant: the row itself is deleted.
DeleteSiteRow(s) ==
  /\ RequestedBy({"HR"})
  /\ site[s].state = "open"
  /\ site' = [t \in Sites \ {s} |-> site[t]]
  /\ UNCHANGED <<project, assigned, lastDay, people>>

DeleteSite(s) ==
  /\ RequestedBy({"HR"})
  /\ site[s].state = "open"
  /\ site' = [site EXCEPT ![s].state = "deleted"]
  /\ UNCHANGED <<project, assigned, lastDay, people>>

\* Assigning an employee also moves the main site of the profile.  The
\* assignment starts today; a later end date is no end date until it comes.
Assign(s, u, endsToday) ==
  /\ RequestedBy({"RESOURCE_MANAGER"})
  /\ site[s].state = "open"
  /\ u \in active \ assigned[s]
  /\ assigned' = [assigned EXCEPT ![s] = @ \cup {u}]
  /\ lastDay' = [lastDay EXCEPT ![s] = IF endsToday THEN @ \cup {u} ELSE @]
  /\ mainSite' = [mainSite EXCEPT ![u] = s]
  /\ UNCHANGED <<site, project, role, account>>

\* PUT /employees/:id by human resources, for any profile, even of a closed
\* account.
EditProfile(u, r) ==
  /\ RequestedBy({"HR"})
  /\ r \in {"EMPLOYEE", "RESOURCE_MANAGER"}
  /\ role' = [role EXCEPT ![u] = r]
  /\ UNCHANGED <<site, project, assigned, lastDay, mainSite, account>>

\* The same endpoint by a resource manager: the role and the main site, any
\* site that has a row, or none.
Place(u, r, s) ==
  /\ RequestedBy({"RESOURCE_MANAGER"})
  /\ r \in {"EMPLOYEE", "MANAGER", "PROJECT_MANAGER", role[u]}
  /\ s # NoSite => site[s].state # "absent"
  /\ role' = [role EXCEPT ![u] = r]
  /\ mainSite' = [mainSite EXCEPT ![u] = s]
  /\ UNCHANGED <<site, project, assigned, lastDay, account>>

\* PUT /users/:id: any role and any status, for an account not closed.  Only
\* a platform administrator touches, or makes, a platform administrator.
EditAccount(u, r, st) ==
  /\ \/ RequestedBy({"SUPER_ADMIN"})
     \/ RequestedBy({"RESOURCE_MANAGER"}) /\ "SUPER_ADMIN" \notin {role[u], r}
  /\ account[u] # "closed"
  /\ st \in {"active", "suspended"}
  /\ role' = [role EXCEPT ![u] = r]
  /\ account' = [account EXCEPT ![u] = st]
  /\ UNCHANGED <<site, project, assigned, lastDay, mainSite>>

\* Those human resources may close the account of.
Closable(u) ==
  /\ account[u] # "closed"
  /\ role[u] \in {"EMPLOYEE", "MANAGER", "PROJECT_MANAGER", "RESOURCE_MANAGER"}

\* Mutant: the account is closed and nothing else.
DeactivateAccountOnly(u) ==
  /\ RequestedBy({"HR"})
  /\ Closable(u)
  /\ account' = [account EXCEPT ![u] = "closed"]
  /\ UNCHANGED <<site, project, assigned, lastDay, mainSite, role>>

\* One transaction: the account is closed, the sites still open lose their
\* manager and today is the last day of the assignments.  Projects keep their
\* chief.  Nobody closes his own account: the request comes from HR, whose
\* accounts are not closable.
Deactivate(u) ==
  /\ RequestedBy({"HR"})
  /\ Closable(u)
  /\ account' = [account EXCEPT ![u] = "closed"]
  /\ site' = [s \in Sites |->
                IF site[s].state = "open" /\ site[s].manager = u
                THEN [site[s] EXCEPT !.manager = NoUser] ELSE site[s]]
  /\ lastDay' = [s \in Sites |-> lastDay[s] \cup ({u} \cap assigned[s])]
  /\ UNCHANGED <<project, assigned, mainSite, role>>

\* An assignment is current up to its end date, included.
Midnight ==
  /\ \E s \in Sites : lastDay[s] # {}
  /\ assigned' = [s \in Sites |-> assigned[s] \ lastDay[s]]
  /\ lastDay' = [s \in Sites |-> {}]
  /\ UNCHANGED <<site, project, people, changes>>

Reorganise ==
  \/ \E p \in Projects, u \in Users :
       CreateProject(p, u) \/ UpdateProject(p, u)
  \/ \E p \in Projects : DeleteProject(p)
  \/ \E s \in Sites, m \in Users \cup {NoUser}, p \in Projects \cup {NoProject} :
       CreateSite(s, m, p) \/ UpdateSite(s, m, p)
  \/ \E s \in Sites : DeleteSite(s)
  \/ \E s \in Sites, u \in Users, endsToday \in BOOLEAN : Assign(s, u, endsToday)
  \/ \E u \in Users, r \in Roles : EditProfile(u, r)
  \/ \E u \in Users, r \in Roles, s \in Sites \cup {NoSite} : Place(u, r, s)
  \/ \E u \in Users, r \in Roles, st \in AccountState : EditAccount(u, r, st)
  \/ \E u \in Users : Deactivate(u)
  \/ Midnight

OrgSpec == OrgInit /\ [][Reorganise]_orgVars

---------------------------------------------------------------------------
(* What holds of the organisation.                                         *)

\* A site that takes lines never waits for a manager who left: whatever becomes
\* of the accounts, the manager of an open site has one
\* (employees.repository.ts clears the manager when it closes the account,
\* sites.service.ts refuses a closed one).  It may be suspended, though.
NoFormerManager ==
  \A s \in Sites : site[s].state = "open" =>
    ManagerOf(s) = NoUser \/ account[ManagerOf(s)] # "closed"

\* A manager's team -- whose sheets, punches and requests he sees and for whom
\* he may create and submit -- loses those who leave by the end of the day,
\* whatever sites, projects, assignments and main sites it is gathered from.
LeaversAreGone ==
  \A u \in active : role[u] \notin Unrestricted =>
    \A v \in ManagedUsers(u) :
      account[v] = "closed" => \E s \in Sites : v \in lastDay[s]

===========================================================================
