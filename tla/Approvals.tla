----------------------------- MODULE Approvals -----------------------------
(***************************************************************************)
(* Who may see, and who may decide on, what an employee sends: the part of *)
(* the hierarchy service that leave requests and attendance records share. *)
(* Timesheets have rules of their own (TimesheetRules).                    *)
(***************************************************************************)
EXTENDS Organisation

\* The employees whose records u sees: everybody, or himself and his team.
\* Leave requests read it as a filter on the owner.
InHisScope(u) ==
  IF role[u] \in Unrestricted THEN Users ELSE ManagedUsers(u) \cup {u}

\* With or without a current assignment, the main site counts.
WorksOn(o, s) == o \in assigned[s] \/ mainSite[o] = s

IsProjectManagerForUser(o, u) ==
  \E s \in Sites : site[s].state = "open" /\ ChiefOf(s) = u /\ WorksOn(o, s)

\* The sites of the current assignments, even deleted ones, and the main site
\* if it is open and so is the account.
DefaultApprovalSites(o) ==
  {s \in Sites : o \in assigned[s]}
    \cup {s \in Sites : /\ mainSite[o] = s
                        /\ site[s].state = "open"
                        /\ account[o] # "closed"}

\* Those who sign first for o on site s, and those who sign after them: the
\* chief takes the manager's place where there is none but o himself.
SiteN1(s, o) ==
  IF ManagerOf(s) \notin {NoUser, o} THEN {ManagerOf(s)} ELSE {ChiefOf(s)} \ {NoUser, o}

\* Mutant: the chief of a site that has a manager is left out.
ChiefsOfUnmanagedSites(s, o) == {}

SiteN2(s, o) ==
  IF ManagerOf(s) \notin {NoUser, o} THEN {ChiefOf(s)} \ {NoUser, o} ELSE {}

ApprovalSites(o, s) ==
  IF s = NoSite THEN DefaultApprovalSites(o)
  ELSE {t \in {s} : site[t].state = "open"}

N1Ids(o, s) == UNION {SiteN1(t, o) : t \in ApprovalSites(o, s)}
N2Ids(o, s) == UNION {SiteN2(t, o) : t \in ApprovalSites(o, s)}

\* The level at which u decides on a record of o made on site s, if any.
ApprovalLevelFor(u, o, s) ==
  IF role[u] \in {"RESOURCE_MANAGER", "HR"} THEN {"N1", "N2", "ADMIN"}
  ELSE {l \in {"N1", "N2"} : u \in IF l = "N1" THEN N1Ids(o, s) ELSE N2Ids(o, s)}

===========================================================================
