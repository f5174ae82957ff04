--------------------------- MODULE TimesheetRules ---------------------------
(***************************************************************************)
(* The decisions timesheets.service.ts takes about a timesheet it has read *)
(* from the database: who may see it, edit it, submit it, validate it, and *)
(* which status its lines add up to.  They are operators of the rows that  *)
(* were read -- the sheet row and its lines -- so that the serial workflow *)
(* (TimesheetWorkflow) and the concurrent one (TimesheetRequests) take the *)
(* same decisions, the second one on rows that may have changed since.     *)
(***************************************************************************)
EXTENDS Organisation, FiniteSets

CONSTANTS
  LineIds,    \* identifiers of timesheet_line rows
  Hours,      \* total hours a line may hold
  MaxLines    \* bound on the lines of one sheet

ASSUME RulesAssumption ==
  /\ Hours \subseteq Nat
  /\ MaxLines \in Nat

SheetStatus == {"DRAFT", "SUBMITTED", "N1_APPROVED", "APPROVED", "REJECTED",
                "REOPENED"}

LineStatus == {"DRAFT", "SUBMITTED", "SITE_APPROVED", "APPROVED", "REJECTED"}

\* The newest ApprovalAction row of an entity: its author and newStatus.
ApprovalActions ==
  [by : Users \cup {NoUser}, status : SheetStatus \cup LineStatus \cup {"NONE"}]
NoAction == [by |-> NoUser, status |-> "NONE"]

\* `hours` stands for the total of the line's day entries.
Line == [site : Sites \cup {NoSite}, status : LineStatus, hours : Hours,
         siteBy : Users \cup {NoUser},      \* siteApprovedById
         projectBy : Users \cup {NoUser},   \* projectApprovedById
         rejectedBy : Users \cup {NoUser},  \* rejectedById
         action : ApprovalActions]

\* "NONE" when there is no such row: never created, or deleted.
Sheet == [status : SheetStatus \cup {"NONE"}, owner : Users \cup {NoUser},
          action : ApprovalActions]
NoSheet == [status |-> "NONE", owner |-> NoUser, action |-> NoAction]

NewLine(s, h) ==
  [site |-> s, status |-> "DRAFT", hours |-> h, siteBy |-> NoUser,
   projectBy |-> NoUser, rejectedBy |-> NoUser, action |-> NoAction]

---------------------------------------------------------------------------
(* Who sees and edits the sheet.                                           *)

Editable == {"DRAFT", "REOPENED"}

\* The `where` clause added to most reads: a draft is its owner's only.
InScope(u, sh) ==
  /\ sh.status # "NONE"
  /\ \/ sh.owner = u
     \/ sh.status # "DRAFT" /\ sh.owner \in ManagedUsers(u)

\* Mutant: working on the site is taken for managing it.
OwnerWorksOn(o, ln) == ln.site # NoSite /\ o \in assigned[ln.site]

OwnerManages(o, ln) == ln.site # NoSite /\ ManagerOf(ln.site) = o

\* Mutant: the site manager may still edit what he has approved.
CanEditSignedLine(u, o, ln) ==
  /\ u # o
  /\ ProjectOf(ln.site) # NoProject
  /\ ManagerOf(ln.site) = u
  /\ ln.status \in {"SUBMITTED", "REJECTED", "SITE_APPROVED"}

\* lineApprovalPermissions.canEdit
CanEditLine(u, o, ln) ==
  /\ u # o
  /\ ProjectOf(ln.site) # NoProject
  /\ \/ ManagerOf(ln.site) = u /\ ln.status \in {"SUBMITTED", "REJECTED"}
     \/ /\ ChiefOf(ln.site) = u
        /\ OwnerManages(o, ln)
        /\ ln.status = "SUBMITTED"

\* The lines a validator's save reaches: the sheet must pass canUpdateTimesheet
\* (which lets any manager into an editable sheet, whose lines are drafts),
\* and the lines he may not edit are skipped.
EditableLines(u, sh, ls) ==
  {l \in DOMAIN ls : /\ sh.status # "APPROVED"
                     /\ ~(sh.status \in Editable /\ role[u] = "EMPLOYEE")
                     /\ CanEditLine(u, sh.owner, ls[l])}

\* Mutant: the refusal is not cleared.
CorrectedKeepingRefusal(ln, h) ==
  IF ln.status = "REJECTED"
  THEN [ln EXCEPT !.hours = h, !.status = "SUBMITTED"]
  ELSE [ln EXCEPT !.hours = h]

\* A corrected line goes back to the site manager; any other keeps the status
\* it was read with.
Corrected(ln, h) ==
  IF ln.status = "REJECTED"
  THEN [ln EXCEPT !.hours = h, !.status = "SUBMITTED", !.rejectedBy = NoUser]
  ELSE [ln EXCEPT !.hours = h]

---------------------------------------------------------------------------
(* Who may submit it.                                                      *)

\* A sheet is worth validating when it has a line and some hours; day
\* entries are never negative.
HasWorkEntries(ls) == \E l \in DOMAIN ls : ls[l].hours > 0

Routed(ln) ==
  /\ ManagerOf(ln.site) # NoUser
  /\ ProjectOf(ln.site) # NoProject

CanSubmit(u, sh, ls) ==
  /\ InScope(u, sh)
  /\ sh.status \in Editable
  /\ HasWorkEntries(ls)
  /\ \A l \in DOMAIN ls : Routed(ls[l])

\* Mutant: transition's own condition, without the check in front of it.
CanReopenApproved(u, sh) ==
  /\ role[u] \in {"RESOURCE_MANAGER", "HR"}
  /\ InScope(u, sh)
  /\ sh.status \in {"APPROVED", "REJECTED"}

\* The reopen endpoint refuses an approved sheet before `transition`, which
\* would take one, is called.
CanReopen(u, sh) ==
  /\ role[u] \in {"RESOURCE_MANAGER", "HR"}
  /\ InScope(u, sh)
  /\ sh.status = "REJECTED"

\* Mutant: reopening keeps the site manager's signature.
ResetLineKeepingSite(ln, st) ==
  [ln EXCEPT !.status = st, !.projectBy = NoUser, !.rejectedBy = NoUser]

\* What submitting and reopening write in every line.
ResetLine(ln, st) ==
  [ln EXCEPT !.status = st, !.siteBy = NoUser, !.projectBy = NoUser,
             !.rejectedBy = NoUser]

---------------------------------------------------------------------------
(* Who may validate it: first the manager of the site, then the chief of   *)
(* the project; the chief alone when the owner manages the site.           *)

ManagesLine(u, o, ln) ==
  /\ ln.site # NoSite
  /\ ManagerOf(ln.site) = u
  /\ u # o

SiteDecidable(u, o, ln) == ManagesLine(u, o, ln) /\ ln.status = "SUBMITTED"

ProjectDecidable(u, o, ln) ==
  /\ ProjectOf(ln.site) # NoProject
  /\ ChiefOf(ln.site) = u
  /\ ln.status = IF OwnerManages(o, ln) THEN "SUBMITTED" ELSE "SITE_APPROVED"

\* Mutant: a line another chief has signed is no longer ready.
ReadyUnlessApproved(o, ln) ==
  ln.status = IF OwnerManages(o, ln) THEN "SUBMITTED" ELSE "SITE_APPROVED"

ReadyForProject(o, ln) ==
  ln.status \in IF OwnerManages(o, ln) THEN {"SUBMITTED", "APPROVED"}
                                       ELSE {"SITE_APPROVED", "APPROVED"}

\* Mutant: the owner is not turned away first.
StageForAnyone(u, o, ls) ==
  LET siteLines == {l \in DOMAIN ls : ManagesLine(u, o, ls[l])}
  IN  IF \E l \in siteLines : ls[l].status = "SUBMITTED" THEN "SITE"
      ELSE IF /\ \A l \in DOMAIN ls : ReadyForProject(o, ls[l])
              /\ \E l \in DOMAIN ls : ProjectDecidable(u, o, ls[l])
      THEN "PROJECT"
      ELSE "NONE"

\* globalApprovalPermissions.approvalStage
ApprovalStage(u, o, ls) ==
  LET siteLines == {l \in DOMAIN ls : ManagesLine(u, o, ls[l])}
  IN  IF u = o THEN "NONE"
      ELSE IF \E l \in siteLines : ls[l].status = "SUBMITTED"
      THEN IF \E l \in siteLines : ls[l].status = "REJECTED"
           THEN "NONE" ELSE "SITE"
      ELSE IF /\ \A l \in DOMAIN ls : ReadyForProject(o, ls[l])
              /\ \E l \in DOMAIN ls : ProjectDecidable(u, o, ls[l])
      THEN "PROJECT"
      ELSE "NONE"

\* The lines one approval covers, at the stage it was granted for.
ApprovableLines(u, o, ls) ==
  CASE ApprovalStage(u, o, ls) = "SITE" ->
         {l \in DOMAIN ls : SiteDecidable(u, o, ls[l])}
    [] ApprovalStage(u, o, ls) = "PROJECT" ->
         {l \in DOMAIN ls : ProjectDecidable(u, o, ls[l])}
    [] OTHER -> {}

\* Mutant: a chief may refuse what he has approved.
RejectableApproved(u, o, ls) ==
  {l \in DOMAIN ls : /\ ProjectOf(ls[l].site) # NoProject
                     /\ ChiefOf(ls[l].site) = u
                     /\ ls[l].status \in {"SITE_APPROVED", "APPROVED"}}

\* Only lines a site manager has approved can be refused, and only when the
\* chief has no line of a site its owner manages.
RejectableLines(u, o, ls) ==
  IF /\ ApprovalStage(u, o, ls) = "PROJECT"
     /\ \A l \in DOMAIN ls :
          ProjectDecidable(u, o, ls[l]) => ~OwnerManages(o, ls[l])
  THEN {l \in DOMAIN ls : /\ ProjectOf(ls[l].site) # NoProject
                          /\ ChiefOf(ls[l].site) = u
                          /\ ls[l].status = "SITE_APPROVED"}
  ELSE {}

\* What approving writes in a line; the chief's approval clears nothing.
Approved(ln, u, stage) ==
  IF stage = "SITE"
  THEN [ln EXCEPT !.status = "SITE_APPROVED", !.siteBy = u,
                  !.rejectedBy = NoUser]
  ELSE [ln EXCEPT !.status = "APPROVED", !.projectBy = u]

Rejected(ln, u) ==
  [ln EXCEPT !.status = "REJECTED", !.rejectedBy = u, !.projectBy = NoUser]

\* Mutant: a decision leaves no approval action.
NotRecorded(ln, u, st) == ln

Recorded(ln, u, st) == [ln EXCEPT !.action = [by |-> u, status |-> st]]

\* Mutant: one approved line outweighs a rejected one.
AggregateApprovedFirst(ls) ==
  LET statuses == {ls[l].status : l \in DOMAIN ls}
  IN  IF statuses \subseteq {"APPROVED"} THEN "APPROVED"
      ELSE IF statuses \cap {"SITE_APPROVED", "APPROVED"} # {} THEN "N1_APPROVED"
      ELSE IF "REJECTED" \in statuses THEN "REJECTED"
      ELSE "SUBMITTED"

\* Mutant: one approved line is enough.
AggregateSome(ls) ==
  IF \E l \in DOMAIN ls : ls[l].status = "APPROVED" THEN "APPROVED"
  ELSE IF \E l \in DOMAIN ls : ls[l].status = "REJECTED" THEN "REJECTED"
  ELSE IF \E l \in DOMAIN ls : ls[l].status = "SITE_APPROVED" THEN "N1_APPROVED"
  ELSE "SUBMITTED"

\* Mutant: a status of lines ends up in the sheet.
AggregateOfLines(ls) ==
  IF \A l \in DOMAIN ls : ls[l].status = "APPROVED" THEN "APPROVED"
  ELSE "SITE_APPROVED"

\* refreshAggregateStatus: what the lines add up to.
Aggregate(ls) ==
  LET statuses == {ls[l].status : l \in DOMAIN ls}
  IN  IF statuses \subseteq {"APPROVED"} THEN "APPROVED"
      ELSE IF "REJECTED" \in statuses THEN "REJECTED"
      ELSE IF statuses \cap {"SITE_APPROVED", "APPROVED"} # {} THEN "N1_APPROVED"
      ELSE "SUBMITTED"

===========================================================================
