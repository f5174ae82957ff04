------------------------- MODULE TimesheetWorkflow -------------------------
(***************************************************************************)
(* The life of one timesheet (one owner, one period) when every HTTP       *)
(* request runs alone: the service each endpoint promises.  The variables  *)
(* are the timesheet row and its line rows; the organisation may change    *)
(* between two requests.  TimesheetRequests splits these requests into the *)
(* statements the service really executes and lets them interleave.        *)
(*                                                                         *)
(* A line's identifier is recycled once its row is deleted: no request     *)
(* that runs alone can tell.                                               *)
(***************************************************************************)
EXTENDS TimesheetRules

VARIABLES
  sheet,   \* the timesheet row, NoSheet when there is none
  lines    \* its timesheet_line rows, by identifier

tsVars == <<sheet, lines>>
vars == <<tsVars, orgVars>>

NoLines == [l \in {} |-> NewLine(NoSite, 0)]

TSTypeOK ==
  /\ sheet \in Sheet
  /\ DOMAIN lines \subseteq LineIds
  /\ lines \in [DOMAIN lines -> Line]

Init ==
  /\ OrgInit
  /\ sheet = NoSheet
  /\ lines = NoLines

\* POST /timesheets, for oneself or, unless an employee, for one's team.
\* The tenant-less SUPER_ADMIN is refused.
Create(u, o) ==
  /\ sheet = NoSheet
  /\ role[u] # "SUPER_ADMIN"
  /\ o # u => role[u] # "EMPLOYEE" /\ o \in ManagedUsers(u)
  /\ sheet' = [NoSheet EXCEPT !.status = "DRAFT", !.owner = o]
  /\ UNCHANGED lines

\* findSiteForLine refuses a deleted site.
OpenSites == {s \in Sites : site[s].state = "open"}

\* PUT /timesheets/:id by the owner of an editable sheet: all its lines are
\* replaced by new rows.  A line names an existing site or none.
ReplaceLines(u, new) ==
  /\ sheet.status \in Editable
  /\ sheet.owner = u
  /\ \A l \in DOMAIN new : new[l].site \in OpenSites \cup {NoSite}
  /\ lines' = new
  /\ UNCHANGED sheet

\* PUT /timesheets/:id by anybody else: `edits` gives the new hours of the
\* lines the caller may edit.  The status of the sheet is not refreshed.
EditLines(u, edits) ==
  /\ InScope(u, sheet)
  /\ DOMAIN edits \subseteq EditableLines(u, sheet, lines)
  /\ lines' = [l \in DOMAIN lines |->
                 IF l \in DOMAIN edits THEN Corrected(lines[l], edits[l])
                                       ELSE lines[l]]
  /\ UNCHANGED sheet

\* DELETE /timesheets/:id; the lines go with the row.
Remove(u) ==
  /\ sheet.status = "DRAFT"
  /\ sheet.owner = u
  /\ sheet' = NoSheet
  /\ lines' = NoLines

\* What a status change by `transition` writes in the sheet, in the lines
\* and in the approval actions.
Transition(u, to, lineStatus) ==
  /\ sheet' = [sheet EXCEPT !.status = to,
                            !.action = [by |-> u, status |-> to]]
  /\ lines' = [l \in DOMAIN lines |-> ResetLine(lines[l], lineStatus)]

\* POST /timesheets/:id/submit
Submit(u) ==
  /\ CanSubmit(u, sheet, lines)
  /\ Transition(u, "SUBMITTED", "SUBMITTED")

\* POST /timesheets/:id/reopen
Reopen(u) ==
  /\ CanReopen(u, sheet)
  /\ Transition(u, "REOPENED", "DRAFT")

\* POST /timesheets/:id/approve: the lines the caller may validate at his
\* stage, then the aggregate status.  Only line decisions are recorded.
Approve(u) ==
  LET stage == ApprovalStage(u, sheet.owner, lines)
      todo == ApprovableLines(u, sheet.owner, lines)
      decided(l) == Approved(lines[l], u, stage)
  IN  /\ sheet # NoSheet
      /\ stage # "NONE"
      /\ lines' = [l \in DOMAIN lines |->
                     IF l \in todo
                     THEN Recorded(decided(l), u, decided(l).status)
                     ELSE lines[l]]
      /\ sheet' = [sheet EXCEPT !.status = Aggregate(lines')]

\* POST /timesheets/:id/reject
Reject(u) ==
  LET todo == RejectableLines(u, sheet.owner, lines)
  IN  /\ sheet # NoSheet
      /\ todo # {}
      /\ lines' = [l \in DOMAIN lines |->
                     IF l \in todo
                     THEN Recorded(Rejected(lines[l], u), u, "REJECTED")
                     ELSE lines[l]]
      /\ sheet' = [sheet EXCEPT !.status = Aggregate(lines')]

Request(u) ==
  \/ \E o \in Users : Create(u, o)
  \/ \E S \in SUBSET LineIds :
       /\ Cardinality(S) <= MaxLines
       /\ \E at \in [S -> Sites \cup {NoSite}], h \in [S -> Hours] :
            ReplaceLines(u, [l \in S |-> NewLine(at[l], h[l])])
  \/ \E S \in SUBSET EditableLines(u, sheet, lines) :
       \E edits \in [S -> Hours] : EditLines(u, edits)
  \/ Remove(u)
  \/ Submit(u)
  \/ Reopen(u)
  \/ Approve(u)
  \/ Reject(u)

Next ==
  \/ /\ \E u \in active : Request(u)
     /\ UNCHANGED orgVars
  \/ /\ Reorganise
     /\ UNCHANGED tsVars

Spec == Init /\ [][Next]_vars

---------------------------------------------------------------------------
(* What holds of it.                                                       *)

LineStatuses == {lines[l].status : l \in DOMAIN lines}

\* Nobody signs his own timesheet, at either stage, whoever he becomes in the
\* organisation (permissions-audit.md: "A user cannot approve or reject their
\* own timesheet").
NoSelfApproval ==
  \A l \in DOMAIN lines :
    sheet.owner \notin {lines[l].siteBy, lines[l].projectBy, lines[l].rejectedBy}

\* The status of the sheet and those of its lines agree.  Approve and reject
\* look at the lines alone, submit and reopen at the sheet alone: each relies
\* on the other half being in step.  A rejected sheet may have no rejected line
\* left, since a correction does not refresh the aggregate.
SheetMatchesLines ==
  CASE sheet.status = "NONE" -> lines = NoLines
    [] sheet.status \in Editable -> LineStatuses \subseteq {"DRAFT"}
    [] sheet.status = "SUBMITTED" -> LineStatuses = {"SUBMITTED"}
    [] sheet.status = "N1_APPROVED" ->
         /\ LineStatuses \subseteq {"SUBMITTED", "SITE_APPROVED", "APPROVED"}
         /\ LineStatuses \cap {"SITE_APPROVED", "APPROVED"} # {}
         /\ LineStatuses # {"APPROVED"}
    [] sheet.status = "APPROVED" -> LineStatuses = {"APPROVED"}
    [] sheet.status = "REJECTED" ->
         /\ "DRAFT" \notin LineStatuses
         /\ LineStatuses \cap {"SUBMITTED", "REJECTED"} # {}

\* The signatures a line carries are those its status claims: none survives a
\* reopening, a chief's signature exists exactly on approved lines, and a line
\* that has been refused had been approved on site.
SignaturesMatchStatus ==
  \A l \in DOMAIN lines :
    LET ln == lines[l]
    IN  /\ ln.status = "DRAFT" => ln.siteBy = NoUser
        /\ ln.projectBy # NoUser <=> ln.status = "APPROVED"
        /\ ln.rejectedBy # NoUser <=> ln.status = "REJECTED"
        /\ ln.status \in {"SITE_APPROVED", "REJECTED"} => ln.siteBy # NoUser

\* The newest approval action of a decided line names its decision and the one
\* who signed it.
DecisionsAreRecorded ==
  \A l \in DOMAIN lines :
    LET ln == lines[l]
        signer == CASE ln.status = "SITE_APPROVED" -> ln.siteBy
                    [] ln.status = "APPROVED" -> ln.projectBy
                    [] OTHER -> ln.rejectedBy
    IN  ln.status \in {"SITE_APPROVED", "APPROVED", "REJECTED"}
          => ln.action = [by |-> signer, status |-> ln.status]

\* Once every line is signed the sheet never changes again ("Une feuille
\* approuvee est disponible uniquement en consultation"): no request finds a
\* way back in, although approve, reject and the edit of a validator do not
\* look for an approved sheet, and whatever happens to the organisation.  Of two
\* statements that differ it is the one the service makes (timesheets.service.ts:397);
\* README.md:150 lists APPROVED -> REOPENED, which Reopen refuses.
ApprovedIsFinal ==
  [][sheet.status = "APPROVED" => UNCHANGED tsVars]_vars

\* A chief signs a line only after a site manager did, unless the owner is the
\* manager of the site.
NoSkippedStage ==
  [][\A l \in DOMAIN lines \cap DOMAIN lines' :
       (lines[l].status # "APPROVED" /\ lines'[l].status = "APPROVED") =>
         \/ lines[l].status = "SITE_APPROVED" /\ lines[l].siteBy # NoUser
         \/ ManagerOf(lines[l].site) = sheet.owner]_vars

\* What was signed is what was entered: from the site manager's signature on,
\* the hours and the site of a line do not change while it stays signed.
SignedHoursAreFrozen ==
  [][\A l \in DOMAIN lines \cap DOMAIN lines' :
       {lines[l].status, lines'[l].status} \subseteq {"SITE_APPROVED", "APPROVED"} =>
         /\ lines'[l].hours = lines[l].hours
         /\ lines'[l].site = lines[l].site]_vars

\* The routing a sheet needs to get through: its validators can log in, none
\* of its chiefs is its owner, its owner did not become manager of a site that
\* had already approved, and someone may reopen.
RoutingIsSound ==
  /\ \E h \in active : role[h] \in {"RESOURCE_MANAGER", "HR"}
  /\ \A l \in DOMAIN lines :
       LET ln == lines[l]
       IN  /\ {ManagerOf(ln.site), ChiefOf(ln.site)} \subseteq active
           /\ ChiefOf(ln.site) # sheet.owner
           /\ ~(OwnerManages(sheet.owner, ln) /\ ln.status = "SITE_APPROVED")

\* A sheet that is neither approved nor in its owner's hands never waits for
\* nobody: someone can validate it, or reopen it once refused.
SomeoneCanAct ==
  sheet.status \in {"SUBMITTED", "N1_APPROVED", "REJECTED"} /\ RoutingIsSound =>
    \E u \in active :
      \/ ApprovalStage(u, sheet.owner, lines) # "NONE"
      \/ CanReopen(u, sheet)

---------------------------------------------------------------------------
(* The workflow keeps the contract of a review.                            *)

PhaseOf(st) ==
  CASE st = "NONE" -> "none"
    [] st \in Editable -> "draft"
    [] st \in {"SUBMITTED", "N1_APPROVED"} -> "review"
    [] st = "REJECTED" -> "refused"
    [] st = "APPROVED" -> "final"

StageOf(st) ==
  CASE st = "SITE_APPROVED" -> "presigned"
    [] st = "APPROVED" -> "signed"
    [] OTHER -> "unsigned"

Review == INSTANCE ReviewContract WITH
  ItemIds  <- LineIds,
  Contents <- [site : Sites \cup {NoSite}, hours : Hours],
  phase    <- PhaseOf(sheet.status),
  content  <- [l \in DOMAIN lines |-> [site |-> lines[l].site,
                                       hours |-> lines[l].hours]],
  stage    <- [l \in DOMAIN lines |-> StageOf(lines[l].status)]

\* Every request of the serial workflow is a step of the review contract or
\* leaves what it speaks about alone; its last phase is final, as for ApprovedIsFinal
\* (README.md:150 would reopen it, the service does not).
KeepsReviewContract == Review!ContractSpec

===========================================================================
