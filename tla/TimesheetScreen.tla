-------------------------- MODULE TimesheetScreen --------------------------
(***************************************************************************)
(* The page of a timesheet (timesheet-grid.tsx over use-api-data.ts) put   *)
(* in front of the requests of TimesheetWorkflow.  A page shows what its   *)
(* last load answered, and a grid of rows that is filled from it and typed *)
(* into; it sends the whole grid, and offers the buttons the answer gave   *)
(* its reader a right to.  Meanwhile other pages change the sheet, answers *)
(* fail to arrive, and the list of task types -- asked for with the sheet  *)
(* and empty until it comes, in production -- fills the grid again.        *)
(*                                                                         *)
(* A request is carried out and answered in one step; the organisation is  *)
(* fixed.  A row stands for the columns the server's decisions look at.    *)
(***************************************************************************)
EXTENDS TimesheetWorkflow

CONSTANTS
  Pages,      \* browser windows
  NewRows,    \* keys of rows that have no line yet
  Starts,     \* the sheets a behaviour starts from, with their lines
  MaxClicks,  \* bound on the requests other than loads
  MaxTyped    \* bound on what is typed between two loads of a page

\* A page may always put in a row, and the server always finds an identifier
\* for it: LineIds outnumbers what the sheet and the pages hold, and a new save.
ASSUME ScreenAssumption ==
  /\ NewRows # {} /\ NewRows \cap LineIds = {}
  /\ \A st \in Starts : st.sheet \in Sheet /\ DOMAIN st.lines \subseteq LineIds
  /\ {MaxClicks, MaxTyped} \subseteq Nat
  /\ 0 \in Hours /\ MaxLines > 0
  /\ IsFiniteSet(Pages) /\ IsFiniteSet(LineIds)
  /\ Cardinality(LineIds) >= MaxLines * (Cardinality(Pages) + 2)

VARIABLES
  page,    \* page[x]: what window x shows and waits for
  clicks   \* requests sent so far

screenVars == <<page, clicks>>

Row == [site : Sites \cup {NoSite}, place : {"SITE", "OFFICE"}, hours : Hours]

NoRows == [r \in {} |-> 0]

Closed == [pc |-> "closed", user |-> NoUser, sheet |-> NoSheet, lines |-> NoLines,
           rows |-> NoRows, lists |-> FALSE, typed |-> 0,
           saving |-> "NONE", sent |-> NoRows, acting |-> "NONE"]

ScreenInit ==
  /\ OrgInit
  /\ \E st \in Starts : sheet = st.sheet /\ lines = st.lines
  /\ page = [x \in Pages |-> Closed]
  /\ clicks = 0

---------------------------------------------------------------------------
(* What a page shows and offers.                                           *)

\* canUpdateTimesheet, which comes with the sheet and is asked again by a save.
CanUpdate(u, sh, ls) ==
  IF sh.status \in Editable THEN sh.owner = u \/ role[u] # "EMPLOYEE"
  ELSE /\ sh.status # "APPROVED"
       /\ sh.owner # u
       /\ \E l \in DOMAIN ls : CanEditLine(u, sh.owner, ls[l])

CanEdit(x) == CanUpdate(page[x].user, page[x].sheet, page[x].lines)

\* Mutant: what may be edited somewhere may be edited everywhere.
SheetEditable(x, r) == CanEdit(x)

\* rowCanEdit: outside of a draft, row by row.
RowEditable(x, r) ==
  IF page[x].sheet.status \in Editable THEN CanEdit(x)
  ELSE /\ r \in DOMAIN page[x].lines
       /\ CanEditLine(page[x].user, page[x].sheet.owner, page[x].lines[r])

StructureEditable(x) == page[x].sheet.status \in Editable /\ CanEdit(x)

\* Mutant: any open site.
AllOpenSites(o) == OpenSites

\* The sites a line may name on the page: those its owner is assigned to,
\* manages, or is the chief of.
SitesForUser(o) ==
  {s \in OpenSites : o \in assigned[s] \/ o \in {ManagerOf(s), ChiefOf(s)}}

BlankRow == [site |-> NoSite, place |-> "SITE", hours |-> 0]

\* initialRows
RowsOf(u, sh, ls) ==
  IF DOMAIN ls = {} /\ CanUpdate(u, sh, ls)
  THEN [r \in {CHOOSE n \in NewRows : TRUE} |-> BlankRow]
  ELSE [l \in DOMAIN ls |->
          [site |-> ls[l].site, place |-> IF ls[l].site = NoSite THEN "OFFICE" ELSE "SITE",
           hours |-> ls[l].hours]]

\* rowsValidationError.  A new row has a task type once the list is there.
Valid(x) ==
  LET rows == page[x].rows
  IN  /\ \E r \in DOMAIN rows : rows[r].hours > 0
      /\ \A r \in DOMAIN rows :
           /\ rows[r].place = "SITE" => rows[r].site # NoSite
           /\ r \in NewRows => page[x].lists

\* The buttons of the page.
Offered(x, b) ==
  LET u == page[x].user
      sh == page[x].sheet
      ls == page[x].lines
      editor == role[u] \in {"RESOURCE_MANAGER", "HR", "PROJECT_MANAGER", "MANAGER"}
  IN  \/ b = "SAVE" /\ CanEdit(x)
      \/ b = "SUBMIT" /\ sh.status \in Editable /\ (u = sh.owner \/ editor)
      \/ b = "APPROVE" /\ ApprovalStage(u, sh.owner, ls) # "NONE"
      \/ b = "REJECT" /\ RejectableLines(u, sh.owner, ls) # {}
      \/ b = "REOPEN" /\ sh.status = "REJECTED" /\ role[u] \in {"RESOURCE_MANAGER", "HR"}
      \/ b = "DELETE" /\ sh.status = "DRAFT" /\ u = sh.owner

---------------------------------------------------------------------------
(* Loading.                                                                *)

\* From the list of timesheets, which has the same scope as the page.
Open(x, u) ==
  /\ page[x].pc = "closed"
  /\ InScope(u, sheet)
  /\ page' = [page EXCEPT ![x] = [Closed EXCEPT !.pc = "loading", !.user = u]]
  /\ UNCHANGED <<clicks, tsVars>>

\* The grid is mounted anew, its rows filled from the answer.
Load(x) ==
  /\ page[x].pc = "loading"
  /\ InScope(page[x].user, sheet)
  /\ page' = [page EXCEPT ![x] =
       [Closed EXCEPT !.pc = "ready", !.user = page[x].user, !.acting = page[x].acting,
                      !.sheet = sheet, !.lines = lines,
                      !.rows = RowsOf(page[x].user, sheet, lines)]]
  /\ UNCHANGED <<clicks, tsVars>>

\* The sheet is gone, or no answer came: the page says so, and goes on showing
\* what it showed before.
LoadFails(x) ==
  /\ page[x].pc = "loading"
  /\ page' = [page EXCEPT ![x] =
       IF @.sheet = NoSheet THEN Closed
       ELSE [@ EXCEPT !.pc = "ready", !.rows = RowsOf(page[x].user, page[x].sheet, page[x].lines),
                      !.lists = FALSE, !.typed = 0]]
  /\ UNCHANGED <<clicks, tsVars>>

\* The default task type changes, and with it the rows the grid starts from.
ListsArrive(x) ==
  /\ page[x].pc = "ready"
  /\ ~page[x].lists
  /\ page' = [page EXCEPT ![x].lists = TRUE,
                          ![x].rows = RowsOf(page[x].user, page[x].sheet, page[x].lines)]
  /\ UNCHANGED <<clicks, tsVars>>

Leave(x) ==
  /\ page[x].pc = "ready"
  /\ page[x].saving = "NONE" /\ page[x].acting = "NONE"
  /\ page' = [page EXCEPT ![x] = Closed]
  /\ UNCHANGED <<clicks, tsVars>>

---------------------------------------------------------------------------
(* Typing, which nothing forbids while a request is under way.             *)

Types(x, rows) ==
  /\ page[x].pc = "ready"
  /\ page[x].typed < MaxTyped
  /\ page' = [page EXCEPT ![x].rows = rows, ![x].typed = @ + 1]
  /\ UNCHANGED <<clicks, tsVars>>

SetHours(x, r, h) ==
  /\ RowEditable(x, r)
  /\ Types(x, [page[x].rows EXCEPT ![r].hours = h])

\* Without a site, the work is done at the office; choosing another project
\* takes the site away but leaves the place.
SetSite(x, r, s) ==
  /\ StructureEditable(x)
  /\ s \in SitesForUser(page[x].sheet.owner) \cup {NoSite}
  /\ \E place \in IF s = NoSite THEN {"OFFICE", page[x].rows[r].place} ELSE {"SITE"} :
       Types(x, [page[x].rows EXCEPT ![r].site = s, ![r].place = place])

AddRow(x) ==
  /\ StructureEditable(x)
  /\ Cardinality(DOMAIN page[x].rows) < MaxLines
  /\ LET free == NewRows \ DOMAIN page[x].rows
     IN  /\ free # {}
         /\ LET n == CHOOSE r \in free : TRUE
            IN  Types(x, [r \in DOMAIN page[x].rows \cup {n} |->
                            IF r = n THEN BlankRow ELSE page[x].rows[r]])

RemoveRow(x, r) ==
  /\ StructureEditable(x)
  /\ Types(x, [q \in DOMAIN page[x].rows \ {r} |-> page[x].rows[q]])

---------------------------------------------------------------------------
(* Saving.  Whatever the outcome, its buttons come back.                   *)

\* `next` is what follows an accepted save: a load, or the submission.
Save(x, next) ==
  /\ page[x].pc = "ready"
  /\ page[x].saving = "NONE" /\ page[x].acting = "NONE"
  /\ clicks < MaxClicks
  /\ Valid(x)
  /\ Offered(x, next)
  /\ clicks' = clicks + 1
  /\ page' = [page EXCEPT ![x].saving = next, ![x].sent = page[x].rows]
  /\ UNCHANGED tsVars

\* The server gives every line it inserts a new identifier.
Inserted(rows) ==
  LET used == DOMAIN lines \cup UNION {DOMAIN page[y].lines : y \in Pages}
      ids == CHOOSE f \in [DOMAIN rows -> LineIds \ used] :
               \A q, r \in DOMAIN rows : f[q] = f[r] => q = r
  IN  [l \in {ids[r] : r \in DOMAIN rows} |->
         LET row == rows[CHOOSE r \in DOMAIN rows : ids[r] = l]
         IN  NewLine(row.site, row.hours)]

\* `update`: the owner's rows replace the lines of a draft; anybody else's
\* change those of them he may edit, and no other.
Update(u, rows) ==
  /\ InScope(u, sheet)
  /\ CanUpdate(u, sheet, lines)
  /\ IF sheet.status \in Editable /\ sheet.owner = u
     THEN ReplaceLines(u, Inserted(rows))
     ELSE LET mine == DOMAIN rows \cap EditableLines(u, sheet, lines)
          IN  /\ \A l \in mine : rows[l].site = lines[l].site
              /\ EditLines(u, [l \in mine |-> rows[l].hours])

\* An accepted save loads the page again, or goes on to submit.
SaveAccepted(x) ==
  /\ page[x].saving # "NONE"
  /\ Update(page[x].user, page[x].sent)
  /\ page' = [page EXCEPT
       ![x].pc = IF page[x].saving = "SAVE" THEN "loading" ELSE @,
       ![x].acting = IF page[x].saving = "SUBMIT" THEN "SUBMIT" ELSE @,
       ![x].saving = "NONE", ![x].sent = NoRows]
  /\ UNCHANGED clicks

\* Carried out, but the answer is lost.
SaveUnheard(x) ==
  /\ page[x].saving # "NONE"
  /\ Update(page[x].user, page[x].sent)
  /\ page' = [page EXCEPT ![x].saving = "NONE", ![x].sent = NoRows]
  /\ UNCHANGED clicks

\* Mutant: the button waits for an answer for ever.
RefusedIfSheet(x) ==
  /\ page[x].saving # "NONE"
  /\ sheet # NoSheet
  /\ page' = [page EXCEPT ![x].saving = "NONE", ![x].sent = NoRows]
  /\ UNCHANGED <<clicks, tsVars>>

\* Refused, or lost on the way.
SaveFails(x) ==
  /\ page[x].saving # "NONE"
  /\ page' = [page EXCEPT ![x].saving = "NONE", ![x].sent = NoRows]
  /\ UNCHANGED <<clicks, tsVars>>

---------------------------------------------------------------------------
(* The other buttons.                                                      *)

\* Deleting and reopening do not wait for a save that is under way.
Act(x, b) ==
  /\ page[x].pc = "ready"
  /\ page[x].acting = "NONE"
  /\ b \in {"APPROVE", "REJECT"} => page[x].saving = "NONE"
  /\ clicks < MaxClicks
  /\ Offered(x, b)
  /\ clicks' = clicks + 1
  /\ page' = [page EXCEPT ![x].acting = b]
  /\ UNCHANGED tsVars

Perform(u, b) ==
  CASE b = "SUBMIT" -> Submit(u)
    [] b = "APPROVE" -> Approve(u)
    [] b = "REJECT" -> Reject(u)
    [] b = "REOPEN" -> Reopen(u)
    [] b = "DELETE" -> Remove(u)

\* A save that is under way when the page is left or loaded again comes too late
\* to change anything.
Performed(x) ==
  /\ page[x].acting # "NONE"
  /\ Perform(page[x].user, page[x].acting)
  /\ page' = [page EXCEPT ![x] =
       IF @.acting = "DELETE" THEN Closed
       ELSE [@ EXCEPT !.pc = "loading", !.acting = "NONE", !.saving = "NONE", !.sent = NoRows]]
  /\ UNCHANGED clicks

PerformedUnheard(x) ==
  /\ page[x].acting # "NONE"
  /\ Perform(page[x].user, page[x].acting)
  /\ page' = [page EXCEPT ![x].acting = "NONE"]
  /\ UNCHANGED clicks

ActFails(x) ==
  /\ page[x].acting # "NONE"
  /\ page' = [page EXCEPT ![x].acting = "NONE"]
  /\ UNCHANGED <<clicks, tsVars>>

\* What is done in windows that are not followed here: a button, or a save of the
\* owner who changed one of his lines.
Elsewhere ==
  /\ clicks < MaxClicks
  /\ clicks' = clicks + 1
  /\ \/ \E u \in active, b \in {"SUBMIT", "APPROVE", "REJECT", "REOPEN", "DELETE"} : Perform(u, b)
     \/ \E l \in DOMAIN lines, h \in Hours :
          /\ sheet.status \in Editable
          /\ Update(sheet.owner, [lines EXCEPT ![l].hours = h])
  /\ UNCHANGED page

---------------------------------------------------------------------------

Answered(x) ==
  /\ \/ Load(x) \/ LoadFails(x)
     \/ SaveAccepted(x) \/ SaveUnheard(x) \/ SaveFails(x)
     \/ Performed(x) \/ PerformedUnheard(x) \/ ActFails(x)
  /\ UNCHANGED orgVars

ScreenNext ==
  /\ \/ Elsewhere
     \/ \E x \in Pages :
          \/ \E u \in active : Open(x, u)
          \/ ListsArrive(x)
          \/ Leave(x)
          \/ \E r \in DOMAIN page[x].rows, h \in Hours : SetHours(x, r, h)
          \/ \E r \in DOMAIN page[x].rows, s \in Sites \cup {NoSite} : SetSite(x, r, s)
          \/ AddRow(x)
          \/ \E r \in DOMAIN page[x].rows : RemoveRow(x, r)
          \/ \E b \in {"SAVE", "SUBMIT"} : Save(x, b)
          \/ \E b \in {"APPROVE", "REJECT", "REOPEN", "DELETE"} : Act(x, b)
          \/ Answered(x)
  /\ UNCHANGED orgVars

screen == <<vars, screenVars>>

\* Every request ends: the browser answers for a server that does not.
ScreenSpec ==
  ScreenInit /\ [][ScreenNext]_screen /\ \A x \in Pages : WF_screen(Answered(x))

---------------------------------------------------------------------------
(* What holds of the pages and of what they send.                          *)

\* Who must act can open the page: whoever's turn it is on a sheet filled in on
\* the page has it in his scope.  The turn goes by the sites of the lines, the
\* scope by the teams of the hierarchy service, and the sites that are offered
\* by a third search; the API accepts lines of any site.
ValidatorsCanOpen ==
  RoutingIsSound =>
    \A u \in active : ApprovalStage(u, sheet.owner, lines) # "NONE" => InScope(u, sheet)

SameLines(rows, ls) ==
  \A s \in Sites \cup {NoSite}, h \in Hours :
    Cardinality({r \in DOMAIN rows : rows[r].site = s /\ rows[r].hours = h}) =
    Cardinality({l \in DOMAIN ls : ls[l].site = s /\ ls[l].hours = h})

\* What the page says is saved is what is stored, row for row.  The owner's page
\* may be out of date; a validator's, which sends rows the server passes over in
\* silence, must show the sheet as it is, and not a draft.
AcceptedIsStored ==
  [][\A x \in Pages :
       LET p == page[x]
           accepted == p.saving # "NONE" /\ page'[x].saving = "NONE"
                         /\ (page'[x].pc = "loading" \/ page'[x].acting = "SUBMIT")
                         /\ p.acting = "NONE"
           heeded == p.user = sheet.owner
                       \/ (sheet.status \notin Editable /\ p.sheet = sheet /\ p.lines = lines)
       IN  accepted /\ heeded => SameLines(p.sent, lines')]_screen

\* No page is left waiting, whatever is refused or lost, and although a
\* submission is two requests: its buttons come back.
ClicksSettle ==
  \A x \in Pages :
    (page[x].saving # "NONE" \/ page[x].acting # "NONE" \/ page[x].pc = "loading") ~>
      (page[x].saving = "NONE" /\ page[x].acting = "NONE" /\ page[x].pc # "loading")

===========================================================================
