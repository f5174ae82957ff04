------------------------- MODULE TimesheetRequests -------------------------
(***************************************************************************)
(* Timesheet requests as the service executes them.  A handler reads the   *)
(* sheet, decides on what it read, and then writes with one SQL statement  *)
(* after the other; only `update` groups its writes in a transaction.      *)
(* Between two statements other requests run, and the process may die.     *)
(* PostgreSQL runs at its default isolation, READ COMMITTED: every         *)
(* statement sees what is committed and no statement checks that the row   *)
(* is still as it was read.                                                *)
(*                                                                         *)
(* A step of a request is one database statement.  The transaction of a    *)
(* validator's save is one step: its row locks make it so, but for a       *)
(* deadlock, whose victim leaves nothing behind.  The transaction of the   *)
(* owner's save is two: it deletes the lines it finds and, when it         *)
(* commits, brings in lines that no concurrent transaction has seen.       *)
(* Line identifiers are never used twice, and a deleted timesheet row is   *)
(* not the row a later POST creates.  The organisation does not change.    *)
(***************************************************************************)
EXTENDS TimesheetRules

CONSTANTS
  Requests,        \* the requests that may be in flight together
  Ops,             \* the endpoints that are called
  NoLine,          \* no line identifier
  OnePerUser,      \* nobody has two requests in flight
  CanCrash,        \* a request may die between two statements
  Submitters,      \* start from a submitted sheet of one of them, or, when
                   \* there is none, from no sheet at all
  MaxSheets        \* bound on the timesheet rows ever created

ASSUME RequestsAssumption ==
  /\ NoLine \notin LineIds
  /\ Ops \subseteq {"save", "remove", "submit", "reopen", "approve", "reject"}
  /\ {OnePerUser, CanCrash} \subseteq BOOLEAN
  /\ Submitters \subseteq Users
  /\ MaxSheets \in Nat

VARIABLES
  sheet, lines,   \* the rows, as in TimesheetWorkflow
  row,            \* which of the successive timesheet rows this one is
  used,           \* line identifiers ever used
  req             \* req[r]: what request r has read and has left to do

dbVars == <<sheet, lines, row, used>>
vars == <<dbVars, req, orgVars>>

NoLines == [l \in {} |-> NewLine(NoSite, 0)]

Idle == [pc |-> "idle", op |-> "none", user |-> NoUser, row |-> 0,
         sheet |-> NoSheet, lines |-> NoLines,  \* the rows as read
         todo |-> {},         \* lines still to decide; in an open save, the
                              \* lines it has deleted
         at |-> NoLine,       \* line decided and not yet recorded
         status |-> "NONE"]   \* aggregate about to be written

\* The contents an owner may save.
Drafts(ids) ==
  UNION {{[l \in S |-> NewLine(at[l], h[l])] :
            at \in [S -> {s \in Sites : site[s].state = "open"} \cup {NoSite}],
            h \in [S -> Hours]} :
         S \in {S \in SUBSET ids : Cardinality(S) <= MaxLines}}

\* A sheet as Create, one save and Submit leave it.
Submitted(o, draft) ==
  /\ CanSubmit(o, [NoSheet EXCEPT !.status = "DRAFT", !.owner = o], draft)
  /\ sheet = [status |-> "SUBMITTED", owner |-> o,
              action |-> [by |-> o, status |-> "SUBMITTED"]]
  /\ lines = [l \in DOMAIN draft |-> ResetLine(draft[l], "SUBMITTED")]
  /\ row = 1
  /\ used = DOMAIN draft

Init ==
  /\ OrgInit
  /\ req = [r \in Requests |-> Idle]
  /\ IF Submitters = {}
     THEN sheet = NoSheet /\ lines = NoLines /\ row = 0 /\ used = {}
     ELSE \E o \in Submitters, draft \in Drafts(LineIds) : Submitted(o, draft)

---------------------------------------------------------------------------

\* The row request r read is no longer there.
RowIsGone(r) == sheet.status = "NONE" \/ row # req[r].row

Goto(r, pc) == req' = [req EXCEPT ![r].pc = pc]
End(r) == req' = [req EXCEPT ![r] = Idle]

\* Request r arrives, and passes the checks made on the rows it reads.
Begin(r, u, op, pc, todo) ==
  /\ op \in Ops
  /\ req[r].pc = "idle"
  /\ OnePerUser => \A q \in Requests : req[q].user # u
  /\ sheet.status # "NONE"
  /\ req' = [req EXCEPT ![r] =
               [Idle EXCEPT !.pc = pc, !.op = op, !.user = u, !.row = row,
                            !.sheet = sheet, !.lines = lines, !.todo = todo]]
  /\ UNCHANGED dbVars

\* The INSERT is the only statement that matters; the unique index on owner
\* and period lets one row in.
Create(u, o) ==
  /\ sheet = NoSheet
  /\ row < MaxSheets
  /\ role[u] # "SUPER_ADMIN"
  /\ o # u => role[u] # "EMPLOYEE" /\ o \in ManagedUsers(u)
  /\ sheet' = [NoSheet EXCEPT !.status = "DRAFT", !.owner = o]
  /\ row' = row + 1
  /\ UNCHANGED <<lines, used, req>>

BeginRemove(r, u) ==
  /\ sheet.status = "DRAFT"
  /\ sheet.owner = u
  /\ Begin(r, u, "remove", "delete", {})

Delete(r) ==
  /\ req[r].pc = "delete"
  /\ ~RowIsGone(r)
  /\ sheet' = NoSheet
  /\ lines' = NoLines
  /\ End(r)
  /\ UNCHANGED <<row, used>>

\* The owner of an editable sheet goes straight to the transaction; so does
\* anyone but an employee into somebody else's.  A validator's right is first
\* read again.
BeginSave(r, u) ==
  /\ InScope(u, sheet)
  /\ \/ /\ sheet.status \in Editable
        /\ sheet.owner = u \/ role[u] # "EMPLOYEE"
        /\ Begin(r, u, "save", "save", {})
     \/ /\ sheet.status \in {"SUBMITTED", "N1_APPROVED", "REJECTED"}
        /\ sheet.owner # u
        /\ Begin(r, u, "save", "gate", {})

Gate(r) ==
  /\ req[r].pc = "gate"
  /\ ~RowIsGone(r)
  /\ \E l \in DOMAIN lines : CanEditLine(req[r].user, req[r].sheet.owner, lines[l])
  /\ Goto(r, "save")
  /\ UNCHANGED dbVars

ReplacesAll(r) ==
  req[r].sheet.status \in Editable /\ req[r].sheet.owner = req[r].user

\* The owner's transaction deletes the lines it finds, which stay visible and
\* locked until it commits with the new ones.
DeleteLines(r) ==
  /\ req[r].pc = "save"
  /\ ReplacesAll(r)
  /\ ~RowIsGone(r)
  /\ req' = [req EXCEPT ![r].pc = "insert", ![r].todo = DOMAIN lines]
  /\ UNCHANGED dbVars

\* Mutant: lines that no foreign key ties to their sheet.
ReplaceLinesOfAnyRow(r, new) ==
  /\ req[r].pc = "insert"
  /\ lines' = [l \in (DOMAIN lines \ req[r].todo) \cup DOMAIN new |->
                 IF l \in DOMAIN new THEN new[l] ELSE lines[l]]
  /\ used' = used \cup DOMAIN new
  /\ End(r)
  /\ UNCHANGED <<sheet, row>>

ReplaceLines(r, new) ==
  /\ req[r].pc = "insert"
  /\ ~RowIsGone(r)
  /\ lines' = [l \in (DOMAIN lines \ req[r].todo) \cup DOMAIN new |->
                 IF l \in DOMAIN new THEN new[l] ELSE lines[l]]
  /\ used' = used \cup DOMAIN new
  /\ End(r)
  /\ UNCHANGED <<sheet, row>>

Locked == UNION {req[r].todo : r \in {r \in Requests : req[r].pc = "insert"}}

\* The validator's transaction: each line he may edit -- going by the line as
\* it was read -- gets its hours, and the status that was read.
EditLines(r, edits) ==
  LET corrected(l) == Corrected(req[r].lines[l], edits[l])
  IN  /\ req[r].pc = "save"
      /\ ~ReplacesAll(r)
      /\ DOMAIN edits \subseteq
           (EditableLines(req[r].user, req[r].sheet, req[r].lines) \cap DOMAIN lines)
             \ Locked
      /\ lines' = [l \in DOMAIN lines |->
                     IF l \in DOMAIN edits
                     THEN [lines[l] EXCEPT !.hours = edits[l],
                                           !.status = corrected(l).status,
                                           !.rejectedBy = corrected(l).rejectedBy]
                     ELSE lines[l]]
      /\ End(r)
      /\ UNCHANGED <<sheet, row, used>>

BeginSubmit(r, u) ==
  /\ CanSubmit(u, sheet, lines)
  /\ Begin(r, u, "submit", "status", {})

\* Mutant: only `transition` looks at the status.
BeginReopenAnySheet(r, u) ==
  /\ role[u] \in {"RESOURCE_MANAGER", "HR"}
  /\ InScope(u, sheet)
  /\ Begin(r, u, "reopen", "recheck", {})

BeginReopen(r, u) ==
  /\ role[u] \in {"RESOURCE_MANAGER", "HR"}
  /\ InScope(u, sheet)
  /\ sheet.status # "APPROVED"
  /\ Begin(r, u, "reopen", "recheck", {})

\* `transition` reads the sheet a second time, and would take an approved one.
Recheck(r) ==
  /\ req[r].pc = "recheck"
  /\ ~RowIsGone(r)
  /\ InScope(req[r].user, sheet)
  /\ sheet.status \in {"APPROVED", "REJECTED"}
  /\ Goto(r, "status")
  /\ UNCHANGED dbVars

Target(op) == IF op = "submit" THEN "SUBMITTED" ELSE "REOPENED"

\* Mutant: the lines follow a submission only.
LineTargetSubmitted(op) == "SUBMITTED"

LineTarget(op) == IF op = "submit" THEN "SUBMITTED" ELSE "DRAFT"

\* `transition`: the sheet, then its lines, then the approval action.
WriteStatus(r) ==
  /\ req[r].pc = "status"
  /\ ~RowIsGone(r)
  /\ sheet' = [sheet EXCEPT !.status = Target(req[r].op)]
  /\ Goto(r, "lines")
  /\ UNCHANGED <<lines, row, used>>

WriteLines(r) ==
  /\ req[r].pc = "lines"
  /\ lines' = IF RowIsGone(r) THEN lines
              ELSE [l \in DOMAIN lines |-> ResetLine(lines[l], LineTarget(req[r].op))]
  /\ Goto(r, "record")
  /\ UNCHANGED <<sheet, row, used>>

RecordTransition(r) ==
  /\ req[r].pc = "record"
  /\ sheet' = IF RowIsGone(r) THEN sheet
              ELSE [sheet EXCEPT !.action = [by |-> req[r].user,
                                             status |-> Target(req[r].op)]]
  /\ End(r)
  /\ UNCHANGED <<lines, row, used>>

BeginApprove(r, u) ==
  LET todo == ApprovableLines(u, sheet.owner, lines)
  IN  todo # {} /\ Begin(r, u, "approve", "decide", todo)

BeginReject(r, u) ==
  LET todo == RejectableLines(u, sheet.owner, lines)
  IN  todo # {} /\ Begin(r, u, "reject", "decide", todo)

\* What the request writes in a line: columns of its own, in the row as it is.
Decision(r, ln) ==
  IF req[r].op = "reject" THEN Rejected(ln, req[r].user)
  ELSE Approved(ln, req[r].user,
                ApprovalStage(req[r].user, req[r].sheet.owner, req[r].lines))

\* Updating a line by its identifier fails when the row is gone.
Decide(r, l) ==
  /\ req[r].pc = "decide"
  /\ l \in (req[r].todo \cap DOMAIN lines) \ Locked
  /\ lines' = [lines EXCEPT ![l] = Decision(r, @)]
  /\ req' = [req EXCEPT ![r].pc = "log", ![r].at = l, ![r].todo = @ \ {l}]
  /\ UNCHANGED <<sheet, row, used>>

RecordDecision(r) ==
  LET l == req[r].at
      decided == Decision(r, req[r].lines[l]).status
  IN  /\ req[r].pc = "log"
      /\ lines' = IF l \in DOMAIN lines
                  THEN [lines EXCEPT ![l] = Recorded(@, req[r].user, decided)]
                  ELSE lines
      /\ req' = [req EXCEPT ![r].at = NoLine,
                            ![r].pc = IF req[r].todo = {} THEN "reread"
                                                          ELSE "decide"]
      /\ UNCHANGED <<sheet, row, used>>

\* refreshAggregateStatus, in its two statements.
Reread(r) ==
  /\ req[r].pc = "reread"
  /\ ~RowIsGone(r)
  /\ req' = [req EXCEPT ![r].pc = "refresh", ![r].status = Aggregate(lines)]
  /\ UNCHANGED dbVars

Refresh(r) ==
  /\ req[r].pc = "refresh"
  /\ ~RowIsGone(r)
  /\ sheet' = [sheet EXCEPT !.status = req[r].status]
  /\ End(r)
  /\ UNCHANGED <<lines, row, used>>

\* A check that fails on the second read, a row that is no longer there, a
\* deadlock: the request answers an error, and what it wrote before stays.
Refused(r) ==
  \/ /\ req[r].pc \in {"save", "insert", "delete", "gate", "recheck", "status",
                      "reread", "refresh"}
     /\ RowIsGone(r)
  \/ /\ req[r].pc = "save"
     /\ ~(EditableLines(req[r].user, req[r].sheet, req[r].lines)
            \subseteq DOMAIN lines)
  \/ /\ req[r].pc = "delete"  \* deadlock with a save about to insert
     /\ \E q \in Requests : req[q].pc = "insert"
  \/ /\ req[r].pc = "gate"
     /\ ~\E l \in DOMAIN lines :
           CanEditLine(req[r].user, req[r].sheet.owner, lines[l])
  \/ /\ req[r].pc = "recheck"
     /\ sheet.status \notin {"APPROVED", "REJECTED"}
  \/ /\ req[r].pc = "decide"
     /\ ~(req[r].todo \subseteq DOMAIN lines)

Fail(r) == Refused(r) /\ End(r) /\ UNCHANGED dbVars

Crash(r) == CanCrash /\ req[r].pc # "idle" /\ End(r) /\ UNCHANGED dbVars

Arrive(r, u) ==
  \/ BeginSave(r, u)
  \/ BeginRemove(r, u)
  \/ BeginSubmit(r, u)
  \/ BeginReopen(r, u)
  \/ BeginApprove(r, u)
  \/ BeginReject(r, u)

Step(r) ==
  \/ Delete(r)
  \/ Gate(r)
  \/ DeleteLines(r)
  \/ \E new \in Drafts(LineIds \ used) : ReplaceLines(r, new)
  \/ \E S \in SUBSET DOMAIN req[r].lines : \E edits \in [S -> Hours] :
       EditLines(r, edits)
  \/ Recheck(r)
  \/ WriteStatus(r)
  \/ WriteLines(r)
  \/ RecordTransition(r)
  \/ \E l \in LineIds : Decide(r, l)
  \/ RecordDecision(r)
  \/ Reread(r)
  \/ Refresh(r)
  \/ Fail(r)

Next ==
  /\ \/ \E u, o \in Users : Create(u, o)
     \/ \E r \in Requests, u \in Users : Arrive(r, u)
     \/ \E r \in Requests : Step(r) \/ Crash(r)
  /\ UNCHANGED orgVars

Spec == Init /\ [][Next]_vars

---------------------------------------------------------------------------
(* A request alone serves the workflow.                                    *)

Busy == {r \in Requests : req[r].pc # "idle"}

\* Until it ends, a request has done nothing yet: the workflow stands where
\* the request found it.
Found == req[CHOOSE r \in Busy : TRUE]

Serial == INSTANCE TimesheetWorkflow WITH
  sheet <- IF Busy = {} THEN sheet ELSE Found.sheet,
  lines <- IF Busy = {} THEN lines ELSE Found.lines

\* A request that meets no other has exactly the effect of one step of
\* TimesheetWorkflow, however many statements it takes and whatever the requests
\* that died before it have left; one that fails has none.  A death is the only
\* step that is not the workflow's: what it leaves is a sheet the workflow can
\* take from there.
ServesWorkflow ==
  /\ Serial!Init
  /\ [][(\E r \in Requests : Crash(r) /\ ~Step(r)) \/ Serial!Next]_(Serial!vars)

---------------------------------------------------------------------------
(* What survives interleaving and crashes.                                 *)

Signed(ln) ==
  /\ ln.status = "APPROVED"
  /\ ln.projectBy # NoUser
  /\ ln.siteBy # NoUser \/ OwnerManages(sheet.owner, ln)

\* A sheet that says APPROVED is not empty, and each of its lines has been
\* through both stages.  The status is computed from lines read earlier, by
\* requests that may have died in the middle of their loop.
ApprovedMeansSigned ==
  sheet.status = "APPROVED" =>
    lines # NoLines /\ \A l \in DOMAIN lines : Signed(lines[l])

\* The two-stage order is checked on the lines as read; the signature is written
\* on the line as it is.  Validators alone, or one request alone even if it
\* dies, cannot put the chief's signature first.
NoSkippedStage ==
  [][\A l \in DOMAIN lines \cap DOMAIN lines' :
       (lines[l].status # "APPROVED" /\ lines'[l].status = "APPROVED") =>
         \/ lines[l].status = "SITE_APPROVED" /\ lines[l].siteBy # NoUser
         \/ ManagerOf(lines[l].site) = sheet.owner]_vars

\* A validator's save writes the hours of a line that was unsigned when it was
\* read: it must not reach a line that has been signed in between.
SignedHoursAreFrozen ==
  [][\A l \in DOMAIN lines \cap DOMAIN lines' :
       {lines[l].status, lines'[l].status} \subseteq {"SITE_APPROVED", "APPROVED"} =>
         lines'[l].hours = lines[l].hours]_vars

\* The signature columns are those the status claims, although a save writes
\* the status it read and leaves the signatures alone.
SignaturesMatchStatus ==
  \A l \in DOMAIN lines :
    LET ln == lines[l]
    IN  /\ ln.status = "DRAFT" => ln.siteBy = NoUser
        /\ ln.projectBy # NoUser <=> ln.status = "APPROVED"
        /\ ln.rejectedBy # NoUser <=> ln.status = "REJECTED"
        /\ ln.status \in {"SITE_APPROVED", "REJECTED"} => ln.siteBy # NoUser

\* A line with the chief's signature keeps it while validators race, if each
\* waits for his answer before the next request: none of their stale decisions
\* and corrections takes it back or hides it.
ApprovalsSurvive ==
  [][\A l \in DOMAIN lines : lines[l].status = "APPROVED" =>
       l \in DOMAIN lines' /\ lines'[l].status = "APPROVED"]_vars

\* Once approved, a sheet is there to be read only: the service answers "Une
\* feuille approuvee est disponible uniquement en consultation".  It holds of one
\* request at a time, and fails when the aggregate of one chief, read before the
\* other chief's last signature, is written after it.  README.md:150 lists
\* APPROVED -> REOPENED, which the service refuses with that answer.
ApprovedIsFinal ==
  [][sheet.status = "APPROVED" =>
       /\ sheet'.status = "APPROVED"
       /\ DOMAIN lines' = DOMAIN lines
       /\ \A l \in DOMAIN lines :
            lines'[l] = [lines[l] EXCEPT !.action = lines'[l].action]]_vars

\* No line outlives its sheet: a save whose transaction was open when the sheet
\* was deleted, or any later write of an older request, brings none back.
LinesGoWithTheSheet ==
  sheet.status = "NONE" => lines = NoLines

===========================================================================
