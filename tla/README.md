# A TLA+ model of Application-pointage

Application-pointage is a multi-tenant back end (NestJS, Prisma, PostgreSQL, Redis)
with a Next.js front end: employees of a construction company fill in timesheets,
clock in and out on sites and ask for leave, and a hierarchy of site managers, project
chiefs and resource managers validates what they sent. This directory models the parts
of it where mistakes are hard to see: who may change a record, in which state, what
happens when two requests meet or one dies half-way, and what reaches the reader of a
page or a report.

## 1. Inventory

Back-end paths are relative to `src/backend/src`.

| component | state | operations | hard behaviour | what makes it correct |
|---|---|---|---|---|
| `timesheets/` | a sheet per user and period, its lines (one per site and task), the approval actions | create, save (owner, validator), remove, submit, approve, reject, reopen | several validators on one sheet in any order; rows read in one statement and written in another; three-statement transitions without transaction | two signatures per line, nobody signs his own, signed hours do not change, an approved sheet is final, somebody can always act |
| `common/hierarchy.service.ts` | none: reads sites, projects, assignments, main sites | the users somebody manages, the approvers of a user, their levels | answers change while records are under review; one question asked from different tables | teams contain who works there now; who decides is told, as far as the mails go |
| `sites/`, `projects/`, `employees/`, `users/` | the organisation: managers, chiefs, assignments, roles, accounts | create, update, soft delete, assign, close an account | dangling references after a deletion or a departure | open sites have no former manager, leavers disappear from teams |
| `leave/` | requests, balances | create, submit, approve (two levels), reject, cancel, attach | balance read-modify-write with clamps; decisions written over one another; hours planned on approved days | days are held, taken and given back once; both levels approve |
| `attendance/` | punches, their approval actions | check in, check out, submit, approve (two levels), reject | rows decided on as read, written as they are; a crash between the row and its record | one open punch per employee; an approval has its signatures on record |
| `planning/` | sheets of a period, their lines and hours, a period page per author | create, update, save a period, publish, reopen, remove | transactions against single statements; leave approved between reading and writing | no hours on days of leave, no day planned by two periods |
| `auth/`, `common/guards/`, `common/auth-context-cache.service.ts` | refresh-token hash, reset link, cached users and tenants | login, refresh, logout, password change and reset; the guards of every request | stale entries after a suspension; Redis failing for any call; rotation by several tabs | a suspension takes effect; refreshing together signs nobody out |
| `tenants/` | tenant status, deletion | create, update, suspend, reactivate, delete; plans | with the cache | as above |
| `reports/`, `dashboard/`, `src/frontend/lib/report-builders.ts` | none: queries over the tables, a workbook made of the answers | by employee, site, day, sheet, month; payroll | overtime by the day in any period; rounding by row; different filters | two reports agree on the same hours; payroll adds up |
| `settings/` | tenant settings, holidays, leave and task types | CRUD | lists replaced wholesale | - |
| `jobs/` | queues | reminders, mails, exports | - (nothing enqueues) | - |
| `notifications/`, `mail/`, `audit-log/`, `storage/`, `health/` | append-only rows, files | - | - | - |
| `src/frontend` timesheet page (`timesheet-grid.tsx`, `use-api-data.ts`) | what was loaded, the rows typed over it, the request under way | load, type, save, submit, validate, reopen, delete | lost answers, late lists, other windows | what the page calls saved is stored; buttons come back; who must act can open |
| `src/frontend` pages, menu, `api-client.ts` | tokens of the browser; role of the session | calls on opening and behind buttons, choices of forms, lists | gates written in four places | what is offered is served; who directs a site reaches it |

Components interact through the database only: a request passes the guards, reads the
organisation through the hierarchy service, decides, and writes its own tables. The
guards' part is `AuthContext`; the other models take from there the user and his role.

`PROJECT.json` lists the hazards of the code, each at its line, with the properties that
cover it or the reason why none does.

## 2. Modules

| module | models | state |
|---|---|---|
| `Organisation` | hierarchy service; sites, projects, employees and users services | `site`, `project`, `assigned`, `lastDay`, `mainSite`, `role`, `account` |
| `Approvals` (extends it) | the part of the hierarchy service that leave and attendance share | none |
| `Screens` (extends `Approvals`) | routes and their roles, menu, pages and their calls, forms, lists | none: reads the organisation |
| `TimesheetRules` (extends `Organisation`) | the decisions of `timesheets.service.ts` on rows it has read | none |
| `TimesheetWorkflow` (extends the rules) | every timesheet endpoint, each as one step; the organisation changes in between | `sheet`, `lines` |
| `TimesheetRequests` (extends the rules) | the same endpoints, one database statement per step, any number in flight, each of which may die | `sheet`, `lines`, `row`, `used`, `req` |
| `ReviewContract` | abstract: written, handed in, signed item by item, final once all is signed | `phase`, `content`, `stage` |
| `TimesheetScreen` (extends the workflow) | the page of a timesheet in front of those endpoints | `page`, `clicks` |
| `Leave` (extends `Approvals`) | leave requests and balances, statement by statement | `leave`, `balance`, `planning`, `deciding` |
| `LeaveDecisions` (extends it) | who approved a request and how far, for what is said of overlapping decisions | `signed` |
| `LeaveLedger` | abstract: days held, then taken or given back, once | `item`, `account` |
| `Planning` (extends `Leave`) | plannings of a site manager, and the period page, with leaves approved meanwhile | `saving`, `written` |
| `Attendance` (extends `Approvals`) | punches and their validation, statement by statement | `punch`, `action`, `handling` |
| `AuthContext` | guards, Redis entries, administration of the account and the tenant; `GuardSpec` is the guards by themselves | `user`, `tenant`, the two entries, `clearing`, `serving` |
| `Sessions` (extends it) | tokens, browser tabs, calls and their retry | `hash`, `resetLink`, `browser`, `call` |
| `Reports` (extends `Organisation`) | reports, dashboards, workbook, over the tables the others write | `punch`, `sheet`, `entry`, `leave`, `holiday` |
| `MC...` | small tenants for TLC | |
| `OrganisationProofs`, `ScreensProofs` (with the timesheet page), `TimesheetWorkflowProofs`, `TimesheetRequestsProofs`, `AttendanceProofs`, `PlanningProofs` (with leave), `SessionsProofs` (with the guards), `ReportsProofs` | the theorems, and the lemmas they rest on | |

How they fit: `TimesheetRequests` refines `TimesheetWorkflow` as long as requests do not
overlap (`ServesWorkflow`); `TimesheetWorkflow` refines `ReviewContract`
(`KeepsReviewContract`); `Leave` refines `LeaveLedger` as long as no two requests about
one balance overlap (`KeepsLedger`). `TimesheetScreen` composes page and workflow,
`Planning` plannings and leave, `Sessions` browser and guards.

Correspondence with the code. An action bears the name of its endpoint or service method.
In `TimesheetWorkflow` it is the whole handler: `Approve` writes all the lines the caller
may sign, their approval actions and the aggregate status. In the modules that go
statement by statement a handler is a sequence of steps, and a variable says where each
request is and what it has read:

    TimesheetRequests, req[r].pc
      save:    BeginSave [Gate] DeleteLines ReplaceLines      (owner; one transaction)
               BeginSave [Gate] EditLines                     (validator; one transaction)
      submit:  BeginSubmit WriteStatus WriteLines RecordTransition
      reopen:  BeginReopen Recheck WriteStatus WriteLines RecordTransition
      approve: BeginApprove (Decide RecordDecision)* Reread Refresh
      reject:  BeginReject  (Decide RecordDecision)* Reread Refresh
      remove:  BeginRemove Delete
    Leave, deciding[r].pc:        BeginTransition ReadBalance Commit
    Planning, saving[r].pc:       BeginUpdate ReadLeaves Erase Insert
                                  OpenPage Upsert Erase Insert            (period)
                                  BeginPublish / BeginReopen / BeginRemove WriteStatus
    Attendance, handling[h].pc:   CheckIn CreatePunch | CheckOut ClosePunch
                                  Transition WriteStatus Record
    AuthContext, serving[t].pc:   LookupUser [ReadUser Fill Fill] LookupTenant
                                  [ReadTenant KeepTenant]
    Sessions, call[t].pc:         Send ... Answered [RefreshRead Rotate Store, once more]

The first step is the first read with the checks that only look at what it read; later
steps decide on the rows kept from it, exactly where the code does. `Fail`, `Abandon` and
the like are a check or an `...OrThrow` that fails later; `Crash` is the process dying.

Abstractions, all of data. In the timesheet modules hours are one number per line.
Comments, dates, activities and the columns nothing decides on are left out; an approval
action is kept as the newest one of its entity. A sheet is one owner and one period.
There is one tenant, one leave type and one year. Dates of assignments appear as `lastDay`
and `Midnight`, since an assignment is current up to its end date included; those that start
later are left out. Accounts are fixed: none is created. In `Reports` days and weeks are
numbered, a report is computed in one step, and hours are hundredths as they are printed.
`Screens` takes the role of a session for the account's current one.

Undefined or external behaviour. PostgreSQL runs at READ COMMITTED: two transactions that
touch the same lines wait for each other (`Locked`, `Blocked`); a deadlock is resolved by
failing one of the two. Unique indexes, foreign keys and cascades are part of the steps.
Redis may fail for any call, and a process may have lost it for good. bcrypt reads 72
characters, which all refresh tokens of one account share: a token that was replaced
still matches, so the model keeps whether there is a hash and not which. The network may
lose any answer to the page, and the answer of a token refresh.

## 3. What the runs check

| run | distinct states | question and bounds |
|---|---|---|
| `Organisation` | 194 800 | Any 3 administration requests (`MaxChanges`) by 5 accounts with all the roles that may send one, on a site, a project and room for one more of each. Three are enough to make somebody manager, move him and close his account; the leaver properties need two. At most two mails about a leave (`MailLimit`; five in the code, which this tenant has not approvers enough to reach). |
| `TimesheetWorkflow` | 71 000 | One sheet, 2 lines, 0 or 8 hours, one change of the organisation at any moment; also the refinement of `ReviewContract`. Two lines are needed for mixed statuses and two validators at the same stage. |
| `RequestAlone` | 472 900 | One request at a time, statement by statement, any of which may die anywhere: each step but a death is one of `TimesheetWorkflow`, or none, also from what dead requests left; 2 lines, 0 or 8 hours. |
| `RequestValidators` | 112 000 | From any submitted sheet of `e` or `c`: two validators who save, approve and reject, each waiting for his answer before the next request (`OnePerUser`). The bound matters: a validator who corrects and approves at once can take back what a chief has signed since. |
| `RequestPairs` | 24 300 | Any two requests among save, remove and submit; two successive sheets, so that a late statement meets a row that is not the one it read. |
| `Leave` | 1 505 000 | Two leaves of two employees, over three days with a weekend and half-days; two requests in flight, either of which may die: one at a time about `c`, who has a balance, as they come about `e`, who has none, so that approvals, refusals and cancellations of one leave meet. |
| `Planning` | 735 600 | Two plannings and two requests about them, a period page among them, over two overlapping periods, while one leave is approved; one line, 0 or 8 hours a day. |
| `Attendance` | 947 500 | Two punches, five transitions, two requests in flight about one employee, either of which may die. |
| `Accounts` | 192 800 | Two tabs, one of them served without Redis, one change of the account or the tenant. |
| `Guards` | 411 300 | Two requests at a time, two changes, two roles, tenants on trial and active: the least in which another role takes effect, an account or a tenant is restored, and a guard puts back what it read two changes ago. |
| `TimesheetScreen` | 83 300 | One page of any of 5 readers, 3 requests sent by it or elsewhere, one change typed between two loads; from a draft and from a half-approved sheet of two sites. |
| `Reports` | 28 600 | All sets of two punches or day entries in any status, a leave, two holidays on one date; every viewer, every period of four days in two weeks. |

`CHECK_DEADLOCK FALSE` is set where the system does stop, in every run but `Guards`, where
requests go on arriving: an approved sheet has no request left, the bounds on changes and
clicks are reached.

The timesheet tenants are chosen so that both approval paths exist. `e` works on two sites:
on `s1` the manager is `m` and the chief `c`; on `s2` the manager is `c` and the chief `m`.
So one sheet of `e` has two managers and two chiefs, each both manager and chief, and a
sheet of `c` has lines on a site its owner manages, which skip the site stage.

What they show.

* *Administration and pages.* Whatever the administration does, an open site has no
  manager who left and teams lose their leavers by the end of the day; whoever may decide
  on a leave request is told of it, unless the mails are used up on others who direct a
  site of the employee's, and, unless his project was deleted, has the menu entry for it;
  whoever directs a site reaches it, its people and what is planned on it through lists and
  pages with queries of their own; no page makes or offers a call that its reader's role is
  refused, and forms propose nothing the services refuse but suspended accounts and, for
  an assignment, somebody whose assignment ends today.
* *Timesheets.* Requests that do not overlap do what the workflow does, also after some have
  died: an approved sheet stays final, and signatures match. Validators who race
  keep the two stages, the signatures and approved lines; an owner who races himself
  leaves no lines behind a deleted sheet, and that is all (section 5).
* *Leave.* As long as no two requests about one balance overlap, balances are what the
  requests say, whichever die, and each day is held, taken or given back once. However
  requests overlap, a leave is approved only after a chief and a resource manager approved
  it (`BothLevelsDecide`; one person may be both).
* *Planning.* Nothing is planned on a day of approved leave, whichever came first, unless
  the list of leaves the planning was written from was out of date; and no day is planned
  by two periods of one author, even when he saves two at once.
* *Attendance.* One open punch as long as no two requests about an employee overlap;
  approvals are backed by the signatures they need however requests overlap.
* *Accounts.* After the last change of an account or a tenant the guards come to answer, for
  ever, what they would with the tables, though deletions of entries may fail and a guard
  may put an old entry back, even across two changes. A deleted tenant that is given a
  working status is excepted by name (`WrittenAfterDeletion`, section 5). Every call ends;
  tabs that refresh together sign nobody out.
* *Timesheet page.* Whoever must act can open the sheet; what is said to be saved is
  stored row for row; no page is left waiting.
* *Reports.* Payroll of a period is that of its parts wherever it is cut, and every two
  reports agree on the hours they share up to the rounding of rows.

`SomeoneCanAct` and `ValidatorsCanOpen` have a premise, `RoutingIsSound`, which names what
the code leaves to the administrators: managers and chiefs who can log in, chiefs who do
not send sheets on their own projects, owners who are not made manager of a site that has
already approved. Each is needed: without it there is a sheet nobody can approve or reopen.

### Fairness

`Accounts`, `Guards` and `TimesheetScreen` state liveness. In `Sessions` a step of a call under way
(`Proceeds`) is weakly fair, because the server answers or the browser's `fetch` rejects;
and so are the expiries of the two Redis entries, which are set with `EX`. `GuardSpec` asks
the same of the guards (`Serve`) and of the expiries; nobody has to send a request. Administration,
logins and the deletion of entries are not fair: `EventuallyCurrent` does not rest on the
deletions. In `TimesheetScreen` the answer of a request of a page is weakly fair
(`Answered`, which includes failing), for the same reason; nobody has to click or type.
The other runs are about safety: a request waits for nobody but the database, and nothing
obliges anybody to approve, so "a sheet is eventually approved" would rest on a fairness
the code does not have. What can be said instead is `SomeoneCanAct`.

## 4. What is proved

TLAPS checks, for every set of users, sites, projects, lines and hours, every initial
tenant of the right type, any number of requests in flight and every bound:

* `OrganisationProofs`: `OrgTypeCorrect`, `ManagersStay`, `TeamsLoseLeavers`. The inductive
  invariant is `OrgInv`: the types, `NoFormerManager` and `LeaversLastDay` (an assigned
  user whose account is closed is on his last day). `LeaversAreGone` follows from it in
  each state; it is not inductive, since it does not speak of the assignments of sites
  that have no active manager yet.
* `ScreensProofs`: `DecidersToldAlways`, `DecidersFindIt`, `DirectorsAlwaysReach`,
  `OffersAlwaysServed`. The first three need at most the types: two searches of different
  tables agree whatever is in them, for instance because a site whose chief decides is one
  of the employee's approval sites, and its chief is asked either after the manager or in
  his place. So whoever decides is found; `DecidersToldAlways` adds, for every limit on the
  mails, that those told in his stead direct sites of the employee's too.
  `OffersAlwaysServed` assumes `NoPlatformAdministrators`: the first accounts of the tenant
  are none (`users.service.ts:112` gives a platform administrator no tenant), and the proof shows that they
  never make one of themselves. An account of the tenant which an administrator of the
  platform promotes is outside the theorem.
* `TimesheetWorkflowProofs`: `TypeCorrect`, `NobodySignsHisOwn`, `SheetAgreesWithLines`,
  `SignaturesAgree`, `LastDecisionIsRecorded`, `ApprovedStaysAsItIs`,
  `StagesAreNotSkipped`, `SignedHoursStay`, `SomebodyCanAlwaysAct`. The invariant `IInv`
  joins the types, the agreement of the sheet with its lines and `LinesSound`: what each
  line's signatures, action and status say of each other and of the owner. The agreement
  is needed for everything else: `approve` and `reject` never look at the status of the
  sheet, so that an approved sheet is final only because all its lines are approved;
  `submit` and `reopen` never look at the status of the lines. From the same invariant
  follows `WorkflowKeepsContract`, the refinement of `ReviewContract` under the mapping
  given at the end of `TimesheetWorkflow`.
* `TimesheetRequestsProofs`, statement by statement. `RequestsTypeCorrect` and
  `LinesNeverOutliveTheSheet` hold of any requests, overlapping and dying as they will.
  With one request at a time (`OneRequest`), any of which may die:
  `RequestSignaturesAgree`, `RequestApprovedIsFinal`, `RequestSignedHoursStay`. Their
  invariant `SoloInv` says for each point of a handler what it has written so far, starting
  from lines that a request which died may have left out of step with their sheet. With
  validators only (`ValidatorsOnly`: from submitted sheets, no submission, reopening or
  deletion), any number of which race and die: `RacingApprovalsAreSigned`,
  `RacingStagesAreOrdered`, `RacingApprovalsSurvive`. Their invariant `RaceInv` rests on
  this: a line has one manager and one chief, each waits for his answer before he sends
  another request, and the statuses the one and the other decide on are disjoint, so that
  of all requests in flight at most one means to write a given line's status. Last,
  `OneRequestServesWorkflow`: one request at a time, from an empty database, is one step of
  `TimesheetWorkflow`, whatever requests that died have left; the death of one is the only
  step that is not. So what the workflow proves of its steps holds of the statements, and
  while none dies the service is the workflow.
* `AttendanceProofs`: `ApprovalsBacked`, with any number of requests in flight, any of which
  may die. The invariant `AttInv` follows a first-level approval from the request that makes
  it to the table of actions: a punch seen half approved has been signed, its signer is in
  that table, or about to be, or his request has died. Actions are never removed, so that
  this still holds when a chief decides on a row he read long ago. `OnePunchOpen` adds
  `OpenInv`: about an employee whose requests never met (`raced`) at most one request is in
  flight, what it has read is so, and a check-in found nothing open.
* `PlanningProofs`, first part: leave. `BothLevelsAlwaysDecide` puts no restriction on which
  requests overlap or die: its invariant, over the history `signed`, says that a request
  seen half approved, by its row or by a decision that has read it, was signed by a chief
  of its owner's, and one approved by a resource manager too; signatures are never taken
  back. As long as no two decisions in flight are about one balance: `BalancesNeverDrift`,
  `LeavesKeepTheLedger`. The invariant `StagesInv` says that the row a request about a
  balance has read is still the row as it is, which is what `OnePerBalance` gives; `BalanceInv` adds that the
  balance is the sum over the requests and that a decision about to be written has found
  the current one. Then the new absolute value is the old sum and the difference, and no
  clamp at zero ever bites.
* `PlanningProofs`, second part: plannings composed with leave, without any restriction on
  which requests overlap or die: `PeriodsNeverOverlap`, `DaysOfLeaveStayFree`. The invariant
  `PlanInv` says of two rival periods that one is written, or about to be, only if the
  other is doomed; of lines written from a list of leaves that is still complete, that they
  are free of them; and of the leave service (`LeaveEffect`) that an approval erases in
  the step that makes it, even when decisions write over one another.
* `ScreensProofs`, second part: the timesheet page, for any number of pages, of any readers,
  and any requests between theirs, from a sheet in order that was filled in on the page
  (`FilledOnThePage`: `IInv`, and lines that name sites its owner works on or directs).
  `PagesFollowTheWorkflow`: every step of the pages is a step of `TimesheetWorkflow` or
  leaves the sheet alone, which carries the theorems about the workflow over.
  `WhoMustActCanOpen` and `WhatIsSavedIsStored`. The invariant `ScreenInv` says what a page
  keeps while the sheet moves on: its rows, the lines it loaded and the rows it has sent
  name sites offered to the owner, and, once the sheet it loaded was handed in, its rows
  differ from the lines it shows only in hours that its reader may write. The second part
  is why a validator's save loses nothing he typed although the server silently skips lines
  he may not edit; the first is why whoever's turn it is has the owner in his team, since
  the API itself takes lines of any site.
* `SessionsProofs`, first part: the guards, for any number of requests, changes, roles and
  statuses: `AuthTypeAlways` and `CurrentIsKept`. The second is the safety half of
  `EventuallyCurrent`: entries that agree with the tables, with nothing older on its way
  into them, do so until the next change. That they come to agree rests on the expiries
  and is model-checked.
* `SessionsProofs`, second part: `RefreshSignsNobodyOut`, for any number of tabs. The invariant
  `SessionInv` says that the account's row has a hash unless somebody revoked the session
  or nobody has logged in yet, and that a call on its way to being signed out was refused for
  one of these reasons; rotation replaces the hash and never removes it.
* `ReportsProofs`: `PayrollAlwaysAddsUp` and `ReportsAlwaysAgree`, the second of everything the
  reports say of each other. What happens to the tables matters little: the invariant is
  `RowsInv` (types, finitely many rows, every entry has a sheet) with the types of the
  organisation. The argument is in the reports: each is a table of sums over the groups
  into which one set of rows falls. So the proof shows once that a sum may be taken group
  by group, whatever the column that makes the groups (`SumOfGroups`, `SumByKey`,
  `HoursByKey`), that a sum is that of a part and of the rest (`SumOfLess`), and that a
  rounded column is within a third of a hundredth for each row (`RoundedSums`); then, for each
  pair of reports, that their rows are the same set, or the same but for a set that is named,
  such as the drafts of others. Payroll adds up because its overtime is a column of days,
  and the days of a period are those of its parts; the weeks of sheets matter only through
  `EntryInPeriod`: an entry dated in the week of its sheet is in a period of whole weeks
  when that week is.
* Sums (`OrganisationProofs`, `ReportsProofs`). The library defines its fold by a function
  that CHOOSE picks; the lemmas show that there is exactly one, and then how a sum changes
  with one element. The induction theorems of the library take an operator, which no
  prover at hand can instantiate; but the subset order of a finite set is well founded,
  and a set of bad subsets without a least one is a first-order contradiction
  (`LeastSubset`, `GrowingSubsets`).

Assumptions: the `...Assumption` of each module (null is not an identifier, hours are
naturals, the initial tables are typed, an entry or a check-in is somebody's of the tenant
and dated), which TLC evaluates in every run. The hypotheses
of a theorem are the constants that select a run: `OneRequest`, `Submitters` and
`ValidatorsOnly` (`RequestAlone`, `RequestValidators`), `OnePerBalance` (`Leave`, for the
balance and the ledger), and initial leaves that are not decided (`NothingDecided`). The balance also needs finitely many requests, and the
ledger none of them at the start; the pages start from `FilledOnThePage`, as both sheets of the run do.

The invariants that TLC can evaluate as they stand (`OrgInv`, `IInv`, `ScreenInv`, `AttInv`,
`SessionInv`, `RowsInv`) also hold on the small instances of the runs.

Only model-checked: the liveness properties, `EventuallyCurrent` of `Guards`, `CallsSettle` of
`Accounts` and `ClicksSettle` of `TimesheetScreen`. Fairness and ENABLED are out of the
prover's reach. Every invariant and every action property that a passing run checks is proved.

## 5. Seen while modelling

Races of `TimesheetRequests` outside the bounds of its runs, with the counterexample that
TLC gives when the bound is lifted or the property added:

* An approved sheet is for consultation only (`timesheets.service.ts:397`); the aggregate
  of one chief, read before the other's last signature and written after it (line 744),
  takes it back to half approved.
* Submitted sheets cannot be deleted (`permissions-audit.md:32`); a deletion that has read
  a draft (line 244) deletes it once submitted.
* Empty sheets cannot be submitted (`critical.test.ts:355`); a save in flight (line 120)
  empties a sheet that is being submitted.
* Each transition creates an `ApprovalAction` (`src/README.md:166`); a submission that dies
  after line 454 leaves none. Approvals and refusals change the status of the sheet
  without an action of the sheet (only the lines' decisions have one).
* A resource manager cannot approve timesheets (`permissions-audit.md:29`); he can, as
  manager of a site or chief of a project (line 265).

Leave and planning. `src/README.md:154-157` lists `SUBMITTED -> APPROVED`, and
`critical.test.ts:467-471` expects one approval by the resource manager to be final: the
code makes the chief's approval `N1_APPROVED` and answers the resource manager 400 until
then. A request approved and cancelled at once moves the balance twice and
may go back from approved to half approved. The mail about a submitted leave goes to five
approvers at most, in no order (`leave.service.ts:302`): with more of them, one who has to
decide may not be told. A chief may decide on his own leave. Balances
never refuse a request. A save of a period deletes the author's overlapping plannings,
days outside of the period included, and the lines on sites he no longer manages.

Attendance. `src/README.md:164` lists `APPROVED -> REOPENED`, which has no endpoint
(`README:150`, for sheets, is refused). A late approval after a refusal opens the punch again
beside the one made since. A manager sees his team's punches and not his own, which he can
never submit; human resources may approve their own. A check-out after the approval still
changes the duration.

Accounts. A refresh in flight writes a new hash after a logout or a change of password, which
thereby have no effect. A late denial clears the tokens of a newer session. The front end never
calls `/auth/logout`. A deleted tenant whose status is then set to ACTIVE is let in through
the cached entry and refused by the tenant guard's own read.

Timesheet page. What is typed while the list of task types is on its way, or while a save is, is
lost. After a failed reload the page shows the rows of before the save, and saving those
undoes it. A validator's save sends every row back, so that each refused line he may edit
is submitted again. Somebody else's save of a reopened sheet is accepted and ignored.
`critical.test.ts:376` submits a line without a site, which submission refuses.

Pages. A chief whose project was deleted still decides on leave without a menu entry for it.
Sites without a project have no page that leads to them. Forms propose suspended accounts
as chief, manager or assignee, which the services refuse, and no project whose chief was
suspended can be edited until its chief is changed. `/planning/:id` is reached by no link, and
`/sites/:id` is linked and has no page. The API client has two calls without a route
(`approveTimesheetLine`, `rejectTimesheetLine`).

Reports. A leave that straddles two periods is counted whole in both by payroll and the monthly
report, by the day in the sheets' metrics, and in neither by the leave report. Sites' workload
counts drafts and every team, although its description says approved hours. Two holidays on
one date count twice in payroll. Entries are not compared with the period of their sheet.
The payroll workbook has an overtime rule of its own (nine hours a punch). Lists stop at 100
rows without saying so, and the dashboard's chart counts drafts that its counter does not.

## 6. Not modelled

* `jobs/`: nothing in the repository enqueues a job (`JobsService` is injected nowhere), so
  that reminders, exports and their retries never run.
* `audit-log/`, `notifications/`, `mail/`, `storage/`, `health/`: appended or sent and not
  read back by any decision; who is told of a leave request is in `Screens`.
* The length of lists: the newest 150 requests for leave (`leave.service.ts:59`) and
  timesheets (`timesheets.service.ts:34`), 250 punches (`attendance.service.ts:144`). Where a
  property says that a list shows something, its query selects it.
* The creation of accounts, tenants, plans and subscriptions: the modelled tables start with
  them, and plans gate nothing in the code.
* `settings/` beyond its roles, the holidays and the overtime trigger: rows and lists that are
  replaced wholesale (two windows of the settings page overwrite each other, and its Save
  sends two updates of which one may fail).
* The report of leave balances, recent-activity lists, sheet layout.
* The front end's forms other than the timesheet page, beyond what they propose and call
  (the leave form's create, upload and submit may stop half-way and leave a draft); the landing
  page, interface components, demonstration data, styles.
* Deployment, seed, tests: not part of the running system.

## 7. Bounds, and what could come next

Every bound is a constant of its module: `MaxChanges`, `MaxLines`, `MaxSheets`, `MaxPunches`,
`MaxAsked`, `MaxPlanLines`, `MaxEdits`, `MaxClicks`, `MaxTyped`, `MaxRows`, `MailLimit`; the sets of
identifiers and of requests in flight bound the rest. They are as large as the run time
allows and as small as the interesting case: two of whatever can meet.

Next would come the settings page with two windows, the creation of accounts, and what the
pages show of leave and attendance while others decide.
