------------------------------- MODULE Leave -------------------------------
(***************************************************************************)
(* Leave requests, their two-level approval and the balance they are taken *)
(* from, statement by statement (leave.service.ts).  A decision reads the  *)
(* request, decides, and then runs one transaction which reads the balance *)
(* and writes balance, request and planned hours; then come the approval   *)
(* action, the audit log, a notification and mails, which nothing here     *)
(* reads back.  The transaction's writes are one step: the                 *)
(* first one locks the balance row, and they appear together.  Its read is *)
(* a step of its own, since it locks nothing and the new balance is        *)
(* written as an absolute value.  The status is not checked again.         *)
(*                                                                         *)
(* One leave type and one year, so one balance row for each employee who   *)
(* has one.  Days are numbered; durations are counted in half-days.        *)
(***************************************************************************)
EXTENDS Approvals, Integers, FiniteSets, FiniteSetsExt

CONSTANTS
  LeaveIds, PlanIds,  \* the identifiers of leave requests and plannings
  LastDay,            \* days are 1..LastDay
  Weekend, Holidays,  \* days that no leave is counted for
  Applicants,         \* those who ask for leave
  Periods,            \* first and last days of leaves and plannings
  InitialLeaves,      \* the requests a behaviour starts from
  Halves,             \* whether the first or last day may be a half-day
  Allowance,          \* half-days of leave of those who have a balance
  Wishes,             \* the transitions that are asked for
  Decisions,          \* leave requests that may be in flight together
  OnePerBalance,      \* no two in flight about an employee with a balance
  CanCrash,           \* a request may die between two statements
  NoRow               \* no identifier

Days == 1..LastDay

Statuses == {"DRAFT", "SUBMITTED", "N1_APPROVED", "APPROVED", "REJECTED", "CANCELLED"}
Pending == {"SUBMITTED", "N1_APPROVED"}

NoLeave == [status |-> "NONE", owner |-> NoUser, from |-> 1, to |-> 1, halves |-> 0]

LeaveRow == [status : Statuses \cup {"NONE"}, owner : Users \cup {NoUser},
             from : Nat, to : Nat, halves : Nat]

ASSUME LeaveAssumption ==
  /\ LastDay \in Nat /\ Weekend \subseteq Days /\ Holidays \subseteq Days
  /\ {OnePerBalance, CanCrash} \subseteq BOOLEAN /\ Halves \subseteq BOOLEAN
  /\ DOMAIN Allowance \subseteq Users /\ Allowance \in [DOMAIN Allowance -> Nat]
  /\ NoRow \notin LeaveIds \cup PlanIds
  /\ Applicants \subseteq Users
  /\ Wishes \subseteq {"SUBMITTED", "APPROVED", "REJECTED", "CANCELLED"}
  /\ InitialLeaves \in [LeaveIds -> LeaveRow]
  /\ \A p \in Periods : p \in Days \X Days /\ p[1] <= p[2]

VARIABLES
  leave,     \* leave[i]: the row of request i
  balance,   \* balance[u]: the days u has asked for, and taken
  planning,  \* planning[p]: the row of planning p with its lines
  deciding   \* deciding[r]: what request r has read, and has left to do

leaveVars == <<leave, balance, deciding>>

NoPlanning == [status |-> "NONE", creator |-> NoUser, from |-> 1, to |-> 1, lines |-> {}]

Quiet == [pc |-> "idle", user |-> NoUser, id |-> NoRow, wish |-> "NONE",
          read |-> NoLeave, next |-> "NONE", found |-> [pending |-> 0, used |-> 0]]

HalvesOf(u, statuses) ==
  MapThenSumSet(LAMBDA i : leave[i].halves,
                {i \in LeaveIds : leave[i].owner = u /\ leave[i].status \in statuses})

BalanceOf(u) ==
  LET pending == HalvesOf(u, Pending)
      taken == HalvesOf(u, {"APPROVED"})
  IN  [pending |-> pending, used |-> taken, remaining |-> Allowance[u] - taken - pending]

LeaveInit ==
  /\ leave = InitialLeaves
  /\ balance = [u \in DOMAIN Allowance |-> BalanceOf(u)]
  /\ deciding = [r \in Decisions |-> Quiet]
  /\ planning = [p \in PlanIds |-> NoPlanning]

---------------------------------------------------------------------------
(* Creation.                                                               *)

WorkingDays(from, to) == Cardinality((from..to) \ (Weekend \cup Holidays))

\* calculateDurationDays: a half-day at each end, once if the ends are one day;
\* never less than half a day, even on a holiday.
Duration(from, to, startHalf, endHalf) ==
  LET halves == 2 * WorkingDays(from, to) - (IF startHalf THEN 1 ELSE 0)
                  - (IF endHalf /\ from # to THEN 1 ELSE 0)
  IN  IF halves < 1 THEN 1 ELSE halves

\* Nothing is checked against the balance or against other requests.
CreateRequest(i, u, from, to, startHalf, endHalf) ==
  /\ leave[i] = NoLeave
  /\ role[u] # "SUPER_ADMIN"
  /\ leave' = [leave EXCEPT ![i] =
       [status |-> "DRAFT", owner |-> u, from |-> from, to |-> to,
        halves |-> Duration(from, to, startHalf, endHalf)]]
  /\ UNCHANGED <<balance, deciding, planning>>

---------------------------------------------------------------------------
(* Transitions.                                                            *)

\* assertTransition, with the two checks on the caller that go before it.
MayAsk(u, row, wish) ==
  CASE wish = "SUBMITTED" -> row.status = "DRAFT" /\ row.owner = u
    [] wish \in {"APPROVED", "REJECTED"} -> row.status \in Pending
    [] wish = "CANCELLED" -> /\ row.status \in Pending \cup {"DRAFT"}
                             /\ row.owner = u \/ role[u] # "EMPLOYEE"

\* resolveApprovalStatus: the chief of a project the owner works on decides on
\* what is submitted, and approves half-way; a resource manager decides next.
CanDecide(u, row) ==
  \/ row.status = "SUBMITTED" /\ IsProjectManagerForUser(row.owner, u)
  \/ row.status = "N1_APPROVED" /\ role[u] = "RESOURCE_MANAGER"

Effective(row, wish) ==
  IF wish = "APPROVED" /\ row.status = "SUBMITTED" THEN "N1_APPROVED" ELSE wish

BeginTransition(r, u, i, wish) ==
  /\ deciding[r].pc = "idle"
  /\ OnePerBalance /\ leave[i].owner \in DOMAIN Allowance =>
       \A q \in Decisions : deciding[q].pc # "idle" =>
         deciding[q].read.owner # leave[i].owner
  /\ leave[i] # NoLeave
  /\ leave[i].owner \in InHisScope(u)
  /\ MayAsk(u, leave[i], wish)
  /\ wish \in {"APPROVED", "REJECTED"} => CanDecide(u, leave[i])
  /\ deciding' = [deciding EXCEPT ![r] =
       [pc |-> "balance", user |-> u, id |-> i, wish |-> wish, read |-> leave[i],
        next |-> Effective(leave[i], wish), found |-> Quiet.found]]
  /\ UNCHANGED <<leave, balance, planning>>

ReadBalance(r) ==
  /\ deciding[r].pc = "balance"
  /\ deciding' = [deciding EXCEPT
       ![r].pc = "commit",
       ![r].found = IF deciding[r].read.owner \in DOMAIN balance
                    THEN [pending |-> balance[deciding[r].read.owner].pending,
                          used |-> balance[deciding[r].read.owner].used]
                    ELSE @]
  /\ UNCHANGED <<leave, balance, planning>>

AtLeast0(n) == IF n < 0 THEN 0 ELSE n

\* Mutant: days are given back when a request is refused, not when cancelled.
HeldUnlessRefused(old, new, d) ==
  (IF old = "DRAFT" /\ new = "SUBMITTED" THEN d ELSE 0)
    - (IF old \in Pending /\ new \in {"APPROVED", "REJECTED"} THEN d ELSE 0)

\* What the transition from `old` to `new` adds to the pending days.
HeldBy(old, new, d) ==
  (IF old = "DRAFT" /\ new = "SUBMITTED" THEN d ELSE 0)
    - (IF old \in Pending /\ new \in {"APPROVED", "REJECTED", "CANCELLED"}
       THEN d ELSE 0)

\* Mutant: the days of a half-approved leave are already taken.
TakenAtOnce(old, new, d) ==
  IF old \in Pending /\ new \in {"N1_APPROVED", "APPROVED"} THEN d ELSE 0

TakenBy(old, new, d) == IF old \in Pending /\ new = "APPROVED" THEN d ELSE 0

\* The remaining days are computed before the others are clamped at zero.
NewBalance(u, row, next, found) ==
  LET pending == found.pending + HeldBy(row.status, next, row.halves)
      taken == found.used + TakenBy(row.status, next, row.halves)
  IN  [pending |-> AtLeast0(pending), used |-> AtLeast0(taken),
       remaining |-> Allowance[u] - taken - pending]

\* Hours that are already planned on the days of an approved leave are erased,
\* in drafts and in published plannings.
WithoutHours(ln, row) ==
  IF ln.user # row.owner THEN ln
  ELSE [ln EXCEPT !.hours = [d \in DOMAIN ln.hours |->
                               IF d \in row.from..row.to THEN 0 ELSE ln.hours[d]]]

\* Mutant: the hours of the first day only.
FreedOnFirstDay(plans, row) ==
  [p \in PlanIds |-> [plans[p] EXCEPT !.lines =
     {WithoutHours(ln, [row EXCEPT !.to = row.from]) : ln \in @}]]

Freed(plans, row) ==
  [p \in PlanIds |-> [plans[p] EXCEPT !.lines = {WithoutHours(ln, row) : ln \in @}]]

\* Mutant: the level is worked out in the transaction, from the row as it is then,
\* and the caller's right is not looked at again.
CommitOnCurrent(r) ==
  LET q == deciding[r]
      next == Effective(leave[q.id], q.wish)
  IN  /\ q.pc = "commit"
      /\ leave' = [leave EXCEPT ![q.id].status = next]
      /\ deciding' = [deciding EXCEPT ![r] = Quiet]
      /\ UNCHANGED <<balance, planning>>

Commit(r) ==
  LET q == deciding[r]
      row == q.read
  IN  /\ q.pc = "commit"
      /\ leave' = [leave EXCEPT ![q.id].status = q.next]
      /\ balance' = IF row.owner \in DOMAIN balance
                    THEN [balance EXCEPT ![row.owner] =
                            NewBalance(row.owner, row, q.next, q.found)]
                    ELSE balance
      /\ planning' = IF q.next = "APPROVED" THEN Freed(planning, row) ELSE planning
      /\ deciding' = [deciding EXCEPT ![r] = Quiet]

\* The process dies: what is not committed is not done.
CrashDecision(r) ==
  /\ CanCrash
  /\ deciding[r].pc # "idle"
  /\ deciding' = [deciding EXCEPT ![r] = Quiet]
  /\ UNCHANGED <<leave, balance, planning>>

LeaveNext ==
  \/ \E i \in LeaveIds, u \in active \cap Applicants, p \in Periods, half \in Halves \X Halves :
       CreateRequest(i, u, p[1], p[2], half[1], half[2])
  \/ \E r \in Decisions, u \in active, i \in LeaveIds, wish \in Wishes :
       BeginTransition(r, u, i, wish)
  \/ \E r \in Decisions : ReadBalance(r) \/ Commit(r) \/ CrashDecision(r)

LeaveSpec ==
  OrgInit /\ LeaveInit
    /\ [][LeaveNext /\ UNCHANGED orgVars]_<<orgVars, leaveVars, planning>>

---------------------------------------------------------------------------
(* What holds as long as no two requests about one balance overlap.        *)

\* The balance row says what the requests say: pending are the days of those
\* under review, used those of the approved ones, and the rest remains.  The row
\* is moved by differences from values read earlier, clamped at zero, at every
\* decision, and any request may die at any point.
BalanceMatchesRequests == \A u \in DOMAIN balance : balance[u] = BalanceOf(u)

PhaseOf(status) ==
  CASE status = "NONE" -> "none"
    [] status = "DRAFT" -> "draft"
    [] status \in Pending -> "held"
    [] status = "APPROVED" -> "taken"
    [] status \in {"REJECTED", "CANCELLED"} -> "released"

\* The ledger has the requests of those who have a balance.
ItemOf(row) ==
  IF row.owner \in DOMAIN Allowance
  THEN [phase |-> PhaseOf(row.status), holder |-> row.owner, cost |-> row.halves]
  ELSE [phase |-> "none", holder |-> NoUser, cost |-> 0]

Ledger == INSTANCE LeaveLedger WITH
  Items <- LeaveIds,
  Accounts <- DOMAIN Allowance,
  Nobody <- NoUser,
  item <- [i \in LeaveIds |-> ItemOf(leave[i])],
  account <- [u \in DOMAIN balance |-> [held |-> balance[u].pending,
                                         taken |-> balance[u].used]]

\* Every transition books the days of its request once, although it writes
\* absolute values computed from a row it read earlier, and may die or be
\* refused on the way.
KeepsLedger == Ledger!Spec

===========================================================================
