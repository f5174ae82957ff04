------------------------------ MODULE Reports ------------------------------
(***************************************************************************)
(* The reports of the back end and the workbook the front end makes of     *)
(* them (reports.service.ts, dashboard.service.ts, report-builders.ts),    *)
(* over the tables the workflows fill.  The same hours reach a reader by   *)
(* many ways -- by employee, by site, by day, by sheet, rounded or not,    *)
(* for the reader's team or for everybody -- and payroll, which depends on *)
(* the day, is asked for one period after another.                         *)
(*                                                                         *)
(* Days are numbered, and so are the weeks the sheets are for.  Times are  *)
(* minutes; hours, which are printed with two decimals, hundredths; leave  *)
(* durations half-days.  A report is computed in one step; rates, names    *)
(* and the order of rows are left out.                                     *)
(***************************************************************************)
EXTENDS Organisation, Integers, FiniteSetsExt

CONSTANTS
  CheckIns,      \* [owner, site, day, time]: the check-ins there may be
  Durations,     \* in minutes
  Entries,       \* [owner, week, site, billing, day, hours]: day entries
  Leaves,        \* [owner, from, to, days, paid]: leave requests, approved
  Holidays,      \* [name, day]: the holidays there may be
  Ids,           \* identifiers of punches and day entries
  MaxRows,       \* bound on punches and day entries together
  LastDay, DaysInWeek, Weekend,
  TriggerHours,  \* tenant settings: overtimeTriggerHours ...
  LateAfter,     \* ... and workDayStartTime plus lateToleranceMinutes
  Take           \* rows of a listing, 100 unless asked otherwise

Days == 1..LastDay
Weeks == 1..(LastDay \div DaysInWeek)
FirstOf(w) == (w - 1) * DaysInWeek + 1
LastOf(w) == w * DaysInWeek
Statuses == {"DRAFT", "SUBMITTED", "N1_APPROVED", "APPROVED", "REJECTED", "REOPENED"}

ASSUME ReportsAssumption ==
  /\ \A c \in CheckIns : c.owner \in Users /\ c.site \in Sites \cup {NoSite} /\ c.day \in Days
  /\ \A n \in Entries :
       n.owner \in Users /\ n.week \in Weeks /\ n.day \in Days /\ n.hours \in Nat
  /\ \A l \in Leaves : l.from \in Int /\ l.to \in Int /\ l.from <= l.to /\ l.days \in Nat
  /\ LastDay \in Nat /\ DaysInWeek \in Nat \ {0}
  /\ Durations \subseteq Nat /\ TriggerHours \in Nat \ {0}

VARIABLES
  punch,    \* punch[i]: row i of AttendancePunch
  sheet,    \* sheet[<<o, w>>]: status of the sheet of o for week w, or "NONE"
  entry,    \* entry[i]: a day entry, with the columns of its line
  leave,    \* the approved leave requests
  holiday   \* the holidays of the tenant

repVars == <<punch, sheet, entry, leave, holiday>>

ReportsInit ==
  /\ OrgInit
  /\ punch = <<>>
  /\ sheet = [k \in Users \X Weeks |-> "NONE"]
  /\ entry = <<>>
  /\ leave = {}
  /\ holiday = {}

---------------------------------------------------------------------------
(* The rows the other parts of the system write.                           *)

Added(rows, i, row) == [j \in DOMAIN rows \cup {i} |-> IF j = i THEN row ELSE rows[j]]

OneMoreRow == Cardinality(DOMAIN punch) + Cardinality(DOMAIN entry) < MaxRows

CheckIn(i, c) ==
  /\ OneMoreRow
  /\ i \in Ids \ DOMAIN punch
  /\ punch' = Added(punch, i, [of |-> c, open |-> TRUE, minutes |-> 0, status |-> "DRAFT"])
  /\ UNCHANGED <<sheet, entry, leave, holiday>>

CheckOut(i, n) ==
  /\ punch[i].open
  /\ punch' = [punch EXCEPT ![i].open = FALSE, ![i].minutes = n]
  /\ UNCHANGED <<sheet, entry, leave, holiday>>

\* Submission, the two levels, and a direct decision by one who holds both.
Moves == {<<"DRAFT", "SUBMITTED">>, <<"SUBMITTED", "N1_APPROVED">>, <<"SUBMITTED", "APPROVED">>,
          <<"N1_APPROVED", "APPROVED">>, <<"SUBMITTED", "REJECTED">>}

MovePunch(i, st) ==
  /\ <<punch[i].status, st>> \in Moves
  /\ punch' = [punch EXCEPT ![i].status = st]
  /\ UNCHANGED <<sheet, entry, leave, holiday>>

\* The sheet is created with its first entry, here.  The date of an entry is not
\* compared with the period of the sheet.
EnterHours(i, n) ==
  /\ OneMoreRow
  /\ i \in Ids \ DOMAIN entry
  /\ sheet[<<n.owner, n.week>>] \in {"NONE", "DRAFT"}
  /\ entry' = Added(entry, i, n)
  /\ sheet' = [sheet EXCEPT ![<<n.owner, n.week>>] = "DRAFT"]
  /\ UNCHANGED <<punch, leave, holiday>>

MoveSheet(o, w, st) ==
  /\ <<sheet[<<o, w>>], st>> \in Moves
  /\ sheet' = [sheet EXCEPT ![<<o, w>>] = st]
  /\ UNCHANGED <<punch, entry, leave, holiday>>

ApproveLeave(l) ==
  /\ leave' = leave \cup {l}
  /\ UNCHANGED <<punch, sheet, entry, holiday>>

CreateHoliday(d) ==
  /\ holiday' = holiday \cup {d}
  /\ UNCHANGED <<punch, sheet, entry, leave>>

DeleteHoliday(d) ==
  /\ holiday' = holiday \ {d}
  /\ UNCHANGED <<punch, sheet, entry, leave>>

---------------------------------------------------------------------------
(* Selecting rows.                                                         *)

\* Number((minutes / 60).toFixed(2))
Rounded(minutes) == (5 * minutes + 1) \div 3

\* buildUserIdFilter: all the viewer may see, or the one he asks for.
Selected(v, who) == IF who = NoUser THEN ManagedUsers(v) ELSE ManagedUsers(v) \cap {who}

Period(from, to) == [from |-> from, to |-> to, who |-> NoUser, site |-> NoSite, status |-> "NONE"]

\* attendanceWhere; a field of the filter that is not given selects nothing out.
Punches(v, f) ==
  {i \in DOMAIN punch :
     /\ punch[i].of.owner \in Selected(v, f.who)
     /\ punch[i].of.day \in f.from..f.to
     /\ f.site # NoSite => punch[i].of.site = f.site
     /\ f.status # "NONE" => punch[i].status = f.status}

\* A column, given as a function of its rows, added up.
Total(f) == MapThenSumSet(LAMBDA k : f[k], DOMAIN f)

Minutes(is) == Total([i \in is |-> punch[i].minutes])

Owners(is) == {punch[i].of.owner : i \in is}

LeavesIn(os, from, to) == {l \in leave : l.owner \in os /\ l.from <= to /\ l.to >= from}

LeaveDays(ls) == Total([l \in ls |-> l.days])

HolidaysIn(from, to) == {d \in holiday : d.day \in from..to}

\* The total of a column of a report.
Field(rows, fd) == Total([k \in DOMAIN rows |-> rows[k][fd]])

\* `leave`: the requests that are inside the period.
LeaveList(v, from, to) ==
  {l \in leave : l.owner \in ManagedUsers(v) /\ l.from >= from /\ l.to <= to}

LeaveSheetTotal(ls) == LeaveDays(ls)

---------------------------------------------------------------------------
(* The reports on punches.                                                 *)

Grouped(is) ==
  [minutes |-> Minutes(is), hours |-> Rounded(Minutes(is)), punches |-> Cardinality(is)]

HoursByEmployee(v, f) ==
  LET rows == Punches(v, f)
  IN  [o \in Owners(rows) |-> Grouped({i \in rows : punch[i].of.owner = o})]

HoursBySite(v, f) ==
  LET rows == Punches(v, f)
  IN  [s \in {punch[i].of.site : i \in rows} |-> Grouped({i \in rows : punch[i].of.site = s})]

\* The totals of the sheets made of the two.
HoursByEmployeeSheet(rows) ==
  [hours |-> Field(rows, "hours"), minutes |-> Field(rows, "minutes"),
   punches |-> Field(rows, "punches")]

HoursBySiteSheet(rows) == [hours |-> Field(rows, "hours"), punches |-> Field(rows, "punches")]

\* `attendance`: the latest punches; and the total of the sheet made of them.
AttendanceList(v, f) ==
  LET rows == Punches(v, f)
  IN  IF Cardinality(rows) <= Take THEN rows
      ELSE CHOOSE S \in SUBSET rows :
             Cardinality(S) = Take /\ \A i \in S, j \in rows \ S : punch[i].of.day >= punch[j].of.day

AttendanceSheetTotal(is) == Total([i \in is |-> Rounded(punch[i].minutes)])

Late(is) == {i \in is : punch[i].of.time > LateAfter}

StillOpen(is) == {i \in is : punch[i].open}

\* countWorkingDays
WorkingDays(from, to) ==
  Cardinality((from..to) \ (Weekend \cup {d.day : d \in holiday}))

\* The row of an employee, of his punches in the period.
MonthlyRow(o, mine, from, to) ==
  LET left == WorkingDays(from, to) - Cardinality(mine)
      away == LeaveDays(LeavesIn({o}, from, to))
  IN  [workedDays |-> Cardinality(mine),
       minutes |-> Minutes(mine),
       late |-> Cardinality(Late(mine)),
       open |-> Cardinality(StillOpen(mine)),
       leaveDays |-> away,
       absent |-> IF 2 * left > away THEN 2 * left - away ELSE 0,
       approved |-> Cardinality({i \in mine : punch[i].status = "APPROVED"}),
       pending |-> Cardinality({i \in mine : punch[i].status \in {"SUBMITTED", "N1_APPROVED"}})]

MonthlyAttendance(v, from, to) ==
  LET rows == Punches(v, Period(from, to))
  IN  [o \in Owners(rows) |-> MonthlyRow(o, {i \in rows : punch[i].of.owner = o}, from, to)]

\* lateArrivals: how many, and the punches that are still open.
LateArrivals(v, f) ==
  LET rows == Punches(v, [f EXCEPT !.status = "NONE"])
  IN  [late |-> [o \in Owners(Late(rows)) |-> Cardinality({i \in Late(rows) : punch[i].of.owner = o})],
       open |-> StillOpen(rows)]

---------------------------------------------------------------------------
(* The reports on sheets.                                                  *)

EntriesOf(o, w) == {i \in DOMAIN entry : entry[i].owner = o /\ entry[i].week = w}

Hours(is) == Total([i \in is |-> entry[i].hours])

DayHours(is, d) == Hours({i \in is : entry[i].day = d})

Billable(is) == {i \in is : entry[i].billing = "BILLABLE"}

\* `timesheets`: sheets whose period is inside the one asked for, no draft of
\* somebody else's among them.
Sheets(v, from, to) ==
  {k \in Users \X Weeks :
     /\ sheet[k] # "NONE"
     /\ k[1] \in ManagedUsers(v)
     /\ k[1] = v \/ sheet[k] # "DRAFT"
     /\ FirstOf(k[2]) >= from /\ LastOf(k[2]) <= to}

\* overlapCalendarDays, in half-days
Overlap(w, l) ==
  LET from == IF l.from > FirstOf(w) THEN l.from ELSE FirstOf(w)
      to == IF l.to < LastOf(w) THEN l.to ELSE LastOf(w)
  IN  IF to < from THEN 0 ELSE 2 * (to - from + 1)

LeastOf(a, b) == IF a < b THEN a ELSE b

\* The days of leave that fall in the period of the sheet.
Taken(ls, w) == Total([l \in ls |-> LeastOf(l.days, Overlap(w, l))])

\* calculateTimesheetMetrics
Metrics(o, w) ==
  LET is == EntriesOf(o, w)
      days == {entry[i].day : i \in is}
      trigger == 100 * TriggerHours
      ls == LeavesIn({o}, FirstOf(w), LastOf(w))
  IN  [total |-> Hours(is),
       normal |-> Total([d \in days |-> LeastOf(DayHours(is, d), trigger)]),
       overtime |-> Total([d \in days |-> DayHours(is, d) - LeastOf(DayHours(is, d), trigger)]),
       billable |-> Hours(Billable(is)),
       nonBillable |-> Hours(is \ Billable(is)),
       leaveDays |-> Taken(ls, w),
       paidLeave |-> Taken({l \in ls : l.paid}, w),
       holidays |-> Cardinality(HolidaysIn(FirstOf(w), LastOf(w)))]

\* Mutant: the row of an employee shows his last sheet only.
SummaryOfLast(o, ks) ==
  LET k == CHOOSE k \in ks : \A j \in ks : k[2] >= j[2]
  IN  Metrics(o, k[2])

\* The row of an employee in the consolidated sheet of the workbook.
Summary(o, ks) ==
  [fd \in {"total", "normal", "overtime", "billable", "nonBillable", "leaveDays", "holidays"} |->
     Total([k \in ks |-> Metrics(o, k[2])[fd]])]

Workbook(v, from, to) ==
  LET shown == Sheets(v, from, to)
      ofOwner(o) == {k \in shown : k[1] = o}
      his(o) == UNION {EntriesOf(o, k[2]) : k \in ofOwner(o)}
  IN  [o \in {k[1] : k \in shown} |->
         [summary |-> Summary(o, ofOwner(o)),
          columns |-> [d \in Days |-> DayHours(his(o), d)],
          rows |-> [s \in {entry[i].site : i \in his(o)} |->
                      Hours({i \in his(o) : entry[i].site = s})]]]

\* siteWorkload: every line of the tenant, whatever the viewer and the status.
WorkloadRow(here) ==
  [billable |-> Hours(Billable(here)),
   nonBillable |-> Hours(here \ Billable(here)),
   headcount |-> Cardinality({entry[i].owner : i \in here})]

SiteWorkload(from, to) ==
  LET is == {i \in DOMAIN entry : entry[i].day \in from..to}
  IN  [s \in {entry[i].site : i \in is} |-> WorkloadRow({i \in is : entry[i].site = s})]

---------------------------------------------------------------------------
(* Payroll, and the two dashboards.                                        *)

DayMinutes(o, d) ==
  Minutes({i \in DOMAIN punch :
             punch[i].of.owner = o /\ punch[i].of.day = d /\ punch[i].status = "APPROVED"})

\* Mutant: the trigger is compared with the hours of the whole period.
OvertimeOfPeriod(o, days) ==
  LET all == Total([d \in days |-> DayMinutes(o, d)])
  IN  all - LeastOf(all, 60 * TriggerHours)

\* Beyond the trigger on one day, over all its punches.
Overtime(o, days) ==
  Total([d \in days |-> DayMinutes(o, d) - LeastOf(DayMinutes(o, d), 60 * TriggerHours)])

PayrollRow(o, from, to) ==
  LET days == {d \in from..to : DayMinutes(o, d) > 0}
      is == {i \in DOMAIN entry :
               /\ entry[i].owner = o /\ entry[i].day \in from..to
               /\ sheet[<<o, entry[i].week>>] = "APPROVED"}
      ls == LeavesIn({o}, from, to)
  IN  [workedDays |-> Cardinality(days),
       normal |-> Total([d \in days |-> DayMinutes(o, d)]) - Overtime(o, days),
       overtime |-> Overtime(o, days),
       billable |-> Hours(Billable(is)),
       nonBillable |-> Hours(is \ Billable(is)),
       paidLeave |-> LeaveDays({l \in ls : l.paid}),
       unpaidLeave |-> LeaveDays({l \in ls : ~l.paid})]

Approved(from, to) == [Period(from, to) EXCEPT !.status = "APPROVED"]

Payroll(v, from, to) ==
  LET rows == Punches(v, Approved(from, to))
  IN  [rows |-> [o \in Owners(rows) |-> PayrollRow(o, from, to)],
       publicHolidays |-> Cardinality({d \in HolidaysIn(from, to) : d.day \notin Weekend})]

\* The summary of the payroll file, of hours rounded row by row.
PayrollSummary(pay) ==
  LET rounded(fd) == Total([o \in DOMAIN pay.rows |-> Rounded(pay.rows[o][fd])])
  IN  [employees |-> Cardinality(DOMAIN pay.rows),
       normal |-> rounded("normal"), overtime |-> rounded("overtime")]

\* hrDashboard
HrDashboard(v, from, to) ==
  LET shown == Sheets(v, from, to)
      team == ManagedUsers(v)
      count(sts) == Cardinality({k \in shown : sheet[k] \in sts})
  IN  [hours |-> Rounded(Minutes(Punches(v, Period(from, to)))),
       workingDays |-> WorkingDays(from, to),
       leaveDays |-> LeaveDays(LeavesIn(team, from, to)),
       total |-> Cardinality(shown),
       approved |-> count({"APPROVED"}),
       pending |-> count({"SUBMITTED", "N1_APPROVED"}),
       rejected |-> count({"REJECTED"}),
       withoutTimesheet |-> IF role[v] \in Unrestricted THEN 0
                            ELSE Cardinality(team \ {k[1] : k \in shown}),
       openPunches |-> Cardinality({punch[i].of.owner : i \in
                         {j \in DOMAIN punch : punch[j].open /\ punch[j].of.owner \in team}})]

\* The dashboard of the week: the counter leaves out the drafts of others, the
\* chart does not.
Dashboard(v, w) ==
  LET is == {i \in DOMAIN entry :
               entry[i].day \in FirstOf(w)..LastOf(w) /\ entry[i].owner \in ManagedUsers(v)}
      seen == {i \in is : entry[i].owner = v \/ sheet[<<entry[i].owner, entry[i].week>>] # "DRAFT"}
  IN  [weeklyHours |-> Hours(seen),
       hoursByDay |-> [d \in FirstOf(w)..LastOf(w) |-> Hours({i \in is : entry[i].day = d})]]

\* Its counters of sheets, over all periods.
Counters(v) ==
  LET count(sts) ==
        Cardinality({k \in ManagedUsers(v) \X Weeks :
                       sheet[k] \in sts /\ (k[1] = v \/ sheet[k] # "DRAFT")})
  IN  [approved |-> count({"APPROVED"}),
       pending |-> count({"SUBMITTED", "N1_APPROVED"}),
       rejected |-> count({"REJECTED"}),
       drafts |-> count({"DRAFT", "REOPENED"})]

---------------------------------------------------------------------------

ReportsNext ==
  /\ \/ \E i \in Ids, c \in CheckIns : CheckIn(i, c)
     \/ \E i \in DOMAIN punch, n \in Durations : CheckOut(i, n)
     \/ \E i \in DOMAIN punch, st \in Statuses : MovePunch(i, st)
     \/ \E i \in Ids, n \in Entries : EnterHours(i, n)
     \/ \E o \in Users, w \in Weeks, st \in Statuses : MoveSheet(o, w, st)
     \/ \E l \in Leaves : ApproveLeave(l)
     \/ \E d \in Holidays : CreateHoliday(d)
     \/ \E d \in holiday : DeleteHoliday(d)
  /\ UNCHANGED orgVars

ReportsSpec == ReportsInit /\ [][ReportsNext]_<<orgVars, repVars>>

---------------------------------------------------------------------------
(* What a reader of two reports may rely on.                               *)

\* Those the reports are offered to.
Viewers == {u \in active : role[u] # "EMPLOYEE"}

Drafts(v) == {k \in Users \X Weeks : k[1] # v /\ sheet[k] = "DRAFT"}

Within(a, b, gap) == a <= b + gap /\ b <= a + gap

PayField(rows, o, fd) == IF o \in DOMAIN rows THEN rows[o][fd] ELSE 0

\* Payroll may be asked for by the week or by the month: normal and overtime
\* minutes, worked days and sheet hours of a period are those of its two parts,
\* wherever it is cut, and no minute of an approved punch is lost or paid twice.
PayrollAddsUp ==
  \A v \in Viewers, from, to \in Days :
    from <= to =>
      LET pay == Payroll(v, from, to)
          bySite == HoursBySite(v, Approved(from, to))
      IN  /\ \A cut \in from..(to - 1) :
               LET first == Payroll(v, from, cut)
                   second == Payroll(v, cut + 1, to)
               IN  /\ pay.publicHolidays = first.publicHolidays + second.publicHolidays
                   /\ \A o \in Users, fd \in {"workedDays", "normal", "overtime"} :
                        PayField(pay.rows, o, fd) =
                          PayField(first.rows, o, fd) + PayField(second.rows, o, fd)
          /\ Field(pay.rows, "normal") + Field(pay.rows, "overtime") = Field(bySite, "minutes")
          /\ LET sum == PayrollSummary(pay)
             IN  Within(sum.normal + sum.overtime, HoursBySiteSheet(bySite).hours,
                        sum.employees + Cardinality(DOMAIN bySite))

\* The hours of punches: by employee, by site, in the list, in the sheets made of
\* them and in the two monthly reports, up to the cent lost by rounding each row.
\* The leave list alone leaves out what crosses a bound of the period.
PunchReportsAgree(v, from, to) ==
  LET p == Period(from, to)
      byOwner == HoursByEmployee(v, p)
      bySite == HoursBySite(v, p)
      totals == HoursByEmployeeSheet(byOwner)
      monthly == MonthlyAttendance(v, from, to)
      board == HrDashboard(v, from, to)
      late == LateArrivals(v, p)
      rows == Punches(v, p)
      away == LeavesIn(ManagedUsers(v), from, to)
      inside == LeaveList(v, from, to)
      days == from..to
  IN  /\ totals.minutes = Field(bySite, "minutes")
      /\ totals.minutes = Field(monthly, "minutes")
      /\ totals.punches = HoursBySiteSheet(bySite).punches
      /\ totals.punches = Field(monthly, "workedDays")
      /\ Within(totals.hours, board.hours, Cardinality(DOMAIN byOwner))
      /\ Within(totals.hours, HoursBySiteSheet(bySite).hours, Cardinality(rows))
      /\ Cardinality(rows) <= Take =>
           Within(totals.hours, AttendanceSheetTotal(AttendanceList(v, p)), Cardinality(rows))
      /\ \A o \in DOMAIN late.late : late.late[o] = monthly[o].late
      /\ Field(monthly, "open") = Cardinality(late.open)
      /\ WorkingDays(from, to) + Cardinality({d.day : d \in HolidaysIn(from, to)} \ Weekend) =
           Cardinality(days \ Weekend)
      /\ board.leaveDays >= Field(monthly, "leaveDays")
      /\ board.leaveDays = LeaveSheetTotal(inside) + LeaveDays(away \ inside)

\* The hours of these sheets.
SheetHours(ks) == Total([k \in ks |-> Metrics(k[1], k[2]).total])

\* The hours of sheets: each workbook adds up by row, by column and by kind, and
\* over whole weeks the sites, payroll and the dashboard have the same hours, the
\* drafts of others apart; as long as entries are dated in the week of their sheet.
SheetReportsAgree(v, from, to) ==
  LET book == Workbook(v, from, to)
      shown == Sheets(v, from, to)
      inPeriod(ks) == {k \in ks : FirstOf(k[2]) >= from /\ LastOf(k[2]) <= to}
      pay == Payroll(v, from, to).rows
      sites == SiteWorkload(from, to)
  IN  /\ \A o \in DOMAIN book :
           LET row == book[o].summary
           IN  /\ row.normal + row.overtime = row.total
               /\ row.billable + row.nonBillable = row.total
               /\ Total(book[o].columns) = row.total
               /\ Total(book[o].rows) = row.total
      /\ (\A i \in DOMAIN entry : entry[i].day \in FirstOf(entry[i].week)..LastOf(entry[i].week)) =>
           /\ \A o \in DOMAIN pay :
                pay[o].billable + pay[o].nonBillable =
                  SheetHours({k \in shown : k[1] = o /\ sheet[k] = "APPROVED"})
           /\ role[v] \in Unrestricted =>
                Field(sites, "billable") + Field(sites, "nonBillable") =
                  SheetHours(shown) + SheetHours(inPeriod(Drafts(v)))
           /\ \A w \in {k[2] : k \in shown} :
                LET board == Dashboard(v, w)
                IN  Total(board.hoursByDay) =
                      board.weeklyHours +
                      SheetHours({k \in Drafts(v) : k[2] = w /\ k[1] \in ManagedUsers(v)})

\* Two reports of one viewer on one period never contradict each other.
ReportsAgree ==
  \A v \in Viewers :
    /\ \A from, to \in Days : from <= to => PunchReportsAgree(v, from, to)
    /\ LET all == HrDashboard(v, 1, LastDay)
           seen == Counters(v)
       IN  /\ \A fd \in {"approved", "pending", "rejected"} : seen[fd] = all[fd]
           /\ seen.approved + seen.pending + seen.rejected + seen.drafts = all.total
    /\ \A w1, w2 \in Weeks : w1 <= w2 => SheetReportsAgree(v, FirstOf(w1), LastOf(w2))

===========================================================================
