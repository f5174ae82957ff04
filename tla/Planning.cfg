SPECIFICATION Spec
CONSTANTS
  e = e
  m = m
  c = c
  r = r
  s1 = s1
  p1 = p1
  Users = {e, m, c, r}
  Sites = {s1}
  Projects = {p1}
  NoUser = NoUser
  NoSite = NoSite
  NoProject = NoProject
  InitialTenant <- MCTenant
  MaxChanges = 0
  LeaveIds = {i1}
  PlanIds = {q1, q2}
  NoRow = NoRow
  LastDay = 2
  Weekend = {}
  Holidays = {}
  Halves = {FALSE}
  Applicants = {e}
  Periods <- MCPeriods
  InitialLeaves <- MCHalfApproved
  Allowance <- MCAllowance
  Wishes = {"APPROVED"}
  Decisions = {d1}
  OnePerBalance = TRUE
  CanCrash = FALSE
  Hours = {0, 8}
  MaxPlanLines = 1
  w1 = w1
  w2 = w2
  Saves = {w1, w2}
  OpsOf <- MCOpsOf
CHECK_DEADLOCK FALSE
SYMMETRY Symmetry
INVARIANTS LeaveDaysAreFree PeriodsDoNotOverlap
