SPECIFICATION DecisionsSpec
CONSTANTS
  e = e
  m = m
  c = c
  r = r
  s1 = s1
  p1 = p1
  Users = {e, m, c, r}
  Sites = {s1}
  Projects = {p1}
  NoUser = NoUser
  NoSite = NoSite
  NoProject = NoProject
  InitialTenant <- MCTenant
  MaxChanges = 0
  LeaveIds = {i1, i2}
  PlanIds = {}
  NoRow = NoRow
  LastDay = 3
  Weekend = {3}
  Holidays = {}
  Applicants = {e, c}
  Periods <- MCPeriods
  InitialLeaves <- MCNoLeaves
  Halves = {FALSE, TRUE}
  Allowance <- MCAllowance
  Wishes = {"SUBMITTED", "APPROVED", "REJECTED", "CANCELLED"}
  Decisions = {d1, d2}
  OnePerBalance = TRUE
  CanCrash = TRUE
CHECK_DEADLOCK FALSE
SYMMETRY Symmetry
INVARIANTS BalanceMatchesRequests BothLevelsDecide
PROPERTY KeepsLedger
