SPECIFICATION ReportsSpec
CONSTANTS
  e = e
  m = m
  h = h
  s1 = s1
  p1 = p1
  Users = {e, m, h}
  Sites = {s1}
  Projects = {p1}
  NoUser = NoUser
  NoSite = NoSite
  NoProject = NoProject
  InitialTenant <- MCTenant
  MaxChanges = 0
  CheckIns <- MCCheckIns
  Durations = {50, 500}
  Entries <- MCEntries
  Leaves <- MCLeaves
  Holidays <- MCHolidays
  Ids = {i1, i2}
  MaxRows = 2
  LastDay = 4
  DaysInWeek = 2
  Weekend = {2, 4}
  TriggerHours = 8
  LateAfter = 495
  Take = 2
CHECK_DEADLOCK FALSE
SYMMETRY Symmetry
INVARIANTS PayrollAddsUp ReportsAgree
