SPECIFICATION Spec
CONSTANTS
  e = e
  m = m
  c = c
  h = h
  s1 = s1
  p1 = p1
  Users = {e, m, c, h}
  Sites = {s1}
  Projects = {p1}
  NoUser = NoUser
  NoSite = NoSite
  NoProject = NoProject
  InitialTenant <- MCTenant
  MaxChanges = 0
  Punchers = {e}
  CheckInSites = {s1}
  MaxPunches = 2
  MaxAsked = 5
  Handlers = {h1, h2}
  MayRace = TRUE
  CanCrash = TRUE
CHECK_DEADLOCK FALSE
SYMMETRY Symmetry
INVARIANTS OneOpenPunch ApprovalsAreBacked
