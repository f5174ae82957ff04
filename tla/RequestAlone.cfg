SPECIFICATION Spec
CONSTANTS
  e = e
  m = m
  c = c
  h = h
  s1 = s1
  s2 = s2
  p1 = p1
  p2 = p2
  Users = {e, m, c, h}
  Sites = {s1, s2}
  Projects = {p1, p2}
  NoUser = NoUser
  NoSite = NoSite
  NoProject = NoProject
  InitialTenant <- MCTenant
  MaxChanges = 0
  LineIds = {l1, l2}
  Hours = {0, 8}
  MaxLines = 2
  Requests = {r1}
  Ops = {"save", "remove", "submit", "reopen", "approve", "reject"}
  NoLine = NoLine
  OnePerUser = FALSE
  CanCrash = TRUE
  Submitters = {}
  MaxSheets = 1
CHECK_DEADLOCK FALSE
SYMMETRY LineSymmetry
INVARIANT SignaturesMatchStatus
PROPERTIES ServesWorkflow SignedHoursAreFrozen ApprovedIsFinal
