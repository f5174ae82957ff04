SPECIFICATION Spec
CONSTANTS
  e = e
  m = m
  c = c
  h = h
  s1 = s1
  s2 = s2
  p1 = p1
  p2 = p2
  Users = {e, m, c, h}
  Sites = {s1, s2}
  Projects = {p1, p2}
  NoUser = NoUser
  NoSite = NoSite
  NoProject = NoProject
  InitialTenant <- MCTenant
  MaxChanges = 0
  LineIds = {l1, l2}
  Hours = {8}
  MaxLines = 2
  Requests = {r1, r2}
  Ops = {"save", "approve", "reject"}
  NoLine = NoLine
  OnePerUser = TRUE
  CanCrash = FALSE
  Submitters = {e, c}
  MaxSheets = 1
CHECK_DEADLOCK FALSE
SYMMETRY Symmetry
INVARIANT ApprovedMeansSigned
PROPERTIES NoSkippedStage ApprovalsSurvive
