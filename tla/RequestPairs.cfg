SPECIFICATION Spec
CONSTANTS
  e = e
  m = m
  c = c
  h = h
  s1 = s1
  s2 = s2
  p1 = p1
  p2 = p2
  Users = {e, m, c, h}
  Sites = {s1}
  Projects = {p1}
  NoUser = NoUser
  NoSite = NoSite
  NoProject = NoProject
  InitialTenant <- MCSmallTenant
  MaxChanges = 0
  LineIds = {l1, l2}
  Hours = {8}
  MaxLines = 1
  Requests = {r1, r2}
  Ops = {"save", "remove", "submit"}
  NoLine = NoLine
  OnePerUser = FALSE
  CanCrash = FALSE
  Submitters = {}
  MaxSheets = 2
CHECK_DEADLOCK FALSE
SYMMETRY Symmetry
INVARIANT LinesGoWithTheSheet
