SPECIFICATION ScreenSpec
CONSTANTS
  e = e
  m = m
  c = c
  h = h
  d = d
  s1 = s1
  s2 = s2
  s3 = s3
  p1 = p1
  l1 = l1
  l2 = l2
  Users = {e, m, c, h, d}
  Sites = {s1, s2, s3}
  Projects = {p1}
  NoUser = NoUser
  NoSite = NoSite
  NoProject = NoProject
  InitialTenant <- MCTenant
  MaxChanges = 0
  LineIds = {l1, l2, l3, l4, l5, l6}
  Hours = {0, 8}
  MaxLines = 2
  Pages = {x1}
  NewRows = {n1, n2}
  Starts <- MCStarts
  MaxClicks = 3
  MaxTyped = 1
CHECK_DEADLOCK FALSE
INVARIANT ValidatorsCanOpen
PROPERTIES AcceptedIsStored ClicksSettle
