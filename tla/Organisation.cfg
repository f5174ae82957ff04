SPECIFICATION OrgSpec
CONSTANTS
  e = e
  m = m
  c = c
  h = h
  r = r
  s1 = s1
  s2 = s2
  p1 = p1
  p2 = p2
  Users = {e, m, c, h, r}
  Sites = {s1, s2}
  Projects = {p1, p2}
  NoUser = NoUser
  NoSite = NoSite
  NoProject = NoProject
  InitialTenant <- MCTenant
  MaxChanges = 3
  MailLimit = 2
CHECK_DEADLOCK FALSE
INVARIANTS OrgTypeOK NoFormerManager LeaversAreGone DecidersAreTold
           OffersAreServed DecidersAreShown DirectorsReachTheirSites
