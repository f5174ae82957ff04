------------------------ MODULE MCTimesheetRequests ------------------------
(***************************************************************************)
(* A tenant of four accounts.  Site s1 belongs to project p1: its manager  *)
(* is m, the chief is c.  Site s2 belongs to p2, whose chief is m; its     *)
(* manager is c, so that c's own lines on s2 go straight to the chief, m.  *)
(* e works on both sites.                                                  *)
(***************************************************************************)
EXTENDS TimesheetRequests, TLC

CONSTANTS e, m, c, h, s1, s2, p1, p2

MCRole == e :> "EMPLOYEE" @@ m :> "MANAGER" @@ c :> "PROJECT_MANAGER" @@ h :> "HR"

SiteOf(manager, p) == [state |-> "open", manager |-> manager, project |-> p]
ProjectBy(chief) == [state |-> "open", chief |-> chief]

MCTenant ==
  [role |-> MCRole,
   site |-> s1 :> SiteOf(m, p1) @@ s2 :> SiteOf(c, p2),
   project |-> p1 :> ProjectBy(c) @@ p2 :> ProjectBy(m),
   assigned |-> s1 :> {e, m} @@ s2 :> {c},
   mainSite |-> e :> s2 @@ m :> s1 @@ c :> s2 @@ h :> NoSite]

\* The first site and its project alone, and who is among Users.
MCSmallTenant ==
  [role |-> [u \in Users |-> MCRole[u]],
   site |-> s1 :> SiteOf(m, p1),
   project |-> p1 :> ProjectBy(c),
   assigned |-> s1 :> {e, m},
   mainSite |-> [u \in Users |-> s1]]

LineSymmetry == Permutations(LineIds)

Symmetry == Permutations(LineIds) \cup Permutations(Requests)

===========================================================================
