----------------------------- MODULE MCReports -----------------------------
(***************************************************************************)
(* m manages s1, where e works; h is human resources.  Weeks of two days,  *)
(* the second a day off.  A day of 50 and 500 minutes passes the trigger   *)
(* of eight hours; on two days, 500 minutes do so on each.                 *)
(***************************************************************************)
EXTENDS Reports, TLC

CONSTANTS e, m, h, s1, p1

MCTenant ==
  [role |-> e :> "EMPLOYEE" @@ m :> "MANAGER" @@ h :> "HR",
   site |-> s1 :> [state |-> "open", manager |-> m, project |-> p1],
   project |-> p1 :> [state |-> "open", chief |-> NoUser],
   assigned |-> s1 :> {e},
   mainSite |-> [u \in {e, m, h} |-> NoSite]]

At(o, s, d, t) == [owner |-> o, site |-> s, day |-> d, time |-> t]

MCCheckIns == {At(e, s1, 1, 470), At(e, s1, 3, 530), At(m, NoSite, 4, 530)}

On(o, w, b, d, n) ==
  [owner |-> o, week |-> w, site |-> s1, billing |-> b, day |-> d, hours |-> n]

MCEntries ==
  {On(e, 1, "BILLABLE", 1, 650), On(e, 1, "NON_BILLABLE", 1, 333), On(e, 2, "BILLABLE", 3, 900),
   On(e, 1, "BILLABLE", 3, 100), On(m, 2, "BILLABLE", 4, 650)}

MCLeaves == {[owner |-> e, from |-> 1, to |-> 3, days |-> 4, paid |-> TRUE]}

MCHolidays == {[name |-> "a", day |-> 3], [name |-> "b", day |-> 3]}

Symmetry == Permutations(Ids)

===========================================================================
