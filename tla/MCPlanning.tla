----------------------------- MODULE MCPlanning -----------------------------
(***************************************************************************)
(* A tenant of four accounts: m manages s1, where e works, in the project  *)
(* of c; r is the resource manager.  Only e has a leave balance.           *)
(***************************************************************************)
EXTENDS Planning, TLC

CONSTANTS e, m, c, r, s1, p1, w1, w2

MCTenant ==
  [role |-> e :> "EMPLOYEE" @@ m :> "MANAGER" @@ c :> "PROJECT_MANAGER"
            @@ r :> "RESOURCE_MANAGER",
   site |-> s1 :> [state |-> "open", manager |-> m, project |-> p1],
   project |-> p1 :> [state |-> "open", chief |-> c],
   assigned |-> s1 :> {e},
   mainSite |-> e :> s1 @@ m :> NoSite @@ c :> NoSite @@ r :> NoSite]

MCAllowance == e :> 3

\* Two days of e, which the chief has approved and r has not yet.
MCHalfApproved ==
  [i \in LeaveIds |-> [status |-> "N1_APPROVED", owner |-> e, from |-> 1, to |-> 2,
                       halves |-> Duration(1, 2, FALSE, FALSE)]]

\* A period page meets another one, or any request about a sheet.
MCOpsOf ==
  w1 :> {"update", "publish", "period"} @@ w2 :> {"period", "remove", "reopen"}

MCPeriods == {<<1, 2>>, <<2, 2>>}

Symmetry == Permutations(PlanIds)

===========================================================================
