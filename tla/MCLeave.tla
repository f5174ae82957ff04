------------------------------ MODULE MCLeave -------------------------------
(***************************************************************************)
(* A tenant of four accounts: m manages s1, where e works, in the project  *)
(* of c, who works there too and so approves his own leave half-way; r is  *)
(* the resource manager.  c has a leave balance, and one request at a time *)
(* about it; e has none, and any number of requests in flight.             *)
(***************************************************************************)
EXTENDS LeaveDecisions, TLC

CONSTANTS e, m, c, r, s1, p1

MCTenant ==
  [role |-> e :> "EMPLOYEE" @@ m :> "MANAGER" @@ c :> "PROJECT_MANAGER"
            @@ r :> "RESOURCE_MANAGER",
   site |-> s1 :> [state |-> "open", manager |-> m, project |-> p1],
   project |-> p1 :> [state |-> "open", chief |-> c],
   assigned |-> s1 :> {e, c},
   mainSite |-> e :> s1 @@ m :> NoSite @@ c :> NoSite @@ r :> NoSite]

MCAllowance == c :> 3

MCNoLeaves == [i \in LeaveIds |-> NoLeave]

\* Thursday to Friday, Friday to Saturday.
MCPeriods == {<<1, 2>>, <<2, 3>>}

Symmetry == Permutations(LeaveIds) \cup Permutations(Decisions)

\* The hypothesis of BothLevelsAlwaysDecide.
ASSUME MCLeaveAssumption == NothingDecided

===========================================================================
