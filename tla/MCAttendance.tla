---------------------------- MODULE MCAttendance ----------------------------
(***************************************************************************)
(* m manages s1, where e works, in the project of c; h is human resources  *)
(* and so holds both levels.                                               *)
(***************************************************************************)
EXTENDS Attendance, TLC

CONSTANTS e, m, c, h, s1, p1

MCTenant ==
  [role |-> e :> "EMPLOYEE" @@ m :> "MANAGER" @@ c :> "PROJECT_MANAGER" @@ h :> "HR",
   site |-> s1 :> [state |-> "open", manager |-> m, project |-> p1],
   project |-> p1 :> [state |-> "open", chief |-> c],
   assigned |-> s1 :> {e},
   mainSite |-> [u \in {e, m, c, h} |-> NoSite]]

Symmetry == Permutations(Handlers)

===========================================================================
