--------------------------- MODULE MCOrganisation ---------------------------
(***************************************************************************)
(* A tenant of five accounts, with one site and one project, and room for  *)
(* one more of each: m manages s1, which belongs to the project of c, and  *)
(* e works there.                                                          *)
(***************************************************************************)
EXTENDS Screens, TLC

CONSTANTS e, m, c, h, r, s1, s2, p1, p2

MCRole == e :> "EMPLOYEE" @@ m :> "MANAGER" @@ c :> "PROJECT_MANAGER"
            @@ h :> "HR" @@ r :> "RESOURCE_MANAGER"

MCTenant ==
  [role |-> MCRole,
   site |-> s1 :> [state |-> "open", manager |-> m, project |-> p1]
            @@ s2 :> [state |-> "absent", manager |-> NoUser, project |-> NoProject],
   project |-> p1 :> [state |-> "open", chief |-> c]
               @@ p2 :> [state |-> "absent", chief |-> NoUser],
   assigned |-> s1 :> {e, m} @@ s2 :> {},
   mainSite |-> e :> s1 @@ m :> s1 @@ c :> s1 @@ h :> NoSite @@ r :> NoSite]

\* The hypothesis of OffersAlwaysServed.
ASSUME MCTenantAssumption == NoPlatformAdministrators

===========================================================================
