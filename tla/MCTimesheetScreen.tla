------------------------- MODULE MCTimesheetScreen -------------------------
(***************************************************************************)
(* m manages s1, and c manages s2; c is the chief of the project of both.  *)
(* e, who works on both, has a draft with a line on each; or the managers  *)
(* have approved both and the chief is about to decide.  d manages s3,     *)
(* where e does not work.                                                  *)
(***************************************************************************)
EXTENDS TimesheetScreen, TLC

CONSTANTS e, m, c, h, d, s1, s2, s3, p1, l1, l2

MCTenant ==
  [role |-> e :> "EMPLOYEE" @@ m :> "MANAGER" @@ c :> "PROJECT_MANAGER" @@ h :> "HR"
           @@ d :> "MANAGER",
   site |-> s1 :> [state |-> "open", manager |-> m, project |-> p1]
              @@ s2 :> [state |-> "open", manager |-> c, project |-> p1]
              @@ s3 :> [state |-> "open", manager |-> d, project |-> p1],
   project |-> p1 :> [state |-> "open", chief |-> c],
   assigned |-> s1 :> {e, m} @@ s2 :> {e} @@ s3 :> {d},
   mainSite |-> [u \in {e, m, c, h, d} |-> NoSite]]

PreApproved(ln, by) ==
  [ln EXCEPT !.status = "SITE_APPROVED", !.siteBy = by,
             !.action = [by |-> by, status |-> "SITE_APPROVED"]]

MCStarts ==
  {[sheet |-> [NoSheet EXCEPT !.status = "DRAFT", !.owner = e],
    lines |-> l1 :> NewLine(s1, 0) @@ l2 :> NewLine(s2, 8)],
   [sheet |-> [status |-> "N1_APPROVED", owner |-> e,
               action |-> [by |-> e, status |-> "SUBMITTED"]],
    lines |-> l1 :> PreApproved(NewLine(s1, 8), m) @@ l2 :> PreApproved(NewLine(s2, 8), c)]}

===========================================================================
