-------------------------- MODULE LeaveDecisions --------------------------
(***************************************************************************)
(* Who approved a leave: the requests of Leave with the approvals they     *)
(* committed.  A decision is written over the row without looking at it    *)
(* again, so requests about one leave may write over one another, and the  *)
(* row keeps the last one only.                                            *)
(***************************************************************************)
EXTENDS Leave

VARIABLE signed  \* history: signed[i]: who approved request i, and how far

decided == <<orgVars, leaveVars, planning, signed>>

DecisionsInit ==
  /\ OrgInit /\ LeaveInit
  /\ signed = [i \in LeaveIds |-> {}]

\* The caller and the status, as the transaction writes them.
SignedCommit(r) ==
  /\ Commit(r)
  /\ LET i == deciding[r].id
         status == leave'[i].status
     IN  signed' = IF status \in {"N1_APPROVED", "APPROVED"}
                   THEN [signed EXCEPT ![i] = @ \cup {[by |-> deciding[r].user,
                                                      status |-> status]}]
                   ELSE signed

DecisionsNext ==
  \/ \E i \in LeaveIds, u \in active \cap Applicants, p \in Periods, half \in Halves \X Halves :
       CreateRequest(i, u, p[1], p[2], half[1], half[2]) /\ UNCHANGED signed
  \/ \E r \in Decisions, u \in active, i \in LeaveIds, wish \in Wishes :
       BeginTransition(r, u, i, wish) /\ UNCHANGED signed
  \/ \E r \in Decisions : SignedCommit(r)
  \/ \E r \in Decisions : (ReadBalance(r) \/ CrashDecision(r)) /\ UNCHANGED signed

DecisionsSpec ==
  DecisionsInit /\ [][DecisionsNext /\ UNCHANGED orgVars]_decided

---------------------------------------------------------------------------

\* Nobody decided before the behaviour starts.
NothingDecided == \A i \in LeaveIds : InitialLeaves[i].status \notin {"N1_APPROVED", "APPROVED"}

ChiefDecided(i) ==
  \E d \in signed[i] :
    d.status = "N1_APPROVED" /\ IsProjectManagerForUser(leave[i].owner, d.by)

AdministrationDecided(i) ==
  \E d \in signed[i] : d.status = "APPROVED" /\ role[d.by] = "RESOURCE_MANAGER"

\* A leave is approved, and its days erased from the plannings, only when both a
\* chief of its owner's and a resource manager have approved it, whichever
\* approvals, refusals and cancellations of it overlap, write over one another or
\* die: two approvals in flight never add up to both levels
\* (resolveApprovalStatus decides from the row as read, and transition writes
\* what was decided then).  README.md:154-157 and critical.test.ts:467-471 have
\* one approval; the code's error message asks for the chief's first.
BothLevelsDecide ==
  \A i \in LeaveIds :
    leave[i].status = "APPROVED" => ChiefDecided(i) /\ AdministrationDecided(i)

===========================================================================
