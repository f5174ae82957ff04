----------------------------- MODULE Planning ------------------------------
(***************************************************************************)
(* The plannings of site managers: a period, and for each line an employee *)
(* on a site with hours a day (planning.service.ts).  A planning is either *)
(* a sheet of its own, created, saved, published and reopened, or the      *)
(* period page of the front end, which saves all of its author's lines at  *)
(* once.  Approved leaves and plannings meet in the hours: an approval     *)
(* erases those already planned, and neither interface should plan others. *)
(*                                                                         *)
(* One statement a step.  A transaction is two: it deletes what it finds   *)
(* and, when it commits, brings in its lines.  Two lines of one planning   *)
(* differ in something; activity and description are left out.             *)
(***************************************************************************)
EXTENDS Leave

CONSTANTS
  Hours,          \* hours a day, 0 among them
  MaxPlanLines,   \* bound on the lines of a planning
  Saves,          \* planning requests that may be in flight together
  OpsOf           \* what each of them may be

ASSUME PlanningAssumption ==
  /\ 0 \in Hours /\ Hours \subseteq Nat /\ MaxPlanLines \in Nat
  /\ OpsOf \in [Saves -> SUBSET {"update", "publish", "reopen", "remove", "period"}]

VARIABLES
  saving,    \* saving[r]: what planning request r has read, and is writing
  written    \* history: how planning p was last written, and whether its writer
             \* had an out-of-date list of approved leaves

planVars == <<planning, saving, written>>
vars == <<orgVars, leaveVars, planVars>>

Resting == [pc |-> "idle", op |-> "none", user |-> NoUser, id |-> NoRow,
            from |-> 1, to |-> 1,
            leaves |-> {},    \* approved leaves as read, or as the page shows them
            old |-> {},       \* lines deleted by the open transaction
            doomed |-> {}]    \* plannings deleted by the open transaction

Unwritten == [by |-> "nobody", stale |-> FALSE]

PlanningInit ==
  /\ saving = [r \in Saves |-> Resting]
  /\ written = [p \in PlanIds |-> Unwritten]

Live(p) == planning[p].status \in {"DRAFT", "PUBLISHED"}

Overlap(a, b) == a.from <= b.to /\ b.from <= a.to

ManagedSites(u) == {s \in Sites : site[s].state = "open" /\ ManagerOf(s) = u}

\* The lines u may plan in a period: for those assigned to a site he manages.
LinesOf(u, from, to) ==
  [user : UNION {assigned[s] : s \in ManagedSites(u)},
   site : ManagedSites(u), hours : [from..to -> Hours]]

Contents(u, from, to) ==
  {C \in UNION {kSubset(k, LinesOf(u, from, to)) : k \in 0..MaxPlanLines} :
     \A ln \in C : ln.user \in assigned[ln.site]}

ApprovedLeaves(from, to) ==
  {i \in LeaveIds : leave[i].status = "APPROVED"
                    /\ Overlap(leave[i], [from |-> from, to |-> to])}

OnLeave(o, d, leaves) ==
  \E i \in leaves : leave[i].owner = o /\ d \in leave[i].from..leave[i].to

\* The hours that are sent, but for the days of the leaves that are known: set
\* to zero by the service in a sheet, and by the page in a period.
Spared(C, leaves) ==
  {[ln EXCEPT !.hours = [d \in DOMAIN ln.hours |->
      IF OnLeave(ln.user, d, leaves) THEN 0 ELSE ln.hours[d]]] : ln \in C}

Arrives(r, u, op, pc, p) ==
  /\ saving[r].pc = "idle"
  /\ op \in OpsOf[r]
  /\ ManagedSites(u) # {}
  /\ saving' = [saving EXCEPT ![r] =
       [Resting EXCEPT !.pc = pc, !.op = op, !.user = u, !.id = p]]
  /\ UNCHANGED <<planning, written>>

Rest(r) == saving' = [saving EXCEPT ![r] = Resting]

\* Another open transaction has deleted planning p.
Blocked(r, p) == \E q \in Saves \ {r} : p \in saving[q].doomed

---------------------------------------------------------------------------
(* Sheets.                                                                 *)

Taken(u, from, to) ==
  {p \in PlanIds : /\ Live(p) /\ planning[p].creator = u
                   /\ planning[p].from = from /\ planning[p].to = to}

\* Asked for a period he already has, the manager gets the one there is; the
\* unique index lets only one in.
CreatePlanning(u, p, from, to) ==
  /\ ManagedSites(u) # {}
  /\ planning[p].status = "NONE"
  /\ Taken(u, from, to) = {}
  /\ planning' = [planning EXCEPT ![p] =
       [status |-> "DRAFT", creator |-> u, from |-> from, to |-> to, lines |-> {}]]
  /\ UNCHANGED <<saving, written>>

BeginUpdate(r, u, p) ==
  /\ planning[p].status = "DRAFT"
  /\ planning[p].creator = u
  /\ Arrives(r, u, "update", "leaves", p)

ReadLeaves(r) ==
  /\ saving[r].pc = "leaves"
  /\ LET row == planning[saving[r].id]
     IN  saving' = [saving EXCEPT
           ![r].pc = "erase", ![r].from = row.from, ![r].to = row.to,
           ![r].leaves = ApprovedLeaves(row.from, row.to)]
  /\ UNCHANGED <<planning, written>>

BeginPublish(r, u, p) ==
  /\ Live(p)
  /\ planning[p].creator = u
  /\ \E ln \in planning[p].lines : \E d \in DOMAIN ln.hours : ln.hours[d] > 0
  /\ Arrives(r, u, "publish", "write", p)

BeginReopen(r, u, p) ==
  /\ Live(p)
  /\ planning[p].creator = u
  /\ Arrives(r, u, "reopen", "write", p)

BeginRemove(r, u, p) ==
  /\ Live(p)
  /\ planning[p].creator = u
  /\ Arrives(r, u, "remove", "write", p)

\* The one statement of a publication, a reopening or a removal; the status is
\* not looked at again.
WriteStatus(r) ==
  LET q == saving[r]
  IN  /\ q.pc = "write"
      /\ Live(q.id)
      /\ ~Blocked(r, q.id)
      /\ planning' = [planning EXCEPT ![q.id] =
           CASE q.op = "publish" -> [@ EXCEPT !.status = "PUBLISHED"]
             [] q.op = "reopen" -> [@ EXCEPT !.status = "DRAFT"]
             [] q.op = "remove" -> [@ EXCEPT !.status = "GONE", !.lines = {}]]
      /\ written' = IF q.op = "remove" THEN [written EXCEPT ![q.id] = Unwritten] ELSE written
      /\ Rest(r)

---------------------------------------------------------------------------
(* The period page.                                                        *)

\* The page shows the period, with the approved leaves of those who may be
\* planned in it, as long as its user likes.
OpenPage(r, u, from, to) ==
  /\ saving[r].pc = "idle"
  /\ "period" \in OpsOf[r]
  /\ ManagedSites(u) # {}
  /\ saving' = [saving EXCEPT ![r] =
       [Resting EXCEPT !.pc = "page", !.op = "period", !.user = u, !.from = from,
                       !.to = to, !.leaves = ApprovedLeaves(from, to)]]
  /\ UNCHANGED <<planning, written>>

\* The planning of this very period, found or created, is published at once,
\* with the lines it has.
Upsert(r, p) ==
  LET q == saving[r]
      mine == Taken(q.user, q.from, q.to)
  IN  /\ q.pc = "page"
      /\ ManagedSites(q.user) # {}
      /\ IF mine = {} THEN planning[p].status = "NONE" ELSE p \in mine /\ ~Blocked(r, p)
      /\ planning' = [planning EXCEPT ![p] =
           IF mine = {}
           THEN [status |-> "PUBLISHED", creator |-> q.user, from |-> q.from,
                 to |-> q.to, lines |-> {}]
           ELSE [@ EXCEPT !.status = "PUBLISHED"]]
      /\ saving' = [saving EXCEPT ![r].pc = "erase", ![r].id = p]
      /\ UNCHANGED written

---------------------------------------------------------------------------
(* The transaction of both.                                                *)

\* Mutant: the other plannings that lie within the saved period.
OthersWithin(u, p, from, to) ==
  {o \in PlanIds \ {p} : /\ Live(o) /\ planning[o].creator = u
                         /\ from <= planning[o].from /\ planning[o].to <= to}

\* The other plannings of the author that overlap the saved period.
Others(u, p, from, to) ==
  {o \in PlanIds \ {p} : /\ Live(o) /\ planning[o].creator = u
                         /\ Overlap(planning[o], [from |-> from, to |-> to])}

Erase(r) ==
  LET q == saving[r]
      others == IF q.op = "period" THEN Others(q.user, q.id, q.from, q.to) ELSE {}
  IN  /\ q.pc = "erase"
      /\ \A p \in others : ~Blocked(r, p)
      /\ saving' = [saving EXCEPT ![r].pc = "insert", ![r].doomed = others,
                                  ![r].old = planning[q.id].lines]
      /\ UNCHANGED <<planning, written>>

\* The lines have been checked and cannot be created without their planning.
Insert(r) ==
  LET q == saving[r]
      known == {i \in q.leaves : leave[i].status = "APPROVED"}
  IN  /\ q.pc = "insert"
      /\ ~Blocked(r, q.id)
      /\ \E C \in Contents(q.user, q.from, q.to) :
           /\ Live(q.id) \/ C = {}
           /\ planning' = [p \in PlanIds |->
                IF p \in q.doomed THEN [planning[p] EXCEPT !.status = "GONE", !.lines = {}]
                ELSE IF p = q.id /\ Live(p)
                THEN [planning[p] EXCEPT !.lines = (@ \ q.old) \cup Spared(C, q.leaves)]
                ELSE planning[p]]
      /\ written' = [p \in PlanIds |->
           IF p \in q.doomed THEN Unwritten
           ELSE IF p = q.id /\ Live(p)
           THEN [by |-> q.op,
                 stale |-> \/ known # ApprovedLeaves(q.from, q.to)
                           \/ planning[p].lines \ q.old # {} /\ written[p].stale]
           ELSE written[p]]
      /\ Rest(r)

\* A request whose row is gone, or is being deleted, fails; or its process dies,
\* at any point, or the page is closed.  Its transaction leaves nothing behind.
Abandon(r) ==
  /\ saving[r].pc # "idle"
  /\ Rest(r)
  /\ UNCHANGED <<planning, written>>

PlanningNext ==
  \/ \E u \in active, p \in PlanIds, d \in Periods : CreatePlanning(u, p, d[1], d[2])
  \/ \E r \in Saves, u \in active, p \in PlanIds :
       \/ BeginUpdate(r, u, p)
       \/ BeginPublish(r, u, p)
       \/ BeginReopen(r, u, p)
       \/ BeginRemove(r, u, p)
  \/ \E r \in Saves, u \in active, d \in Periods : OpenPage(r, u, d[1], d[2])
  \/ \E r \in Saves :
       \/ ReadLeaves(r)
       \/ WriteStatus(r)
       \/ \E p \in PlanIds : Upsert(r, p)
       \/ Erase(r)
       \/ Insert(r)
       \/ Abandon(r)

Init == OrgInit /\ LeaveInit /\ PlanningInit

Next ==
  \/ LeaveNext /\ UNCHANGED <<orgVars, saving, written>>
  \/ PlanningNext /\ UNCHANGED <<orgVars, leaveVars>>

Spec == Init /\ [][Next]_vars

---------------------------------------------------------------------------

\* Nobody is planned on a day of approved leave, whichever came first -- the
\* approval erases hours, the sheet and the page leave them out -- unless the
\* planning was written from a list of leaves read before an approval.
LeaveDaysAreFree ==
  \A p \in PlanIds : Live(p) /\ ~written[p].stale =>
    \A ln \in planning[p].lines, d \in Days :
      OnLeave(ln.user, d, ApprovedLeaves(1, LastDay)) /\ d \in DOMAIN ln.hours =>
        ln.hours[d] = 0

\* "Elles ne doivent plus alimenter la vue consolidée une fois la période
\* courante sauvegardée" (saveViewerPeriod): no day is planned by two periods of
\* one author, even when he saves two at once.
PeriodsDoNotOverlap ==
  \A p, q \in PlanIds :
    (/\ p # q /\ Live(p) /\ Live(q)
     /\ planning[p].creator = planning[q].creator
     /\ written[p].by = "period" /\ written[q].by = "period") =>
      ~Overlap(planning[p], planning[q])

===========================================================================
