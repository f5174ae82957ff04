--------------------------- MODULE PlanningProofs ---------------------------
(***************************************************************************)
(* What the leaves and the plannings keep, for every tenant, calendar and  *)
(* number of requests in flight, whichever die: first the decisions about  *)
(* leaves, alone; then the plannings, which are saved meanwhile.           *)
(***************************************************************************)
EXTENDS Planning, LeaveDecisions, OrganisationProofs

---------------------------------------------------------------------------
(* The rows.                                                               *)

\* A request has these fields, whatever its duration.
ShapedLeave(row) == row = [status |-> row.status, owner |-> row.owner, from |-> row.from,
                           to |-> row.to, halves |-> row.halves]

\* A row of `deciding` has these fields, whatever was found in the balance.
Shaped(q) == q = [pc |-> q.pc, user |-> q.user, id |-> q.id, wish |-> q.wish,
                  read |-> q.read, next |-> q.next, found |-> q.found]

RowsOK ==
  /\ leave = [i \in LeaveIds |-> leave[i]]
  /\ \A i \in LeaveIds : ShapedLeave(leave[i])
  /\ deciding = [r \in Decisions |-> deciding[r]]
  /\ \A r \in Decisions : Shaped(deciding[r])

\* The moves of a leave: where a request that has read the first status may put it.
LeaveStages ==
  {<<"DRAFT", "SUBMITTED">>, <<"DRAFT", "CANCELLED">>,
   <<"SUBMITTED", "N1_APPROVED">>, <<"N1_APPROVED", "APPROVED">>}
    \cup Pending \X {"REJECTED", "CANCELLED"}

\* What a request is about to write follows what it has read.
LEMMA AskedIsAStage ==
  ASSUME NEW u, NEW row, NEW wish \in {"SUBMITTED", "APPROVED", "REJECTED", "CANCELLED"},
         MayAsk(u, row, wish)
  PROVE  <<row.status, Effective(row, wish)>> \in LeaveStages
<1>1. CASE wish = "SUBMITTED"
  <2>1. row.status = "DRAFT"
    BY <1>1, Zenon DEF MayAsk
  <2>. QED BY <1>1, <2>1 DEF Effective, LeaveStages
<1>2. CASE wish \in {"APPROVED", "REJECTED"}
  <2>1. row.status \in Pending
    BY <1>2, Zenon DEF MayAsk
  <2>. QED BY <1>2, <2>1 DEF Effective, LeaveStages, Pending
<1>3. CASE wish = "CANCELLED"
  <2>1. row.status \in Pending \cup {"DRAFT"}
    BY <1>3, Zenon DEF MayAsk
  <2>. QED BY <1>3, <2>1 DEF Effective, LeaveStages, Pending
<1>. QED BY <1>1, <1>2, <1>3

LEMMA RowsInit ==
  ASSUME LeaveInit
  PROVE  RowsOK /\ \A r \in Decisions : deciding[r].pc = "idle"
<1>1. deciding = [r \in Decisions |-> Quiet] /\ leave = InitialLeaves
  BY DEF LeaveInit
<1>2. RowsOK
  BY <1>1, LeaveAssumption DEF RowsOK, Shaped, ShapedLeave, LeaveRow, Quiet
<1>. QED BY <1>1, <1>2 DEF Quiet

\* A step of request r that leaves the requests for leave as they are.
LEMMA RowsDeciding ==
  ASSUME RowsOK, NEW r \in Decisions, NEW rec, Shaped(rec),
         deciding' = [deciding EXCEPT ![r] = rec], leave' = leave
  PROVE  /\ RowsOK'
         /\ \A q \in Decisions : deciding'[q] = IF q = r THEN rec ELSE deciding[q]
<1>1. \A q \in Decisions : deciding'[q] = IF q = r THEN rec ELSE deciding[q]
  BY DEF RowsOK
<1>2. deciding' = [q \in Decisions |-> deciding'[q]]
  BY DEF RowsOK
<1>3. \A q \in Decisions : Shaped(deciding'[q])
  BY <1>1 DEF RowsOK
<1>. QED BY <1>1, <1>2, <1>3 DEF RowsOK, Shaped, ShapedLeave

\* A new request takes a row that nobody has read.
LEMMA RowsCreate ==
  ASSUME RowsOK, NEW i \in LeaveIds, NEW u \in Users, NEW p \in Periods,
         NEW startHalf, NEW endHalf, CreateRequest(i, u, p[1], p[2], startHalf, endHalf)
  PROVE  /\ RowsOK' /\ deciding' = deciding
         /\ leave[i].status = "NONE" /\ leave'[i].status = "DRAFT"
         /\ \A j \in LeaveIds : j # i => leave'[j] = leave[j]
<1>. DEFINE row == [status |-> "DRAFT", owner |-> u, from |-> p[1], to |-> p[2],
                    halves |-> Duration(p[1], p[2], startHalf, endHalf)]
<1>1. leave[i] = NoLeave /\ leave' = [leave EXCEPT ![i] = row] /\ deciding' = deciding
  BY DEF CreateRequest
<1>2. ShapedLeave(row) /\ row.status = "DRAFT"
  BY DEF ShapedLeave
<1>3. leave[i].status = "NONE"
  BY <1>1 DEF NoLeave
<1>. HIDE DEF row
<1>4. \A j \in LeaveIds : leave'[j] = IF j = i THEN row ELSE leave[j]
  BY <1>1 DEF RowsOK
<1>5. leave' = [j \in LeaveIds |-> leave'[j]]
  BY <1>1 DEF RowsOK
<1>6. \A j \in LeaveIds : ShapedLeave(leave'[j])
  BY <1>2, <1>4 DEF RowsOK
<1>7. RowsOK'
  BY <1>1, <1>5, <1>6 DEF RowsOK, Shaped, ShapedLeave
<1>. QED BY <1>1, <1>2, <1>3, <1>4, <1>7

\* What a request is once it has read the balance.
LEMMA BalanceRead ==
  ASSUME NEW q, Shaped(q), NEW found
  PROVE  [q EXCEPT !.pc = "commit", !.found = found]
           = [pc |-> "commit", user |-> q.user, id |-> q.id, wish |-> q.wish,
              read |-> q.read, next |-> q.next, found |-> found]
<1>. DEFINE half == [pc |-> "commit", user |-> q.user, id |-> q.id, wish |-> q.wish,
                     read |-> q.read, next |-> q.next, found |-> q.found]
<1>1. [q EXCEPT !.pc = "commit", !.found = found]
        = [[q EXCEPT !.pc = "commit"] EXCEPT !.found = found]
  OBVIOUS
<1>2. [q EXCEPT !.pc = "commit"] = half
  BY DEF Shaped
<1>3. [half EXCEPT !.found = found]
        = [pc |-> "commit", user |-> q.user, id |-> q.id, wish |-> q.wish,
           read |-> q.read, next |-> q.next, found |-> found]
  OBVIOUS
<1>. HIDE DEF half
<1>. QED BY <1>1, <1>2, <1>3

\* Reading the balance changes nothing else.
LEMMA RowsRead ==
  ASSUME RowsOK, NEW r \in Decisions, ReadBalance(r)
  PROVE  /\ RowsOK' /\ leave' = leave /\ deciding[r].pc # "idle"
         /\ \A q \in Decisions : q # r => deciding'[q] = deciding[q]
         /\ deciding'[r].user = deciding[r].user /\ deciding'[r].id = deciding[r].id
         /\ deciding'[r].read = deciding[r].read /\ deciding'[r].next = deciding[r].next
<1>. DEFINE found == IF deciding[r].read.owner \in DOMAIN balance
                     THEN [pending |-> balance[deciding[r].read.owner].pending,
                           used |-> balance[deciding[r].read.owner].used]
                     ELSE deciding[r].found
            q == deciding[r]
            rec == [pc |-> "commit", user |-> q.user, id |-> q.id, wish |-> q.wish,
                    read |-> q.read, next |-> q.next, found |-> found]
<1>0. [deciding[r] EXCEPT !.pc = "commit", !.found = found] = rec
  <2>1. PICK q0, f : q0 = deciding[r] /\ f = found
    OBVIOUS
  <2>2. Shaped(q0)
    BY <2>1 DEF RowsOK
  <2>3. [q0 EXCEPT !.pc = "commit", !.found = f]
          = [pc |-> "commit", user |-> q0.user, id |-> q0.id, wish |-> q0.wish,
             read |-> q0.read, next |-> q0.next, found |-> f]
    BY <2>2, BalanceRead
  <2>. HIDE DEF found
  <2>. QED BY <2>1, <2>3
<1>1. /\ deciding' = [deciding EXCEPT ![r] = rec] /\ leave' = leave
      /\ deciding[r].pc # "idle"
  BY <1>0 DEF ReadBalance
<1>2. /\ Shaped(rec) /\ rec.id = deciding[r].id /\ rec.read = deciding[r].read
      /\ rec.next = deciding[r].next /\ rec.user = deciding[r].user
  BY DEF Shaped
<1>. HIDE DEF rec
<1>3. RowsOK' /\ \A d \in Decisions : deciding'[d] = IF d = r THEN rec ELSE deciding[d]
  BY <1>1, <1>2, RowsDeciding
<1>. QED BY <1>1, <1>2, <1>3

LEMMA RowsCommit ==
  ASSUME RowsOK, NEW r \in Decisions, deciding[r].id \in LeaveIds, Commit(r)
  PROVE  /\ RowsOK' /\ deciding[r].pc # "idle"
         /\ \A q \in Decisions : deciding'[q] = IF q = r THEN Quiet ELSE deciding[q]
         /\ leave'[deciding[r].id].status = deciding[r].next
         /\ leave'[deciding[r].id].owner = leave[deciding[r].id].owner
         /\ \A j \in LeaveIds : j # deciding[r].id => leave'[j] = leave[j]
<1>. DEFINE i == deciding[r].id
            row == [leave[i] EXCEPT !.status = deciding[r].next]
<1>1. /\ deciding[r].pc # "idle" /\ leave' = [leave EXCEPT ![i] = row]
      /\ deciding' = [deciding EXCEPT ![r] = Quiet]
  BY DEF Commit
<1>2. ShapedLeave(row) /\ row.status = deciding[r].next /\ row.owner = leave[i].owner
  BY DEF RowsOK, ShapedLeave
<1>3. Shaped(Quiet)
  BY DEF Shaped, Quiet
<1>. HIDE DEF row, i
<1>4. \A j \in LeaveIds : leave'[j] = IF j = i THEN row ELSE leave[j]
  BY <1>1 DEF RowsOK
<1>5. \A q \in Decisions : deciding'[q] = IF q = r THEN Quiet ELSE deciding[q]
  BY <1>1 DEF RowsOK
<1>6. deciding' = [q \in Decisions |-> deciding'[q]] /\ leave' = [j \in LeaveIds |-> leave'[j]]
  BY <1>1 DEF RowsOK
<1>7. \A q \in Decisions : Shaped(deciding'[q])
  BY <1>3, <1>5 DEF RowsOK
<1>8. \A j \in LeaveIds : ShapedLeave(leave'[j])
  BY <1>2, <1>4 DEF RowsOK
<1>9. RowsOK'
  BY <1>6, <1>7, <1>8 DEF RowsOK, Shaped, ShapedLeave
<1>. QED BY <1>1, <1>2, <1>4, <1>5, <1>9 DEF i

LEMMA RowsCrash ==
  ASSUME RowsOK, NEW r \in Decisions, CrashDecision(r)
  PROVE  /\ RowsOK' /\ leave' = leave
         /\ \A q \in Decisions : deciding'[q] = IF q = r THEN Quiet ELSE deciding[q]
<1>1. deciding' = [deciding EXCEPT ![r] = Quiet] /\ leave' = leave
  BY DEF CrashDecision
<1>2. Shaped(Quiet)
  BY DEF Shaped, Quiet
<1>. QED BY <1>1, <1>2, RowsDeciding

\* A request that arrives asks for one move of a row that is there.
LEMMA BegunIsAStage ==
  ASSUME NEW r, NEW u, NEW i,
         NEW wish \in {"SUBMITTED", "APPROVED", "REJECTED", "CANCELLED"},
         BeginTransition(r, u, i, wish)
  PROVE  <<leave[i].status, Effective(leave[i], wish)>> \in LeaveStages
BY AskedIsAStage DEF BeginTransition

LEMMA RowsBegin ==
  ASSUME RowsOK, NEW r \in Decisions, NEW u, NEW i \in LeaveIds,
         NEW wish \in {"SUBMITTED", "APPROVED", "REJECTED", "CANCELLED"},
         BeginTransition(r, u, i, wish)
  PROVE  /\ RowsOK' /\ leave' = leave
         /\ \A q \in Decisions : q # r => deciding'[q] = deciding[q]
         /\ deciding'[r].user = u /\ deciding'[r].id = i /\ deciding'[r].read = leave[i]
         /\ deciding'[r].next = Effective(leave[i], wish)
<1>. DEFINE rec == [pc |-> "balance", user |-> u, id |-> i, wish |-> wish,
                    read |-> leave[i], next |-> Effective(leave[i], wish),
                    found |-> Quiet.found]
<1>1. deciding' = [deciding EXCEPT ![r] = rec] /\ leave' = leave
  BY DEF BeginTransition
<1>2. /\ Shaped(rec) /\ rec.id = i /\ rec.read = leave[i] /\ rec.user = u
      /\ rec.next = Effective(leave[i], wish)
  BY DEF Shaped
<1>. HIDE DEF rec
<1>3. RowsOK' /\ \A q \in Decisions : deciding'[q] = IF q = r THEN rec ELSE deciding[q]
  BY <1>1, <1>2, RowsDeciding
<1>. QED BY <1>1, <1>2, <1>3

---------------------------------------------------------------------------
(* Both levels decide, whatever races.  A decision writes what was decided *)
(* on the row as read, over whatever the row is by then; but what makes it *)
(* an approval -- that a chief has approved before, that the caller is a   *)
(* resource manager -- does not cease to hold.                             *)

\* What a request in flight is about to write, it may.
Entitled(r) ==
  deciding[r].pc # "idle" =>
    LET q == deciding[r]
    IN  /\ q.id \in LeaveIds
        /\ q.read.owner = leave[q.id].owner
        /\ leave[q.id].status # "NONE" /\ q.next # "NONE"
        /\ q.next = "N1_APPROVED" => IsProjectManagerForUser(q.read.owner, q.user)
        /\ q.next = "APPROVED" => ChiefDecided(q.id) /\ role[q.user] = "RESOURCE_MANAGER"

DecisionsInv ==
  /\ RowsOK
  /\ signed = [i \in LeaveIds |-> signed[i]]
  /\ \A r \in Decisions : Entitled(r)
  /\ \A i \in LeaveIds :
       /\ leave[i].status \in {"N1_APPROVED", "APPROVED"} => ChiefDecided(i)
       /\ leave[i].status = "APPROVED" => AdministrationDecided(i)

\* The organisation stays, and with it who is whose chief.
LEMMA ChiefsStay ==
  ASSUME UNCHANGED orgVars
  PROVE  /\ \A o, u : IsProjectManagerForUser(o, u)' <=> IsProjectManagerForUser(o, u)
         /\ role' = role
BY DEF orgVars, people, IsProjectManagerForUser, ChiefOf, ProjectOf, WorksOn

\* A leave keeps the decisions on it.
LEMMA DecisionsLast ==
  ASSUME UNCHANGED orgVars, NEW i, signed[i] \subseteq signed'[i], leave'[i].owner = leave[i].owner
  PROVE  /\ ChiefDecided(i) => ChiefDecided(i)'
         /\ AdministrationDecided(i) => AdministrationDecided(i)'
BY ChiefsStay DEF ChiefDecided, AdministrationDecided

LEMMA DecisionsInvInit ==
  ASSUME DecisionsInit, NothingDecided
  PROVE  DecisionsInv
<1>1. LeaveInit /\ leave = InitialLeaves
  BY DEF DecisionsInit, LeaveInit
<1>2. \A i \in LeaveIds : leave[i].status \notin {"N1_APPROVED", "APPROVED"}
  BY <1>1 DEF NothingDecided
<1>3. signed = [i \in LeaveIds |-> signed[i]]
  BY DEF DecisionsInit
<1>. QED BY <1>1, <1>2, <1>3, RowsInit DEF DecisionsInv, Entitled

LEMMA CreateDecides ==
  ASSUME DecisionsInv, UNCHANGED <<orgVars, signed>>, NEW i \in LeaveIds, NEW u \in Users,
         NEW p \in Periods, NEW startHalf, NEW endHalf,
         CreateRequest(i, u, p[1], p[2], startHalf, endHalf)
  PROVE  DecisionsInv'
<1>1. /\ RowsOK' /\ deciding' = deciding
      /\ leave[i].status = "NONE" /\ leave'[i].status = "DRAFT"
      /\ \A j \in LeaveIds : j # i => leave'[j] = leave[j]
  BY RowsCreate DEF DecisionsInv
<1>2. ASSUME NEW j \in LeaveIds, j # i
      PROVE  /\ ChiefDecided(j) => ChiefDecided(j)'
             /\ AdministrationDecided(j) => AdministrationDecided(j)'
  BY <1>1, <1>2, DecisionsLast
<1>3. ASSUME NEW r \in Decisions PROVE Entitled(r)'
  <2>1. deciding[r].pc # "idle" => deciding[r].id \in LeaveIds \ {i}
    BY <1>1 DEF DecisionsInv, Entitled
  <2>. QED BY <1>1, <1>2, <2>1, ChiefsStay DEF DecisionsInv, Entitled
<1>. QED BY <1>1, <1>2, <1>3 DEF DecisionsInv

\* A step of request r that leaves the leaves as they are.
LEMMA DecidingDecides ==
  ASSUME DecisionsInv, UNCHANGED <<orgVars, signed, leave>>, RowsOK', NEW r \in Decisions,
         \A q \in Decisions : q # r => deciding'[q] = deciding[q], Entitled(r)'
  PROVE  DecisionsInv'
<1>1. \A i : /\ ChiefDecided(i) => ChiefDecided(i)'
             /\ AdministrationDecided(i) => AdministrationDecided(i)'
  BY DecisionsLast
<1>2. ASSUME NEW q \in Decisions, q # r PROVE Entitled(q)'
  BY <1>1, <1>2, ChiefsStay DEF DecisionsInv, Entitled
<1>. QED BY <1>1, <1>2 DEF DecisionsInv

LEMMA BeginDecides ==
  ASSUME DecisionsInv, UNCHANGED <<orgVars, signed>>, NEW r \in Decisions, NEW u,
         NEW i \in LeaveIds, NEW wish \in {"SUBMITTED", "APPROVED", "REJECTED", "CANCELLED"},
         BeginTransition(r, u, i, wish)
  PROVE  DecisionsInv'
<1>0. <<leave[i].status, Effective(leave[i], wish)>> \in LeaveStages
  BY BegunIsAStage
<1>1. /\ RowsOK' /\ leave' = leave
      /\ \A q \in Decisions : q # r => deciding'[q] = deciding[q]
      /\ deciding'[r].user = u /\ deciding'[r].id = i /\ deciding'[r].read = leave[i]
      /\ deciding'[r].next = Effective(leave[i], wish)
  BY RowsBegin DEF DecisionsInv
<1>2. leave[i].status # "NONE" /\ Effective(leave[i], wish) # "NONE"
  BY <1>0 DEF LeaveStages, Pending
<1>3. wish \in {"APPROVED", "REJECTED"} => CanDecide(u, leave[i])
  BY DEF BeginTransition
<1>4. Effective(leave[i], wish) = "N1_APPROVED" => IsProjectManagerForUser(leave[i].owner, u)
  <2>1. Effective(leave[i], wish) = "N1_APPROVED" =>
          wish = "APPROVED" /\ leave[i].status = "SUBMITTED"
    BY DEF Effective
  <2>. QED BY <1>3, <2>1 DEF CanDecide
<1>5. Effective(leave[i], wish) = "APPROVED" => ChiefDecided(i) /\ role[u] = "RESOURCE_MANAGER"
  <2>1. Effective(leave[i], wish) = "APPROVED" =>
          wish = "APPROVED" /\ leave[i].status = "N1_APPROVED"
    BY <1>0 DEF Effective, LeaveStages, Pending
  <2>. QED BY <1>3, <2>1 DEF CanDecide, DecisionsInv
<1>6. Entitled(r)'
  <2>1. ChiefDecided(i) => ChiefDecided(i)'
    BY <1>1, DecisionsLast
  <2>. QED BY <1>1, <1>2, <1>4, <1>5, <2>1, ChiefsStay DEF Entitled
<1>. QED BY <1>1, <1>6, DecidingDecides

LEMMA ReadDecides ==
  ASSUME DecisionsInv, UNCHANGED <<orgVars, signed>>, NEW r \in Decisions, ReadBalance(r)
  PROVE  DecisionsInv'
<1>1. /\ RowsOK' /\ leave' = leave /\ deciding[r].pc # "idle"
      /\ \A q \in Decisions : q # r => deciding'[q] = deciding[q]
      /\ deciding'[r].user = deciding[r].user /\ deciding'[r].id = deciding[r].id
      /\ deciding'[r].read = deciding[r].read /\ deciding'[r].next = deciding[r].next
  BY RowsRead DEF DecisionsInv
<1>2. ChiefDecided(deciding[r].id) => ChiefDecided(deciding[r].id)'
  BY <1>1, DecisionsLast DEF ChiefDecided
<1>3. Entitled(r)'
  BY <1>1, <1>2, ChiefsStay DEF DecisionsInv, Entitled
<1>. QED BY <1>1, <1>3, DecidingDecides

LEMMA CrashDecides ==
  ASSUME DecisionsInv, UNCHANGED <<orgVars, signed>>, NEW r \in Decisions, CrashDecision(r)
  PROVE  DecisionsInv'
<1>1. /\ RowsOK' /\ leave' = leave
      /\ \A q \in Decisions : deciding'[q] = IF q = r THEN Quiet ELSE deciding[q]
  BY RowsCrash DEF DecisionsInv
<1>2. Entitled(r)'
  BY <1>1 DEF Entitled, Quiet
<1>. QED BY <1>1, <1>2, DecidingDecides

\* The write is signed, and on whatever row it falls those who make it an approval
\* have signed.
LEMMA CommitDecides ==
  ASSUME DecisionsInv, UNCHANGED orgVars, NEW r \in Decisions, SignedCommit(r)
  PROVE  DecisionsInv'
<1>1. PICK i, q : q = deciding[r] /\ i = q.id
  OBVIOUS
<1>2. /\ i \in LeaveIds /\ q.read.owner = leave[i].owner /\ q.next # "NONE"
      /\ q.next = "N1_APPROVED" => IsProjectManagerForUser(leave[i].owner, q.user)
      /\ q.next = "APPROVED" => ChiefDecided(i) /\ role[q.user] = "RESOURCE_MANAGER"
  BY <1>1 DEF DecisionsInv, Entitled, SignedCommit, Commit
<1>3. /\ RowsOK'
      /\ \A d \in Decisions : deciding'[d] = IF d = r THEN Quiet ELSE deciding[d]
      /\ leave'[i].status = q.next /\ leave'[i].owner = leave[i].owner
      /\ \A j \in LeaveIds : j # i => leave'[j] = leave[j]
  BY <1>1, <1>2, RowsCommit DEF DecisionsInv, SignedCommit
<1>4. PICK mine : mine = [by |-> q.user, status |-> q.next]
  OBVIOUS
<1>5. signed' = IF q.next \in {"N1_APPROVED", "APPROVED"}
                THEN [signed EXCEPT ![i] = @ \cup {mine}] ELSE signed
  BY <1>1, <1>3, <1>4 DEF SignedCommit
<1>6. /\ signed' = [j \in LeaveIds |-> signed'[j]]
      /\ q.next \in {"N1_APPROVED", "APPROVED"} => mine \in signed'[i]
      /\ \A j \in LeaveIds : signed[j] \subseteq signed'[j]
  BY <1>2, <1>5 DEF DecisionsInv
<1>7. ASSUME NEW j \in LeaveIds
      PROVE  /\ leave'[j].owner = leave[j].owner
             /\ ChiefDecided(j) => ChiefDecided(j)'
             /\ AdministrationDecided(j) => AdministrationDecided(j)'
  <2>1. leave'[j].owner = leave[j].owner
    BY <1>3
  <2>. QED BY <1>6, <2>1, DecisionsLast
<1>8. /\ q.next = "N1_APPROVED" => ChiefDecided(i)'
      /\ q.next = "APPROVED" => ChiefDecided(i)' /\ AdministrationDecided(i)'
  <2>1. mine.by = q.user /\ mine.status = q.next
    BY <1>4
  <2>2. q.next = "N1_APPROVED" => ChiefDecided(i)'
    BY <1>2, <1>3, <1>6, <2>1, ChiefsStay DEF ChiefDecided
  <2>3. q.next = "APPROVED" => AdministrationDecided(i)'
    BY <1>2, <1>6, <2>1, ChiefsStay DEF AdministrationDecided
  <2>. QED BY <1>2, <1>7, <2>2, <2>3
<1>9. ASSUME NEW d \in Decisions PROVE Entitled(d)'
  <2>1. CASE d = r
    BY <1>3, <2>1 DEF Entitled, Quiet
  <2>2. CASE d # r
    <3>1. deciding'[d] = deciding[d] /\ Entitled(d)
      BY <1>3, <2>2 DEF DecisionsInv
    <3>2. \A j \in LeaveIds : leave[j].status # "NONE" => leave'[j].status # "NONE"
      BY <1>2, <1>3
    <3>. QED BY <1>7, <3>1, <3>2, ChiefsStay DEF Entitled
  <2>. QED BY <2>1, <2>2
<1>10. ASSUME NEW j \in LeaveIds
       PROVE  /\ leave'[j].status \in {"N1_APPROVED", "APPROVED"} => ChiefDecided(j)'
              /\ leave'[j].status = "APPROVED" => AdministrationDecided(j)'
  <2>1. CASE j = i
    BY <1>3, <1>8, <2>1
  <2>2. CASE j # i
    BY <1>3, <1>7, <2>2 DEF DecisionsInv
  <2>. QED BY <2>1, <2>2
<1>. QED BY <1>3, <1>6, <1>9, <1>10 DEF DecisionsInv

LEMMA DecisionsStep ==
  ASSUME DecisionsInv, [DecisionsNext /\ UNCHANGED orgVars]_decided
  PROVE  DecisionsInv'
<1>1. CASE DecisionsNext /\ UNCHANGED orgVars
  <2>1. active \subseteq Users
    BY DEF active
  <2>2. ASSUME NEW i \in LeaveIds, NEW u \in Users, NEW p \in Periods,
               NEW half \in Halves \X Halves,
               CreateRequest(i, u, p[1], p[2], half[1], half[2]), UNCHANGED signed
        PROVE  DecisionsInv'
    BY <1>1, <2>2, CreateDecides
  <2>3. ASSUME NEW r \in Decisions, NEW u \in Users, NEW i \in LeaveIds, NEW wish \in Wishes,
               BeginTransition(r, u, i, wish), UNCHANGED signed
        PROVE  DecisionsInv'
    <3>1. wish \in {"SUBMITTED", "APPROVED", "REJECTED", "CANCELLED"}
      BY LeaveAssumption
    <3>. QED BY <1>1, <2>3, <3>1, BeginDecides
  <2>4. ASSUME NEW r \in Decisions, SignedCommit(r)
        PROVE  DecisionsInv'
    BY <1>1, <2>4, CommitDecides
  <2>5. ASSUME NEW r \in Decisions, ReadBalance(r) \/ CrashDecision(r), UNCHANGED signed
        PROVE  DecisionsInv'
    BY <1>1, <2>5, ReadDecides, CrashDecides
  <2>. QED BY <1>1, <2>1, <2>2, <2>3, <2>4, <2>5 DEF DecisionsNext
<1>2. CASE UNCHANGED decided
  <2>1. UNCHANGED <<orgVars, leave, deciding, signed>>
    BY <1>2 DEF decided, leaveVars
  <2>2. RowsOK'
    BY <2>1 DEF DecisionsInv, RowsOK, Shaped, ShapedLeave
  <2>3. \A i : /\ ChiefDecided(i) => ChiefDecided(i)'
               /\ AdministrationDecided(i) => AdministrationDecided(i)'
    BY <2>1, DecisionsLast
  <2>. QED BY <2>1, <2>2, <2>3, ChiefsStay DEF DecisionsInv, Entitled
<1>. QED BY <1>1, <1>2

\* An approved leave was approved by a chief of its owner's and by a resource
\* manager, for every tenant and any number of leaves and of requests in flight,
\* which may be about one leave, write over one another and die: no hypothesis
\* keeps them apart (LeaveService.transition checks the status it has read, once).
THEOREM BothLevelsAlwaysDecide ==
  ASSUME NothingDecided
  PROVE  DecisionsSpec => []BothLevelsDecide
<1>1. DecisionsInit => DecisionsInv
  BY DecisionsInvInit
<1>2. DecisionsInv /\ [DecisionsNext /\ UNCHANGED orgVars]_decided => DecisionsInv'
  BY DecisionsStep
<1>3. DecisionsInv => BothLevelsDecide
  BY DEF DecisionsInv, BothLevelsDecide
<1>. QED BY <1>1, <1>2, <1>3, PTL DEF DecisionsSpec

---------------------------------------------------------------------------
(* The days of a leave are booked once, for every tenant and any number of *)
(* requests, as long as no two in flight are about the same balance: then  *)
(* what a request has read is still what the row says.                     *)

\* What a request in flight has read of a leave that counts still holds, and it
\* moves it one stage.
UpToDate(r) ==
  deciding[r].pc # "idle" =>
    LET q == deciding[r]
    IN  /\ q.id \in LeaveIds /\ q.next \in Statuses
        /\ leave[q.id].status # "NONE" /\ q.read.owner = leave[q.id].owner
        /\ q.read.owner \in DOMAIN Allowance =>
             q.read = leave[q.id] /\ <<q.read.status, q.next>> \in LeaveStages

\* Requests in flight are about different balances.
Alone == \A r, q \in Decisions :
  /\ deciding[r].pc # "idle" /\ deciding[q].pc # "idle" /\ r # q
  /\ deciding[r].read.owner \in DOMAIN Allowance
  => deciding[r].read.owner # deciding[q].read.owner

StagesInv == RowsOK /\ Alone /\ \A r \in Decisions : UpToDate(r)

LEMMA InvInit == LeaveInit => StagesInv
BY RowsInit DEF StagesInv, Alone, UpToDate

LEMMA CreateKeeps ==
  ASSUME StagesInv, NEW i \in LeaveIds, NEW u \in Users, NEW p \in Periods,
         NEW startHalf, NEW endHalf, CreateRequest(i, u, p[1], p[2], startHalf, endHalf)
  PROVE  StagesInv'
<1>. USE DEF StagesInv
<1>1. /\ RowsOK' /\ deciding' = deciding /\ leave[i].status = "NONE"
      /\ \A j \in LeaveIds : j # i => leave'[j] = leave[j]
  BY RowsCreate
<1>2. \A r \in Decisions : UpToDate(r)'
  <2>. SUFFICES ASSUME NEW r \in Decisions PROVE UpToDate(r)'
    OBVIOUS
  <2>1. deciding[r].pc # "idle" => deciding[r].id \in LeaveIds \ {i}
    BY <1>1 DEF UpToDate
  <2>. QED BY <1>1, <2>1 DEF UpToDate, LeaveStages, Pending, Statuses
<1>. QED BY <1>1, <1>2 DEF Alone

\* A request that arrives finds nobody deciding about this balance.
LEMMA BeginKeeps ==
  ASSUME StagesInv, OnePerBalance, NEW r \in Decisions, NEW u \in Users,
         NEW i \in LeaveIds, NEW wish \in {"SUBMITTED", "APPROVED", "REJECTED", "CANCELLED"},
         BeginTransition(r, u, i, wish)
  PROVE  StagesInv'
<1>. USE DEF StagesInv
<1>0. <<leave[i].status, Effective(leave[i], wish)>> \in LeaveStages
  BY BegunIsAStage
<1>1. /\ RowsOK' /\ leave' = leave
      /\ \A q \in Decisions : q # r => deciding'[q] = deciding[q]
      /\ deciding'[r].id = i /\ deciding'[r].read = leave[i]
      /\ deciding'[r].next = Effective(leave[i], wish)
  BY RowsBegin
<1>2. \A q \in Decisions : deciding[q].pc # "idle" /\ leave[i].owner \in DOMAIN Allowance =>
        deciding[q].read.owner # leave[i].owner
  BY DEF BeginTransition
<1>3. leave[i].status # "NONE" /\ Effective(leave[i], wish) \in Statuses
  BY <1>0 DEF LeaveStages, Pending, Statuses
<1>4. \A q \in Decisions : UpToDate(q)'
  <2>. SUFFICES ASSUME NEW q \in Decisions PROVE UpToDate(q)'
    OBVIOUS
  <2>1. CASE q = r
    BY <1>0, <1>1, <1>3, <2>1 DEF UpToDate, LeaveStages, Pending, Statuses
  <2>2. CASE q # r
    BY <1>1, <2>2 DEF UpToDate, LeaveStages, Pending, Statuses
  <2>. QED BY <2>1, <2>2
<1>5. Alone'
  BY <1>1, <1>2 DEF Alone
<1>. QED BY <1>1, <1>4, <1>5

\* Reading the balance changes nothing that matters here.
LEMMA ReadBalanceKeeps ==
  ASSUME StagesInv, NEW r \in Decisions, ReadBalance(r)
  PROVE  StagesInv'
<1>. USE DEF StagesInv
<1>1. /\ RowsOK' /\ leave' = leave /\ deciding[r].pc # "idle"
      /\ \A q \in Decisions : q # r => deciding'[q] = deciding[q]
      /\ deciding'[r].id = deciding[r].id
      /\ deciding'[r].read = deciding[r].read /\ deciding'[r].next = deciding[r].next
  BY RowsRead
<1>2. \A d \in Decisions : UpToDate(d)'
  BY <1>1 DEF UpToDate, LeaveStages, Pending, Statuses
<1>3. Alone'
  BY <1>1 DEF Alone
<1>. QED BY <1>1, <1>2, <1>3

\* A request that ends, with or without its write, is out of the way.
LEMMA CommitKeeps ==
  ASSUME StagesInv, NEW r \in Decisions, Commit(r)
  PROVE  StagesInv'
<1>. USE DEF StagesInv
<1>1. /\ deciding[r].pc # "idle" /\ deciding[r].id \in LeaveIds
      /\ deciding[r].next \in Statuses
  BY DEF Commit, UpToDate
<1>2. PICK i : i = deciding[r].id
  OBVIOUS
<1>3. /\ RowsOK'
      /\ \A q \in Decisions : deciding'[q] = IF q = r THEN Quiet ELSE deciding[q]
      /\ \A j \in LeaveIds : j # i => leave'[j] = leave[j]
      /\ leave'[i].status # "NONE" /\ leave'[i].owner = leave[i].owner
  <2>1. "NONE" \notin Statuses
    BY DEF Statuses
  <2>. QED BY <1>1, <1>2, <2>1, RowsCommit
<1>4. Quiet.pc = "idle"
  BY DEF Quiet
<1>5. ASSUME NEW q \in Decisions, q # r, deciding[q].pc # "idle"
      PROVE  deciding[q].read.owner \in DOMAIN Allowance => deciding[q].id # i
  BY <1>1, <1>2, <1>5 DEF Alone, UpToDate
<1>6. \A q \in Decisions : UpToDate(q)'
  BY <1>1, <1>3, <1>4, <1>5 DEF UpToDate, LeaveStages, Pending, Statuses
<1>7. Alone'
  BY <1>3, <1>4 DEF Alone
<1>. QED BY <1>3, <1>6, <1>7

LEMMA CrashKeeps ==
  ASSUME StagesInv, NEW r \in Decisions, CrashDecision(r)
  PROVE  StagesInv'
<1>. USE DEF StagesInv
<1>1. /\ RowsOK' /\ leave' = leave
      /\ \A q \in Decisions : deciding'[q] = IF q = r THEN Quiet ELSE deciding[q]
  BY RowsCrash
<1>2. Quiet.pc = "idle"
  BY DEF Quiet
<1>3. \A q \in Decisions : UpToDate(q)'
  BY <1>1, <1>2 DEF UpToDate, LeaveStages, Pending, Statuses
<1>4. Alone'
  BY <1>1, <1>2 DEF Alone
<1>. QED BY <1>1, <1>3, <1>4

LEMMA StutterKeeps ==
  ASSUME StagesInv, UNCHANGED <<leave, deciding>>
  PROVE  StagesInv'
BY DEF StagesInv, RowsOK, Shaped, ShapedLeave, UpToDate, Alone, LeaveStages, Pending, Statuses

---------------------------------------------------------------------------
(* The balance.  Its row is written as an absolute value, from a row read  *)
(* earlier, so what a request has read must still be the balance when it   *)
(* writes: nobody else in flight has a request of that employee.           *)

Column(rows) == [i \in LeaveIds |-> rows[i].halves]

Where(rows, u, statuses) == {i \in LeaveIds : rows[i].owner = u /\ rows[i].status \in statuses}

\* The half-days of u's requests in these statuses, when these are the rows.
Booked(rows, u, statuses) == SumIn(Column(rows), Where(rows, u, statuses))

Account(rows, u) ==
  [pending |-> Booked(rows, u, Pending), used |-> Booked(rows, u, {"APPROVED"}),
   remaining |-> Allowance[u] - Booked(rows, u, {"APPROVED"}) - Booked(rows, u, Pending)]

FoundIsCurrent(r) ==
  deciding[r].pc = "commit" /\ deciding[r].read.owner \in DOMAIN balance =>
    deciding[r].found = [pending |-> balance[deciding[r].read.owner].pending,
                         used |-> balance[deciding[r].read.owner].used]

BalanceInv ==
  /\ StagesInv
  /\ leave \in [LeaveIds -> LeaveRow]
  /\ balance = [u \in DOMAIN Allowance |-> Account(leave, u)]
  /\ \A r \in Decisions : FoundIsCurrent(r)

\* Column by column, the sums of the model are those of SumIn.
LEMMA HalvesAreBooked ==
  ASSUME NEW u, NEW statuses
  PROVE  HalvesOf(u, statuses) = Booked(leave, u, statuses)
<1>1. PICK f, T : f = Column(leave) /\ T = Where(leave, u, statuses)
  OBVIOUS
<1>2. HalvesOf(u, statuses) = (CHOOSE g : g = [s \in SUBSET T |->
          IF s = {} THEN 0 ELSE leave[Chosen(s)].halves + g[Remaining(s)]])[T]
  BY <1>1 DEF HalvesOf, Where, MapThenSumSet, MapThenFoldSet, Chosen, Remaining
<1>3. ASSUME NEW g
      PROVE  [s \in SUBSET T |-> IF s = {} THEN 0 ELSE leave[Chosen(s)].halves + g[Remaining(s)]]
               = [s \in SUBSET T |-> IF s = {} THEN 0 ELSE f[Chosen(s)] + g[Remaining(s)]]
  <2>1. ASSUME NEW s \in SUBSET T, s # {} PROVE f[Chosen(s)] = leave[Chosen(s)].halves
    BY <1>1, <2>1, RemainingIsLess DEF Column, Where
  <2>. QED BY <2>1
<1>4. \A g : g = [s \in SUBSET T |-> IF s = {} THEN 0
                                     ELSE leave[Chosen(s)].halves + g[Remaining(s)]]
              <=> Adds(g, f, T)
  BY <1>3 DEF Adds
<1>5. (CHOOSE g : g = [s \in SUBSET T |-> IF s = {} THEN 0
                                         ELSE leave[Chosen(s)].halves + g[Remaining(s)]])
        = (CHOOSE g : Adds(g, f, T))
  BY <1>4, Zenon
<1>. QED BY <1>1, <1>2, <1>5, SumIsFold DEF Booked

LEMMA BookedType ==
  ASSUME IsFiniteSet(LeaveIds), NEW rows \in [LeaveIds -> LeaveRow], NEW u, NEW statuses
  PROVE  Booked(rows, u, statuses) \in Nat
<1>1. PICK f, T : f = Column(rows) /\ T = Where(rows, u, statuses)
  OBVIOUS
<1>2. IsFiniteSet(T)
  <2>1. T \in SUBSET LeaveIds
    BY <1>1 DEF Where
  <2>. QED BY <2>1, FS_Subset
<1>3. \A i \in T : f[i] \in Nat
  BY <1>1 DEF Column, Where, LeaveRow
<1>. QED BY <1>1, <1>2, <1>3, SumType DEF Booked

\* A row that is in these statuses and one that is not make the difference.
LEMMA OneMoreBooked ==
  ASSUME IsFiniteSet(LeaveIds), NEW rows \in [LeaveIds -> LeaveRow], NEW u, NEW statuses,
         NEW more \in [LeaveIds -> LeaveRow], NEW i \in LeaveIds,
         Column(more) = Column(rows),
         Where(more, u, statuses) = Where(rows, u, statuses) \cup {i},
         i \notin Where(rows, u, statuses)
  PROVE  Booked(more, u, statuses) = Booked(rows, u, statuses) + rows[i].halves
<1>1. PICK f, S, T : f = Column(rows) /\ S = Where(more, u, statuses) /\ T = Where(rows, u, statuses)
  OBVIOUS
<1>2. S \in SUBSET LeaveIds /\ i \in S /\ S \ {i} = T
  BY <1>1 DEF Where
<1>3. IsFiniteSet(S) /\ \A j \in S : f[j] \in Nat
  BY <1>1, <1>2, FS_Subset DEF Column, LeaveRow
<1>4. SumIn(f, S) = f[i] + SumIn(f, T)
  BY <1>2, <1>3, SumWithout
<1>5. f[i] = rows[i].halves /\ f[i] \in Nat
  BY <1>1, <1>2, <1>3 DEF Column
<1>6. SumIn(f, T) = Booked(rows, u, statuses) /\ SumIn(f, S) = Booked(more, u, statuses)
  BY <1>1 DEF Booked
<1>7. Booked(rows, u, statuses) \in Nat
  BY BookedType
<1>. QED BY <1>4, <1>5, <1>6, <1>7

\* A leave is never of no duration.
LEMMA DurationType ==
  ASSUME NEW from \in Nat, NEW to \in Nat, NEW startHalf, NEW endHalf
  PROVE  Duration(from, to, startHalf, endHalf) \in Nat \ {0}
<1>1. IsFiniteSet((from..to) \ (Weekend \cup Holidays))
  <2>1. IsFiniteSet(from..to)
    BY FS_Interval
  <2>. QED BY <2>1, FS_Difference
<1>2. WorkingDays(from, to) \in Nat
  BY <1>1, FS_CardinalityType DEF WorkingDays
<1>3. PICK n \in Nat : n = WorkingDays(from, to)
  BY <1>2
<1>4. PICK first, last : /\ first = IF startHalf THEN 1 ELSE 0
                         /\ last = IF endHalf /\ from # to THEN 1 ELSE 0
  OBVIOUS
<1>5. first \in Nat /\ last \in Nat
  BY <1>4, Zenon
<1>6. Duration(from, to, startHalf, endHalf) = IF 2 * n - first - last < 1 THEN 1
                                              ELSE 2 * n - first - last
  BY <1>3, <1>4, Zenon DEF Duration
<1>7. 2 * n - first - last \in Int
  BY <1>3, <1>5
<1>. QED BY <1>6, <1>7

\* The table once a request has another status.
Moved(rows, i, next) == [rows EXCEPT ![i].status = next]

\* The requests of others are not touched by a change of status, nor are the
\* durations; those of the owner follow it.
LEMMA MovedColumns ==
  ASSUME NEW rows \in [LeaveIds -> LeaveRow], NEW i \in LeaveIds, NEW next \in Statuses
  PROVE  /\ Moved(rows, i, next) \in [LeaveIds -> LeaveRow]
         /\ Column(Moved(rows, i, next)) = Column(rows)
         /\ \A j \in LeaveIds : Moved(rows, i, next)[j].owner = rows[j].owner
         /\ \A j \in LeaveIds : Moved(rows, i, next)[j].status =
                                  IF j = i THEN next ELSE rows[j].status
<1>1. PICK row, more : row = [rows[i] EXCEPT !.status = next] /\ more = Moved(rows, i, next)
  OBVIOUS
<1>2. /\ row \in LeaveRow /\ row.status = next
      /\ row.owner = rows[i].owner /\ row.halves = rows[i].halves
  BY <1>1 DEF LeaveRow
<1>3. more = [rows EXCEPT ![i] = row]
  BY <1>1 DEF Moved
<1>4. \A j \in LeaveIds : more[j] = IF j = i THEN row ELSE rows[j]
  BY <1>3
<1>5. \A j \in LeaveIds : more[j].halves = rows[j].halves
  BY <1>2, <1>4
<1>6. Column(more) = Column(rows)
  BY <1>5 DEF Column
<1>. QED BY <1>1, <1>2, <1>3, <1>4, <1>6

\* What a change of status does to the half-days in some statuses.
Shift(row, next, statuses) ==
  (IF row.status \notin statuses /\ next \in statuses THEN row.halves ELSE 0)
    - (IF row.status \in statuses /\ next \notin statuses THEN row.halves ELSE 0)

LEMMA MovedBooks ==
  ASSUME IsFiniteSet(LeaveIds), NEW rows \in [LeaveIds -> LeaveRow], NEW i \in LeaveIds,
         NEW next \in Statuses, NEW statuses
  PROVE  /\ \A v : v # rows[i].owner =>
              Booked(Moved(rows, i, next), v, statuses) = Booked(rows, v, statuses)
         /\ Booked(Moved(rows, i, next), rows[i].owner, statuses)
              = Booked(rows, rows[i].owner, statuses) + Shift(rows[i], next, statuses)
<1>1. PICK more, u, st, h, before, after, shift :
        /\ more = Moved(rows, i, next) /\ u = rows[i].owner
        /\ st = rows[i].status /\ h = rows[i].halves /\ shift = Shift(rows[i], next, statuses)
        /\ before = Booked(rows, u, statuses) /\ after = Booked(more, u, statuses)
  OBVIOUS
<1>2. /\ more \in [LeaveIds -> LeaveRow] /\ Column(more) = Column(rows)
      /\ \A j \in LeaveIds : more[j].owner = rows[j].owner
      /\ \A j \in LeaveIds : more[j].status = IF j = i THEN next ELSE rows[j].status
  BY <1>1, MovedColumns
<1>3. ASSUME NEW v, v # u
      PROVE  Booked(more, v, statuses) = Booked(rows, v, statuses)
  <2>1. Where(more, v, statuses) = Where(rows, v, statuses)
    BY <1>1, <1>2, <1>3 DEF Where
  <2>. QED BY <1>2, <2>1 DEF Booked
<1>4. before \in Nat /\ after \in Nat
  BY <1>1, <1>2, BookedType
<1>5. h \in Nat /\ more[i].halves = h
  <2>1. more[i].halves = Column(more)[i] /\ Column(rows)[i] = h
    BY <1>1 DEF Column
  <2>. QED BY <1>1, <1>2, <2>1 DEF LeaveRow
<1>6. shift = (IF st \notin statuses /\ next \in statuses THEN h ELSE 0)
                - (IF st \in statuses /\ next \notin statuses THEN h ELSE 0)
  BY <1>1 DEF Shift
<1>7. /\ i \in Where(rows, u, statuses) <=> st \in statuses
      /\ i \in Where(more, u, statuses) <=> next \in statuses
  BY <1>1, <1>2 DEF Where
<1>8. Where(rows, u, statuses) \ {i} = Where(more, u, statuses) \ {i}
  BY <1>1, <1>2 DEF Where
<1>9. PICK R, M : R = Where(rows, u, statuses) /\ M = Where(more, u, statuses)
  OBVIOUS
<1>10. after = before + shift
  <2>1. CASE st \notin statuses /\ next \in statuses
    <3>1. M = R \cup {i} /\ i \notin R
      BY <1>7, <1>8, <1>9, <2>1
    <3>2. Where(more, u, statuses) = Where(rows, u, statuses) \cup {i}
      BY <1>9, <3>1
    <3>3. i \notin Where(rows, u, statuses)
      BY <1>9, <3>1
    <3>4. Booked(more, u, statuses) = Booked(rows, u, statuses) + rows[i].halves
      BY <1>2, <3>2, <3>3, OneMoreBooked
    <3>. QED BY <1>1, <1>4, <1>5, <1>6, <2>1, <3>4
  <2>2. CASE st \in statuses /\ next \notin statuses
    <3>1. R = M \cup {i} /\ i \notin M
      BY <1>7, <1>8, <1>9, <2>2
    <3>2. Where(rows, u, statuses) = Where(more, u, statuses) \cup {i}
      BY <1>9, <3>1
    <3>3. i \notin Where(more, u, statuses)
      BY <1>9, <3>1
    <3>4. Booked(rows, u, statuses) = Booked(more, u, statuses) + more[i].halves
      BY <1>2, <3>2, <3>3, OneMoreBooked
    <3>. QED BY <1>1, <1>4, <1>5, <1>6, <2>2, <3>4
  <2>3. CASE st \in statuses <=> next \in statuses
    <3>1. M = R
      BY <1>7, <1>8, <1>9, <2>3
    <3>2. after = before
      BY <1>1, <1>2, <1>9, <3>1 DEF Booked
    <3>. QED BY <1>4, <1>6, <2>3, <3>2
  <2>. QED BY <2>1, <2>2, <2>3
<1>. QED BY <1>1, <1>3, <1>10

\* Along the stages, what the service adds to the balance is that difference.
LEMMA StagesShift ==
  ASSUME NEW row, row.halves \in Nat, NEW next, <<row.status, next>> \in LeaveStages,
         row.status # "NONE"
  PROVE  /\ HeldBy(row.status, next, row.halves) = Shift(row, next, Pending)
         /\ TakenBy(row.status, next, row.halves) = Shift(row, next, {"APPROVED"})
<1>1. CASE row.status = "DRAFT"
  BY <1>1 DEF LeaveStages, Pending, HeldBy, TakenBy, Shift
<1>2. CASE row.status \in Pending
  BY <1>2 DEF LeaveStages, Pending, HeldBy, TakenBy, Shift
<1>. QED BY <1>1, <1>2 DEF LeaveStages, Pending

\* The new row of the balance says what the requests will say: nothing is clamped.
LEMMA NewRow ==
  ASSUME IsFiniteSet(LeaveIds), NEW rows \in [LeaveIds -> LeaveRow], NEW i \in LeaveIds,
         NEW next, <<rows[i].status, next>> \in LeaveStages, rows[i].status # "NONE",
         NEW u, u = rows[i].owner,
         NEW found, found = [pending |-> Booked(rows, u, Pending),
                             used |-> Booked(rows, u, {"APPROVED"})]
  PROVE  NewBalance(u, rows[i], next, found) = Account(Moved(rows, i, next), u)
<1>1. PICK row, more, pending, used :
        /\ row = rows[i] /\ more = Moved(rows, i, next)
        /\ pending = Booked(more, u, Pending) /\ used = Booked(more, u, {"APPROVED"})
  OBVIOUS
<1>2. next \in Statuses
  BY DEF LeaveStages, Statuses, Pending
<1>3. /\ pending = Booked(rows, u, Pending) + Shift(row, next, Pending)
      /\ used = Booked(rows, u, {"APPROVED"}) + Shift(row, next, {"APPROVED"})
  BY <1>1, <1>2, MovedBooks
<1>4. row.halves \in Nat
  BY <1>1 DEF LeaveRow
<1>5. /\ pending = found.pending + HeldBy(row.status, next, row.halves)
      /\ used = found.used + TakenBy(row.status, next, row.halves)
  BY <1>1, <1>3, <1>4, StagesShift
<1>6. pending \in Nat /\ used \in Nat
  BY <1>1, <1>2, MovedColumns, BookedType
<1>7. NewBalance(u, row, next, found)
        = [pending |-> AtLeast0(pending), used |-> AtLeast0(used),
           remaining |-> Allowance[u] - used - pending]
  BY <1>5 DEF NewBalance
<1>8. AtLeast0(pending) = pending /\ AtLeast0(used) = used
  BY <1>6 DEF AtLeast0
<1>. QED BY <1>1, <1>7, <1>8 DEF Account

\* The table once another row is written.
Filled(rows, i, row) == [rows EXCEPT ![i] = row]

\* A draft that is written holds nothing yet.
LEMMA CreatedBooks ==
  ASSUME IsFiniteSet(LeaveIds), NEW rows \in [LeaveIds -> LeaveRow], NEW i \in LeaveIds,
         rows[i].status = "NONE", NEW row \in LeaveRow, row.status = "DRAFT",
         NEW u
  PROVE  Account(Filled(rows, i, row), u) = Account(rows, u)
<1>0. PICK more : more = Filled(rows, i, row)
  OBVIOUS
<1>1. \A j \in LeaveIds : more[j] = IF j = i THEN row ELSE rows[j]
  BY <1>0 DEF Filled
<1>2. ASSUME NEW statuses, "NONE" \notin statuses, "DRAFT" \notin statuses
      PROVE  Booked(more, u, statuses) = Booked(rows, u, statuses)
  <2>1. PICK f, g, T : f = Column(more) /\ g = Column(rows) /\ T = Where(rows, u, statuses)
    OBVIOUS
  <2>2. Where(more, u, statuses) = T /\ i \notin T
    BY <1>1, <1>2, <2>1 DEF Where
  <2>3. IsFiniteSet(T) /\ T \subseteq LeaveIds
    <3>1. T \in SUBSET LeaveIds
      BY <2>1 DEF Where
    <3>. QED BY <3>1, FS_Subset
  <2>4. \A j \in T : f[j] = g[j]
    BY <1>1, <2>1, <2>2, <2>3 DEF Column
  <2>5. SumIn(f, T) = SumIn(g, T)
    BY <2>3, <2>4, SumCongruence
  <2>. QED BY <2>1, <2>2, <2>5 DEF Booked
<1>3. /\ Booked(more, u, Pending) = Booked(rows, u, Pending)
      /\ Booked(more, u, {"APPROVED"}) = Booked(rows, u, {"APPROVED"})
  BY <1>2 DEF Pending
<1>. QED BY <1>0, <1>3 DEF Account

LEMMA BalanceInit == LeaveInit => BalanceInv
<1>. SUFFICES ASSUME LeaveInit PROVE BalanceInv
  OBVIOUS
<1>1. /\ leave = InitialLeaves /\ balance = [u \in DOMAIN Allowance |-> BalanceOf(u)]
      /\ deciding = [r \in Decisions |-> Quiet]
  BY DEF LeaveInit
<1>2. \A u : BalanceOf(u) = Account(leave, u)
  BY HalvesAreBooked DEF BalanceOf, Account
<1>3. \A r \in Decisions : deciding[r].pc = "idle"
  BY <1>1 DEF Quiet
<1>. QED BY <1>1, <1>2, <1>3, InvInit, LeaveAssumption DEF BalanceInv, FoundIsCurrent

LEMMA CreateBalances ==
  ASSUME BalanceInv, IsFiniteSet(LeaveIds), NEW i \in LeaveIds, NEW u \in Users,
         NEW p \in Periods, NEW startHalf, NEW endHalf,
         CreateRequest(i, u, p[1], p[2], startHalf, endHalf)
  PROVE  BalanceInv'
<1>1. PICK row : row = [status |-> "DRAFT", owner |-> u, from |-> p[1], to |-> p[2],
                        halves |-> Duration(p[1], p[2], startHalf, endHalf)]
  OBVIOUS
<1>2. p[1] \in Nat /\ p[2] \in Nat
  BY LeaveAssumption DEF Days
<1>3. row \in LeaveRow /\ row.status = "DRAFT"
  BY <1>1, <1>2, DurationType DEF LeaveRow, Statuses
<1>4. /\ leave[i] = NoLeave /\ leave' = [leave EXCEPT ![i] = row]
      /\ deciding' = deciding /\ balance' = balance
  BY <1>1 DEF CreateRequest
<1>5. ASSUME NEW v PROVE Account(leave', v) = Account(leave, v)
  <2>1. leave' = Filled(leave, i, row)
    BY <1>4 DEF Filled
  <2>2. leave \in [LeaveIds -> LeaveRow] /\ leave[i].status = "NONE"
    BY <1>4 DEF BalanceInv, NoLeave
  <2>3. Account(Filled(leave, i, row), v) = Account(leave, v)
    BY <1>3, <2>2, CreatedBooks
  <2>. QED BY <2>1, <2>3
<1>6. leave' \in [LeaveIds -> LeaveRow]
  BY <1>3, <1>4 DEF BalanceInv
<1>7. StagesInv'
  BY CreateKeeps DEF BalanceInv
<1>. QED BY <1>4, <1>5, <1>6, <1>7 DEF BalanceInv, FoundIsCurrent

LEMMA BeginBalances ==
  ASSUME BalanceInv, OnePerBalance, NEW r \in Decisions, NEW u \in Users,
         NEW i \in LeaveIds, NEW wish \in {"SUBMITTED", "APPROVED", "REJECTED", "CANCELLED"},
         BeginTransition(r, u, i, wish)
  PROVE  BalanceInv'
<1>1. PICK q : q = [pc |-> "balance", user |-> u, id |-> i, wish |-> wish, read |-> leave[i],
                    next |-> Effective(leave[i], wish), found |-> Quiet.found]
  OBVIOUS
<1>2. q.pc = "balance"
  BY <1>1
<1>3. deciding' = [deciding EXCEPT ![r] = q] /\ leave' = leave /\ balance' = balance
  BY <1>1 DEF BeginTransition
<1>4. \A g \in Decisions : deciding'[g] = IF g = r THEN q ELSE deciding[g]
  BY <1>3 DEF BalanceInv, StagesInv, RowsOK
<1>5. StagesInv'
  BY BeginKeeps DEF BalanceInv
<1>. QED BY <1>2, <1>3, <1>4, <1>5 DEF BalanceInv, FoundIsCurrent

\* What it finds is the balance.
LEMMA ReadBalances ==
  ASSUME BalanceInv, NEW r \in Decisions, ReadBalance(r)
  PROVE  BalanceInv'
<1>1. PICK q, u, found :
        /\ q = deciding[r] /\ u = q.read.owner
        /\ found = IF u \in DOMAIN balance
                   THEN [pending |-> balance[u].pending, used |-> balance[u].used]
                   ELSE q.found
  OBVIOUS
<1>2. PICK q1 : q1 = [pc |-> "commit", user |-> q.user, id |-> q.id, wish |-> q.wish,
                      read |-> q.read, next |-> q.next, found |-> found]
  OBVIOUS
<1>3. Shaped(q)
  BY <1>1 DEF BalanceInv, StagesInv, RowsOK
<1>4. [q EXCEPT !.pc = "commit", !.found = found] = q1
  BY <1>2, <1>3, BalanceRead
<1>5. deciding' = [deciding EXCEPT ![r] = q1] /\ leave' = leave /\ balance' = balance
  BY <1>1, <1>4 DEF ReadBalance
<1>6. \A g \in Decisions : deciding'[g] = IF g = r THEN q1 ELSE deciding[g]
  BY <1>5 DEF BalanceInv, StagesInv, RowsOK
<1>7. q1.read.owner = u /\ q1.found = found
  BY <1>1, <1>2
<1>8. StagesInv'
  BY ReadBalanceKeeps DEF BalanceInv
<1>. QED BY <1>1, <1>5, <1>6, <1>7, <1>8 DEF BalanceInv, FoundIsCurrent

\* It writes what the requests say, on a row that nobody else in flight has read.
LEMMA CommitBalances ==
  ASSUME BalanceInv, IsFiniteSet(LeaveIds), NEW r \in Decisions, Commit(r)
  PROVE  BalanceInv' /\ leave' = Moved(leave, deciding[r].id, deciding[r].next)
<1>1. PICK q, i, u, next : /\ q = deciding[r] /\ i = q.id /\ u = q.read.owner
                           /\ next = q.next
  OBVIOUS
<1>2. /\ q.pc = "commit" /\ i \in LeaveIds /\ leave[i].status # "NONE" /\ u = leave[i].owner
      /\ u \in DOMAIN Allowance =>
           q.read = leave[i] /\ <<leave[i].status, next>> \in LeaveStages
  BY <1>1 DEF Commit, BalanceInv, StagesInv, UpToDate
<1>3. next \in Statuses /\ DOMAIN balance = DOMAIN Allowance
  BY <1>1, <1>2 DEF BalanceInv, StagesInv, UpToDate
<1>4. /\ leave' = Moved(leave, i, next)
      /\ balance' = IF u \in DOMAIN balance
                    THEN [balance EXCEPT ![u] = NewBalance(u, leave[i], next, q.found)]
                    ELSE balance
      /\ deciding' = [deciding EXCEPT ![r] = Quiet]
  BY <1>1, <1>2, <1>3 DEF Commit, Moved
<1>5. leave' \in [LeaveIds -> LeaveRow]
  BY <1>2, <1>3, <1>4, MovedColumns DEF BalanceInv
<1>6. \A v : v # u => Account(leave', v) = Account(leave, v)
  BY <1>1, <1>2, <1>3, <1>4, MovedBooks DEF BalanceInv, Account
<1>7. ASSUME u \in DOMAIN Allowance
      PROVE  NewBalance(u, leave[i], next, q.found) = Account(leave', u)
  <2>1. q.found = [pending |-> balance[u].pending, used |-> balance[u].used]
    BY <1>1, <1>2, <1>7 DEF BalanceInv, FoundIsCurrent
  <2>2. q.found = [pending |-> Booked(leave, u, Pending),
                   used |-> Booked(leave, u, {"APPROVED"})]
    BY <1>7, <2>1 DEF BalanceInv, Account
  <2>. QED BY <1>1, <1>2, <1>4, <1>7, <2>2, NewRow DEF BalanceInv
<1>8. balance' = [v \in DOMAIN Allowance |-> Account(leave', v)]
  BY <1>4, <1>6, <1>7 DEF BalanceInv
<1>9. \A g \in Decisions : deciding'[g] = IF g = r THEN Quiet ELSE deciding[g]
  BY <1>4 DEF BalanceInv, StagesInv, RowsOK
<1>10. ASSUME NEW g \in Decisions PROVE FoundIsCurrent(g)'
  <2>1. CASE g = r
    BY <1>9, <2>1 DEF FoundIsCurrent, Quiet
  <2>2. CASE g # r
    <3>1. deciding'[g] = deciding[g]
      BY <1>9, <2>2
    <3>2. deciding[g].pc = "commit" /\ deciding[g].read.owner \in DOMAIN balance
            => deciding[g].read.owner # u
      BY <1>1, <1>2, <1>3, <2>2 DEF BalanceInv, StagesInv, Alone
    <3>3. DOMAIN balance' = DOMAIN balance
      BY <1>8 DEF BalanceInv
    <3>4. deciding[g].pc = "commit" /\ deciding[g].read.owner \in DOMAIN balance
            => balance'[deciding[g].read.owner] = balance[deciding[g].read.owner]
      BY <1>4, <3>2
    <3>. QED BY <3>1, <3>3, <3>4 DEF BalanceInv, FoundIsCurrent
  <2>. QED BY <2>1, <2>2
<1>11. StagesInv'
  BY CommitKeeps DEF BalanceInv
<1>. QED BY <1>1, <1>4, <1>5, <1>8, <1>10, <1>11 DEF BalanceInv

LEMMA CrashBalances ==
  ASSUME BalanceInv, NEW r \in Decisions, CrashDecision(r)
  PROVE  BalanceInv'
<1>1. deciding' = [deciding EXCEPT ![r] = Quiet] /\ leave' = leave /\ balance' = balance
  BY DEF CrashDecision
<1>2. \A g \in Decisions : deciding'[g] = IF g = r THEN Quiet ELSE deciding[g]
  BY <1>1 DEF BalanceInv, StagesInv, RowsOK
<1>3. StagesInv'
  BY CrashKeeps DEF BalanceInv
<1>. QED BY <1>1, <1>2, <1>3 DEF BalanceInv, FoundIsCurrent, Quiet

LEMMA BalanceStep ==
  ASSUME BalanceInv, OnePerBalance, IsFiniteSet(LeaveIds),
         [LeaveNext /\ UNCHANGED orgVars]_<<orgVars, leaveVars, planning>>
  PROVE  BalanceInv'
<1>1. active \subseteq Users
  BY DEF active
<1>2. CASE UNCHANGED <<orgVars, leaveVars, planning>>
  <2>1. leave' = leave /\ deciding' = deciding /\ balance' = balance
    BY <1>2 DEF leaveVars
  <2>2. StagesInv'
    BY <2>1, StutterKeeps DEF BalanceInv
  <2>. QED BY <2>1, <2>2 DEF BalanceInv, FoundIsCurrent
<1>3. ASSUME NEW i \in LeaveIds, NEW u \in Users, NEW p \in Periods,
             NEW half \in Halves \X Halves,
             CreateRequest(i, u, p[1], p[2], half[1], half[2])
      PROVE  BalanceInv'
  BY <1>3, CreateBalances
<1>4. ASSUME NEW r \in Decisions, NEW u \in Users, NEW i \in LeaveIds, NEW wish \in Wishes,
             BeginTransition(r, u, i, wish)
      PROVE  BalanceInv'
  <2>1. wish \in {"SUBMITTED", "APPROVED", "REJECTED", "CANCELLED"}
    BY LeaveAssumption
  <2>. QED BY <1>4, <2>1, BeginBalances
<1>5. ASSUME NEW r \in Decisions, ReadBalance(r) \/ Commit(r) \/ CrashDecision(r)
      PROVE  BalanceInv'
  BY <1>5, ReadBalances, CommitBalances, CrashBalances
<1>. QED BY <1>1, <1>2, <1>3, <1>4, <1>5 DEF LeaveNext

LEMMA BalanceAlways ==
  ASSUME OnePerBalance, IsFiniteSet(LeaveIds)
  PROVE  LeaveSpec => []BalanceInv
<1>1. BalanceInv /\ [LeaveNext /\ UNCHANGED orgVars]_<<orgVars, leaveVars, planning>>
        => BalanceInv'
  BY BalanceStep
<1>. QED BY <1>1, BalanceInit, PTL DEF LeaveSpec

\* The balance row of an employee says what his requests say, for every tenant,
\* calendar and number of requests, whichever decisions die half-way, as long as
\* no two in flight are about the same balance.
THEOREM BalancesNeverDrift ==
  ASSUME OnePerBalance, IsFiniteSet(LeaveIds)
  PROVE  LeaveSpec => []BalanceMatchesRequests
<1>1. BalanceInv => BalanceMatchesRequests
  BY HalvesAreBooked DEF BalanceInv, BalanceMatchesRequests, BalanceOf, Account
<1>. QED BY <1>1, BalanceAlways, PTL

---------------------------------------------------------------------------
(* The ledger: every transition books the days of its request once.        *)

\* What the ledger sees of the requests, and of the balances while they match.
ItemsOf(rows) == [i \in LeaveIds |-> ItemOf(rows[i])]

AccountsOf(rows) == [u \in DOMAIN Allowance |-> [held |-> Booked(rows, u, Pending),
                                                 taken |-> Booked(rows, u, {"APPROVED"})]]

\* The ledger's accounts, as the balance has them.
LedgerAccounts == [u \in DOMAIN balance |-> [held |-> balance[u].pending,
                                             taken |-> balance[u].used]]

Phased(items, i, phase) == [items EXCEPT ![i].phase = phase]

BookedOn(accounts, owner, held, taken) ==
  [a \in DOMAIN accounts |->
     IF a = owner THEN [held |-> accounts[a].held + held, taken |-> accounts[a].taken + taken]
     ELSE accounts[a]]

\* Each formula of the ledger, written with the mapped variables.
LEMMA LedgerMapped ==
  ASSUME NEW i \in LeaveIds
  PROVE  /\ Ledger!Write(i) <=>
              /\ ItemsOf(leave)[i] = [phase |-> "none", holder |-> NoUser, cost |-> 0]
              /\ ItemsOf(leave')[i].phase = "draft"
              /\ ItemsOf(leave')[i].cost > 0
              /\ ItemsOf(leave') = [ItemsOf(leave) EXCEPT ![i] = ItemsOf(leave')[i]]
              /\ LedgerAccounts' = LedgerAccounts
         /\ Ledger!Hold(i) <=>
              /\ ItemsOf(leave)[i].phase = "draft"
              /\ ItemsOf(leave') = Phased(ItemsOf(leave), i, "held")
              /\ LedgerAccounts' = BookedOn(LedgerAccounts, ItemsOf(leave)[i].holder,
                                            ItemsOf(leave)[i].cost, 0)
         /\ Ledger!Take(i) <=>
              /\ ItemsOf(leave)[i].phase = "held"
              /\ ItemsOf(leave') = Phased(ItemsOf(leave), i, "taken")
              /\ LedgerAccounts' = BookedOn(LedgerAccounts, ItemsOf(leave)[i].holder,
                                            -ItemsOf(leave)[i].cost, ItemsOf(leave)[i].cost)
         /\ Ledger!GiveBack(i) <=>
              /\ ItemsOf(leave)[i].phase = "held"
              /\ ItemsOf(leave') = Phased(ItemsOf(leave), i, "released")
              /\ LedgerAccounts' = BookedOn(LedgerAccounts, ItemsOf(leave)[i].holder,
                                            -ItemsOf(leave)[i].cost, 0)
         /\ Ledger!Drop(i) <=>
              /\ ItemsOf(leave)[i].phase = "draft"
              /\ ItemsOf(leave') = Phased(ItemsOf(leave), i, "released")
              /\ LedgerAccounts' = LedgerAccounts
<1>1. Ledger!Write(i) <=>
        /\ ItemsOf(leave)[i] = [phase |-> "none", holder |-> NoUser, cost |-> 0]
        /\ ItemsOf(leave')[i].phase = "draft"
        /\ ItemsOf(leave')[i].cost > 0
        /\ ItemsOf(leave') = [ItemsOf(leave) EXCEPT ![i] = ItemsOf(leave')[i]]
        /\ LedgerAccounts' = LedgerAccounts
  BY DEF Ledger!Write, Ledger!None, ItemsOf, LedgerAccounts
<1>2. Ledger!Hold(i) <=>
        /\ ItemsOf(leave)[i].phase = "draft"
        /\ ItemsOf(leave') = Phased(ItemsOf(leave), i, "held")
        /\ LedgerAccounts' = BookedOn(LedgerAccounts, ItemsOf(leave)[i].holder,
                                      ItemsOf(leave)[i].cost, 0)
  BY DEF Ledger!Hold, Ledger!Moves, Ledger!Books, ItemsOf, LedgerAccounts, Phased, BookedOn
<1>3. Ledger!Take(i) <=>
        /\ ItemsOf(leave)[i].phase = "held"
        /\ ItemsOf(leave') = Phased(ItemsOf(leave), i, "taken")
        /\ LedgerAccounts' = BookedOn(LedgerAccounts, ItemsOf(leave)[i].holder,
                                      -ItemsOf(leave)[i].cost, ItemsOf(leave)[i].cost)
  BY DEF Ledger!Take, Ledger!Moves, Ledger!Books, ItemsOf, LedgerAccounts, Phased, BookedOn
<1>4. Ledger!GiveBack(i) <=>
        /\ ItemsOf(leave)[i].phase = "held"
        /\ ItemsOf(leave') = Phased(ItemsOf(leave), i, "released")
        /\ LedgerAccounts' = BookedOn(LedgerAccounts, ItemsOf(leave)[i].holder,
                                      -ItemsOf(leave)[i].cost, 0)
  BY DEF Ledger!GiveBack, Ledger!Moves, Ledger!Books, ItemsOf, LedgerAccounts, Phased, BookedOn
<1>5. Ledger!Drop(i) <=>
        /\ ItemsOf(leave)[i].phase = "draft"
        /\ ItemsOf(leave') = Phased(ItemsOf(leave), i, "released")
        /\ LedgerAccounts' = LedgerAccounts
  BY DEF Ledger!Drop, Ledger!Moves, ItemsOf, LedgerAccounts, Phased
<1>. QED BY <1>1, <1>2, <1>3, <1>4, <1>5

LEMMA LedgerStutters ==
  ASSUME ItemsOf(leave') = ItemsOf(leave), LedgerAccounts' = LedgerAccounts
  PROVE  UNCHANGED <<[i \in LeaveIds |-> ItemOf(leave[i])],
                     [u \in DOMAIN balance |-> [held |-> balance[u].pending,
                                                taken |-> balance[u].used]]>>
BY DEF ItemsOf, LedgerAccounts

\* While the balance matches the requests, it is the accounts of those.
LEMMA AccountsMatch ==
  ASSUME BalanceInv PROVE LedgerAccounts = AccountsOf(leave)
BY DEF BalanceInv, LedgerAccounts, AccountsOf, Account

LEMMA MovedLedger ==
  ASSUME IsFiniteSet(LeaveIds), NEW rows \in [LeaveIds -> LeaveRow], NEW i \in LeaveIds,
         NEW next \in Statuses, rows[i].owner \in DOMAIN Allowance
  PROVE  /\ ItemsOf(Moved(rows, i, next)) = Phased(ItemsOf(rows), i, PhaseOf(next))
         /\ AccountsOf(Moved(rows, i, next)) =
              BookedOn(AccountsOf(rows), rows[i].owner, Shift(rows[i], next, Pending),
                       Shift(rows[i], next, {"APPROVED"}))
<1>1. PICK more : more = Moved(rows, i, next)
  OBVIOUS
<1>2. ItemsOf(more) = Phased(ItemsOf(rows), i, PhaseOf(next))
  <2>1. /\ \A j \in LeaveIds : more[j].owner = rows[j].owner
        /\ \A j \in LeaveIds : more[j].status = IF j = i THEN next ELSE rows[j].status
        /\ \A j \in LeaveIds : Column(more)[j] = Column(rows)[j]
    BY <1>1, MovedColumns
  <2>2. \A j \in LeaveIds : more[j].halves = rows[j].halves
    BY <2>1 DEF Column
  <2>3. Phased(ItemsOf(rows), i, PhaseOf(next)) =
          [j \in LeaveIds |-> IF j = i THEN [ItemsOf(rows)[i] EXCEPT !.phase = PhaseOf(next)]
                              ELSE ItemsOf(rows)[j]]
    BY DEF Phased, ItemsOf
  <2>4. [ItemsOf(rows)[i] EXCEPT !.phase = PhaseOf(next)]
          = [phase |-> PhaseOf(next), holder |-> rows[i].owner, cost |-> rows[i].halves]
    BY DEF ItemsOf, ItemOf
  <2>5. ASSUME NEW j \in LeaveIds
        PROVE  ItemOf(more[j])
                 = IF j = i THEN [ItemsOf(rows)[i] EXCEPT !.phase = PhaseOf(next)]
                   ELSE ItemsOf(rows)[j]
    <3>1. PICK item : item = [ItemsOf(rows)[i] EXCEPT !.phase = PhaseOf(next)]
      OBVIOUS
    <3>2. CASE j = i
      BY <2>1, <2>2, <2>4, <3>2 DEF ItemOf
    <3>3. CASE j # i
      <4>1. ItemsOf(rows)[j] = ItemOf(rows[j])
        BY DEF ItemsOf
      <4>. QED BY <2>1, <2>2, <3>1, <3>3, <4>1 DEF ItemOf
    <3>. QED BY <3>2, <3>3
  <2>. QED BY <2>3, <2>5 DEF ItemsOf
<1>3. AccountsOf(more) =
        BookedOn(AccountsOf(rows), rows[i].owner, Shift(rows[i], next, Pending),
                 Shift(rows[i], next, {"APPROVED"}))
  <2>1. ASSUME NEW statuses
        PROVE  /\ \A v : v # rows[i].owner =>
                    Booked(more, v, statuses) = Booked(rows, v, statuses)
               /\ Booked(more, rows[i].owner, statuses)
                    = Booked(rows, rows[i].owner, statuses) + Shift(rows[i], next, statuses)
    BY <1>1, MovedBooks
  <2>. QED BY <2>1 DEF AccountsOf, BookedOn
<1>. QED BY <1>1, <1>2, <1>3

LEMMA LedgerPhases ==
  /\ PhaseOf("NONE") = "none" /\ PhaseOf("DRAFT") = "draft"
  /\ PhaseOf("SUBMITTED") = "held" /\ PhaseOf("N1_APPROVED") = "held"
  /\ PhaseOf("APPROVED") = "taken"
  /\ PhaseOf("REJECTED") = "released" /\ PhaseOf("CANCELLED") = "released"
BY DEF PhaseOf, Pending

LEMMA NothingBooked ==
  ASSUME IsFiniteSet(LeaveIds), NEW rows \in [LeaveIds -> LeaveRow], NEW owner
  PROVE  BookedOn(AccountsOf(rows), owner, 0, 0) = AccountsOf(rows)
<1>1. \A u : Booked(rows, u, Pending) \in Nat /\ Booked(rows, u, {"APPROVED"}) \in Nat
  BY BookedType
<1>. QED BY <1>1 DEF BookedOn, AccountsOf

\* A stage is one entry of the ledger, or none that it sees.
LEMMA StageIsBooked ==
  ASSUME IsFiniteSet(LeaveIds), NEW rows \in [LeaveIds -> LeaveRow], NEW i \in LeaveIds,
         NEW next, <<rows[i].status, next>> \in LeaveStages, rows[i].status # "NONE",
         rows[i].owner \in DOMAIN Allowance, NEW items, items = ItemsOf(rows), NEW more, more = ItemsOf(Moved(rows, i, next)),
         NEW before, before = AccountsOf(rows),
         NEW after, after = AccountsOf(Moved(rows, i, next))
  PROVE  \/ /\ items[i].phase = "draft" /\ more = Phased(items, i, "held")
            /\ after = BookedOn(before, items[i].holder, items[i].cost, 0)
         \/ /\ items[i].phase = "held" /\ more = Phased(items, i, "taken")
            /\ after = BookedOn(before, items[i].holder, -items[i].cost, items[i].cost)
         \/ /\ items[i].phase = "held" /\ more = Phased(items, i, "released")
            /\ after = BookedOn(before, items[i].holder, -items[i].cost, 0)
         \/ /\ items[i].phase = "draft" /\ more = Phased(items, i, "released")
            /\ after = before
         \/ more = items /\ after = before
<1>1. PICK st, u, h, onPending, onTaken :
        /\ st = rows[i].status /\ u = rows[i].owner /\ h = rows[i].halves
        /\ onPending = Shift(rows[i], next, Pending)
        /\ onTaken = Shift(rows[i], next, {"APPROVED"})
  OBVIOUS
<1>2. h \in Nat /\ next \in Statuses
  BY <1>1 DEF LeaveRow, LeaveStages, Statuses, Pending
<1>3. /\ more = Phased(items, i, PhaseOf(next))
      /\ after = BookedOn(before, u, onPending, onTaken)
  BY <1>1, <1>2, MovedLedger
<1>4. items[i].phase = PhaseOf(st) /\ items[i].holder = u /\ items[i].cost = h
  BY <1>1 DEF ItemsOf, ItemOf
<1>5. /\ onPending = (IF st \notin Pending /\ next \in Pending THEN h ELSE 0)
                       - (IF st \in Pending /\ next \notin Pending THEN h ELSE 0)
      /\ onTaken = (IF st # "APPROVED" /\ next = "APPROVED" THEN h ELSE 0)
                     - (IF st = "APPROVED" /\ next # "APPROVED" THEN h ELSE 0)
  BY <1>1 DEF Shift
<1>6. BookedOn(before, u, 0, 0) = before
  BY NothingBooked
<1>7. CASE st = "DRAFT" /\ next = "SUBMITTED"
  <2>1. onPending = h /\ onTaken = 0
    BY <1>2, <1>5, <1>7 DEF Pending
  <2>. QED BY <1>3, <1>4, <1>7, <2>1, LedgerPhases
<1>8. CASE st = "DRAFT" /\ next = "CANCELLED"
  <2>1. onPending = 0 /\ onTaken = 0
    BY <1>2, <1>5, <1>8 DEF Pending
  <2>. QED BY <1>3, <1>4, <1>6, <1>8, <2>1, LedgerPhases
<1>9. CASE st = "SUBMITTED" /\ next = "N1_APPROVED"
  <2>1. onPending = 0 /\ onTaken = 0
    BY <1>2, <1>5, <1>9 DEF Pending
  <2>2. Phased(items, i, "held") = items
    <3>1. items[i].phase = "held"
      BY <1>4, <1>9, LedgerPhases
    <3>2. [items[i] EXCEPT !.phase = "held"] = items[i]
      BY <3>1 DEF ItemsOf, ItemOf
    <3>3. Phased(items, i, "held") = [items EXCEPT ![i] = items[i]]
      BY <3>2 DEF Phased
    <3>. QED BY <3>3 DEF ItemsOf
  <2>. QED BY <1>3, <1>4, <1>6, <1>9, <2>1, <2>2, LedgerPhases
<1>10. CASE st = "N1_APPROVED" /\ next = "APPROVED"
  <2>1. onPending = -h /\ onTaken = h
    BY <1>2, <1>5, <1>10 DEF Pending
  <2>. QED BY <1>3, <1>4, <1>10, <2>1, LedgerPhases
<1>11. CASE st \in Pending /\ next \in {"REJECTED", "CANCELLED"}
  <2>1. onPending = -h /\ onTaken = 0
    BY <1>2, <1>5, <1>11 DEF Pending
  <2>2. PhaseOf(st) = "held" /\ PhaseOf(next) = "released"
    BY <1>11, LedgerPhases DEF Pending
  <2>. QED BY <1>3, <1>4, <2>1, <2>2
<1>. QED BY <1>1, <1>7, <1>8, <1>9, <1>10, <1>11 DEF LeaveStages

\* A new request is written in the ledger, with what it will cost.
LEMMA CreateWrites ==
  ASSUME BalanceInv, BalanceInv', IsFiniteSet(LeaveIds), NEW i \in LeaveIds, NEW u \in Users,
         NEW p \in Periods, NEW startHalf, NEW endHalf,
         CreateRequest(i, u, p[1], p[2], startHalf, endHalf)
  PROVE  \/ Ledger!Write(i)
         \/ ItemsOf(leave') = ItemsOf(leave) /\ LedgerAccounts' = LedgerAccounts
<1>1. PICK row : row = [status |-> "DRAFT", owner |-> u, from |-> p[1], to |-> p[2],
                        halves |-> Duration(p[1], p[2], startHalf, endHalf)]
  OBVIOUS
<1>2. p[1] \in Nat /\ p[2] \in Nat
  BY LeaveAssumption DEF Days
<1>3. row.status = "DRAFT" /\ row.halves \in Nat \ {0}
  BY <1>1, <1>2, DurationType
<1>4. leave[i] = NoLeave /\ leave' = [leave EXCEPT ![i] = row] /\ balance' = balance
  BY <1>1 DEF CreateRequest
<1>5. \A j \in LeaveIds : leave'[j] = IF j = i THEN row ELSE leave[j]
  BY <1>4 DEF BalanceInv
<1>6. ItemsOf(leave)[i] = [phase |-> "none", holder |-> NoUser, cost |-> 0]
  BY <1>4, LedgerPhases DEF ItemsOf, ItemOf, NoLeave
<1>7. ItemsOf(leave') = [ItemsOf(leave) EXCEPT ![i] = ItemsOf(leave')[i]]
  BY <1>5 DEF ItemsOf
<1>8. LedgerAccounts' = LedgerAccounts
  BY <1>4 DEF LedgerAccounts
<1>9. CASE u \in DOMAIN Allowance
  <2>1. ItemsOf(leave')[i].phase = "draft" /\ ItemsOf(leave')[i].cost > 0
    BY <1>1, <1>3, <1>5, <1>9, LedgerPhases DEF ItemsOf, ItemOf
  <2>. QED BY <1>6, <1>7, <1>8, <2>1, LedgerMapped
<1>10. CASE u \notin DOMAIN Allowance
  <2>1. ItemOf(row) = [phase |-> "none", holder |-> NoUser, cost |-> 0]
    BY <1>1, <1>10 DEF ItemOf
  <2>2. ItemsOf(leave')[i] = ItemsOf(leave)[i]
    BY <1>5, <1>6, <2>1 DEF ItemsOf
  <2>. QED BY <1>7, <1>8, <2>2 DEF ItemsOf
<1>. QED BY <1>9, <1>10

\* A decision that is written is one entry.
LEMMA CommitBooks ==
  ASSUME BalanceInv, BalanceInv', IsFiniteSet(LeaveIds), NEW r \in Decisions, Commit(r)
  PROVE  \/ \E i \in LeaveIds : Ledger!Hold(i) \/ Ledger!Take(i) \/ Ledger!GiveBack(i) \/ Ledger!Drop(i)
         \/ ItemsOf(leave') = ItemsOf(leave) /\ LedgerAccounts' = LedgerAccounts
<1>1. PICK i, next : i = deciding[r].id /\ next = deciding[r].next
  OBVIOUS
<1>2. /\ i \in LeaveIds /\ leave[i].status # "NONE" /\ next \in Statuses
      /\ deciding[r].read.owner = leave[i].owner
      /\ leave[i].owner \in DOMAIN Allowance => <<leave[i].status, next>> \in LeaveStages
  BY <1>1 DEF Commit, BalanceInv, StagesInv, UpToDate
<1>3. leave' = Moved(leave, i, next)
  BY <1>1, CommitBalances
<1>4. LedgerAccounts = AccountsOf(leave)
  BY AccountsMatch
<1>5. LedgerAccounts' = AccountsOf(leave')
  BY DEF BalanceInv, LedgerAccounts, AccountsOf, Account
<1>6. CASE leave[i].owner \in DOMAIN Allowance
  BY <1>2, <1>3, <1>4, <1>5, <1>6, StageIsBooked, LedgerMapped DEF BalanceInv
<1>7. CASE leave[i].owner \notin DOMAIN Allowance
  <2>1. balance' = balance
    BY <1>1, <1>2, <1>7 DEF Commit, BalanceInv
  <2>2. \A j \in LeaveIds : /\ leave'[j].owner = leave[j].owner
                            /\ j # i => leave'[j] = leave[j]
    BY <1>2, <1>3 DEF BalanceInv, Moved, LeaveRow
  <2>3. \A j \in LeaveIds : ItemOf(leave'[j]) = ItemOf(leave[j])
    BY <1>7, <2>2 DEF ItemOf
  <2>. QED BY <2>1, <2>3 DEF ItemsOf, LedgerAccounts
<1>. QED BY <1>6, <1>7

LEMMA LedgerStep ==
  ASSUME BalanceInv, BalanceInv', IsFiniteSet(LeaveIds),
         [LeaveNext /\ UNCHANGED orgVars]_<<orgVars, leaveVars, planning>>
  PROVE  \/ Ledger!Next
         \/ ItemsOf(leave') = ItemsOf(leave) /\ LedgerAccounts' = LedgerAccounts
<1>1. active \subseteq Users
  BY DEF active
<1>2. ASSUME UNCHANGED <<leave, balance>>
      PROVE  ItemsOf(leave') = ItemsOf(leave) /\ LedgerAccounts' = LedgerAccounts
  BY <1>2 DEF LedgerAccounts
<1>3. CASE UNCHANGED <<orgVars, leaveVars, planning>>
  BY <1>2, <1>3 DEF leaveVars
<1>4. ASSUME NEW i \in LeaveIds, NEW u \in Users, NEW p \in Periods,
             NEW half \in Halves \X Halves,
             CreateRequest(i, u, p[1], p[2], half[1], half[2])
      PROVE  \/ Ledger!Next
             \/ ItemsOf(leave') = ItemsOf(leave) /\ LedgerAccounts' = LedgerAccounts
  BY <1>4, CreateWrites DEF Ledger!Next
<1>5. ASSUME NEW r \in Decisions, NEW u \in Users, NEW i \in LeaveIds, NEW wish \in Wishes,
             BeginTransition(r, u, i, wish)
      PROVE  UNCHANGED <<leave, balance>>
  BY <1>5 DEF BeginTransition
<1>6. ASSUME NEW r \in Decisions, ReadBalance(r) \/ CrashDecision(r)
      PROVE  UNCHANGED <<leave, balance>>
  BY <1>6 DEF ReadBalance, CrashDecision
<1>7. ASSUME NEW r \in Decisions, Commit(r)
      PROVE  \/ Ledger!Next
             \/ ItemsOf(leave') = ItemsOf(leave) /\ LedgerAccounts' = LedgerAccounts
  BY <1>7, CommitBooks DEF Ledger!Next
<1>. QED BY <1>1, <1>2, <1>3, <1>4, <1>5, <1>6, <1>7 DEF LeaveNext

LEMMA LedgerInit ==
  ASSUME \A i \in LeaveIds : InitialLeaves[i] = NoLeave, LeaveInit, BalanceInv
  PROVE  Ledger!Init
<1>1. /\ leave = InitialLeaves /\ leave \in [LeaveIds -> LeaveRow]
      /\ LedgerAccounts = AccountsOf(leave)
  BY AccountsMatch DEF LeaveInit, BalanceInv
<1>2. ASSUME NEW u, NEW statuses, "NONE" \notin statuses
      PROVE  Booked(leave, u, statuses) = 0
  <2>1. Where(leave, u, statuses) = {}
    BY <1>1, <1>2 DEF Where, NoLeave
  <2>. QED BY <2>1, SumUnfolds, FS_EmptySet DEF Booked
<1>3. LedgerAccounts = [u \in DOMAIN Allowance |-> [held |-> 0, taken |-> 0]]
  BY <1>1, <1>2 DEF AccountsOf, Pending
<1>4. ItemsOf(leave) = [i \in LeaveIds |-> [phase |-> "none", holder |-> NoUser, cost |-> 0]]
  BY <1>1, LedgerPhases DEF ItemsOf, ItemOf, NoLeave
<1>. QED BY <1>3, <1>4 DEF Ledger!Init, Ledger!None, ItemsOf, LedgerAccounts

\* Starting without requests, every transition books the days of its request
\* once: held when asked for, then taken or given back, and nothing else ever
\* moves the account -- for every tenant, calendar and number of requests,
\* whichever die, as long as no two in flight are about the same balance.
THEOREM LeavesKeepTheLedger ==
  ASSUME OnePerBalance, IsFiniteSet(LeaveIds), \A i \in LeaveIds : InitialLeaves[i] = NoLeave
  PROVE  LeaveSpec => KeepsLedger
<1>1. LeaveInit /\ BalanceInv => Ledger!Init
  BY LedgerInit
<1>2. BalanceInv /\ BalanceInv' /\ [LeaveNext /\ UNCHANGED orgVars]_<<orgVars, leaveVars, planning>>
        => [Ledger!Next]_<<[i \in LeaveIds |-> ItemOf(leave[i])],
                           [u \in DOMAIN balance |-> [held |-> balance[u].pending,
                                                      taken |-> balance[u].used]]>>
  BY LedgerStep, LedgerStutters
<1>. QED BY <1>1, <1>2, BalanceAlways, PTL DEF LeaveSpec, KeepsLedger, Ledger!Spec

---------------------------------------------------------------------------
(* Plannings.  Of the leaves, nothing is assumed of the order of their     *)
(* decisions: a request may write over what another has written.  But      *)
(* whose leave it is and on which days never changes.                      *)

SameDays(a, b) == a.owner = b.owner /\ a.from = b.from /\ a.to = b.to

LeavesSound ==
  /\ leave \in [LeaveIds -> LeaveRow]
  /\ deciding = [r \in Decisions |-> deciding[r]]
  /\ \A r \in Decisions :
       /\ Shaped(deciding[r])
       /\ deciding[r].pc # "idle" =>
            /\ deciding[r].id \in LeaveIds /\ deciding[r].next \in Statuses
            /\ leave[deciding[r].id] # NoLeave
            /\ SameDays(deciding[r].read, leave[deciding[r].id])

\* What a step of the leave service does to approved leaves and to plannings.
LeaveEffect ==
  /\ planning' = planning \/ \E row : planning' = Freed(planning, row)
  /\ \A i \in LeaveIds : leave'[i].status = "APPROVED" =>
       /\ SameDays(leave[i], leave'[i])
       /\ \/ leave[i].status = "APPROVED"
          \/ \E row : SameDays(row, leave[i]) /\ planning' = Freed(planning, row)

\* One row of the requests in flight changes, and leaves stay or change their status.
LEMMA DecidingAlters ==
  ASSUME LeavesSound, leave' \in [LeaveIds -> LeaveRow], NEW r \in Decisions, NEW q,
         deciding' = [deciding EXCEPT ![r] = q], Shaped(q),
         q.pc # "idle" =>
           /\ q.id \in LeaveIds /\ q.next \in Statuses
           /\ leave'[q.id] # NoLeave
           /\ SameDays(q.read, leave'[q.id]),
         \A i \in LeaveIds : leave[i] # NoLeave =>
           leave'[i] # NoLeave /\ SameDays(leave[i], leave'[i])
  PROVE  LeavesSound'
<1>1. /\ deciding' = [g \in Decisions |-> deciding'[g]]
      /\ \A g \in Decisions : deciding'[g] = IF g = r THEN q ELSE deciding[g]
  BY DEF LeavesSound
<1>. QED BY <1>1 DEF LeavesSound, Shaped, SameDays

LEMMA LeaveIsCreated ==
  ASSUME LeavesSound, NEW i \in LeaveIds, NEW u \in Users, NEW p \in Periods,
         NEW startHalf, NEW endHalf, CreateRequest(i, u, p[1], p[2], startHalf, endHalf)
  PROVE  LeavesSound' /\ LeaveEffect
<1>1. PICK row : row = [status |-> "DRAFT", owner |-> u, from |-> p[1], to |-> p[2],
                        halves |-> Duration(p[1], p[2], startHalf, endHalf)]
  OBVIOUS
<1>2. p[1] \in Nat /\ p[2] \in Nat
  BY LeaveAssumption DEF Days
<1>3. row \in LeaveRow /\ row.status = "DRAFT"
  BY <1>1, <1>2, DurationType DEF LeaveRow, Statuses
<1>4. /\ leave[i] = NoLeave /\ leave' = [leave EXCEPT ![i] = row]
      /\ deciding' = deciding /\ planning' = planning
  BY <1>1 DEF CreateRequest
<1>5. /\ leave' \in [LeaveIds -> LeaveRow]
      /\ \A j \in LeaveIds : leave'[j] = IF j = i THEN row ELSE leave[j]
  BY <1>3, <1>4 DEF LeavesSound
<1>6. LeavesSound'
  BY <1>4, <1>5 DEF LeavesSound, Shaped, SameDays
<1>. QED BY <1>3, <1>4, <1>5, <1>6 DEF LeaveEffect, SameDays

LEMMA LeaveIsAsked ==
  ASSUME LeavesSound, NEW r \in Decisions, NEW u \in Users, NEW i \in LeaveIds,
         NEW wish \in Wishes, BeginTransition(r, u, i, wish)
  PROVE  LeavesSound' /\ LeaveEffect
<1>1. PICK q : q = [pc |-> "balance", user |-> u, id |-> i, wish |-> wish, read |-> leave[i],
                    next |-> Effective(leave[i], wish), found |-> Quiet.found]
  OBVIOUS
<1>2. Shaped(q) /\ q.id = i /\ q.read = leave[i] /\ q.next = Effective(leave[i], wish)
  BY <1>1 DEF Shaped
<1>3. Effective(leave[i], wish) \in Statuses
  BY LeaveAssumption DEF Effective, Statuses
<1>4. /\ deciding' = [deciding EXCEPT ![r] = q] /\ leave' = leave /\ planning' = planning
      /\ leave[i] # NoLeave
  BY <1>1 DEF BeginTransition
<1>5. LeavesSound'
  BY <1>2, <1>3, <1>4, DecidingAlters DEF LeavesSound, SameDays
<1>. QED BY <1>4, <1>5 DEF LeaveEffect, SameDays

LEMMA BalanceIsRead ==
  ASSUME LeavesSound, NEW r \in Decisions, ReadBalance(r)
  PROVE  LeavesSound' /\ LeaveEffect
<1>1. PICK q, found :
        /\ q = deciding[r]
        /\ found = IF deciding[r].read.owner \in DOMAIN balance
                   THEN [pending |-> balance[deciding[r].read.owner].pending,
                         used |-> balance[deciding[r].read.owner].used]
                   ELSE deciding[r].found
  OBVIOUS
<1>2. PICK q1 : q1 = [pc |-> "commit", user |-> q.user, id |-> q.id, wish |-> q.wish,
                      read |-> q.read, next |-> q.next, found |-> found]
  OBVIOUS
<1>3. Shaped(q1) /\ q1.id = q.id /\ q1.read = q.read /\ q1.next = q.next
  BY <1>2 DEF Shaped
<1>4. Shaped(q) /\ q.pc # "idle"
  BY <1>1 DEF LeavesSound, ReadBalance
<1>5. [q EXCEPT !.pc = "commit", !.found = found] = q1
  BY <1>2, <1>4, BalanceRead
<1>6. /\ deciding' = [deciding EXCEPT ![r] = q1] /\ leave' = leave /\ planning' = planning
  BY <1>1, <1>5 DEF ReadBalance
<1>7. LeavesSound'
  BY <1>1, <1>3, <1>4, <1>6, DecidingAlters DEF LeavesSound, SameDays
<1>. QED BY <1>6, <1>7 DEF LeaveEffect, SameDays

LEMMA LeaveIsDecided ==
  ASSUME LeavesSound, NEW r \in Decisions, Commit(r)
  PROVE  LeavesSound' /\ LeaveEffect
<1>1. PICK q, i, old, new : /\ q = deciding[r] /\ i = q.id /\ old = leave[i]
                            /\ new = [old EXCEPT !.status = q.next]
  OBVIOUS
<1>2. /\ q.pc # "idle" /\ i \in LeaveIds /\ q.next \in Statuses /\ old # NoLeave
      /\ SameDays(q.read, old) /\ old \in LeaveRow
  BY <1>1 DEF Commit, LeavesSound
<1>3. /\ new \in LeaveRow /\ SameDays(old, new) /\ new.status = q.next
  BY <1>1, <1>2 DEF LeaveRow, SameDays
<1>4. new # NoLeave
  BY <1>2, <1>3 DEF NoLeave, Statuses
<1>5. /\ leave' = [leave EXCEPT ![i] = new]
      /\ deciding' = [deciding EXCEPT ![r] = Quiet]
      /\ planning' = IF q.next = "APPROVED" THEN Freed(planning, q.read) ELSE planning
  BY <1>1 DEF Commit
<1>6. /\ leave' \in [LeaveIds -> LeaveRow]
      /\ \A j \in LeaveIds : leave'[j] = IF j = i THEN new ELSE leave[j]
  BY <1>2, <1>3, <1>5 DEF LeavesSound
<1>7. Shaped(Quiet) /\ Quiet.pc = "idle"
  BY DEF Shaped, Quiet
<1>8. LeavesSound'
  BY <1>1, <1>3, <1>4, <1>5, <1>6, <1>7, DecidingAlters DEF SameDays
<1>. QED BY <1>1, <1>2, <1>3, <1>5, <1>6, <1>8 DEF LeaveEffect, SameDays

LEMMA DecisionDies ==
  ASSUME LeavesSound, NEW r \in Decisions, CrashDecision(r)
  PROVE  LeavesSound' /\ LeaveEffect
<1>1. /\ deciding' = [deciding EXCEPT ![r] = Quiet] /\ leave' = leave /\ planning' = planning
  BY DEF CrashDecision
<1>2. Shaped(Quiet) /\ Quiet.pc = "idle"
  BY DEF Shaped, Quiet
<1>3. LeavesSound'
  BY <1>1, <1>2, DecidingAlters DEF LeavesSound, SameDays
<1>. QED BY <1>1, <1>3 DEF LeaveEffect, SameDays

LEMMA LeaveServiceKeeps ==
  ASSUME LeavesSound, LeaveNext
  PROVE  LeavesSound' /\ LeaveEffect
<1>1. active \subseteq Users
  BY DEF active
<1>2. ASSUME NEW i \in LeaveIds, NEW u \in Users, NEW p \in Periods,
             NEW half \in Halves \X Halves,
             CreateRequest(i, u, p[1], p[2], half[1], half[2])
      PROVE  LeavesSound' /\ LeaveEffect
  BY <1>2, LeaveIsCreated
<1>3. ASSUME NEW r \in Decisions, NEW u \in Users, NEW i \in LeaveIds, NEW wish \in Wishes,
             BeginTransition(r, u, i, wish)
      PROVE  LeavesSound' /\ LeaveEffect
  BY <1>3, LeaveIsAsked
<1>4. ASSUME NEW r \in Decisions, ReadBalance(r) \/ Commit(r) \/ CrashDecision(r)
      PROVE  LeavesSound' /\ LeaveEffect
  BY <1>4, BalanceIsRead, LeaveIsDecided, DecisionDies
<1>. QED BY <1>1, <1>2, <1>3, <1>4 DEF LeaveNext

LEMMA LeavesInit == LeaveInit => LeavesSound
<1>. SUFFICES ASSUME LeaveInit PROVE LeavesSound
  OBVIOUS
<1>1. deciding = [r \in Decisions |-> Quiet] /\ leave = InitialLeaves
  BY DEF LeaveInit
<1>2. Shaped(Quiet) /\ Quiet.pc = "idle"
  BY DEF Shaped, Quiet
<1>. QED BY <1>1, <1>2, LeaveAssumption DEF LeavesSound

---------------------------------------------------------------------------
(* The invariant of the plannings.                                         *)

PlanLine == [user : Users, site : Sites, hours : UNION {[S -> Hours] : S \in SUBSET Nat}]

PlanRow == [status : {"NONE", "DRAFT", "PUBLISHED", "GONE"}, creator : Users \cup {NoUser},
            from : Nat, to : Nat, lines : SUBSET PlanLine]

SavingRow == [pc : {"idle", "leaves", "write", "page", "erase", "insert"},
              op : {"none", "update", "publish", "reopen", "remove", "period"},
              user : Users \cup {NoUser}, id : PlanIds \cup {NoRow}, from : Nat, to : Nat,
              leaves : SUBSET LeaveIds, old : SUBSET PlanLine, doomed : SUBSET PlanIds]

WrittenRow == [by : {"nobody", "update", "period"}, stale : BOOLEAN]

PlanTypeOK ==
  /\ assigned \in [Sites -> SUBSET Users]
  /\ planning \in [PlanIds -> PlanRow]
  /\ saving \in [Saves -> SavingRow]
  /\ written \in [PlanIds -> WrittenRow]

\* What a planning request goes by: its row exists, and is that of its period.
KnowsItsRow(q) ==
  /\ q.pc = "page" => q.op = "period"
  /\ q.pc = "leaves" => q.op = "update"
  /\ q.pc = "write" => q.op \in {"publish", "reopen", "remove"}
  /\ q.pc \in {"erase", "insert"} => q.op \in {"update", "period"}
  /\ q.pc \in {"leaves", "write", "erase", "insert"} =>
       q.id \in PlanIds /\ planning[q.id].status # "NONE"
  /\ q.pc \in {"erase", "insert"} /\ q.op = "period" =>
       /\ planning[q.id].creator = q.user
       /\ planning[q.id].from = q.from /\ planning[q.id].to = q.to

Fresh == \A p \in PlanIds : planning[p].status = "NONE" =>
           planning[p].lines = {} /\ written[p] = Unwritten

\* Two periods of one author that may not both be planned.
Rivals(p, o) ==
  /\ p # o /\ Live(p) /\ Live(o)
  /\ planning[p].creator = planning[o].creator
  /\ Overlap(planning[p], planning[o])

\* Request r is about to write a period.
Settles(r) == saving[r].pc = "insert" /\ saving[r].op = "period"

\* Of two rivals one is written, or about to be, only if the other goes.
PeriodsInv ==
  /\ \A p, o \in PlanIds : Rivals(p, o) => ~(written[p].by = "period" /\ written[o].by = "period")
  /\ \A r \in Saves, o \in PlanIds :
       Settles(r) /\ Rivals(saving[r].id, o) /\ written[o].by = "period" =>
         o \in saving[r].doomed
  /\ \A r, g \in Saves :
       Settles(r) /\ Settles(g) /\ Rivals(saving[r].id, saving[g].id) =>
         saving[g].id \in saving[r].doomed \/ saving[r].id \in saving[g].doomed

\* No line of C has hours on a day of an approved leave of these.
Free(C, rows) ==
  \A ln \in C, d \in Days, i \in LeaveIds :
    (/\ rows[i].status = "APPROVED" /\ rows[i].owner = ln.user
     /\ d \in rows[i].from..rows[i].to /\ d \in DOMAIN ln.hours) => ln.hours[d] = 0

FreeInv == \A p \in PlanIds : Live(p) /\ ~written[p].stale => Free(planning[p].lines, leave)

PlanInv ==
  /\ LeavesSound
  /\ PlanTypeOK
  /\ \A r \in Saves : KnowsItsRow(saving[r])
  /\ Fresh
  /\ PeriodsInv
  /\ FreeInv

LEMMA RivalsAreMutual ==
  ASSUME NEW p, NEW o, Rivals(p, o)
  PROVE  Rivals(o, p)
BY DEF Rivals, Overlap

\* A planning never comes back, and keeps its author and its days.
Persists ==
  \A p \in PlanIds : planning[p].status # "NONE" =>
    /\ planning'[p].status # "NONE" /\ (Live(p)' => Live(p))
    /\ planning'[p].creator = planning[p].creator
    /\ planning'[p].from = planning[p].from /\ planning'[p].to = planning[p].to

\* Every step but the two of a transaction: it writes no line and no period, and its
\* request, if it has one, does not go into a transaction.
LEMMA LinesStand ==
  ASSUME PlanInv, LeavesSound', PlanTypeOK', leave' = leave, Persists,
         \A p \in PlanIds :
           /\ planning'[p].lines \in {planning[p].lines, {}}
           /\ written'[p] = written[p] \/ (written'[p] = Unwritten /\ planning'[p].lines = {})
           /\ planning'[p].status = "NONE" => planning'[p] = planning[p],
         \A r \in Saves : \/ saving'[r] = saving[r]
                          \/ KnowsItsRow(saving[r])' /\ saving'[r].pc # "insert"
  PROVE  PlanInv'
<1>1. \A r \in Saves : KnowsItsRow(saving[r])'
  <2>. SUFFICES ASSUME NEW r \in Saves, saving'[r] = saving[r]
                PROVE  KnowsItsRow(saving[r])'
    OBVIOUS
  <2>1. KnowsItsRow(saving[r])
    BY DEF PlanInv
  <2>. QED BY <2>1 DEF KnowsItsRow, Persists
<1>2. Fresh'
  BY DEF PlanInv, Fresh
<1>3. ASSUME NEW p \in PlanIds, NEW o \in PlanIds, Rivals(p, o)',
             planning[p].status # "NONE", planning[o].status # "NONE"
      PROVE  Rivals(p, o)
  BY <1>3 DEF Rivals, Overlap, Persists
<1>4. \A p \in PlanIds : written'[p].by = "period" =>
        written[p].by = "period" /\ planning[p].status # "NONE"
  BY DEF PlanInv, Fresh, Unwritten
<1>5. \A r \in Saves : Settles(r)' =>
        /\ Settles(r) /\ saving'[r] = saving[r]
        /\ saving[r].id \in PlanIds /\ planning[saving[r].id].status # "NONE"
  BY DEF PlanInv, Settles, KnowsItsRow
<1>6. PeriodsInv'
  BY <1>3, <1>4, <1>5 DEF PlanInv, PeriodsInv
<1>7. FreeInv'
  <2>. SUFFICES ASSUME NEW p \in PlanIds, Live(p)', ~written'[p].stale, planning'[p].lines # {}
                PROVE  Free(planning'[p].lines, leave)
    BY DEF FreeInv, Free
  <2>1. planning'[p].lines = planning[p].lines /\ written'[p] = written[p]
    OBVIOUS
  <2>2. planning[p].status # "NONE"
    BY <2>1 DEF PlanInv, Fresh
  <2>3. Live(p)
    BY <2>2 DEF Persists
  <2>. QED BY <2>1, <2>3 DEF PlanInv, FreeInv
<1>. QED BY <1>1, <1>2, <1>6, <1>7 DEF PlanInv

LEMMA LeavesStand ==
  ASSUME LeavesSound, UNCHANGED leaveVars
  PROVE  LeavesSound'
BY DEF leaveVars, LeavesSound, Shaped, SameDays

\* A request moves on and writes nothing.
LEMMA RequestMoves ==
  ASSUME PlanInv, UNCHANGED <<orgVars, leaveVars, planning, written>>,
         NEW r \in Saves, NEW q \in SavingRow, saving' = [saving EXCEPT ![r] = q],
         q.pc # "insert", KnowsItsRow(q)
  PROVE  PlanInv'
<1>1. LeavesSound' /\ leave' = leave
  BY LeavesStand DEF PlanInv, leaveVars
<1>2. PlanTypeOK'
  BY DEF PlanInv, PlanTypeOK, orgVars
<1>3. \A g \in Saves : saving'[g] = IF g = r THEN q ELSE saving[g]
  BY DEF PlanInv, PlanTypeOK
<1>4. KnowsItsRow(saving[r])'
  BY <1>3 DEF KnowsItsRow
<1>5. Persists
  BY DEF Persists, Live
<1>6. \A p \in PlanIds :
        /\ planning'[p].lines \in {planning[p].lines, {}}
        /\ written'[p] = written[p] \/ (written'[p] = Unwritten /\ planning'[p].lines = {})
        /\ planning'[p].status = "NONE" => planning'[p] = planning[p]
  OBVIOUS
<1>7. \A g \in Saves : \/ saving'[g] = saving[g]
                       \/ KnowsItsRow(saving[g])' /\ saving'[g].pc # "insert"
  BY <1>3, <1>4
<1>. QED BY <1>1, <1>2, <1>5, <1>6, <1>7, LinesStand

\* A planning is created, or changes its status.
LEMMA RowChanges ==
  ASSUME PlanInv, UNCHANGED <<orgVars, leaveVars>>, NEW p \in PlanIds, NEW row \in PlanRow,
         planning' = [planning EXCEPT ![p] = row], row.status # "NONE",
         \/ written' = written /\ row.lines \in {planning[p].lines, {}}
         \/ written' = [written EXCEPT ![p] = Unwritten] /\ row.lines = {},
         planning[p].status # "NONE" =>
           /\ row.creator = planning[p].creator /\ row.from = planning[p].from
           /\ row.to = planning[p].to /\ (row.status \in {"DRAFT", "PUBLISHED"} => Live(p)),
         saving' \in [Saves -> SavingRow],
         \A r \in Saves : \/ saving'[r] = saving[r]
                          \/ KnowsItsRow(saving[r])' /\ saving'[r].pc # "insert"
  PROVE  PlanInv'
<1>1. LeavesSound' /\ leave' = leave
  BY LeavesStand DEF PlanInv, leaveVars
<1>2. \A o \in PlanIds : planning'[o] = IF o = p THEN row ELSE planning[o]
  BY DEF PlanInv, PlanTypeOK
<1>3. Unwritten \in WrittenRow
  BY DEF Unwritten, WrittenRow
<1>4. PlanTypeOK'
  BY <1>3 DEF PlanInv, PlanTypeOK, orgVars
<1>5. Persists
  BY <1>2 DEF Persists, Live
<1>6. \A o \in PlanIds :
        /\ planning'[o].lines \in {planning[o].lines, {}}
        /\ written'[o] = written[o] \/ (written'[o] = Unwritten /\ planning'[o].lines = {})
        /\ planning'[o].status = "NONE" => planning'[o] = planning[o]
  <2>. SUFFICES ASSUME NEW o \in PlanIds
                PROVE  /\ planning'[o].lines \in {planning[o].lines, {}}
                       /\ \/ written'[o] = written[o]
                          \/ written'[o] = Unwritten /\ planning'[o].lines = {}
                       /\ planning'[o].status = "NONE" => planning'[o] = planning[o]
    OBVIOUS
  <2>1. CASE o = p
    BY <1>2, <2>1 DEF PlanInv, PlanTypeOK
  <2>2. CASE o # p
    BY <1>2, <2>2 DEF PlanInv, PlanTypeOK
  <2>. QED BY <2>1, <2>2
<1>. QED BY <1>1, <1>4, <1>5, <1>6, LinesStand

LEMMA RestingType ==
  Resting \in SavingRow /\ Resting.pc = "idle" /\ KnowsItsRow(Resting)
BY DEF Resting, SavingRow, KnowsItsRow

\* What a request that arrives carries.
LEMMA Arriving ==
  ASSUME PlanInv, UNCHANGED <<orgVars, leaveVars>>, NEW r \in Saves, NEW u \in Users,
         NEW p \in PlanIds, NEW pc, NEW op, Arrives(r, u, op, pc, p), planning[p].status # "NONE",
         \/ pc = "leaves" /\ op = "update"
         \/ pc = "write" /\ op \in {"publish", "reopen", "remove"}
  PROVE  PlanInv'
<1>1. PICK q : q = [Resting EXCEPT !.pc = pc, !.op = op, !.user = u, !.id = p]
  OBVIOUS
<1>2. q \in SavingRow /\ q.pc = pc /\ q.op = op /\ q.id = p
  BY <1>1, RestingType DEF SavingRow
<1>3. KnowsItsRow(q)
  BY <1>2 DEF KnowsItsRow
<1>4. saving' = [saving EXCEPT ![r] = q] /\ UNCHANGED <<planning, written>>
  BY <1>1 DEF Arrives
<1>. QED BY <1>2, <1>3, <1>4, RequestMoves

LEMMA SheetRequestsKeep ==
  ASSUME PlanInv, UNCHANGED <<orgVars, leaveVars>>, NEW r \in Saves, NEW u \in Users,
         NEW p \in PlanIds,
         BeginUpdate(r, u, p) \/ BeginPublish(r, u, p) \/ BeginReopen(r, u, p) \/ BeginRemove(r, u, p)
  PROVE  PlanInv'
<1>1. planning[p].status # "NONE"
  BY DEF BeginUpdate, BeginPublish, BeginReopen, BeginRemove, Live
<1>. QED BY <1>1, Arriving DEF BeginUpdate, BeginPublish, BeginReopen, BeginRemove

LEMMA LeavesRead ==
  ASSUME PlanInv, UNCHANGED <<orgVars, leaveVars>>, NEW r \in Saves, ReadLeaves(r)
  PROVE  PlanInv'
<1>1. PICK q, row, q1 :
        /\ q = saving[r] /\ row = planning[q.id]
        /\ q1 = [q EXCEPT !.pc = "erase", !.from = row.from, !.to = row.to,
                          !.leaves = ApprovedLeaves(row.from, row.to)]
  OBVIOUS
<1>2. q \in SavingRow /\ KnowsItsRow(q) /\ q.pc = "leaves"
  BY <1>1 DEF PlanInv, PlanTypeOK, ReadLeaves
<1>3. q.id \in PlanIds /\ planning[q.id].status # "NONE" /\ q.op = "update" /\ row \in PlanRow
  BY <1>1, <1>2 DEF KnowsItsRow, PlanInv, PlanTypeOK
<1>4. ApprovedLeaves(row.from, row.to) \subseteq LeaveIds
  BY DEF ApprovedLeaves
<1>5. q1 \in SavingRow
  <2>1. row.from \in Nat /\ row.to \in Nat
    BY <1>3 DEF PlanRow
  <2>2. PICK ls, from, to :
          ls = ApprovedLeaves(row.from, row.to) /\ from = row.from /\ to = row.to
    OBVIOUS
  <2>3. q1 = [q EXCEPT !.pc = "erase", !.from = from, !.to = to, !.leaves = ls]
    BY <1>1, <2>2
  <2>. QED BY <1>2, <1>4, <2>1, <2>2, <2>3 DEF SavingRow
<1>6. q1.pc = "erase" /\ q1.op = "update" /\ q1.id = q.id
  BY <1>1, <1>2, <1>3 DEF SavingRow
<1>7. KnowsItsRow(q1)
  BY <1>3, <1>6 DEF KnowsItsRow
<1>8. saving' = [saving EXCEPT ![r] = q1] /\ UNCHANGED <<planning, written>>
  BY <1>1 DEF ReadLeaves, PlanInv, PlanTypeOK
<1>. QED BY <1>5, <1>6, <1>7, <1>8, RequestMoves

LEMMA PageOpens ==
  ASSUME PlanInv, UNCHANGED <<orgVars, leaveVars>>, NEW r \in Saves, NEW u \in Users,
         NEW d \in Periods, OpenPage(r, u, d[1], d[2])
  PROVE  PlanInv'
<1>1. PICK q : q = [Resting EXCEPT !.pc = "page", !.op = "period", !.user = u, !.from = d[1],
                                   !.to = d[2], !.leaves = ApprovedLeaves(d[1], d[2])]
  OBVIOUS
<1>2. d[1] \in Nat /\ d[2] \in Nat /\ ApprovedLeaves(d[1], d[2]) \subseteq LeaveIds
  BY LeaveAssumption DEF Days, ApprovedLeaves
<1>3. q \in SavingRow /\ q.pc = "page" /\ q.op = "period"
  BY <1>1, <1>2, RestingType DEF SavingRow
<1>4. KnowsItsRow(q)
  BY <1>3 DEF KnowsItsRow
<1>5. saving' = [saving EXCEPT ![r] = q] /\ UNCHANGED <<planning, written>>
  BY <1>1 DEF OpenPage
<1>. QED BY <1>3, <1>4, <1>5, RequestMoves

LEMMA AbandonKeeps ==
  ASSUME PlanInv, UNCHANGED <<orgVars, leaveVars>>, NEW r \in Saves, Abandon(r)
  PROVE  PlanInv'
BY RestingType, RequestMoves DEF Abandon, Rest

LEMMA CreationKeeps ==
  ASSUME PlanInv, UNCHANGED <<orgVars, leaveVars>>, NEW u \in Users, NEW p \in PlanIds,
         NEW d \in Periods, CreatePlanning(u, p, d[1], d[2])
  PROVE  PlanInv'
<1>1. PICK row : row = [status |-> "DRAFT", creator |-> u, from |-> d[1], to |-> d[2], lines |-> {}]
  OBVIOUS
<1>2. d[1] \in Nat /\ d[2] \in Nat
  BY LeaveAssumption DEF Days
<1>3. row \in PlanRow /\ row.status = "DRAFT" /\ row.lines = {}
  BY <1>1, <1>2 DEF PlanRow
<1>4. /\ planning' = [planning EXCEPT ![p] = row] /\ UNCHANGED <<saving, written>>
      /\ planning[p].status = "NONE"
  BY <1>1 DEF CreatePlanning
<1>5. saving' \in [Saves -> SavingRow]
  BY <1>4 DEF PlanInv, PlanTypeOK
<1>. QED BY <1>3, <1>4, <1>5, RowChanges

LEMMA StatusKeeps ==
  ASSUME PlanInv, UNCHANGED <<orgVars, leaveVars>>, NEW r \in Saves, WriteStatus(r)
  PROVE  PlanInv'
<1>1. PICK q, p, old : q = saving[r] /\ p = q.id /\ old = planning[p]
  OBVIOUS
<1>2. q.pc = "write" /\ KnowsItsRow(q) /\ Live(p) /\ saving' = [saving EXCEPT ![r] = Resting]
  BY <1>1 DEF WriteStatus, Rest, PlanInv
<1>3. p \in PlanIds /\ q.op \in {"publish", "reopen", "remove"} /\ old \in PlanRow
  BY <1>1, <1>2 DEF KnowsItsRow, PlanInv, PlanTypeOK
<1>4. saving' \in [Saves -> SavingRow]
  BY <1>2, RestingType DEF PlanInv, PlanTypeOK
<1>5. \A g \in Saves : \/ saving'[g] = saving[g]
                       \/ KnowsItsRow(saving[g])' /\ saving'[g].pc # "insert"
  BY <1>2, RestingType DEF PlanInv, PlanTypeOK, KnowsItsRow
<1>6. CASE q.op \in {"publish", "reopen"}
  <2>1. PICK st, row : /\ st = IF q.op = "publish" THEN "PUBLISHED" ELSE "DRAFT"
                       /\ row = [old EXCEPT !.status = st]
    OBVIOUS
  <2>2. planning' = [planning EXCEPT ![p] = row]
    BY <1>1, <1>6, <2>1 DEF WriteStatus
  <2>3. /\ row \in PlanRow /\ row.status = st /\ row.lines = old.lines
        /\ row.creator = old.creator /\ row.from = old.from /\ row.to = old.to
    BY <1>3, <2>1 DEF PlanRow
  <2>4. written' = written
    BY <1>1, <1>6 DEF WriteStatus
  <2>5. row.status # "NONE" /\ row.lines \in {planning[p].lines, {}}
    BY <1>1, <2>1, <2>3
  <2>. QED BY <1>1, <1>2, <1>3, <1>4, <1>5, <2>2, <2>3, <2>4, <2>5, RowChanges
<1>7. CASE q.op = "remove"
  <2>1. PICK row : row = [old EXCEPT !.status = "GONE", !.lines = {}]
    OBVIOUS
  <2>2. planning' = [planning EXCEPT ![p] = row]
    BY <1>1, <1>7, <2>1 DEF WriteStatus
  <2>3. /\ row \in PlanRow /\ row.status = "GONE" /\ row.lines = {}
        /\ row.creator = old.creator /\ row.from = old.from /\ row.to = old.to
    BY <1>3, <2>1 DEF PlanRow
  <2>4. written' = [written EXCEPT ![p] = Unwritten]
    BY <1>1, <1>7 DEF WriteStatus
  <2>. QED BY <1>1, <1>2, <1>3, <1>4, <1>5, <2>2, <2>3, <2>4, RowChanges
<1>. QED BY <1>3, <1>6, <1>7

LEMMA UpsertKeeps ==
  ASSUME PlanInv, UNCHANGED <<orgVars, leaveVars>>, NEW r \in Saves, NEW p \in PlanIds,
         Upsert(r, p)
  PROVE  PlanInv'
<1>1. PICK q, old, mine, row, q1 :
        /\ q = saving[r] /\ old = planning[p] /\ mine = Taken(q.user, q.from, q.to)
        /\ row = IF mine = {} THEN [status |-> "PUBLISHED", creator |-> q.user,
                                    from |-> q.from, to |-> q.to, lines |-> {}]
                 ELSE [old EXCEPT !.status = "PUBLISHED"]
        /\ q1 = [q EXCEPT !.pc = "erase", !.id = p]
  OBVIOUS
<1>2. q \in SavingRow /\ q.op = "period" /\ old \in PlanRow
  BY <1>1 DEF Upsert, PlanInv, PlanTypeOK, KnowsItsRow
<1>3. q1 \in SavingRow /\ q1.pc = "erase" /\ q1.op = "period" /\ q1.id = p
      /\ q1.user = q.user /\ q1.from = q.from /\ q1.to = q.to
  BY <1>1, <1>2 DEF SavingRow
<1>4. /\ mine = {} => old.status = "NONE"
      /\ mine # {} => /\ Live(p) /\ old.creator = q.user
                      /\ old.from = q.from /\ old.to = q.to
  BY <1>1 DEF Upsert, Taken
<1>5. /\ row \in PlanRow /\ row.status = "PUBLISHED" /\ row.lines \in {old.lines, {}}
      /\ row.creator = q.user /\ row.from = q.from /\ row.to = q.to
  <2>1. CASE mine = {}
    BY <1>1, <1>2, <2>1 DEF PlanRow, SavingRow
  <2>2. CASE mine # {}
    BY <1>1, <1>2, <1>4, <2>2 DEF PlanRow
  <2>. QED BY <2>1, <2>2
<1>6. /\ planning' = [planning EXCEPT ![p] = row] /\ written' = written
      /\ saving' = [saving EXCEPT ![r] = q1]
  BY <1>1 DEF Upsert, PlanInv, PlanTypeOK
<1>7. planning'[p] = row /\ \A g \in Saves : saving'[g] = IF g = r THEN q1 ELSE saving[g]
  BY <1>6 DEF PlanInv, PlanTypeOK
<1>8. KnowsItsRow(saving[r])'
  BY <1>3, <1>5, <1>7 DEF KnowsItsRow
<1>9. saving' \in [Saves -> SavingRow]
  BY <1>3, <1>6 DEF PlanInv, PlanTypeOK
<1>10. planning[p].status # "NONE" =>
         /\ row.creator = planning[p].creator /\ row.from = planning[p].from
         /\ row.to = planning[p].to /\ Live(p)
  BY <1>1, <1>4, <1>5
<1>. QED BY <1>1, <1>3, <1>5, <1>6, <1>7, <1>8, <1>9, <1>10, RowChanges

---------------------------------------------------------------------------
(* The transaction.                                                        *)

\* It takes hold of every rival that is there.
LEMMA EraseKeeps ==
  ASSUME PlanInv, UNCHANGED <<orgVars, leaveVars>>, NEW r \in Saves, Erase(r)
  PROVE  PlanInv'
<1>1. PICK q, others, q1 :
        /\ q = saving[r]
        /\ others = IF q.op = "period" THEN Others(q.user, q.id, q.from, q.to) ELSE {}
        /\ q1 = [q EXCEPT !.pc = "insert", !.doomed = others, !.old = planning[q.id].lines]
  OBVIOUS
<1>2. q.pc = "erase" /\ q \in SavingRow /\ KnowsItsRow(q) /\ UNCHANGED <<planning, written>>
  BY <1>1 DEF Erase, PlanInv, PlanTypeOK
<1>3. q.id \in PlanIds /\ planning[q.id] \in PlanRow /\ others \in SUBSET PlanIds
  <2>1. q.id \in PlanIds
    BY <1>2 DEF KnowsItsRow
  <2>2. Others(q.user, q.id, q.from, q.to) \subseteq PlanIds
    BY DEF Others
  <2>. QED BY <1>1, <2>1, <2>2 DEF PlanInv, PlanTypeOK
<1>4. q1 \in SavingRow
  <2>1. PICK old : old = planning[q.id].lines
    OBVIOUS
  <2>2. old \in SUBSET PlanLine
    BY <1>3, <2>1 DEF PlanRow
  <2>3. q1 = [q EXCEPT !.pc = "insert", !.doomed = others, !.old = old]
    BY <1>1, <2>1
  <2>4. q \in SavingRow /\ others \in SUBSET PlanIds
    BY <1>2, <1>3
  <2>. QED BY <2>2, <2>3, <2>4 DEF SavingRow
<1>5. /\ q1.pc = "insert" /\ q1.op = q.op /\ q1.user = q.user /\ q1.id = q.id
      /\ q1.from = q.from /\ q1.to = q.to /\ q1.doomed = others
  BY <1>1, <1>2 DEF SavingRow
<1>6. saving' = [saving EXCEPT ![r] = q1]
  BY <1>1 DEF Erase, PlanInv, PlanTypeOK
<1>7. \A g \in Saves : saving'[g] = IF g = r THEN q1 ELSE saving[g]
  BY <1>6 DEF PlanInv, PlanTypeOK
<1>8. PlanTypeOK'
  BY <1>2, <1>4, <1>6 DEF PlanInv, PlanTypeOK, orgVars
<1>9. LeavesSound' /\ Fresh' /\ FreeInv'
  BY <1>2, LeavesStand DEF PlanInv, Fresh, FreeInv, Live, leaveVars
<1>10. \A g \in Saves : KnowsItsRow(saving[g])'
  BY <1>2, <1>5, <1>7 DEF PlanInv, KnowsItsRow
<1>11. \A o \in PlanIds : q.op = "period" /\ Rivals(q.id, o) => o \in others
  BY <1>1, <1>2, <1>3 DEF KnowsItsRow, Rivals, Others, Overlap
<1>12. \A p, o : Rivals(p, o)' <=> Rivals(p, o)
  BY <1>2 DEF Rivals, Live
<1>13. \A g \in Saves : Settles(g)' => (g = r /\ q.op = "period") \/ (g # r /\ Settles(g))
  BY <1>5, <1>7 DEF Settles
<1>14. \A g \in Saves : Settles(g)' => saving'[g].id \in PlanIds
  BY <1>10 DEF Settles, KnowsItsRow
<1>15. \A p, o \in PlanIds :
         Rivals(p, o)' => ~(written'[p].by = "period" /\ written'[o].by = "period")
  BY <1>2, <1>12 DEF PlanInv, PeriodsInv
<1>16. \A g \in Saves, o \in PlanIds :
         Settles(g)' /\ Rivals(saving[g].id, o)' /\ written'[o].by = "period" =>
           o \in saving'[g].doomed
  BY <1>2, <1>5, <1>7, <1>11, <1>12, <1>13 DEF PlanInv, PeriodsInv
<1>17. ASSUME NEW g \in Saves, NEW h \in Saves, Settles(g)', Settles(h)',
              Rivals(saving[g].id, saving[h].id)'
       PROVE  saving'[h].id \in saving'[g].doomed \/ saving'[g].id \in saving'[h].doomed
  <2>1. Rivals(saving'[g].id, saving'[h].id) /\ Rivals(saving'[h].id, saving'[g].id)
    BY <1>12, <1>17, RivalsAreMutual
  <2>2. g # h
    BY <2>1 DEF Rivals
  <2>3. CASE g = r
    BY <1>5, <1>7, <1>11, <1>13, <1>14, <1>17, <2>1, <2>3
  <2>4. CASE h = r
    BY <1>5, <1>7, <1>11, <1>13, <1>14, <1>17, <2>1, <2>4
  <2>5. CASE g # r /\ h # r
    BY <1>7, <1>13, <1>17, <2>1, <2>5 DEF PlanInv, PeriodsInv
  <2>. QED BY <2>3, <2>4, <2>5
<1>18. PeriodsInv'
  BY <1>15, <1>16, <1>17 DEF PeriodsInv
<1>. QED BY <1>8, <1>9, <1>10, <1>18 DEF PlanInv

\* A line with its hours set to zero on the days of Z.
ZeroOn(ln, Z) ==
  [ln EXCEPT !.hours = [d \in DOMAIN ln.hours |-> IF d \in Z THEN 0 ELSE ln.hours[d]]]

LEMMA Zeroed ==
  ASSUME NEW ln \in PlanLine, NEW Z
  PROVE  /\ ZeroOn(ln, Z) \in PlanLine
         /\ ZeroOn(ln, Z).user = ln.user /\ ZeroOn(ln, Z).site = ln.site
         /\ DOMAIN ZeroOn(ln, Z).hours = DOMAIN ln.hours
         /\ \A d \in DOMAIN ln.hours :
              ZeroOn(ln, Z).hours[d] = IF d \in Z THEN 0 ELSE ln.hours[d]
<1>1. PICK S \in SUBSET Nat : ln.hours \in [S -> Hours]
  BY DEF PlanLine
<1>2. PICK h : h = [d \in DOMAIN ln.hours |-> IF d \in Z THEN 0 ELSE ln.hours[d]]
  OBVIOUS
<1>3. h \in [S -> Hours]
  BY <1>1, <1>2, PlanningAssumption
<1>4. h \in UNION {[T -> Hours] : T \in SUBSET Nat}
  BY <1>1, <1>3
<1>5. ZeroOn(ln, Z) = [ln EXCEPT !.hours = h]
  BY <1>2 DEF ZeroOn
<1>6. /\ ZeroOn(ln, Z) \in PlanLine /\ ZeroOn(ln, Z).user = ln.user
      /\ ZeroOn(ln, Z).site = ln.site /\ ZeroOn(ln, Z).hours = h
  BY <1>4, <1>5 DEF PlanLine
<1>. QED BY <1>2, <1>6

\* A line of a period, without hours on the days of these leaves.
Spares(ln, from, to, leaves) ==
  /\ ln \in PlanLine /\ DOMAIN ln.hours = from..to
  /\ \A d \in from..to : OnLeave(ln.user, d, leaves) => ln.hours[d] = 0

\* The lines that are sent, but for the days of leave that are known.
LEMMA SparedLines ==
  ASSUME PlanInv, NEW u, NEW from \in Nat, NEW to \in Nat, NEW C \in Contents(u, from, to),
         NEW leaves, NEW new \in Spared(C, leaves)
  PROVE  Spares(new, from, to, leaves)
<1>1. C \subseteq LinesOf(u, from, to)
  BY DEF Contents, kSubset
<1>2. UNION {assigned[s] : s \in ManagedSites(u)} \subseteq Users /\ ManagedSites(u) \subseteq Sites
  BY DEF ManagedSites, PlanInv, PlanTypeOK
<1>3. from..to \in SUBSET Nat
  OBVIOUS
<1>4. ASSUME NEW ln \in C
      PROVE  ln \in PlanLine /\ DOMAIN ln.hours = from..to
  <2>1. ln \in LinesOf(u, from, to)
    BY <1>1
  <2>2. ln.hours \in [from..to -> Hours]
    BY <2>1 DEF LinesOf
  <2>3. ln.hours \in UNION {[S -> Hours] : S \in SUBSET Nat}
    BY <1>3, <2>2
  <2>. QED BY <1>2, <2>1, <2>2, <2>3 DEF LinesOf, PlanLine
<1>5. PICK ln \in C :
        new = [ln EXCEPT !.hours = [d \in DOMAIN ln.hours |->
                 IF OnLeave(ln.user, d, leaves) THEN 0 ELSE ln.hours[d]]]
  BY DEF Spared
<1>6. PICK Z : Z = {d \in from..to : OnLeave(ln.user, d, leaves)}
  OBVIOUS
<1>7. ln \in PlanLine /\ DOMAIN ln.hours = from..to
  BY <1>4
<1>8. new = ZeroOn(ln, Z)
  <2>1. \A d \in DOMAIN ln.hours : OnLeave(ln.user, d, leaves) <=> d \in Z
    BY <1>6, <1>7
  <2>. QED BY <1>5, <2>1 DEF ZeroOn
<1>9. /\ new \in PlanLine /\ new.user = ln.user
      /\ DOMAIN new.hours = DOMAIN ln.hours
      /\ \A d \in DOMAIN ln.hours : d \in Z => new.hours[d] = 0
  BY <1>7, <1>8, Zeroed
<1>. QED BY <1>6, <1>7, <1>9 DEF Spares

\* With an up-to-date list they are free of leave.
LEMMA SparedAreFree ==
  ASSUME PlanInv, NEW u, NEW from \in Nat, NEW to \in Nat, NEW C \in Contents(u, from, to),
         NEW leaves, ApprovedLeaves(from, to) \subseteq leaves
  PROVE  Free(Spared(C, leaves), leave)
<1>. SUFFICES ASSUME NEW ln \in Spared(C, leaves), NEW d \in Days, NEW i \in LeaveIds,
                     leave[i].status = "APPROVED", leave[i].owner = ln.user,
                     d \in leave[i].from..leave[i].to, d \in DOMAIN ln.hours
              PROVE  ln.hours[d] = 0
  BY DEF Free
<1>1. /\ d \in from..to
      /\ OnLeave(ln.user, d, leaves) => ln.hours[d] = 0
  <2>1. Spares(ln, from, to, leaves)
    BY SparedLines
  <2>. QED BY <2>1 DEF Spares
<1>2. leave[i].from \in Nat /\ leave[i].to \in Nat
  BY DEF PlanInv, LeavesSound, LeaveRow
<1>3. Overlap(leave[i], [from |-> from, to |-> to])
  <2>1. leave[i].from <= d /\ d <= leave[i].to /\ from <= d /\ d <= to /\ d \in Nat
    BY <1>1, <1>2
  <2>. QED BY <1>2, <2>1 DEF Overlap
<1>4. i \in leaves
  BY <1>3 DEF ApprovedLeaves
<1>5. OnLeave(ln.user, d, leaves)
  BY <1>4 DEF OnLeave
<1>. QED BY <1>1, <1>5

\* The lines it found are replaced, and its rivals go.
LEMMA InsertKeeps ==
  ASSUME PlanInv, UNCHANGED <<orgVars, leaveVars>>, NEW r \in Saves, Insert(r)
  PROVE  PlanInv'
<1>1. PICK q, known, upToDate :
        /\ q = saving[r]
        /\ known = {i \in q.leaves : leave[i].status = "APPROVED"}
        /\ upToDate = ApprovedLeaves(q.from, q.to)
  OBVIOUS
<1>2. /\ q.pc = "insert" /\ q \in SavingRow /\ KnowsItsRow(q)
      /\ saving' = [saving EXCEPT ![r] = Resting]
  BY <1>1 DEF Insert, Rest, PlanInv, PlanTypeOK
<1>3. /\ q.id \in PlanIds /\ q.op \in {"update", "period"}
      /\ q.from \in Nat /\ q.to \in Nat /\ q.doomed \subseteq PlanIds
  BY <1>2 DEF KnowsItsRow, SavingRow
<1>4. PICK C \in Contents(saving[r].user, saving[r].from, saving[r].to) :
        /\ planning' = [p \in PlanIds |->
             IF p \in saving[r].doomed
             THEN [planning[p] EXCEPT !.status = "GONE", !.lines = {}]
             ELSE IF p = saving[r].id /\ Live(p)
             THEN [planning[p] EXCEPT !.lines =
                     (@ \ saving[r].old) \cup Spared(C, saving[r].leaves)]
             ELSE planning[p]]
        /\ written' = [p \in PlanIds |->
             IF p \in saving[r].doomed THEN Unwritten
             ELSE IF p = saving[r].id /\ Live(p)
             THEN [by |-> saving[r].op,
                   stale |-> \/ {i \in saving[r].leaves : leave[i].status = "APPROVED"}
                                  # ApprovedLeaves(saving[r].from, saving[r].to)
                             \/ /\ planning[p].lines \ saving[r].old # {}
                                /\ written[p].stale]
             ELSE written[p]]
  BY DEF Insert
<1>5. PICK new : new = Spared(C, q.leaves)
  OBVIOUS
<1>6. new \subseteq PlanLine
  BY <1>1, <1>3, <1>4, <1>5, SparedLines DEF Spares
<1>7. ASSUME NEW p \in PlanIds
      PROVE  /\ planning[p] \in PlanRow /\ planning'[p] \in PlanRow
             /\ planning'[p].creator = planning[p].creator
             /\ planning'[p].from = planning[p].from /\ planning'[p].to = planning[p].to
             /\ Live(p)' <=> (Live(p) /\ p \notin q.doomed)
             /\ planning'[p].status = "NONE" =>
                  planning'[p] = planning[p] /\ written'[p] = written[p]
             /\ planning[p].status # "NONE" => planning'[p].status # "NONE"
             /\ Live(p)' => planning'[p].lines = IF p = q.id
                                                 THEN (planning[p].lines \ q.old) \cup new
                                                 ELSE planning[p].lines
  <2>1. planning[p] \in PlanRow
    BY DEF PlanInv, PlanTypeOK
  <2>2. CASE p \in q.doomed
    <3>1. planning'[p] = [planning[p] EXCEPT !.status = "GONE", !.lines = {}]
      BY <1>1, <1>4, <2>2
    <3>2. /\ planning'[p] \in PlanRow /\ planning'[p].status = "GONE"
          /\ planning'[p].creator = planning[p].creator
          /\ planning'[p].from = planning[p].from /\ planning'[p].to = planning[p].to
      BY <2>1, <3>1 DEF PlanRow
    <3>. QED BY <2>1, <2>2, <3>2 DEF Live
  <2>3. CASE p \notin q.doomed /\ p = q.id /\ Live(p)
    <3>1. planning'[p] = [planning[p] EXCEPT !.lines = (planning[p].lines \ q.old) \cup new]
      BY <1>1, <1>4, <1>5, <2>3
    <3>2. (planning[p].lines \ q.old) \cup new \in SUBSET PlanLine
      BY <1>6, <2>1 DEF PlanRow
    <3>3. /\ planning'[p] \in PlanRow /\ planning'[p].status = planning[p].status
          /\ planning'[p].creator = planning[p].creator
          /\ planning'[p].from = planning[p].from /\ planning'[p].to = planning[p].to
          /\ planning'[p].lines = (planning[p].lines \ q.old) \cup new
      BY <2>1, <3>1, <3>2 DEF PlanRow
    <3>. QED BY <2>1, <2>3, <3>3 DEF Live
  <2>4. CASE p \notin q.doomed /\ ~(p = q.id /\ Live(p))
    <3>1. planning'[p] = planning[p] /\ written'[p] = written[p]
      BY <1>1, <1>4, <2>4
    <3>. QED BY <2>1, <2>4, <3>1 DEF Live
  <2>. QED BY <2>2, <2>3, <2>4
<1>8. ASSUME NEW p \in PlanIds
      PROVE  /\ written'[p] \in WrittenRow
             /\ Live(p)' /\ p # q.id => written'[p] = written[p]
             /\ Live(p)' /\ p = q.id =>
                  /\ written'[p].by = q.op
                  /\ ~written'[p].stale => /\ known = upToDate
                                           /\ (planning[p].lines \subseteq q.old \/ ~written[p].stale)
  <2>1. written[p] \in WrittenRow /\ Unwritten \in WrittenRow
    BY DEF PlanInv, PlanTypeOK, Unwritten, WrittenRow
  <2>2. CASE p \in q.doomed
    BY <1>1, <1>4, <1>7, <2>1, <2>2
  <2>3. CASE p \notin q.doomed /\ p = q.id /\ Live(p)
    <3>1. written'[p] = [by |-> q.op,
                         stale |-> \/ known # upToDate
                                   \/ planning[p].lines \ q.old # {} /\ written[p].stale]
      BY <1>1, <1>4, <2>3
    <3>2. PICK st \in BOOLEAN :
            st <=> known # upToDate \/ (planning[p].lines \ q.old # {} /\ written[p].stale)
      OBVIOUS
    <3>3. written'[p] = [by |-> q.op, stale |-> st]
      BY <3>1, <3>2
    <3>4. written'[p] \in WrittenRow /\ written'[p].by = q.op /\ written'[p].stale = st
      BY <1>3, <3>3 DEF WrittenRow
    <3>5. ~st => known = upToDate /\ (planning[p].lines \subseteq q.old \/ ~written[p].stale)
      BY <3>2
    <3>. QED BY <2>3, <3>4, <3>5
  <2>4. CASE p \notin q.doomed /\ ~(p = q.id /\ Live(p))
    BY <1>1, <1>4, <1>7, <2>1, <2>4
  <2>. QED BY <2>2, <2>3, <2>4
<1>9. LeavesSound' /\ leave' = leave
  BY LeavesStand DEF PlanInv, leaveVars
<1>10. PlanTypeOK'
  <2>1. planning' = [p \in PlanIds |-> planning'[p]] /\ written' = [p \in PlanIds |-> written'[p]]
    BY <1>4
  <2>2. planning' \in [PlanIds -> PlanRow]
    BY <1>7, <2>1
  <2>3. written' \in [PlanIds -> WrittenRow]
    BY <1>8, <2>1
  <2>. QED BY <1>2, <2>2, <2>3, RestingType DEF PlanInv, PlanTypeOK, orgVars
<1>11. \A g \in Saves : saving'[g] = IF g = r THEN Resting ELSE saving[g]
  BY <1>2 DEF PlanInv, PlanTypeOK
<1>12. ASSUME NEW g \in Saves PROVE KnowsItsRow(saving[g])'
  <2>1. CASE g = r
    BY <1>11, <2>1, RestingType DEF KnowsItsRow
  <2>2. CASE g # r
    <3>1. saving'[g] = saving[g] /\ KnowsItsRow(saving[g])
      BY <1>11, <2>2 DEF PlanInv
    <3>2. \A p \in PlanIds : /\ planning'[p].creator = planning[p].creator
                             /\ planning'[p].from = planning[p].from
                             /\ planning'[p].to = planning[p].to
                             /\ planning[p].status # "NONE" => planning'[p].status # "NONE"
      BY <1>7
    <3>. QED BY <3>1, <3>2 DEF KnowsItsRow
  <2>. QED BY <2>1, <2>2
<1>13. Fresh'
  BY <1>7 DEF PlanInv, Fresh
<1>14. ASSUME NEW p \in PlanIds, NEW o \in PlanIds, Rivals(p, o)'
       PROVE  /\ Rivals(p, o) /\ Live(p)' /\ Live(o)'
              /\ p \notin q.doomed /\ o \notin q.doomed
  <2>1. p # o /\ Live(p)' /\ Live(o)'
    BY <1>14 DEF Rivals
  <2>2. /\ planning'[p].creator = planning'[o].creator
        /\ Overlap(planning'[p], planning'[o])
    BY <1>14 DEF Rivals, Overlap
  <2>3. Overlap(planning[p], planning[o])
    BY <1>7, <2>2 DEF Overlap
  <2>. QED BY <1>7, <2>1, <2>2, <2>3 DEF Rivals
<1>15. ASSUME NEW p \in PlanIds, Live(p)', written'[p].by = "period"
       PROVE  \/ p = q.id /\ Settles(r)
              \/ written[p].by = "period"
  BY <1>1, <1>2, <1>8, <1>15 DEF Settles
<1>16. ASSUME NEW g \in Saves, Settles(g)'
       PROVE  Settles(g) /\ saving'[g] = saving[g] /\ saving[g].id \in PlanIds /\ g # r
  BY <1>11, <1>16, RestingType DEF Settles, PlanInv, KnowsItsRow
<1>17. PeriodsInv
  BY DEF PlanInv
<1>18. ASSUME NEW p \in PlanIds, NEW o \in PlanIds, Rivals(p, o)',
              written'[p].by = "period", written'[o].by = "period"
       PROVE  FALSE
  <2>1. Rivals(p, o) /\ p # o /\ p \notin q.doomed /\ o \notin q.doomed
    BY <1>14, <1>18 DEF Rivals
  <2>2. Rivals(o, p)
    BY <2>1, RivalsAreMutual
  <2>3. /\ (p = q.id /\ Settles(r)) \/ written[p].by = "period"
        /\ (o = q.id /\ Settles(r)) \/ written[o].by = "period"
    BY <1>14, <1>15, <1>18
  <2>. QED BY <1>1, <1>17, <2>1, <2>2, <2>3 DEF PeriodsInv
<1>19. ASSUME NEW g \in Saves, NEW o \in PlanIds, Settles(g)', Rivals(saving[g].id, o)',
              written'[o].by = "period"
       PROVE  o \in saving'[g].doomed
  <2>1. Settles(g) /\ saving'[g] = saving[g] /\ saving[g].id \in PlanIds /\ g # r
    BY <1>16, <1>19
  <2>2. PICK p \in PlanIds : p = saving[g].id
    BY <2>1
  <2>3. Rivals(p, o)'
    BY <1>19, <2>1, <2>2 DEF Rivals, Overlap
  <2>4. Rivals(p, o) /\ Live(o)' /\ p \notin q.doomed
    BY <1>14, <2>3
  <2>5. (o = q.id /\ Settles(r)) \/ written[o].by = "period"
    BY <1>15, <1>19, <2>4
  <2>. QED BY <1>1, <1>17, <2>1, <2>2, <2>4, <2>5 DEF PeriodsInv
<1>20. ASSUME NEW g \in Saves, NEW h \in Saves, Settles(g)', Settles(h)',
              Rivals(saving[g].id, saving[h].id)'
       PROVE  saving'[h].id \in saving'[g].doomed \/ saving'[g].id \in saving'[h].doomed
  <2>1. /\ Settles(g) /\ saving'[g] = saving[g] /\ saving[g].id \in PlanIds
        /\ Settles(h) /\ saving'[h] = saving[h] /\ saving[h].id \in PlanIds
    BY <1>16, <1>20
  <2>2. PICK p \in PlanIds, o \in PlanIds : p = saving[g].id /\ o = saving[h].id
    BY <2>1
  <2>3. Rivals(p, o)'
    BY <1>20, <2>1, <2>2 DEF Rivals, Overlap
  <2>4. Rivals(p, o)
    BY <1>14, <2>3
  <2>. QED BY <1>17, <2>1, <2>2, <2>4 DEF PeriodsInv
<1>21. PeriodsInv'
  BY <1>18, <1>19, <1>20 DEF PeriodsInv
<1>22. FreeInv'
  <2>. SUFFICES ASSUME NEW p \in PlanIds, Live(p)', ~written'[p].stale
                PROVE  Free(planning'[p].lines, leave)
    BY <1>9 DEF FreeInv, Free
  <2>1. CASE p # q.id
    BY <1>7, <1>8, <2>1 DEF PlanInv, FreeInv
  <2>2. CASE p = q.id
    <3>1. known = upToDate /\ (planning[p].lines \subseteq q.old \/ ~written[p].stale)
      BY <1>8, <2>2
    <3>2. ApprovedLeaves(q.from, q.to) \subseteq q.leaves
      BY <1>1, <3>1
    <3>3. Free(new, leave)
      BY <1>1, <1>3, <1>4, <1>5, <3>2, SparedAreFree
    <3>4. Free(planning[p].lines \ q.old, leave)
      <4>1. CASE planning[p].lines \subseteq q.old
        BY <4>1 DEF Free
      <4>2. CASE ~written[p].stale
        BY <1>7, <4>2 DEF PlanInv, FreeInv, Free
      <4>. QED BY <3>1, <4>1, <4>2
    <3>5. planning'[p].lines = (planning[p].lines \ q.old) \cup new
      BY <1>7, <2>2
    <3>. QED BY <3>3, <3>4, <3>5 DEF Free
  <2>. QED BY <2>1, <2>2
<1>. QED BY <1>9, <1>10, <1>12, <1>13, <1>21, <1>22 DEF PlanInv

---------------------------------------------------------------------------
(* The approval of a leave.                                                *)

\* The line new is ln with fewer hours.
Lightens(new, ln) ==
  /\ new \in PlanLine /\ new.user = ln.user /\ DOMAIN new.hours = DOMAIN ln.hours
  /\ \A d \in DOMAIN ln.hours : ln.hours[d] = 0 => new.hours[d] = 0

Empties(new, row) ==
  new.user = row.owner =>
    \A d \in DOMAIN new.hours : d \in row.from..row.to => new.hours[d] = 0

LEMMA FreedLine ==
  ASSUME NEW ln \in PlanLine, NEW row
  PROVE  Lightens(WithoutHours(ln, row), ln) /\ Empties(WithoutHours(ln, row), row)
<1>1. CASE ln.user # row.owner
  BY <1>1 DEF WithoutHours, Lightens, Empties
<1>2. CASE ln.user = row.owner
  <2>1. PICK new, Z : new = WithoutHours(ln, row) /\ Z = row.from..row.to
    OBVIOUS
  <2>2. new = ZeroOn(ln, Z)
    BY <1>2, <2>1 DEF WithoutHours, ZeroOn
  <2>3. /\ new \in PlanLine /\ new.user = ln.user /\ DOMAIN new.hours = DOMAIN ln.hours
        /\ \A d \in DOMAIN ln.hours : new.hours[d] = IF d \in Z THEN 0 ELSE ln.hours[d]
    BY <2>2, Zeroed
  <2>. QED BY <2>1, <2>3 DEF Lightens, Empties
<1>. QED BY <1>1, <1>2

LEMMA FreedPlanning ==
  ASSUME PlanInv, NEW row, planning' = Freed(planning, row), NEW p \in PlanIds
  PROVE  /\ planning'[p] \in PlanRow
         /\ planning'[p].status = planning[p].status
         /\ planning'[p].creator = planning[p].creator
         /\ planning'[p].from = planning[p].from /\ planning'[p].to = planning[p].to
         /\ planning[p].lines = {} => planning'[p].lines = {}
         /\ \A new \in planning'[p].lines :
              /\ Empties(new, row)
              /\ \E ln \in planning[p].lines : Lightens(new, ln)
<1>1. PICK old : old = planning[p]
  OBVIOUS
<1>2. old \in PlanRow
  BY <1>1 DEF PlanInv, PlanTypeOK
<1>3. PICK lines : lines = {WithoutHours(ln, row) : ln \in old.lines}
  OBVIOUS
<1>4. planning'[p] = [old EXCEPT !.lines = lines]
  BY <1>1, <1>3 DEF Freed
<1>5. \A ln \in old.lines : ln \in PlanLine
  BY <1>2 DEF PlanRow
<1>6. \A new \in lines : \E ln \in old.lines : new = WithoutHours(ln, row)
  BY <1>3
<1>7. \A new \in lines : Empties(new, row) /\ \E ln \in old.lines : Lightens(new, ln)
  BY <1>5, <1>6, FreedLine
<1>8. lines \in SUBSET PlanLine
  BY <1>7 DEF Lightens
<1>9. /\ planning'[p] \in PlanRow /\ planning'[p].status = old.status
      /\ planning'[p].creator = old.creator
      /\ planning'[p].from = old.from /\ planning'[p].to = old.to /\ planning'[p].lines = lines
  BY <1>2, <1>4, <1>8 DEF PlanRow
<1>10. old.lines = {} => lines = {}
  BY <1>6
<1>. QED BY <1>1, <1>7, <1>9, <1>10

\* An approval erases the hours of its days; the others take none back.
LEMMA LeaveKeeps ==
  ASSUME PlanInv, LeaveNext, UNCHANGED <<orgVars, saving, written>>
  PROVE  PlanInv'
<1>1. LeavesSound' /\ LeaveEffect
  BY LeaveServiceKeeps DEF PlanInv
<1>2. planning' = planning \/ \E row : planning' = Freed(planning, row)
  BY <1>1 DEF LeaveEffect
<1>3. ASSUME NEW p \in PlanIds
      PROVE  /\ planning'[p] \in PlanRow
             /\ planning'[p].status = planning[p].status
             /\ planning'[p].creator = planning[p].creator
             /\ planning'[p].from = planning[p].from /\ planning'[p].to = planning[p].to
             /\ planning[p].lines = {} => planning'[p].lines = {}
             /\ \A new \in planning'[p].lines : \E ln \in planning[p].lines : Lightens(new, ln)
  <2>1. CASE planning' = planning
    <3>1. planning[p] \in PlanRow
      BY DEF PlanInv, PlanTypeOK
    <3>2. \A ln \in planning[p].lines : Lightens(ln, ln)
      BY <3>1 DEF PlanRow, Lightens
    <3>. QED BY <2>1, <3>1, <3>2
  <2>2. ASSUME NEW row, planning' = Freed(planning, row)
        PROVE  /\ planning'[p] \in PlanRow
               /\ planning'[p].status = planning[p].status
               /\ planning'[p].creator = planning[p].creator
               /\ planning'[p].from = planning[p].from /\ planning'[p].to = planning[p].to
               /\ planning[p].lines = {} => planning'[p].lines = {}
               /\ \A new \in planning'[p].lines :
                    \E ln \in planning[p].lines : Lightens(new, ln)
    BY <2>2, FreedPlanning
  <2>. QED BY <1>2, <2>1, <2>2
<1>4. planning' \in [PlanIds -> PlanRow]
  <2>1. planning' = [p \in PlanIds |-> planning'[p]]
    BY <1>2 DEF Freed, PlanInv, PlanTypeOK
  <2>. QED BY <1>3, <2>1
<1>5. PlanTypeOK'
  BY <1>4 DEF PlanInv, PlanTypeOK, orgVars
<1>6. saving' = saving /\ written' = written
  OBVIOUS
<1>7. ASSUME NEW r \in Saves
      PROVE  KnowsItsRow(saving[r])'
  <2>1. KnowsItsRow(saving[r])
    BY DEF PlanInv
  <2>2. \A p \in PlanIds : /\ planning'[p].status = planning[p].status
                           /\ planning'[p].creator = planning[p].creator
                           /\ planning'[p].from = planning[p].from
                           /\ planning'[p].to = planning[p].to
    BY <1>3
  <2>. QED BY <1>6, <2>1, <2>2 DEF KnowsItsRow
<1>8. Fresh'
  BY <1>3, <1>6 DEF PlanInv, Fresh
<1>9. \A p, o \in PlanIds : Rivals(p, o)' => Rivals(p, o)
  BY <1>3 DEF Rivals, Overlap, Live
<1>10. \A r \in Saves : Settles(r)' => Settles(r) /\ saving[r].id \in PlanIds
  BY <1>6 DEF Settles, PlanInv, KnowsItsRow
<1>11. PeriodsInv'
  BY <1>6, <1>9, <1>10 DEF PlanInv, PeriodsInv
<1>12. FreeInv'
  <2>. SUFFICES ASSUME NEW p \in PlanIds, Live(p)', ~written'[p].stale,
                       NEW new \in planning'[p].lines, NEW d \in Days, NEW i \in LeaveIds,
                       leave'[i].status = "APPROVED", leave'[i].owner = new.user,
                       d \in leave'[i].from..leave'[i].to, d \in DOMAIN new.hours
                PROVE  new.hours[d] = 0
    BY DEF FreeInv, Free
  <2>1. PICK ln \in planning[p].lines : Lightens(new, ln)
    BY <1>3
  <2>2. SameDays(leave[i], leave'[i])
    BY <1>1 DEF LeaveEffect
  <2>3. CASE leave[i].status = "APPROVED"
    <3>1. Live(p) /\ ~written[p].stale
      BY <1>3, <1>6 DEF Live
    <3>2. Free(planning[p].lines, leave)
      BY <3>1 DEF PlanInv, FreeInv
    <3>3. ln.user = new.user /\ d \in DOMAIN ln.hours
      BY <2>1 DEF Lightens
    <3>4. ln.hours[d] = 0
      BY <2>2, <2>3, <3>2, <3>3 DEF Free, SameDays
    <3>. QED BY <2>1, <3>3, <3>4 DEF Lightens
  <2>4. CASE leave[i].status # "APPROVED"
    <3>1. PICK row : SameDays(row, leave[i]) /\ planning' = Freed(planning, row)
      BY <1>1, <2>4 DEF LeaveEffect
    <3>2. Empties(new, row)
      BY <3>1, FreedPlanning
    <3>. QED BY <2>2, <3>1, <3>2 DEF Empties, SameDays
  <2>. QED BY <2>3, <2>4
<1>. QED BY <1>1, <1>5, <1>7, <1>8, <1>11, <1>12 DEF PlanInv

---------------------------------------------------------------------------
(* The theorems.                                                           *)

LEMMA PlanInit ==
  ASSUME Init
  PROVE  PlanInv
<1>1. /\ assigned = InitialTenant.assigned /\ planning = [p \in PlanIds |-> NoPlanning]
      /\ saving = [r \in Saves |-> Resting] /\ written = [p \in PlanIds |-> Unwritten]
  BY DEF Init, OrgInit, LeaveInit, PlanningInit
<1>2. LeavesSound
  BY LeavesInit DEF Init
<1>3. assigned \in [Sites -> SUBSET Users]
  BY <1>1, OrganisationAssumption
<1>4. /\ NoPlanning \in PlanRow /\ NoPlanning.status = "NONE" /\ NoPlanning.lines = {}
      /\ Unwritten \in WrittenRow
  BY DEF NoPlanning, PlanRow, Unwritten, WrittenRow
<1>5. PlanTypeOK
  BY <1>1, <1>3, <1>4, RestingType DEF PlanTypeOK
<1>6. \A r \in Saves : KnowsItsRow(saving[r]) /\ ~Settles(r)
  BY <1>1, RestingType DEF Settles
<1>7. \A p \in PlanIds : ~Live(p)
  BY <1>1, <1>4 DEF Live
<1>. QED
  BY <1>1, <1>2, <1>4, <1>5, <1>6, <1>7 DEF PlanInv, Fresh, PeriodsInv, Rivals, FreeInv

LEMMA PlanningServiceKeeps ==
  ASSUME PlanInv, PlanningNext, UNCHANGED <<orgVars, leaveVars>>
  PROVE  PlanInv'
<1>1. active \subseteq Users
  BY DEF active
<1>2. ASSUME NEW u \in active, NEW p \in PlanIds, NEW d \in Periods,
             CreatePlanning(u, p, d[1], d[2])
      PROVE  PlanInv'
  BY <1>1, <1>2, CreationKeeps
<1>3. ASSUME NEW r \in Saves, NEW u \in active, NEW p \in PlanIds,
             \/ BeginUpdate(r, u, p) \/ BeginPublish(r, u, p)
             \/ BeginReopen(r, u, p) \/ BeginRemove(r, u, p)
      PROVE  PlanInv'
  BY <1>1, <1>3, SheetRequestsKeep
<1>4. ASSUME NEW r \in Saves, NEW u \in active, NEW d \in Periods, OpenPage(r, u, d[1], d[2])
      PROVE  PlanInv'
  BY <1>1, <1>4, PageOpens
<1>5. ASSUME NEW r \in Saves, ReadLeaves(r) \/ WriteStatus(r)
      PROVE  PlanInv'
  BY <1>5, LeavesRead, StatusKeeps
<1>6. ASSUME NEW r \in Saves, NEW p \in PlanIds, Upsert(r, p)
      PROVE  PlanInv'
  BY <1>6, UpsertKeeps
<1>7. ASSUME NEW r \in Saves, Erase(r) \/ Insert(r) \/ Abandon(r)
      PROVE  PlanInv'
  BY <1>7, EraseKeeps, InsertKeeps, AbandonKeeps
<1>. QED BY <1>2, <1>3, <1>4, <1>5, <1>6, <1>7 DEF PlanningNext

LEMMA PlanStep ==
  ASSUME PlanInv, [Next]_vars
  PROVE  PlanInv'
<1>1. CASE LeaveNext /\ UNCHANGED <<orgVars, saving, written>>
  BY <1>1, LeaveKeeps
<1>2. CASE PlanningNext /\ UNCHANGED <<orgVars, leaveVars>>
  BY <1>2, PlanningServiceKeeps
<1>3. CASE UNCHANGED vars
  <2>1. /\ UNCHANGED <<orgVars, leaveVars>>
        /\ planning' = planning /\ saving' = saving /\ written' = written
    BY <1>3 DEF vars, planVars
  <2>2. LeavesSound'
    BY <2>1, LeavesStand DEF PlanInv
  <2>. QED
    BY <2>1, <2>2 DEF PlanInv, PlanTypeOK, KnowsItsRow, Fresh, PeriodsInv, Rivals, Live, Overlap,
                     Settles, FreeInv, orgVars, leaveVars
<1>. QED BY <1>1, <1>2, <1>3 DEF Next

LEMMA PlanAlways == Spec => []PlanInv
<1>1. Init => PlanInv
  BY PlanInit
<1>2. PlanInv /\ [Next]_vars => PlanInv'
  BY PlanStep
<1>. QED BY <1>1, <1>2, PTL DEF Spec

\* No day is planned by two periods of one author, even when he saves two at once, and
\* whichever of his requests die: of two rivals, the transaction of one erases the other
\* (saveViewerPeriod of planning.service.ts).
THEOREM PeriodsNeverOverlap == Spec => []PeriodsDoNotOverlap
<1>1. PlanInv => PeriodsDoNotOverlap
  BY DEF PlanInv, PeriodsInv, Rivals, PeriodsDoNotOverlap
<1>. QED BY <1>1, PlanAlways, PTL

\* Nobody is planned on a day of approved leave, unless the planning was written from a
\* list of leaves read before an approval: for any number of leaves and decisions in
\* flight, even those that write over one another.
THEOREM DaysOfLeaveStayFree == Spec => []LeaveDaysAreFree
<1>1. ASSUME PlanInv PROVE LeaveDaysAreFree
  <2>. SUFFICES ASSUME NEW p \in PlanIds, Live(p), ~written[p].stale,
                       NEW ln \in planning[p].lines, NEW d \in Days,
                       OnLeave(ln.user, d, ApprovedLeaves(1, LastDay)), d \in DOMAIN ln.hours
                PROVE  ln.hours[d] = 0
    BY DEF LeaveDaysAreFree
  <2>1. PICK i \in LeaveIds : /\ leave[i].status = "APPROVED" /\ leave[i].owner = ln.user
                              /\ d \in leave[i].from..leave[i].to
    BY DEF OnLeave, ApprovedLeaves
  <2>2. Free(planning[p].lines, leave)
    BY <1>1 DEF PlanInv, FreeInv
  <2>. QED BY <2>1, <2>2 DEF Free
<1>. QED BY <1>1, PlanAlways, PTL

=============================================================================
