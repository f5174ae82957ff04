-------------------------- MODULE AttendanceProofs -------------------------
(***************************************************************************)
(* An approved punch is backed by the recorded decisions of those who had  *)
(* to take them, for every tenant and any number of requests in flight:    *)
(* nothing is assumed of their order, and any of them may die.             *)
(*                                                                         *)
(* The argument follows a first-level approval from the request that makes *)
(* it to the table of approval actions.  A punch seen N1_APPROVED has been *)
(* signed: its signer is in that table, or about to be, or his request has *)
(* died.  That stays true whatever is written over the status, so that it  *)
(* still holds when the chief, who saw the status long ago, decides.       *)
(***************************************************************************)
EXTENDS Attendance, TLAPS

PunchRow == [status : Statuses \cup {"NONE"}, owner : Users \cup {NoUser},
             site : Sites \cup {NoSite}, open : BOOLEAN, approvedBy : Users \cup {NoUser}]

HandlerRow == [pc : {"idle", "create", "close", "write", "record"},
               user : Users \cup {NoUser}, owner : Users \cup {NoUser}, id : Nat,
               site : Sites \cup {NoSite}, read : Statuses \cup {"NONE"},
               approver : Users \cup {NoUser}, next : Statuses \cup {"NONE"}]

ActionRow == [id : PunchIds, by : Users, old : Statuses \cup {"NONE"}, new : Statuses]

RowsOK ==
  /\ punch \in [PunchIds -> PunchRow]
  /\ handling \in [Handlers -> HandlerRow]
  /\ action \subseteq ActionRow
  /\ \A h \in Handlers : handling[h].pc \in {"write", "record"} =>
       handling[h].user \in Users /\ handling[h].next \in Statuses
  /\ \A h \in Handlers : handling[h].pc \in {"close", "write", "record"} =>
       handling[h].id \in PunchIds /\ punch[handling[h].id].status # "NONE"
  /\ \A h \in Handlers : handling[h].pc = "create" => handling[h].user \in Users
  /\ \A a \in action : punch[a.id].status # "NONE"
  /\ \A i \in PunchIds : punch[i].status = "NONE" => ~ punch[i].open

\* u decides on punch i at one level only, and at which.
First(u, i) == Level(u, punch[i]) = {"N1"}
Second(u, i) == Level(u, punch[i]) = {"N2"}
Both(u, i) == {"N1", "N2"} \subseteq Level(u, punch[i])

\* The first-level approval of punch i is recorded, or is being recorded, or was
\* lost on the way.
Signed(i) ==
  \/ i \in lost
  \/ \E h \in Handlers : handling[h].pc = "record" /\ handling[h].id = i
                         /\ handling[h].next = "N1_APPROVED"
  \/ \E a \in action : a.id = i /\ a.new = "N1_APPROVED"

MayApprove(u, i) == Both(u, i) \/ (Second(u, i) /\ Signed(i))

\* What holds of a request that decides, from its first read to its record.
DecidersOK ==
  \A h \in Handlers : handling[h].pc \in {"write", "record"} =>
    /\ handling[h].next = "N1_APPROVED" => First(handling[h].user, handling[h].id)
    /\ handling[h].next = "APPROVED" => MayApprove(handling[h].user, handling[h].id)
    /\ handling[h].pc = "write" => handling[h].approver = NoUser

ActionsOK ==
  \A a \in action :
    /\ a.new = "N1_APPROVED" => First(a.by, a.id)
    /\ a.new = "APPROVED" => MayApprove(a.by, a.id)

\* The approver of an approved punch is recorded, or being recorded, or lost.
Accounted(i) ==
  \/ i \in lost
  \/ \E h \in Handlers : /\ handling[h].pc = "record" /\ handling[h].id = i
                         /\ handling[h].next = "APPROVED"
                         /\ handling[h].user = punch[i].approvedBy
  \/ \E a \in action : a.id = i /\ a.new = "APPROVED" /\ a.by = punch[i].approvedBy

PunchesOK ==
  \A i \in PunchIds :
    /\ punch[i].status = "N1_APPROVED" => Signed(i)
    /\ punch[i].status = "APPROVED" => Accounted(i)
    /\ punch[i].status # "APPROVED" => punch[i].approvedBy = NoUser

AttInv == RowsOK /\ DecidersOK /\ ActionsOK /\ PunchesOK

---------------------------------------------------------------------------
(* Levels.                                                                 *)

\* The organisation is fixed, so the level of a user on a punch that keeps its
\* owner and its site is.
LEMMA LevelsAreFixed ==
  ASSUME UNCHANGED orgVars, NEW u, NEW i,
         punch'[i].owner = punch[i].owner, punch'[i].site = punch[i].site
  PROVE  Level(u, punch[i])' = Level(u, punch[i])
BY DEF orgVars, people, Level, ApprovalLevelFor, N1Ids, N2Ids, ApprovalSites,
       DefaultApprovalSites, SiteN1, SiteN2, ManagerOf, ChiefOf, ProjectOf

\* Nobody is asked to sign for himself: a first-level approver without both
\* levels is not the owner.
LEMMA FirstIsNotOwner ==
  ASSUME NEW u, NEW o, NEW s, ApprovalLevelFor(u, o, s) = {"N1"}
  PROVE  u # o
<1>1. u \in N1Ids(o, s)
  <2>1. role[u] \notin {"RESOURCE_MANAGER", "HR"}
    <3>. SUFFICES ASSUME role[u] \in {"RESOURCE_MANAGER", "HR"} PROVE FALSE
      OBVIOUS
    <3>1. "N2" \in ApprovalLevelFor(u, o, s)
      BY DEF ApprovalLevelFor
    <3>. QED BY <3>1
  <2>2. "N1" \in {l \in {"N1", "N2"} : u \in IF l = "N1" THEN N1Ids(o, s) ELSE N2Ids(o, s)}
    BY <2>1 DEF ApprovalLevelFor
  <2>. QED BY <2>2
<1>2. PICK t : u \in SiteN1(t, o)
  BY <1>1 DEF N1Ids
<1>. QED BY <1>2 DEF SiteN1

---------------------------------------------------------------------------
(* The invariant.                                                          *)

LEMMA InvInit == Init => AttInv
<1>. SUFFICES ASSUME Init PROVE AttInv
  OBVIOUS
<1>. USE DEF Init, AttInit
<1>1. NoPunch \in PunchRow /\ Idle \in HandlerRow
  BY DEF NoPunch, Idle, PunchRow, HandlerRow
<1>2. RowsOK
  BY <1>1 DEF RowsOK, Idle, NoPunch
<1>3. DecidersOK /\ ActionsOK
  BY DEF DecidersOK, ActionsOK, Idle
<1>4. PunchesOK
  BY DEF PunchesOK, NoPunch
<1>. QED BY <1>2, <1>3, <1>4 DEF AttInv

\* A step that leaves the punches' owners, sites and existence alone, and keeps
\* what was signed, keeps what was decided.
LEMMA MayApproveStays ==
  ASSUME UNCHANGED orgVars, NEW u, NEW i,
         punch'[i].owner = punch[i].owner, punch'[i].site = punch[i].site
  PROVE  /\ First(u, i) => First(u, i)'
         /\ (Signed(i) => Signed(i)') => (MayApprove(u, i) => MayApprove(u, i)')
<1>1. Level(u, punch[i])' = Level(u, punch[i])
  BY LevelsAreFixed
<1>. QED BY <1>1 DEF First, MayApprove, Both, Second

\* Request h leaves a trace of what it recorded or failed to; the others are
\* left alone.
LeavesTrace(h) ==
  /\ lost \subseteq lost' /\ action \subseteq action'
  /\ \A g \in Handlers \ {h} : handling'[g] = handling[g]
  /\ handling[h].pc = "record" =>
       \/ handling[h].id \in lost'
       \/ \E a \in action' : /\ a.id = handling[h].id /\ a.new = handling[h].next
                            /\ a.by = handling[h].user

\* Then what was signed, and accounted for, stays so.
LEMMA TracesStay ==
  ASSUME NEW h \in Handlers, LeavesTrace(h), NEW i
  PROVE  /\ Signed(i) => Signed(i)'
         /\ punch'[i].approvedBy = punch[i].approvedBy => (Accounted(i) => Accounted(i)')
<1>1. ASSUME Signed(i) PROVE Signed(i)'
  <2>1. CASE i \in lost
    BY <2>1 DEF LeavesTrace, Signed
  <2>2. CASE \E a \in action : a.id = i /\ a.new = "N1_APPROVED"
    BY <2>2 DEF LeavesTrace, Signed
  <2>3. ASSUME NEW g \in Handlers, handling[g].pc = "record", handling[g].id = i,
               handling[g].next = "N1_APPROVED"
        PROVE  Signed(i)'
    <3>1. CASE g = h
      BY <2>3, <3>1 DEF LeavesTrace, Signed
    <3>2. CASE g # h
      BY <2>3, <3>2 DEF LeavesTrace, Signed
    <3>. QED BY <3>1, <3>2
  <2>. QED BY <1>1, <2>1, <2>2, <2>3 DEF Signed
<1>2. ASSUME punch'[i].approvedBy = punch[i].approvedBy, Accounted(i) PROVE Accounted(i)'
  <2>1. CASE i \in lost
    BY <2>1 DEF LeavesTrace, Accounted
  <2>2. CASE \E a \in action : a.id = i /\ a.new = "APPROVED" /\ a.by = punch[i].approvedBy
    BY <1>2, <2>2 DEF LeavesTrace, Accounted
  <2>3. ASSUME NEW g \in Handlers, handling[g].pc = "record", handling[g].id = i,
               handling[g].next = "APPROVED", handling[g].user = punch[i].approvedBy
        PROVE  Accounted(i)'
    <3>1. CASE g = h
      BY <1>2, <2>3, <3>1 DEF LeavesTrace, Accounted
    <3>2. CASE g # h
      BY <1>2, <2>3, <3>2 DEF LeavesTrace, Accounted
    <3>. QED BY <3>1, <3>2
  <2>. QED BY <1>2, <2>1, <2>2, <2>3 DEF Accounted
<1>. QED BY <1>1, <1>2

\* Request h may write, or record, what it is about to.
DeciderOK(h) ==
  handling[h].pc \in {"write", "record"} =>
    /\ handling[h].next = "N1_APPROVED" => First(handling[h].user, handling[h].id)
    /\ handling[h].next = "APPROVED" => MayApprove(handling[h].user, handling[h].id)
    /\ handling[h].pc = "write" => handling[h].approver = NoUser

ActionOK(a) ==
  /\ a.new = "N1_APPROVED" => First(a.by, a.id)
  /\ a.new = "APPROVED" => MayApprove(a.by, a.id)

PunchOK(i) ==
  /\ punch[i].status = "N1_APPROVED" => Signed(i)
  /\ punch[i].status = "APPROVED" => Accounted(i)
  /\ punch[i].status # "APPROVED" => punch[i].approvedBy = NoUser

\* A step of one request keeps the invariant if what it changes is in order.
LEMMA StepKeeps ==
  ASSUME AttInv, UNCHANGED orgVars, RowsOK', NEW h \in Handlers, LeavesTrace(h),
         \A i \in PunchIds : punch[i].status # "NONE" =>
           punch'[i].owner = punch[i].owner /\ punch'[i].site = punch[i].site,
         DeciderOK(h)',
         \A a \in action' \ action : ActionOK(a)',
         \A i \in PunchIds :
           \/ punch'[i].status = punch[i].status /\ punch'[i].approvedBy = punch[i].approvedBy
           \/ PunchOK(i)'
  PROVE  AttInv'
<1>. USE DEF AttInv
<1>1. \A i \in PunchIds : Signed(i) => Signed(i)'
  BY TracesStay
<1>2. ASSUME NEW u, NEW i \in PunchIds, punch[i].status # "NONE"
      PROVE  (First(u, i) => First(u, i)') /\ (MayApprove(u, i) => MayApprove(u, i)')
  BY <1>1, <1>2, MayApproveStays
<1>3. DecidersOK'
  <2>. SUFFICES ASSUME NEW g \in Handlers PROVE DeciderOK(g)'
    BY DEF DecidersOK, DeciderOK
  <2>1. CASE g = h
    BY <2>1
  <2>2. CASE g # h
    <3>1. handling'[g] = handling[g]
      BY <2>2 DEF LeavesTrace
    <3>2. DeciderOK(g)
      BY DEF DecidersOK, DeciderOK
    <3>3. CASE handling[g].pc \in {"write", "record"}
      <4>1. handling[g].id \in PunchIds /\ punch[handling[g].id].status # "NONE"
        BY <3>3 DEF RowsOK
      <4>. QED BY <3>1, <3>2, <3>3, <4>1, <1>2 DEF DeciderOK
    <3>4. CASE handling[g].pc \notin {"write", "record"}
      BY <3>1, <3>4 DEF DeciderOK
    <3>. QED BY <3>3, <3>4
  <2>. QED BY <2>1, <2>2
<1>4. ActionsOK'
  <2>. SUFFICES ASSUME NEW a \in action' PROVE ActionOK(a)'
    BY DEF ActionsOK, ActionOK
  <2>1. CASE a \in action
    <3>1. a.id \in PunchIds /\ punch[a.id].status # "NONE"
      BY <2>1 DEF RowsOK, ActionRow
    <3>. QED BY <2>1, <3>1, <1>2 DEF ActionsOK, ActionOK
  <2>. QED BY <2>1
<1>5. PunchesOK'
  <2>. SUFFICES ASSUME NEW i \in PunchIds PROVE PunchOK(i)'
    BY DEF PunchesOK, PunchOK, PunchIds
  <2>1. CASE punch'[i].status = punch[i].status /\ punch'[i].approvedBy = punch[i].approvedBy
    BY <2>1, TracesStay DEF PunchesOK, PunchOK
  <2>. QED BY <2>1
<1>. QED BY <1>3, <1>4, <1>5

---------------------------------------------------------------------------
(* The steps.                                                              *)

\* A request that arrives has read a punch, if any, and written nothing.
LEMMA ArrivalKeeps ==
  ASSUME AttInv, UNCHANGED orgVars, UNCHANGED <<punch, action, lost>>,
         NEW h \in Handlers, NEW rec \in HandlerRow,
         handling[h] = Idle, handling' = [handling EXCEPT ![h] = rec],
         rec.pc \in {"write", "record"} => rec.user \in Users /\ rec.next \in Statuses,
         rec.pc \in {"close", "write", "record"} =>
           rec.id \in PunchIds /\ punch[rec.id].status # "NONE",
         rec.pc = "create" => rec.user \in Users,
         rec.pc # "record",
         rec.pc = "write" =>
           /\ rec.approver = NoUser
           /\ rec.next = "N1_APPROVED" => First(rec.user, rec.id)
           /\ rec.next = "APPROVED" => MayApprove(rec.user, rec.id)
  PROVE  AttInv'
<1>. USE DEF AttInv
<1>1. RowsOK'
  BY DEF RowsOK
<1>2. LeavesTrace(h)
  BY DEF LeavesTrace, RowsOK, Idle
<1>3. DeciderOK(h)'
  <2>1. CASE rec.pc = "write"
    <3>1. First(rec.user, rec.id) => First(rec.user, rec.id)'
      BY MayApproveStays
    <3>2. MayApprove(rec.user, rec.id) => MayApprove(rec.user, rec.id)'
      BY <1>2, TracesStay, MayApproveStays
    <3>3. handling'[h] = rec
      BY DEF RowsOK
    <3>. QED BY <3>1, <3>2, <3>3, <2>1 DEF DeciderOK
  <2>2. CASE rec.pc # "write"
    BY <2>2 DEF DeciderOK, RowsOK
  <2>. QED BY <2>1, <2>2
<1>4. action' \ action = {}
  OBVIOUS
<1>. QED BY <1>1, <1>2, <1>3, <1>4, StepKeeps

\* Checking in writes nothing yet.
LEMMA CheckInKeeps ==
  ASSUME AttInv, UNCHANGED orgVars, NEW h \in Handlers, NEW u \in Users,
         NEW s \in CheckInSites, CheckIn(h, u, s)
  PROVE  AttInv'
<1>. DEFINE rec == [Idle EXCEPT !.pc = "create", !.user = u, !.owner = u, !.site = s]
<1>1. rec \in HandlerRow
  BY AttendanceAssumption DEF HandlerRow, Idle
<1>2. rec.pc = "create" /\ rec.user = u
  BY DEF Idle
<1>3. /\ UNCHANGED <<punch, action, lost>>
      /\ handling[h] = Idle /\ handling' = [handling EXCEPT ![h] = rec]
  BY DEF CheckIn, Arrives
<1>. HIDE DEF rec
<1>. QED BY <1>1, <1>2, <1>3, ArrivalKeeps

\* Nor does checking out.
LEMMA CheckOutKeeps ==
  ASSUME AttInv, UNCHANGED orgVars, NEW h \in Handlers, NEW u \in Users, CheckOut(h, u)
  PROVE  AttInv'
<1>1. PICK i \in OpenPunches(u) :
        Arrives(h, u, u, [Idle EXCEPT !.pc = "close", !.user = u, !.owner = u, !.id = i])
  BY DEF CheckOut
<1>. DEFINE rec == [Idle EXCEPT !.pc = "close", !.user = u, !.owner = u, !.id = i]
<1>2. i \in PunchIds /\ i \in Nat /\ punch[i].status # "NONE"
  BY DEF OpenPunches, AttInv, RowsOK, PunchIds
<1>3. rec \in HandlerRow
  BY <1>2 DEF HandlerRow, Idle
<1>4. rec.pc = "close" /\ rec.id = i
  BY DEF Idle
<1>5. /\ UNCHANGED <<punch, action, lost>>
      /\ handling[h] = Idle /\ handling' = [handling EXCEPT ![h] = rec]
  BY <1>1 DEF CheckOut, Arrives
<1>. HIDE DEF rec
<1>. QED BY <1>2, <1>3, <1>4, <1>5, ArrivalKeeps

\* An approval leads to the stage of the level it is made at.
LEMMA ResolvedIsTheirTurn ==
  ASSUME NEW u, NEW i, NEW wish \in {"SUBMITTED", "APPROVED", "REJECTED"},
         NEW next \in Resolved(u, punch[i], wish)
  PROVE  \/ next \in {"SUBMITTED", "REJECTED"}
         \/ next = "N1_APPROVED" /\ First(u, i)
         \/ next = "APPROVED" /\ (Both(u, i) \/ (Second(u, i) /\ punch[i].status = "N1_APPROVED"))
<1>. DEFINE level == Level(u, punch[i])
<1>1. CASE wish = "SUBMITTED"
  <2>1. Resolved(u, punch[i], wish) = {wish}
    BY <1>1, Zenon DEF Resolved
  <2>. QED BY <1>1, <2>1
<1>2. CASE wish = "REJECTED"
  <2>1. Resolved(u, punch[i], wish) = IF level = {} THEN {} ELSE {wish}
    BY <1>2, Zenon DEF Resolved
  <2>. QED BY <1>2, <2>1
<1>3. CASE wish = "APPROVED"
  <2>1. Resolved(u, punch[i], wish) =
          CASE {"N1", "N2"} \subseteq level -> {"APPROVED"}
            [] level = {"N1"} -> IF punch[i].status = "SUBMITTED" THEN {"N1_APPROVED"} ELSE {}
            [] level = {"N2"} -> IF punch[i].status = "N1_APPROVED" THEN {"APPROVED"} ELSE {}
            [] level = {} -> {}
    BY <1>3, Zenon DEF Resolved
  <2>2. {"N1", "N2"} \subseteq level \/ level \subseteq {"N1", "N2"}
    BY DEF Level, ApprovalLevelFor
  <2>. HIDE DEF level
  <2>3. CASE level = {"N1"}
    <3>1. ~({"N1", "N2"} \subseteq level) /\ level # {"N2"} /\ level # {}
      BY <2>3
    <3>2. next \in IF punch[i].status = "SUBMITTED" THEN {"N1_APPROVED"} ELSE {}
      BY <2>1, <2>3, <3>1, Zenon
    <3>. QED BY <2>3, <3>2 DEF First, level
  <2>4. CASE level = {"N2"}
    <3>1. ~({"N1", "N2"} \subseteq level) /\ level # {"N1"} /\ level # {}
      BY <2>4
    <3>2. next \in IF punch[i].status = "N1_APPROVED" THEN {"APPROVED"} ELSE {}
      BY <2>1, <2>4, <3>1, Zenon
    <3>. QED BY <2>4, <3>2 DEF Second, level
  <2>5. CASE level = {}
    <3>1. ~({"N1", "N2"} \subseteq level) /\ level # {"N1"} /\ level # {"N2"}
      BY <2>5
    <3>2. next \in {}
      BY <2>1, <2>5, <3>1, Zenon
    <3>. QED BY <3>2
  <2>6. CASE {"N1", "N2"} \subseteq level
    <3>1. level # {"N1"} /\ level # {"N2"} /\ level # {}
      BY <2>6
    <3>2. next \in {"APPROVED"}
      BY <2>1, <2>6, <3>1, Zenon
    <3>. QED BY <2>6, <3>2 DEF Both, level
  <2>. QED BY <2>2, <2>3, <2>4, <2>5, <2>6
<1>. QED BY <1>1, <1>2, <1>3

\* A transition reads a punch that nobody has approved; whoever may approve it
\* alone finds it signed.
LEMMA TransitionKeeps ==
  ASSUME AttInv, UNCHANGED orgVars, NEW h \in Handlers, NEW u \in Users,
         NEW i \in PunchIds, NEW wish \in {"SUBMITTED", "APPROVED", "REJECTED"},
         Transition(h, u, i, wish)
  PROVE  AttInv'
<1>1. PICK next \in Resolved(u, punch[i], wish) :
        Arrives(h, u, punch[i].owner,
          [Idle EXCEPT !.pc = "write", !.user = u, !.owner = punch[i].owner, !.id = i,
                       !.read = punch[i].status, !.approver = punch[i].approvedBy,
                       !.next = next])
  BY DEF Transition
<1>. DEFINE rec == [Idle EXCEPT !.pc = "write", !.user = u, !.owner = punch[i].owner,
                                !.id = i, !.read = punch[i].status,
                                !.approver = punch[i].approvedBy, !.next = next]
<1>2. punch[i] \in PunchRow /\ i \in Nat
  BY DEF AttInv, RowsOK, PunchIds
<1>3. punch[i].status \in {"DRAFT", "REOPENED", "SUBMITTED", "N1_APPROVED"}
  BY DEF Transition, MayAsk
<1>4. punch[i].approvedBy = NoUser
  BY <1>3 DEF AttInv, PunchesOK
<1>5. next \in {"SUBMITTED", "REJECTED", "N1_APPROVED", "APPROVED"}
  BY ResolvedIsTheirTurn
<1>6. next = "N1_APPROVED" => First(u, i)
  BY ResolvedIsTheirTurn
<1>7. next = "APPROVED" => Both(u, i) \/ (Second(u, i) /\ punch[i].status = "N1_APPROVED")
  BY ResolvedIsTheirTurn
<1>8. next = "APPROVED" => MayApprove(u, i)
  BY <1>7 DEF MayApprove, AttInv, PunchesOK
<1>9. rec \in HandlerRow
  BY <1>2, <1>5 DEF HandlerRow, PunchRow, Idle, Statuses
<1>10. /\ rec.pc = "write" /\ rec.id = i /\ rec.user = u /\ rec.next = next
       /\ rec.approver = NoUser
  BY <1>4 DEF Idle
<1>11. /\ UNCHANGED <<punch, action, lost>>
       /\ handling[h] = Idle /\ handling' = [handling EXCEPT ![h] = rec]
  BY <1>1 DEF Transition, Arrives
<1>12. punch[i].status # "NONE" /\ rec.next \in Statuses
  BY <1>3, <1>5, <1>10 DEF Statuses
<1>. HIDE DEF rec
<1>. QED BY <1>6, <1>8, <1>9, <1>10, <1>11, <1>12, ArrivalKeeps

\* The row a check-in creates was not there before.
LEMMA CreatePunchKeeps ==
  ASSUME AttInv, UNCHANGED orgVars, NEW h \in Handlers, NEW i \in PunchIds,
         CreatePunch(h, i)
  PROVE  AttInv'
<1>. USE DEF AttInv
<1>. DEFINE row == [status |-> "DRAFT", owner |-> handling[h].user,
                    site |-> handling[h].site, open |-> TRUE, approvedBy |-> NoUser]
<1>1. punch[i] = NoPunch
  BY AttendanceAssumption DEF CreatePunch, PunchIds
<1>2. handling[h].pc = "create" /\ handling[h] \in HandlerRow /\ handling[h].user \in Users
  BY DEF CreatePunch, RowsOK
<1>3. /\ punch' = [punch EXCEPT ![i] = row] /\ handling' = [handling EXCEPT ![h] = Idle]
      /\ UNCHANGED <<action, lost>>
  BY DEF CreatePunch, Ends
<1>4. row \in PunchRow /\ Idle \in HandlerRow
  BY <1>2 DEF PunchRow, HandlerRow, Statuses, Idle
<1>5. row.status = "DRAFT" /\ row.approvedBy = NoUser
  OBVIOUS
<1>6. Idle.pc = "idle"
  BY DEF Idle
<1>. HIDE DEF row
<1>7. RowsOK'
  BY <1>3, <1>4, <1>5, <1>6 DEF RowsOK, ActionRow, PunchIds
<1>8. LeavesTrace(h)
  BY <1>2, <1>3 DEF LeavesTrace, RowsOK
<1>9. DeciderOK(h)'
  BY <1>3, <1>6 DEF DeciderOK, RowsOK
<1>10. \A j \in PunchIds \ {i} : punch'[j] = punch[j]
  BY <1>3 DEF RowsOK
<1>11. punch[i].status = "NONE" /\ PunchOK(i)'
  BY <1>1, <1>3, <1>5 DEF NoPunch, PunchOK, RowsOK
<1>. QED BY <1>3, <1>7, <1>8, <1>9, <1>10, <1>11, StepKeeps

\* Closing a punch leaves its status alone.
LEMMA ClosePunchKeeps ==
  ASSUME AttInv, UNCHANGED orgVars, NEW h \in Handlers, ClosePunch(h)
  PROVE  AttInv'
<1>. USE DEF AttInv
<1>. DEFINE q == handling[h].id
            row == [punch[q] EXCEPT !.open = FALSE]
<1>1. handling[h].pc = "close" /\ q \in PunchIds /\ punch[q] \in PunchRow
  BY DEF ClosePunch, RowsOK
<1>2. /\ punch' = [punch EXCEPT ![q] = row] /\ handling' = [handling EXCEPT ![h] = Idle]
      /\ UNCHANGED <<action, lost>>
  BY DEF ClosePunch, Ends
<1>3. /\ row \in PunchRow /\ row.status = punch[q].status /\ row.owner = punch[q].owner
      /\ row.site = punch[q].site /\ row.approvedBy = punch[q].approvedBy
      /\ ~ row.open
  BY <1>1 DEF PunchRow
<1>4. Idle \in HandlerRow /\ Idle.pc = "idle"
  BY DEF Idle, HandlerRow
<1>. HIDE DEF row, q
<1>5. \A j \in PunchIds : /\ punch'[j].status = punch[j].status
                          /\ punch'[j].owner = punch[j].owner
                          /\ punch'[j].site = punch[j].site
                          /\ punch'[j].approvedBy = punch[j].approvedBy
                          /\ punch'[j].open => punch[j].open
  BY <1>1, <1>2, <1>3 DEF RowsOK
<1>6. punch' \in [PunchIds -> PunchRow] /\ handling' \in [Handlers -> HandlerRow]
  BY <1>1, <1>2, <1>3, <1>4 DEF RowsOK
<1>7. \A g \in Handlers : IF g = h THEN handling'[g].pc = "idle"
                          ELSE handling'[g] = handling[g]
  BY <1>2, <1>4 DEF RowsOK
<1>8. RowsOK'
  BY <1>2, <1>5, <1>6, <1>7 DEF RowsOK, ActionRow, PunchIds
<1>9. LeavesTrace(h) /\ DeciderOK(h)'
  BY <1>1, <1>2, <1>7 DEF LeavesTrace, DeciderOK
<1>. QED BY <1>2, <1>5, <1>8, <1>9, StepKeeps

\* A status is written by a request that may write it, over one no longer looked at.
LEMMA WriteStatusKeeps ==
  ASSUME AttInv, UNCHANGED orgVars, NEW h \in Handlers, WriteStatus(h)
  PROVE  AttInv'
<1>. USE DEF AttInv
<1>. DEFINE q == handling[h]
            by == IF q.next = "APPROVED" THEN q.user ELSE q.approver
            row == [punch[q.id] EXCEPT !.status = q.next, !.approvedBy = by]
            rec == [q EXCEPT !.pc = "record"]
<1>1. /\ q.pc = "write" /\ q \in HandlerRow /\ q.user \in Users /\ q.next \in Statuses
      /\ q.id \in PunchIds /\ punch[q.id] \in PunchRow /\ punch[q.id].status # "NONE"
  BY DEF WriteStatus, RowsOK
<1>2. /\ punch' = [punch EXCEPT ![q.id] = row] /\ handling' = [handling EXCEPT ![h] = rec]
      /\ UNCHANGED <<action, lost>>
  BY DEF WriteStatus
<1>3. /\ row \in PunchRow /\ row.status = q.next /\ row.owner = punch[q.id].owner
      /\ row.site = punch[q.id].site /\ row.approvedBy = by /\ row.open = punch[q.id].open
  BY <1>1 DEF PunchRow, HandlerRow
<1>4. /\ rec \in HandlerRow /\ rec.pc = "record" /\ rec.user = q.user /\ rec.next = q.next
      /\ rec.id = q.id
  BY <1>1 DEF HandlerRow
<1>5. q.approver = NoUser /\ DeciderOK(h)
  BY <1>1 DEF DecidersOK, DeciderOK
<1>6. q.next # "NONE"
  BY <1>1 DEF Statuses
<1>. HIDE DEF row, rec
<1>7. punch' \in [PunchIds -> PunchRow] /\ handling' \in [Handlers -> HandlerRow]
  BY <1>1, <1>2, <1>3, <1>4 DEF RowsOK
<1>8. \A j \in PunchIds : IF j = q.id THEN punch'[j] = row ELSE punch'[j] = punch[j]
  BY <1>2 DEF RowsOK
<1>9. \A g \in Handlers : IF g = h THEN handling'[g] = rec ELSE handling'[g] = handling[g]
  BY <1>2 DEF RowsOK
<1>10. RowsOK'
  BY <1>1, <1>2, <1>3, <1>4, <1>6, <1>7, <1>8, <1>9 DEF RowsOK, ActionRow, PunchIds
<1>11. LeavesTrace(h)
  BY <1>1, <1>2, <1>9 DEF LeavesTrace
<1>12. punch'[q.id].owner = punch[q.id].owner /\ punch'[q.id].site = punch[q.id].site
  BY <1>1, <1>3, <1>8
<1>13. DeciderOK(h)'
  <2>1. PICK u \in Users, i \in PunchIds : u = q.user /\ i = q.id
    BY <1>1
  <2>2. First(u, i) => First(u, i)'
    BY <2>1, <1>12, MayApproveStays
  <2>3. MayApprove(u, i) => MayApprove(u, i)'
    BY <2>1, <1>11, <1>12, MayApproveStays, TracesStay
  <2>4. handling'[h] = rec
    BY <1>9
  <2>. QED BY <1>1, <1>4, <1>5, <2>1, <2>2, <2>3, <2>4 DEF DeciderOK
<1>14. ASSUME NEW j \in PunchIds
       PROVE  \/ punch'[j].status = punch[j].status /\ punch'[j].approvedBy = punch[j].approvedBy
              \/ PunchOK(j)'
  <2>1. CASE j = q.id
    BY <2>1, <1>1, <1>3, <1>4, <1>5, <1>8, <1>9 DEF PunchOK, Signed, Accounted
  <2>2. CASE j # q.id
    BY <2>2, <1>8
  <2>. QED BY <2>1, <2>2
<1>15. \A j \in PunchIds : punch'[j].owner = punch[j].owner /\ punch'[j].site = punch[j].site
  BY <1>8, <1>12
<1>16. action' \ action = {}
  BY <1>2
<1>. QED BY <1>10, <1>11, <1>13, <1>14, <1>15, <1>16, StepKeeps

\* The record names the one who decided.
LEMMA RecordKeeps ==
  ASSUME AttInv, UNCHANGED orgVars, NEW h \in Handlers, Record(h)
  PROVE  AttInv'
<1>. USE DEF AttInv
<1>. DEFINE q == handling[h]
            entry == [id |-> q.id, by |-> q.user, old |-> q.read, new |-> q.next]
<1>1. /\ q.pc = "record" /\ q \in HandlerRow /\ q.user \in Users /\ q.next \in Statuses
      /\ q.id \in PunchIds /\ punch[q.id].status # "NONE"
  BY DEF Record, RowsOK
<1>2. /\ action' = action \cup {entry} /\ handling' = [handling EXCEPT ![h] = Idle]
      /\ UNCHANGED <<punch, lost>>
  BY DEF Record, Ends
<1>3. entry \in ActionRow /\ entry.id = q.id /\ entry.new = q.next /\ entry.by = q.user
  BY <1>1 DEF ActionRow, HandlerRow
<1>4. Idle \in HandlerRow /\ Idle.pc = "idle"
  BY DEF Idle, HandlerRow
<1>. HIDE DEF entry
<1>5. handling' \in [Handlers -> HandlerRow] /\ handling'[h].pc = "idle"
  BY <1>2, <1>4 DEF RowsOK
<1>6. RowsOK'
  BY <1>1, <1>2, <1>3, <1>4, <1>5 DEF RowsOK, PunchIds, ActionRow
<1>7. LeavesTrace(h)
  BY <1>2, <1>3 DEF LeavesTrace, RowsOK
<1>8. DeciderOK(h)'
  BY <1>5 DEF DeciderOK
<1>9. ASSUME NEW a \in action' \ action PROVE ActionOK(a)'
  <2>1. a.id = q.id /\ a.new = q.next /\ a.by = q.user
    BY <1>2, <1>3, <1>9
  <2>2. ActionOK(a)
    BY <1>1, <2>1 DEF DecidersOK, ActionOK
  <2>3. First(a.by, a.id) => First(a.by, a.id)'
    BY <1>2, MayApproveStays
  <2>4. MayApprove(a.by, a.id) => MayApprove(a.by, a.id)'
    BY <1>2, <1>7, MayApproveStays, TracesStay
  <2>. QED BY <2>2, <2>3, <2>4 DEF ActionOK
<1>. QED BY <1>2, <1>6, <1>7, <1>8, <1>9, StepKeeps

\* A request that dies before its record leaves the punch among the lost.
LEMMA CrashKeeps ==
  ASSUME AttInv, UNCHANGED orgVars, NEW h \in Handlers, Crash(h)
  PROVE  AttInv'
<1>. USE DEF AttInv
<1>1. /\ handling' = [handling EXCEPT ![h] = Idle] /\ UNCHANGED <<punch, action>>
      /\ lost' = IF handling[h].pc = "record" THEN lost \cup {handling[h].id} ELSE lost
  BY DEF Crash, Ends
<1>2. Idle \in HandlerRow /\ Idle.pc = "idle"
  BY DEF Idle, HandlerRow
<1>3. handling' \in [Handlers -> HandlerRow] /\ handling'[h].pc = "idle"
  BY <1>1, <1>2 DEF RowsOK
<1>4. RowsOK'
  BY <1>1, <1>2, <1>3 DEF RowsOK, PunchIds, ActionRow
<1>5. LeavesTrace(h)
  BY <1>1 DEF LeavesTrace, RowsOK
<1>6. DeciderOK(h)'
  BY <1>3 DEF DeciderOK
<1>. QED BY <1>1, <1>4, <1>5, <1>6, StepKeeps

LEMMA InvStep == AttInv /\ [Next]_vars => AttInv'
<1>. SUFFICES ASSUME AttInv, [Next]_vars PROVE AttInv'
  OBVIOUS
<1>1. CASE UNCHANGED vars
  <2>1. UNCHANGED <<orgVars, punch, action, handling, lost>>
    BY <1>1 DEF vars, attVars
  <2>2. /\ UNCHANGED orgVars
        /\ punch' = punch /\ action' = action /\ handling' = handling /\ lost' = lost
    BY <2>1
  <2>3. \A u, i : Level(u, punch[i])' = Level(u, punch[i])
    BY <2>2, LevelsAreFixed
  <2>4. \A i : Signed(i)' = Signed(i)
    BY <2>2 DEF Signed
  <2>5. \A i : Accounted(i)' = Accounted(i)
    BY <2>2 DEF Accounted
  <2>6. RowsOK'
    BY <2>2 DEF AttInv, RowsOK, PunchIds, ActionRow
  <2>7. DecidersOK' /\ ActionsOK'
    BY <2>2, <2>3, <2>4 DEF AttInv, DecidersOK, ActionsOK, MayApprove, First, Second, Both
  <2>8. PunchesOK'
    BY <2>2, <2>4, <2>5 DEF AttInv, PunchesOK, PunchIds
  <2>. QED BY <2>6, <2>7, <2>8 DEF AttInv
<1>2. CASE Next
  <2>0. UNCHANGED orgVars
    BY <1>2 DEF Next
  <2>1. ASSUME NEW h \in Handlers, NEW u \in Users, NEW s \in CheckInSites, CheckIn(h, u, s)
        PROVE  AttInv'
    BY <2>0, <2>1, CheckInKeeps
  <2>2. ASSUME NEW h \in Handlers, NEW u \in Users, CheckOut(h, u)
        PROVE  AttInv'
    BY <2>0, <2>2, CheckOutKeeps
  <2>3. ASSUME NEW h \in Handlers, NEW u \in Users, NEW i \in PunchIds,
               NEW wish \in {"SUBMITTED", "APPROVED", "REJECTED"}, Transition(h, u, i, wish)
        PROVE  AttInv'
    BY <2>0, <2>3, TransitionKeeps
  <2>4. ASSUME NEW h \in Handlers, NEW i \in PunchIds, CreatePunch(h, i)
        PROVE  AttInv'
    BY <2>0, <2>4, CreatePunchKeeps
  <2>5. ASSUME NEW h \in Handlers, ClosePunch(h) \/ WriteStatus(h) \/ Record(h) \/ Crash(h)
        PROVE  AttInv'
    BY <2>0, <2>5, ClosePunchKeeps, WriteStatusKeeps, RecordKeeps, CrashKeeps
  <2>6. active \subseteq Users
    BY DEF active
  <2>. QED BY <1>2, <2>1, <2>2, <2>3, <2>4, <2>5, <2>6 DEF Next
<1>. QED BY <1>1, <1>2

LEMMA InvHolds == Spec => []AttInv
BY InvInit, InvStep, PTL DEF Spec

\* An approved punch names the approver whose decision is on record, and behind
\* it stands somebody else's signature unless he holds both levels: for every
\* tenant, with any number of requests in flight, in any order, any of which may
\* die between its two writes.
THEOREM ApprovalsBacked == Spec => []ApprovalsAreBacked
<1>1. AttInv => ApprovalsAreBacked
  <2>. SUFFICES ASSUME AttInv, NEW i \in PunchIds
                PROVE  IF punch[i].status = "APPROVED"
                       THEN Recorded(i) =>
                         \E a \in action :
                           /\ a.id = i /\ a.new = "APPROVED" /\ a.by = punch[i].approvedBy
                           /\ \/ {"N1", "N2"} \subseteq Level(a.by, punch[i])
                              \/ \E b \in action : /\ b.id = i /\ b.new = "N1_APPROVED"
                                                   /\ b.by \notin {a.by, punch[i].owner}
                       ELSE punch[i].approvedBy = NoUser
    BY DEF ApprovalsAreBacked
  <2>1. CASE punch[i].status # "APPROVED"
    BY <2>1 DEF AttInv, PunchesOK
  <2>2. CASE punch[i].status = "APPROVED"
    <3>. SUFFICES ASSUME Recorded(i)
                  PROVE  \E a \in action :
                           /\ a.id = i /\ a.new = "APPROVED" /\ a.by = punch[i].approvedBy
                           /\ \/ {"N1", "N2"} \subseteq Level(a.by, punch[i])
                              \/ \E b \in action : /\ b.id = i /\ b.new = "N1_APPROVED"
                                                   /\ b.by \notin {a.by, punch[i].owner}
      BY <2>2
    <3>1. PICK a \in action : a.id = i /\ a.new = "APPROVED" /\ a.by = punch[i].approvedBy
      BY <2>2 DEF AttInv, PunchesOK, Accounted, Recorded
    <3>2. Both(a.by, i) \/ (Second(a.by, i) /\ Signed(i))
      BY <3>1 DEF AttInv, ActionsOK, MayApprove
    <3>3. ASSUME Second(a.by, i), Signed(i)
          PROVE  \E b \in action : /\ b.id = i /\ b.new = "N1_APPROVED"
                                  /\ b.by \notin {a.by, punch[i].owner}
      <4>1. PICK b \in action : b.id = i /\ b.new = "N1_APPROVED"
        BY <3>3 DEF Signed, Recorded
      <4>2. First(b.by, i)
        BY <4>1 DEF AttInv, ActionsOK
      <4>3. b.by # punch[i].owner
        BY <4>2, FirstIsNotOwner DEF First, Level
      <4>4. b.by # a.by
        BY <3>3, <4>2 DEF First, Second
      <4>. QED BY <4>1, <4>3, <4>4
    <3>. QED BY <3>1, <3>2, <3>3 DEF Both
  <2>. QED BY <2>1, <2>2
<1>. QED BY <1>1, InvHolds, PTL

---------------------------------------------------------------------------
(* One open punch.                                                         *)
(*                                                                         *)
(* As long as no two requests about an employee overlap, the one that is   *)
(* in flight finds the punches as it read them: none open if it is about   *)
(* to create one, not refused if it is about to write a status.            *)

HandlerOK(h) ==
  LET q == handling[h]
  IN  /\ q.owner \in Users <=> q.pc # "idle"
      /\ q.pc = "idle" => q = Idle
      /\ q.pc = "create" => q.user = q.owner
      /\ q.pc \in {"close", "write", "record"} => punch[q.id].owner = q.owner
      /\ q.owner \notin raced =>
           /\ q.pc = "create" => OpenPunches(q.owner) = {}
           /\ q.pc = "write" => punch[q.id].status # "REJECTED"

Alone(h) ==
  handling[h].owner \in Users \ raced =>
    \A g \in Handlers \ {h} : handling[g].owner # handling[h].owner

OneOpen(o) == o \notin raced => \A i, j \in OpenPunches(o) : i = j

OpenInv ==
  /\ \A h \in Handlers : HandlerOK(h) /\ Alone(h)
  /\ \A o \in Users : OneOpen(o)
  /\ \A i \in PunchIds : punch[i].status # "NONE" => punch[i].owner \in Users

\* Only punches of o change, or become his.
Touches(o) ==
  \A i \in PunchIds :
    \/ punch'[i] = punch[i]
    \/ punch'[i].owner = o /\ punch[i].owner \in {o, NoUser}

\* A step of request h, about employee o, keeps the invariant if it does for h
\* and o: the punches of the others, and so what is known of them, do not change.
LEMMA OpenStep ==
  ASSUME AttInv, OpenInv, NEW h \in Handlers, NEW o \in Users,
         raced \subseteq raced',
         \A g \in Handlers \ {h} : handling'[g] = handling[g],
         handling'[h].owner \in {o, NoUser},
         o \notin raced' => \A g \in Handlers \ {h} : handling[g].owner # o,
         Touches(o), HandlerOK(h)', OneOpen(o)'
  PROVE  OpenInv'
<1>1. ASSUME NEW v \in Users \ {o}
      PROVE  OpenPunches(v)' = OpenPunches(v)
  BY <1>1, OrganisationAssumption DEF Touches, OpenPunches, PunchIds
<1>2. ASSUME NEW g \in Handlers \ {h}
      PROVE  HandlerOK(g)'
  <2>1. handling'[g] = handling[g] /\ HandlerOK(g)
    BY DEF OpenInv
  <2>2. handling[g].pc \in {"close", "write", "record"} => handling[g].id \in PunchIds
    BY DEF AttInv, RowsOK
  <2>3. CASE handling[g].owner = o
    BY <2>1, <2>2, <2>3 DEF HandlerOK, Touches
  <2>4. CASE handling[g].owner \in Users \ {o}
    <3>1. handling[g].pc \in {"close", "write", "record"} =>
            punch'[handling[g].id] = punch[handling[g].id]
      BY <2>1, <2>2, <2>4, OrganisationAssumption DEF HandlerOK, Touches
    <3>. QED BY <2>1, <2>4, <3>1, <1>1 DEF HandlerOK
  <2>5. CASE handling[g].owner \notin Users
    BY <2>1, <2>5 DEF HandlerOK
  <2>. QED BY <2>3, <2>4, <2>5
<1>3. ASSUME NEW g \in Handlers PROVE Alone(g)'
  <2>1. CASE g = h
    BY <2>1, OrganisationAssumption DEF Alone
  <2>2. CASE g # h
    BY <2>2, OrganisationAssumption DEF Alone, OpenInv
  <2>. QED BY <2>1, <2>2
<1>4. ASSUME NEW v \in Users PROVE OneOpen(v)'
  BY <1>1 DEF OneOpen, OpenInv
<1>5. \A i \in PunchIds : punch'[i].status # "NONE" => punch'[i].owner \in Users
  BY DEF Touches, OpenInv
<1>. QED BY <1>2, <1>3, <1>4, <1>5 DEF OpenInv, PunchIds

\* A request that arrives about o has the others about him among the racers.
LEMMA ArrivalOpens ==
  ASSUME AttInv, OpenInv, NEW h \in Handlers, NEW o \in Users, NEW u, NEW rec,
         Arrives(h, u, o, rec), UNCHANGED punch, rec.owner = o, rec.pc # "idle",
         rec.pc = "create" => rec.user = o /\ OpenPunches(o) = {},
         rec.pc \in {"close", "write", "record"} => punch[rec.id].owner = o,
         rec.pc = "write" => punch[rec.id].status # "REJECTED"
  PROVE  OpenInv'
<1>1. handling'[h] = rec /\ \A g \in Handlers \ {h} : handling'[g] = handling[g]
  BY DEF Arrives, AttInv, RowsOK
<1>2. /\ raced \subseteq raced'
      /\ o \notin raced' => \A g \in Handlers \ {h} : handling[g].owner # o
  BY DEF Arrives
<1>3. OpenPunches(o)' = OpenPunches(o)
  BY DEF OpenPunches, PunchIds
<1>4. HandlerOK(h)'
  BY <1>1, <1>3 DEF HandlerOK
<1>5. OneOpen(o)' /\ Touches(o)
  BY <1>2, <1>3 DEF OneOpen, OpenInv, Touches
<1>. QED BY <1>1, <1>2, <1>4, <1>5, OpenStep

\* Every request that arrives has read the punches it is about.
LEMMA ArrivalsOpen ==
  ASSUME AttInv, OpenInv, NEW h \in Handlers, NEW u \in Users,
         \/ \E s \in CheckInSites : CheckIn(h, u, s)
         \/ CheckOut(h, u)
         \/ \E i \in PunchIds, wish \in {"SUBMITTED", "APPROVED", "REJECTED"} :
              Transition(h, u, i, wish)
  PROVE  OpenInv'
<1>1. ASSUME NEW s \in CheckInSites, CheckIn(h, u, s) PROVE OpenInv'
  <2>. DEFINE rec == [Idle EXCEPT !.pc = "create", !.user = u, !.owner = u, !.site = s]
  <2>1. rec.pc = "create" /\ rec.user = u /\ rec.owner = u
    BY DEF Idle
  <2>2. Arrives(h, u, u, rec) /\ UNCHANGED punch /\ OpenPunches(u) = {}
    BY <1>1 DEF CheckIn
  <2>. HIDE DEF rec
  <2>. QED BY <2>1, <2>2, ArrivalOpens
<1>2. ASSUME CheckOut(h, u) PROVE OpenInv'
  <2>1. PICK i \in OpenPunches(u) :
          Arrives(h, u, u, [Idle EXCEPT !.pc = "close", !.user = u, !.owner = u, !.id = i])
    BY <1>2 DEF CheckOut
  <2>. DEFINE rec == [Idle EXCEPT !.pc = "close", !.user = u, !.owner = u, !.id = i]
  <2>2. rec.pc = "close" /\ rec.owner = u /\ punch[rec.id].owner = u
    BY DEF Idle, OpenPunches
  <2>3. Arrives(h, u, u, rec) /\ UNCHANGED punch
    BY <1>2, <2>1 DEF CheckOut
  <2>. HIDE DEF rec
  <2>. QED BY <2>2, <2>3, ArrivalOpens
<1>3. ASSUME NEW i \in PunchIds, NEW wish \in {"SUBMITTED", "APPROVED", "REJECTED"},
             Transition(h, u, i, wish)
      PROVE  OpenInv'
  <2>1. PICK next \in Resolved(u, punch[i], wish) :
          Arrives(h, u, punch[i].owner,
            [Idle EXCEPT !.pc = "write", !.user = u, !.owner = punch[i].owner, !.id = i,
                         !.read = punch[i].status, !.approver = punch[i].approvedBy,
                         !.next = next])
    BY <1>3 DEF Transition
  <2>. DEFINE o == punch[i].owner
              rec == [Idle EXCEPT !.pc = "write", !.user = u, !.owner = punch[i].owner,
                                  !.id = i, !.read = punch[i].status,
                                  !.approver = punch[i].approvedBy, !.next = next]
  <2>2. /\ rec.pc = "write" /\ rec.owner = o /\ punch[rec.id].owner = o
        /\ punch[rec.id].status = punch[i].status
    BY DEF Idle
  <2>3. Arrives(h, u, o, rec) /\ UNCHANGED punch
    BY <1>3, <2>1 DEF Transition
  <2>4. punch[i].status # "REJECTED"
    BY <1>3 DEF Transition, MayAsk
  <2>5. o \in Users
    BY <1>3 DEF OpenInv, Transition, MayAsk
  <2>. HIDE DEF rec, o
  <2>. QED BY <2>2, <2>3, <2>4, <2>5, ArrivalOpens
<1>. QED BY <1>1, <1>2, <1>3

\* A request that writes changes punches of its own employee, and none of another.
LEMMA CreatePunchOpens ==
  ASSUME AttInv, OpenInv, NEW h \in Handlers, NEW i \in PunchIds, CreatePunch(h, i)
  PROVE  OpenInv'
<1>0. PICK o \in Users : o = handling[h].owner
  BY DEF CreatePunch, OpenInv, HandlerOK
<1>. DEFINE row == [status |-> "DRAFT", owner |-> o, site |-> handling[h].site,
                    open |-> TRUE, approvedBy |-> NoUser]
<1>1. o = handling[h].user /\ punch[i] = NoPunch
  BY <1>0, AttendanceAssumption DEF CreatePunch, OpenInv, HandlerOK, PunchIds
<1>2. punch' = [punch EXCEPT ![i] = row] /\ handling' = [handling EXCEPT ![h] = Idle]
      /\ raced' = raced
  BY <1>1 DEF CreatePunch, Ends
<1>3. row.owner = o /\ punch[i].owner = NoUser
  BY <1>1 DEF NoPunch
<1>. HIDE DEF row
<1>4. Touches(o)
  BY <1>2, <1>3 DEF Touches, AttInv, RowsOK
<1>5. OneOpen(o)'
  <2>. SUFFICES ASSUME o \notin raced PROVE \A j \in OpenPunches(o)' : j = i
    BY <1>2 DEF OneOpen
  <2>1. OpenPunches(o) = {}
    BY <1>0 DEF OpenInv, HandlerOK, CreatePunch
  <2>. QED BY <1>2, <2>1 DEF OpenPunches, PunchIds, AttInv, RowsOK
<1>6. handling'[h] = Idle
  BY <1>2 DEF AttInv, RowsOK
<1>7. HandlerOK(h)' /\ handling'[h].owner = NoUser
  BY <1>6, OrganisationAssumption DEF HandlerOK, Idle
<1>8. o \notin raced' => \A g \in Handlers \ {h} : handling[g].owner # o
  BY <1>0, <1>2 DEF OpenInv, Alone
<1>9. \A g \in Handlers \ {h} : handling'[g] = handling[g]
  BY <1>2 DEF AttInv, RowsOK
<1>. QED BY <1>2, <1>4, <1>5, <1>7, <1>8, <1>9, OpenStep

LEMMA WritesOpen ==
  ASSUME AttInv, OpenInv, NEW h \in Handlers, ClosePunch(h) \/ WriteStatus(h)
  PROVE  OpenInv'
<1>0. PICK o \in Users, q \in PunchIds : o = handling[h].owner /\ q = handling[h].id
  BY DEF ClosePunch, WriteStatus, OpenInv, HandlerOK, AttInv, RowsOK
<1>1. punch[q].owner = o /\ punch[q] \in PunchRow /\ raced' = raced
  BY <1>0 DEF ClosePunch, WriteStatus, OpenInv, HandlerOK, AttInv, RowsOK
<1>2. /\ punch'[q].owner = o
      /\ \A j \in PunchIds \ {q} : punch'[j] = punch[j]
      /\ \A g \in Handlers \ {h} : handling'[g] = handling[g]
  BY <1>0, <1>1 DEF ClosePunch, WriteStatus, Ends, AttInv, RowsOK, PunchRow
<1>3. Touches(o)
  BY <1>1, <1>2 DEF Touches
<1>4. o \notin raced => (q \in OpenPunches(o)' => q \in OpenPunches(o))
  <2>1. CASE ClosePunch(h)
    <3>1. punch'[q].open = FALSE
      BY <1>0, <1>1, <2>1 DEF ClosePunch, AttInv, RowsOK, PunchRow
    <3>. QED BY <3>1 DEF OpenPunches, PunchIds
  <2>2. CASE WriteStatus(h)
    <3>1. punch'[q].open = punch[q].open
      BY <1>0, <1>1, <2>2 DEF WriteStatus, AttInv, RowsOK, PunchRow
    <3>2. o \notin raced => punch[q].status # "REJECTED"
      BY <1>0, <2>2 DEF WriteStatus, OpenInv, HandlerOK
    <3>. QED BY <1>1, <3>1, <3>2 DEF OpenPunches, PunchIds
  <2>. QED BY <2>1, <2>2
<1>5. OneOpen(o)'
  <2>. SUFFICES ASSUME o \notin raced PROVE OpenPunches(o)' \subseteq OpenPunches(o)
    BY <1>1 DEF OneOpen, OpenInv
  <2>. QED BY <1>2, <1>4 DEF OpenPunches, PunchIds
<1>6. handling'[h].owner \in {o, NoUser} /\ HandlerOK(h)'
  <2>1. CASE ClosePunch(h)
    <3>1. handling'[h] = Idle
      BY <2>1 DEF ClosePunch, Ends, AttInv, RowsOK
    <3>. QED BY <3>1, OrganisationAssumption DEF HandlerOK, Idle
  <2>2. CASE WriteStatus(h)
    <3>1. /\ handling'[h].pc = "record" /\ handling'[h].owner = o /\ handling'[h].id = q
      BY <1>0, <2>2 DEF WriteStatus, AttInv, RowsOK, HandlerRow
    <3>. QED BY <1>1, <1>2, <3>1 DEF HandlerOK
  <2>. QED BY <2>1, <2>2
<1>7. o \notin raced' => \A g \in Handlers \ {h} : handling[g].owner # o
  BY <1>0, <1>1 DEF OpenInv, Alone
<1>. QED BY <1>1, <1>2, <1>3, <1>5, <1>6, <1>7, OpenStep

\* Nor does a request that ends, or dies, change any.
LEMMA EndsOpen ==
  ASSUME AttInv, OpenInv, NEW h \in Handlers, Record(h) \/ Crash(h)
  PROVE  OpenInv'
<1>1. PICK o \in Users : o = handling[h].owner
  BY DEF Record, Crash, OpenInv, HandlerOK, AttInv, RowsOK, HandlerRow
<1>2. UNCHANGED <<punch, raced>> /\ handling' = [handling EXCEPT ![h] = Idle]
  BY DEF Record, Crash, Ends
<1>3. HandlerOK(h)' /\ handling'[h].owner = NoUser
  <2>1. handling'[h] = Idle
    BY <1>2 DEF AttInv, RowsOK
  <2>. QED BY <2>1, OrganisationAssumption DEF HandlerOK, Idle
<1>4. Touches(o) /\ OneOpen(o)'
  BY <1>1, <1>2 DEF Touches, OneOpen, OpenInv, OpenPunches, PunchIds
<1>5. \A g \in Handlers \ {h} : handling'[g] = handling[g]
  BY <1>2 DEF AttInv, RowsOK
<1>6. o \notin raced' => \A g \in Handlers \ {h} : handling[g].owner # o
  BY <1>1, <1>2 DEF OpenInv, Alone
<1>. QED BY <1>2, <1>3, <1>4, <1>5, <1>6, OpenStep

LEMMA OpenInit == Init => OpenInv
BY OrganisationAssumption
   DEF Init, AttInit, OpenInv, HandlerOK, Alone, OneOpen, OpenPunches, Idle, NoPunch

LEMMA OpenNext == AttInv /\ OpenInv /\ [Next]_vars => OpenInv'
<1>. SUFFICES ASSUME AttInv, OpenInv, [Next]_vars PROVE OpenInv'
  OBVIOUS
<1>1. CASE UNCHANGED vars
  <2>1. UNCHANGED <<punch, handling, raced>>
    BY <1>1 DEF vars, attVars
  <2>. QED BY <2>1 DEF OpenInv, HandlerOK, Alone, OneOpen, OpenPunches, PunchIds
<1>2. CASE Next
  <2>1. active \subseteq Users
    BY DEF active
  <2>. QED
    BY <1>2, <2>1, ArrivalsOpen, CreatePunchOpens, WritesOpen, EndsOpen DEF Next
<1>. QED BY <1>1, <1>2

\* An employee about whom no two requests ever overlapped has one open punch,
\* whoever else's requests interleave with his and whichever of them die.
THEOREM OnePunchOpen == Spec => []OneOpenPunch
<1>1. OpenInv => OneOpenPunch
  BY DEF OpenInv, OneOpen, OneOpenPunch, OpenPunches
<1>. QED BY <1>1, OpenInit, OpenNext, InvHolds, PTL DEF Spec

===========================================================================
