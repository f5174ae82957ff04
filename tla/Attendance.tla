----------------------------- MODULE Attendance -----------------------------
(***************************************************************************)
(* Attendance punches: check-in, check-out and two-level validation, one   *)
(* statement a step (attendance.service.ts), with any number of requests   *)
(* in flight, any of which may die.  A request reads, decides and writes   *)
(* one row by its identifier, without looking at it again; a validation    *)
(* then records an approval action.  Nothing serialises two requests about *)
(* one employee: `raced` remembers those this happened to.                 *)
(*                                                                         *)
(* The organisation is fixed here.  Times of day and comments are left out.*)
(***************************************************************************)
EXTENDS Approvals

CONSTANTS
  Punchers,     \* those who check in
  CheckInSites, \* where, NoSite for off site
  MaxPunches,   \* bound on the punches of a behaviour
  MaxAsked,     \* bound on the transitions asked for
  Handlers,     \* requests that may be in flight together
  MayRace,      \* whether two of them may be about one employee
  CanCrash      \* a request may die between two statements

ASSUME AttendanceAssumption ==
  /\ Punchers \subseteq Users
  /\ CheckInSites \subseteq Sites \cup {NoSite}
  /\ {MaxPunches, MaxAsked} \subseteq Nat
  /\ {MayRace, CanCrash} \subseteq BOOLEAN

VARIABLES
  punch,      \* punch[i]: the row of punch i; identifiers grow with checkInAt
  action,     \* the approval actions
  handling,   \* handling[h]: what request h has read and has left to do
  asked,      \* transitions asked for so far
  raced,      \* history: employees two requests at once were about
  lost        \* history: punches whose change no approval action records

attVars == <<punch, action, handling, asked, raced, lost>>
vars == <<orgVars, attVars>>

PunchIds == 1..MaxPunches
Statuses == {"DRAFT", "SUBMITTED", "N1_APPROVED", "APPROVED", "REJECTED", "REOPENED"}

NoPunch == [status |-> "NONE", owner |-> NoUser, site |-> NoSite, open |-> FALSE,
            approvedBy |-> NoUser]

Idle == [pc |-> "idle", user |-> NoUser, owner |-> NoUser, id |-> 0, site |-> NoSite,
         read |-> "NONE", approver |-> NoUser, next |-> "NONE"]

AttTypeOK ==
  /\ punch \in [PunchIds -> {NoPunch} \cup
       [status : Statuses, owner : Users, site : Sites \cup {NoSite}, open : BOOLEAN,
        approvedBy : Users \cup {NoUser}]]
  /\ action \subseteq [id : PunchIds, by : Users, old : Statuses, new : Statuses]
  /\ \A h \in Handlers : handling[h].pc \in {"idle", "create", "close", "write", "record"}
  /\ asked \in 0..MaxAsked
  /\ raced \subseteq Users
  /\ lost \subseteq PunchIds

AttInit ==
  /\ punch = [i \in PunchIds |-> NoPunch]
  /\ action = {}
  /\ handling = [h \in Handlers |-> Idle]
  /\ asked = 0
  /\ raced = {}
  /\ lost = {}

\* Request h of u arrives, about a punch of o.
Arrives(h, u, o, rec) ==
  LET others == {g \in Handlers \ {h} : handling[g].owner = o}
  IN  /\ handling[h] = Idle
      /\ others # {} => MayRace
      /\ raced' = IF others # {} THEN raced \cup {o} ELSE raced
      /\ handling' = [handling EXCEPT ![h] = rec]

Ends(h) == handling' = [handling EXCEPT ![h] = Idle]

---------------------------------------------------------------------------
(* Check-in and check-out.                                                 *)

\* Mutant: only a punch that is still a draft counts as open.
OpenDrafts(u) ==
  {i \in PunchIds : punch[i].owner = u /\ punch[i].open /\ punch[i].status = "DRAFT"}

OpenPunches(u) ==
  {i \in PunchIds : punch[i].owner = u /\ punch[i].open /\ punch[i].status # "REJECTED"}

\* A site is asked for or not; the tables it is looked up in do not change here.
CheckIn(h, u, s) ==
  /\ role[u] # "SUPER_ADMIN"
  /\ OpenPunches(u) = {}
  /\ s # NoSite => site[s].state = "open"
  /\ Arrives(h, u, u, [Idle EXCEPT !.pc = "create", !.user = u, !.owner = u, !.site = s])
  /\ UNCHANGED <<punch, action, asked, lost>>

CreatePunch(h, i) ==
  /\ handling[h].pc = "create"
  /\ \A j \in PunchIds : punch[j] = NoPunch <=> j >= i
  /\ punch' = [punch EXCEPT ![i] =
       [status |-> "DRAFT", owner |-> handling[h].user, site |-> handling[h].site,
        open |-> TRUE, approvedBy |-> NoUser]]
  /\ Ends(h)
  /\ UNCHANGED <<action, asked, raced, lost>>

\* The latest open punch; of two, the other stays open.
CheckOut(h, u) ==
  /\ role[u] # "SUPER_ADMIN"
  /\ \E i \in OpenPunches(u) :
       /\ \A j \in OpenPunches(u) : j <= i
       /\ Arrives(h, u, u,
            [Idle EXCEPT !.pc = "close", !.user = u, !.owner = u, !.id = i])
  /\ UNCHANGED <<punch, action, asked, lost>>

ClosePunch(h) ==
  /\ handling[h].pc = "close"
  /\ punch' = [punch EXCEPT ![handling[h].id].open = FALSE]
  /\ Ends(h)
  /\ UNCHANGED <<action, asked, raced, lost>>

---------------------------------------------------------------------------
(* Validation.                                                             *)

\* attendanceScope: employees see their own punches, the others those of their
\* team, which they are not part of.
SeesPunchesOf(u, o) ==
  CASE role[u] = "EMPLOYEE" -> o = u
    [] role[u] # "EMPLOYEE" -> o \in ManagedUsers(u)

MayAsk(u, row, wish) ==
  IF wish = "SUBMITTED"
  THEN row.owner = u /\ row.status \in {"DRAFT", "REOPENED"}
  ELSE /\ role[u] \in {"RESOURCE_MANAGER", "HR", "PROJECT_MANAGER", "MANAGER"}
       /\ row.status \in {"SUBMITTED", "N1_APPROVED"}

Level(u, row) == ApprovalLevelFor(u, row.owner, row.site)

\* Mutant: the chief of the project does not wait for the manager of the site.
Outranks(u, row, wish) ==
  CASE wish \in {"SUBMITTED", "REJECTED"} -> {wish}
    [] wish = "APPROVED" -> IF "N2" \in Level(u, row) THEN {"APPROVED"}
                            ELSE IF row.status = "SUBMITTED" THEN {"N1_APPROVED"}
                            ELSE {}

\* resolveApprovalStatus: where an approval leads, if it is u's turn.
Resolved(u, row, wish) ==
  LET level == Level(u, row)
  IN  CASE wish = "SUBMITTED" -> {wish}
        [] wish = "REJECTED" -> IF level = {} THEN {} ELSE {wish}
        [] wish = "APPROVED" ->
             CASE {"N1", "N2"} \subseteq level -> {"APPROVED"}
               [] level = {"N1"} -> IF row.status = "SUBMITTED" THEN {"N1_APPROVED"} ELSE {}
               [] level = {"N2"} -> IF row.status = "N1_APPROVED" THEN {"APPROVED"} ELSE {}
               [] level = {} -> {}

Transition(h, u, i, wish) ==
  /\ punch[i] # NoPunch
  /\ asked < MaxAsked
  /\ asked' = asked + 1
  /\ SeesPunchesOf(u, punch[i].owner)
  /\ MayAsk(u, punch[i], wish)
  /\ \E next \in Resolved(u, punch[i], wish) :
       Arrives(h, u, punch[i].owner,
         [Idle EXCEPT !.pc = "write", !.user = u, !.owner = punch[i].owner, !.id = i,
                      !.read = punch[i].status, !.approver = punch[i].approvedBy,
                      !.next = next])
  /\ UNCHANGED <<punch, action, lost>>

\* The approver is written with the status, from the row as it was read.
WriteStatus(h) ==
  LET q == handling[h]
  IN  /\ q.pc = "write"
      /\ punch' = [punch EXCEPT
           ![q.id].status = q.next,
           ![q.id].approvedBy = IF q.next = "APPROVED" THEN q.user ELSE q.approver]
      /\ handling' = [handling EXCEPT ![h].pc = "record"]
      /\ UNCHANGED <<action, asked, raced, lost>>

Record(h) ==
  LET q == handling[h]
  IN  /\ q.pc = "record"
      /\ action' = action \cup
           {[id |-> q.id, by |-> q.user, old |-> q.read, new |-> q.next]}
      /\ Ends(h)
      /\ UNCHANGED <<punch, asked, raced, lost>>

Crash(h) ==
  /\ CanCrash
  /\ handling[h] # Idle
  /\ lost' = IF handling[h].pc = "record" THEN lost \cup {handling[h].id} ELSE lost
  /\ Ends(h)
  /\ UNCHANGED <<punch, action, asked, raced>>

Init == OrgInit /\ AttInit

Next ==
  /\ \E h \in Handlers :
       \/ \E u \in active \cap Punchers, s \in CheckInSites : CheckIn(h, u, s)
       \/ \E u \in active : CheckOut(h, u)
       \/ \E u \in active, i \in PunchIds, wish \in {"SUBMITTED", "APPROVED", "REJECTED"} :
            Transition(h, u, i, wish)
       \/ \E i \in PunchIds : CreatePunch(h, i)
       \/ ClosePunch(h)
       \/ WriteStatus(h)
       \/ Record(h)
       \/ Crash(h)
  /\ UNCHANGED orgVars

Spec == Init /\ [][Next]_vars

---------------------------------------------------------------------------

\* An employee is checked in once, whatever became of his earlier punches, as
\* long as no two requests about him overlap ("An open check-in already exists").
\* With an overlap he need not have sent two check-ins: a late approval of a
\* punch that has just been refused opens it again beside the one made since.
OneOpenPunch ==
  \A i, j \in PunchIds :
    /\ punch[i].owner \in Users \ raced
    /\ punch[j].owner = punch[i].owner
    /\ punch[i].open /\ punch[j].open
    /\ "REJECTED" \notin {punch[i].status, punch[j].status}
    => i = j

\* An approved punch names the approver whose decision is on record, and behind
\* it stands the signature of somebody else, unless that approver holds both
\* levels; whoever raced whom, and although each decision is taken on a row that
\* may have changed since.  Requests that died left no record to look for.
Recorded(i) == i \notin lost /\ \A h \in Handlers : handling[h].pc = "record" => handling[h].id # i

ApprovalsAreBacked ==
  \A i \in PunchIds :
    IF punch[i].status = "APPROVED"
    THEN Recorded(i) =>
           \E a \in action :
             /\ a.id = i /\ a.new = "APPROVED" /\ a.by = punch[i].approvedBy
             /\ \/ {"N1", "N2"} \subseteq Level(a.by, punch[i])
                \/ \E b \in action : /\ b.id = i /\ b.new = "N1_APPROVED"
                                     /\ b.by \notin {a.by, punch[i].owner}
    ELSE punch[i].approvedBy = NoUser

===========================================================================
