----------------------- MODULE TimesheetRequestsProofs ----------------------
(***************************************************************************)
(* What the timesheet requests keep although they are executed one         *)
(* statement after the other.                                              *)
(***************************************************************************)
EXTENDS TimesheetRequests, TLAPS

---------------------------------------------------------------------------
(* Types.                                                                  *)

\* The line rows of a sheet.
RowLines == UNION {[S -> Line] : S \in SUBSET LineIds}

RequestRow ==
  [pc : {"idle", "delete", "save", "gate", "insert", "recheck", "status", "lines",
         "record", "decide", "log", "reread", "refresh"},
   op : Ops \cup {"none"}, user : Users \cup {NoUser}, row : Nat, sheet : Sheet,
   lines : RowLines, todo : SUBSET LineIds, at : LineIds \cup {NoLine},
   status : SheetStatus \cup {"NONE"}]

RowsTypeOK ==
  /\ sheet \in Sheet
  /\ lines \in RowLines
  /\ row \in Nat

RequestsTypeOK ==
  /\ RowsTypeOK
  /\ req \in [Requests -> RequestRow]
  /\ \A r \in Requests : /\ req[r].pc # "idle" => req[r].user \in Users
                         /\ req[r].pc = "refresh" => req[r].status # "NONE"
                         /\ req[r].pc = "log" => req[r].at \in DOMAIN req[r].lines
                         /\ req[r].pc \in {"decide", "log"} =>
                              req[r].todo \subseteq DOMAIN req[r].lines

LEMMA RowLinesAre ==
  ASSUME NEW ls
  PROVE  ls \in RowLines <=> DOMAIN ls \subseteq LineIds /\ ls \in [DOMAIN ls -> Line]
BY DEF RowLines

\* What the constructors of rows return.
LEMMA RowTypes ==
  /\ NoLines \in RowLines /\ DOMAIN NoLines = {}
  /\ NoSheet \in Sheet /\ Idle \in RequestRow /\ Idle.pc = "idle" /\ Idle.user = NoUser
<1>1. NoLines \in RowLines /\ DOMAIN NoLines = {}
  BY RowLinesAre DEF NoLines
<1>2. NoSheet \in Sheet
  BY DEF NoSheet, Sheet, NoAction, ApprovalActions
<1>. QED BY <1>1, <1>2 DEF Idle, RequestRow

LEMMA LineTypes ==
  ASSUME NEW ln \in Line, NEW u \in Users
  PROVE  /\ \A st \in LineStatus : ResetLine(ln, st) \in Line /\ Recorded(ln, u, st) \in Line
         /\ Rejected(ln, u) \in Line
         /\ \A stage : Approved(ln, u, stage) \in Line
         /\ \A h \in Hours : Corrected(ln, h) \in Line
<1>1. ASSUME NEW st \in LineStatus PROVE ResetLine(ln, st) \in Line
  BY DEF Line, ResetLine
<1>2. ASSUME NEW st \in LineStatus PROVE Recorded(ln, u, st) \in Line
  <2>1. [by |-> u, status |-> st] \in ApprovalActions
    BY DEF ApprovalActions
  <2>. QED BY <2>1 DEF Line, Recorded
<1>3. Rejected(ln, u) \in Line
  BY DEF Line, LineStatus, Rejected
<1>4. ASSUME NEW stage PROVE Approved(ln, u, stage) \in Line
  <2>1. CASE stage = "SITE"
    BY <2>1 DEF Line, LineStatus, Approved
  <2>2. CASE stage # "SITE"
    BY <2>2 DEF Line, LineStatus, Approved
  <2>. QED BY <2>1, <2>2
<1>5. ASSUME NEW h \in Hours PROVE Corrected(ln, h) \in Line
  <2>1. CASE ln.status = "REJECTED"
    BY <2>1 DEF Line, LineStatus, Corrected
  <2>2. CASE ln.status # "REJECTED"
    BY <2>2 DEF Line, Corrected
  <2>. QED BY <2>1, <2>2
<1>. QED BY <1>1, <1>2, <1>3, <1>4, <1>5

LEMMA ResetTypes ==
  ASSUME NEW ln \in Line, NEW st \in LineStatus
  PROVE  ResetLine(ln, st) \in Line
BY DEF Line, ResetLine

LEMMA DraftTypes ==
  ASSUME NEW ids \in SUBSET LineIds, NEW new \in Drafts(ids)
  PROVE  /\ new \in RowLines /\ DOMAIN new \subseteq ids
         /\ \A l \in DOMAIN new : new[l].status = "DRAFT" /\ new[l].siteBy = NoUser
              /\ new[l].projectBy = NoUser /\ new[l].rejectedBy = NoUser
         /\ Cardinality(DOMAIN new) <= MaxLines
         /\ \A l \in DOMAIN new : new[l].site \in {s \in Sites : site[s].state = "open"} \cup {NoSite}
         /\ \E at \in [DOMAIN new -> Sites \cup {NoSite}], h \in [DOMAIN new -> Hours] :
               new = [l \in DOMAIN new |-> NewLine(at[l], h[l])]
<1>. DEFINE Open == {s \in Sites : site[s].state = "open"} \cup {NoSite}
<1>1. PICK S \in SUBSET ids : Cardinality(S) <= MaxLines /\
        \E at \in [S -> Open], h \in [S -> Hours] : new = [l \in S |-> NewLine(at[l], h[l])]
  BY DEF Drafts
<1>2. PICK at \in [S -> Open], h \in [S -> Hours] : new = [l \in S |-> NewLine(at[l], h[l])]
  BY <1>1
<1>3. DOMAIN new = S
  BY <1>2
<1>4. \A l \in S : /\ new[l] \in Line /\ new[l].status = "DRAFT" /\ new[l].siteBy = NoUser
              /\ new[l].projectBy = NoUser /\ new[l].rejectedBy = NoUser /\ new[l].site = at[l]
  BY <1>2 DEF NewLine, Line, LineStatus, NoAction, ApprovalActions
<1>5. new \in RowLines
  BY <1>2, <1>3, <1>4, RowLinesAre
<1>6. at \in [S -> Sites \cup {NoSite}]
  OBVIOUS
<1>. QED BY <1>1, <1>2, <1>3, <1>4, <1>5, <1>6

LEMMA AggregateType ==
  ASSUME NEW ls
  PROVE  Aggregate(ls) \in SheetStatus \ {"NONE", "DRAFT", "REOPENED"}
BY DEF Aggregate, SheetStatus

---------------------------------------------------------------------------
(* Every statement keeps the types.                                        *)

\* The rows a request leaves when it changes nothing but itself.
LEMMA RequestAlters ==
  ASSUME RequestsTypeOK, NEW r \in Requests, NEW q \in RequestRow,
         req' = [req EXCEPT ![r] = q], RowsTypeOK',
         q.pc # "idle" => q.user \in Users,
         q.pc = "refresh" => q.status # "NONE",
         q.pc = "log" => q.at \in DOMAIN q.lines,
         q.pc \in {"decide", "log"} => q.todo \subseteq DOMAIN q.lines
  PROVE  RequestsTypeOK'
<1>1. req' \in [Requests -> RequestRow] /\ req'[r] = q
  BY DEF RequestsTypeOK
<1>2. \A g \in Requests \ {r} : req'[g] = req[g]
  BY DEF RequestsTypeOK
<1>. QED BY <1>1, <1>2 DEF RequestsTypeOK

LEMMA EndTypes ==
  ASSUME RequestsTypeOK, NEW r \in Requests, End(r), RowsTypeOK'
  PROVE  RequestsTypeOK'
BY RowTypes, RequestAlters DEF End

LEMMA GotoTypes ==
  ASSUME RequestsTypeOK, NEW r \in Requests, req[r].pc # "idle",
         NEW pc \in {"save", "status", "lines", "record"}, Goto(r, pc), RowsTypeOK'
  PROVE  RequestsTypeOK'
<1>. DEFINE q == [req[r] EXCEPT !.pc = pc]
<1>1. q \in RequestRow /\ q.pc = pc /\ q.user \in Users
  BY DEF RequestsTypeOK, RequestRow
<1>2. req' = [req EXCEPT ![r] = q]
  BY DEF Goto, RequestsTypeOK
<1>. HIDE DEF q
<1>. QED BY <1>1, <1>2, RequestAlters

LEMMA RowsStay ==
  ASSUME RequestsTypeOK, UNCHANGED dbVars
  PROVE  RowsTypeOK'
BY DEF RequestsTypeOK, RowsTypeOK, dbVars

LEMMA BeginTypes ==
  ASSUME RequestsTypeOK, NEW r \in Requests, NEW u \in Users, NEW op,
         NEW pc \in {"delete", "save", "gate", "recheck", "status", "decide"},
         NEW todo \in SUBSET LineIds, pc = "decide" => todo \subseteq DOMAIN lines,
         Begin(r, u, op, pc, todo)
  PROVE  RequestsTypeOK'
<1>. DEFINE q == [Idle EXCEPT !.pc = pc, !.op = op, !.user = u, !.row = row,
                              !.sheet = sheet, !.lines = lines, !.todo = todo]
<1>1. q \in RequestRow /\ q.pc = pc /\ q.user = u /\ q.todo = todo /\ q.lines = lines
  BY RowTypes DEF Begin, RequestsTypeOK, RowsTypeOK, RequestRow, Idle
<1>2. req' = [req EXCEPT ![r] = q] /\ RowsTypeOK'
  BY RowsStay DEF Begin
<1>. HIDE DEF q
<1>. QED BY <1>1, <1>2, RequestAlters

\* The lines a request may decide are lines of the sheet.
LEMMA LinesToDecide ==
  ASSUME NEW u, NEW o, NEW ls
  PROVE  ApprovableLines(u, o, ls) \subseteq DOMAIN ls /\ RejectableLines(u, o, ls) \subseteq DOMAIN ls
<1>1. ApprovableLines(u, o, ls) \subseteq DOMAIN ls
  <2>1. CASE ApprovalStage(u, o, ls) = "SITE"
    BY <2>1 DEF ApprovableLines
  <2>2. CASE ApprovalStage(u, o, ls) = "PROJECT"
    BY <2>2 DEF ApprovableLines
  <2>3. CASE ApprovalStage(u, o, ls) \notin {"SITE", "PROJECT"}
    BY <2>3, Zenon DEF ApprovableLines
  <2>. QED BY <2>1, <2>2, <2>3
<1>. QED BY <1>1 DEF RejectableLines

LEMMA ArriveTypes ==
  ASSUME RequestsTypeOK, NEW r \in Requests, NEW u \in Users, Arrive(r, u)
  PROVE  RequestsTypeOK'
<1>1. CASE BeginSave(r, u)
  BY <1>1, BeginTypes DEF BeginSave
<1>2. CASE BeginRemove(r, u)
  BY <1>2, BeginTypes DEF BeginRemove
<1>3. CASE BeginSubmit(r, u)
  BY <1>3, BeginTypes DEF BeginSubmit
<1>4. CASE BeginReopen(r, u)
  BY <1>4, BeginTypes DEF BeginReopen
<1>5. DOMAIN lines \subseteq LineIds
  BY RowLinesAre DEF RequestsTypeOK, RowsTypeOK
<1>6. CASE BeginApprove(r, u)
  BY <1>5, <1>6, LinesToDecide, BeginTypes DEF BeginApprove
<1>7. CASE BeginReject(r, u)
  BY <1>5, <1>7, LinesToDecide, BeginTypes DEF BeginReject
<1>. QED BY <1>1, <1>2, <1>3, <1>4, <1>6, <1>7 DEF Arrive

LEMMA SheetTypes ==
  ASSUME NEW sh \in Sheet, NEW u \in Users, NEW st \in SheetStatus
  PROVE  /\ [sh EXCEPT !.status = st] \in Sheet /\ [sh EXCEPT !.status = st].status = st
         /\ [sh EXCEPT !.action = [by |-> u, status |-> st]] \in Sheet
         /\ [sh EXCEPT !.action = [by |-> u, status |-> st]].status = sh.status
BY DEF Sheet, ApprovalActions

\* The writes of a transition.
LEMMA TransitionTypes ==
  ASSUME RequestsTypeOK, NEW r \in Requests,
         Recheck(r) \/ WriteStatus(r) \/ WriteLines(r) \/ RecordTransition(r)
  PROVE  RequestsTypeOK'
<1>1. CASE Recheck(r)
  BY <1>1, GotoTypes, RowsStay DEF Recheck
<1>2. Target(req[r].op) \in SheetStatus /\ LineTarget(req[r].op) \in LineStatus
  BY DEF Target, LineTarget, SheetStatus, LineStatus
<1>3. CASE WriteStatus(r)
  <2>1. sheet' \in Sheet
    BY <1>2, <1>3, SheetTypes DEF WriteStatus, RequestsTypeOK, RowsTypeOK, Sheet
  <2>2. RowsTypeOK'
    BY <1>3, <2>1 DEF WriteStatus, RequestsTypeOK, RowsTypeOK
  <2>. QED BY <1>3, <2>2, GotoTypes DEF WriteStatus
<1>4. CASE WriteLines(r)
  <2>1. \A l \in DOMAIN lines : ResetLine(lines[l], LineTarget(req[r].op)) \in Line
    BY <1>2, ResetTypes, RowLinesAre DEF RequestsTypeOK, RowsTypeOK
  <2>2. lines' \in RowLines
    BY <1>4, <2>1, RowLinesAre DEF WriteLines, RequestsTypeOK, RowsTypeOK
  <2>3. RowsTypeOK'
    BY <1>4, <2>2 DEF WriteLines, RequestsTypeOK, RowsTypeOK
  <2>. QED BY <1>4, <2>3, GotoTypes DEF WriteLines
<1>5. CASE RecordTransition(r)
  <2>1. req[r].user \in Users
    BY <1>5 DEF RecordTransition, RequestsTypeOK
  <2>2. sheet' \in Sheet
    BY <1>2, <1>5, <2>1, SheetTypes DEF RecordTransition, RequestsTypeOK, RowsTypeOK
  <2>3. RowsTypeOK'
    BY <1>5, <2>2 DEF RecordTransition, RequestsTypeOK, RowsTypeOK
  <2>. QED BY <1>5, <2>3, EndTypes DEF RecordTransition
<1>. QED BY <1>1, <1>3, <1>4, <1>5

\* Those of a save and of a deletion.
LEMMA SaveTypes ==
  ASSUME RequestsTypeOK, NEW r \in Requests,
         \/ Delete(r) \/ Gate(r) \/ DeleteLines(r)
         \/ \E new \in Drafts(LineIds \ used) : ReplaceLines(r, new)
         \/ \E S \in SUBSET DOMAIN req[r].lines : \E edits \in [S -> Hours] :
              EditLines(r, edits)
  PROVE  RequestsTypeOK'
<1>1. CASE Delete(r)
  <2>1. RowsTypeOK'
    BY <1>1, RowTypes DEF Delete, RequestsTypeOK, RowsTypeOK
  <2>. QED BY <1>1, <2>1, EndTypes DEF Delete
<1>2. CASE Gate(r)
  BY <1>2, GotoTypes, RowsStay DEF Gate
<1>3. CASE DeleteLines(r)
  <2>. DEFINE q == [req[r] EXCEPT !.pc = "insert", !.todo = DOMAIN lines]
  <2>1. DOMAIN lines \subseteq LineIds
    BY RowLinesAre DEF RequestsTypeOK, RowsTypeOK
  <2>2. q \in RequestRow /\ q.pc = "insert" /\ q.user \in Users
    <3>1. req[r] \in RequestRow /\ req[r].user \in Users
      BY <1>3 DEF DeleteLines, RequestsTypeOK
    <3>2. q \in RequestRow
      BY <2>1, <3>1 DEF RequestRow
    <3>3. q.pc = "insert" /\ q.user = req[r].user
      BY <3>1 DEF RequestRow
    <3>. QED BY <3>1, <3>2, <3>3
  <2>3. req' = [req EXCEPT ![r] = q]
    BY <1>3 DEF DeleteLines, RequestsTypeOK
  <2>4. RowsTypeOK'
    BY <1>3, RowsStay DEF DeleteLines
  <2>. HIDE DEF q
  <2>. QED BY <2>2, <2>3, <2>4, RequestAlters
<1>4. ASSUME NEW new \in Drafts(LineIds \ used), ReplaceLines(r, new) PROVE RequestsTypeOK'
  <2>1. new \in RowLines
    BY DraftTypes
  <2>2. lines' \in RowLines
    BY <1>4, <2>1, RowLinesAre DEF ReplaceLines, RequestsTypeOK, RowsTypeOK
  <2>3. RowsTypeOK'
    BY <1>4, <2>2 DEF ReplaceLines, RequestsTypeOK, RowsTypeOK
  <2>. QED BY <1>4, <2>3, EndTypes DEF ReplaceLines
<1>5. ASSUME NEW S \in SUBSET DOMAIN req[r].lines, NEW edits \in [S -> Hours],
             EditLines(r, edits)
      PROVE  RequestsTypeOK'
  <2>1. ASSUME NEW l \in DOMAIN lines PROVE lines'[l] \in Line
    <3>1. lines[l] \in Line
      BY RowLinesAre DEF RequestsTypeOK, RowsTypeOK
    <3>2. CASE l \in S
      <4>1. req[r].lines[l] \in Line /\ edits[l] \in Hours
        BY <3>2, RowLinesAre DEF RequestsTypeOK, RequestRow
      <4>2. Corrected(req[r].lines[l], edits[l]) \in Line
        BY <4>1 DEF Corrected, Line, LineStatus
      <4>. QED BY <1>5, <3>1, <3>2, <4>1, <4>2 DEF EditLines, Line
    <3>3. CASE l \notin S
      BY <1>5, <3>1, <3>3 DEF EditLines
    <3>. QED BY <3>2, <3>3
  <2>2. DOMAIN lines' = DOMAIN lines /\ lines' = [l \in DOMAIN lines |-> lines'[l]]
    BY <1>5 DEF EditLines
  <2>3. lines' \in RowLines
    BY <2>1, <2>2, RowLinesAre DEF RequestsTypeOK, RowsTypeOK
  <2>4. RowsTypeOK'
    BY <1>5, <2>3 DEF EditLines, RequestsTypeOK, RowsTypeOK
  <2>. QED BY <1>5, <2>4, EndTypes DEF EditLines
<1>. QED BY <1>1, <1>2, <1>3, <1>4, <1>5

\* Those of a validation.
LEMMA DecisionTypes ==
  ASSUME RequestsTypeOK, NEW r \in Requests,
         \/ \E l \in LineIds : Decide(r, l)
         \/ RecordDecision(r) \/ Reread(r) \/ Refresh(r)
  PROVE  RequestsTypeOK'
<1>1. ASSUME NEW ln \in Line, req[r].user \in Users
      PROVE  Decision(r, ln) \in Line
  BY <1>1, LineTypes DEF Decision
<1>2. ASSUME NEW l \in LineIds, Decide(r, l) PROVE RequestsTypeOK'
  <2>. DEFINE q == [req[r] EXCEPT !.pc = "log", !.at = l, !.todo = @ \ {l}]
  <2>1. l \in DOMAIN lines /\ lines[l] \in Line /\ req[r].user \in Users
    BY <1>2, RowLinesAre DEF Decide, RequestsTypeOK, RowsTypeOK
  <2>2. lines' \in RowLines
    BY <1>1, <1>2, <2>1, RowLinesAre DEF Decide, RequestsTypeOK, RowsTypeOK
  <2>3. RowsTypeOK'
    BY <1>2, <2>2 DEF Decide, RequestsTypeOK, RowsTypeOK
  <2>4. /\ q \in RequestRow /\ q.pc = "log" /\ q.user \in Users
        /\ q.at = l /\ q.lines = req[r].lines /\ q.todo = req[r].todo \ {l}
    <3>1. req[r] \in RequestRow
      BY DEF RequestsTypeOK
    <3>2. q \in RequestRow
      BY <3>1 DEF RequestRow
    <3>3. /\ q.pc = "log" /\ q.user = req[r].user
          /\ q.at = l /\ q.lines = req[r].lines /\ q.todo = req[r].todo \ {l}
      BY <3>1 DEF RequestRow
    <3>. QED BY <2>1, <3>2, <3>3
  <2>5. l \in req[r].todo /\ req[r].todo \subseteq DOMAIN req[r].lines
    BY <1>2 DEF Decide, RequestsTypeOK
  <2>6. req' = [req EXCEPT ![r] = q]
    BY <1>2 DEF Decide, RequestsTypeOK
  <2>. HIDE DEF q
  <2>. QED BY <2>3, <2>4, <2>5, <2>6, RequestAlters
<1>3. CASE RecordDecision(r)
  <2>. DEFINE l == req[r].at
              decided == Decision(r, req[r].lines[l]).status
              q == [req[r] EXCEPT !.at = NoLine,
                                  !.pc = IF req[r].todo = {} THEN "reread" ELSE "decide"]
  <2>1. req[r].user \in Users /\ l \in DOMAIN req[r].lines
    BY <1>3 DEF RecordDecision, RequestsTypeOK
  <2>2. req[r].lines[l] \in Line
    BY <2>1, RowLinesAre DEF RequestsTypeOK, RequestRow
  <2>3. decided \in LineStatus
    BY <1>1, <2>1, <2>2 DEF Line
  <2>4. ASSUME NEW k \in DOMAIN lines
        PROVE  lines[k] \in Line /\ Recorded(lines[k], req[r].user, decided) \in Line
    BY <2>1, <2>3, LineTypes, RowLinesAre DEF RequestsTypeOK, RowsTypeOK
  <2>5. lines' \in RowLines
    <3>. HIDE DEF l, decided
    <3>1. lines' = IF l \in DOMAIN lines
                   THEN [lines EXCEPT ![l] = Recorded(@, req[r].user, decided)] ELSE lines
      BY <1>3 DEF RecordDecision, l, decided
    <3>. QED BY <2>4, <3>1, RowLinesAre DEF RequestsTypeOK, RowsTypeOK
  <2>6. RowsTypeOK'
    BY <1>3, <2>5 DEF RecordDecision, RequestsTypeOK, RowsTypeOK
  <2>7. /\ q \in RequestRow /\ q.pc \in {"reread", "decide"} /\ q.user \in Users
        /\ q.todo = req[r].todo /\ q.lines = req[r].lines
    <3>1. req[r] \in RequestRow
      BY DEF RequestsTypeOK
    <3>2. q \in RequestRow
      BY <3>1 DEF RequestRow
    <3>3. /\ q.pc \in {"reread", "decide"} /\ q.user = req[r].user
          /\ q.todo = req[r].todo /\ q.lines = req[r].lines
      BY <3>1 DEF RequestRow
    <3>. QED BY <2>1, <3>2, <3>3
  <2>8. req[r].todo \subseteq DOMAIN req[r].lines
    BY <1>3 DEF RecordDecision, RequestsTypeOK
  <2>9. req' = [req EXCEPT ![r] = q]
    BY <1>3 DEF RecordDecision, RequestsTypeOK
  <2>. HIDE DEF q
  <2>. QED BY <2>6, <2>7, <2>8, <2>9, RequestAlters
<1>4. CASE Reread(r)
  <2>. DEFINE q == [req[r] EXCEPT !.pc = "refresh", !.status = Aggregate(lines)]
  <2>1. RowsTypeOK'
    BY <1>4, RowsStay DEF Reread
  <2>2. q \in RequestRow /\ q.pc = "refresh" /\ q.user \in Users /\ q.status # "NONE"
    <3>1. req[r] \in RequestRow /\ req[r].user \in Users
      BY <1>4 DEF Reread, RequestsTypeOK
    <3>2. Aggregate(lines) \in SheetStatus /\ Aggregate(lines) # "NONE"
      BY AggregateType DEF SheetStatus
    <3>3. q \in RequestRow
      BY <3>1, <3>2 DEF RequestRow
    <3>4. q.pc = "refresh" /\ q.user = req[r].user /\ q.status = Aggregate(lines)
      BY <3>1 DEF RequestRow
    <3>. QED BY <3>1, <3>2, <3>3, <3>4
  <2>3. req' = [req EXCEPT ![r] = q]
    BY <1>4 DEF Reread, RequestsTypeOK
  <2>. HIDE DEF q
  <2>. QED BY <2>1, <2>2, <2>3, RequestAlters
<1>5. CASE Refresh(r)
  <2>1. req[r].status \in SheetStatus
    BY <1>5 DEF Refresh, RequestsTypeOK, RequestRow
  <2>2. sheet' \in Sheet
    BY <1>5, <2>1 DEF Refresh, RequestsTypeOK, RowsTypeOK, Sheet
  <2>3. RowsTypeOK'
    BY <1>5, <2>2 DEF Refresh, RequestsTypeOK, RowsTypeOK
  <2>. QED BY <1>5, <2>3, EndTypes DEF Refresh
<1>. QED BY <1>2, <1>3, <1>4, <1>5

\* A request that is refused, or dies, leaves the rows alone.
LEMMA EndingTypes ==
  ASSUME RequestsTypeOK, NEW r \in Requests, Fail(r) \/ Crash(r)
  PROVE  RequestsTypeOK'
BY RowsStay, EndTypes DEF Fail, Crash

\* So does a creation leave the requests.
LEMMA CreateTypes ==
  ASSUME RequestsTypeOK, NEW u \in Users, NEW o \in Users, Create(u, o)
  PROVE  RequestsTypeOK'
<1>1. sheet' \in Sheet
  BY RowTypes DEF Create, Sheet, SheetStatus
<1>2. RowsTypeOK'
  BY <1>1 DEF Create, RequestsTypeOK, RowsTypeOK
<1>. QED BY <1>2 DEF Create, RequestsTypeOK

LEMMA TypesKept ==
  ASSUME RequestsTypeOK, [Next]_vars
  PROVE  RequestsTypeOK'
<1>1. CASE UNCHANGED vars
  BY <1>1 DEF vars, dbVars, RequestsTypeOK, RowsTypeOK
<1>2. ASSUME NEW u \in Users, NEW o \in Users, Create(u, o) PROVE RequestsTypeOK'
  BY <1>2, CreateTypes
<1>3. ASSUME NEW r \in Requests, NEW u \in Users, Arrive(r, u) PROVE RequestsTypeOK'
  BY <1>3, ArriveTypes
<1>4. ASSUME NEW r \in Requests, Step(r) \/ Crash(r) PROVE RequestsTypeOK'
  BY <1>4, TransitionTypes, SaveTypes, DecisionTypes, EndingTypes DEF Step
<1>. QED BY <1>1, <1>2, <1>3, <1>4 DEF Next

\* The tenants a behaviour starts from, with no sheet or a submitted one.
LEMMA InitTypes == Init => RequestsTypeOK /\ LinesGoWithTheSheet
<1>. SUFFICES ASSUME Init PROVE RequestsTypeOK /\ LinesGoWithTheSheet
  OBVIOUS
<1>1. /\ req \in [Requests -> RequestRow]
      /\ \A r \in Requests : req[r].pc = "idle"
  BY RowTypes DEF Init
<1>2. CASE Submitters = {}
  BY <1>1, <1>2, RowTypes DEF Init, RequestsTypeOK, RowsTypeOK, LinesGoWithTheSheet
<1>3. CASE Submitters # {}
  <2>1. PICK o \in Submitters, draft \in Drafts(LineIds) : Submitted(o, draft)
    BY <1>3 DEF Init
  <2>2. o \in Users
    BY RequestsAssumption
  <2>3. draft \in RowLines
    BY DraftTypes
  <2>4. \A l \in DOMAIN draft : ResetLine(draft[l], "SUBMITTED") \in Line
    BY <2>3, RowLinesAre, ResetTypes DEF LineStatus
  <2>5. lines \in RowLines
    BY <2>1, <2>3, <2>4, RowLinesAre DEF Submitted
  <2>6. sheet \in Sheet /\ sheet.status = "SUBMITTED" /\ row = 1
    BY <2>1, <2>2 DEF Submitted, Sheet, SheetStatus, ApprovalActions
  <2>. QED BY <1>1, <2>5, <2>6 DEF RequestsTypeOK, RowsTypeOK, LinesGoWithTheSheet
<1>. QED BY <1>2, <1>3

\* No sheet, no lines: RequestsTypeOK is all the invariant needs beside itself,
\* because every statement that could bring a line back looks for the row of the
\* sheet, or for the line, first.
LEMMA GoneStepInv ==
  ASSUME RequestsTypeOK, LinesGoWithTheSheet, [Next]_vars
  PROVE  LinesGoWithTheSheet'
<1>. USE DEF LinesGoWithTheSheet
<1>1. CASE UNCHANGED dbVars
  BY <1>1 DEF dbVars
<1>2. ASSUME NEW u \in Users, NEW o \in Users, Create(u, o) PROVE LinesGoWithTheSheet'
  BY <1>2 DEF Create, NoSheet
<1>3. ASSUME NEW r \in Requests, NEW u \in Users, Arrive(r, u) PROVE UNCHANGED dbVars
  BY <1>3 DEF Arrive, BeginSave, BeginRemove, BeginSubmit, BeginReopen, BeginApprove,
              BeginReject, Begin
<1>4. ASSUME NEW r \in Requests, Step(r), ~UNCHANGED dbVars PROVE LinesGoWithTheSheet'
  <2>1. CASE Delete(r)
    BY <2>1 DEF Delete
  <2>2. ~Gate(r) /\ ~DeleteLines(r) /\ ~Recheck(r) /\ ~Reread(r) /\ ~Fail(r)
    BY <1>4 DEF Gate, DeleteLines, Recheck, Reread, Fail
  <2>3. CASE \E new \in Drafts(LineIds \ used) : ReplaceLines(r, new)
    BY <2>3 DEF ReplaceLines, RowIsGone
  <2>4. ASSUME NEW S \in SUBSET DOMAIN req[r].lines, NEW edits \in [S -> Hours],
               EditLines(r, edits)
        PROVE  LinesGoWithTheSheet'
    <3>1. DOMAIN lines' = DOMAIN lines /\ sheet' = sheet
      BY <2>4 DEF EditLines
    <3>2. DOMAIN lines = {} => lines' = lines
      BY <2>4 DEF EditLines, RequestsTypeOK, RowsTypeOK, RowLines
    <3>. QED BY <3>1, <3>2 DEF NoLines
  <2>5. CASE WriteStatus(r)
    BY <2>5 DEF WriteStatus, Target, RequestsTypeOK, RowsTypeOK, Sheet
  <2>6. CASE WriteLines(r)
    BY <2>6 DEF WriteLines, RowIsGone
  <2>7. CASE RecordTransition(r)
    BY <2>7 DEF RecordTransition, RequestsTypeOK, RowsTypeOK, Sheet
  <2>8. CASE \E l \in LineIds : Decide(r, l)
    BY <2>8 DEF Decide, NoLines
  <2>9. CASE RecordDecision(r)
    BY <2>9 DEF RecordDecision, NoLines
  <2>10. CASE Refresh(r)
    BY <2>10 DEF Refresh, RequestsTypeOK, RowsTypeOK, Sheet
  <2>. QED BY <1>4, <2>1, <2>2, <2>3, <2>4, <2>5, <2>6, <2>7, <2>8, <2>9, <2>10 DEF Step
<1>5. ASSUME NEW r \in Requests, Crash(r) PROVE UNCHANGED dbVars
  BY <1>5 DEF Crash
<1>. QED BY <1>1, <1>2, <1>3, <1>4, <1>5 DEF Next, vars, dbVars

\* Every timesheet row and every line row is well typed, whatever requests run
\* together and whichever of them die, and a request about to write an aggregate
\* has computed one.
THEOREM RequestsTypeCorrect == Spec => []RequestsTypeOK
<1>1. Init => RequestsTypeOK
  BY InitTypes
<1>2. RequestsTypeOK /\ [Next]_vars => RequestsTypeOK'
  BY TypesKept
<1>. QED BY <1>1, <1>2, PTL DEF Spec

\* No line outlives its sheet, however many requests of whatever kind run
\* together and wherever they die: a save open when the sheet is deleted, an
\* approval half way through its lines, a submission, bring no line back.
THEOREM LinesNeverOutliveTheSheet == Spec => []LinesGoWithTheSheet
<1>. DEFINE I == RequestsTypeOK /\ LinesGoWithTheSheet
<1>1. Init => I
  BY InitTypes
<1>2. I /\ [Next]_vars => I'
  BY TypesKept, GoneStepInv
<1>3. I => LinesGoWithTheSheet
  OBVIOUS
<1>. QED BY <1>1, <1>2, <1>3, PTL DEF Spec

---------------------------------------------------------------------------
(* One request at a time.  It finds the rows as it read them until its     *)
(* first write, and from then on they are what it has made of them: the    *)
(* invariant follows it statement by statement, wherever it may die.       *)

OneRequest == \A q, r \in Requests : q = r

\* What a decision of request q makes of a line, and the lines it covers.
DecisionBy(q, ln) ==
  IF q.op = "reject" THEN Rejected(ln, q.user)
  ELSE Approved(ln, q.user, ApprovalStage(q.user, q.sheet.owner, q.lines))

Covered(q) ==
  IF q.op = "reject" THEN RejectableLines(q.user, q.sheet.owner, q.lines)
  ELSE ApprovableLines(q.user, q.sheet.owner, q.lines)

\* The lines half way through a validation: the last one decided may still miss
\* its approval action.
DecidedLine(q, l) ==
  IF l = q.at THEN DecisionBy(q, q.lines[l])
  ELSE Recorded(DecisionBy(q, q.lines[l]), q.user, DecisionBy(q, q.lines[l]).status)

PartDecided(q) ==
  [l \in DOMAIN q.lines |-> IF l \in Covered(q) \ q.todo THEN DecidedLine(q, l)
                                                         ELSE q.lines[l]]

Unwritten == {"delete", "save", "gate", "insert", "recheck", "status"}
Deciding == {"decide", "log", "reread", "refresh"}

\* The rows, when request q is where it is.
Reached(q, sh, ls) ==
  /\ q.pc \in Unwritten \cup Deciding => sh = q.sheet
  /\ q.pc \in Unwritten \cup {"lines"} => ls = q.lines
  /\ q.pc \in {"lines", "record"} => sh = [q.sheet EXCEPT !.status = Target(q.op)]
  /\ q.pc = "record" =>
       ls = [l \in DOMAIN q.lines |-> ResetLine(q.lines[l], LineTarget(q.op))]
  /\ q.pc \in Deciding => ls = PartDecided(q)
  /\ q.pc = "refresh" => q.status = Aggregate(ls)

\* What let request q come where it is.
Entitled(q) ==
  /\ q.sheet.status \notin {"NONE", "APPROVED"}
  /\ q.pc = "delete" => q.sheet.status = "DRAFT" /\ q.sheet.owner = q.user
  /\ q.pc \in {"save", "gate"} => InScope(q.user, q.sheet)
  /\ q.pc = "insert" => /\ q.sheet.status \in Editable /\ q.sheet.owner = q.user
                        /\ q.todo = DOMAIN q.lines
  /\ q.pc = "recheck" => /\ q.op = "reopen" /\ InScope(q.user, q.sheet)
                         /\ role[q.user] \in {"RESOURCE_MANAGER", "HR"}
  /\ q.pc \in {"status", "lines", "record"} =>
       \/ q.op = "submit" /\ CanSubmit(q.user, q.sheet, q.lines)
       \/ q.op = "reopen" /\ CanReopen(q.user, q.sheet)
  /\ q.pc \in Deciding =>
       /\ q.op \in {"approve", "reject"}
       /\ Covered(q) # {} /\ q.todo \subseteq Covered(q)
       /\ IF q.pc = "log" THEN q.at \in Covered(q) \ q.todo ELSE q.at = NoLine
       /\ q.pc \in {"reread", "refresh"} => q.todo = {}

\* The signatures of a line are those its status claims.
LineSound(ln) ==
  /\ ln.status = "DRAFT" => ln.siteBy = NoUser
  /\ ln.projectBy # NoUser <=> ln.status = "APPROVED"
  /\ ln.rejectedBy # NoUser <=> ln.status = "REJECTED"
  /\ ln.status \in {"SITE_APPROVED", "REJECTED"} => ln.siteBy # NoUser

RowsSound(sh, ls) ==
  /\ \A l \in DOMAIN ls : LineSound(ls[l])
  /\ sh.status = "APPROVED" => \A l \in DOMAIN ls : ls[l].status = "APPROVED"

SoloInv ==
  /\ RequestsTypeOK
  /\ RowsSound(sheet, lines)
  /\ \A r \in Requests : req[r].pc # "idle" =>
       req[r].row = row /\ Entitled(req[r]) /\ Reached(req[r], sheet, lines)

\* While the organisation stands still, so do the rules.
LEMMA RulesAreFixed ==
  ASSUME UNCHANGED orgVars
  PROVE  /\ \A u, sh : InScope(u, sh)' <=> InScope(u, sh)
         /\ \A u, o, ls : ApprovalStage(u, o, ls)' = ApprovalStage(u, o, ls)
         /\ \A u, o, ls : ApprovableLines(u, o, ls)' = ApprovableLines(u, o, ls)
         /\ \A u, o, ls : RejectableLines(u, o, ls)' = RejectableLines(u, o, ls)
         /\ \A u, sh, ls : CanSubmit(u, sh, ls)' <=> CanSubmit(u, sh, ls)
         /\ \A u, sh : CanReopen(u, sh)' <=> CanReopen(u, sh)
         /\ \A u, sh, ls : EditableLines(u, sh, ls)' = EditableLines(u, sh, ls)
         /\ \A o, ln : OwnerManages(o, ln)' <=> OwnerManages(o, ln)
         /\ role' = role
<1>. USE DEF orgVars, people
<1>1. role' = role
  OBVIOUS
<1>2. \A s : ManagerOf(s)' = ManagerOf(s) /\ ProjectOf(s)' = ProjectOf(s) /\ ChiefOf(s)' = ChiefOf(s)
  BY DEF ManagerOf, ProjectOf, ChiefOf
<1>3. \A u : ManagedUsers(u)' = ManagedUsers(u)
  BY DEF ManagedUsers, DirectedSites, StaffOf, ManagerOf, ProjectOf, ChiefOf
<1>4. ASSUME NEW u, NEW sh PROVE InScope(u, sh)' <=> InScope(u, sh)
  BY <1>3 DEF InScope
<1>5. ASSUME NEW u, NEW o, NEW ln
      PROVE  /\ OwnerManages(o, ln)' <=> OwnerManages(o, ln)
             /\ ManagesLine(u, o, ln)' <=> ManagesLine(u, o, ln)
             /\ SiteDecidable(u, o, ln)' <=> SiteDecidable(u, o, ln)
             /\ ProjectDecidable(u, o, ln)' <=> ProjectDecidable(u, o, ln)
             /\ ReadyForProject(o, ln)' <=> ReadyForProject(o, ln)
  BY <1>2 DEF OwnerManages, ManagesLine, SiteDecidable, ProjectDecidable, ReadyForProject
<1>6. ASSUME NEW u, NEW o, NEW ls
      PROVE  /\ ApprovalStage(u, o, ls)' = ApprovalStage(u, o, ls)
             /\ ApprovableLines(u, o, ls)' = ApprovableLines(u, o, ls)
             /\ RejectableLines(u, o, ls)' = RejectableLines(u, o, ls)
  <2>1. ApprovalStage(u, o, ls)' = ApprovalStage(u, o, ls)
    BY <1>5 DEF ApprovalStage
  <2>2. ApprovableLines(u, o, ls)' = ApprovableLines(u, o, ls)
    BY <1>5, <2>1 DEF ApprovableLines
  <2>3. RejectableLines(u, o, ls)' = RejectableLines(u, o, ls)
    BY <1>2, <1>5, <2>1 DEF RejectableLines
  <2>. QED BY <2>1, <2>2, <2>3
<1>7. ASSUME NEW u, NEW sh, NEW ls
      PROVE  CanSubmit(u, sh, ls)' <=> CanSubmit(u, sh, ls)
  BY <1>2, <1>4 DEF CanSubmit, Routed
<1>8. ASSUME NEW u, NEW sh PROVE CanReopen(u, sh)' <=> CanReopen(u, sh)
  BY <1>4 DEF CanReopen
<1>9. ASSUME NEW u, NEW sh, NEW ls
      PROVE  EditableLines(u, sh, ls)' = EditableLines(u, sh, ls)
  BY <1>1, <1>2, <1>5 DEF EditableLines, CanEditLine
<1>. QED BY <1>1, <1>4, <1>5, <1>6, <1>7, <1>8, <1>9

LEMMA StandingIsFixed ==
  ASSUME UNCHANGED orgVars, NEW q, NEW sh, NEW ls
  PROVE  /\ Covered(q)' = Covered(q)
         /\ PartDecided(q)' = PartDecided(q)
         /\ Reached(q, sh, ls) => Reached(q, sh, ls)'
         /\ Entitled(q) => Entitled(q)'
<1>1. Covered(q)' = Covered(q)
  BY RulesAreFixed DEF Covered
<1>2. \A ln : DecisionBy(q, ln)' = DecisionBy(q, ln)
  BY RulesAreFixed DEF DecisionBy
<1>3. PartDecided(q)' = PartDecided(q)
  BY <1>1, <1>2 DEF PartDecided, DecidedLine
<1>4. Reached(q, sh, ls) => Reached(q, sh, ls)'
  BY <1>3 DEF Reached
<1>5. Entitled(q) => Entitled(q)'
  BY <1>1, RulesAreFixed DEF Entitled
<1>. QED BY <1>1, <1>3, <1>4, <1>5

\* A step of the only request: what has to be shown of it.
LEMMA SoloAlters ==
  ASSUME SoloInv, OneRequest, RequestsTypeOK', UNCHANGED orgVars, NEW r \in Requests,
         NEW q, NEW sh, NEW ls,
         req'[r] = q, sheet' = sh, lines' = ls, RowsSound(sh, ls),
         q.pc # "idle" => q.row = row' /\ Entitled(q) /\ Reached(q, sh, ls)
  PROVE  SoloInv'
<1>1. RowsSound(sheet, lines)'
  BY DEF RowsSound, LineSound
<1>2. q.pc # "idle" => Entitled(q)' /\ Reached(q, sh, ls)'
  BY StandingIsFixed
<1>3. q.pc # "idle" => req'[r].row = row' /\ Entitled(req[r])' /\ Reached(req[r], sheet, lines)'
  BY <1>2
<1>4. \A g \in Requests : g = r
  BY DEF OneRequest
<1>. QED BY <1>1, <1>3, <1>4 DEF SoloInv

\* Every write leaves sound lines where it found some.
LEMMA SoundLines ==
  ASSUME NEW ln \in Line, LineSound(ln)
  PROVE  /\ \A st \in {"SUBMITTED", "DRAFT"} : LineSound(ResetLine(ln, st))
         /\ \A h \in Hours : LineSound(Corrected(ln, h))
         /\ \A u \in Users, st \in LineStatus : LineSound(Recorded(ln, u, st))
         /\ \A u \in Users :
              /\ ln.status = "SUBMITTED" => LineSound(Approved(ln, u, "SITE"))
              /\ ln.status \in {"SUBMITTED", "SITE_APPROVED"} =>
                   LineSound(Approved(ln, u, "PROJECT"))
              /\ ln.status = "SITE_APPROVED" => LineSound(Rejected(ln, u))
<1>. USE OrganisationAssumption DEF LineSound, Line, LineStatus
<1>1. \A st \in {"SUBMITTED", "DRAFT"} : LineSound(ResetLine(ln, st))
  BY DEF ResetLine
<1>2. \A h \in Hours : LineSound(Corrected(ln, h))
  BY DEF Corrected
<1>3. \A u \in Users, st \in LineStatus : LineSound(Recorded(ln, u, st))
  BY DEF Recorded
<1>4. ASSUME NEW u \in Users
      PROVE  /\ ln.status = "SUBMITTED" => LineSound(Approved(ln, u, "SITE"))
             /\ ln.status \in {"SUBMITTED", "SITE_APPROVED"} =>
                  LineSound(Approved(ln, u, "PROJECT"))
             /\ ln.status = "SITE_APPROVED" => LineSound(Rejected(ln, u))
  BY DEF Approved, Rejected
<1>. QED BY <1>1, <1>2, <1>3, <1>4

\* The lines a validation covers are of the sheet, unsigned by the chief, and
\* become sound ones; there are none in an approved sheet.
LEMMA CoveredFacts ==
  ASSUME NEW q \in RequestRow
  PROVE  /\ Covered(q) \subseteq DOMAIN q.lines
         /\ Covered(q) # {} /\ q.op # "reject" =>
              ApprovalStage(q.user, q.sheet.owner, q.lines) \in {"SITE", "PROJECT"}
         /\ \A l \in Covered(q) :
              q.lines[l].status =
                IF q.op = "reject" THEN "SITE_APPROVED"
                ELSE IF ApprovalStage(q.user, q.sheet.owner, q.lines) = "SITE"
                     THEN "SUBMITTED"
                     ELSE IF OwnerManages(q.sheet.owner, q.lines[l])
                          THEN "SUBMITTED" ELSE "SITE_APPROVED"
<1>. DEFINE stage == ApprovalStage(q.user, q.sheet.owner, q.lines)
<1>1. Covered(q) \subseteq DOMAIN q.lines
  BY LinesToDecide DEF Covered
<1>2. CASE q.op = "reject"
  BY <1>1, <1>2 DEF Covered, RejectableLines
<1>3. CASE q.op # "reject" /\ stage = "SITE"
  BY <1>1, <1>3 DEF Covered, ApprovableLines, SiteDecidable
<1>4. CASE q.op # "reject" /\ stage = "PROJECT"
  BY <1>1, <1>4 DEF Covered, ApprovableLines, ProjectDecidable
<1>5. CASE q.op # "reject" /\ stage \notin {"SITE", "PROJECT"}
  <2>1. ApprovableLines(q.user, q.sheet.owner, q.lines) = {}
    BY <1>5, Zenon DEF ApprovableLines
  <2>. QED BY <1>1, <1>5, <2>1 DEF Covered
<1>. QED BY <1>2, <1>3, <1>4, <1>5

LEMMA DecisionIsSound ==
  ASSUME NEW q \in RequestRow, q.user \in Users, NEW l \in Covered(q), LineSound(q.lines[l])
  PROVE  DecisionBy(q, q.lines[l]) \in Line /\ LineSound(DecisionBy(q, q.lines[l]))
<1>1. q.lines[l] \in Line
  BY CoveredFacts, RowLinesAre DEF RequestRow
<1>2. DecisionBy(q, q.lines[l]) \in Line
  BY <1>1, LineTypes DEF DecisionBy
<1>3. LineSound(DecisionBy(q, q.lines[l]))
  <2>1. CASE q.op = "reject"
    BY <1>1, <2>1, CoveredFacts, SoundLines DEF DecisionBy
  <2>2. CASE q.op # "reject"
    BY <1>1, <2>2, CoveredFacts, SoundLines DEF DecisionBy
  <2>. QED BY <2>1, <2>2
<1>. QED BY <1>2, <1>3

LEMMA NothingLeftToDecide ==
  ASSUME NEW u, NEW o, NEW ls, \A l \in DOMAIN ls : ls[l].status = "APPROVED"
  PROVE  ApprovableLines(u, o, ls) = {} /\ RejectableLines(u, o, ls) = {}
<1>1. ApprovalStage(u, o, ls) = "NONE"
  BY DEF ApprovalStage, ProjectDecidable
<1>2. ApprovableLines(u, o, ls) = {}
  BY <1>1, Zenon DEF ApprovableLines
<1>. QED BY <1>1, <1>2 DEF RejectableLines

\* What request r has read when it arrives.
Arrived(q, u, op, pc, todo, sh, ls, n) ==
  /\ q \in RequestRow
  /\ q.pc = pc /\ q.op = op /\ q.user = u /\ q.todo = todo /\ q.at = NoLine
  /\ q.sheet = sh /\ q.lines = ls /\ q.row = n

LEMMA ArrivalFacts ==
  ASSUME RequestsTypeOK, NEW r \in Requests, NEW u \in Users, NEW op,
         NEW pc \in {"delete", "save", "gate", "recheck", "status", "decide"},
         NEW todo \in SUBSET LineIds, Begin(r, u, op, pc, todo)
  PROVE  Arrived(req'[r], u, op, pc, todo, sheet, lines, row)
<1>. DEFINE q == [Idle EXCEPT !.pc = pc, !.op = op, !.user = u, !.row = row,
                              !.sheet = sheet, !.lines = lines, !.todo = todo]
<1>1. q \in RequestRow
  BY RowTypes DEF Begin, RequestsTypeOK, RowsTypeOK, RequestRow, Idle
<1>2. /\ q.pc = pc /\ q.op = op /\ q.user = u /\ q.todo = todo /\ q.at = NoLine
      /\ q.sheet = sheet /\ q.lines = lines /\ q.row = row
  BY DEF Idle
<1>3. req'[r] = q
  BY DEF Begin, RequestsTypeOK
<1>. HIDE DEF q
<1>. QED BY <1>1, <1>2, <1>3 DEF Arrived

LEMMA SoloBegins ==
  ASSUME SoloInv, OneRequest, RequestsTypeOK', UNCHANGED orgVars, UNCHANGED dbVars,
         NEW r \in Requests, NEW u \in Users, NEW op,
         NEW pc \in {"delete", "save", "gate", "recheck", "status", "decide"},
         NEW todo, NEW q, req'[r] = q, Arrived(q, u, op, pc, todo, sheet, lines, row),
         Entitled(q), pc = "decide" => todo = Covered(q)
  PROVE  SoloInv'
<1>1. PICK sh, ls : sheet = sh /\ lines = ls
  OBVIOUS
<1>2. sheet' = sh /\ lines' = ls /\ row' = row /\ RowsSound(sh, ls)
  BY <1>1 DEF dbVars, SoloInv
<1>3. /\ q.sheet = sh /\ q.lines = ls /\ q.row = row /\ q.pc = pc /\ q.todo = todo
      /\ q \in RequestRow
  BY <1>1 DEF Arrived
<1>4. ls = [l \in DOMAIN ls |-> ls[l]]
  BY <1>3, RowLinesAre DEF RequestRow
<1>5. pc = "decide" => ls = PartDecided(q)
  BY <1>3, <1>4 DEF PartDecided
<1>6. Reached(q, sh, ls)
  BY <1>3, <1>5 DEF Reached, Unwritten, Deciding
<1>. QED BY <1>2, <1>3, <1>6, SoloAlters

LEMMA SoloArrives ==
  ASSUME SoloInv, OneRequest, RequestsTypeOK', UNCHANGED orgVars,
         NEW r \in Requests, NEW u \in Users, Arrive(r, u)
  PROVE  SoloInv'
<1>1. PICK q : q = req'[r]
  OBVIOUS
<1>. DEFINE At(op, pc, todo) == Arrived(q, u, op, pc, todo, sheet, lines, row)
<1>2. RequestsTypeOK /\ DOMAIN lines \subseteq LineIds
  BY RowLinesAre DEF SoloInv, RequestsTypeOK, RowsTypeOK
<1>3. ASSUME NEW op, NEW pc \in {"delete", "save", "gate", "recheck", "status", "decide"},
             NEW todo \in SUBSET LineIds, Begin(r, u, op, pc, todo)
      PROVE  At(op, pc, todo) /\ UNCHANGED dbVars /\ sheet.status # "NONE"
  BY <1>1, <1>2, <1>3, ArrivalFacts DEF Begin
<1>4. ASSUME NEW op, NEW pc \in {"delete", "save", "gate", "recheck", "status", "decide"},
             NEW todo, At(op, pc, todo), UNCHANGED dbVars, Entitled(q),
             pc = "decide" => todo = Covered(q)
      PROVE  SoloInv'
  BY <1>1, <1>4, SoloBegins
<1>. HIDE DEF At
<1>5. CASE BeginRemove(r, u)
  <2>1. At("remove", "delete", {}) /\ UNCHANGED dbVars
    BY <1>3, <1>5 DEF BeginRemove
  <2>2. Entitled(q)
    BY <1>5, <2>1 DEF At, Arrived, BeginRemove, Entitled, Deciding
  <2>. QED BY <1>4, <2>1, <2>2
<1>6. CASE BeginSave(r, u)
  <2>1. /\ At("save", "save", {}) \/ At("save", "gate", {})
        /\ UNCHANGED dbVars
    BY <1>3, <1>6 DEF BeginSave
  <2>2. Entitled(q)
    BY <1>6, <2>1 DEF At, Arrived, BeginSave, Entitled, Deciding, InScope, Editable
  <2>. QED BY <1>4, <2>1, <2>2
<1>7. CASE BeginSubmit(r, u)
  <2>1. At("submit", "status", {}) /\ UNCHANGED dbVars
    BY <1>3, <1>7 DEF BeginSubmit
  <2>2. Entitled(q)
    BY <1>7, <2>1 DEF At, Arrived, BeginSubmit, CanSubmit, Entitled, Deciding, InScope, Editable
  <2>. QED BY <1>4, <2>1, <2>2
<1>8. CASE BeginReopen(r, u)
  <2>1. At("reopen", "recheck", {}) /\ UNCHANGED dbVars
    BY <1>3, <1>8 DEF BeginReopen
  <2>2. Entitled(q)
    BY <1>8, <2>1 DEF At, Arrived, BeginReopen, Entitled, Deciding, InScope
  <2>. QED BY <1>4, <2>1, <2>2
<1>9. sheet.status = "APPROVED" => /\ ApprovableLines(u, sheet.owner, lines) = {}
                                  /\ RejectableLines(u, sheet.owner, lines) = {}
  BY NothingLeftToDecide DEF SoloInv, RowsSound
<1>10. CASE BeginApprove(r, u)
  <2>. DEFINE todo == ApprovableLines(u, sheet.owner, lines)
  <2>1. todo # {} /\ todo \in SUBSET LineIds /\ Begin(r, u, "approve", "decide", todo)
    BY <1>2, <1>10, LinesToDecide DEF BeginApprove
  <2>2. At("approve", "decide", todo) /\ UNCHANGED dbVars /\ sheet.status # "NONE"
    BY <1>3, <2>1
  <2>3. Covered(q) = todo
    BY <2>2 DEF At, Arrived, Covered
  <2>4. Entitled(q)
    BY <1>9, <2>1, <2>2, <2>3 DEF At, Arrived, Entitled, Deciding
  <2>. QED BY <1>4, <2>2, <2>3, <2>4
<1>11. CASE BeginReject(r, u)
  <2>. DEFINE todo == RejectableLines(u, sheet.owner, lines)
  <2>1. todo # {} /\ todo \in SUBSET LineIds /\ Begin(r, u, "reject", "decide", todo)
    BY <1>2, <1>11, LinesToDecide DEF BeginReject
  <2>2. At("reject", "decide", todo) /\ UNCHANGED dbVars /\ sheet.status # "NONE"
    BY <1>3, <2>1
  <2>3. Covered(q) = todo
    BY <2>2 DEF At, Arrived, Covered
  <2>4. Entitled(q)
    BY <1>9, <2>1, <2>2, <2>3 DEF At, Arrived, Entitled, Deciding
  <2>. QED BY <1>4, <2>2, <2>3, <2>4
<1>. QED BY <1>5, <1>6, <1>7, <1>8, <1>10, <1>11 DEF Arrive

\* What SoloInv says of a request under way.
LEMMA UnderWay ==
  ASSUME SoloInv, NEW r \in Requests, req[r].pc # "idle",
         NEW q, NEW sh, NEW ls, q = req[r], sh = sheet, ls = lines
  PROVE  /\ q \in RequestRow /\ q.user \in Users /\ q.row = row
         /\ sh \in Sheet /\ ls \in RowLines
         /\ Entitled(q) /\ Reached(q, sh, ls) /\ RowsSound(sh, ls)
BY DEF SoloInv, RequestsTypeOK, RowsTypeOK

LEMMA SoloEnds ==
  ASSUME SoloInv, OneRequest, RequestsTypeOK', UNCHANGED orgVars, NEW r \in Requests,
         End(r), RowsSound(sheet', lines')
  PROVE  SoloInv'
<1>1. PICK q, sh, ls : q = Idle /\ sh = sheet' /\ ls = lines'
  OBVIOUS
<1>2. req'[r] = q /\ q.pc = "idle"
  BY <1>1, RowTypes DEF End, SoloInv, RequestsTypeOK
<1>. QED BY <1>1, <1>2, SoloAlters

\* The request moves on to the statement of another name.
LEMMA MovedOn ==
  ASSUME NEW q \in RequestRow, NEW pc, NEW q1, q1 = [q EXCEPT !.pc = pc]
  PROVE  /\ q1.pc = pc /\ q1.row = q.row /\ q1.op = q.op /\ q1.user = q.user
         /\ q1.sheet = q.sheet /\ q1.lines = q.lines /\ q1.todo = q.todo /\ q1.at = q.at
         /\ q1.status = q.status
BY DEF RequestRow

LEMMA SoloMoves ==
  ASSUME SoloInv, OneRequest, RequestsTypeOK', UNCHANGED orgVars, NEW r \in Requests,
         NEW pc, Goto(r, pc), row' = row,
         NEW q, NEW q1, NEW sh, NEW ls, q = req[r], q1 = [q EXCEPT !.pc = pc],
         q.pc # "idle", sheet' = sh, lines' = ls, RowsSound(sh, ls), Entitled(q1), Reached(q1, sh, ls)
  PROVE  SoloInv'
<1>1. q \in RequestRow /\ q.row = row
  BY DEF SoloInv, RequestsTypeOK
<1>2. req'[r] = q1 /\ q1.row = row'
  BY <1>1, MovedOn DEF Goto, SoloInv, RequestsTypeOK
<1>. QED BY <1>2, SoloAlters

LEMMA SoloSaves ==
  ASSUME SoloInv, OneRequest, RequestsTypeOK', UNCHANGED orgVars, NEW r \in Requests,
         \/ Delete(r) \/ Gate(r) \/ DeleteLines(r)
         \/ \E new \in Drafts(LineIds \ used) : ReplaceLines(r, new)
         \/ \E S \in SUBSET DOMAIN req[r].lines : \E edits \in [S -> Hours] :
              EditLines(r, edits)
  PROVE  SoloInv'
<1>1. PICK q, sh, ls : q = req[r] /\ sh = sheet /\ ls = lines
  OBVIOUS
<1>2. /\ q.pc # "idle" /\ q \in RequestRow /\ q.user \in Users /\ q.row = row
      /\ sh \in Sheet /\ ls \in RowLines
      /\ Entitled(q) /\ Reached(q, sh, ls) /\ RowsSound(sh, ls)
  <2>1. req[r].pc # "idle"
    BY DEF Delete, Gate, DeleteLines, ReplaceLines, EditLines
  <2>. QED BY <1>1, <2>1, UnderWay
<1>3. q.pc \in Unwritten => sh = q.sheet /\ ls = q.lines /\ sh.status # "APPROVED"
  BY <1>2 DEF Reached, Entitled
<1>4. CASE Delete(r)
  <2>1. RowsSound(sheet', lines')
    BY <1>4 DEF Delete, RowsSound, NoLines, NoSheet
  <2>. QED BY <1>4, <2>1, SoloEnds DEF Delete
<1>5. CASE Gate(r)
  <2>1. PICK q1 : q1 = [q EXCEPT !.pc = "save"]
    OBVIOUS
  <2>2. q.pc = "gate" /\ Goto(r, "save") /\ sheet' = sh /\ lines' = ls /\ row' = row
    BY <1>1, <1>5 DEF Gate, dbVars
  <2>3. Entitled(q1) /\ Reached(q1, sh, ls)
    BY <1>2, <1>3, <2>1, <2>2, MovedOn DEF Entitled, Reached, Unwritten, Deciding
  <2>. QED BY <1>1, <1>2, <2>1, <2>2, <2>3, SoloMoves
<1>6. CASE DeleteLines(r)
  <2>1. PICK q1 : q1 = [q EXCEPT !.pc = "insert", !.todo = DOMAIN ls]
    OBVIOUS
  <2>2. /\ q.pc = "save" /\ q.sheet.status \in Editable /\ q.sheet.owner = q.user
        /\ req'[r] = q1 /\ sheet' = sh /\ lines' = ls /\ row' = row
    BY <1>1, <1>6, <2>1 DEF DeleteLines, ReplacesAll, dbVars, SoloInv, RequestsTypeOK
  <2>3. /\ q1.pc = "insert" /\ q1.row = q.row /\ q1.user = q.user /\ q1.sheet = q.sheet
        /\ q1.lines = q.lines /\ q1.todo = DOMAIN ls
    BY <1>2, <2>1 DEF RequestRow
  <2>4. Entitled(q1) /\ Reached(q1, sh, ls)
    BY <1>2, <1>3, <2>2, <2>3 DEF Entitled, Reached, Unwritten, Deciding
  <2>. QED BY <1>1, <1>2, <2>2, <2>3, <2>4, SoloAlters
<1>7. ASSUME NEW new \in Drafts(LineIds \ used), ReplaceLines(r, new) PROVE SoloInv'
  <2>1. q.pc = "insert" /\ q.todo = DOMAIN ls /\ sh.status # "APPROVED" /\ sheet' = sh
    BY <1>1, <1>2, <1>3, <1>7 DEF ReplaceLines, Entitled, Unwritten
  <2>2. lines' = new
    <3>1. new = [l \in DOMAIN new |-> new[l]]
      BY DraftTypes, RowLinesAre
    <3>. QED BY <1>1, <1>7, <2>1, <3>1 DEF ReplaceLines
  <2>3. RowsSound(sheet', lines')
    BY <2>1, <2>2, DraftTypes DEF RowsSound, LineSound
  <2>. QED BY <1>7, <2>3, SoloEnds DEF ReplaceLines
<1>8. ASSUME NEW S \in SUBSET DOMAIN req[r].lines, NEW edits \in [S -> Hours],
             EditLines(r, edits)
      PROVE  SoloInv'
  <2>1. q.pc = "save" /\ sheet' = sh /\ DOMAIN lines' = DOMAIN ls
    BY <1>1, <1>8 DEF EditLines
  <2>2. sh.status # "APPROVED" /\ ls = q.lines
    BY <1>3, <2>1 DEF Unwritten
  <2>3. ASSUME NEW l \in DOMAIN ls PROVE LineSound(lines'[l])
    <3>1. ls[l] \in Line /\ LineSound(ls[l])
      BY <1>2, RowLinesAre DEF RowsSound
    <3>2. CASE l \in S
      <4>1. /\ edits[l] \in Hours /\ LineSound(Corrected(ls[l], edits[l]))
            /\ Corrected(ls[l], edits[l]) \in Line
        BY <3>1, <3>2, SoundLines DEF Corrected, Line, LineStatus
      <4>2. lines'[l] = [ls[l] EXCEPT !.hours = edits[l],
                                      !.status = Corrected(ls[l], edits[l]).status,
                                      !.rejectedBy = Corrected(ls[l], edits[l]).rejectedBy]
        BY <1>1, <1>8, <2>2, <3>2 DEF EditLines
      <4>3. /\ Corrected(ls[l], edits[l]).siteBy = ls[l].siteBy
            /\ Corrected(ls[l], edits[l]).projectBy = ls[l].projectBy
        BY <3>1, <4>1 DEF Corrected, Line
      <4>4. /\ lines'[l].status = Corrected(ls[l], edits[l]).status
            /\ lines'[l].siteBy = ls[l].siteBy
            /\ lines'[l].projectBy = ls[l].projectBy
            /\ lines'[l].rejectedBy = Corrected(ls[l], edits[l]).rejectedBy
        BY <3>1, <4>1, <4>2 DEF Line
      <4>. QED BY <4>1, <4>3, <4>4 DEF LineSound
    <3>3. CASE l \notin S
      BY <1>1, <1>8, <3>1, <3>3 DEF EditLines
    <3>. QED BY <3>2, <3>3
  <2>4. RowsSound(sheet', lines')
    BY <2>1, <2>2, <2>3 DEF RowsSound
  <2>. QED BY <1>8, <2>4, SoloEnds DEF EditLines
<1>. QED BY <1>4, <1>5, <1>6, <1>7, <1>8

LEMMA SoloTransitions ==
  ASSUME SoloInv, OneRequest, RequestsTypeOK', UNCHANGED orgVars, NEW r \in Requests,
         Recheck(r) \/ WriteStatus(r) \/ WriteLines(r) \/ RecordTransition(r)
  PROVE  SoloInv'
<1>1. PICK q, sh, ls : q = req[r] /\ sh = sheet /\ ls = lines
  OBVIOUS
<1>2. /\ q.pc # "idle" /\ q \in RequestRow /\ q.user \in Users /\ q.row = row
      /\ sh \in Sheet /\ ls \in RowLines
      /\ Entitled(q) /\ Reached(q, sh, ls) /\ RowsSound(sh, ls)
  <2>1. req[r].pc # "idle"
    BY DEF Recheck, WriteStatus, WriteLines, RecordTransition
  <2>. QED BY <1>1, <2>1, UnderWay
<1>3. /\ Target(q.op) \in {"SUBMITTED", "REOPENED"} /\ q.sheet \in Sheet
      /\ LineTarget(q.op) \in {"SUBMITTED", "DRAFT"}
  BY <1>2 DEF Target, LineTarget, RequestRow
<1>4. CASE Recheck(r)
  <2>1. PICK q1 : q1 = [q EXCEPT !.pc = "status"]
    OBVIOUS
  <2>2. /\ q.pc = "recheck" /\ Goto(r, "status") /\ sheet' = sh /\ lines' = ls /\ row' = row
        /\ InScope(q.user, sh) /\ sh.status \in {"APPROVED", "REJECTED"}
    BY <1>1, <1>4 DEF Recheck, dbVars
  <2>3. sh = q.sheet /\ ls = q.lines /\ q.op = "reopen" /\ CanReopen(q.user, q.sheet)
    BY <1>2, <2>2 DEF Entitled, Reached, Unwritten, CanReopen
  <2>4. Entitled(q1) /\ Reached(q1, sh, ls)
    BY <1>2, <2>1, <2>2, <2>3, MovedOn DEF Entitled, Reached, Unwritten, Deciding
  <2>. QED BY <1>1, <1>2, <2>1, <2>2, <2>4, SoloMoves
<1>5. CASE WriteStatus(r)
  <2>1. PICK q1, sh1 : q1 = [q EXCEPT !.pc = "lines"] /\ sh1 = [sh EXCEPT !.status = Target(q.op)]
    OBVIOUS
  <2>2. /\ q.pc = "status" /\ Goto(r, "lines") /\ sheet' = sh1 /\ lines' = ls /\ row' = row
    BY <1>1, <1>5, <2>1 DEF WriteStatus
  <2>3. sh = q.sheet /\ ls = q.lines /\ sh1.status = Target(q.op)
    BY <1>2, <2>1, <2>2 DEF Reached, Unwritten, Sheet
  <2>4. Entitled(q1) /\ Reached(q1, sh1, ls)
    BY <1>2, <2>1, <2>2, <2>3, MovedOn DEF Entitled, Reached, Unwritten, Deciding
  <2>5. RowsSound(sh1, ls)
    BY <1>2, <1>3, <2>3 DEF RowsSound
  <2>. QED BY <1>1, <1>2, <2>1, <2>2, <2>4, <2>5, SoloMoves
<1>6. CASE WriteLines(r)
  <2>1. PICK q1, ls1 : /\ q1 = [q EXCEPT !.pc = "record"]
                      /\ ls1 = [l \in DOMAIN ls |-> ResetLine(ls[l], LineTarget(q.op))]
    OBVIOUS
  <2>2. q.pc = "lines" /\ Goto(r, "record") /\ sheet' = sh /\ row' = row
    BY <1>1, <1>6 DEF WriteLines
  <2>3. sh.status = Target(q.op) /\ ls = q.lines /\ sh = [q.sheet EXCEPT !.status = Target(q.op)]
    BY <1>2, <1>3, <2>2 DEF Reached, Sheet
  <2>4. lines' = ls1
    BY <1>1, <1>2, <1>3, <1>6, <2>1, <2>3 DEF WriteLines, RowIsGone
  <2>5. Entitled(q1) /\ Reached(q1, sh, ls1)
    BY <1>2, <2>1, <2>2, <2>3, MovedOn DEF Entitled, Reached, Unwritten, Deciding
  <2>6. \A l \in DOMAIN ls : ls[l] \in Line /\ LineSound(ls[l])
    BY <1>2, RowLinesAre DEF RowsSound
  <2>7. \A l \in DOMAIN ls1 : LineSound(ls1[l])
    BY <1>3, <2>1, <2>6, SoundLines
  <2>8. RowsSound(sh, ls1)
    BY <1>3, <2>3, <2>7 DEF RowsSound
  <2>. QED BY <1>1, <1>2, <2>1, <2>2, <2>4, <2>5, <2>8, SoloMoves
<1>7. CASE RecordTransition(r)
  <2>1. q.pc = "record" /\ End(r) /\ lines' = ls
    BY <1>1, <1>7 DEF RecordTransition
  <2>2. sh.status = Target(q.op)
    BY <1>2, <1>3, <2>1 DEF Reached, Sheet
  <2>3. sheet'.status = sh.status
    BY <1>1, <1>2, <1>7 DEF RecordTransition, Sheet
  <2>4. RowsSound(sheet', lines')
    BY <1>2, <1>3, <2>1, <2>2, <2>3 DEF RowsSound
  <2>. QED BY <2>1, <2>4, SoloEnds
<1>. QED BY <1>4, <1>5, <1>6, <1>7

LEMMA DecisionsAre ==
  ASSUME NEW r, NEW q, q = req[r], NEW ln
  PROVE  Decision(r, ln) = DecisionBy(q, ln)
BY DEF Decision, DecisionBy

\* Two stages of one validation decide the same of the same lines.
LEMMA SameCase ==
  ASSUME NEW q, NEW q1, q1.op = q.op, q1.user = q.user, q1.sheet = q.sheet, q1.lines = q.lines
  PROVE  Covered(q1) = Covered(q) /\ \A ln : DecisionBy(q1, ln) = DecisionBy(q, ln)
BY DEF Covered, DecisionBy

LEMMA SoloDecisions ==
  ASSUME SoloInv, OneRequest, RequestsTypeOK', UNCHANGED orgVars, NEW r \in Requests,
         \/ \E l \in LineIds : Decide(r, l)
         \/ RecordDecision(r) \/ Reread(r) \/ Refresh(r)
  PROVE  SoloInv'
<1>1. PICK q, sh, ls : q = req[r] /\ sh = sheet /\ ls = lines
  OBVIOUS
<1>2. /\ q.pc # "idle" /\ q \in RequestRow /\ q.user \in Users /\ q.row = row
      /\ sh \in Sheet /\ ls \in RowLines
      /\ Entitled(q) /\ Reached(q, sh, ls) /\ RowsSound(sh, ls)
  <2>1. req[r].pc # "idle"
    BY DEF Decide, RecordDecision, Reread, Refresh
  <2>. QED BY <1>1, <2>1, UnderWay
<1>3. q.pc \in Deciding
  BY <1>1 DEF Decide, RecordDecision, Reread, Refresh, Deciding
<1>4. /\ sh = q.sheet /\ ls = PartDecided(q) /\ DOMAIN ls = DOMAIN q.lines
      /\ q.op \in {"approve", "reject"} /\ Covered(q) # {} /\ q.todo \subseteq Covered(q)
      /\ sh.status # "APPROVED"
  BY <1>2, <1>3 DEF Entitled, Reached, PartDecided
<1>5. Covered(q) \subseteq DOMAIN q.lines
  BY <1>2, CoveredFacts
<1>6. \A l \in DOMAIN ls : ls[l] \in Line /\ LineSound(ls[l])
  BY <1>2, RowLinesAre DEF RowsSound
<1>7. ASSUME NEW l \in LineIds, Decide(r, l) PROVE SoloInv'
  <2>1. PICK q1 : q1 = [q EXCEPT !.pc = "log", !.at = l, !.todo = q.todo \ {l}]
    OBVIOUS
  <2>2. PICK ls1 : ls1 = [ls EXCEPT ![l] = DecisionBy(q, ls[l])]
    OBVIOUS
  <2>3. /\ q.pc = "decide" /\ l \in q.todo /\ l \in DOMAIN ls /\ req'[r] = q1
        /\ lines' = ls1 /\ sheet' = sh /\ row' = row
    <3>1. req'[r] = [req[r] EXCEPT !.pc = "log", !.at = l, !.todo = req[r].todo \ {l}]
      BY <1>7 DEF Decide, SoloInv, RequestsTypeOK
    <3>2. q.pc = "decide" /\ l \in q.todo /\ l \in DOMAIN ls /\ sheet' = sh /\ row' = row
      BY <1>1, <1>7 DEF Decide
    <3>3. lines' = [lines EXCEPT ![l] = Decision(r, lines[l])]
      BY <1>7 DEF Decide
    <3>4. Decision(r, ls[l]) = DecisionBy(q, ls[l])
      BY <1>1, DecisionsAre
    <3>5. lines' = ls1
      BY <1>1, <2>2, <3>3, <3>4
    <3>. QED BY <1>1, <2>1, <3>1, <3>2, <3>5
  <2>4. /\ q1.pc = "log" /\ q1.at = l /\ q1.todo = q.todo \ {l} /\ q1.row = q.row
        /\ q1.op = q.op /\ q1.user = q.user /\ q1.sheet = q.sheet /\ q1.lines = q.lines
    BY <1>2, <2>1 DEF RequestRow
  <2>5. Covered(q1) = Covered(q) /\ \A ln : DecisionBy(q1, ln) = DecisionBy(q, ln)
    BY <2>4, SameCase
  <2>6. q.at = NoLine
    BY <1>2, <2>3 DEF Entitled, Deciding
  <2>7. ls[l] = q.lines[l]
    BY <1>4, <2>3 DEF PartDecided
  <2>8. ls1 = PartDecided(q1)
    <3>1. DOMAIN ls1 = DOMAIN q1.lines /\ ls1 = [k \in DOMAIN q1.lines |-> ls1[k]]
      BY <1>2, <1>4, <2>2, <2>4, RowLinesAre
    <3>2. ASSUME NEW k \in DOMAIN q1.lines PROVE ls1[k] = PartDecided(q1)[k]
      <4>1. k \in DOMAIN ls /\ k \in LineIds
        BY <1>2, <1>4, <2>4, RowLinesAre
      <4>2. CASE k = l
        BY <1>4, <2>2, <2>3, <2>4, <2>5, <2>7, <4>1, <4>2 DEF PartDecided, DecidedLine
      <4>3. CASE k # l
        <5>1. ls1[k] = ls[k] /\ k # q.at /\ k # q1.at
          BY <2>2, <2>4, <2>6, <4>1, <4>3, RequestsAssumption
        <5>2. ls[k] = IF k \in Covered(q) \ q.todo THEN DecidedLine(q, k) ELSE q.lines[k]
          BY <1>4, <4>1 DEF PartDecided
        <5>3. PartDecided(q1)[k] =
                IF k \in Covered(q) \ q.todo THEN DecidedLine(q1, k) ELSE q.lines[k]
          BY <2>4, <2>5, <4>3 DEF PartDecided
        <5>4. DecidedLine(q1, k) = DecidedLine(q, k)
          BY <2>4, <2>5, <5>1 DEF DecidedLine
        <5>. QED BY <5>1, <5>2, <5>3, <5>4
      <4>. QED BY <4>2, <4>3
    <3>. QED BY <3>1, <3>2 DEF PartDecided
  <2>9. Entitled(q1) /\ Reached(q1, sh, ls1)
    <3>1. l \in Covered(q1) \ q1.todo /\ q1.todo \subseteq Covered(q1) /\ Covered(q1) # {}
      BY <1>4, <2>3, <2>4, <2>5
    <3>2. q1.sheet.status \notin {"NONE", "APPROVED"} /\ sh = q1.sheet
      BY <1>2, <1>4, <2>4 DEF Entitled
    <3>3. Entitled(q1)
      BY <1>4, <2>4, <3>1, <3>2 DEF Entitled, Deciding
    <3>. QED BY <2>4, <2>8, <3>2, <3>3 DEF Reached, Unwritten
  <2>10. LineSound(DecisionBy(q, ls[l]))
    BY <1>2, <1>4, <1>6, <2>3, <2>7, DecisionIsSound
  <2>11. RowsSound(sh, ls1)
    BY <1>4, <1>6, <2>2, <2>10 DEF RowsSound
  <2>. QED BY <1>2, <2>3, <2>4, <2>9, <2>11, SoloAlters
<1>8. CASE RecordDecision(r)
  <2>. DEFINE l == q.at
              decided == DecisionBy(q, q.lines[l]).status
  <2>1. PICK q1 : q1 = [q EXCEPT !.at = NoLine,
                                !.pc = IF q.todo = {} THEN "reread" ELSE "decide"]
    OBVIOUS
  <2>2. q.pc = "log" /\ l \in Covered(q) \ q.todo /\ l \in DOMAIN ls
    BY <1>1, <1>2, <1>4, <1>5, <1>8 DEF RecordDecision, Entitled, Deciding
  <2>3. PICK ls1 : ls1 = [ls EXCEPT ![l] = Recorded(ls[l], q.user, decided)]
    OBVIOUS
  <2>4. req'[r] = q1 /\ lines' = ls1 /\ sheet' = sh /\ row' = row
    <3>1. req'[r] = [req[r] EXCEPT !.at = NoLine,
                                   !.pc = IF req[r].todo = {} THEN "reread" ELSE "decide"]
      BY <1>8 DEF RecordDecision, SoloInv, RequestsTypeOK
    <3>2. sheet' = sh /\ row' = row
      BY <1>1, <1>8 DEF RecordDecision
    <3>3. Decision(r, q.lines[l]) = DecisionBy(q, q.lines[l])
      BY <1>1, DecisionsAre
    <3>4. lines' = [ls EXCEPT ![l] = Recorded(ls[l], q.user, Decision(r, q.lines[l]).status)]
      BY <1>1, <1>8, <2>2 DEF RecordDecision
    <3>5. lines' = ls1
      BY <2>3, <3>3, <3>4
    <3>. QED BY <1>1, <2>1, <3>1, <3>2, <3>5
  <2>5. /\ q1.pc = IF q.todo = {} THEN "reread" ELSE "decide"
        /\ q1.at = NoLine /\ q1.todo = q.todo /\ q1.row = q.row
        /\ q1.op = q.op /\ q1.user = q.user /\ q1.sheet = q.sheet /\ q1.lines = q.lines
    BY <1>2, <2>1 DEF RequestRow
  <2>6. Covered(q1) = Covered(q) /\ \A ln : DecisionBy(q1, ln) = DecisionBy(q, ln)
    BY <2>5, SameCase
  <2>7. ls[l] = DecisionBy(q, q.lines[l])
    BY <1>4, <2>2 DEF PartDecided, DecidedLine
  <2>8. ls1 = PartDecided(q1)
    <3>1. DOMAIN ls1 = DOMAIN q1.lines /\ ls1 = [k \in DOMAIN q1.lines |-> ls1[k]]
      BY <1>2, <1>4, <2>3, <2>5, RowLinesAre
    <3>2. ASSUME NEW k \in DOMAIN q1.lines PROVE ls1[k] = PartDecided(q1)[k]
      <4>1. k \in DOMAIN ls /\ k \in LineIds
        BY <1>2, <1>4, <2>5, RowLinesAre
      <4>2. k # q1.at
        BY <2>5, <4>1, RequestsAssumption
      <4>3. PartDecided(q1)[k] =
              IF k \in Covered(q) \ q.todo THEN DecidedLine(q1, k) ELSE q.lines[k]
        BY <2>5, <2>6 DEF PartDecided
      <4>4. DecidedLine(q1, k) =
              Recorded(DecisionBy(q, q.lines[k]), q.user, DecisionBy(q, q.lines[k]).status)
        BY <2>5, <2>6, <4>2 DEF DecidedLine
      <4>5. CASE k = l
        BY <2>2, <2>3, <2>7, <4>1, <4>3, <4>4, <4>5
      <4>6. CASE k # l
        <5>1. ls1[k] = ls[k]
          BY <2>3, <4>1, <4>6
        <5>2. ls[k] = IF k \in Covered(q) \ q.todo THEN DecidedLine(q, k) ELSE q.lines[k]
          BY <1>4, <4>1 DEF PartDecided
        <5>3. DecidedLine(q, k) = DecidedLine(q1, k)
          BY <4>4, <4>6 DEF DecidedLine
        <5>. QED BY <4>3, <5>1, <5>2, <5>3
      <4>. QED BY <4>5, <4>6
    <3>. QED BY <3>1, <3>2 DEF PartDecided
  <2>9. Entitled(q1) /\ Reached(q1, sh, ls1)
    <3>1. q1.todo \subseteq Covered(q1) /\ Covered(q1) # {}
      BY <1>4, <2>5, <2>6
    <3>2. q1.sheet.status \notin {"NONE", "APPROVED"} /\ sh = q1.sheet
      BY <1>2, <1>4, <2>5 DEF Entitled
    <3>3. q1.pc \in {"reread", "decide"} /\ (q1.pc = "reread" => q1.todo = {})
      BY <2>5
    <3>4. Entitled(q1)
      BY <1>4, <2>5, <3>1, <3>2, <3>3 DEF Entitled, Deciding
    <3>. QED BY <2>8, <3>2, <3>3, <3>4 DEF Reached, Unwritten
  <2>10. decided \in LineStatus
    BY <1>6, <2>2, <2>7 DEF Line
  <2>11. LineSound(Recorded(ls[l], q.user, decided))
    BY <1>2, <1>6, <2>2, <2>10, SoundLines
  <2>12. RowsSound(sh, ls1)
    BY <1>4, <1>6, <2>3, <2>11 DEF RowsSound
  <2>. QED BY <1>2, <2>4, <2>5, <2>9, <2>12, SoloAlters
<1>9. CASE Reread(r)
  <2>1. PICK q1 : q1 = [q EXCEPT !.pc = "refresh", !.status = Aggregate(ls)]
    OBVIOUS
  <2>2. /\ q.pc = "reread" /\ req'[r] = q1
        /\ lines' = ls /\ sheet' = sh /\ row' = row
    BY <1>1, <1>9, <2>1 DEF Reread, dbVars, SoloInv, RequestsTypeOK
  <2>3. /\ q1.pc = "refresh" /\ q1.at = q.at /\ q1.todo = q.todo /\ q1.row = q.row
        /\ q1.op = q.op /\ q1.user = q.user /\ q1.sheet = q.sheet /\ q1.lines = q.lines
        /\ q1.status = Aggregate(ls)
    BY <1>2, <2>1 DEF RequestRow
  <2>4. Covered(q1) = Covered(q) /\ \A ln : DecisionBy(q1, ln) = DecisionBy(q, ln)
    BY <2>3, SameCase
  <2>5. PartDecided(q1) = PartDecided(q)
    BY <2>3, <2>4 DEF PartDecided, DecidedLine
  <2>6. Entitled(q1) /\ Reached(q1, sh, ls)
    BY <1>2, <1>4, <2>2, <2>3, <2>4, <2>5 DEF Entitled, Reached, Unwritten, Deciding
  <2>. QED BY <1>2, <2>2, <2>3, <2>6, SoloAlters
<1>10. CASE Refresh(r)
  <2>1. q.pc = "refresh" /\ End(r) /\ lines' = ls /\ sheet' = [sh EXCEPT !.status = q.status]
    BY <1>1, <1>10 DEF Refresh
  <2>2. q.status = Aggregate(ls) /\ sheet'.status = q.status
    BY <1>2, <2>1 DEF Reached, Sheet
  <2>3. Aggregate(ls) = "APPROVED" => \A l \in DOMAIN ls : ls[l].status = "APPROVED"
    BY DEF Aggregate
  <2>4. RowsSound(sheet', lines')
    BY <1>2, <2>1, <2>2, <2>3 DEF RowsSound
  <2>. QED BY <2>1, <2>4, SoloEnds
<1>. QED BY <1>7, <1>8, <1>9, <1>10

LEMMA SoloCreates ==
  ASSUME SoloInv, RequestsTypeOK', UNCHANGED orgVars, NEW u, NEW o, Create(u, o)
  PROVE  SoloInv'
<1>1. \A r \in Requests : req[r].pc = "idle"
  <2>1. sheet.status = "NONE"
    BY DEF Create, NoSheet
  <2>2. SUFFICES ASSUME NEW r \in Requests, req[r].pc # "idle" PROVE FALSE
    OBVIOUS
  <2>3. /\ Entitled(req[r]) /\ Reached(req[r], sheet, lines) /\ req[r] \in RequestRow
    BY <2>2 DEF SoloInv, RequestsTypeOK
  <2>. QED BY <2>1, <2>2, <2>3 DEF Entitled, Reached, Unwritten, Deciding, RequestRow, Target, Sheet
<1>2. sheet'.status = "DRAFT" /\ lines' = lines /\ req' = req
  BY DEF Create, NoSheet
<1>3. RowsSound(sheet', lines')
  BY <1>2 DEF SoloInv, RowsSound
<1>4. RowsSound(sheet, lines)'
  BY <1>3 DEF RowsSound, LineSound
<1>. QED BY <1>1, <1>2, <1>4 DEF SoloInv

LEMMA SoloStill ==
  ASSUME SoloInv, RequestsTypeOK', UNCHANGED vars
  PROVE  SoloInv'
<1>1. /\ sheet' = sheet /\ lines' = lines /\ row' = row /\ req' = req /\ UNCHANGED orgVars
  BY DEF vars, dbVars
<1>2. RowsSound(sheet, lines)'
  BY <1>1 DEF SoloInv, RowsSound, LineSound
<1>3. ASSUME NEW r \in Requests, req'[r].pc # "idle"
      PROVE  /\ req'[r].row = row'
             /\ Entitled(req[r])' /\ Reached(req[r], sheet, lines)'
  <2>1. PICK q, sh, ls : q = req[r] /\ sh = sheet /\ ls = lines
    OBVIOUS
  <2>2. q.row = row /\ Entitled(q) /\ Reached(q, sh, ls)
    BY <1>1, <1>3, <2>1 DEF SoloInv
  <2>3. Entitled(q)' /\ Reached(q, sh, ls)'
    BY <1>1, <2>2, StandingIsFixed
  <2>4. req'[r] = q /\ sheet' = sh /\ lines' = ls
    BY <1>1, <2>1
  <2>. QED BY <1>1, <2>1, <2>2, <2>3, <2>4
<1>. QED BY <1>2, <1>3 DEF SoloInv

LEMMA SoloStepInv ==
  ASSUME SoloInv, OneRequest, [Next]_vars
  PROVE  SoloInv'
<1>1. RequestsTypeOK'
  BY TypesKept DEF SoloInv
<1>2. CASE UNCHANGED vars
  BY <1>1, <1>2, SoloStill
<1>3. CASE Next
  <2>1. UNCHANGED orgVars
    BY <1>3 DEF Next
  <2>2. ASSUME NEW u \in Users, NEW o \in Users, Create(u, o) PROVE SoloInv'
    BY <1>1, <2>1, <2>2, SoloCreates
  <2>3. ASSUME NEW r \in Requests, NEW u \in Users, Arrive(r, u) PROVE SoloInv'
    BY <1>1, <2>1, <2>3, SoloArrives
  <2>4. ASSUME NEW r \in Requests, Fail(r) \/ Crash(r) PROVE SoloInv'
    <3>1. End(r) /\ sheet' = sheet /\ lines' = lines
      BY <2>4 DEF Fail, Crash, dbVars
    <3>2. RowsSound(sheet', lines')
      BY <3>1 DEF SoloInv
    <3>. QED BY <1>1, <2>1, <3>1, <3>2, SoloEnds
  <2>5. ASSUME NEW r \in Requests, Step(r) PROVE SoloInv'
    BY <1>1, <2>1, <2>4, <2>5, SoloSaves, SoloTransitions, SoloDecisions DEF Step
  <2>. QED BY <1>3, <2>2, <2>3, <2>4, <2>5 DEF Next
<1>. QED BY <1>2, <1>3

LEMMA SoloInit == Init => SoloInv
<1>. SUFFICES ASSUME Init PROVE SoloInv
  OBVIOUS
<1>1. RequestsTypeOK /\ \A r \in Requests : req[r].pc = "idle"
  BY InitTypes, RowTypes DEF Init
<1>2. CASE Submitters = {}
  BY <1>1, <1>2 DEF Init, SoloInv, RowsSound, NoLines, NoSheet
<1>3. CASE Submitters # {}
  <2>1. PICK o \in Submitters, draft \in Drafts(LineIds) : Submitted(o, draft)
    BY <1>3 DEF Init
  <2>2. \A l \in DOMAIN draft : draft[l] \in Line /\ LineSound(draft[l])
    BY DraftTypes, RowLinesAre DEF LineSound
  <2>3. \A l \in DOMAIN draft : LineSound(ResetLine(draft[l], "SUBMITTED"))
    BY <2>2, SoundLines
  <2>4. RowsSound(sheet, lines)
    BY <2>1, <2>3 DEF Submitted, RowsSound
  <2>. QED BY <1>1, <2>4 DEF SoloInv
<1>. QED BY <1>2, <1>3

LEMMA SoloAlways ==
  ASSUME OneRequest
  PROVE  Spec => []SoloInv
<1>1. Init => SoloInv
  BY SoloInit
<1>2. SoloInv /\ [Next]_vars => SoloInv'
  BY SoloStepInv
<1>. QED BY <1>1, <1>2, PTL DEF Spec

\* One request at a time, the signatures of a line are those its status claims,
\* even when requests die half way through their statements and others go on from
\* what they left.
THEOREM RequestSignaturesAgree ==
  ASSUME OneRequest
  PROVE  Spec => []SignaturesMatchStatus
<1>1. SoloInv => SignaturesMatchStatus
  BY DEF SoloInv, RowsSound, LineSound, SignaturesMatchStatus
<1>. QED BY <1>1, SoloAlways, PTL

\* Nothing is under way on an approved sheet.
LEMMA ApprovedIsQuiet ==
  ASSUME SoloInv, sheet.status = "APPROVED", NEW r \in Requests
  PROVE  req[r].pc = "idle"
<1>. SUFFICES ASSUME req[r].pc # "idle" PROVE FALSE
  OBVIOUS
<1>1. Entitled(req[r]) /\ Reached(req[r], sheet, lines) /\ req[r] \in RequestRow
  BY DEF SoloInv, RequestsTypeOK
<1>. QED BY <1>1 DEF Entitled, Reached, Unwritten, Deciding, RequestRow, Target, Sheet

\* One request at a time, an approved sheet is read only, whatever request died
\* before: no statement of any endpoint changes the sheet, its lines or what they
\* say.
THEOREM RequestApprovedIsFinal ==
  ASSUME OneRequest
  PROVE  Spec => ApprovedIsFinal
<1>1. ASSUME SoloInv, [Next]_vars, sheet.status = "APPROVED"
      PROVE  sheet' = sheet /\ lines' = lines
  <2>1. \A r \in Requests : ~Step(r) /\ ~Crash(r)
    <3>. SUFFICES ASSUME NEW r \in Requests PROVE ~Step(r) /\ ~Crash(r)
      OBVIOUS
    <3>1. req[r].pc = "idle"
      BY <1>1, ApprovedIsQuiet
    <3>2. ~Delete(r) /\ ~Gate(r) /\ ~DeleteLines(r) /\ ~Recheck(r) /\ ~WriteStatus(r)
          /\ ~WriteLines(r) /\ ~RecordTransition(r) /\ ~RecordDecision(r) /\ ~Reread(r)
          /\ ~Refresh(r)
      BY <3>1 DEF Delete, Gate, DeleteLines, Recheck, WriteStatus, WriteLines,
                  RecordTransition, RecordDecision, Reread, Refresh
    <3>3. /\ \A new : ~ReplaceLines(r, new)
          /\ \A edits : ~EditLines(r, edits)
          /\ \A l : ~Decide(r, l)
      BY <3>1 DEF ReplaceLines, EditLines, Decide
    <3>4. ~Fail(r) /\ ~Crash(r)
      BY <3>1 DEF Fail, Refused, Crash
    <3>. QED BY <3>2, <3>3, <3>4 DEF Step
  <2>2. \A u, o : ~Create(u, o)
    BY <1>1 DEF Create, NoSheet
  <2>3. ASSUME NEW r \in Requests, NEW u \in Users, Arrive(r, u) PROVE UNCHANGED dbVars
    BY <2>3 DEF Arrive, BeginSave, BeginRemove, BeginSubmit, BeginReopen, BeginApprove,
                BeginReject, Begin
  <2>. QED BY <1>1, <2>1, <2>2, <2>3 DEF Next, vars, dbVars
<1>2. SoloInv => \A l \in DOMAIN lines : lines[l] \in Line
  BY RowLinesAre DEF SoloInv, RequestsTypeOK, RowsTypeOK
<1>3. \A ln \in Line : ln = [ln EXCEPT !.action = ln.action]
  BY DEF Line
<1>4. SoloInv /\ [Next]_vars =>
        [sheet.status = "APPROVED" =>
           /\ sheet'.status = "APPROVED"
           /\ DOMAIN lines' = DOMAIN lines
           /\ \A l \in DOMAIN lines :
                lines'[l] = [lines[l] EXCEPT !.action = lines'[l].action]]_vars
  BY <1>1, <1>2, <1>3
<1>. QED BY <1>4, SoloAlways, PTL DEF Spec, ApprovedIsFinal

\* No decision, and no record of one, writes hours.
LEMMA HoursStay ==
  ASSUME NEW ln \in Line, NEW u, NEW st, NEW stage
  PROVE  /\ Approved(ln, u, stage).hours = ln.hours
         /\ Rejected(ln, u).hours = ln.hours
         /\ Recorded(ln, u, st).hours = ln.hours
         /\ ResetLine(ln, st).hours = ln.hours
BY DEF Approved, Rejected, Recorded, ResetLine, Line

\* One request at a time, the hours of a line do not change while it is signed: a
\* correction writes what it was given for the line as read, and that is the line
\* as it stands, unsigned.
THEOREM RequestSignedHoursStay ==
  ASSUME OneRequest
  PROVE  Spec => SignedHoursAreFrozen
<1>. DEFINE Frozen == \A l \in DOMAIN lines \cap DOMAIN lines' :
                        {lines[l].status, lines'[l].status} \subseteq {"SITE_APPROVED", "APPROVED"} =>
                          lines'[l].hours = lines[l].hours
<1>1. ASSUME SoloInv, Next PROVE Frozen
  <2>1. \A l \in DOMAIN lines : lines[l] \in Line
    BY <1>1, RowLinesAre DEF SoloInv, RequestsTypeOK, RowsTypeOK
  <2>2. CASE lines' = lines
    BY <2>2
  <2>3. CASE \E u, o \in Users : Create(u, o)
    BY <2>2, <2>3 DEF Create
  <2>4. CASE \E r \in Requests, u \in Users : Arrive(r, u)
    BY <2>2, <2>4 DEF Arrive, BeginSave, BeginRemove, BeginSubmit, BeginReopen, BeginApprove,
                BeginReject, Begin, dbVars
  <2>5. ASSUME NEW r \in Requests, Step(r) \/ Crash(r), lines' # lines PROVE Frozen
    <3>1. /\ ~Gate(r) /\ ~DeleteLines(r) /\ ~Recheck(r) /\ ~WriteStatus(r)
          /\ ~RecordTransition(r) /\ ~Reread(r) /\ ~Refresh(r) /\ ~Fail(r) /\ ~Crash(r)
      BY <2>5 DEF Gate, DeleteLines, Recheck, WriteStatus, RecordTransition, Reread, Refresh,
                  Fail, Crash, dbVars
    <3>2. CASE Delete(r)
      BY <3>2, RowTypes DEF Delete
    <3>3. ASSUME NEW new \in Drafts(LineIds \ used), ReplaceLines(r, new) PROVE Frozen
      <4>1. \A l \in DOMAIN lines' : lines'[l] = IF l \in DOMAIN new THEN new[l] ELSE lines[l]
        BY <3>3 DEF ReplaceLines
      <4>. QED BY <4>1, DraftTypes
    <3>4. ASSUME NEW S \in SUBSET DOMAIN req[r].lines, NEW edits \in [S -> Hours],
                 EditLines(r, edits)
          PROVE  Frozen
      <4>1. /\ Reached(req[r], sheet, lines)
            /\ req[r].pc = "save"
        BY <1>1, <3>4 DEF EditLines, SoloInv
      <4>2. req[r].lines = lines
        BY <4>1 DEF Reached, Unwritten
      <4>3. \A l \in S : lines[l].status \in {"SUBMITTED", "REJECTED"}
        BY <3>4, <4>2 DEF EditLines, EditableLines, CanEditLine
      <4>4. \A l \in DOMAIN lines \ S : lines'[l] = lines[l]
        BY <3>4 DEF EditLines
      <4>. QED BY <4>3, <4>4
    <3>5. CASE WriteLines(r)
      <4>1. lines' = [l \in DOMAIN lines |-> ResetLine(lines[l], LineTarget(req[r].op))]
        BY <2>5, <3>5 DEF WriteLines
      <4>. QED BY <2>1, <4>1, HoursStay
    <3>6. ASSUME NEW l \in LineIds, Decide(r, l) PROVE Frozen
      <4>1. lines' = [lines EXCEPT ![l] = Decision(r, lines[l])] /\ l \in DOMAIN lines
        BY <3>6 DEF Decide
      <4>2. Decision(r, lines[l]).hours = lines[l].hours
        BY <2>1, <4>1, HoursStay DEF Decision
      <4>. QED BY <4>1, <4>2
    <3>7. CASE RecordDecision(r)
      <4>. DEFINE l == req[r].at
                  decided == Decision(r, req[r].lines[l]).status
      <4>1. lines' = [lines EXCEPT ![l] = Recorded(lines[l], req[r].user, decided)]
            /\ l \in DOMAIN lines
        BY <2>5, <3>7 DEF RecordDecision
      <4>2. Recorded(lines[l], req[r].user, decided).hours = lines[l].hours
        BY <2>1, <4>1, HoursStay
      <4>. HIDE DEF l, decided
      <4>. QED BY <4>1, <4>2
    <3>. QED BY <2>5, <3>1, <3>2, <3>3, <3>4, <3>5, <3>6, <3>7 DEF Step
  <2>. QED BY <1>1, <2>2, <2>3, <2>4, <2>5 DEF Next
<1>2. SoloInv /\ [Next]_vars => [Frozen]_vars
  BY <1>1
<1>. QED BY <1>2, SoloAlways, PTL DEF Spec, SignedHoursAreFrozen

---------------------------------------------------------------------------
(* One request at a time serves the workflow.                              *)

\* The workflow goes by the same rules.
LEMMA SameOrganisation ==
  /\ Serial!NoSheet = NoSheet /\ Serial!NoLines = NoLines
  /\ \A s : /\ Serial!ManagerOf(s) = ManagerOf(s) /\ Serial!ProjectOf(s) = ProjectOf(s)
           /\ Serial!ChiefOf(s) = ChiefOf(s)
  /\ \A u : Serial!ManagedUsers(u) = ManagedUsers(u)
  /\ Serial!active = active
  /\ Serial!OrgInit <=> OrgInit
<1>1. Serial!NoSheet = NoSheet /\ Serial!NoLines = NoLines
  BY DEF Serial!NoSheet, NoSheet, Serial!NoAction, NoAction, Serial!NoLines, NoLines,
         Serial!NewLine, NewLine
<1>2. \A s : /\ Serial!ManagerOf(s) = ManagerOf(s) /\ Serial!ProjectOf(s) = ProjectOf(s)
             /\ Serial!ChiefOf(s) = ChiefOf(s)
  BY DEF Serial!ManagerOf, ManagerOf, Serial!ProjectOf, ProjectOf, Serial!ChiefOf, ChiefOf
<1>3. \A u : Serial!DirectedSites(u) = DirectedSites(u)
  BY <1>2 DEF Serial!DirectedSites, DirectedSites
<1>4. \A s : Serial!StaffOf(s) = StaffOf(s)
  BY DEF Serial!StaffOf, StaffOf
<1>5. \A u : Serial!ManagedUsers(u) = ManagedUsers(u)
  BY <1>2, <1>3, <1>4 DEF Serial!ManagedUsers, ManagedUsers, Serial!Unrestricted, Unrestricted
<1>6. Serial!active = active
  BY DEF Serial!active, active
<1>7. Serial!OrgInit <=> OrgInit
  BY DEF Serial!OrgInit, OrgInit
<1>. QED BY <1>1, <1>2, <1>5, <1>6, <1>7

LEMMA SameLines ==
  /\ \A o, ln : Serial!OwnerManages(o, ln) <=> OwnerManages(o, ln)
  /\ \A u, o, ln : /\ Serial!ManagesLine(u, o, ln) <=> ManagesLine(u, o, ln)
                   /\ Serial!CanEditLine(u, o, ln) <=> CanEditLine(u, o, ln)
  /\ \A u, o, ln : /\ Serial!SiteDecidable(u, o, ln) <=> SiteDecidable(u, o, ln)
                   /\ Serial!ProjectDecidable(u, o, ln) <=> ProjectDecidable(u, o, ln)
  /\ \A o, ln : Serial!ReadyForProject(o, ln) <=> ReadyForProject(o, ln)
  /\ \A ln : Serial!Routed(ln) <=> Routed(ln)
  /\ \A ln, h : Serial!Corrected(ln, h) = Corrected(ln, h)
  /\ \A ln, u : Serial!Rejected(ln, u) = Rejected(ln, u)
  /\ \A ln, st : Serial!ResetLine(ln, st) = ResetLine(ln, st)
  /\ \A s, h : Serial!NewLine(s, h) = NewLine(s, h)
  /\ \A ln, u, st : /\ Serial!Recorded(ln, u, st) = Recorded(ln, u, st)
                    /\ Serial!Approved(ln, u, st) = Approved(ln, u, st)
<1>1. \A o, ln : Serial!OwnerManages(o, ln) <=> OwnerManages(o, ln)
  BY SameOrganisation DEF Serial!OwnerManages, OwnerManages
<1>2. \A u, o, ln : /\ Serial!ManagesLine(u, o, ln) <=> ManagesLine(u, o, ln)
                    /\ Serial!CanEditLine(u, o, ln) <=> CanEditLine(u, o, ln)
  BY <1>1, SameOrganisation DEF Serial!ManagesLine, ManagesLine, Serial!CanEditLine, CanEditLine
<1>3. \A u, o, ln : /\ Serial!SiteDecidable(u, o, ln) <=> SiteDecidable(u, o, ln)
                    /\ Serial!ProjectDecidable(u, o, ln) <=> ProjectDecidable(u, o, ln)
  <2>. SUFFICES ASSUME NEW u, NEW o, NEW ln
                PROVE  /\ Serial!SiteDecidable(u, o, ln) <=> SiteDecidable(u, o, ln)
                       /\ Serial!ProjectDecidable(u, o, ln) <=> ProjectDecidable(u, o, ln)
    OBVIOUS
  <2>1. Serial!SiteDecidable(u, o, ln) <=> SiteDecidable(u, o, ln)
    BY <1>2 DEF Serial!SiteDecidable, SiteDecidable
  <2>2. Serial!ProjectDecidable(u, o, ln) <=> ProjectDecidable(u, o, ln)
    BY <1>1, SameOrganisation DEF Serial!ProjectDecidable, ProjectDecidable
  <2>. QED BY <2>1, <2>2
<1>4. \A o, ln : Serial!ReadyForProject(o, ln) <=> ReadyForProject(o, ln)
  BY <1>1 DEF Serial!ReadyForProject, ReadyForProject
<1>5. \A ln : Serial!Routed(ln) <=> Routed(ln)
  BY SameOrganisation DEF Serial!Routed, Routed
<1>6. /\ \A ln, h : Serial!Corrected(ln, h) = Corrected(ln, h)
      /\ \A ln, u : Serial!Rejected(ln, u) = Rejected(ln, u)
      /\ \A ln, st : Serial!ResetLine(ln, st) = ResetLine(ln, st)
      /\ \A s, h : Serial!NewLine(s, h) = NewLine(s, h)
  BY DEF Serial!Corrected, Corrected, Serial!Rejected, Rejected, Serial!ResetLine, ResetLine,
         Serial!NewLine, NewLine, Serial!NoAction, NoAction
<1>7. \A ln, u, st : /\ Serial!Recorded(ln, u, st) = Recorded(ln, u, st)
                     /\ Serial!Approved(ln, u, st) = Approved(ln, u, st)
  BY DEF Serial!Recorded, Recorded, Serial!Approved, Approved
<1>. QED BY <1>1, <1>2, <1>3, <1>4, <1>5, <1>6, <1>7

LEMMA SameRules ==
  /\ \A u, sh : /\ Serial!InScope(u, sh) <=> InScope(u, sh)
                /\ Serial!CanReopen(u, sh) <=> CanReopen(u, sh)
  /\ \A u, sh, ls : /\ Serial!CanSubmit(u, sh, ls) <=> CanSubmit(u, sh, ls)
                    /\ Serial!EditableLines(u, sh, ls) = EditableLines(u, sh, ls)
  /\ \A u, o, ls : /\ Serial!ApprovalStage(u, o, ls) = ApprovalStage(u, o, ls)
                   /\ Serial!ApprovableLines(u, o, ls) = ApprovableLines(u, o, ls)
                   /\ Serial!RejectableLines(u, o, ls) = RejectableLines(u, o, ls)
  /\ \A ls : Serial!Aggregate(ls) = Aggregate(ls)
<1>1. \A u, sh : Serial!InScope(u, sh) <=> InScope(u, sh)
  BY SameOrganisation DEF Serial!InScope, InScope
<1>2. \A u, sh : Serial!CanReopen(u, sh) <=> CanReopen(u, sh)
  BY <1>1 DEF Serial!CanReopen, CanReopen
<1>3. \A u, sh, ls : Serial!CanSubmit(u, sh, ls) <=> CanSubmit(u, sh, ls)
  BY <1>1, SameLines DEF Serial!CanSubmit, CanSubmit, Serial!Editable, Editable,
                         Serial!HasWorkEntries, HasWorkEntries
<1>4. \A u, sh, ls : Serial!EditableLines(u, sh, ls) = EditableLines(u, sh, ls)
  BY SameLines DEF Serial!EditableLines, EditableLines, Serial!Editable, Editable
<1>5. ASSUME NEW u, NEW o, NEW ls
      PROVE  /\ Serial!ApprovalStage(u, o, ls) = ApprovalStage(u, o, ls)
             /\ Serial!ApprovableLines(u, o, ls) = ApprovableLines(u, o, ls)
             /\ Serial!RejectableLines(u, o, ls) = RejectableLines(u, o, ls)
  <2>1. Serial!ApprovalStage(u, o, ls) = ApprovalStage(u, o, ls)
    BY SameLines DEF Serial!ApprovalStage, ApprovalStage
  <2>2. Serial!ApprovableLines(u, o, ls) = ApprovableLines(u, o, ls)
    BY <2>1, SameLines DEF Serial!ApprovableLines, ApprovableLines
  <2>3. Serial!RejectableLines(u, o, ls) = RejectableLines(u, o, ls)
    BY <2>1, SameLines, SameOrganisation DEF Serial!RejectableLines, RejectableLines
  <2>. QED BY <2>1, <2>2, <2>3
<1>6. \A ls : Serial!Aggregate(ls) = Aggregate(ls)
  BY DEF Serial!Aggregate, Aggregate
<1>. QED BY <1>1, <1>2, <1>3, <1>4, <1>5, <1>6

\* The rows of the workflow: those the request under way found, or those that
\* are there.
FoundSheet == IF Busy = {} THEN sheet ELSE Found.sheet
FoundLines == IF Busy = {} THEN lines ELSE Found.lines

LEMMA FoundRows ==
  ASSUME OneRequest, NEW r \in Requests
  PROVE  /\ req[r].pc = "idle" => FoundSheet = sheet /\ FoundLines = lines
         /\ req[r].pc # "idle" => FoundSheet = req[r].sheet /\ FoundLines = req[r].lines
         /\ req'[r].pc = "idle" => FoundSheet' = sheet' /\ FoundLines' = lines'
         /\ req'[r].pc # "idle" => FoundSheet' = req'[r].sheet /\ FoundLines' = req'[r].lines
<1>1. \A g \in Requests : g = r
  BY DEF OneRequest
<1>2. req[r].pc = "idle" => Busy = {}
  BY <1>1 DEF Busy
<1>3. req[r].pc # "idle" => Busy = {r}
  BY <1>1 DEF Busy
<1>4. req'[r].pc = "idle" => Busy' = {}
  BY <1>1 DEF Busy
<1>5. req'[r].pc # "idle" => Busy' = {r}
  BY <1>1 DEF Busy
<1>. QED BY <1>2, <1>3, <1>4, <1>5 DEF FoundSheet, FoundLines, Found

\* A request under way has its row.
LEMMA RowIsThere ==
  ASSUME SoloInv, NEW r \in Requests, req[r].pc # "idle"
  PROVE  ~RowIsGone(r) /\ sheet.status # "NONE"
<1>1. /\ Entitled(req[r]) /\ Reached(req[r], sheet, lines) /\ req[r] \in RequestRow
      /\ req[r].row = row
  BY DEF SoloInv, RequestsTypeOK
<1>2. sheet.status # "NONE"
  BY <1>1 DEF Entitled, Reached, Unwritten, Deciding, RequestRow, Target, Sheet
<1>. QED BY <1>1, <1>2 DEF RowIsGone

\* While a request is under way the workflow stands still.
LEMMA Underway ==
  ASSUME SoloInv, OneRequest, NEW r \in Requests,
         \/ \E u \in Users : Arrive(r, u)
         \/ Gate(r) \/ DeleteLines(r) \/ Recheck(r) \/ WriteStatus(r) \/ WriteLines(r)
         \/ \E l \in LineIds : Decide(r, l)
         \/ RecordDecision(r) \/ Reread(r)
  PROVE  FoundSheet' = FoundSheet /\ FoundLines' = FoundLines
<1>1. ASSUME NEW u \in Users, Arrive(r, u)
      PROVE  FoundSheet' = FoundSheet /\ FoundLines' = FoundLines
  <2>1. PICK op, todo, pc : /\ pc \in {"delete", "save", "gate", "recheck", "status", "decide"}
                           /\ Begin(r, u, op, pc, todo)
    <3>1. CASE BeginSave(r, u)
      BY <3>1 DEF BeginSave
    <3>2. CASE BeginRemove(r, u)
      BY <3>2 DEF BeginRemove
    <3>3. CASE BeginSubmit(r, u)
      BY <3>3 DEF BeginSubmit
    <3>4. CASE BeginReopen(r, u)
      BY <3>4 DEF BeginReopen
    <3>5. CASE BeginApprove(r, u) \/ BeginReject(r, u)
      BY <3>5 DEF BeginApprove, BeginReject
    <3>. QED BY <1>1, <3>1, <3>2, <3>3, <3>4, <3>5 DEF Arrive
  <2>2. /\ req[r].pc = "idle"
        /\ req'[r] = [Idle EXCEPT !.pc = pc, !.op = op, !.user = u, !.row = row,
                                  !.sheet = sheet, !.lines = lines, !.todo = todo]
    BY <2>1 DEF Begin, SoloInv, RequestsTypeOK
  <2>3. req'[r].pc # "idle" /\ req'[r].sheet = sheet /\ req'[r].lines = lines
    BY <2>1, <2>2 DEF Idle
  <2>. QED BY <2>2, <2>3, FoundRows
<1>2. ASSUME req[r].pc # "idle", req'[r].pc # "idle",
             req'[r].sheet = req[r].sheet, req'[r].lines = req[r].lines
      PROVE  FoundSheet' = FoundSheet /\ FoundLines' = FoundLines
  BY <1>2, FoundRows
<1>3. req \in [Requests -> RequestRow] /\ req[r] \in RequestRow
  BY DEF SoloInv, RequestsTypeOK
<1>4. CASE Gate(r) \/ Recheck(r) \/ WriteStatus(r) \/ WriteLines(r)
  <2>1. PICK pc \in {"save", "status", "lines", "record"} : Goto(r, pc)
    BY <1>4 DEF Gate, Recheck, WriteStatus, WriteLines
  <2>2. req'[r] = [req[r] EXCEPT !.pc = pc]
    BY <1>3, <2>1 DEF Goto
  <2>3. /\ req'[r].pc # "idle" /\ req'[r].sheet = req[r].sheet
        /\ req'[r].lines = req[r].lines
    BY <1>3, <2>2 DEF RequestRow
  <2>. QED BY <1>2, <1>4, <2>3 DEF Gate, Recheck, WriteStatus, WriteLines
<1>5. CASE DeleteLines(r)
  <2>1. req'[r] = [req[r] EXCEPT !.pc = "insert", !.todo = DOMAIN lines] /\ req[r].pc = "save"
    BY <1>3, <1>5 DEF DeleteLines
  <2>. QED BY <1>2, <1>3, <2>1 DEF RequestRow
<1>6. ASSUME NEW l \in LineIds, Decide(r, l)
      PROVE  FoundSheet' = FoundSheet /\ FoundLines' = FoundLines
  <2>1. /\ req'[r] = [req[r] EXCEPT !.pc = "log", !.at = l, !.todo = req[r].todo \ {l}]
        /\ req[r].pc = "decide"
    BY <1>3, <1>6 DEF Decide
  <2>. QED BY <1>2, <1>3, <2>1 DEF RequestRow
<1>7. CASE RecordDecision(r)
  <2>1. /\ req'[r] = [req[r] EXCEPT !.at = NoLine,
                                    !.pc = IF req[r].todo = {} THEN "reread" ELSE "decide"]
        /\ req[r].pc = "log"
    BY <1>3, <1>7 DEF RecordDecision
  <2>. QED BY <1>2, <1>3, <2>1 DEF RequestRow
<1>8. CASE Reread(r)
  <2>1. /\ req'[r] = [req[r] EXCEPT !.pc = "refresh", !.status = Aggregate(lines)]
        /\ req[r].pc = "reread"
    BY <1>3, <1>8 DEF Reread
  <2>. QED BY <1>2, <1>3, <2>1 DEF RequestRow
<1>. QED BY <1>1, <1>4, <1>5, <1>6, <1>7, <1>8

\* A request that is refused has written nothing.
LEMMA RefusedUnwritten ==
  ASSUME SoloInv, OneRequest, NEW r \in Requests, Fail(r)
  PROVE  FoundSheet' = FoundSheet /\ FoundLines' = FoundLines
<1>1. PICK q, sh, ls : q = req[r] /\ sh = sheet /\ ls = lines
  OBVIOUS
<1>2. q.pc # "idle" /\ ~RowIsGone(r)
  <2>1. q.pc # "idle"
    BY <1>1 DEF Fail, Refused
  <2>. QED BY <1>1, <2>1, RowIsThere
<1>3. q \in RequestRow /\ Entitled(q) /\ Reached(q, sh, ls)
  BY <1>1, <1>2, UnderWay
<1>4. q.pc \in Unwritten
  <2>1. CASE q.pc = "decide"
    <3>1. q.todo \subseteq DOMAIN ls
      BY <1>3, <2>1, CoveredFacts DEF Entitled, Reached, Deciding, PartDecided
    <3>. QED BY <1>1, <1>2, <2>1, <3>1 DEF Fail, Refused
  <2>2. CASE q.pc # "decide"
    BY <1>1, <1>2, <2>2 DEF Fail, Refused, Unwritten
  <2>. QED BY <2>1, <2>2
<1>5. sh = q.sheet /\ ls = q.lines
  BY <1>3, <1>4 DEF Reached
<1>6. req'[r] = Idle /\ Idle.pc = "idle" /\ sheet' = sheet /\ lines' = lines
  BY RowTypes DEF Fail, End, dbVars, SoloInv, RequestsTypeOK
<1>. QED BY <1>1, <1>2, <1>5, <1>6, FoundRows

\* The last statement of a save or of a deletion is the request of the workflow.
LEMMA SavesServe ==
  ASSUME SoloInv, OneRequest, NEW r \in Requests,
         \/ Delete(r)
         \/ \E new \in Drafts(LineIds \ used) : ReplaceLines(r, new)
         \/ \E S \in SUBSET DOMAIN req[r].lines : \E edits \in [S -> Hours] :
              EditLines(r, edits)
  PROVE  Serial!Request(req[r].user)
<1>1. PICK q, sh, ls : q = req[r] /\ sh = sheet /\ ls = lines
  OBVIOUS
<1>2. /\ q.pc \in {"delete", "insert", "save"} /\ q \in RequestRow /\ q.user \in Users
      /\ ls \in RowLines /\ Entitled(q) /\ Reached(q, sh, ls)
  <2>1. req[r].pc \in {"delete", "insert", "save"} /\ End(r)
    BY DEF Delete, ReplaceLines, EditLines
  <2>. QED BY <1>1, <2>1, UnderWay
<1>3. sh = q.sheet /\ ls = q.lines
  BY <1>2 DEF Reached, Unwritten
<1>4. req'[r].pc = "idle"
  <2>1. End(r)
    BY DEF Delete, ReplaceLines, EditLines
  <2>. QED BY <2>1, RowTypes DEF End, SoloInv, RequestsTypeOK
<1>5. /\ FoundSheet = sh /\ FoundLines = ls
      /\ FoundSheet' = sheet' /\ FoundLines' = lines'
  BY <1>1, <1>2, <1>3, <1>4, FoundRows
<1>. USE DEF FoundSheet, FoundLines
<1>6. CASE Delete(r)
  <2>1. sh.status = "DRAFT" /\ sh.owner = q.user
    BY <1>1, <1>2, <1>3, <1>6 DEF Delete, Entitled
  <2>2. Serial!Remove(q.user)
    BY <1>5, <1>6, <2>1, SameOrganisation DEF Delete, Serial!Remove
  <2>. QED BY <1>1, <2>2 DEF Serial!Request
<1>7. ASSUME NEW new \in Drafts(LineIds \ used), ReplaceLines(r, new)
      PROVE  Serial!Request(q.user)
  <2>1. q.pc = "insert" /\ sh.status \in Editable /\ sh.owner = q.user /\ q.todo = DOMAIN ls
    BY <1>1, <1>2, <1>3, <1>7 DEF ReplaceLines, Entitled
  <2>2. sheet' = sh
    BY <1>1, <1>7 DEF ReplaceLines
  <2>3. lines' = new
    <3>1. new = [l \in DOMAIN new |-> new[l]]
      BY DraftTypes, RowLinesAre
    <3>. QED BY <1>1, <1>7, <2>1, <3>1 DEF ReplaceLines
  <2>4. \A l \in DOMAIN new : new[l].site \in Serial!OpenSites \cup {NoSite}
    BY DraftTypes DEF Serial!OpenSites
  <2>5. Serial!ReplaceLines(q.user, new)
    BY <1>5, <2>1, <2>2, <2>3, <2>4 DEF Serial!ReplaceLines, Serial!Editable, Editable
  <2>6. PICK S \in SUBSET LineIds : S = DOMAIN new /\ Cardinality(S) <= MaxLines
    BY DraftTypes
  <2>7. PICK at \in [S -> Sites \cup {NoSite}], h \in [S -> Hours] :
          new = [l \in S |-> NewLine(at[l], h[l])]
    BY <2>6, DraftTypes
  <2>8. new = [l \in S |-> Serial!NewLine(at[l], h[l])]
    BY <2>7, SameLines
  <2>9. Serial!ReplaceLines(q.user, [l \in S |-> Serial!NewLine(at[l], h[l])])
    BY <2>5, <2>8
  <2>10. Serial!Cardinality(S) <= MaxLines
    <3>1. Serial!Cardinality(S) = Cardinality(S)
      BY DEF Serial!Cardinality, Cardinality
    <3>. QED BY <2>6, <3>1
  <2>. QED BY <1>1, <2>9, <2>10 DEF Serial!Request
<1>8. ASSUME NEW S \in SUBSET DOMAIN req[r].lines, NEW edits \in [S -> Hours],
             EditLines(r, edits)
      PROVE  Serial!Request(q.user)
  <2>1. q.pc = "save" /\ sheet' = sh /\ InScope(q.user, sh)
    BY <1>1, <1>2, <1>3, <1>8 DEF EditLines, Entitled
  <2>2. S \subseteq EditableLines(q.user, sh, ls)
    BY <1>1, <1>3, <1>8 DEF EditLines
  <2>3. lines' = [l \in DOMAIN ls |-> IF l \in DOMAIN edits THEN Corrected(ls[l], edits[l])
                                     ELSE ls[l]]
    <3>1. lines' = [l \in DOMAIN ls |-> lines'[l]] /\ DOMAIN edits = S
      BY <1>1, <1>8 DEF EditLines
    <3>2. ASSUME NEW l \in S PROVE lines'[l] = Corrected(ls[l], edits[l])
      <4>1. ls[l] \in Line
        BY <1>1, <1>2, <1>3, RowLinesAre
      <4>2. lines'[l] = [ls[l] EXCEPT !.hours = edits[l],
                                      !.status = Corrected(ls[l], edits[l]).status,
                                      !.rejectedBy = Corrected(ls[l], edits[l]).rejectedBy]
        BY <1>1, <1>3, <1>8 DEF EditLines
      <4>. QED BY <4>1, <4>2 DEF Corrected, Line
    <3>3. \A l \in DOMAIN ls \ S : lines'[l] = ls[l]
      BY <1>1, <1>8 DEF EditLines
    <3>. QED BY <3>1, <3>2, <3>3
  <2>4. lines' = [l \in DOMAIN ls |-> IF l \in DOMAIN edits THEN Serial!Corrected(ls[l], edits[l])
                                     ELSE ls[l]]
    BY <2>3, SameLines
  <2>5. DOMAIN edits \subseteq Serial!EditableLines(q.user, sh, ls)
    BY <2>2, SameRules
  <2>6. Serial!EditLines(q.user, edits)
    BY <1>5, <2>1, <2>4, <2>5, SameRules DEF Serial!EditLines
  <2>7. S \in SUBSET Serial!EditableLines(q.user, FoundSheet, FoundLines)
    BY <1>5, <2>2, SameRules
  <2>. QED BY <2>6, <2>7 DEF Serial!Request
<1>. QED BY <1>1, <1>6, <1>7, <1>8

\* The last statement of a transition is the submission or the reopening.
LEMMA TransitionsServe ==
  ASSUME SoloInv, OneRequest, NEW r \in Requests, RecordTransition(r)
  PROVE  Serial!Request(req[r].user)
<1>1. PICK q, sh, ls : q = req[r] /\ sh = sheet /\ ls = lines
  OBVIOUS
<1>2. /\ q.pc = "record" /\ q \in RequestRow /\ q.user \in Users
      /\ Entitled(q) /\ Reached(q, sh, ls) /\ ~RowIsGone(r)
  <2>1. req[r].pc = "record"
    BY DEF RecordTransition
  <2>. QED BY <1>1, <2>1, UnderWay, RowIsThere
<1>3. req'[r].pc = "idle"
  BY RowTypes DEF RecordTransition, End, SoloInv, RequestsTypeOK
<1>4. PICK osh, ols : osh = q.sheet /\ ols = q.lines
  OBVIOUS
<1>5. /\ FoundSheet = osh /\ FoundLines = ols
      /\ FoundSheet' = sheet' /\ FoundLines' = lines'
  BY <1>1, <1>2, <1>3, <1>4, FoundRows
<1>6. /\ osh \in Sheet
      /\ sh = [osh EXCEPT !.status = Target(q.op)]
      /\ ls = [l \in DOMAIN ols |-> ResetLine(ols[l], LineTarget(q.op))]
  BY <1>2, <1>4 DEF Reached, RequestRow
<1>7. sheet' = [sh EXCEPT !.action = [by |-> q.user, status |-> Target(q.op)]]
  BY <1>1, <1>2 DEF RecordTransition
<1>8. sheet' = [osh EXCEPT !.status = Target(q.op),
                          !.action = [by |-> q.user, status |-> Target(q.op)]]
  BY <1>6, <1>7 DEF Sheet
<1>9. lines' = [l \in DOMAIN ols |-> Serial!ResetLine(ols[l], LineTarget(q.op))]
  BY <1>1, <1>6, SameLines DEF RecordTransition
<1>. USE DEF FoundSheet, FoundLines
<1>10. CASE q.op = "submit" /\ CanSubmit(q.user, osh, ols)
  <2>1. Serial!CanSubmit(q.user, osh, ols)
    BY <1>10, SameRules
  <2>2. Target(q.op) = "SUBMITTED" /\ LineTarget(q.op) = "SUBMITTED"
    BY <1>10 DEF Target, LineTarget
  <2>3. Serial!Submit(q.user)
    BY <1>5, <1>8, <1>9, <2>1, <2>2 DEF Serial!Submit, Serial!Transition
  <2>. QED BY <1>1, <2>3 DEF Serial!Request
<1>11. CASE q.op = "reopen" /\ CanReopen(q.user, osh)
  <2>1. Serial!CanReopen(q.user, osh)
    BY <1>11, SameRules
  <2>2. Target(q.op) = "REOPENED" /\ LineTarget(q.op) = "DRAFT"
    BY <1>11 DEF Target, LineTarget
  <2>3. Serial!Reopen(q.user)
    BY <1>5, <1>8, <1>9, <2>1, <2>2 DEF Serial!Reopen, Serial!Transition
  <2>. QED BY <1>1, <2>3 DEF Serial!Request
<1>. QED BY <1>2, <1>4, <1>10, <1>11 DEF Entitled

\* The refresh at the end of a validation is the approval or the refusal.
LEMMA DecisionsServe ==
  ASSUME SoloInv, OneRequest, NEW r \in Requests, Refresh(r)
  PROVE  Serial!Request(req[r].user)
<1>1. PICK q, sh, ls : q = req[r] /\ sh = sheet /\ ls = lines
  OBVIOUS
<1>2. /\ q.pc = "refresh" /\ q \in RequestRow /\ q.user \in Users
      /\ Entitled(q) /\ Reached(q, sh, ls)
  <2>1. req[r].pc = "refresh"
    BY DEF Refresh
  <2>. QED BY <1>1, <2>1, UnderWay
<1>3. req'[r].pc = "idle"
  BY RowTypes DEF Refresh, End, SoloInv, RequestsTypeOK
<1>4. PICK osh, ols, u, o : osh = q.sheet /\ ols = q.lines /\ u = q.user /\ o = osh.owner
  OBVIOUS
<1>5. /\ FoundSheet = osh /\ FoundLines = ols
      /\ FoundSheet' = sheet' /\ FoundLines' = lines'
  BY <1>1, <1>2, <1>3, <1>4, FoundRows
<1>6. /\ sh = osh /\ ls = PartDecided(q) /\ q.status = Aggregate(ls)
      /\ q.op \in {"approve", "reject"} /\ Covered(q) # {} /\ q.todo = {} /\ q.at = NoLine
      /\ osh.status # "NONE"
  BY <1>2, <1>4 DEF Reached, Entitled, Deciding
<1>7. osh # NoSheet
  BY <1>6 DEF NoSheet
<1>8. lines' = ls /\ sheet' = [osh EXCEPT !.status = Aggregate(ls)]
  BY <1>1, <1>6 DEF Refresh
<1>9. ols \in RowLines /\ DOMAIN ols \subseteq LineIds /\ Covered(q) \subseteq DOMAIN ols
  BY <1>2, <1>4, CoveredFacts, RowLinesAre DEF RequestRow
<1>10. ls = [l \in DOMAIN ols |-> IF l \in Covered(q)
                                 THEN Recorded(DecisionBy(q, ols[l]), u,
                                               DecisionBy(q, ols[l]).status)
                                 ELSE ols[l]]
  BY <1>4, <1>6, <1>9, RequestsAssumption DEF PartDecided, DecidedLine
<1>. USE DEF FoundSheet, FoundLines
<1>11. CASE q.op = "approve"
  <2>1. PICK stage : stage = ApprovalStage(u, o, ols)
    OBVIOUS
  <2>2. stage \in {"SITE", "PROJECT"} /\ Covered(q) = ApprovableLines(u, o, ols)
    BY <1>2, <1>4, <1>6, <1>11, <2>1, CoveredFacts DEF Covered
  <2>3. \A ln : DecisionBy(q, ln) = Approved(ln, u, stage)
    BY <1>4, <1>11, <2>1 DEF DecisionBy
  <2>4. ls = [l \in DOMAIN ols |-> IF l \in ApprovableLines(u, o, ols)
                                  THEN Recorded(Approved(ols[l], u, stage), u,
                                                Approved(ols[l], u, stage).status)
                                  ELSE ols[l]]
    BY <1>10, <2>2, <2>3
  <2>5. ls = [l \in DOMAIN ols |-> IF l \in Serial!ApprovableLines(u, o, ols)
                                  THEN Serial!Recorded(Serial!Approved(ols[l], u, stage), u,
                                                       Serial!Approved(ols[l], u, stage).status)
                                  ELSE ols[l]]
    BY <2>4, SameRules, SameLines
  <2>6. stage = Serial!ApprovalStage(u, o, ols)
    BY <2>1, SameRules
  <2>7. sheet' = [osh EXCEPT !.status = Serial!Aggregate(lines')]
    BY <1>8, SameRules
  <2>8. Serial!Approve(u)
    BY <1>4, <1>5, <1>7, <1>8, <2>2, <2>5, <2>6, <2>7, SameOrganisation DEF Serial!Approve
  <2>. QED BY <1>1, <1>4, <2>8 DEF Serial!Request
<1>12. CASE q.op = "reject"
  <2>1. Covered(q) = RejectableLines(u, o, ols)
    BY <1>4, <1>12 DEF Covered
  <2>2. \A l \in DOMAIN ols : DecisionBy(q, ols[l]) = Rejected(ols[l], u)
                             /\ Rejected(ols[l], u).status = "REJECTED"
    BY <1>4, <1>9, <1>12, RowLinesAre DEF DecisionBy, Rejected, Line
  <2>3. ls = [l \in DOMAIN ols |-> IF l \in RejectableLines(u, o, ols)
                                  THEN Recorded(Rejected(ols[l], u), u, "REJECTED")
                                  ELSE ols[l]]
    BY <1>10, <2>1, <2>2
  <2>4. ls = [l \in DOMAIN ols |-> IF l \in Serial!RejectableLines(u, o, ols)
                                  THEN Serial!Recorded(Serial!Rejected(ols[l], u), u, "REJECTED")
                                  ELSE ols[l]]
    BY <2>3, SameRules, SameLines
  <2>5. Serial!RejectableLines(u, o, ols) # {}
    BY <1>6, <2>1, SameRules
  <2>6. sheet' = [osh EXCEPT !.status = Serial!Aggregate(lines')]
    BY <1>8, SameRules
  <2>7. Serial!Reject(u)
    BY <1>4, <1>5, <1>7, <1>8, <2>4, <2>5, <2>6, SameOrganisation DEF Serial!Reject
  <2>. QED BY <1>1, <1>4, <2>7 DEF Serial!Request
<1>. QED BY <1>6, <1>11, <1>12

LEMMA CreationServes ==
  ASSUME SoloInv, OneRequest, NEW u \in Users, NEW o \in Users, Create(u, o)
  PROVE  Serial!Request(u)
<1>1. sheet.status = "NONE"
  BY DEF Create, NoSheet
<1>2. \A r \in Requests : req[r].pc = "idle"
  BY <1>1, RowIsThere
<1>3. Busy = {} /\ Busy' = {}
  BY <1>2 DEF Create, Busy
<1>4. Serial!Create(u, o)
  BY <1>3, SameOrganisation DEF Create, Serial!Create
<1>. QED BY <1>4 DEF Serial!Request

\* Every step of a request that is alone, but its death, leaves the workflow where
\* it is, or is the request of the workflow.
LEMMA StepServes ==
  ASSUME SoloInv, OneRequest, active = Users, [Next]_vars
  PROVE  [(\E r \in Requests : Crash(r) /\ ~Step(r)) \/ Serial!Next]_(Serial!vars)
<1>. DEFINE Same == FoundSheet' = FoundSheet /\ FoundLines' = FoundLines
<1>1. Same /\ UNCHANGED orgVars => UNCHANGED Serial!vars
  BY DEF Serial!vars, Serial!tsVars, Serial!orgVars, orgVars, Serial!people, people,
         FoundSheet, FoundLines
<1>2. ASSUME NEW u \in Users, Serial!Request(u), UNCHANGED orgVars PROVE Serial!Next
  <2>1. u \in Serial!active /\ UNCHANGED Serial!orgVars
    BY <1>2, SameOrganisation DEF Serial!orgVars, orgVars, Serial!people, people
  <2>. QED BY <1>2, <2>1 DEF Serial!Next
<1>3. CASE UNCHANGED vars
  <2>1. Same
    BY <1>3 DEF vars, dbVars, FoundSheet, FoundLines, Busy, Found
  <2>. QED BY <1>1, <1>3, <2>1 DEF vars
<1>4. CASE Next
  <2>1. UNCHANGED orgVars
    BY <1>4 DEF Next
  <2>2. ASSUME NEW u \in Users, NEW o \in Users, Create(u, o) PROVE Serial!Next
    BY <1>2, <2>1, <2>2, CreationServes
  <2>3. ASSUME NEW r \in Requests, NEW u \in Users, Arrive(r, u) PROVE Same
    BY <2>3, Underway
  <2>4. ASSUME NEW r \in Requests, Step(r) PROVE Same \/ Serial!Next
    <3>1. CASE \/ Delete(r)
               \/ \E new \in Drafts(LineIds \ used) : ReplaceLines(r, new)
               \/ \E S \in SUBSET DOMAIN req[r].lines : \E edits \in [S -> Hours] :
                    EditLines(r, edits)
               \/ RecordTransition(r) \/ Refresh(r)
      <4>1. req[r].user \in Users
        BY <3>1 DEF Delete, ReplaceLines, EditLines, RecordTransition, Refresh, SoloInv,
                    RequestsTypeOK
      <4>2. Serial!Request(req[r].user)
        BY <3>1, SavesServe, TransitionsServe, DecisionsServe
      <4>3. PICK u \in Users : u = req[r].user
        BY <4>1
      <4>4. Serial!Request(u)
        BY <4>2, <4>3
      <4>. QED BY <1>2, <2>1, <4>4
    <3>2. CASE \/ Gate(r) \/ DeleteLines(r) \/ Recheck(r) \/ WriteStatus(r)
               \/ WriteLines(r) \/ (\E l \in LineIds : Decide(r, l))
               \/ RecordDecision(r) \/ Reread(r)
      BY <3>2, Underway
    <3>3. CASE Fail(r)
      BY <3>3, RefusedUnwritten
    <3>. QED BY <2>4, <3>1, <3>2, <3>3 DEF Step
  <2>. QED BY <1>1, <1>4, <2>1, <2>2, <2>3, <2>4 DEF Next
<1>. QED BY <1>3, <1>4

\* A request that meets no other has the effect of one step of TimesheetWorkflow,
\* for every endpoint, however many statements it takes and whatever requests that
\* died have left: what one step of the workflow may never do, one request never
\* does; and while none dies the service is the workflow.
THEOREM OneRequestServesWorkflow ==
  ASSUME OneRequest, Submitters = {}
  PROVE  Spec => ServesWorkflow
<1>1. Init => Serial!Init
  <2>. SUFFICES ASSUME Init PROVE Serial!Init
    OBVIOUS
  <2>1. Busy = {}
    BY RowTypes DEF Init, Busy
  <2>. QED BY <2>1, SameOrganisation DEF Init, Serial!Init
<1>2. Init => active = Users
  BY DEF Init, OrgInit, active
<1>3. active = Users /\ [Next]_vars => (active = Users)'
  BY DEF Next, vars, orgVars, people, active
<1>4. SoloInv /\ active = Users /\ [Next]_vars
        => [(\E r \in Requests : Crash(r) /\ ~Step(r)) \/ Serial!Next]_(Serial!vars)
  BY StepServes
<1>. QED BY <1>1, <1>2, <1>3, <1>4, SoloAlways, PTL DEF Spec, ServesWorkflow

---------------------------------------------------------------------------
(* Validators together.  Each waits for his answer before he asks again,   *)
(* any number of them act at once, and any request may die.  The argument: *)
(* a line has one manager and one chief, the statuses the one may act on   *)
(* are not those of the other, and so at most one request at a time means  *)
(* to write the status of a line; it finds the status as it read it.       *)

ValidatorsOnly ==
  /\ OnePerUser
  /\ Ops \subseteq {"save", "approve", "reject"}
  /\ Submitters # {}

\* Request q means to write the status of line l.
Pending(q, l) ==
  \/ q.pc \in {"gate", "save"} /\ l \in EditableLines(q.user, q.sheet, q.lines)
  \/ q.pc \in {"decide", "log"} /\ l \in q.todo

UnderReview == {"SUBMITTED", "N1_APPROVED", "APPROVED", "REJECTED"}

\* A line of owner o has the signatures its status asks for, in their order.
LineReviewed(o, ln) ==
  /\ ln.status # "DRAFT"
  /\ OwnerManages(o, ln) => ln.status \in {"SUBMITTED", "APPROVED"}
  /\ ln.status = "SITE_APPROVED" => ln.siteBy # NoUser
  /\ ln.status = "APPROVED" =>
       ln.projectBy # NoUser /\ (ln.siteBy # NoUser \/ OwnerManages(o, ln))

AllApproved(ls) == \A l \in DOMAIN ls : ls[l].status = "APPROVED"

\* What request q has read and still relies on.
LastSeen(q, sh, ls) ==
  /\ q.pc \in {"idle", "gate", "save", "decide", "log", "reread", "refresh"}
  /\ q.pc # "idle" =>
       /\ q.sheet.owner = sh.owner /\ q.sheet.status \in UnderReview
       /\ DOMAIN q.lines = DOMAIN ls
       /\ \A l \in DOMAIN ls : q.lines[l].site = ls[l].site
       /\ \A l \in DOMAIN ls : Pending(q, l) => q.lines[l].status = ls[l].status
  /\ q.pc \in {"decide", "log"} => q.todo \subseteq Covered(q)
  /\ q.pc = "refresh" => /\ q.status \in UnderReview
                         /\ q.status = "APPROVED" => AllApproved(ls)

Reviewed(sh, ls) ==
  /\ sh.status \in UnderReview
  /\ DOMAIN ls # {}
  /\ \A l \in DOMAIN ls : LineReviewed(sh.owner, ls[l])
  /\ sh.status = "APPROVED" => AllApproved(ls)

RaceInv ==
  /\ RequestsTypeOK
  /\ Reviewed(sheet, lines)
  /\ \A r \in Requests : LastSeen(req[r], sheet, lines)
  /\ \A r, g \in Requests :
       req[r].pc # "idle" /\ req[g].pc # "idle" /\ req[r].user = req[g].user => r = g

\* Who may be writing the status of a line, and what he found there.
LEMMA PendingFacts ==
  ASSUME NEW q \in RequestRow, NEW sh, NEW ls, LastSeen(q, sh, ls), NEW l, Pending(q, l)
  PROVE  /\ l \in DOMAIN ls /\ ls[l].status = q.lines[l].status
         /\ \/ /\ ls[l].status \in {"SUBMITTED", "REJECTED"}
               /\ ManagerOf(ls[l].site) = q.user /\ ls[l].site # NoSite /\ q.user # sh.owner
            \/ ls[l].status = "SITE_APPROVED" /\ ChiefOf(ls[l].site) = q.user
            \/ /\ ls[l].status = "SUBMITTED" /\ ChiefOf(ls[l].site) = q.user
               /\ OwnerManages(sh.owner, ls[l])
<1>1. /\ q.pc # "idle" /\ q.sheet.owner = sh.owner /\ DOMAIN q.lines = DOMAIN ls
  BY DEF LastSeen, Pending
<1>2. l \in DOMAIN ls
  BY <1>1, CoveredFacts DEF Pending, LastSeen, EditableLines
<1>3. q.lines[l].site = ls[l].site /\ q.lines[l].status = ls[l].status
  BY <1>1, <1>2 DEF LastSeen
<1>4. CASE q.pc \in {"gate", "save"}
  <2>1. CanEditLine(q.user, q.sheet.owner, q.lines[l])
    BY <1>4 DEF Pending, EditableLines
  <2>. QED BY <1>1, <1>2, <1>3, <2>1, OrganisationAssumption
           DEF CanEditLine, OwnerManages, ProjectOf
<1>5. CASE q.pc \in {"decide", "log"}
  <2>1. l \in Covered(q)
    BY <1>5 DEF Pending, LastSeen
  <2>2. CASE q.op = "reject"
    BY <1>1, <1>2, <1>3, <2>1, <2>2 DEF Covered, RejectableLines
  <2>3. CASE q.op # "reject" /\ ApprovalStage(q.user, q.sheet.owner, q.lines) = "SITE"
    BY <1>1, <1>2, <1>3, <2>1, <2>3 DEF Covered, ApprovableLines, SiteDecidable, ManagesLine
  <2>4. CASE q.op # "reject" /\ ApprovalStage(q.user, q.sheet.owner, q.lines) = "PROJECT"
    BY <1>1, <1>2, <1>3, <2>1, <2>4 DEF Covered, ApprovableLines, ProjectDecidable, OwnerManages
  <2>. QED BY <2>1, <2>2, <2>3, <2>4, CoveredFacts
<1>. QED BY <1>2, <1>3, <1>4, <1>5 DEF Pending

\* No two requests mean to write the status of the same line.
LEMMA PendingIsExclusive ==
  ASSUME RaceInv, NEW r \in Requests, NEW g \in Requests, NEW l,
         Pending(req[r], l), Pending(req[g], l)
  PROVE  r = g
<1>1. /\ req[r] \in RequestRow /\ req[g] \in RequestRow
      /\ LastSeen(req[r], sheet, lines) /\ LastSeen(req[g], sheet, lines)
      /\ req[r].pc # "idle" /\ req[g].pc # "idle"
  BY DEF RaceInv, RequestsTypeOK, Pending
<1>2. req[r].user = req[g].user
  BY <1>1, PendingFacts DEF OwnerManages
<1>. QED BY <1>1, <1>2 DEF RaceInv

\* While the organisation stands still, so does what a request relies on.
LEMMA ReviewIsFixed ==
  ASSUME UNCHANGED orgVars, NEW q, NEW sh, NEW ls
  PROVE  /\ LastSeen(q, sh, ls) => LastSeen(q, sh, ls)'
         /\ Reviewed(sh, ls) => Reviewed(sh, ls)'
<1>1. Covered(q)' = Covered(q)
  BY StandingIsFixed
<1>2. \A l : Pending(q, l)' <=> Pending(q, l)
  BY RulesAreFixed DEF Pending
<1>3. LastSeen(q, sh, ls) => LastSeen(q, sh, ls)'
  BY <1>1, <1>2 DEF LastSeen, AllApproved
<1>4. Reviewed(sh, ls) => Reviewed(sh, ls)'
  BY RulesAreFixed DEF Reviewed, LineReviewed, AllApproved
<1>. QED BY <1>3, <1>4

\* Two states of the lines between which only request r has written statuses.
WrittenBy(q, ls, ls1) ==
  /\ DOMAIN ls1 = DOMAIN ls
  /\ \A l \in DOMAIN ls : /\ ls1[l].site = ls[l].site
                          /\ ls1[l].status # ls[l].status => Pending(q, l)

\* What the others rely on survives a step of r.
LEMMA OthersRely ==
  ASSUME RaceInv, NEW r \in Requests, NEW g \in Requests, g # r, NEW q, NEW p,
         q = req[r], p = req[g], NEW sh, NEW sh1, NEW ls, NEW ls1, sh = sheet, ls = lines,
         sh1.owner = sh.owner, WrittenBy(q, ls, ls1)
  PROVE  LastSeen(p, sh1, ls1)
<1>1. LastSeen(p, sh, ls) /\ LastSeen(q, sh, ls) /\ p \in RequestRow /\ q \in RequestRow
  BY DEF RaceInv, RequestsTypeOK
<1>2. \A l : ~(Pending(q, l) /\ Pending(p, l))
  BY PendingIsExclusive
<1>3. \A l \in DOMAIN ls : Pending(p, l) => ls1[l].status = ls[l].status
  BY <1>2 DEF WrittenBy
<1>4. \A l \in DOMAIN ls : ls[l].status = "APPROVED" => ls1[l].status = "APPROVED"
  BY <1>1, PendingFacts DEF WrittenBy
<1>. QED BY <1>1, <1>3, <1>4 DEF LastSeen, WrittenBy, AllApproved

\* A step of request r: what has to be shown of it.
LEMMA RaceAlters ==
  ASSUME RaceInv, RequestsTypeOK', UNCHANGED orgVars, NEW r \in Requests,
         NEW q, NEW q1, NEW sh, NEW sh1, NEW ls, NEW ls1,
         q = req[r], sh = sheet, ls = lines, sheet' = sh1, lines' = ls1,
         req' = [req EXCEPT ![r] = q1], sh1.owner = sh.owner,
         WrittenBy(q, ls, ls1), LastSeen(q1, sh1, ls1), Reviewed(sh1, ls1),
         q1.pc # "idle" => \/ q.pc # "idle" /\ q1.user = q.user
                           \/ \A g \in Requests : req[g].user # q1.user
  PROVE  RaceInv'
<1>1. req'[r] = q1 /\ \A g \in Requests \ {r} : req'[g] = req[g]
  BY DEF RaceInv, RequestsTypeOK
<1>2. Reviewed(sh1, ls1)' /\ LastSeen(q1, sh1, ls1)'
  BY ReviewIsFixed
<1>3. Reviewed(sheet, lines)' /\ LastSeen(req[r], sheet, lines)'
  BY <1>1, <1>2
<1>4. ASSUME NEW g \in Requests, g # r PROVE LastSeen(req[g], sheet, lines)'
  <2>1. PICK p : p = req[g]
    OBVIOUS
  <2>2. LastSeen(p, sh1, ls1)
    BY <1>4, <2>1, OthersRely
  <2>3. LastSeen(p, sh1, ls1)'
    BY <2>2, ReviewIsFixed
  <2>4. req'[g] = p
    BY <1>1, <1>4, <2>1
  <2>. QED BY <2>3, <2>4
<1>5. \A f, g \in Requests :
        req'[f].pc # "idle" /\ req'[g].pc # "idle" /\ req'[f].user = req'[g].user => f = g
  BY <1>1 DEF RaceInv
<1>. QED BY <1>3, <1>4, <1>5 DEF RaceInv

\* Nothing written at all.
LEMMA NothingWritten ==
  ASSUME NEW q, NEW ls
  PROVE  WrittenBy(q, ls, ls)
BY DEF WrittenBy

LEMMA RaceArrives ==
  ASSUME ValidatorsOnly, RaceInv, RequestsTypeOK', UNCHANGED orgVars,
         NEW r \in Requests, NEW u \in Users, Arrive(r, u)
  PROVE  RaceInv'
<1>1. PICK q, q1, sh, ls : q = req[r] /\ q1 = req'[r] /\ sh = sheet /\ ls = lines
  OBVIOUS
<1>2. sh.status \in UnderReview /\ Reviewed(sh, ls) /\ RequestsTypeOK /\ sh.status \notin Editable
  BY <1>1 DEF RaceInv, Reviewed, UnderReview, Editable
<1>3. DOMAIN lines \subseteq LineIds
  BY RowLinesAre DEF RaceInv, RequestsTypeOK, RowsTypeOK
<1>4. PICK op, pc, todo :
        /\ Begin(r, u, op, pc, todo) /\ todo \in SUBSET LineIds
        /\ \/ op = "save" /\ pc = "gate"
           \/ op = "approve" /\ pc = "decide" /\ todo = ApprovableLines(u, sh.owner, ls)
           \/ op = "reject" /\ pc = "decide" /\ todo = RejectableLines(u, sh.owner, ls)
  <2>1. ~BeginRemove(r, u) /\ ~BeginSubmit(r, u) /\ ~BeginReopen(r, u)
    BY DEF ValidatorsOnly, BeginRemove, BeginSubmit, BeginReopen, Begin
  <2>2. CASE BeginSave(r, u)
    BY <1>1, <1>2, <2>2 DEF BeginSave
  <2>3. CASE BeginApprove(r, u)
    BY <1>1, <1>3, <2>3, LinesToDecide DEF BeginApprove
  <2>4. CASE BeginReject(r, u)
    BY <1>1, <1>3, <2>4, LinesToDecide DEF BeginReject
  <2>. QED BY <2>1, <2>2, <2>3, <2>4 DEF Arrive
<1>5. Arrived(req'[r], u, op, pc, todo, sheet, lines, row)
  <2>1. pc \in {"delete", "save", "gate", "recheck", "status", "decide"}
    BY <1>4
  <2>. QED BY <1>2, <1>4, <2>1, ArrivalFacts
<1>6. /\ q1 \in RequestRow /\ q1.pc = pc /\ q1.op = op /\ q1.user = u /\ q1.todo = todo
      /\ q1.sheet = sh /\ q1.lines = ls
  BY <1>1, <1>5 DEF Arrived
<1>7. pc = "decide" => todo = Covered(q1)
  BY <1>4, <1>6 DEF Covered
<1>8. LastSeen(q1, sh, ls)
  BY <1>2, <1>4, <1>6, <1>7 DEF LastSeen
<1>9. /\ sheet' = sh /\ lines' = ls /\ \A g \in Requests : req[g].user # q1.user
      /\ req' = [req EXCEPT ![r] = q1]
  BY <1>1, <1>4, <1>6 DEF Begin, dbVars, ValidatorsOnly, RequestsTypeOK, RaceInv
<1>. QED BY <1>1, <1>2, <1>8, <1>9, NothingWritten, RaceAlters

\* A validator's save writes lines that wait for their manager, and leaves them so.
LEMMA SavedLine ==
  ASSUME RaceInv, NEW r \in Requests, NEW S \in SUBSET DOMAIN req[r].lines,
         NEW edits \in [S -> Hours], EditLines(r, edits), NEW l \in S,
         NEW q, NEW ls, NEW ls1, q = req[r], ls = lines, ls1 = lines'
  PROVE  /\ l \in DOMAIN ls /\ Pending(q, l) /\ ls[l].status \in {"SUBMITTED", "REJECTED"}
         /\ ls1[l].status = "SUBMITTED" /\ ls1[l].site = ls[l].site
<1>1. PICK sh : sh = sheet
  OBVIOUS
<1>2. q \in RequestRow /\ ls \in RowLines /\ LastSeen(q, sh, ls) /\ q.pc = "save"
  BY <1>1 DEF RaceInv, RequestsTypeOK, RowsTypeOK, EditLines
<1>3. l \in EditableLines(q.user, q.sheet, q.lines) /\ l \in DOMAIN ls
  BY DEF EditLines
<1>4. Pending(q, l)
  BY <1>2, <1>3 DEF Pending
<1>5. ls[l].status \in {"SUBMITTED", "REJECTED"} /\ q.lines[l].status = ls[l].status
  <2>1. q.lines[l].status \in {"SUBMITTED", "REJECTED"}
    BY <1>3 DEF EditableLines, CanEditLine
  <2>. QED BY <1>2, <1>4, <2>1, PendingFacts
<1>6. ls[l] \in Line /\ q.lines[l] \in Line
  BY <1>2, <1>3, RowLinesAre DEF RequestRow, EditableLines
<1>7. Corrected(q.lines[l], edits[l]).status = "SUBMITTED"
  BY <1>5, <1>6 DEF Corrected, Line
<1>8. ls1[l] = [ls[l] EXCEPT !.hours = edits[l],
                             !.status = Corrected(q.lines[l], edits[l]).status,
                             !.rejectedBy = Corrected(q.lines[l], edits[l]).rejectedBy]
  BY <1>3 DEF EditLines
<1>9. ls1[l].status = "SUBMITTED" /\ ls1[l].site = ls[l].site
  BY <1>6, <1>7, <1>8 DEF Line
<1>. QED BY <1>3, <1>4, <1>5, <1>9

\* The statements of a validator's save, and those that write no line.
LEMMA RaceSaves ==
  ASSUME ValidatorsOnly, RaceInv, RequestsTypeOK', UNCHANGED orgVars, NEW r \in Requests,
         \/ Gate(r) \/ Reread(r) \/ Refresh(r) \/ Fail(r) \/ Crash(r)
         \/ \E S \in SUBSET DOMAIN req[r].lines : \E edits \in [S -> Hours] :
              EditLines(r, edits)
  PROVE  RaceInv'
<1>1. PICK q, sh, ls : q = req[r] /\ sh = sheet /\ ls = lines
  OBVIOUS
<1>2. /\ Reviewed(sh, ls) /\ LastSeen(q, sh, ls) /\ RequestsTypeOK
      /\ q \in RequestRow /\ sh \in Sheet /\ ls \in RowLines
      /\ req \in [Requests -> RequestRow]
  BY <1>1 DEF RaceInv, RequestsTypeOK, RowsTypeOK
<1>3. Idle.pc = "idle" /\ LastSeen(Idle, sh, ls)
  BY RowTypes DEF LastSeen
<1>4. CASE Gate(r)
  <2>1. PICK q1 : q1 = [q EXCEPT !.pc = "save"]
    OBVIOUS
  <2>2. /\ q.pc = "gate" /\ req' = [req EXCEPT ![r] = q1] /\ sheet' = sh /\ lines' = ls
    BY <1>1, <1>2, <1>4, <2>1 DEF Gate, Goto, dbVars
  <2>3. /\ q1.pc = "save" /\ q1.user = q.user /\ q1.sheet = q.sheet /\ q1.lines = q.lines
    BY <1>2, <2>1, MovedOn
  <2>4. LastSeen(q1, sh, ls)
    BY <1>2, <2>2, <2>3 DEF LastSeen, Pending
  <2>. QED BY <1>1, <1>2, <2>2, <2>3, <2>4, NothingWritten, RaceAlters
<1>5. CASE Reread(r)
  <2>1. PICK q1 : q1 = [q EXCEPT !.pc = "refresh", !.status = Aggregate(ls)]
    OBVIOUS
  <2>2. /\ q.pc = "reread" /\ req' = [req EXCEPT ![r] = q1] /\ sheet' = sh /\ lines' = ls
    BY <1>1, <1>2, <1>5, <2>1 DEF Reread, dbVars
  <2>3. /\ q1.pc = "refresh" /\ q1.user = q.user /\ q1.sheet = q.sheet /\ q1.lines = q.lines
        /\ q1.status = Aggregate(ls)
    BY <1>2, <2>1 DEF RequestRow
  <2>4. Aggregate(ls) = "APPROVED" => AllApproved(ls)
    BY DEF Aggregate, AllApproved
  <2>5. Aggregate(ls) \in UnderReview
    BY DEF Aggregate, UnderReview
  <2>6. LastSeen(q1, sh, ls)
    BY <1>2, <2>2, <2>3, <2>4, <2>5 DEF LastSeen, Pending
  <2>. QED BY <1>1, <1>2, <2>2, <2>3, <2>6, NothingWritten, RaceAlters
<1>6. CASE Refresh(r)
  <2>1. PICK sh1 : sh1 = [sh EXCEPT !.status = q.status]
    OBVIOUS
  <2>2. q.pc = "refresh" /\ req' = [req EXCEPT ![r] = Idle] /\ sheet' = sh1 /\ lines' = ls
    BY <1>1, <1>6, <2>1 DEF Refresh, End
  <2>3. sh1.owner = sh.owner /\ sh1.status = q.status
    BY <1>2, <2>1 DEF Sheet
  <2>4. q.status \in UnderReview /\ (q.status = "APPROVED" => AllApproved(ls))
    BY <1>2, <2>2 DEF LastSeen
  <2>5. Reviewed(sh1, ls) /\ LastSeen(Idle, sh1, ls)
    BY <1>2, <1>3, <2>3, <2>4 DEF Reviewed, LastSeen
  <2>. QED BY <1>1, <1>3, <2>2, <2>3, <2>5, NothingWritten, RaceAlters
<1>7. CASE Fail(r) \/ Crash(r)
  <2>1. req' = [req EXCEPT ![r] = Idle] /\ sheet' = sh /\ lines' = ls
    BY <1>1, <1>7 DEF Fail, Crash, End, dbVars
  <2>. QED BY <1>1, <1>2, <1>3, <2>1, NothingWritten, RaceAlters
<1>8. ASSUME NEW S \in SUBSET DOMAIN req[r].lines, NEW edits \in [S -> Hours],
             EditLines(r, edits)
      PROVE  RaceInv'
  <2>1. PICK ls1 : ls1 = lines'
    OBVIOUS
  <2>2. q.pc = "save" /\ req' = [req EXCEPT ![r] = Idle] /\ sheet' = sh /\ DOMAIN ls1 = DOMAIN ls
    BY <1>1, <1>8, <2>1 DEF EditLines, End
  <2>3. \A l \in DOMAIN ls \ S : ls1[l] = ls[l]
    BY <1>1, <1>8, <2>1 DEF EditLines
  <2>4. ASSUME NEW l \in S
        PROVE  /\ l \in DOMAIN ls /\ Pending(q, l) /\ ls[l].status \in {"SUBMITTED", "REJECTED"}
               /\ ls1[l].status = "SUBMITTED" /\ ls1[l].site = ls[l].site
    BY <1>1, <1>8, <2>1, SavedLine
  <2>5. WrittenBy(q, ls, ls1)
    BY <2>2, <2>3, <2>4 DEF WrittenBy
  <2>6. Reviewed(sh, ls1)
    <3>1. sh.status = "APPROVED" => AllApproved(ls1)
      BY <1>2, <2>2, <2>3, <2>4 DEF Reviewed, AllApproved
    <3>2. \A l \in DOMAIN ls1 : LineReviewed(sh.owner, ls1[l])
      BY <1>2, <2>2, <2>3, <2>4 DEF Reviewed, LineReviewed, OwnerManages
    <3>. QED BY <1>2, <2>2, <3>1, <3>2 DEF Reviewed
  <2>7. LastSeen(Idle, sh, ls1)
    BY <1>3 DEF LastSeen
  <2>. QED BY <1>1, <1>3, <2>1, <2>2, <2>5, <2>6, <2>7, RaceAlters
<1>. QED BY <1>4, <1>5, <1>6, <1>7, <1>8

\* A decision leaves the line with the signatures it needs, the chief's on top of
\* the manager's.
LEMMA DecisionIsReviewed ==
  ASSUME NEW q \in RequestRow, q.user \in Users, NEW sh, NEW ls \in RowLines,
         LastSeen(q, sh, ls), q.pc = "decide", NEW l \in q.todo,
         LineReviewed(sh.owner, ls[l])
  PROVE  LET d == DecisionBy(q, ls[l])
         IN  /\ d.site = ls[l].site /\ LineReviewed(sh.owner, d)
             /\ d.status = "APPROVED" =>
                  \/ ls[l].status = "SITE_APPROVED" /\ ls[l].siteBy # NoUser
                  \/ OwnerManages(sh.owner, ls[l])
<1>1. Pending(q, l) /\ l \in Covered(q)
  BY DEF Pending, LastSeen
<1>2. /\ l \in DOMAIN ls /\ ls[l].status = q.lines[l].status /\ ls[l].site = q.lines[l].site
      /\ q.sheet.owner = sh.owner
  BY <1>1, PendingFacts DEF LastSeen
<1>3. PICK ln, o : ln = ls[l] /\ o = sh.owner
  OBVIOUS
<1>4. ln \in Line /\ LineReviewed(o, ln)
  BY <1>2, <1>3, RowLinesAre
<1>5. q.user # NoUser
  BY OrganisationAssumption
<1>. DEFINE d == DecisionBy(q, ln)
<1>. SUFFICES /\ d.site = ln.site /\ LineReviewed(o, d)
              /\ d.status = "APPROVED" =>
                   \/ ln.status = "SITE_APPROVED" /\ ln.siteBy # NoUser
                   \/ OwnerManages(o, ln)
  BY <1>3
<1>6. CASE q.op = "reject"
  <2>1. ln.status = "SITE_APPROVED"
    BY <1>1, <1>2, <1>3, <1>6, CoveredFacts
  <2>2. d.site = ln.site /\ d.status = "REJECTED"
    BY <1>4, <1>6 DEF DecisionBy, Rejected, Line
  <2>. QED BY <1>4, <2>1, <2>2 DEF LineReviewed, OwnerManages
<1>7. CASE q.op # "reject" /\ ApprovalStage(q.user, q.sheet.owner, q.lines) = "SITE"
  <2>1. ~OwnerManages(o, ln)
    BY <1>1, <1>2, <1>3, <1>7 DEF Covered, ApprovableLines, SiteDecidable, ManagesLine, OwnerManages
  <2>2. d.site = ln.site /\ d.status = "SITE_APPROVED" /\ d.siteBy = q.user
    BY <1>4, <1>7 DEF DecisionBy, Approved, Line
  <2>. QED BY <1>4, <1>5, <2>1, <2>2 DEF LineReviewed, OwnerManages
<1>8. CASE q.op # "reject" /\ ApprovalStage(q.user, q.sheet.owner, q.lines) = "PROJECT"
  <2>1. ln.status = "SITE_APPROVED" \/ OwnerManages(o, ln)
    BY <1>1, <1>2, <1>3, <1>8, CoveredFacts DEF OwnerManages
  <2>2. /\ d.site = ln.site /\ d.status = "APPROVED" /\ d.siteBy = ln.siteBy
        /\ d.projectBy = q.user
    BY <1>4, <1>8 DEF DecisionBy, Approved, Line
  <2>. QED BY <1>4, <1>5, <2>1, <2>2 DEF LineReviewed, OwnerManages
<1>. QED BY <1>1, <1>6, <1>7, <1>8, CoveredFacts

LEMMA RaceDecides ==
  ASSUME ValidatorsOnly, RaceInv, RequestsTypeOK', UNCHANGED orgVars, NEW r \in Requests,
         (\E l \in LineIds : Decide(r, l)) \/ RecordDecision(r)
  PROVE  RaceInv'
<1>1. PICK q, sh, ls, ls1 : q = req[r] /\ sh = sheet /\ ls = lines /\ ls1 = lines'
  OBVIOUS
<1>2. /\ Reviewed(sh, ls) /\ LastSeen(q, sh, ls) /\ RequestsTypeOK
      /\ q \in RequestRow /\ sh \in Sheet /\ ls \in RowLines
      /\ req \in [Requests -> RequestRow]
  BY <1>1 DEF RaceInv, RequestsTypeOK, RowsTypeOK
<1>3. /\ q.pc \in {"decide", "log"} /\ q.user \in Users /\ sheet' = sh
      /\ \A l \in DOMAIN ls : ls[l] \in Line
  <2>1. q.pc \in {"decide", "log"} /\ sheet' = sh
    BY <1>1 DEF Decide, RecordDecision
  <2>2. q.user \in Users
    BY <1>1, <1>2, <2>1 DEF RequestsTypeOK
  <2>3. \A l \in DOMAIN ls : ls[l] \in Line
    BY <1>2, RowLinesAre
  <2>. QED BY <2>1, <2>2, <2>3
<1>4. ASSUME NEW l \in LineIds, Decide(r, l) PROVE RaceInv'
  <2>1. PICK q1 : q1 = [q EXCEPT !.pc = "log", !.at = l, !.todo = q.todo \ {l}]
    OBVIOUS
  <2>2. q.pc = "decide" /\ l \in q.todo /\ l \in DOMAIN ls
    BY <1>1, <1>4 DEF Decide
  <2>3. req' = [req EXCEPT ![r] = q1]
    BY <1>1, <1>2, <1>4, <2>1 DEF Decide
  <2>4. ls1 = [ls EXCEPT ![l] = DecisionBy(q, ls[l])]
    <3>1. ls1 = [ls EXCEPT ![l] = Decision(r, ls[l])]
      BY <1>1, <1>4 DEF Decide
    <3>2. Decision(r, ls[l]) = DecisionBy(q, ls[l])
      BY <1>1 DEF Decision, DecisionBy
    <3>. QED BY <3>1, <3>2
  <2>5. /\ q1.pc = "log" /\ q1.todo = q.todo \ {l}
        /\ q1.op = q.op /\ q1.user = q.user /\ q1.sheet = q.sheet /\ q1.lines = q.lines
    BY <1>2, <2>1 DEF RequestRow
  <2>6. Covered(q1) = Covered(q)
    BY <2>5, SameCase
  <2>7. /\ DecisionBy(q, ls[l]).site = ls[l].site
        /\ LineReviewed(sh.owner, DecisionBy(q, ls[l]))
    BY <1>2, <1>3, <2>2, DecisionIsReviewed DEF Reviewed
  <2>8. Pending(q, l) /\ ls[l].status # "APPROVED"
    BY <1>2, <2>2, PendingFacts DEF Pending
  <2>9. WrittenBy(q, ls, ls1)
    BY <2>2, <2>4, <2>7, <2>8 DEF WrittenBy
  <2>10. Reviewed(sh, ls1)
    BY <1>2, <2>2, <2>4, <2>7, <2>8 DEF Reviewed, AllApproved
  <2>11. \A k \in DOMAIN ls : Pending(q1, k) => Pending(q, k) /\ ls1[k] = ls[k]
    BY <2>2, <2>4, <2>5 DEF Pending
  <2>12. /\ DOMAIN ls1 = DOMAIN ls
         /\ \A k \in DOMAIN ls : ls1[k].site = ls[k].site
    BY <2>9 DEF WrittenBy
  <2>13. LastSeen(q1, sh, ls1)
    BY <1>2, <2>2, <2>5, <2>6, <2>11, <2>12 DEF LastSeen
  <2>. QED BY <1>1, <1>3, <2>3, <2>5, <2>9, <2>10, <2>13, RaceAlters
<1>5. CASE RecordDecision(r)
  <2>. DEFINE l == req[r].at
              decided == Decision(r, req[r].lines[l]).status
  <2>1. PICK q1 : q1 = [q EXCEPT !.at = NoLine,
                                !.pc = IF q.todo = {} THEN "reread" ELSE "decide"]
    OBVIOUS
  <2>2. q.pc = "log" /\ req' = [req EXCEPT ![r] = q1]
    BY <1>1, <1>2, <1>5, <2>1 DEF RecordDecision
  <2>3. /\ q1.pc \in {"reread", "decide"} /\ q1.todo = q.todo
        /\ q1.op = q.op /\ q1.user = q.user /\ q1.sheet = q.sheet /\ q1.lines = q.lines
    BY <1>2, <2>1 DEF RequestRow
  <2>4. Covered(q1) = Covered(q)
    BY <2>3, SameCase
  <2>5. \/ ls1 = ls
        \/ l \in DOMAIN ls /\ ls1 = [ls EXCEPT ![l] = Recorded(ls[l], q.user, decided)]
    BY <1>1, <1>5 DEF RecordDecision
  <2>6. /\ DOMAIN ls1 = DOMAIN ls
        /\ \A k \in DOMAIN ls :
             /\ ls1[k].site = ls[k].site /\ ls1[k].status = ls[k].status
             /\ ls1[k].siteBy = ls[k].siteBy /\ ls1[k].projectBy = ls[k].projectBy
    <3>. HIDE DEF l, decided
    <3>1. \A ln \in Line :
            /\ Recorded(ln, q.user, decided).site = ln.site
            /\ Recorded(ln, q.user, decided).status = ln.status
            /\ Recorded(ln, q.user, decided).siteBy = ln.siteBy
            /\ Recorded(ln, q.user, decided).projectBy = ln.projectBy
      BY DEF Recorded, Line
    <3>. QED BY <1>3, <2>5, <3>1
  <2>7. WrittenBy(q, ls, ls1)
    BY <2>6 DEF WrittenBy
  <2>8. Reviewed(sh, ls1)
    <3>1. \A k \in DOMAIN ls : OwnerManages(sh.owner, ls1[k]) <=> OwnerManages(sh.owner, ls[k])
      BY <2>6 DEF OwnerManages
    <3>. QED BY <1>2, <2>6, <3>1 DEF Reviewed, LineReviewed, AllApproved
  <2>9. \A k \in DOMAIN ls : Pending(q1, k) => Pending(q, k)
    BY <2>2, <2>3 DEF Pending
  <2>10. LastSeen(q1, sh, ls1)
    BY <1>2, <2>2, <2>3, <2>4, <2>6, <2>9 DEF LastSeen
  <2>. QED BY <1>1, <1>3, <2>2, <2>3, <2>7, <2>8, <2>10, RaceAlters
<1>. QED BY <1>4, <1>5

LEMMA RaceStill ==
  ASSUME RaceInv, RequestsTypeOK', UNCHANGED vars
  PROVE  RaceInv'
<1>1. /\ sheet' = sheet /\ lines' = lines /\ req' = req /\ UNCHANGED orgVars
  BY DEF vars, dbVars
<1>2. PICK sh, ls : sh = sheet /\ ls = lines
  OBVIOUS
<1>3. Reviewed(sheet, lines)'
  <2>1. Reviewed(sh, ls)'
    BY <1>1, <1>2, ReviewIsFixed DEF RaceInv
  <2>. QED BY <1>1, <1>2, <2>1
<1>4. ASSUME NEW r \in Requests PROVE LastSeen(req[r], sheet, lines)'
  <2>1. PICK q : q = req[r]
    OBVIOUS
  <2>2. LastSeen(q, sh, ls)
    BY <1>2, <2>1 DEF RaceInv
  <2>3. LastSeen(q, sh, ls)'
    BY <1>1, <2>2, ReviewIsFixed
  <2>4. req'[r] = q /\ sheet' = sh /\ lines' = ls
    BY <1>1, <1>2, <2>1
  <2>. QED BY <2>3, <2>4
<1>5. \A r, g \in Requests :
        req'[r].pc # "idle" /\ req'[g].pc # "idle" /\ req'[r].user = req'[g].user => r = g
  BY <1>1 DEF RaceInv
<1>. QED BY <1>3, <1>4, <1>5 DEF RaceInv

\* Among validators no transition, no deletion and no save of an owner is under way.
LEMMA OnlyValidators ==
  ASSUME RaceInv, NEW r \in Requests
  PROVE  /\ ~Delete(r) /\ ~DeleteLines(r) /\ (\A new : ~ReplaceLines(r, new))
         /\ ~Recheck(r) /\ ~WriteStatus(r) /\ ~WriteLines(r) /\ ~RecordTransition(r)
<1>1. PICK q, sh, ls : q = req[r] /\ sh = sheet /\ ls = lines
  OBVIOUS
<1>2. LastSeen(q, sh, ls) /\ sh.status \in UnderReview
  BY <1>1 DEF RaceInv, Reviewed
<1>3. q.pc \in {"idle", "gate", "save", "decide", "log", "reread", "refresh"}
  BY <1>2 DEF LastSeen
<1>4. ~DeleteLines(r)
  BY <1>1, <1>2 DEF DeleteLines, ReplacesAll, LastSeen, UnderReview, Editable
<1>. QED BY <1>1, <1>3, <1>4
         DEF Delete, ReplaceLines, Recheck, WriteStatus, WriteLines, RecordTransition

LEMMA RaceStepInv ==
  ASSUME RaceInv, ValidatorsOnly, [Next]_vars
  PROVE  RaceInv'
<1>1. RequestsTypeOK'
  BY TypesKept DEF RaceInv
<1>2. CASE UNCHANGED vars
  BY <1>1, <1>2, RaceStill
<1>3. CASE Next
  <2>1. UNCHANGED orgVars
    BY <1>3 DEF Next
  <2>2. ASSUME NEW r \in Requests, NEW u \in Users, Arrive(r, u) PROVE RaceInv'
    BY <1>1, <2>1, <2>2, RaceArrives
  <2>3. ASSUME NEW r \in Requests, Crash(r) PROVE RaceInv'
    BY <1>1, <2>1, <2>3, RaceSaves
  <2>4. ASSUME NEW r \in Requests, Step(r) PROVE RaceInv'
    BY <1>1, <2>1, <2>4, OnlyValidators, RaceSaves, RaceDecides DEF Step
  <2>5. \A u, o : ~Create(u, o)
    BY DEF Create, NoSheet, RaceInv, Reviewed, UnderReview
  <2>. QED BY <1>3, <2>2, <2>3, <2>4, <2>5 DEF Next
<1>. QED BY <1>2, <1>3

LEMMA RaceInit ==
  ASSUME Init, ValidatorsOnly
  PROVE  RaceInv
<1>1. RequestsTypeOK /\ \A r \in Requests : req[r].pc = "idle"
  BY InitTypes, RowTypes DEF Init
<1>2. PICK o \in Submitters, draft \in Drafts(LineIds) : Submitted(o, draft)
  BY DEF Init, ValidatorsOnly
<1>3. /\ DOMAIN lines = DOMAIN draft /\ DOMAIN draft # {} /\ sheet.status = "SUBMITTED"
  BY <1>2 DEF Submitted, CanSubmit, HasWorkEntries
<1>4. \A l \in DOMAIN lines : lines[l].status = "SUBMITTED"
  <2>1. \A l \in DOMAIN draft : ResetLine(draft[l], "SUBMITTED").status = "SUBMITTED"
    BY DraftTypes, RowLinesAre DEF ResetLine, Line
  <2>. QED BY <1>2, <2>1 DEF Submitted
<1>5. Reviewed(sheet, lines)
  BY <1>3, <1>4 DEF Reviewed, LineReviewed, UnderReview
<1>6. \A r \in Requests : LastSeen(req[r], sheet, lines)
  BY <1>1 DEF LastSeen
<1>. QED BY <1>1, <1>5, <1>6 DEF RaceInv

LEMMA RaceAlways ==
  ASSUME ValidatorsOnly
  PROVE  Spec => []RaceInv
<1>1. Init => RaceInv
  BY RaceInit
<1>2. RaceInv /\ [Next]_vars => RaceInv'
  BY RaceStepInv
<1>. QED BY <1>1, <1>2, PTL DEF Spec

\* Validators together, a sheet says APPROVED only when it has lines and each of
\* them has been through both stages: the aggregate a chief read before another's
\* last signature is no more APPROVED than the lines are, and an approved line can
\* no longer be corrected or refused.  Any request may die on the way.
THEOREM RacingApprovalsAreSigned ==
  ASSUME ValidatorsOnly
  PROVE  Spec => []ApprovedMeansSigned
<1>1. RaceInv => ApprovedMeansSigned
  BY RowTypes DEF RaceInv, Reviewed, AllApproved, LineReviewed, ApprovedMeansSigned, Signed
<1>. QED BY <1>1, RaceAlways, PTL

\* What one step may make of the status of a line.
LEMMA StatusWritten ==
  ASSUME RaceInv, ValidatorsOnly, [Next]_vars, NEW l \in DOMAIN lines
  PROVE  /\ l \in DOMAIN lines'
         /\ lines'[l].status # lines[l].status =>
              /\ lines[l].status # "APPROVED"
              /\ lines'[l].status = "APPROVED" =>
                   \/ lines[l].status = "SITE_APPROVED" /\ lines[l].siteBy # NoUser
                   \/ OwnerManages(sheet.owner, lines[l])
<1>. DEFINE Goal == /\ l \in DOMAIN lines'
                    /\ lines'[l].status # lines[l].status =>
                         /\ lines[l].status # "APPROVED"
                         /\ lines'[l].status = "APPROVED" =>
                              \/ lines[l].status = "SITE_APPROVED" /\ lines[l].siteBy # NoUser
                              \/ OwnerManages(sheet.owner, lines[l])
<1>1. CASE lines' = lines
  BY <1>1
<1>2. ASSUME NEW r \in Requests, NEW S \in SUBSET DOMAIN req[r].lines,
             NEW edits \in [S -> Hours], EditLines(r, edits)
      PROVE  Goal
  <2>1. PICK q, ls, ls1 : q = req[r] /\ ls = lines /\ ls1 = lines'
    OBVIOUS
  <2>2. l \in DOMAIN ls1 /\ (l \notin S => ls1[l] = ls[l])
    BY <1>2, <2>1 DEF EditLines
  <2>3. l \in S => ls[l].status \in {"SUBMITTED", "REJECTED"} /\ ls1[l].status = "SUBMITTED"
    BY <1>2, <2>1, SavedLine
  <2>. QED BY <2>1, <2>2, <2>3
<1>3. ASSUME NEW r \in Requests, NEW k \in LineIds, Decide(r, k) PROVE Goal
  <2>1. PICK q, sh, ls, ls1 : q = req[r] /\ sh = sheet /\ ls = lines /\ ls1 = lines'
    OBVIOUS
  <2>2. /\ LastSeen(q, sh, ls) /\ Reviewed(sh, ls) /\ q \in RequestRow /\ q.user \in Users
        /\ q.pc = "decide" /\ k \in q.todo /\ ls \in RowLines /\ k \in DOMAIN ls
    BY <1>3, <2>1 DEF RaceInv, RequestsTypeOK, RowsTypeOK, Decide
  <2>3. DOMAIN ls1 = DOMAIN ls /\ (l # k => ls1[l] = ls[l])
    BY <1>3, <2>1 DEF Decide
  <2>4. ls1[k] = DecisionBy(q, ls[k])
    BY <1>3, <2>1 DEF Decide, Decision, DecisionBy
  <2>5. ls[k].status # "APPROVED"
    BY <2>2, PendingFacts DEF Pending
  <2>6. ls1[k].status = "APPROVED" =>
          \/ ls[k].status = "SITE_APPROVED" /\ ls[k].siteBy # NoUser
          \/ OwnerManages(sh.owner, ls[k])
    BY <2>2, <2>4, DecisionIsReviewed DEF Reviewed
  <2>. QED BY <2>1, <2>3, <2>5, <2>6
<1>4. ASSUME NEW r \in Requests, RecordDecision(r) PROVE Goal
  <2>1. lines[l] \in Line
    BY RowLinesAre DEF RaceInv, RequestsTypeOK, RowsTypeOK
  <2>2. \A u, st : Recorded(lines[l], u, st).status = lines[l].status
    BY <2>1 DEF Recorded, Line
  <2>3. /\ DOMAIN lines' = DOMAIN lines
        /\ \/ lines'[l] = lines[l]
           \/ \E u, st : lines'[l] = Recorded(lines[l], u, st)
    BY <1>4 DEF RecordDecision
  <2>. QED BY <2>2, <2>3
<1>5. ASSUME NEW r \in Requests, Step(r), lines' # lines PROVE Goal
  <2>1. ~(Gate(r) \/ Reread(r) \/ Refresh(r) \/ Fail(r))
    BY <1>5 DEF Gate, Reread, Refresh, Fail, dbVars
  <2>. QED BY <1>2, <1>3, <1>4, <1>5, <2>1, OnlyValidators DEF Step
<1>6. CASE UNCHANGED vars
  BY <1>1, <1>6 DEF vars, dbVars
<1>7. ASSUME NEW r \in Requests, NEW u \in Users, Arrive(r, u) PROVE lines' = lines
  BY <1>7 DEF Arrive, BeginSave, BeginRemove, BeginSubmit, BeginReopen, BeginApprove,
              BeginReject, Begin, dbVars
<1>8. ASSUME NEW r \in Requests, Crash(r) PROVE lines' = lines
  BY <1>8 DEF Crash, dbVars
<1>9. ASSUME NEW u, NEW o, Create(u, o) PROVE lines' = lines
  BY <1>9 DEF Create
<1>. QED BY <1>1, <1>5, <1>6, <1>7, <1>8, <1>9 DEF Next

\* No chief signs a line its manager has not, unless the owner manages the site:
\* a decision taken on the lines as read is still the right one when it is written.
THEOREM RacingStagesAreOrdered ==
  ASSUME ValidatorsOnly
  PROVE  Spec => NoSkippedStage
<1>. DEFINE A == \A l \in DOMAIN lines \cap DOMAIN lines' :
                   (lines[l].status # "APPROVED" /\ lines'[l].status = "APPROVED") =>
                     \/ lines[l].status = "SITE_APPROVED" /\ lines[l].siteBy # NoUser
                     \/ ManagerOf(lines[l].site) = sheet.owner
<1>1. RaceInv /\ [Next]_vars => [A]_vars
  BY StatusWritten DEF OwnerManages
<1>. QED BY <1>1, RaceAlways, PTL DEF Spec, NoSkippedStage

\* The chief's signature on a line is final while validators race: no correction,
\* refusal or first signature decided on an older reading reaches the line.
THEOREM RacingApprovalsSurvive ==
  ASSUME ValidatorsOnly
  PROVE  Spec => ApprovalsSurvive
<1>. DEFINE A == \A l \in DOMAIN lines : lines[l].status = "APPROVED" =>
                   l \in DOMAIN lines' /\ lines'[l].status = "APPROVED"
<1>1. RaceInv /\ [Next]_vars => [A]_vars
  BY StatusWritten
<1>. QED BY <1>1, RaceAlways, PTL DEF Spec, ApprovalsSurvive

===========================================================================
