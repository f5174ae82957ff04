---------------------- MODULE TimesheetWorkflowProofs ----------------------
(***************************************************************************)
(* What TLC finds of one small tenant, for every tenant: the types, who    *)
(* signs what, how the sheet and its lines agree, that an approved sheet   *)
(* never changes again, and that the workflow keeps the contract.          *)
(***************************************************************************)
EXTENDS TimesheetWorkflow, OrganisationProofs

---------------------------------------------------------------------------
(* What the service writes in one line.                                    *)

\* A new line is an unsigned draft.
LEMMA NewLineFacts ==
  ASSUME NEW s \in Sites \cup {NoSite}, NEW h \in Hours
  PROVE  /\ NewLine(s, h) \in Line
         /\ NewLine(s, h).status = "DRAFT"
         /\ NewLine(s, h).siteBy = NoUser
         /\ NewLine(s, h).projectBy = NoUser
         /\ NewLine(s, h).rejectedBy = NoUser
BY DEF NewLine, Line, LineStatus, ApprovalActions, NoAction

\* Submitting and reopening clear every signature.
LEMMA ResetLineFacts ==
  ASSUME NEW ln \in Line, NEW st \in LineStatus
  PROVE  /\ ResetLine(ln, st) \in Line
         /\ ResetLine(ln, st).status = st
         /\ ResetLine(ln, st).siteBy = NoUser
         /\ ResetLine(ln, st).projectBy = NoUser
         /\ ResetLine(ln, st).rejectedBy = NoUser
         /\ ResetLine(ln, st).site = ln.site
         /\ ResetLine(ln, st).hours = ln.hours
BY DEF ResetLine, Line

\* A correction writes hours, and turns a refused line into a submitted one.
LEMMA CorrectedFacts ==
  ASSUME NEW ln \in Line, NEW h \in Hours
  PROVE  /\ Corrected(ln, h) \in Line
         /\ ln.status = "REJECTED" =>
              /\ Corrected(ln, h).status = "SUBMITTED"
              /\ Corrected(ln, h).rejectedBy = NoUser
         /\ ln.status # "REJECTED" =>
              /\ Corrected(ln, h).status = ln.status
              /\ Corrected(ln, h).rejectedBy = ln.rejectedBy
         /\ Corrected(ln, h).siteBy = ln.siteBy
         /\ Corrected(ln, h).projectBy = ln.projectBy
         /\ Corrected(ln, h).action = ln.action
         /\ Corrected(ln, h).site = ln.site
         /\ Corrected(ln, h).hours = h
BY DEF Corrected, Line, LineStatus

\* Recording a decision touches nothing but the newest approval action.
LEMMA RecordedFacts ==
  ASSUME NEW ln \in Line, NEW u \in Users, NEW st \in LineStatus
  PROVE  /\ Recorded(ln, u, st) \in Line
         /\ Recorded(ln, u, st).action = [by |-> u, status |-> st]
         /\ Recorded(ln, u, st).status = ln.status
         /\ Recorded(ln, u, st).siteBy = ln.siteBy
         /\ Recorded(ln, u, st).projectBy = ln.projectBy
         /\ Recorded(ln, u, st).rejectedBy = ln.rejectedBy
         /\ Recorded(ln, u, st).site = ln.site
         /\ Recorded(ln, u, st).hours = ln.hours
BY DEF Recorded, Line, ApprovalActions

\* The site manager's approval.
LEMMA SiteApprovedFacts ==
  ASSUME NEW ln \in Line, NEW u \in Users
  PROVE  /\ Approved(ln, u, "SITE") \in Line
         /\ Approved(ln, u, "SITE").status = "SITE_APPROVED"
         /\ Approved(ln, u, "SITE").siteBy = u
         /\ Approved(ln, u, "SITE").projectBy = ln.projectBy
         /\ Approved(ln, u, "SITE").rejectedBy = NoUser
         /\ Approved(ln, u, "SITE").site = ln.site
         /\ Approved(ln, u, "SITE").hours = ln.hours
BY DEF Approved, Line, LineStatus

\* The project chief's approval.
LEMMA ProjectApprovedFacts ==
  ASSUME NEW ln \in Line, NEW u \in Users
  PROVE  /\ Approved(ln, u, "PROJECT") \in Line
         /\ Approved(ln, u, "PROJECT").status = "APPROVED"
         /\ Approved(ln, u, "PROJECT").siteBy = ln.siteBy
         /\ Approved(ln, u, "PROJECT").projectBy = u
         /\ Approved(ln, u, "PROJECT").rejectedBy = ln.rejectedBy
         /\ Approved(ln, u, "PROJECT").site = ln.site
         /\ Approved(ln, u, "PROJECT").hours = ln.hours
BY DEF Approved, Line, LineStatus

\* A refusal.
LEMMA RejectedFacts ==
  ASSUME NEW ln \in Line, NEW u \in Users
  PROVE  /\ Rejected(ln, u) \in Line
         /\ Rejected(ln, u).status = "REJECTED"
         /\ Rejected(ln, u).siteBy = ln.siteBy
         /\ Rejected(ln, u).projectBy = NoUser
         /\ Rejected(ln, u).rejectedBy = u
         /\ Rejected(ln, u).site = ln.site
         /\ Rejected(ln, u).hours = ln.hours
BY DEF Rejected, Line, LineStatus

\* The three decisions as they end up in a line, with their approval action.
LEMMA DecisionFacts ==
  ASSUME NEW ln \in Line, NEW u \in Users
  PROVE  LET bySite == Recorded(Approved(ln, u, "SITE"), u, "SITE_APPROVED")
             byChief == Recorded(Approved(ln, u, "PROJECT"), u, "APPROVED")
             refused == Recorded(Rejected(ln, u), u, "REJECTED")
         IN  /\ bySite.status = "SITE_APPROVED"
             /\ bySite.site = ln.site /\ bySite.hours = ln.hours
             /\ byChief.status = "APPROVED"
             /\ byChief.site = ln.site /\ byChief.hours = ln.hours
             /\ refused.status = "REJECTED"
             /\ refused.site = ln.site /\ refused.hours = ln.hours
<1>1. {"SITE_APPROVED", "APPROVED", "REJECTED"} \subseteq LineStatus
  BY DEF LineStatus
<1>2. LET bySite == Recorded(Approved(ln, u, "SITE"), u, "SITE_APPROVED")
      IN  /\ bySite.status = "SITE_APPROVED"
          /\ bySite.site = ln.site /\ bySite.hours = ln.hours
  <2>. DEFINE signed == Approved(ln, u, "SITE")
  <2>1. /\ signed \in Line
        /\ signed.status = "SITE_APPROVED"
        /\ signed.site = ln.site /\ signed.hours = ln.hours
    BY SiteApprovedFacts
  <2>. HIDE DEF signed
  <2>2. /\ Recorded(signed, u, "SITE_APPROVED").status = "SITE_APPROVED"
        /\ Recorded(signed, u, "SITE_APPROVED").site = ln.site
        /\ Recorded(signed, u, "SITE_APPROVED").hours = ln.hours
    BY <1>1, <2>1, RecordedFacts
  <2>. QED BY <2>2 DEF signed
<1>3. LET byChief == Recorded(Approved(ln, u, "PROJECT"), u, "APPROVED")
      IN  /\ byChief.status = "APPROVED"
          /\ byChief.site = ln.site /\ byChief.hours = ln.hours
  <2>. DEFINE signed == Approved(ln, u, "PROJECT")
  <2>1. /\ signed \in Line
        /\ signed.status = "APPROVED"
        /\ signed.site = ln.site /\ signed.hours = ln.hours
    BY ProjectApprovedFacts
  <2>. HIDE DEF signed
  <2>2. /\ Recorded(signed, u, "APPROVED").status = "APPROVED"
        /\ Recorded(signed, u, "APPROVED").site = ln.site
        /\ Recorded(signed, u, "APPROVED").hours = ln.hours
    BY <1>1, <2>1, RecordedFacts
  <2>. QED BY <2>2 DEF signed
<1>4. LET refused == Recorded(Rejected(ln, u), u, "REJECTED")
      IN  /\ refused.status = "REJECTED"
          /\ refused.site = ln.site /\ refused.hours = ln.hours
  <2>. DEFINE signed == Rejected(ln, u)
  <2>1. /\ signed \in Line
        /\ signed.status = "REJECTED"
        /\ signed.site = ln.site /\ signed.hours = ln.hours
    BY RejectedFacts
  <2>. HIDE DEF signed
  <2>2. /\ Recorded(signed, u, "REJECTED").status = "REJECTED"
        /\ Recorded(signed, u, "REJECTED").site = ln.site
        /\ Recorded(signed, u, "REJECTED").hours = ln.hours
    BY <1>1, <2>1, RecordedFacts
  <2>. QED BY <2>2 DEF signed
<1>. QED BY <1>2, <1>3, <1>4

---------------------------------------------------------------------------
(* What one validation covers.                                             *)

\* Whoever has a stage is not the owner, and the stage is one of two.
LEMMA StageFacts ==
  ASSUME NEW u, NEW o, NEW ls, ApprovalStage(u, o, ls) # "NONE"
  PROVE  /\ u # o
         /\ ApprovalStage(u, o, ls) \in {"SITE", "PROJECT"}
BY DEF ApprovalStage

\* A site manager approves submitted lines of his own, and finds some.
LEMMA SiteStageFacts ==
  ASSUME NEW u, NEW o, NEW ls, ApprovalStage(u, o, ls) = "SITE"
  PROVE  /\ ApprovableLines(u, o, ls) =
              {l \in DOMAIN ls : SiteDecidable(u, o, ls[l])}
         /\ ApprovableLines(u, o, ls) # {}
         /\ \A l \in ApprovableLines(u, o, ls) : ls[l].status = "SUBMITTED"
<1>1. ApprovableLines(u, o, ls) = {l \in DOMAIN ls : SiteDecidable(u, o, ls[l])}
  BY DEF ApprovableLines
<1>2. \E l \in DOMAIN ls : SiteDecidable(u, o, ls[l])
  BY DEF ApprovalStage, SiteDecidable
<1>. QED BY <1>1, <1>2 DEF SiteDecidable

\* A chief signs when every line is signed by its site manager, or needs no such
\* signature, and finds some to sign.
LEMMA ProjectStageFacts ==
  ASSUME NEW u, NEW o, NEW ls, ApprovalStage(u, o, ls) = "PROJECT"
  PROVE  /\ ApprovableLines(u, o, ls) =
              {l \in DOMAIN ls : ProjectDecidable(u, o, ls[l])}
         /\ ApprovableLines(u, o, ls) # {}
         /\ \A l \in DOMAIN ls : ReadyForProject(o, ls[l])
         /\ \A l \in ApprovableLines(u, o, ls) :
              \/ ls[l].status = "SITE_APPROVED"
              \/ ls[l].status = "SUBMITTED" /\ OwnerManages(o, ls[l])
<1>1. ApprovableLines(u, o, ls) =
        {l \in DOMAIN ls : ProjectDecidable(u, o, ls[l])}
  BY DEF ApprovableLines
<1>2. /\ \E l \in DOMAIN ls : ProjectDecidable(u, o, ls[l])
      /\ \A l \in DOMAIN ls : ReadyForProject(o, ls[l])
  BY DEF ApprovalStage
<1>. QED BY <1>1, <1>2 DEF ProjectDecidable

\* A chief refuses lines a site manager has signed, at his stage.
LEMMA RejectableFacts ==
  ASSUME NEW u, NEW o, NEW ls, RejectableLines(u, o, ls) # {}
  PROVE  /\ ApprovalStage(u, o, ls) = "PROJECT"
         /\ RejectableLines(u, o, ls) \subseteq DOMAIN ls
         /\ \A l \in RejectableLines(u, o, ls) : ls[l].status = "SITE_APPROVED"
BY DEF RejectableLines

\* A validator's save reaches unsigned lines of a sheet that is not approved.
LEMMA EditableFacts ==
  ASSUME NEW u, NEW sh, NEW ls
  PROVE  /\ EditableLines(u, sh, ls) \subseteq DOMAIN ls
         /\ EditableLines(u, sh, ls) # {} => sh.status # "APPROVED"
         /\ \A l \in EditableLines(u, sh, ls) :
              ls[l].status \in {"SUBMITTED", "REJECTED"}
BY DEF EditableLines, CanEditLine

\* The aggregate is a status of sheets.
LEMMA AggregateType ==
  ASSUME NEW ls
  PROVE  Aggregate(ls) \in {"APPROVED", "REJECTED", "N1_APPROVED", "SUBMITTED"}
BY DEF Aggregate

---------------------------------------------------------------------------
(* Types.                                                                  *)

\* A sheet that exists is somebody's.
SheetIsOwned ==
  /\ sheet.status # "NONE" => sheet.owner \in Users
  /\ sheet.status = "NONE" => sheet = NoSheet

TypeInv == OrgTypeOK /\ TSTypeOK /\ SheetIsOwned

\* The tables a behaviour starts from, and no sheet, are well typed.
LEMMA InitType == Init => TypeInv
<1>. SUFFICES ASSUME Init PROVE TypeInv
  OBVIOUS
<1>1. OrgTypeOK
  BY OrgInitType DEF Init
<1>2. NoSheet \in Sheet /\ NoSheet.status = "NONE"
  BY DEF NoSheet, Sheet, NoAction, ApprovalActions
<1>3. lines \in [{} -> Line] /\ DOMAIN lines = {}
  BY DEF Init, NoLines
<1>. QED BY <1>1, <1>2, <1>3 DEF Init, TypeInv, TSTypeOK, SheetIsOwned

\* Writing a status leaves a sheet of the same owner.
LEMMA SheetRefreshed ==
  ASSUME NEW sh \in Sheet, NEW st \in SheetStatus, NEW after,
         after = [sh EXCEPT !.status = st]
  PROVE  after \in Sheet /\ after.status = st /\ after.owner = sh.owner
BY DEF Sheet

\* The lines an owner saves are lines.
LEMMA DraftTable ==
  ASSUME NEW S \in SUBSET LineIds, NEW at \in [S -> Sites \cup {NoSite}],
         NEW h \in [S -> Hours], NEW new,
         new = [l \in S |-> NewLine(at[l], h[l])]
  PROVE  /\ DOMAIN new \subseteq LineIds
         /\ new \in [DOMAIN new -> Line]
         /\ \A l \in DOMAIN new :
              /\ new[l].status = "DRAFT"
              /\ new[l].siteBy = NoUser
              /\ new[l].projectBy = NoUser
              /\ new[l].rejectedBy = NoUser
<1>1. \A l \in S : at[l] \in Sites \cup {NoSite} /\ h[l] \in Hours
  OBVIOUS
<1>2. DOMAIN new = S /\ \A l \in S : new[l] = NewLine(at[l], h[l])
  OBVIOUS
<1>. QED BY <1>1, <1>2, NewLineFacts

\* What Approve writes is what one of the two stages writes.
LEMMA DecidedFacts ==
  ASSUME NEW ln \in Line, NEW u \in Users, NEW stage \in {"SITE", "PROJECT"}
  PROVE  /\ Approved(ln, u, stage) \in Line
         /\ Recorded(Approved(ln, u, stage), u, Approved(ln, u, stage).status)
              \in Line
<1>1. Approved(ln, u, stage) \in Line /\ Approved(ln, u, stage).status \in LineStatus
  BY SiteApprovedFacts, ProjectApprovedFacts DEF LineStatus
<1>. QED BY <1>1, RecordedFacts

\* Every request keeps the types and the owner of a sheet.
LEMMA RequestType ==
  ASSUME TypeInv, NEW u \in active, Request(u)
  PROVE  TSTypeOK' /\ SheetIsOwned'
<1>. DEFINE Typed == TSTypeOK' /\ SheetIsOwned'
<1>. USE DEF TypeInv, TSTypeOK, SheetIsOwned
<1>0. u \in Users
  BY DEF OrgTypeOK, active
<1>1. \A l \in DOMAIN lines : lines[l] \in Line
  OBVIOUS
<1>2. sheet \in Sheet /\ NoSheet \in Sheet /\ NoSheet.status = "NONE"
  BY DEF NoSheet, Sheet, NoAction, ApprovalActions
<1>3. ASSUME NEW o \in Users, Create(u, o)
      PROVE  Typed
  <2>1. /\ sheet' \in Sheet
        /\ sheet'.status = "DRAFT"
        /\ sheet'.owner = o
    BY <1>3, <1>2 DEF Create, Sheet, SheetStatus
  <2>. QED BY <2>1, <1>3 DEF Create
<1>4. ASSUME NEW S \in SUBSET LineIds, NEW at \in [S -> Sites \cup {NoSite}],
             NEW h \in [S -> Hours],
             ReplaceLines(u, [l \in S |-> NewLine(at[l], h[l])])
      PROVE  Typed
  <2>. DEFINE new == [l \in S |-> NewLine(at[l], h[l])]
  <2>1. DOMAIN new \subseteq LineIds /\ new \in [DOMAIN new -> Line]
    BY DraftTable
  <2>2. lines' = new /\ UNCHANGED sheet
    BY <1>4 DEF ReplaceLines
  <2>. QED BY <2>1, <2>2
<1>5. ASSUME NEW S \in SUBSET EditableLines(u, sheet, lines),
             NEW edits \in [S -> Hours], EditLines(u, edits)
      PROVE  Typed
  <2>1. \A l \in DOMAIN edits \cap DOMAIN lines : Corrected(lines[l], edits[l]) \in Line
    BY <1>1, CorrectedFacts
  <2>2. /\ DOMAIN lines' = DOMAIN lines
        /\ lines' \in [DOMAIN lines -> Line]
    BY <1>1, <1>5, <2>1 DEF EditLines
  <2>. QED BY <1>5, <2>2 DEF EditLines
<1>6. CASE Remove(u)
  BY <1>2, <1>6 DEF Remove, NoLines
<1>7. ASSUME NEW to \in {"SUBMITTED", "REOPENED"}, NEW st \in {"SUBMITTED", "DRAFT"},
             sheet.status # "NONE", Transition(u, to, st)
      PROVE  Typed
  <2>1. /\ sheet' \in Sheet
        /\ sheet'.status = to
        /\ sheet'.owner = sheet.owner
    <3>1. to \in SheetStatus
      BY DEF SheetStatus
    <3>2. sheet' = [sheet EXCEPT !.status = to,
                                 !.action = [by |-> u, status |-> to]]
      BY <1>7 DEF Transition
    <3>. QED BY <1>0, <1>2, <3>1, <3>2 DEF Sheet, ApprovalActions
  <2>2. \A l \in DOMAIN lines : ResetLine(lines[l], st) \in Line
    BY <1>1, ResetLineFacts DEF LineStatus
  <2>3. /\ DOMAIN lines' = DOMAIN lines
        /\ lines' \in [DOMAIN lines -> Line]
    BY <1>7, <2>2 DEF Transition
  <2>. QED BY <1>7, <2>1, <2>3
<1>8. CASE Submit(u)
  BY <1>7, <1>8 DEF Submit, CanSubmit, Editable
<1>9. CASE Reopen(u)
  BY <1>7, <1>9 DEF Reopen, CanReopen
<1>10. ASSUME sheet # NoSheet, sheet' = [sheet EXCEPT !.status = Aggregate(lines')]
       PROVE  sheet' \in Sheet /\ SheetIsOwned'
  <2>1. Aggregate(lines') \in SheetStatus /\ Aggregate(lines') # "NONE"
    BY AggregateType DEF SheetStatus
  <2>2. sheet' \in Sheet /\ sheet'.status # "NONE" /\ sheet'.owner = sheet.owner
    BY <1>2, <1>10, <2>1, SheetRefreshed
  <2>. QED BY <1>10, <2>2
<1>11. CASE Approve(u)
  <2>. DEFINE stage == ApprovalStage(u, sheet.owner, lines)
  <2>1. stage \in {"SITE", "PROJECT"}
    BY <1>11, StageFacts DEF Approve
  <2>2. \A l \in DOMAIN lines :
          Recorded(Approved(lines[l], u, stage), u,
                   Approved(lines[l], u, stage).status) \in Line
    BY <1>0, <1>1, <2>1, DecidedFacts
  <2>3. /\ DOMAIN lines' = DOMAIN lines
        /\ lines' \in [DOMAIN lines -> Line]
    BY <1>1, <1>11, <2>2 DEF Approve
  <2>. QED BY <1>10, <1>11, <2>3 DEF Approve
<1>12. CASE Reject(u)
  <2>1. \A l \in DOMAIN lines : Recorded(Rejected(lines[l], u), u, "REJECTED") \in Line
    BY <1>0, <1>1, RejectedFacts, RecordedFacts DEF LineStatus
  <2>2. /\ DOMAIN lines' = DOMAIN lines
        /\ lines' \in [DOMAIN lines -> Line]
    BY <1>1, <1>12, <2>1 DEF Reject
  <2>. QED BY <1>10, <1>12, <2>2 DEF Reject
<1>. QED
  <2>. HIDE DEF TypeInv, TSTypeOK, SheetIsOwned
  <2>1. CASE \E o \in Users : Create(u, o)
    BY <2>1, <1>3
  <2>2. CASE \E S \in SUBSET LineIds :
               \E at \in [S -> Sites \cup {NoSite}], h \in [S -> Hours] :
                 ReplaceLines(u, [l \in S |-> NewLine(at[l], h[l])])
    BY <2>2, <1>4
  <2>3. CASE \E S \in SUBSET EditableLines(u, sheet, lines) :
               \E edits \in [S -> Hours] : EditLines(u, edits)
    BY <2>3, <1>5
  <2>. QED
    BY <2>1, <2>2, <2>3, <1>6, <1>8, <1>9, <1>11, <1>12 DEF Request

\* Every request and every change of the organisation keeps the types.
LEMMA StepType ==
  ASSUME TypeInv, [Next]_vars
  PROVE  TypeInv'
<1>1. ASSUME NEW u \in active, Request(u), UNCHANGED orgVars
      PROVE  TypeInv'
  <2>1. TSTypeOK' /\ SheetIsOwned'
    BY <1>1, RequestType
  <2>2. OrgTypeOK'
    BY <1>1 DEF orgVars, people, TypeInv, OrgTypeOK
  <2>. QED BY <2>1, <2>2 DEF TypeInv
<1>2. ASSUME OrgTypeOK', UNCHANGED tsVars
      PROVE  TypeInv'
  BY <1>2 DEF TypeInv, TSTypeOK, SheetIsOwned, tsVars
<1>3. CASE Reorganise /\ UNCHANGED tsVars
  BY <1>2, <1>3, OrgStepType DEF TypeInv
<1>4. CASE UNCHANGED vars
  BY <1>2, <1>4 DEF vars, orgVars, people, TypeInv, OrgTypeOK
<1>. QED BY <1>1, <1>3, <1>4 DEF Next

\* Type correctness: rows of timesheets, lines and approval actions hold what
\* their columns declare, for every organisation that changes at any moment.
THEOREM TypeCorrect == Spec => [](OrgTypeOK /\ TSTypeOK)
<1>1. TypeInv /\ [Next]_vars => TypeInv'
  BY StepType
<1>2. TypeInv => OrgTypeOK /\ TSTypeOK
  BY DEF TypeInv
<1>. QED BY <1>1, <1>2, InitType, PTL DEF Spec

---------------------------------------------------------------------------
(* Every line is sound: its owner signed nothing, its signatures are those *)
(* of its status, and its newest approval action is its last decision.     *)

Sound(o, ln) ==
  /\ o \notin {ln.siteBy, ln.projectBy, ln.rejectedBy}
  /\ ln.status = "DRAFT" => ln.siteBy = NoUser
  /\ ln.projectBy # NoUser <=> ln.status = "APPROVED"
  /\ ln.rejectedBy # NoUser <=> ln.status = "REJECTED"
  /\ ln.status \in {"SITE_APPROVED", "REJECTED"} => ln.siteBy # NoUser
  /\ ln.status = "SITE_APPROVED"
       => ln.action = [by |-> ln.siteBy, status |-> "SITE_APPROVED"]
  /\ ln.status = "APPROVED"
       => ln.action = [by |-> ln.projectBy, status |-> "APPROVED"]
  /\ ln.status = "REJECTED"
       => ln.action = [by |-> ln.rejectedBy, status |-> "REJECTED"]

LinesSound == \A l \in DOMAIN lines : Sound(sheet.owner, lines[l])

\* Unsigned lines that wait for a signature are sound.
LEMMA UnsignedIsSound ==
  ASSUME NEW o \in Users, NEW ln \in Line, ln.status \in {"DRAFT", "SUBMITTED"},
         ln.siteBy = NoUser, ln.projectBy = NoUser, ln.rejectedBy = NoUser
  PROVE  Sound(o, ln)
BY OrganisationAssumption DEF Sound

\* A corrected line is still sound: it lost its refusal with its status.
LEMMA CorrectedIsSound ==
  ASSUME NEW o \in Users, NEW ln \in Line, NEW h \in Hours, Sound(o, ln)
  PROVE  Sound(o, Corrected(ln, h))
<1>1. o # NoUser
  BY OrganisationAssumption
<1>2. CASE ln.status = "REJECTED"
  BY <1>1, <1>2, CorrectedFacts DEF Sound
<1>3. CASE ln.status # "REJECTED"
  BY <1>3, CorrectedFacts DEF Sound
<1>. QED BY <1>2, <1>3

\* A decision by somebody else, in the order of the two stages, keeps a line
\* sound.
LEMMA SiteApprovedIsSound ==
  ASSUME NEW o \in Users, NEW u \in Users, u # o, NEW ln \in Line,
         ln.status = "SUBMITTED", Sound(o, ln)
  PROVE  Sound(o, Recorded(Approved(ln, u, "SITE"), u, "SITE_APPROVED"))
<1>. DEFINE signed == Approved(ln, u, "SITE")
            after == Recorded(signed, u, "SITE_APPROVED")
<1>1. o # NoUser /\ u # NoUser
  BY OrganisationAssumption
<1>2. /\ signed \in Line
      /\ signed.status = "SITE_APPROVED"
      /\ signed.siteBy = u
      /\ signed.projectBy = NoUser
      /\ signed.rejectedBy = NoUser
  BY SiteApprovedFacts DEF Sound
<1>. HIDE DEF signed
<1>3. /\ after.action = [by |-> u, status |-> "SITE_APPROVED"]
      /\ after.status = "SITE_APPROVED"
      /\ after.siteBy = u
      /\ after.projectBy = NoUser
      /\ after.rejectedBy = NoUser
  BY <1>2, RecordedFacts DEF LineStatus
<1>. HIDE DEF after
<1>4. Sound(o, after)
  BY <1>1, <1>3 DEF Sound
<1>. QED BY <1>4 DEF after, signed

\* So is one a chief approves, whether a site manager signed it or not.
LEMMA ProjectApprovedIsSound ==
  ASSUME NEW o \in Users, NEW u \in Users, u # o, NEW ln \in Line,
         ln.status \in {"SUBMITTED", "SITE_APPROVED"}, Sound(o, ln)
  PROVE  Sound(o, Recorded(Approved(ln, u, "PROJECT"), u, "APPROVED"))
<1>. DEFINE signed == Approved(ln, u, "PROJECT")
            after == Recorded(signed, u, "APPROVED")
<1>1. o # NoUser /\ u # NoUser
  BY OrganisationAssumption
<1>2. /\ signed \in Line
      /\ signed.status = "APPROVED"
      /\ signed.siteBy = ln.siteBy
      /\ signed.projectBy = u
      /\ signed.rejectedBy = NoUser
  BY ProjectApprovedFacts DEF Sound
<1>. HIDE DEF signed
<1>3. /\ after.action = [by |-> u, status |-> "APPROVED"]
      /\ after.status = "APPROVED"
      /\ after.siteBy = ln.siteBy
      /\ after.projectBy = u
      /\ after.rejectedBy = NoUser
  BY <1>2, RecordedFacts DEF LineStatus
<1>. HIDE DEF after
<1>4. Sound(o, after)
  BY <1>1, <1>3 DEF Sound
<1>. QED BY <1>4 DEF after, signed

\* So is one a chief refuses after the site manager signed it.
LEMMA RejectedIsSound ==
  ASSUME NEW o \in Users, NEW u \in Users, u # o, NEW ln \in Line,
         ln.status = "SITE_APPROVED", Sound(o, ln)
  PROVE  Sound(o, Recorded(Rejected(ln, u), u, "REJECTED"))
<1>. DEFINE refused == Rejected(ln, u)
            after == Recorded(refused, u, "REJECTED")
<1>1. o # NoUser /\ u # NoUser
  BY OrganisationAssumption
<1>2. /\ refused \in Line
      /\ refused.status = "REJECTED"
      /\ refused.siteBy = ln.siteBy
      /\ refused.projectBy = NoUser
      /\ refused.rejectedBy = u
  BY RejectedFacts
<1>. HIDE DEF refused
<1>3. /\ after.action = [by |-> u, status |-> "REJECTED"]
      /\ after.status = "REJECTED"
      /\ after.siteBy = ln.siteBy
      /\ after.projectBy = NoUser
      /\ after.rejectedBy = u
  BY <1>2, RecordedFacts DEF LineStatus
<1>. HIDE DEF after
<1>4. Sound(o, after)
  BY <1>1, <1>3 DEF Sound
<1>. QED BY <1>4 DEF after, refused

\* What one approval does: at the site stage it signs submitted lines, at the
\* project stage lines that have or need no other signature; at least one line
\* is signed, and the sheet follows.
LEMMA ApproveEffect ==
  ASSUME TypeInv, NEW u \in active, Approve(u)
  PROVE  LET stage == ApprovalStage(u, sheet.owner, lines)
             todo == ApprovableLines(u, sheet.owner, lines)
             written(l) == IF stage = "SITE"
                           THEN Recorded(Approved(lines[l], u, "SITE"), u, "SITE_APPROVED")
                           ELSE Recorded(Approved(lines[l], u, "PROJECT"), u, "APPROVED")
         IN  /\ u # sheet.owner
             /\ sheet # NoSheet
             /\ stage \in {"SITE", "PROJECT"}
             /\ todo \subseteq DOMAIN lines
             /\ todo # {}
             /\ DOMAIN lines' = DOMAIN lines
             /\ \A l \in todo :
                  /\ lines'[l] = written(l)
                  /\ stage = "SITE" => lines[l].status = "SUBMITTED"
                  /\ stage = "PROJECT" =>
                       \/ lines[l].status = "SITE_APPROVED"
                       \/ lines[l].status = "SUBMITTED"
                            /\ OwnerManages(sheet.owner, lines[l])
             /\ \A l \in DOMAIN lines \ todo : lines'[l] = lines[l]
             /\ sheet'.owner = sheet.owner
             /\ sheet'.status = Aggregate(lines')
<1>. DEFINE stage == ApprovalStage(u, sheet.owner, lines)
            todo == ApprovableLines(u, sheet.owner, lines)
            decided(l) == Approved(lines[l], u, stage)
<1>0. u \in Users /\ sheet \in Sheet /\ \A l \in DOMAIN lines : lines[l] \in Line
  BY DEF TypeInv, OrgTypeOK, active, TSTypeOK
<1>1. /\ sheet # NoSheet
      /\ stage # "NONE"
      /\ lines' = [l \in DOMAIN lines |->
                     IF l \in todo THEN Recorded(decided(l), u, decided(l).status)
                                   ELSE lines[l]]
      /\ sheet' = [sheet EXCEPT !.status = Aggregate(lines')]
  BY DEF Approve
<1>agg. Aggregate(lines') \in SheetStatus
  BY AggregateType DEF SheetStatus
<1>2. u # sheet.owner /\ stage \in {"SITE", "PROJECT"}
  BY <1>1, StageFacts
<1>3. CASE stage = "SITE"
  <2>1. /\ todo = {l \in DOMAIN lines : SiteDecidable(u, sheet.owner, lines[l])}
        /\ todo # {}
        /\ \A l \in todo : lines[l].status = "SUBMITTED"
    BY <1>3, SiteStageFacts
  <2>2. \A l \in DOMAIN lines : decided(l).status = "SITE_APPROVED"
    BY <1>0, <1>3, SiteApprovedFacts
  <2>3. sheet'.owner = sheet.owner /\ sheet'.status = Aggregate(lines')
    BY <1>0, <1>1, <1>agg, SheetRefreshed
  <2>. QED
    BY <1>1, <1>2, <1>3, <2>1, <2>2, <2>3
<1>4. CASE stage = "PROJECT"
  <2>1. /\ todo = {l \in DOMAIN lines : ProjectDecidable(u, sheet.owner, lines[l])}
        /\ todo # {}
        /\ \A l \in todo :
             \/ lines[l].status = "SITE_APPROVED"
             \/ lines[l].status = "SUBMITTED" /\ OwnerManages(sheet.owner, lines[l])
    BY <1>4, ProjectStageFacts
  <2>2. \A l \in DOMAIN lines : decided(l).status = "APPROVED"
    BY <1>0, <1>4, ProjectApprovedFacts
  <2>3. sheet'.owner = sheet.owner /\ sheet'.status = Aggregate(lines')
    BY <1>0, <1>1, <1>agg, SheetRefreshed
  <2>. QED
    BY <1>1, <1>2, <1>4, <2>1, <2>2, <2>3
<1>. QED BY <1>2, <1>3, <1>4

\* What one refusal does.
LEMMA RejectEffect ==
  ASSUME TypeInv, NEW u \in active, Reject(u)
  PROVE  LET todo == RejectableLines(u, sheet.owner, lines)
         IN  /\ u # sheet.owner
             /\ sheet # NoSheet
             /\ ApprovalStage(u, sheet.owner, lines) = "PROJECT"
             /\ todo \subseteq DOMAIN lines
             /\ todo # {}
             /\ DOMAIN lines' = DOMAIN lines
             /\ \A l \in todo :
                  /\ lines'[l] = Recorded(Rejected(lines[l], u), u, "REJECTED")
                  /\ lines[l].status = "SITE_APPROVED"
             /\ \A l \in DOMAIN lines \ todo : lines'[l] = lines[l]
             /\ sheet'.owner = sheet.owner
             /\ sheet'.status = Aggregate(lines')
<1>. DEFINE todo == RejectableLines(u, sheet.owner, lines)
<1>0. u \in Users /\ sheet \in Sheet
  BY DEF TypeInv, OrgTypeOK, active, TSTypeOK
<1>1. /\ sheet # NoSheet
      /\ todo # {}
      /\ lines' = [l \in DOMAIN lines |->
                     IF l \in todo THEN Recorded(Rejected(lines[l], u), u, "REJECTED")
                                   ELSE lines[l]]
      /\ sheet' = [sheet EXCEPT !.status = Aggregate(lines')]
  BY DEF Reject
<1>2. /\ ApprovalStage(u, sheet.owner, lines) = "PROJECT"
      /\ todo \subseteq DOMAIN lines
      /\ \A l \in todo : lines[l].status = "SITE_APPROVED"
  BY <1>1, RejectableFacts
<1>3. u # sheet.owner
  BY <1>2, StageFacts
<1>agg. Aggregate(lines') \in SheetStatus
  BY AggregateType DEF SheetStatus
<1>4. sheet'.owner = sheet.owner /\ sheet'.status = Aggregate(lines')
  BY <1>0, <1>1, <1>agg, SheetRefreshed
<1>. QED BY <1>1, <1>2, <1>3, <1>4

\* What a submission or a reopening does.
LEMMA TransitionEffect ==
  ASSUME TypeInv, NEW u \in active, NEW to \in SheetStatus, NEW st \in LineStatus,
         Transition(u, to, st)
  PROVE  /\ sheet'.status = to
         /\ sheet'.owner = sheet.owner
         /\ DOMAIN lines' = DOMAIN lines
         /\ \A l \in DOMAIN lines : lines'[l] = ResetLine(lines[l], st)
<1>1. u \in Users /\ sheet \in Sheet
  BY DEF TypeInv, OrgTypeOK, active, TSTypeOK
<1>2. sheet' = [sheet EXCEPT !.status = to, !.action = [by |-> u, status |-> to]]
  BY DEF Transition
<1>3. lines' = [l \in DOMAIN lines |-> ResetLine(lines[l], st)]
  BY DEF Transition
<1>4. sheet'.status = to /\ sheet'.owner = sheet.owner
  BY <1>1, <1>2 DEF Sheet
<1>. QED BY <1>3, <1>4

---------------------------------------------------------------------------
(* The sheet and its lines agree.                                          *)

\* The statuses `T` of the lines agree with the status `st` of their sheet.
Agrees(st, T) ==
  /\ st \in Editable => T \subseteq {"DRAFT"}
  /\ st = "SUBMITTED" => T = {"SUBMITTED"}
  /\ st = "N1_APPROVED" =>
       /\ T \subseteq {"SUBMITTED", "SITE_APPROVED", "APPROVED"}
       /\ T \cap {"SITE_APPROVED", "APPROVED"} # {}
       /\ T # {"APPROVED"}
  /\ st = "APPROVED" => T = {"APPROVED"}
  /\ st = "REJECTED" => "DRAFT" \notin T /\ T \cap {"SUBMITTED", "REJECTED"} # {}

\* The property TLC checks, in the form the proof uses.
LEMMA MatchesMeansAgrees ==
  ASSUME sheet.status \in SheetStatus \cup {"NONE"}
  PROVE  SheetMatchesLines <=>
           /\ sheet.status = "NONE" => lines = NoLines
           /\ Agrees(sheet.status, LineStatuses)
BY Zenon DEF SheetMatchesLines, Agrees, Editable, SheetStatus

\* The aggregate of lines that have all been handed in agrees with them.
LEMMA AggregateAgrees ==
  ASSUME NEW ls, NEW T, T = {ls[l].status : l \in DOMAIN ls}, T # {},
         T \subseteq {"SUBMITTED", "SITE_APPROVED", "APPROVED", "REJECTED"}
  PROVE  Agrees(Aggregate(ls), T)
<1>1. Aggregate(ls) =
        IF T \subseteq {"APPROVED"} THEN "APPROVED"
        ELSE IF "REJECTED" \in T THEN "REJECTED"
        ELSE IF T \cap {"SITE_APPROVED", "APPROVED"} # {} THEN "N1_APPROVED"
        ELSE "SUBMITTED"
  BY DEF Aggregate
<1>. QED BY <1>1 DEF Agrees, Editable

\* Every request leaves a sheet that agrees with its lines.
LEMMA RequestMatches ==
  ASSUME TypeInv, TSTypeOK', SheetMatchesLines, NEW u \in active, Request(u)
  PROVE  SheetMatchesLines'
<1>. DEFINE T == {lines[l].status : l \in DOMAIN lines}
            After == {lines'[l].status : l \in DOMAIN lines'}
            Matched == /\ sheet'.status = "NONE" => lines' = NoLines
                       /\ Agrees(sheet'.status, After)
<1>0. /\ u \in Users
      /\ sheet.status \in SheetStatus \cup {"NONE"}
      /\ \A l \in DOMAIN lines : lines[l] \in Line
      /\ \A l \in DOMAIN lines : lines[l].status \in LineStatus
      /\ sheet # NoSheet => sheet.status # "NONE"
  BY DEF TypeInv, OrgTypeOK, active, TSTypeOK, SheetIsOwned, Sheet, Line
<1>1. /\ sheet.status = "NONE" => lines = NoLines
      /\ Agrees(sheet.status, T)
  BY <1>0, MatchesMeansAgrees DEF LineStatuses
<1>2. ASSUME Matched PROVE SheetMatchesLines'
  <2>1. sheet'.status \in SheetStatus \cup {"NONE"}
    BY DEF TSTypeOK, Sheet
  <2>2. (SheetMatchesLines <=>
           /\ sheet.status = "NONE" => lines = NoLines
           /\ Agrees(sheet.status, LineStatuses))'
    <3>1. (sheet.status \in SheetStatus \cup {"NONE"})'
      BY <2>1
    <3>. QED BY <3>1, MatchesMeansAgrees, PTL
  <2>. QED BY <1>2, <2>2 DEF LineStatuses
<1>3. ASSUME NEW o \in Users, Create(u, o)
      PROVE  Matched
  <2>1. lines' = NoLines /\ sheet'.status = "DRAFT"
    BY <1>1, <1>3 DEF Create, NoSheet
  <2>2. After = {}
    BY <2>1 DEF NoLines
  <2>. QED BY <2>1, <2>2 DEF Agrees, Editable
<1>4. ASSUME NEW S \in SUBSET LineIds, NEW at \in [S -> Sites \cup {NoSite}],
             NEW h \in [S -> Hours],
             ReplaceLines(u, [l \in S |-> NewLine(at[l], h[l])])
      PROVE  Matched
  <2>. DEFINE new == [l \in S |-> NewLine(at[l], h[l])]
  <2>1. \A l \in DOMAIN new : new[l].status = "DRAFT"
    BY DraftTable
  <2>2. lines' = new /\ sheet' = sheet /\ sheet.status \in Editable
    BY <1>4 DEF ReplaceLines
  <2>. HIDE DEF new
  <2>3. After \subseteq {"DRAFT"}
    BY <2>1, <2>2
  <2>. QED BY <2>2, <2>3 DEF Agrees, Editable
<1>5. ASSUME NEW S \in SUBSET EditableLines(u, sheet, lines),
             NEW edits \in [S -> Hours], EditLines(u, edits)
      PROVE  Matched
  <2>1. /\ sheet' = sheet
        /\ sheet.status # "NONE"
        /\ lines' = [l \in DOMAIN lines |->
                       IF l \in S THEN Corrected(lines[l], edits[l]) ELSE lines[l]]
    BY <1>5 DEF EditLines, InScope
  <2>2. \A l \in S : l \in DOMAIN lines /\ lines[l].status \in {"SUBMITTED", "REJECTED"}
    BY EditableFacts
  <2>3. \A l \in S : /\ lines[l].status = "SUBMITTED"
                       => Corrected(lines[l], edits[l]).status = "SUBMITTED"
                     /\ lines[l].status = "REJECTED"
                       => Corrected(lines[l], edits[l]).status = "SUBMITTED"
    BY <1>0, <2>2, CorrectedFacts
  <2>4. /\ DOMAIN lines' = DOMAIN lines
        /\ \A l \in DOMAIN lines :
             \/ lines'[l].status = lines[l].status
             \/ lines[l].status = "REJECTED" /\ lines'[l].status = "SUBMITTED"
    BY <2>1, <2>2, <2>3
  <2>5. CASE "REJECTED" \in T
    <3>1. sheet.status = "REJECTED" /\ "DRAFT" \notin T
      BY <1>0, <1>1, <2>1, <2>5 DEF Agrees, Editable, SheetStatus
    <3>2. "DRAFT" \notin After /\ After \cap {"SUBMITTED", "REJECTED"} # {}
      BY <2>4, <2>5, <3>1
    <3>. QED BY <2>1, <3>1, <3>2 DEF Agrees, Editable
  <2>6. CASE "REJECTED" \notin T
    <3>1. \A l \in DOMAIN lines : lines'[l].status = lines[l].status
      BY <2>4, <2>6
    <3>2. After = T
      BY <2>4, <3>1
    <3>. QED BY <1>1, <2>1, <3>2
  <2>. QED BY <2>5, <2>6
<1>6. ASSUME Remove(u)
      PROVE  Matched
  <2>1. lines' = NoLines /\ sheet'.status = "NONE"
    BY <1>6 DEF Remove, NoSheet
  <2>. QED BY <2>1 DEF Agrees, Editable
<1>7. ASSUME Submit(u)
      PROVE  Matched
  <2>1. /\ sheet'.status = "SUBMITTED"
        /\ DOMAIN lines' = DOMAIN lines
        /\ \A l \in DOMAIN lines : lines'[l] = ResetLine(lines[l], "SUBMITTED")
    BY <1>7, TransitionEffect DEF Submit, SheetStatus, LineStatus
  <2>2. \E l \in DOMAIN lines : TRUE
    BY <1>7 DEF Submit, CanSubmit, HasWorkEntries
  <2>3. After = {"SUBMITTED"}
    BY <1>0, <2>1, <2>2, ResetLineFacts DEF LineStatus
  <2>. QED BY <2>1, <2>3 DEF Agrees, Editable
<1>8. ASSUME Reopen(u)
      PROVE  Matched
  <2>1. /\ sheet'.status = "REOPENED"
        /\ DOMAIN lines' = DOMAIN lines
        /\ \A l \in DOMAIN lines : lines'[l] = ResetLine(lines[l], "DRAFT")
    BY <1>8, TransitionEffect DEF Reopen, SheetStatus, LineStatus
  <2>2. After \subseteq {"DRAFT"}
    BY <1>0, <2>1, ResetLineFacts DEF LineStatus
  <2>. QED BY <2>1, <2>2 DEF Agrees, Editable
<1>9. ASSUME NEW todo \in SUBSET DOMAIN lines, todo # {},
             sheet # NoSheet,
             DOMAIN lines' = DOMAIN lines,
             \A l \in todo : /\ lines[l].status # "DRAFT"
                             /\ lines'[l].status # "DRAFT",
             \A l \in DOMAIN lines \ todo : lines'[l] = lines[l],
             sheet'.status = Aggregate(lines')
      PROVE  Matched
  <2>1. \A l \in DOMAIN lines : lines[l].status # "DRAFT"
    <3>1. ~(T \subseteq {"DRAFT"})
      BY <1>9
    <3>2. sheet.status \notin Editable
      BY <1>1, <3>1 DEF Agrees
    <3>3. "DRAFT" \notin T
      BY <1>0, <1>1, <1>9, <3>2 DEF Agrees, SheetStatus, Editable
    <3>. QED BY <3>3
  <2>2. \A l \in DOMAIN lines' : lines'[l].status \in LineStatus
    BY DEF TSTypeOK, Line
  <2>3. \A l \in DOMAIN lines' :
          lines'[l].status \in {"SUBMITTED", "SITE_APPROVED", "APPROVED", "REJECTED"}
    BY <1>9, <2>1, <2>2 DEF LineStatus
  <2>4. After # {} /\ After \subseteq {"SUBMITTED", "SITE_APPROVED", "APPROVED", "REJECTED"}
    BY <1>9, <2>3
  <2>5. Agrees(Aggregate(lines'), After)
    BY <2>4, AggregateAgrees
  <2>6. Aggregate(lines') # "NONE"
    BY AggregateType
  <2>. QED BY <1>9, <2>5, <2>6
<1>10. ASSUME Approve(u)
       PROVE  Matched
  <2>. DEFINE stage == ApprovalStage(u, sheet.owner, lines)
              todo == ApprovableLines(u, sheet.owner, lines)
  <2>1. /\ sheet # NoSheet
        /\ todo # {}
        /\ todo \in SUBSET DOMAIN lines
        /\ DOMAIN lines' = DOMAIN lines
        /\ \A l \in todo : lines[l].status # "DRAFT"
        /\ \A l \in DOMAIN lines \ todo : lines'[l] = lines[l]
        /\ sheet'.status = Aggregate(lines')
    BY <1>10, ApproveEffect
  <2>2. \A l \in todo :
          \/ lines'[l] = Recorded(Approved(lines[l], u, "SITE"), u, "SITE_APPROVED")
          \/ lines'[l] = Recorded(Approved(lines[l], u, "PROJECT"), u, "APPROVED")
    BY <1>10, ApproveEffect
  <2>3. \A l \in todo : lines'[l].status # "DRAFT"
    <3>. SUFFICES ASSUME NEW l \in todo PROVE lines'[l].status # "DRAFT"
      OBVIOUS
    <3>1. lines[l] \in Line
      BY <1>0, <2>1
    <3>2. /\ Recorded(Approved(lines[l], u, "SITE"), u, "SITE_APPROVED").status
               = "SITE_APPROVED"
          /\ Recorded(Approved(lines[l], u, "PROJECT"), u, "APPROVED").status
               = "APPROVED"
      BY <1>0, <3>1, DecisionFacts
    <3>. QED BY <2>2, <3>2
  <2>. HIDE DEF todo
  <2>. QED BY <1>9, <2>1, <2>3
<1>11. ASSUME Reject(u)
       PROVE  Matched
  <2>. DEFINE todo == RejectableLines(u, sheet.owner, lines)
  <2>1. /\ sheet # NoSheet
        /\ todo # {}
        /\ todo \in SUBSET DOMAIN lines
        /\ DOMAIN lines' = DOMAIN lines
        /\ \A l \in todo : /\ lines[l].status # "DRAFT"
                           /\ lines'[l] = Recorded(Rejected(lines[l], u), u, "REJECTED")
        /\ \A l \in DOMAIN lines \ todo : lines'[l] = lines[l]
        /\ sheet'.status = Aggregate(lines')
    BY <1>11, RejectEffect
  <2>2. \A l \in todo : lines'[l].status # "DRAFT"
    BY <1>0, <2>1, DecisionFacts
  <2>. HIDE DEF todo
  <2>. QED BY <1>9, <2>1, <2>2
<1>12. CASE \E o \in Users : Create(u, o)
  BY <1>2, <1>3, <1>12
<1>13. CASE \E S \in SUBSET LineIds :
              \E at \in [S -> Sites \cup {NoSite}], h \in [S -> Hours] :
                ReplaceLines(u, [l \in S |-> NewLine(at[l], h[l])])
  BY <1>2, <1>4, <1>13
<1>14. CASE \E S \in SUBSET EditableLines(u, sheet, lines) :
              \E edits \in [S -> Hours] : EditLines(u, edits)
  BY <1>2, <1>5, <1>14
<1>. HIDE DEF Matched
<1>. QED
  BY <1>2, <1>6, <1>7, <1>8, <1>10, <1>11, <1>12, <1>13, <1>14 DEF Request

---------------------------------------------------------------------------
\* Every request keeps the lines sound.
LEMMA RequestSound ==
  ASSUME TypeInv, SheetMatchesLines, LinesSound, NEW u \in active, Request(u)
  PROVE  LinesSound'
<1>0. /\ u \in Users
      /\ \A l \in DOMAIN lines : lines[l] \in Line
      /\ sheet.status # "NONE" => sheet.owner \in Users
      /\ sheet # NoSheet => sheet.status # "NONE"
      /\ sheet.status \in SheetStatus \cup {"NONE"}
  BY DEF TypeInv, OrgTypeOK, active, TSTypeOK, SheetIsOwned, Sheet
<1>1. \A l \in DOMAIN lines : Sound(sheet.owner, lines[l])
  BY DEF LinesSound
<1>2. ASSUME NEW o \in Users, Create(u, o)
      PROVE  LinesSound'
  <2>1. DOMAIN lines = {}
    BY <1>0, <1>2, MatchesMeansAgrees DEF Create, NoSheet, NoLines
  <2>. QED BY <1>2, <2>1 DEF Create, LinesSound
<1>3. ASSUME NEW S \in SUBSET LineIds, NEW at \in [S -> Sites \cup {NoSite}],
             NEW h \in [S -> Hours],
             ReplaceLines(u, [l \in S |-> NewLine(at[l], h[l])])
      PROVE  LinesSound'
  <2>. DEFINE new == [l \in S |-> NewLine(at[l], h[l])]
  <2>1. /\ \A l \in DOMAIN new : new[l] \in Line
        /\ \A l \in DOMAIN new :
              /\ new[l].status = "DRAFT"
              /\ new[l].siteBy = NoUser
              /\ new[l].projectBy = NoUser
              /\ new[l].rejectedBy = NoUser
    BY DraftTable
  <2>2. lines' = new /\ sheet' = sheet /\ sheet.owner \in Users
    BY <1>0, <1>3 DEF ReplaceLines, Editable
  <2>. HIDE DEF new
  <2>3. \A l \in DOMAIN new : Sound(sheet.owner, new[l])
    BY <2>1, <2>2, UnsignedIsSound
  <2>. QED BY <2>2, <2>3 DEF LinesSound
<1>4. ASSUME NEW S \in SUBSET EditableLines(u, sheet, lines),
             NEW edits \in [S -> Hours], EditLines(u, edits)
      PROVE  LinesSound'
  <2>1. sheet.owner \in Users
    BY <1>0, <1>4 DEF EditLines, InScope
  <2>2. \A l \in S \cap DOMAIN lines : Sound(sheet.owner, Corrected(lines[l], edits[l]))
    BY <1>0, <1>1, <2>1, CorrectedIsSound
  <2>3. /\ sheet' = sheet
        /\ lines' = [l \in DOMAIN lines |->
                       IF l \in S THEN Corrected(lines[l], edits[l]) ELSE lines[l]]
    BY <1>4 DEF EditLines
  <2>4. \A l \in DOMAIN lines' : Sound(sheet.owner, lines'[l])
    BY <1>1, <2>2, <2>3
  <2>. QED BY <2>3, <2>4 DEF LinesSound
<1>5. CASE Remove(u)
  <2>1. DOMAIN lines' = {}
    BY <1>5 DEF Remove, NoLines
  <2>. QED BY <2>1 DEF LinesSound
<1>6. ASSUME NEW to \in {"SUBMITTED", "REOPENED"}, NEW st \in {"SUBMITTED", "DRAFT"},
             sheet.status # "NONE", Transition(u, to, st)
      PROVE  LinesSound'
  <2>1. to \in SheetStatus /\ st \in LineStatus
    BY DEF SheetStatus, LineStatus
  <2>2. /\ sheet'.owner = sheet.owner
        /\ DOMAIN lines' = DOMAIN lines
        /\ \A l \in DOMAIN lines : lines'[l] = ResetLine(lines[l], st)
    BY <1>6, <2>1, TransitionEffect
  <2>3. \A l \in DOMAIN lines : Sound(sheet.owner, ResetLine(lines[l], st))
    BY <1>0, <1>6, <2>1, ResetLineFacts, UnsignedIsSound
  <2>. QED BY <2>2, <2>3 DEF LinesSound
<1>7. CASE Submit(u)
  BY <1>6, <1>7 DEF Submit, CanSubmit, Editable
<1>8. CASE Reopen(u)
  BY <1>6, <1>8 DEF Reopen, CanReopen
<1>9. CASE Approve(u)
  <2>. DEFINE stage == ApprovalStage(u, sheet.owner, lines)
              todo == ApprovableLines(u, sheet.owner, lines)
  <2>1. /\ u # sheet.owner
        /\ sheet # NoSheet
        /\ stage \in {"SITE", "PROJECT"}
        /\ todo \subseteq DOMAIN lines
        /\ DOMAIN lines' = DOMAIN lines
        /\ \A l \in DOMAIN lines \ todo : lines'[l] = lines[l]
        /\ sheet'.owner = sheet.owner
    BY <1>9, ApproveEffect
  <2>2. sheet.owner \in Users
    BY <1>0, <2>1
  <2>3. CASE stage = "SITE"
    <3>1. \A l \in todo :
            /\ lines[l].status = "SUBMITTED"
            /\ lines'[l] = Recorded(Approved(lines[l], u, "SITE"), u, "SITE_APPROVED")
      BY <1>9, <2>3, ApproveEffect
    <3>2. \A l \in todo : Sound(sheet.owner, lines'[l])
      BY <1>0, <1>1, <2>1, <2>2, <3>1, SiteApprovedIsSound
    <3>. QED BY <1>1, <2>1, <3>2 DEF LinesSound
  <2>4. CASE stage = "PROJECT"
    <3>1. \A l \in todo :
            /\ lines[l].status \in {"SUBMITTED", "SITE_APPROVED"}
            /\ lines'[l] = Recorded(Approved(lines[l], u, "PROJECT"), u, "APPROVED")
      BY <1>9, <2>4, ApproveEffect
    <3>2. \A l \in todo : Sound(sheet.owner, lines'[l])
      BY <1>0, <1>1, <2>1, <2>2, <3>1, ProjectApprovedIsSound
    <3>. QED BY <1>1, <2>1, <3>2 DEF LinesSound
  <2>. QED BY <2>1, <2>3, <2>4
<1>10. CASE Reject(u)
  <2>. DEFINE todo == RejectableLines(u, sheet.owner, lines)
  <2>1. /\ u # sheet.owner
        /\ sheet # NoSheet
        /\ todo \subseteq DOMAIN lines
        /\ DOMAIN lines' = DOMAIN lines
        /\ \A l \in DOMAIN lines \ todo : lines'[l] = lines[l]
        /\ \A l \in todo :
             /\ lines'[l] = Recorded(Rejected(lines[l], u), u, "REJECTED")
             /\ lines[l].status = "SITE_APPROVED"
        /\ sheet'.owner = sheet.owner
    BY <1>10, RejectEffect
  <2>2. sheet.owner \in Users
    BY <1>0, <2>1
  <2>3. \A l \in todo : Sound(sheet.owner, lines'[l])
    BY <1>0, <1>1, <2>1, <2>2, RejectedIsSound
  <2>. QED BY <1>1, <2>1, <2>3 DEF LinesSound
<1>11. CASE \E o \in Users : Create(u, o)
  BY <1>2, <1>11
<1>12. CASE \E S \in SUBSET LineIds :
              \E at \in [S -> Sites \cup {NoSite}], h \in [S -> Hours] :
                ReplaceLines(u, [l \in S |-> NewLine(at[l], h[l])])
  BY <1>3, <1>12
<1>13. CASE \E S \in SUBSET EditableLines(u, sheet, lines) :
              \E edits \in [S -> Hours] : EditLines(u, edits)
  BY <1>4, <1>13
<1>. QED
  BY <1>5, <1>7, <1>8, <1>9, <1>10, <1>11, <1>12, <1>13 DEF Request

---------------------------------------------------------------------------
(* The inductive invariant.  Types alone do not carry over a submission or *)
(* an approval: which lines may be signed depends on the status of the     *)
(* sheet being in step with its lines, and who signed what on every line   *)
(* having the signatures of its status.                                    *)

IInv == TypeInv /\ SheetMatchesLines /\ LinesSound

\* No sheet, no line: nothing disagrees.
LEMMA InitInv == Init => IInv
<1>. SUFFICES ASSUME Init PROVE IInv
  OBVIOUS
<1>1. TypeInv
  BY InitType
<1>2. sheet.status = "NONE" /\ lines = NoLines /\ DOMAIN lines = {}
  BY DEF Init, NoSheet, NoLines
<1>3. SheetMatchesLines
  BY <1>2, MatchesMeansAgrees DEF Agrees, Editable
<1>4. LinesSound
  BY <1>2 DEF LinesSound
<1>. QED BY <1>1, <1>3, <1>4 DEF IInv

\* The inductive step: requests and reorganisations keep the invariant.
LEMMA StepInv ==
  ASSUME IInv, [Next]_vars
  PROVE  IInv'
<1>1. TypeInv'
  BY StepType DEF IInv
<1>2. ASSUME NEW u \in active, Request(u)
      PROVE  IInv'
  <2>1. TSTypeOK'
    BY <1>1 DEF TypeInv
  <2>2. SheetMatchesLines'
    BY <1>2, <2>1, RequestMatches DEF IInv
  <2>3. LinesSound'
    BY <1>2, RequestSound DEF IInv
  <2>. QED BY <1>1, <2>2, <2>3 DEF IInv
<1>3. CASE UNCHANGED tsVars
  <2>1. sheet' = sheet /\ lines' = lines
    BY <1>3 DEF tsVars
  <2>2. SheetMatchesLines'
    <3>1. SheetMatchesLines
      BY DEF IInv
    <3>2. LineStatuses' = LineStatuses
      BY <2>1 DEF LineStatuses
    <3>. QED BY <2>1, <3>1, <3>2, ZenonT(60) DEF SheetMatchesLines
  <2>3. LinesSound'
    BY <2>1 DEF IInv, LinesSound
  <2>. QED BY <1>1, <2>2, <2>3 DEF IInv
<1>. QED BY <1>2, <1>3 DEF Next, vars

\* The invariant holds of every behaviour.
LEMMA InvHolds == Spec => []IInv
<1>1. IInv /\ [Next]_vars => IInv'
  BY StepInv
<1>. QED BY <1>1, InitInv, PTL DEF Spec

\* Nobody signs his own timesheet, whatever he becomes in the organisation.
THEOREM NobodySignsHisOwn == Spec => []NoSelfApproval
<1>1. IInv => NoSelfApproval
  BY DEF IInv, LinesSound, Sound, NoSelfApproval
<1>. QED BY <1>1, InvHolds, PTL

\* The status of the sheet and those of its lines agree.
THEOREM SheetAgreesWithLines == Spec => []SheetMatchesLines
<1>1. IInv => SheetMatchesLines
  BY DEF IInv
<1>. QED BY <1>1, InvHolds, PTL

\* The signatures a line carries are those its status claims.
THEOREM SignaturesAgree == Spec => []SignaturesMatchStatus
<1>1. IInv => SignaturesMatchStatus
  BY DEF IInv, LinesSound, Sound, SignaturesMatchStatus
<1>. QED BY <1>1, InvHolds, PTL

\* The newest approval action of a decided line names its last decision.
THEOREM LastDecisionIsRecorded == Spec => []DecisionsAreRecorded
<1>1. IInv => DecisionsAreRecorded
  BY DEF IInv, LinesSound, Sound, DecisionsAreRecorded
<1>. QED BY <1>1, InvHolds, PTL

---------------------------------------------------------------------------
(* Nobody is waited for in vain.                                           *)

\* A submitted line of a site its owner does not manage is its manager's turn,
\* if nothing is refused.
LEMMA ManagersTurn ==
  ASSUME NEW o, NEW ls, NEW l \in DOMAIN ls,
         \A k \in DOMAIN ls : ls[k].status # "REJECTED",
         ls[l].status = "SUBMITTED", ~OwnerManages(o, ls[l]),
         ManagerOf(ls[l].site) \in Users
  PROVE  ApprovalStage(ManagerOf(ls[l].site), o, ls) # "NONE"
<1>. DEFINE u == ManagerOf(ls[l].site)
<1>1. ls[l].site # NoSite
  BY OrganisationAssumption DEF ManagerOf
<1>2. u # o /\ ManagesLine(u, o, ls[l])
  BY <1>1 DEF OwnerManages, ManagesLine
<1>. QED BY <1>2 DEF ApprovalStage

\* Once every line is ready for its chief, the chief of one that is not approved
\* has his turn.
LEMMA ChiefsTurn ==
  ASSUME NEW o, NEW ls, NEW l \in DOMAIN ls,
         \A k \in DOMAIN ls : ls[k].status # "REJECTED" /\ ReadyForProject(o, ls[k]),
         ls[l].status # "APPROVED",
         ChiefOf(ls[l].site) \in Users \ {o}
  PROVE  ApprovalStage(ChiefOf(ls[l].site), o, ls) # "NONE"
<1>. DEFINE u == ChiefOf(ls[l].site)
<1>1. ProjectOf(ls[l].site) # NoProject
  BY OrganisationAssumption DEF ChiefOf
<1>2. ProjectDecidable(u, o, ls[l])
  BY <1>1 DEF ProjectDecidable, ReadyForProject
<1>. QED BY <1>2 DEF ApprovalStage

\* Human resources and resource managers see every sheet that is no draft.
LEMMA SomeoneReopens ==
  ASSUME TypeInv, sheet.status = "REJECTED", RoutingIsSound
  PROVE  \E u \in active : CanReopen(u, sheet)
<1>1. PICK u \in active : role[u] \in {"RESOURCE_MANAGER", "HR"}
  BY DEF RoutingIsSound
<1>2. sheet.owner \in ManagedUsers(u)
  BY <1>1 DEF ManagedUsers, Unrestricted, TypeInv, SheetIsOwned
<1>. QED BY <1>1, <1>2 DEF CanReopen, InScope

\* A sheet under review has a line to sign, and the first stage that is not over
\* has a validator: the manager of a submitted line, or a chief once no manager
\* is waited for.
LEMMA SomeoneValidates ==
  ASSUME IInv, sheet.status \in {"SUBMITTED", "N1_APPROVED"}, RoutingIsSound
  PROVE  \E u \in active : ApprovalStage(u, sheet.owner, lines) # "NONE"
<1>1. active \subseteq Users
  BY DEF active
<1>2. /\ \A l \in DOMAIN lines :
           lines[l].status \in {"SUBMITTED", "SITE_APPROVED", "APPROVED"}
      /\ \E l \in DOMAIN lines : lines[l].status # "APPROVED"
  BY DEF IInv, SheetMatchesLines, LineStatuses, Editable
<1>3. \A l \in DOMAIN lines :
        /\ {ManagerOf(lines[l].site), ChiefOf(lines[l].site)} \subseteq active
        /\ ChiefOf(lines[l].site) # sheet.owner
        /\ ~(OwnerManages(sheet.owner, lines[l]) /\ lines[l].status = "SITE_APPROVED")
  BY DEF RoutingIsSound
<1>4. CASE \E l \in DOMAIN lines :
             lines[l].status = "SUBMITTED" /\ ~OwnerManages(sheet.owner, lines[l])
  BY <1>1, <1>2, <1>3, <1>4, ManagersTurn
<1>5. CASE \A l \in DOMAIN lines :
             lines[l].status = "SUBMITTED" => OwnerManages(sheet.owner, lines[l])
  <2>1. \A l \in DOMAIN lines : ReadyForProject(sheet.owner, lines[l])
    BY <1>2, <1>3, <1>5 DEF ReadyForProject
  <2>. QED BY <1>1, <1>2, <1>3, <2>1, ChiefsTurn
<1>. QED BY <1>4, <1>5

\* A sheet that is neither approved nor in its owner's hands never waits for
\* nobody, as long as those it is routed to are there.
THEOREM SomebodyCanAlwaysAct == Spec => []SomeoneCanAct
<1>1. IInv => SomeoneCanAct
  BY SomeoneReopens, SomeoneValidates DEF IInv, SomeoneCanAct
<1>. QED BY <1>1, InvHolds, PTL

---------------------------------------------------------------------------
(* What no step does.                                                      *)

\* The step that ApprovedIsFinal allows.
FinalStep == sheet.status = "APPROVED" => UNCHANGED tsVars

\* No request gets hold of an approved sheet: all its lines are approved, so no
\* line is anybody's to edit, to sign or to refuse.
LEMMA ApprovedIsKept ==
  ASSUME IInv, sheet.status = "APPROVED", NEW u \in active, Request(u)
  PROVE  UNCHANGED tsVars
<1>1. /\ \A l \in DOMAIN lines : lines[l].status = "APPROVED"
      /\ lines = [l \in DOMAIN lines |-> lines[l]]
      /\ sheet # NoSheet
      /\ sheet.status \notin Editable
      /\ sheet.status \notin {"DRAFT", "REJECTED"}
  BY DEF IInv, SheetMatchesLines, LineStatuses, TypeInv, TSTypeOK, NoSheet, Editable
<1>2. CASE \E S \in SUBSET EditableLines(u, sheet, lines) :
             \E edits \in [S -> Hours] : EditLines(u, edits)
  <2>1. PICK S \in SUBSET EditableLines(u, sheet, lines) :
          \E edits \in [S -> Hours] : EditLines(u, edits)
    BY <1>2
  <2>2. PICK edits \in [S -> Hours] : EditLines(u, edits)
    BY <2>1
  <2>3. S = {}
    BY EditableFacts
  <2>4. sheet' = sheet /\ lines' = [l \in DOMAIN lines |-> lines[l]]
    BY <2>2, <2>3 DEF EditLines
  <2>. QED BY <1>1, <2>4 DEF tsVars
<1>3. ASSUME Approve(u) PROVE FALSE
  BY <1>1, <1>3, ApproveEffect DEF IInv
<1>4. ASSUME Reject(u) PROVE FALSE
  BY <1>1, <1>4, RejectEffect DEF IInv
<1>. QED
  BY <1>1, <1>2, <1>3, <1>4
     DEF Request, Create, ReplaceLines, Remove, Submit, CanSubmit, Reopen, CanReopen

\* Once every line is signed the sheet never changes again.
THEOREM ApprovedStaysAsItIs == Spec => ApprovedIsFinal
<1>1. IInv /\ [Next]_vars => [FinalStep]_vars
  <2>. SUFFICES ASSUME IInv, Next PROVE FinalStep
    OBVIOUS
  <2>. QED BY ApprovedIsKept DEF Next, FinalStep
<1>. QED BY <1>1, InvHolds, PTL DEF Spec, ApprovedIsFinal, FinalStep

\* The steps that NoSkippedStage and SignedHoursAreFrozen allow.
StagedStep ==
  \A l \in DOMAIN lines \cap DOMAIN lines' :
    (lines[l].status # "APPROVED" /\ lines'[l].status = "APPROVED") =>
      \/ lines[l].status = "SITE_APPROVED" /\ lines[l].siteBy # NoUser
      \/ ManagerOf(lines[l].site) = sheet.owner

FrozenStep ==
  \A l \in DOMAIN lines \cap DOMAIN lines' :
    {lines[l].status, lines'[l].status} \subseteq {"SITE_APPROVED", "APPROVED"} =>
      /\ lines'[l].hours = lines[l].hours
      /\ lines'[l].site = lines[l].site

\* The steps of one request, line by line: an approval or a refusal signs as the
\* stages allow and keeps what was entered; every other request leaves the line
\* alone or leaves it unsigned.
LEMMA RequestSigns ==
  ASSUME IInv, NEW u \in active, Request(u)
  PROVE  StagedStep /\ FrozenStep
<1>. DEFINE Unsigned(ln) == ln.status \in {"DRAFT", "SUBMITTED"}
<1>0. /\ u \in Users
      /\ \A l \in DOMAIN lines : lines[l] \in Line
      /\ \A l \in DOMAIN lines : Sound(sheet.owner, lines[l])
  BY DEF IInv, TypeInv, OrgTypeOK, active, TSTypeOK, LinesSound
<1>1. ASSUME \A l \in DOMAIN lines \cap DOMAIN lines' :
               lines'[l] = lines[l] \/ Unsigned(lines'[l])
      PROVE  StagedStep /\ FrozenStep
  BY <1>1 DEF StagedStep, FrozenStep
<1>2. ASSUME NEW o \in Users, Create(u, o)
      PROVE  StagedStep /\ FrozenStep
  BY <1>1, <1>2 DEF Create
<1>3. ASSUME NEW S \in SUBSET LineIds, NEW at \in [S -> Sites \cup {NoSite}],
             NEW h \in [S -> Hours],
             ReplaceLines(u, [l \in S |-> NewLine(at[l], h[l])])
      PROVE  StagedStep /\ FrozenStep
  <2>. DEFINE new == [l \in S |-> NewLine(at[l], h[l])]
  <2>1. \A l \in DOMAIN new : new[l].status = "DRAFT"
    BY DraftTable
  <2>2. lines' = new
    BY <1>3 DEF ReplaceLines
  <2>. HIDE DEF new
  <2>. QED BY <1>1, <2>1, <2>2
<1>4. ASSUME NEW S \in SUBSET EditableLines(u, sheet, lines),
             NEW edits \in [S -> Hours], EditLines(u, edits)
      PROVE  StagedStep /\ FrozenStep
  <2>1. lines' = [l \in DOMAIN lines |->
                    IF l \in S THEN Corrected(lines[l], edits[l]) ELSE lines[l]]
    BY <1>4 DEF EditLines
  <2>2. \A l \in S : l \in DOMAIN lines /\ lines[l].status \in {"SUBMITTED", "REJECTED"}
    BY EditableFacts
  <2>3. \A l \in S : Corrected(lines[l], edits[l]).status = "SUBMITTED"
    BY <1>0, <2>2, CorrectedFacts
  <2>. QED BY <1>1, <2>1, <2>2, <2>3
<1>5. ASSUME Remove(u)
      PROVE  StagedStep /\ FrozenStep
  <2>1. DOMAIN lines' = {}
    BY <1>5 DEF Remove, NoLines
  <2>. QED BY <1>1, <2>1
<1>6. ASSUME NEW to \in SheetStatus, NEW st \in {"SUBMITTED", "DRAFT"},
             Transition(u, to, st)
      PROVE  StagedStep /\ FrozenStep
  <2>1. st \in LineStatus
    BY DEF LineStatus
  <2>2. /\ DOMAIN lines' = DOMAIN lines
        /\ \A l \in DOMAIN lines : lines'[l] = ResetLine(lines[l], st)
    BY <1>6, <2>1, TransitionEffect DEF IInv
  <2>3. \A l \in DOMAIN lines : lines'[l].status = st
    BY <1>0, <2>1, <2>2, ResetLineFacts
  <2>. QED BY <1>1, <2>2, <2>3
<1>7. ASSUME Submit(u) \/ Reopen(u)
      PROVE  StagedStep /\ FrozenStep
  BY <1>6, <1>7 DEF Submit, Reopen, SheetStatus
<1>8. ASSUME Approve(u)
      PROVE  StagedStep /\ FrozenStep
  <2>. DEFINE stage == ApprovalStage(u, sheet.owner, lines)
              todo == ApprovableLines(u, sheet.owner, lines)
  <2>1. /\ stage \in {"SITE", "PROJECT"}
        /\ todo \subseteq DOMAIN lines
        /\ DOMAIN lines' = DOMAIN lines
        /\ \A l \in DOMAIN lines \ todo : lines'[l] = lines[l]
    BY <1>8, ApproveEffect DEF IInv
  <2>2. CASE stage = "SITE"
    <3>1. \A l \in todo :
            /\ lines[l].status = "SUBMITTED"
            /\ lines'[l] = Recorded(Approved(lines[l], u, "SITE"), u, "SITE_APPROVED")
      BY <1>8, <2>2, ApproveEffect DEF IInv
    <3>2. \A l \in todo : lines'[l].status = "SITE_APPROVED"
      BY <1>0, <2>1, <3>1, DecisionFacts
    <3>. QED BY <2>1, <3>1, <3>2 DEF StagedStep, FrozenStep
  <2>3. CASE stage = "PROJECT"
    <3>1. \A l \in todo :
            /\ \/ lines[l].status = "SITE_APPROVED"
               \/ lines[l].status = "SUBMITTED" /\ OwnerManages(sheet.owner, lines[l])
            /\ lines'[l] = Recorded(Approved(lines[l], u, "PROJECT"), u, "APPROVED")
      BY <1>8, <2>3, ApproveEffect DEF IInv
    <3>2. \A l \in todo : lines'[l].hours = lines[l].hours /\ lines'[l].site = lines[l].site
      BY <1>0, <2>1, <3>1, DecisionFacts
    <3>3. \A l \in todo : lines[l].status = "SITE_APPROVED" => lines[l].siteBy # NoUser
      BY <1>0, <2>1 DEF Sound
    <3>. QED BY <2>1, <3>1, <3>2, <3>3 DEF StagedStep, FrozenStep, OwnerManages
  <2>. QED BY <2>1, <2>2, <2>3
<1>9. ASSUME Reject(u)
      PROVE  StagedStep /\ FrozenStep
  <2>. DEFINE todo == RejectableLines(u, sheet.owner, lines)
  <2>1. /\ todo \subseteq DOMAIN lines
        /\ DOMAIN lines' = DOMAIN lines
        /\ \A l \in todo : lines'[l] = Recorded(Rejected(lines[l], u), u, "REJECTED")
        /\ \A l \in DOMAIN lines \ todo : lines'[l] = lines[l]
    BY <1>9, RejectEffect DEF IInv
  <2>2. \A l \in todo : lines'[l].status = "REJECTED"
    BY <1>0, <2>1, DecisionFacts
  <2>. QED BY <2>1, <2>2 DEF StagedStep, FrozenStep
<1>10. CASE \E o \in Users : Create(u, o)
  BY <1>2, <1>10
<1>11. CASE \E S \in SUBSET LineIds :
              \E at \in [S -> Sites \cup {NoSite}], h \in [S -> Hours] :
                ReplaceLines(u, [l \in S |-> NewLine(at[l], h[l])])
  BY <1>3, <1>11
<1>12. CASE \E S \in SUBSET EditableLines(u, sheet, lines) :
              \E edits \in [S -> Hours] : EditLines(u, edits)
  BY <1>4, <1>12
<1>. QED
  BY <1>5, <1>7, <1>8, <1>9, <1>10, <1>11, <1>12 DEF Request

\* Every step of the system signs in order and leaves signed hours alone.
LEMMA StepSigns ==
  ASSUME IInv, Next
  PROVE  StagedStep /\ FrozenStep
<1>1. CASE UNCHANGED tsVars
  BY <1>1 DEF tsVars, StagedStep, FrozenStep
<1>. QED BY <1>1, RequestSigns DEF Next

\* A chief signs a line only after a site manager did, unless the owner is the
\* manager of the site.
THEOREM StagesAreNotSkipped == Spec => NoSkippedStage
<1>1. IInv /\ [Next]_vars => [StagedStep]_vars
  BY StepSigns
<1>. QED BY <1>1, InvHolds, PTL DEF Spec, NoSkippedStage, StagedStep

\* From the first signature on, the hours and the site of a line do not change
\* while it stays signed.
THEOREM SignedHoursStay == Spec => SignedHoursAreFrozen
<1>1. IInv /\ [Next]_vars => [FrozenStep]_vars
  BY StepSigns
<1>. QED BY <1>1, InvHolds, PTL DEF Spec, SignedHoursAreFrozen, FrozenStep

---------------------------------------------------------------------------
(* The serial workflow implements the contract of a review, for every      *)
(* tenant: each request is one step of ReviewContract, seen through the    *)
(* mapping of TimesheetWorkflow, or no step of it.                         *)

\* What the contract sees of a table of lines.
ContentOf(ls) == [l \in DOMAIN ls |-> [site |-> ls[l].site, hours |-> ls[l].hours]]
StagesOf(ls) == [l \in DOMAIN ls |-> StageOf(ls[l].status)]

Contents == [site : Sites \cup {NoSite}, hours : Hours]

\* How far a line status is signed.
LEMMA StageOfFacts ==
  ASSUME NEW st
  PROVE  /\ StageOf(st) \in Review!Stages
         /\ StageOf(st) = "presigned" <=> st = "SITE_APPROVED"
         /\ StageOf(st) = "signed" <=> st = "APPROVED"
<1>1. CASE st = "SITE_APPROVED"
  BY <1>1, Zenon DEF StageOf, Review!Stages
<1>2. CASE st = "APPROVED"
  BY <1>2 DEF StageOf, Review!Stages
<1>3. CASE st \notin {"SITE_APPROVED", "APPROVED"}
  BY <1>3, Zenon DEF StageOf, Review!Stages
<1>. QED BY <1>1, <1>2, <1>3

\* The phase of each status of sheets.
LEMMA PhaseOfFacts ==
  /\ PhaseOf("NONE") = "none"
  /\ PhaseOf("DRAFT") = "draft"
  /\ PhaseOf("REOPENED") = "draft"
  /\ PhaseOf("SUBMITTED") = "review"
  /\ PhaseOf("N1_APPROVED") = "review"
  /\ PhaseOf("REJECTED") = "refused"
  /\ PhaseOf("APPROVED") = "final"
BY DEF PhaseOf, Editable

\* Every line has a content and a stage, by identifier.
LEMMA TableFacts ==
  ASSUME NEW ls, \A l \in DOMAIN ls : ls[l] \in Line
  PROVE  /\ DOMAIN ContentOf(ls) = DOMAIN ls
         /\ DOMAIN StagesOf(ls) = DOMAIN ls
         /\ ContentOf(ls) \in [DOMAIN ls -> Contents]
         /\ StagesOf(ls) \in [DOMAIN ls -> Review!Stages]
<1>1. \A l \in DOMAIN ls : [site |-> ls[l].site, hours |-> ls[l].hours] \in Contents
  BY DEF Line, Contents
<1>2. ContentOf(ls) \in [DOMAIN ls -> Contents]
  BY <1>1 DEF ContentOf
<1>3. StagesOf(ls) \in [DOMAIN ls -> Review!Stages]
  BY StageOfFacts DEF StagesOf
<1>. QED BY <1>2, <1>3 DEF ContentOf, StagesOf

\* The contract's formulas, on the mapped variables.
Ph == PhaseOf(sheet.status)
Ct == ContentOf(lines)
Sg == StagesOf(lines)

\* Each formula of the contract, written with the mapped variables.
LEMMA Mapped ==
  /\ Review!ContractInit <=>
       Ph = "none" /\ DOMAIN Ct = {} /\ Sg = [i \in DOMAIN Ct |-> "unsigned"]
  /\ Review!Start <=> Ph = "none" /\ Ph' = "draft" /\ Ct' = Ct /\ Sg' = Sg
  /\ Review!Write <=>
       /\ Ph = "draft"
       /\ DOMAIN Ct' \subseteq LineIds
       /\ Ct' \in [DOMAIN Ct' -> Contents]
       /\ Sg' = [i \in DOMAIN Ct' |-> "unsigned"]
       /\ Ph' = Ph
  /\ Review!Discard <=>
       /\ Ph = "draft"
       /\ Ph' = "none"
       /\ DOMAIN Ct' = {}
       /\ Sg' = [i \in DOMAIN Ct' |-> "unsigned"]
  /\ Review!HandIn <=>
       Ph = "draft" /\ DOMAIN Ct # {} /\ Ph' = "review" /\ Ct' = Ct /\ Sg' = Sg
  /\ Review!Sign <=>
       /\ Ph \in {"review", "refused"}
       /\ Sg' \in [DOMAIN Ct -> Review!Stages]
       /\ Sg' # Sg
       /\ \A i \in DOMAIN Ct : Sg'[i] # Sg[i] =>
            <<Sg[i], Sg'[i]>> \in {<<"unsigned", "presigned">>,
                                   <<"unsigned", "signed">>,
                                   <<"presigned", "signed">>}
       /\ IF \A i \in DOMAIN Ct : Sg'[i] = "signed"
          THEN Ph' = "final" ELSE Ph' \in {"review", "refused"}
       /\ Ct' = Ct
  /\ Review!Refuse <=>
       /\ Ph \in {"review", "refused"}
       /\ Ph' = "refused"
       /\ Sg' \in [DOMAIN Ct -> Review!Stages]
       /\ Sg' # Sg
       /\ \A i \in DOMAIN Ct : Sg'[i] # Sg[i] =>
            Sg[i] = "presigned" /\ Sg'[i] = "unsigned"
       /\ Ct' = Ct
  /\ Review!Correct <=>
       /\ Ph \in {"review", "refused"}
       /\ DOMAIN Ct' = DOMAIN Ct
       /\ Ct' \in [DOMAIN Ct -> Contents]
       /\ \A i \in DOMAIN Ct : Sg[i] # "unsigned" => Ct'[i] = Ct[i]
       /\ Ph' = Ph /\ Sg' = Sg
  /\ Review!GiveBack <=>
       /\ Ph = "refused"
       /\ Ph' = "draft"
       /\ Sg' = [i \in DOMAIN Ct |-> "unsigned"]
       /\ Ct' = Ct
  /\ (UNCHANGED Review!contractVars) <=> (Ph' = Ph /\ Ct' = Ct /\ Sg' = Sg)
BY DEF Ph, Ct, Sg, ContentOf, StagesOf, Contents, Review!ContractInit, Review!Start,
       Review!Write, Review!Discard, Review!HandIn, Review!Sign, Review!Refuse,
       Review!Correct, Review!GiveBack, Review!contractVars, Review!Unsigned

---------------------------------------------------------------------------
(* One step of the contract for each request.                              *)

\* The table before a step, as the contract sees it.
LEMMA MappedTable ==
  ASSUME TypeInv
  PROVE  /\ \A l \in DOMAIN lines : lines[l] \in Line
         /\ DOMAIN lines \subseteq LineIds
         /\ DOMAIN Ct = DOMAIN lines
         /\ DOMAIN Sg = DOMAIN lines
         /\ Ct \in [DOMAIN lines -> Contents]
         /\ Sg \in [DOMAIN lines -> Review!Stages]
         /\ \A l \in DOMAIN lines :
              /\ Ct[l] = [site |-> lines[l].site, hours |-> lines[l].hours]
              /\ Sg[l] = StageOf(lines[l].status)
<1>1. DOMAIN lines \subseteq LineIds /\ \A l \in DOMAIN lines : lines[l] \in Line
  BY DEF TypeInv, TSTypeOK
<1>2. \A l \in DOMAIN lines :
        /\ Ct[l] = [site |-> lines[l].site, hours |-> lines[l].hours]
        /\ Sg[l] = StageOf(lines[l].status)
  BY DEF Ct, Sg, ContentOf, StagesOf
<1>. QED BY <1>1, <1>2, TableFacts DEF Ct, Sg

\* The same after a step that leaves the table well typed.
LEMMA MappedTableNext ==
  ASSUME TypeInv'
  PROVE  /\ \A l \in DOMAIN lines' : lines'[l] \in Line
         /\ DOMAIN lines' \subseteq LineIds
         /\ DOMAIN Ct' = DOMAIN lines'
         /\ DOMAIN Sg' = DOMAIN lines'
         /\ Ct' \in [DOMAIN lines' -> Contents]
         /\ Sg' \in [DOMAIN lines' -> Review!Stages]
         /\ \A l \in DOMAIN lines' :
              /\ Ct'[l] = [site |-> lines'[l].site, hours |-> lines'[l].hours]
              /\ Sg'[l] = StageOf(lines'[l].status)
<1>1. DOMAIN lines' \subseteq LineIds /\ \A l \in DOMAIN lines' : lines'[l] \in Line
  BY DEF TypeInv, TSTypeOK
<1>2. /\ Ct' = ContentOf(lines')
      /\ Sg' = StagesOf(lines')
  BY DEF Ct, Sg, ContentOf, StagesOf
<1>3. \A l \in DOMAIN lines' :
        /\ Ct'[l] = [site |-> lines'[l].site, hours |-> lines'[l].hours]
        /\ Sg'[l] = StageOf(lines'[l].status)
  BY <1>2 DEF ContentOf, StagesOf
<1>. QED BY <1>1, <1>2, <1>3, TableFacts

\* A table of drafts is a table of unsigned items.
LEMMA DraftsAreUnsigned ==
  ASSUME TypeInv', \A l \in DOMAIN lines' : lines'[l].status = "DRAFT"
  PROVE  Sg' = [i \in DOMAIN Ct' |-> "unsigned"]
<1>1. \A l \in DOMAIN lines' : Sg'[l] = "unsigned"
  <2>. SUFFICES ASSUME NEW l \in DOMAIN lines' PROVE Sg'[l] = "unsigned"
    OBVIOUS
  <2>1. Sg'[l] = StageOf("DRAFT")
    BY MappedTableNext
  <2>2. StageOf("DRAFT") = "unsigned"
    BY StageOfFacts DEF Review!Stages
  <2>. QED BY <2>1, <2>2
<1>. QED BY <1>1, MappedTableNext

\* Every status of sheets has its phase.
LEMMA PhaseIs ==
  ASSUME TypeInv
  PROVE  /\ Ph = "none" <=> sheet.status = "NONE"
         /\ Ph = "draft" <=> sheet.status \in Editable
         /\ Ph = "review" <=> sheet.status \in {"SUBMITTED", "N1_APPROVED"}
         /\ Ph = "refused" <=> sheet.status = "REJECTED"
         /\ Ph = "final" <=> sheet.status = "APPROVED"
<1>1. sheet.status \in {"NONE", "DRAFT", "REOPENED", "SUBMITTED", "N1_APPROVED",
                        "REJECTED", "APPROVED"}
  BY DEF TypeInv, TSTypeOK, Sheet, SheetStatus
<1>. QED BY <1>1, PhaseOfFacts DEF Ph, Editable

\* The sheet is final exactly when its lines are all approved.
LEMMA AggregateIsFinal ==
  ASSUME NEW ls
  PROVE  Aggregate(ls) = "APPROVED" <=> \A l \in DOMAIN ls : ls[l].status = "APPROVED"
BY DEF Aggregate

\* A line that waits for a decision belongs to a sheet in review or refused.
LEMMA WaitingLineIsInReview ==
  ASSUME IInv, NEW l \in DOMAIN lines,
         lines[l].status \in {"SUBMITTED", "SITE_APPROVED", "REJECTED"}
  PROVE  Ph \in {"review", "refused"}
<1>1. sheet.status \in SheetStatus \cup {"NONE"}
  BY DEF IInv, TypeInv, TSTypeOK, Sheet
<1>2. /\ sheet.status = "NONE" => lines = NoLines
      /\ Agrees(sheet.status, LineStatuses)
  BY <1>1, MatchesMeansAgrees DEF IInv
<1>3. lines[l].status \in LineStatuses
  BY DEF LineStatuses
<1>4. sheet.status # "NONE"
  BY <1>2 DEF NoLines
<1>5. sheet.status \notin Editable /\ sheet.status # "APPROVED"
  BY <1>2, <1>3 DEF Agrees
<1>6. sheet.status \in {"SUBMITTED", "N1_APPROVED", "REJECTED"}
  BY <1>1, <1>4, <1>5 DEF SheetStatus, Editable
<1>. QED BY <1>6, PhaseIs DEF IInv

\* Requests that leave the lines alone.
LEMMA LinesUnmoved ==
  ASSUME lines' = lines
  PROVE  Ct' = Ct /\ Sg' = Sg
BY DEF Ct, Sg

\* Creating a sheet starts the document.
LEMMA CreateStarts ==
  ASSUME IInv, IInv', NEW u \in active, NEW o \in Users, Create(u, o)
  PROVE  Review!Start
<1>1. sheet.status = "NONE" /\ sheet'.status = "DRAFT" /\ lines' = lines
  BY DEF Create, NoSheet
<1>2. Ph = "none" /\ Ph' = "draft"
  BY <1>1, PhaseOfFacts DEF Ph
<1>. QED BY <1>1, <1>2, LinesUnmoved, Mapped

\* The owner's save writes the draft.
LEMMA ReplaceWrites ==
  ASSUME IInv, IInv', NEW u \in active, NEW new, ReplaceLines(u, new),
         \A l \in DOMAIN new : new[l].status = "DRAFT"
  PROVE  Review!Write
<1>1. sheet' = sheet /\ lines' = new /\ sheet.status \in Editable
  BY DEF ReplaceLines
<1>2. Ph = "draft" /\ Ph' = Ph
  BY <1>1, PhaseIs DEF IInv, Ph
<1>3. /\ DOMAIN Ct' = DOMAIN lines'
      /\ DOMAIN lines' \subseteq LineIds
      /\ Ct' \in [DOMAIN lines' -> Contents]
  BY MappedTableNext DEF IInv
<1>4. Sg' = [i \in DOMAIN Ct' |-> "unsigned"]
  BY <1>1, DraftsAreUnsigned DEF IInv
<1>. QED BY <1>2, <1>3, <1>4, Mapped

\* Deleting the sheet discards the draft.
LEMMA RemoveDiscards ==
  ASSUME IInv, IInv', NEW u \in active, Remove(u)
  PROVE  Review!Discard
<1>1. sheet.status = "DRAFT" /\ sheet'.status = "NONE" /\ DOMAIN lines' = {}
  BY DEF Remove, NoSheet, NoLines
<1>2. Ph = "draft" /\ Ph' = "none"
  BY <1>1, PhaseOfFacts DEF Ph
<1>3. DOMAIN Ct' = {} /\ Sg' = [i \in DOMAIN Ct' |-> "unsigned"]
  BY <1>1, DraftsAreUnsigned, MappedTableNext DEF IInv
<1>. QED BY <1>2, <1>3, Mapped

\* What submitting and reopening do to the items: nothing, but to unsign them.
LEMMA ResetUnsigns ==
  ASSUME IInv, IInv', NEW u \in active, NEW to \in SheetStatus,
         NEW st \in {"DRAFT", "SUBMITTED"}, Transition(u, to, st)
  PROVE  /\ sheet'.status = to
         /\ Ct' = Ct
         /\ Sg' = [i \in DOMAIN Ct |-> "unsigned"]
<1>1. st \in LineStatus /\ StageOf(st) = "unsigned"
  BY StageOfFacts DEF LineStatus, Review!Stages
<1>2. /\ sheet'.status = to
      /\ DOMAIN lines' = DOMAIN lines
      /\ \A l \in DOMAIN lines : lines'[l] = ResetLine(lines[l], st)
  BY <1>1, TransitionEffect DEF IInv
<1>3. \A l \in DOMAIN lines : lines[l] \in Line
  BY MappedTable DEF IInv
<1>4. \A l \in DOMAIN lines :
        /\ lines'[l].status = st
        /\ lines'[l].site = lines[l].site
        /\ lines'[l].hours = lines[l].hours
  BY <1>1, <1>2, <1>3, ResetLineFacts
<1>5. \A l \in DOMAIN lines : Ct'[l] = Ct[l] /\ Sg'[l] = "unsigned"
  BY <1>1, <1>2, <1>4, MappedTable, MappedTableNext DEF IInv
<1>. QED BY <1>2, <1>5, MappedTable, MappedTableNext DEF IInv

\* Submitting hands the document in.
LEMMA SubmitHandsIn ==
  ASSUME IInv, IInv', NEW u \in active, Submit(u)
  PROVE  Review!HandIn
<1>1. sheet.status \in Editable /\ HasWorkEntries(lines)
  BY DEF Submit, CanSubmit
<1>2. /\ sheet'.status = "SUBMITTED"
      /\ Ct' = Ct
      /\ Sg' = [i \in DOMAIN Ct |-> "unsigned"]
  BY ResetUnsigns DEF Submit, SheetStatus
<1>3. Ph = "draft" /\ Ph' = "review"
  BY <1>1, <1>2, PhaseIs, PhaseOfFacts DEF IInv, Ph
<1>4. Sg = [i \in DOMAIN Ct |-> "unsigned"]
  <2>1. \A l \in DOMAIN lines : lines[l].status = "DRAFT"
    <3>1. sheet.status \in SheetStatus
      BY <1>1 DEF Editable, SheetStatus
    <3>2. LineStatuses \subseteq {"DRAFT"}
      BY <1>1, <3>1, MatchesMeansAgrees DEF IInv, Agrees
    <3>. QED BY <3>2 DEF LineStatuses
  <2>2. StageOf("DRAFT") = "unsigned"
    BY StageOfFacts DEF Review!Stages
  <2>3. \A l \in DOMAIN lines : Sg[l] = "unsigned"
    BY <2>1, <2>2, MappedTable DEF IInv
  <2>. QED BY <2>3, MappedTable DEF IInv
<1>5. DOMAIN Ct # {}
  BY <1>1, MappedTable DEF IInv, HasWorkEntries
<1>. QED BY <1>2, <1>3, <1>4, <1>5, Mapped

\* Reopening gives the document back to its author.
LEMMA ReopenGivesBack ==
  ASSUME IInv, IInv', NEW u \in active, Reopen(u)
  PROVE  Review!GiveBack
<1>1. sheet.status = "REJECTED"
  BY DEF Reopen, CanReopen
<1>2. /\ sheet'.status = "REOPENED"
      /\ Ct' = Ct
      /\ Sg' = [i \in DOMAIN Ct |-> "unsigned"]
  BY ResetUnsigns DEF Reopen, SheetStatus
<1>3. Ph = "refused" /\ Ph' = "draft"
  BY <1>1, <1>2, PhaseOfFacts DEF Ph
<1>. QED BY <1>2, <1>3, Mapped

\* Decisions leave the content of the items alone.
LEMMA SameContent ==
  ASSUME TypeInv, TypeInv', DOMAIN lines' = DOMAIN lines,
         \A l \in DOMAIN lines :
           lines'[l].site = lines[l].site /\ lines'[l].hours = lines[l].hours
  PROVE  Ct' = Ct
<1>1. \A l \in DOMAIN lines : Ct'[l] = Ct[l]
  BY MappedTable, MappedTableNext
<1>. QED BY <1>1, MappedTable, MappedTableNext

\* Some lines take a further signature, and the last one makes the sheet final.
LEMMA ApproveSigns ==
  ASSUME IInv, IInv', NEW u \in active, Approve(u)
  PROVE  Review!Sign
<1>. DEFINE stage == ApprovalStage(u, sheet.owner, lines)
            todo == ApprovableLines(u, sheet.owner, lines)
<1>1. /\ stage \in {"SITE", "PROJECT"}
      /\ todo \subseteq DOMAIN lines /\ todo # {}
      /\ DOMAIN lines' = DOMAIN lines
      /\ \A l \in todo :
           /\ lines'[l] =
                IF stage = "SITE"
                THEN Recorded(Approved(lines[l], u, "SITE"), u, "SITE_APPROVED")
                ELSE Recorded(Approved(lines[l], u, "PROJECT"), u, "APPROVED")
           /\ stage = "SITE" => lines[l].status = "SUBMITTED"
           /\ stage = "PROJECT" => lines[l].status \in {"SITE_APPROVED", "SUBMITTED"}
      /\ \A l \in DOMAIN lines \ todo : lines'[l] = lines[l]
      /\ sheet'.status = Aggregate(lines')
  BY ApproveEffect DEF IInv
<1>2. /\ \A l \in DOMAIN lines : lines[l] \in Line
      /\ active \subseteq Users
  BY MappedTable DEF IInv, TypeInv, OrgTypeOK, active
<1>. HIDE DEF stage, todo
<1>3. \A l \in todo :
        /\ lines'[l].site = lines[l].site /\ lines'[l].hours = lines[l].hours
        /\ stage = "SITE" => lines'[l].status = "SITE_APPROVED"
        /\ stage = "PROJECT" => lines'[l].status = "APPROVED"
  BY <1>1, <1>2, DecisionFacts
<1>4. Ct' = Ct
  BY <1>1, <1>3, SameContent DEF IInv
<1>5. \A l \in DOMAIN lines :
        /\ Sg[l] = StageOf(lines[l].status)
        /\ Sg'[l] = StageOf(lines'[l].status)
  BY <1>1, MappedTable, MappedTableNext DEF IInv
<1>6. /\ StageOf("SUBMITTED") = "unsigned"
      /\ StageOf("SITE_APPROVED") = "presigned"
      /\ StageOf("APPROVED") = "signed"
  BY StageOfFacts DEF Review!Stages
<1>7. \A l \in todo :
        /\ Sg'[l] # Sg[l]
        /\ <<Sg[l], Sg'[l]>> \in {<<"unsigned", "presigned">>,
                                  <<"unsigned", "signed">>,
                                  <<"presigned", "signed">>}
  <2>. SUFFICES ASSUME NEW l \in todo
                PROVE  <<Sg[l], Sg'[l]>> \in {<<"unsigned", "presigned">>,
                                              <<"unsigned", "signed">>,
                                              <<"presigned", "signed">>}
    OBVIOUS
  <2>1. CASE stage = "SITE"
    BY <1>1, <1>3, <1>5, <1>6, <2>1
  <2>2. CASE stage = "PROJECT"
    BY <1>1, <1>3, <1>5, <1>6, <2>2
  <2>. QED BY <1>1, <2>1, <2>2
<1>8. \A l \in DOMAIN lines \ todo : Sg'[l] = Sg[l]
  BY <1>1, <1>5
<1>9. Ph \in {"review", "refused"}
  <2>1. PICK l \in todo : TRUE
    BY <1>1
  <2>2. lines[l].status \in {"SITE_APPROVED", "SUBMITTED"}
    BY <1>1, <2>1
  <2>. QED BY <1>1, <2>1, <2>2, WaitingLineIsInReview
<1>10. IF \A l \in DOMAIN lines : Sg'[l] = "signed"
       THEN Ph' = "final" ELSE Ph' \in {"review", "refused"}
  <2>1. (\A l \in DOMAIN lines : Sg'[l] = "signed") <=> sheet'.status = "APPROVED"
    BY <1>1, <1>5, StageOfFacts, AggregateIsFinal
  <2>2. sheet'.status \in {"APPROVED", "REJECTED", "N1_APPROVED", "SUBMITTED"}
    BY <1>1, AggregateType
  <2>. QED BY <2>1, <2>2, PhaseOfFacts DEF Ph
<1>11. /\ DOMAIN Ct = DOMAIN lines /\ DOMAIN Sg = DOMAIN lines
       /\ Sg' \in [DOMAIN lines -> Review!Stages]
  BY <1>1, MappedTable, MappedTableNext DEF IInv
<1>. QED BY <1>1, <1>4, <1>7, <1>8, <1>9, <1>10, <1>11, Mapped

\* Some lines lose the site manager's signature, and the sheet is refused.
LEMMA RejectRefuses ==
  ASSUME IInv, IInv', NEW u \in active, Reject(u)
  PROVE  Review!Refuse
<1>. DEFINE todo == RejectableLines(u, sheet.owner, lines)
<1>1. /\ todo \subseteq DOMAIN lines /\ todo # {}
      /\ DOMAIN lines' = DOMAIN lines
      /\ \A l \in todo :
           /\ lines'[l] = Recorded(Rejected(lines[l], u), u, "REJECTED")
           /\ lines[l].status = "SITE_APPROVED"
      /\ \A l \in DOMAIN lines \ todo : lines'[l] = lines[l]
      /\ sheet'.status = Aggregate(lines')
  BY RejectEffect DEF IInv
<1>2. /\ \A l \in DOMAIN lines : lines[l] \in Line
      /\ active \subseteq Users
  BY MappedTable DEF IInv, TypeInv, OrgTypeOK, active
<1>. HIDE DEF todo
<1>3. \A l \in todo :
        /\ lines'[l].site = lines[l].site /\ lines'[l].hours = lines[l].hours
        /\ lines'[l].status = "REJECTED"
  BY <1>1, <1>2, DecisionFacts
<1>4. Ct' = Ct
  BY <1>1, <1>3, SameContent DEF IInv
<1>5. \A l \in DOMAIN lines :
        /\ Sg[l] = StageOf(lines[l].status)
        /\ Sg'[l] = StageOf(lines'[l].status)
  BY <1>1, MappedTable, MappedTableNext DEF IInv
<1>6. \A l \in todo : Sg[l] = "presigned" /\ Sg'[l] = "unsigned"
  BY <1>1, <1>3, <1>5, StageOfFacts DEF Review!Stages
<1>7. \A l \in DOMAIN lines \ todo : Sg'[l] = Sg[l]
  BY <1>1, <1>5
<1>8. PICK l \in todo : l \in DOMAIN lines
  BY <1>1
<1>9. Ph \in {"review", "refused"}
  BY <1>1, <1>8, WaitingLineIsInReview
<1>10. Ph' = "refused"
  <2>1. sheet'.status = "REJECTED"
    BY <1>1, <1>3, <1>8 DEF Aggregate
  <2>. QED BY <2>1, PhaseOfFacts DEF Ph
<1>11. /\ DOMAIN Ct = DOMAIN lines /\ DOMAIN Sg = DOMAIN lines
       /\ Sg' \in [DOMAIN lines -> Review!Stages]
       /\ Sg' # Sg
  BY <1>1, <1>6, <1>8, MappedTable, MappedTableNext DEF IInv
<1>. QED BY <1>4, <1>6, <1>7, <1>9, <1>10, <1>11, Mapped

\* A validator's save corrects unsigned items, or changes nothing.
LEMMA EditCorrects ==
  ASSUME IInv, IInv', NEW u \in active,
         NEW S \in SUBSET EditableLines(u, sheet, lines), NEW edits \in [S -> Hours],
         EditLines(u, edits)
  PROVE  Review!Correct \/ UNCHANGED Review!contractVars
<1>1. /\ sheet' = sheet
      /\ S \subseteq DOMAIN lines
      /\ \A l \in S : lines[l].status \in {"SUBMITTED", "REJECTED"}
      /\ lines' = [l \in DOMAIN lines |->
                     IF l \in S THEN Corrected(lines[l], edits[l]) ELSE lines[l]]
  BY EditableFacts DEF EditLines
<1>2. \A l \in DOMAIN lines : lines[l] \in Line
  BY MappedTable DEF IInv
<1>3. /\ DOMAIN lines' = DOMAIN lines
      /\ \A l \in S : lines'[l] = Corrected(lines[l], edits[l])
      /\ \A l \in DOMAIN lines \ S : lines'[l] = lines[l]
  BY <1>1
<1>4. CASE S = {}
  <2>1. DOMAIN lines' = DOMAIN lines /\ \A l \in DOMAIN lines : lines'[l] = lines[l]
    BY <1>3, <1>4
  <2>2. lines = [l \in DOMAIN lines |-> lines[l]] /\ lines' = [l \in DOMAIN lines |-> lines'[l]]
    BY <1>1 DEF IInv, TypeInv, TSTypeOK
  <2>3. lines' = lines
    BY <2>1, <2>2
  <2>4. Ph' = Ph
    BY <1>1 DEF Ph
  <2>. QED BY <2>3, <2>4, LinesUnmoved, Mapped
<1>5. CASE S # {}
  <2>1. PICK l \in S : l \in DOMAIN lines
    BY <1>1, <1>5
  <2>2. Ph \in {"review", "refused"}
    BY <1>1, <2>1, WaitingLineIsInReview
  <2>3. \A i \in DOMAIN lines :
          /\ Sg[i] = StageOf(lines[i].status)
          /\ Sg'[i] = StageOf(lines'[i].status)
    BY <1>3, MappedTable, MappedTableNext DEF IInv
  <2>4. StageOf("SUBMITTED") = "unsigned" /\ StageOf("REJECTED") = "unsigned"
    BY StageOfFacts DEF Review!Stages
  <2>5. \A i \in S : lines'[i].status = "SUBMITTED"
    BY <1>1, <1>2, <1>3, CorrectedFacts
  <2>6. \A i \in S : Sg[i] = "unsigned" /\ Sg'[i] = "unsigned"
    BY <1>1, <2>3, <2>4, <2>5
  <2>7. \A i \in DOMAIN lines \ S : Sg'[i] = Sg[i]
    BY <1>3, <2>3
  <2>8. \A i \in DOMAIN lines \ S : Ct'[i] = Ct[i]
    BY <1>3, MappedTable, MappedTableNext DEF IInv
  <2>9. /\ DOMAIN Ct = DOMAIN lines /\ DOMAIN Ct' = DOMAIN lines
        /\ Ct' \in [DOMAIN lines -> Contents]
    BY <1>3, MappedTable, MappedTableNext DEF IInv
  <2>10. Sg' = Sg
    BY <1>3, <2>6, <2>7, MappedTable, MappedTableNext DEF IInv
  <2>11. Ph' = Ph
    BY <1>1 DEF Ph
  <2>12. Review!Correct
    BY <2>2, <2>6, <2>8, <2>9, <2>10, <2>11, Mapped
  <2>. QED BY <2>12
<1>. QED BY <1>4, <1>5

---------------------------------------------------------------------------
(* The theorem.                                                            *)

\* No sheet is a document that has not been started.
LEMMA InitMaps == Init => Review!ContractInit
<1>. SUFFICES ASSUME Init PROVE Review!ContractInit
  OBVIOUS
<1>1. sheet.status = "NONE" /\ DOMAIN lines = {}
  BY DEF Init, NoSheet, NoLines
<1>2. Ph = "none"
  BY <1>1, PhaseOfFacts DEF Ph
<1>3. DOMAIN Ct = {} /\ Sg = [i \in DOMAIN Ct |-> "unsigned"]
  BY <1>1 DEF Ct, Sg, ContentOf, StagesOf
<1>. QED BY <1>2, <1>3, Mapped

\* Every request is a step of the contract or leaves what it says alone.
LEMMA RequestMaps ==
  ASSUME IInv, IInv', NEW u \in active, Request(u)
  PROVE  Review!ContractNext \/ UNCHANGED Review!contractVars
<1>1. ASSUME NEW o \in Users, Create(u, o) PROVE Review!ContractNext
  BY <1>1, CreateStarts DEF Review!ContractNext
<1>2. ASSUME NEW S \in SUBSET LineIds, NEW at \in [S -> Sites \cup {NoSite}],
             NEW h \in [S -> Hours],
             ReplaceLines(u, [l \in S |-> NewLine(at[l], h[l])])
      PROVE  Review!ContractNext
  <2>. DEFINE new == [l \in S |-> NewLine(at[l], h[l])]
  <2>1. \A l \in DOMAIN new : new[l].status = "DRAFT"
    BY DraftTable
  <2>2. ReplaceLines(u, new)
    BY <1>2
  <2>. HIDE DEF new
  <2>. QED BY <2>1, <2>2, ReplaceWrites DEF Review!ContractNext
<1>3. ASSUME NEW S \in SUBSET EditableLines(u, sheet, lines), NEW edits \in [S -> Hours],
             EditLines(u, edits)
      PROVE  Review!ContractNext \/ UNCHANGED Review!contractVars
  BY <1>3, EditCorrects DEF Review!ContractNext
<1>4. Remove(u) => Review!ContractNext
  BY RemoveDiscards DEF Review!ContractNext
<1>5. Submit(u) => Review!ContractNext
  BY SubmitHandsIn DEF Review!ContractNext
<1>6. Reopen(u) => Review!ContractNext
  BY ReopenGivesBack DEF Review!ContractNext
<1>7. Approve(u) => Review!ContractNext
  BY ApproveSigns DEF Review!ContractNext
<1>8. Reject(u) => Review!ContractNext
  BY RejectRefuses DEF Review!ContractNext
<1>9. CASE \E S \in SUBSET LineIds :
             /\ Cardinality(S) <= MaxLines
             /\ \E at \in [S -> Sites \cup {NoSite}], h \in [S -> Hours] :
                  ReplaceLines(u, [l \in S |-> NewLine(at[l], h[l])])
  <2>1. PICK S \in SUBSET LineIds :
          \E at \in [S -> Sites \cup {NoSite}], h \in [S -> Hours] :
            ReplaceLines(u, [l \in S |-> NewLine(at[l], h[l])])
    BY <1>9
  <2>. QED BY <1>2, <2>1
<1>10. CASE \E S \in SUBSET EditableLines(u, sheet, lines) :
              \E edits \in [S -> Hours] : EditLines(u, edits)
  <2>1. PICK S \in SUBSET EditableLines(u, sheet, lines) :
          \E edits \in [S -> Hours] : EditLines(u, edits)
    BY <1>10
  <2>. QED BY <1>3, <2>1
<1>. QED BY <1>1, <1>4, <1>5, <1>6, <1>7, <1>8, <1>9, <1>10 DEF Request

\* The serial workflow keeps the contract of a review: a sheet is signed line
\* by line, frozen as it is signed, given back only once refused, and final
\* for good exactly when every line is signed -- for every tenant.
THEOREM WorkflowKeepsContract == Spec => KeepsReviewContract
<1>1. IInv /\ IInv' /\ [Next]_vars => [Review!ContractNext]_Review!contractVars
  <2>. SUFFICES ASSUME IInv, IInv', [Next]_vars
                PROVE  Review!ContractNext \/ UNCHANGED Review!contractVars
    OBVIOUS
  <2>1. ASSUME NEW u \in active, Request(u)
        PROVE  Review!ContractNext \/ UNCHANGED Review!contractVars
    BY <2>1, RequestMaps
  <2>2. ASSUME UNCHANGED tsVars PROVE UNCHANGED Review!contractVars
    <3>1. sheet' = sheet /\ lines' = lines
      BY <2>2 DEF tsVars
    <3>. QED BY <3>1, LinesUnmoved, Mapped DEF Ph
  <2>. QED BY <2>1, <2>2 DEF Next, vars
<1>. QED BY <1>1, InitMaps, InvHolds, PTL DEF Spec, KeepsReviewContract, Review!ContractSpec

===========================================================================
