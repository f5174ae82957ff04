------------------------- MODULE OrganisationProofs -------------------------
(***************************************************************************)
(* The organisation stays well formed for every tenant: the tables keep    *)
(* their types, the manager of an open site has not left, and a team       *)
(* loses those who leave by the end of the day.                            *)
(***************************************************************************)
EXTENDS Organisation, Integers, FiniteSets, FiniteSetsExt, FiniteSetTheorems,
        WellFoundedInduction, TLAPS

\* The initial tables have the types of their columns.
LEMMA OrgInitType == OrgInit => OrgTypeOK
BY OrganisationAssumption DEF OrgInit, OrgTypeOK, AccountState

\* Writing a manager and a project, or a state, leaves a site row.
LEMMA SiteRowRouted ==
  ASSUME NEW row \in SiteRow, NEW m \in Users \cup {NoUser},
         NEW p \in Projects \cup {NoProject}
  PROVE  [row EXCEPT !.manager = m, !.project = p] \in SiteRow
BY DEF SiteRow

\* Changing the state of a site leaves a site row.
LEMMA SiteRowState ==
  ASSUME NEW row \in SiteRow, NEW st \in RowState
  PROVE  [row EXCEPT !.state = st] \in SiteRow
BY DEF SiteRow

\* Clearing the manager of a site leaves a site row.
LEMMA SiteRowCleared ==
  ASSUME NEW row \in SiteRow
  PROVE  [row EXCEPT !.manager = NoUser] \in SiteRow
BY DEF SiteRow

\* Every request of the human-resources screens keeps the types.
LEMMA OrgStepType ==
  ASSUME OrgTypeOK, Reorganise
  PROVE  OrgTypeOK'
<1>. USE OrganisationAssumption DEF OrgTypeOK
<1>1. changes' \in 0..MaxChanges
  <2>1. \/ changes < MaxChanges /\ changes' = changes + 1
        \/ changes' = changes
    BY Zenon DEF Reorganise, CreateProject, UpdateProject, DeleteProject, CreateSite,
                 UpdateSite, DeleteSite, Assign, EditProfile, Place, EditAccount,
                 Deactivate, Midnight, RequestedBy
  <2>. QED BY <2>1
<1>2. ASSUME NEW p \in Projects, NEW u \in Users,
             CreateProject(p, u) \/ UpdateProject(p, u)
      PROVE  OrgTypeOK'
  <2>1. [state |-> "open", chief |-> u] \in ProjectRow
    BY DEF ProjectRow, RowState
  <2>2. [project[p] EXCEPT !.chief = u] \in ProjectRow
    BY DEF ProjectRow
  <2>3. project' \in [Projects -> ProjectRow]
    BY <1>2, <2>1, <2>2 DEF CreateProject, UpdateProject
  <2>. QED BY <1>1, <1>2, <2>3 DEF CreateProject, UpdateProject, people
<1>3. ASSUME NEW p \in Projects, DeleteProject(p)
      PROVE  OrgTypeOK'
  <2>1. [project[p] EXCEPT !.state = "deleted"] \in ProjectRow
    BY DEF ProjectRow, RowState
  <2>2. project' \in [Projects -> ProjectRow]
    BY <1>3, <2>1 DEF DeleteProject
  <2>. QED BY <1>1, <1>3, <2>2 DEF DeleteProject, people
<1>4. ASSUME NEW s \in Sites, NEW m \in Users \cup {NoUser},
             NEW p \in Projects \cup {NoProject}, CreateSite(s, m, p)
      PROVE  OrgTypeOK'
  <2>1. [state |-> "open", manager |-> m, project |-> p] \in SiteRow
    BY <1>4 DEF CreateSite, SiteRow, RowState
  <2>2. site' \in [Sites -> SiteRow]
    BY <1>4, <2>1 DEF CreateSite
  <2>3. assigned' \in [Sites -> SUBSET Users]
    BY <1>4 DEF CreateSite, active
  <2>. QED BY <1>1, <1>4, <2>2, <2>3 DEF CreateSite, people
<1>5. ASSUME NEW s \in Sites, NEW m \in Users \cup {NoUser},
             NEW p \in Projects \cup {NoProject}, UpdateSite(s, m, p)
      PROVE  OrgTypeOK'
  <2>1. [site[s] EXCEPT !.manager = m, !.project = p] \in SiteRow
    BY SiteRowRouted
  <2>2. site' = [site EXCEPT ![s] = [site[s] EXCEPT !.manager = m, !.project = p]]
    BY <1>5 DEF UpdateSite
  <2>3. site' \in [Sites -> SiteRow]
    BY <2>1, <2>2
  <2>. QED BY <1>1, <1>5, <2>3 DEF UpdateSite, people
<1>6. ASSUME NEW s \in Sites, DeleteSite(s)
      PROVE  OrgTypeOK'
  <2>1. [site[s] EXCEPT !.state = "deleted"] \in SiteRow
    BY SiteRowState DEF RowState
  <2>2. site' = [site EXCEPT ![s] = [site[s] EXCEPT !.state = "deleted"]]
    BY <1>6 DEF DeleteSite
  <2>3. site' \in [Sites -> SiteRow]
    BY <2>1, <2>2
  <2>. QED BY <1>1, <1>6, <2>3 DEF DeleteSite, people
<1>7. ASSUME NEW s \in Sites, NEW u \in Users, NEW endsToday \in BOOLEAN,
             Assign(s, u, endsToday)
      PROVE  OrgTypeOK'
  BY <1>1, <1>7 DEF Assign
<1>8. ASSUME NEW u \in Users, NEW r \in Roles, EditProfile(u, r)
      PROVE  OrgTypeOK'
  BY <1>1, <1>8 DEF EditProfile
<1>9. ASSUME NEW u \in Users, NEW r \in Roles, NEW s \in Sites \cup {NoSite},
             Place(u, r, s)
      PROVE  OrgTypeOK'
  BY <1>1, <1>9 DEF Place
<1>10. ASSUME NEW u \in Users, NEW r \in Roles, NEW st \in AccountState,
              EditAccount(u, r, st)
       PROVE  OrgTypeOK'
  BY <1>1, <1>10 DEF EditAccount
<1>11. ASSUME NEW u \in Users, Deactivate(u)
       PROVE  OrgTypeOK'
  <2>1. ASSUME NEW s \in Sites PROVE [site[s] EXCEPT !.manager = NoUser] \in SiteRow
    BY SiteRowCleared
  <2>2. site' \in [Sites -> SiteRow]
    BY <1>11, <2>1, Zenon DEF Deactivate
  <2>3. lastDay' \in [Sites -> SUBSET Users]
    BY <1>11 DEF Deactivate
  <2>4. account' \in [Users -> AccountState]
    BY <1>11 DEF Deactivate, AccountState
  <2>5. UNCHANGED <<project, assigned, mainSite, role>>
    BY <1>11 DEF Deactivate
  <2>. QED BY <1>1, <2>2, <2>3, <2>4, <2>5
<1>12. ASSUME Midnight PROVE OrgTypeOK'
  BY <1>1, <1>12 DEF Midnight, people
<1>. QED
  BY <1>2, <1>3, <1>4, <1>5, <1>6, <1>7, <1>8, <1>9, <1>10, <1>11, <1>12
     DEF Reorganise

\* Type correctness: sites, projects, assignments and accounts are what their
\* tables declare, in every tenant and after any number of requests.
THEOREM OrgTypeCorrect == OrgSpec => []OrgTypeOK
<1>1. OrgTypeOK /\ [Reorganise]_orgVars => OrgTypeOK'
  <2>. SUFFICES ASSUME OrgTypeOK, [Reorganise]_orgVars PROVE OrgTypeOK'
    OBVIOUS
  <2>1. CASE Reorganise
    BY <2>1, OrgStepType
  <2>2. CASE UNCHANGED orgVars
    BY <2>2 DEF orgVars, people, OrgTypeOK
  <2>. QED BY <2>1, <2>2
<1>. QED BY <1>1, OrgInitType, PTL DEF OrgSpec

---------------------------------------------------------------------------
(* Those who leave, leave.                                                 *)

\* Only open accounts are assigned, and closing an account makes today the last
\* day of its assignments (employees.repository.ts, sites.service.ts).
LeaversLastDay ==
  \A s \in Sites : \A u \in assigned[s] : account[u] = "closed" => u \in lastDay[s]

\* What the requests preserve: the types, and nobody who left at any of the
\* places a team is gathered from.
OrgInv == OrgTypeOK /\ NoFormerManager /\ LeaversLastDay

\* The tables a behaviour starts from are sound.
LEMMA OrgInitInv == OrgInit => OrgInv
BY OrgInitType, OrganisationAssumption
   DEF OrgInit, OrgInv, OrgTypeOK, NoFormerManager, LeaversLastDay, ManagerOf, SiteRow

\* Each request keeps leavers away from open sites and from assignments.
LEMMA OrgStepInv ==
  ASSUME OrgInv, Reorganise
  PROVE  OrgInv'
<1>. USE DEF OrgInv
<1>0. OrgTypeOK'
  BY OrgStepType
<1>. USE OrganisationAssumption
     DEF OrgTypeOK, NoFormerManager, LeaversLastDay, ManagerOf, active, people
<1>2. ASSUME NEW p \in Projects, NEW u \in Users,
             CreateProject(p, u) \/ UpdateProject(p, u)
      PROVE  OrgInv'
  BY <1>0, <1>2 DEF CreateProject, UpdateProject
<1>3. ASSUME NEW p \in Projects, DeleteProject(p)
      PROVE  OrgInv'
  BY <1>0, <1>3 DEF DeleteProject
<1>4. ASSUME NEW s \in Sites, NEW m \in Users \cup {NoUser},
             NEW p \in Projects \cup {NoProject}, CreateSite(s, m, p)
      PROVE  OrgInv'
  BY <1>0, <1>4 DEF CreateSite
<1>5. ASSUME NEW s \in Sites, NEW m \in Users \cup {NoUser},
             NEW p \in Projects \cup {NoProject}, UpdateSite(s, m, p)
      PROVE  OrgInv'
  BY <1>0, <1>5 DEF UpdateSite, SiteRow
<1>6. ASSUME NEW s \in Sites, DeleteSite(s)
      PROVE  OrgInv'
  BY <1>0, <1>6 DEF DeleteSite, SiteRow
<1>7. ASSUME NEW s \in Sites, NEW u \in Users, NEW endsToday \in BOOLEAN,
             Assign(s, u, endsToday)
      PROVE  OrgInv'
  BY <1>0, <1>7 DEF Assign
<1>8. ASSUME NEW u \in Users, NEW r \in Roles, EditProfile(u, r)
      PROVE  OrgInv'
  BY <1>0, <1>8 DEF EditProfile
<1>9. ASSUME NEW u \in Users, NEW r \in Roles, NEW s \in Sites \cup {NoSite},
             Place(u, r, s)
      PROVE  OrgInv'
  BY <1>0, <1>9 DEF Place
<1>10. ASSUME NEW u \in Users, NEW r \in Roles, NEW st \in AccountState,
              EditAccount(u, r, st)
       PROVE  OrgInv'
  BY <1>0, <1>10 DEF EditAccount, SiteRow
<1>11. ASSUME NEW u \in Users, Deactivate(u)
       PROVE  OrgInv'
  BY <1>0, <1>11 DEF Deactivate, SiteRow
<1>12. ASSUME Midnight PROVE OrgInv'
  BY <1>0, <1>12 DEF Midnight
<1>. QED
  BY <1>2, <1>3, <1>4, <1>5, <1>6, <1>7, <1>8, <1>9, <1>10, <1>11, <1>12
     DEF Reorganise

\* The invariant of the organisation, for every behaviour of it.
LEMMA OrgInvHolds == OrgSpec => []OrgInv
<1>1. OrgInv /\ [Reorganise]_orgVars => OrgInv'
  <2>. SUFFICES ASSUME OrgInv, [Reorganise]_orgVars PROVE OrgInv'
    OBVIOUS
  <2>1. CASE Reorganise
    BY <2>1, OrgStepInv
  <2>2. CASE UNCHANGED orgVars
    BY <2>2 DEF orgVars, people, OrgInv, OrgTypeOK, NoFormerManager, LeaversLastDay,
                ManagerOf
  <2>. QED BY <2>1, <2>2
<1>. QED BY <1>1, OrgInitInv, PTL DEF OrgSpec

\* The manager of an open site has not left, whatever the administration did.
THEOREM ManagersStay == OrgSpec => []NoFormerManager
<1>1. OrgInv => NoFormerManager
  BY DEF OrgInv
<1>. QED BY <1>1, OrgInvHolds, PTL

\* In a team gathered from well-formed tables, a closed account is on its last
\* day.
LEMMA TeamFromInv == OrgInv => LeaversAreGone
<1>. SUFFICES ASSUME OrgInv, NEW u \in active, role[u] \notin Unrestricted,
                     NEW v \in ManagedUsers(u), account[v] = "closed"
              PROVE  \E s \in Sites : v \in lastDay[s]
  BY DEF LeaversAreGone
<1>1. CASE \E s \in DirectedSites(u) : v \in StaffOf(s)
  BY <1>1 DEF OrgInv, LeaversLastDay, DirectedSites, StaffOf
<1>2. CASE \E s \in DirectedSites(u) : v = ManagerOf(s) /\ v # NoUser
  BY <1>2 DEF OrgInv, NoFormerManager, DirectedSites
<1>. QED BY <1>1, <1>2 DEF ManagedUsers

\* A manager's team loses those who leave by the end of the day.
THEOREM TeamsLoseLeavers == OrgSpec => []LeaversAreGone
BY TeamFromInv, OrgInvHolds, PTL

---------------------------------------------------------------------------
(* Sums over finite sets, for whatever is counted in this organisation.    *)
(* The fold of the community modules is a function that satisfies its own  *)
(* equation; that there is one, and only one, is shown by induction on the *)
(* subsets of a finite set, which comes down to this: if some subset were  *)
(* bad, one would be least.                                                *)

SumIn(f, T) == MapThenSumSet(LAMBDA i : f[i], T)

\* What the fold takes first of a set, and what it leaves.
Chosen(s) == CHOOSE x \in s : TRUE

Remaining(s) == s \ {Chosen(s)}

\* g adds up, one row after the other, what there is in each subset of T.
Adds(g, f, T) ==
  g = [s \in SUBSET T |-> IF s = {} THEN 0 ELSE f[Chosen(s)] + g[Remaining(s)]]

\* The library's sum is a function that adds up, whichever CHOOSE finds.
LEMMA SumIsFold ==
  ASSUME NEW f, NEW T
  PROVE SumIn(f, T) = (CHOOSE g : Adds(g, f, T))[T]
BY DEF SumIn, MapThenSumSet, MapThenFoldSet, Adds, Chosen, Remaining

LEMMA RemainingIsLess ==
  ASSUME NEW s, s # {}
  PROVE  Chosen(s) \in s /\ Remaining(s) \subseteq s /\ Remaining(s) # s
<1>1. Chosen(s) \in s
  BY DEF Chosen
<1>. QED BY <1>1 DEF Remaining

\* Induction on finite sets: of the subsets that are bad, one is the least.
LEMMA LeastSubset ==
  ASSUME NEW S, IsFiniteSet(S), NEW B, B \subseteq SUBSET S, B # {}
  PROVE  \E s \in B : \A t \in B : t \subseteq s => t = s
<1>1. FiniteSubsetsOf(S) = SUBSET S
  BY FS_FiniteSubsetsOfFinite
<1>2. IsWellFoundedOn(StrictSubsetOrdering(S), SUBSET S)
  BY <1>1, FS_StrictSubsetOrderingWellFounded
<1>3. PICK s \in B : \A t \in B : <<t, s>> \notin StrictSubsetOrdering(S)
  BY <1>2, WFMin
<1>4. \A t \in B : t \subseteq s /\ t # s => <<t, s>> \in StrictSubsetOrdering(S)
  BY DEF StrictSubsetOrdering
<1>5. ASSUME NEW t \in B, t \subseteq s PROVE t = s
  BY <1>3, <1>4, <1>5
<1>. QED BY <1>5

\* A function that adds up does so on every smaller set,
LEMMA AddsWithin ==
  ASSUME NEW f, NEW S, NEW g, Adds(g, f, S), NEW T, T \subseteq S
  PROVE  Adds([t \in SUBSET T |-> g[t]], f, T)
<1>1. PICK h : h = [t \in SUBSET T |-> g[t]]
  OBVIOUS
<1>2. \A t \in SUBSET T : t # {} => Remaining(t) \in SUBSET T
  BY DEF Remaining
<1>3. \A t \in SUBSET T : g[t] = IF t = {} THEN 0 ELSE f[Chosen(t)] + g[Remaining(t)]
  BY DEF Adds
<1>4. \A t \in SUBSET T : h[t] = IF t = {} THEN 0 ELSE f[Chosen(t)] + h[Remaining(t)]
  BY <1>1, <1>2, <1>3
<1>5. h = [t \in SUBSET T |-> IF t = {} THEN 0 ELSE f[Chosen(t)] + h[Remaining(t)]]
  BY <1>1, <1>4
<1>. QED BY <1>1, <1>5 DEF Adds

\* there is no other,
LEMMA AddsOnce ==
  ASSUME NEW f, NEW S, IsFiniteSet(S), NEW g, NEW h, Adds(g, f, S), Adds(h, f, S)
  PROVE  g = h
<1>1. PICK B : B = {s \in SUBSET S : g[s] # h[s]}
  OBVIOUS
<1>2. \A s \in SUBSET S : /\ g[s] = IF s = {} THEN 0 ELSE f[Chosen(s)] + g[Remaining(s)]
                          /\ h[s] = IF s = {} THEN 0 ELSE f[Chosen(s)] + h[Remaining(s)]
  BY DEF Adds
<1>3. CASE B # {}
  <2>1. PICK s \in B : \A t \in B : t \subseteq s => t = s
    BY <1>1, <1>3, LeastSubset
  <2>2. s # {}
    BY <1>1, <1>2
  <2>3. Remaining(s) \in SUBSET S /\ Remaining(s) \notin B
    BY <1>1, <2>1, <2>2, RemainingIsLess
  <2>. QED BY <1>1, <1>2, <2>3
<1>4. CASE B = {}
  <2>1. \A s \in SUBSET S : g[s] = h[s]
    BY <1>1, <1>4
  <2>2. g = [s \in SUBSET S |-> g[s]] /\ h = [s \in SUBSET S |-> h[s]]
    BY DEF Adds
  <2>. QED BY <2>1, <2>2
<1>. QED BY <1>3, <1>4

\* So a sum is one value and the sum of the others,
LEMMA SumStep ==
  ASSUME NEW f, NEW T, IsFiniteSet(T), \E g : Adds(g, f, T)
  PROVE  SumIn(f, T) = IF T = {} THEN 0 ELSE f[Chosen(T)] + SumIn(f, Remaining(T))
<1>1. PICK g : g = CHOOSE k : Adds(k, f, T)
  OBVIOUS
<1>2. Adds(g, f, T) /\ SumIn(f, T) = g[T]
  BY <1>1, SumIsFold
<1>3. g[T] = IF T = {} THEN 0 ELSE f[Chosen(T)] + g[Remaining(T)]
  BY <1>2 DEF Adds
<1>4. ASSUME T # {}
      PROVE  SumIn(f, Remaining(T)) = g[Remaining(T)]
  <2>1. PICK R : R = Remaining(T)
    OBVIOUS
  <2>2. R \subseteq T /\ IsFiniteSet(R)
    BY <1>4, <2>1, RemainingIsLess, FS_Subset
  <2>3. PICK h, k : h = [t \in SUBSET R |-> g[t]] /\ k = CHOOSE j : Adds(j, f, R)
    OBVIOUS
  <2>4. Adds(h, f, R)
    BY <1>2, <2>2, <2>3, AddsWithin
  <2>5. Adds(k, f, R)
    BY <2>3, <2>4
  <2>6. h = k
    BY <2>2, <2>4, <2>5, AddsOnce
  <2>7. SumIn(f, R) = k[R]
    BY <2>3, SumIsFold
  <2>. QED BY <2>1, <2>3, <2>6, <2>7
<1>. QED BY <1>2, <1>3, <1>4

\* and on a finite set there is one.
LEMMA AddsExists ==
  ASSUME NEW f, NEW S, IsFiniteSet(S)
  PROVE  \E g : Adds(g, f, S)
<1>1. PICK B : B = {s \in SUBSET S : ~ \E g : Adds(g, f, s)}
  OBVIOUS
<1>2. CASE B # {}
  <2>0. B \subseteq SUBSET S
    BY <1>1
  <2>1. PICK s \in B : \A t \in B : t \subseteq s => t = s
    BY <1>2, <2>0, LeastSubset
  <2>2. ASSUME NEW t, t \subseteq s, t # s
        PROVE  SumIn(f, t) = IF t = {} THEN 0
                                   ELSE f[Chosen(t)] + SumIn(f, Remaining(t))
    <3>1. t \in SUBSET S /\ t \notin B
      BY <1>1, <2>1, <2>2
    <3>2. IsFiniteSet(t)
      BY <3>1, FS_Subset
    <3>. QED BY <1>1, <3>1, <3>2, SumStep
  <2>3. PICK G : G = [t \in SUBSET s |-> IF t = {} THEN 0
                                         ELSE f[Chosen(t)] + SumIn(f, Remaining(t))]
    OBVIOUS
  <2>4. ASSUME NEW t \in SUBSET s, t # {}
        PROVE  G[Remaining(t)] = SumIn(f, Remaining(t))
    <3>1. Remaining(t) \subseteq s /\ Remaining(t) # s
      BY <2>4, RemainingIsLess
    <3>. QED BY <2>2, <2>3, <3>1
  <2>5. G = [t \in SUBSET s |-> IF t = {} THEN 0 ELSE f[Chosen(t)] + G[Remaining(t)]]
    BY <2>3, <2>4
  <2>. QED BY <1>1, <2>1, <2>5 DEF Adds
<1>. QED BY <1>1, <1>2

LEMMA SumUnfolds ==
  ASSUME NEW f, NEW T, IsFiniteSet(T)
  PROVE  SumIn(f, T) = IF T = {} THEN 0 ELSE f[Chosen(T)] + SumIn(f, Remaining(T))
BY AddsExists, SumStep

\* a natural number if all the values are,
LEMMA SumType ==
  ASSUME NEW f, NEW S, IsFiniteSet(S), \A i \in S : f[i] \in Nat
  PROVE  SumIn(f, S) \in Nat
<1>1. PICK B : B = {s \in SUBSET S : SumIn(f, s) \notin Nat}
  OBVIOUS
<1>2. CASE B # {}
  <2>0. B \subseteq SUBSET S
    BY <1>1
  <2>1. PICK s \in B : \A t \in B : t \subseteq s => t = s
    BY <1>2, <2>0, LeastSubset
  <2>2. s \in SUBSET S /\ IsFiniteSet(s)
    BY <1>1, <2>1, FS_Subset
  <2>3. SumIn(f, s) = IF s = {} THEN 0 ELSE f[Chosen(s)] + SumIn(f, Remaining(s))
    BY <2>2, SumUnfolds
  <2>4. s # {}
    BY <1>1, <2>3
  <2>5. /\ Chosen(s) \in S /\ Remaining(s) \in SUBSET S /\ Remaining(s) \notin B
    BY <2>1, <2>2, <2>4, RemainingIsLess
  <2>6. SumIn(f, Remaining(s)) \in Nat
    BY <1>1, <2>5
  <2>7. SumIn(f, s) \in Nat
    BY <2>3, <2>4, <2>5, <2>6
  <2>. QED BY <1>1, <2>7
<1>. QED BY <1>1, <1>2

\* and the same as another if they are equal one by one.
LEMMA SumCongruence ==
  ASSUME NEW a, NEW b, NEW S, IsFiniteSet(S), \A i \in S : a[i] = b[i]
  PROVE  SumIn(a, S) = SumIn(b, S)
<1>1. PICK B : B = {s \in SUBSET S : SumIn(a, s) # SumIn(b, s)}
  OBVIOUS
<1>2. CASE B # {}
  <2>0. B \subseteq SUBSET S
    BY <1>1
  <2>1. PICK s \in B : \A t \in B : t \subseteq s => t = s
    BY <1>2, <2>0, LeastSubset
  <2>2. s \in SUBSET S /\ IsFiniteSet(s)
    BY <1>1, <2>1, FS_Subset
  <2>3. /\ SumIn(a, s) = IF s = {} THEN 0 ELSE a[Chosen(s)] + SumIn(a, Remaining(s))
        /\ SumIn(b, s) = IF s = {} THEN 0 ELSE b[Chosen(s)] + SumIn(b, Remaining(s))
    BY <2>2, SumUnfolds
  <2>4. s # {}
    BY <1>1, <2>3
  <2>5. /\ Chosen(s) \in S /\ Remaining(s) \in SUBSET S /\ Remaining(s) \notin B
    BY <2>1, <2>2, <2>4, RemainingIsLess
  <2>6. SumIn(a, Remaining(s)) = SumIn(b, Remaining(s))
    BY <1>1, <2>5
  <2>. QED BY <1>1, <2>3, <2>5, <2>6
<1>. QED BY <1>1, <1>2

\* Whichever value is taken out, the sum loses that much.
LEMMA SumWithout ==
  ASSUME NEW f, NEW S, IsFiniteSet(S), \A i \in S : f[i] \in Nat, NEW x \in S
  PROVE  SumIn(f, S) = f[x] + SumIn(f, S \ {x})
<1>1. PICK B : B = {s \in SUBSET S : \E i \in s :
                      SumIn(f, s) # f[i] + SumIn(f, s \ {i})}
  OBVIOUS
<1>2. CASE B # {}
  <2>0. B \subseteq SUBSET S
    BY <1>1
  <2>1. PICK s \in B : \A t \in B : t \subseteq s => t = s
    BY <1>2, <2>0, LeastSubset
  <2>2. PICK i \in s : SumIn(f, s) # f[i] + SumIn(f, s \ {i})
    BY <1>1, <2>1
  <2>3. PICK y : y = Chosen(s)
    OBVIOUS
  <2>4. y \in s /\ s \in SUBSET S /\ IsFiniteSet(s) /\ Remaining(s) = s \ {y}
    BY <1>1, <2>1, <2>2, <2>3, RemainingIsLess, FS_Subset DEF Remaining
  <2>5. SumIn(f, s) = f[y] + SumIn(f, s \ {y})
    BY <2>2, <2>3, <2>4, SumUnfolds
  <2>6. i # y
    BY <2>2, <2>5
  <2>7. s \ {y} \in SUBSET S /\ s \ {y} \notin B /\ s \ {i} \in SUBSET S /\ s \ {i} \notin B
    BY <2>1, <2>2, <2>4
  <2>8. /\ SumIn(f, s \ {y}) = f[i] + SumIn(f, (s \ {y}) \ {i})
        /\ SumIn(f, s \ {i}) = f[y] + SumIn(f, (s \ {i}) \ {y})
    BY <1>1, <2>2, <2>4, <2>6, <2>7
  <2>9. PICK R : R = (s \ {y}) \ {i}
    OBVIOUS
  <2>10. (s \ {i}) \ {y} = R
    BY <2>9
  <2>11. IsFiniteSet(R) /\ \A j \in R : f[j] \in Nat
    BY <2>4, <2>9, FS_Subset
  <2>12. SumIn(f, R) \in Nat /\ f[i] \in Nat /\ f[y] \in Nat
    BY <2>2, <2>4, <2>11, SumType
  <2>13. /\ SumIn(f, s) = f[y] + (f[i] + SumIn(f, R))
         /\ SumIn(f, s \ {i}) = f[y] + SumIn(f, R)
    BY <2>5, <2>8, <2>9, <2>10
  <2>. QED BY <2>2, <2>12, <2>13
<1>3. CASE B = {}
  BY <1>1, <1>3
<1>. QED BY <1>2, <1>3

===========================================================================
