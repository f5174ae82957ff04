--------------------------- MODULE ReportsProofs ---------------------------
(***************************************************************************)
(* The reports agree with each other for every tenant, whatever is         *)
(* checked in, entered, approved and given leave.  A report is a table of  *)
(* sums; two reports agree because their rows are the parts of one set,    *)
(* cut along two columns, and a sum is that of the parts.                  *)
(***************************************************************************)
EXTENDS Reports, OrganisationProofs

---------------------------------------------------------------------------
(* More about sums.                                                        *)

\* Induction on the subsets of a finite set, one member more at each step.
LEMMA GrowingSubsets ==
  ASSUME NEW S, IsFiniteSet(S), NEW G, {} \in G,
         \A s \in SUBSET S : \A x \in S \ s : s \in G => s \cup {x} \in G
  PROVE  S \in G
<1>1. PICK B : B = {s \in SUBSET S : s \notin G}
  OBVIOUS
<1>2. CASE B # {}
  <2>1. B \subseteq SUBSET S
    BY <1>1
  <2>2. PICK s \in B : \A t \in B : t \subseteq s => t = s
    BY <1>2, <2>1, LeastSubset
  <2>3. PICK x \in s : TRUE
    BY <1>1, <2>2
  <2>4. s \ {x} \in SUBSET S /\ s \ {x} \notin B /\ x \in S \ (s \ {x})
    BY <1>1, <2>2, <2>3
  <2>5. (s \ {x}) \cup {x} \in G
    BY <1>1, <2>4
  <2>6. (s \ {x}) \cup {x} = s
    BY <2>3
  <2>. QED BY <1>1, <2>2, <2>5, <2>6
<1>. QED BY <1>1, <1>2

LEMMA SumOfNone ==
  ASSUME NEW f
  PROVE  SumIn(f, {}) = 0
BY SumUnfolds, FS_EmptySet

\* One value more.
LEMMA SumAdds ==
  ASSUME NEW f, NEW S, IsFiniteSet(S), NEW x, x \notin S,
         \A i \in S \cup {x} : f[i] \in Nat
  PROVE  SumIn(f, S \cup {x}) = f[x] + SumIn(f, S)
<1>1. PICK U : U = S \cup {x}
  OBVIOUS
<1>2. IsFiniteSet(U) /\ x \in U /\ U \ {x} = S
  BY <1>1, FS_AddElement
<1>3. SumIn(f, U) = f[x] + SumIn(f, U \ {x})
  BY <1>1, <1>2, SumWithout
<1>. QED BY <1>1, <1>2, <1>3

\* The sum of two parts, of which nothing is in both.
LEMMA SumOfParts ==
  ASSUME NEW f, NEW S, IsFiniteSet(S), NEW T, IsFiniteSet(T), S \cap T = {},
         \A i \in S \cup T : f[i] \in Nat
  PROVE  SumIn(f, S \cup T) = SumIn(f, S) + SumIn(f, T)
<1>1. PICK G : G = {s \in SUBSET S : SumIn(f, s \cup T) = SumIn(f, s) + SumIn(f, T)}
  OBVIOUS
<1>2. {} \in G
  <2>1. {} \cup T = T
    OBVIOUS
  <2>2. SumIn(f, T) \in Nat
    BY SumType
  <2>. QED BY <1>1, <2>1, <2>2, SumOfNone
<1>3. ASSUME NEW s \in SUBSET S, NEW x \in S \ s, s \in G
      PROVE  s \cup {x} \in G
  <2>1. PICK u : u = s \cup T
    OBVIOUS
  <2>2. IsFiniteSet(s) /\ IsFiniteSet(u)
    BY <2>1, FS_Subset, FS_Union
  <2>3. x \notin u /\ x \notin s /\ (\A i \in u \cup {x} : f[i] \in Nat)
        /\ \A i \in s \cup {x} : f[i] \in Nat
    BY <2>1
  <2>4. /\ SumIn(f, u \cup {x}) = f[x] + SumIn(f, u)
        /\ SumIn(f, s \cup {x}) = f[x] + SumIn(f, s)
    BY <2>2, <2>3, SumAdds
  <2>5. (s \cup {x}) \cup T = u \cup {x}
    BY <2>1
  <2>6. SumIn(f, u) = SumIn(f, s) + SumIn(f, T)
    BY <1>1, <1>3, <2>1
  <2>7. SumIn(f, s) \in Nat /\ SumIn(f, T) \in Nat /\ f[x] \in Nat
    BY <2>2, <2>3, SumType
  <2>8. SumIn(f, u \cup {x}) = SumIn(f, s \cup {x}) + SumIn(f, T)
    BY <2>4, <2>6, <2>7
  <2>9. s \cup {x} \in SUBSET S
    OBVIOUS
  <2>. QED BY <1>1, <2>5, <2>8, <2>9
<1>4. S \in G
  BY <1>2, <1>3, GrowingSubsets
<1>. QED BY <1>1, <1>4

\* A part is not more than the whole.
LEMMA SumOfLess ==
  ASSUME NEW f, NEW S, IsFiniteSet(S), NEW T, T \subseteq S, \A i \in S : f[i] \in Nat
  PROVE  /\ IsFiniteSet(T)
         /\ SumIn(f, S) = SumIn(f, T) + SumIn(f, S \ T)
         /\ SumIn(f, T) <= SumIn(f, S)
<1>1. PICK R : R = S \ T
  OBVIOUS
<1>2. IsFiniteSet(T) /\ IsFiniteSet(R) /\ T \cup R = S /\ T \cap R = {}
  BY <1>1, FS_Subset
<1>3. SumIn(f, T \cup R) = SumIn(f, T) + SumIn(f, R)
  BY <1>2, SumOfParts
<1>4. SumIn(f, T) \in Nat /\ SumIn(f, R) \in Nat
  BY <1>2, SumType
<1>5. SumIn(f, S) = SumIn(f, T) + SumIn(f, R)
  BY <1>2, <1>3
<1>6. SumIn(f, T) <= SumIn(f, S)
  BY <1>4, <1>5
<1>. QED BY <1>1, <1>2, <1>5, <1>6

\* Adding up two columns, or their sum.
LEMMA SumOfBoth ==
  ASSUME NEW f, NEW g, NEW h, NEW S, IsFiniteSet(S),
         \A i \in S : f[i] \in Nat /\ g[i] \in Nat /\ h[i] = f[i] + g[i]
  PROVE  SumIn(h, S) = SumIn(f, S) + SumIn(g, S)
<1>1. PICK G : G = {s \in SUBSET S : SumIn(h, s) = SumIn(f, s) + SumIn(g, s)}
  OBVIOUS
<1>2. {} \in G
  BY <1>1, SumOfNone
<1>3. ASSUME NEW s \in SUBSET S, NEW x \in S \ s, s \in G
      PROVE  s \cup {x} \in G
  <2>1. IsFiniteSet(s)
    BY FS_Subset
  <2>2. \A i \in s \cup {x} : f[i] \in Nat /\ g[i] \in Nat /\ h[i] \in Nat
    OBVIOUS
  <2>3. /\ SumIn(f, s \cup {x}) = f[x] + SumIn(f, s)
        /\ SumIn(g, s \cup {x}) = g[x] + SumIn(g, s)
        /\ SumIn(h, s \cup {x}) = h[x] + SumIn(h, s)
    BY <2>1, <2>2, SumAdds
  <2>4. SumIn(f, s) \in Nat /\ SumIn(g, s) \in Nat
    BY <2>1, <2>2, SumType
  <2>5. SumIn(h, s) = SumIn(f, s) + SumIn(g, s)
    BY <1>1, <1>3
  <2>6. SumIn(h, s \cup {x}) = SumIn(f, s \cup {x}) + SumIn(g, s \cup {x})
    BY <2>2, <2>3, <2>4, <2>5
  <2>. QED BY <1>1, <2>6
<1>4. S \in G
  BY <1>2, <1>3, GrowingSubsets
<1>. QED BY <1>1, <1>4

LEMMA SumOfZeros ==
  ASSUME NEW f, NEW S, IsFiniteSet(S), \A i \in S : f[i] = 0
  PROVE  SumIn(f, S) = 0
<1>1. PICK G : G = {s \in SUBSET S : SumIn(f, s) = 0}
  OBVIOUS
<1>2. {} \in G
  BY <1>1, SumOfNone
<1>3. ASSUME NEW s \in SUBSET S, NEW x \in S \ s, s \in G
      PROVE  s \cup {x} \in G
  <2>1. IsFiniteSet(s)
    BY FS_Subset
  <2>2. SumIn(f, s \cup {x}) = f[x] + SumIn(f, s)
    BY <2>1, SumAdds
  <2>. QED BY <1>1, <1>3, <2>2
<1>4. S \in G
  BY <1>2, <1>3, GrowingSubsets
<1>. QED BY <1>1, <1>4

\* Rows are counted as they are added up.
LEMMA SumOfOnes ==
  ASSUME NEW f, NEW S, IsFiniteSet(S), \A i \in S : f[i] = 1
  PROVE  SumIn(f, S) = Cardinality(S)
<1>1. PICK G : G = {s \in SUBSET S : SumIn(f, s) = Cardinality(s)}
  OBVIOUS
<1>2. {} \in G
  BY <1>1, SumOfNone, FS_EmptySet
<1>3. ASSUME NEW s \in SUBSET S, NEW x \in S \ s, s \in G
      PROVE  s \cup {x} \in G
  <2>1. IsFiniteSet(s)
    BY FS_Subset
  <2>2. SumIn(f, s \cup {x}) = 1 + SumIn(f, s)
    BY <2>1, SumAdds
  <2>3. Cardinality(s \cup {x}) = Cardinality(s) + 1 /\ Cardinality(s) \in Nat
    BY <2>1, FS_AddElement, FS_CardinalityType
  <2>. QED BY <1>1, <1>3, <2>2, <2>3
<1>4. S \in G
  BY <1>2, <1>3, GrowingSubsets
<1>. QED BY <1>1, <1>4

\* The sets rows[k] cut S into finite parts.
Parted(K, rows, S) ==
  /\ \A k \in K : IsFiniteSet(rows[k])
  /\ \A k \in K : \A j \in K \ {k} : rows[j] \cap rows[k] = {}
  /\ \A i : i \in S <=> \E k \in K : i \in rows[k]

\* The sum of the parts a set is cut into, as many as there are.
LEMMA SumOfGroups ==
  ASSUME NEW f, NEW K, IsFiniteSet(K), NEW rows, NEW S, Parted(K, rows, S),
         \A i \in S : f[i] \in Nat,
         NEW part, \A k \in K : part[k] = SumIn(f, rows[k])
  PROVE  IsFiniteSet(S) /\ SumIn(part, K) = SumIn(f, S)
<1> DEFINE All(s) == UNION {rows[k] : k \in s}
           Good(s) == IsFiniteSet(All(s)) /\ SumIn(part, s) = SumIn(f, All(s))
<1>1. PICK G : G = {s \in SUBSET K : Good(s)}
  OBVIOUS
<1>2. {} \in G
  <2>1. All({}) = {}
    OBVIOUS
  <2>2. Good({})
    BY <2>1, SumOfNone, FS_EmptySet
  <2>. QED BY <1>1, <2>2
<1>3. ASSUME NEW s \in SUBSET K, NEW x \in K \ s, s \in G
      PROVE  s \cup {x} \in G
  <2>1. PICK a, b : a = All(s) /\ b = rows[x]
    OBVIOUS
  <2>2. IsFiniteSet(a) /\ SumIn(part, s) = SumIn(f, a)
    BY <1>1, <1>3, <2>1
  <2>3. PICK c : c = a \cup b /\ All(s \cup {x}) = c
    <3>1. All(s \cup {x}) = All(s) \cup rows[x]
      OBVIOUS
    <3>. QED BY <2>1, <3>1
  <2>4. IsFiniteSet(b) /\ a \cap b = {} /\ \A i \in a \cup b : f[i] \in Nat
    <3>1. IsFiniteSet(b)
      BY <2>1 DEF Parted
    <3>2. \A k \in s : rows[k] \cap b = {}
      BY <2>1 DEF Parted
    <3>3. a \cap b = {}
      BY <2>1, <3>2
    <3>4. \A k \in K : \A i \in rows[k] : f[i] \in Nat
      BY DEF Parted
    <3>5. \A i \in a \cup b : f[i] \in Nat
      BY <2>1, <3>4
    <3>. QED BY <3>1, <3>3, <3>5
  <2>5. IsFiniteSet(c)
    <3>1. IsFiniteSet(a \cup b)
      BY <2>2, <2>4, FS_Union
    <3>. QED BY <2>3, <3>1
  <2>6. SumIn(f, a \cup b) = SumIn(f, a) + SumIn(f, b)
    BY <2>2, <2>4, SumOfParts
  <2>7. IsFiniteSet(s)
    BY FS_Subset
  <2>8. \A k \in s \cup {x} : part[k] \in Nat
    <3>1. \A k \in K : IsFiniteSet(rows[k]) /\ \A i \in rows[k] : f[i] \in Nat
      BY DEF Parted
    <3>2. ASSUME NEW k \in K PROVE part[k] \in Nat
      BY <3>1, SumType
    <3>. QED BY <3>2
  <2>9. SumIn(part, s \cup {x}) = part[x] + SumIn(part, s)
    BY <2>7, <2>8, SumAdds
  <2>10. part[x] = SumIn(f, b)
    BY <2>1
  <2>11. SumIn(f, a) \in Nat /\ SumIn(f, b) \in Nat
    BY <2>2, <2>4, SumType
  <2>12. SumIn(part, s \cup {x}) = SumIn(f, c)
    BY <2>2, <2>3, <2>6, <2>9, <2>10, <2>11
  <2>13. Good(s \cup {x})
    BY <2>3, <2>5, <2>12
  <2>14. s \cup {x} \in SUBSET K
    OBVIOUS
  <2>. QED BY <1>1, <2>13, <2>14
<1>4. K \in G
  BY <1>2, <1>3, GrowingSubsets
<1>5. S = All(K)
  BY DEF Parted
<1>. QED BY <1>1, <1>4, <1>5

\* The hundredths of an hour are within a third of one of the minutes,
LEMMA RoundedClose ==
  ASSUME NEW m \in Nat
  PROVE  /\ Rounded(m) \in Nat
         /\ 3 * Rounded(m) <= 5 * m + 1
         /\ 5 * m <= 3 * Rounded(m) + 1
BY DEF Rounded

\* and those of a column, within that for each row.
LEMMA RoundedSums ==
  ASSUME NEW m, NEW r, NEW S, IsFiniteSet(S),
         \A i \in S : m[i] \in Nat /\ r[i] = Rounded(m[i])
  PROVE  /\ SumIn(r, S) \in Nat /\ SumIn(m, S) \in Nat /\ Cardinality(S) \in Nat
         /\ 3 * SumIn(r, S) <= 5 * SumIn(m, S) + Cardinality(S)
         /\ 5 * SumIn(m, S) <= 3 * SumIn(r, S) + Cardinality(S)
<1>1. PICK G : G = {s \in SUBSET S :
                      /\ 3 * SumIn(r, s) <= 5 * SumIn(m, s) + Cardinality(s)
                      /\ 5 * SumIn(m, s) <= 3 * SumIn(r, s) + Cardinality(s)}
  OBVIOUS
<1>2. {} \in G
  <2>1. SumIn(r, {}) = 0 /\ SumIn(m, {}) = 0 /\ Cardinality({}) = 0
    BY SumOfNone, FS_EmptySet
  <2>. QED BY <1>1, <2>1
<1>3. \A i \in S : r[i] \in Nat
  BY RoundedClose
<1>4. ASSUME NEW s \in SUBSET S, NEW x \in S \ s, s \in G
      PROVE  s \cup {x} \in G
  <2>1. IsFiniteSet(s)
    BY FS_Subset
  <2>2. \A i \in s \cup {x} : m[i] \in Nat /\ r[i] \in Nat
    BY <1>3
  <2>3. /\ SumIn(r, s \cup {x}) = r[x] + SumIn(r, s)
        /\ SumIn(m, s \cup {x}) = m[x] + SumIn(m, s)
    BY <2>1, <2>2, SumAdds
  <2>4. SumIn(r, s) \in Nat /\ SumIn(m, s) \in Nat
    BY <2>1, <2>2, SumType
  <2>5. Cardinality(s \cup {x}) = Cardinality(s) + 1 /\ Cardinality(s) \in Nat
    BY <2>1, FS_AddElement, FS_CardinalityType
  <2>6. 3 * r[x] <= 5 * m[x] + 1 /\ 5 * m[x] <= 3 * r[x] + 1 /\ m[x] \in Nat /\ r[x] \in Nat
    BY <2>2, RoundedClose
  <2>7. /\ 3 * SumIn(r, s) <= 5 * SumIn(m, s) + Cardinality(s)
        /\ 5 * SumIn(m, s) <= 3 * SumIn(r, s) + Cardinality(s)
    BY <1>1, <1>4
  <2>8. /\ 3 * SumIn(r, s \cup {x}) <= 5 * SumIn(m, s \cup {x}) + Cardinality(s \cup {x})
        /\ 5 * SumIn(m, s \cup {x}) <= 3 * SumIn(r, s \cup {x}) + Cardinality(s \cup {x})
    BY <2>3, <2>4, <2>5, <2>6, <2>7
  <2>9. s \cup {x} \in SUBSET S
    OBVIOUS
  <2>. QED BY <1>1, <2>8, <2>9
<1>5. S \in G
  BY <1>2, <1>4, GrowingSubsets
<1>6. SumIn(r, S) \in Nat /\ SumIn(m, S) \in Nat /\ Cardinality(S) \in Nat
  BY <1>3, SumType, FS_CardinalityType
<1>. QED BY <1>1, <1>5, <1>6

---------------------------------------------------------------------------
(* The tables behind the reports.                                          *)

PunchRow == [of : CheckIns, open : BOOLEAN, minutes : Nat, status : Statuses]

Begun == {k \in Users \X Weeks : sheet[k] # "NONE"}

\* The tables have the types of their columns and finitely many rows, and an entry
\* has the sheet it was entered on.
RowsInv ==
  /\ IsFiniteSet(DOMAIN punch)
  /\ \A i \in DOMAIN punch : punch[i] \in PunchRow
  /\ IsFiniteSet(DOMAIN entry)
  /\ \A i \in DOMAIN entry :
       entry[i] \in Entries /\ sheet[<<entry[i].owner, entry[i].week>>] # "NONE"
  /\ sheet \in [Users \X Weeks -> Statuses \cup {"NONE"}]
  /\ IsFiniteSet(Begun)
  /\ leave \subseteq Leaves /\ IsFiniteSet(leave)
  /\ IsFiniteSet(holiday)

LEMMA RowsBegin == ReportsInit => RowsInv
<1> SUFFICES ASSUME ReportsInit PROVE RowsInv
  OBVIOUS
<1>1. DOMAIN punch = {} /\ DOMAIN entry = {}
  BY DEF ReportsInit
<1>2. sheet \in [Users \X Weeks -> Statuses \cup {"NONE"}] /\ Begun = {}
  BY DEF ReportsInit, Begun
<1>. QED BY <1>1, <1>2, FS_EmptySet DEF ReportsInit, RowsInv

\* A sheet begins or moves on.
LEMMA SheetMoves ==
  ASSUME RowsInv, NEW k \in Users \X Weeks, NEW st \in Statuses,
         sheet' = [sheet EXCEPT ![k] = st]
  PROVE  /\ sheet' \in [Users \X Weeks -> Statuses \cup {"NONE"}]
         /\ IsFiniteSet(Begun')
         /\ sheet'[k] # "NONE"
         /\ \A j \in Users \X Weeks : sheet[j] # "NONE" => sheet'[j] # "NONE"
<1>1. sheet \in [Users \X Weeks -> Statuses \cup {"NONE"}] /\ IsFiniteSet(Begun)
  BY DEF RowsInv
<1>2. st # "NONE"
  BY DEF Statuses
<1>3. Begun' = Begun \cup {k}
  BY <1>1, <1>2 DEF Begun
<1>4. IsFiniteSet(Begun \cup {k})
  BY <1>1, FS_AddElement
<1>. QED BY <1>1, <1>2, <1>3, <1>4

LEMMA CheckInKeeps ==
  ASSUME RowsInv, NEW i \in Ids, NEW c \in CheckIns, CheckIn(i, c)
  PROVE  RowsInv'
<1>1. PICK x : x = [of |-> c, open |-> TRUE, minutes |-> 0, status |-> "DRAFT"]
  OBVIOUS
<1>2. x \in PunchRow
  BY <1>1 DEF PunchRow, Statuses
<1>3. punch' = Added(punch, i, x) /\ i \notin DOMAIN punch
  BY <1>1 DEF CheckIn
<1>4. /\ DOMAIN punch' = DOMAIN punch \cup {i} /\ IsFiniteSet(DOMAIN punch')
      /\ punch'[i] = x /\ \A j \in DOMAIN punch : punch'[j] = punch[j]
  <2>1. PICK t : t = punch
    OBVIOUS
  <2>2. IsFiniteSet(DOMAIN t) /\ i \notin DOMAIN t
    BY <1>3, <2>1 DEF RowsInv
  <2>3. PICK r : r = Added(t, i, x)
    OBVIOUS
  <2>4. /\ DOMAIN r = DOMAIN t \cup {i} /\ r[i] = x
        /\ \A j \in DOMAIN t : r[j] = t[j]
    BY <2>2, <2>3 DEF Added
  <2>5. IsFiniteSet(DOMAIN t \cup {i})
    BY <2>2, FS_AddElement
  <2>. QED BY <1>3, <2>1, <2>3, <2>4, <2>5
<1>5. \A j \in DOMAIN punch' : punch'[j] \in PunchRow
  BY <1>2, <1>4 DEF RowsInv
<1>6. UNCHANGED <<sheet, entry, leave, holiday>>
  BY DEF CheckIn
<1>. QED BY <1>4, <1>5, <1>6 DEF RowsInv, Begun

LEMMA PunchChanges ==
  ASSUME RowsInv, NEW i \in DOMAIN punch, NEW x \in PunchRow,
         punch' = [punch EXCEPT ![i] = x], UNCHANGED <<sheet, entry, leave, holiday>>
  PROVE  RowsInv'
<1>1. DOMAIN punch' = DOMAIN punch /\ \A j \in DOMAIN punch : punch'[j] \in PunchRow
  BY DEF RowsInv
<1>. QED BY <1>1 DEF RowsInv, Begun

LEMMA CheckOutKeeps ==
  ASSUME RowsInv, NEW i \in DOMAIN punch, NEW n \in Durations, CheckOut(i, n)
  PROVE  RowsInv'
<1>1. PICK x : x = [[punch[i] EXCEPT !.open = FALSE] EXCEPT !.minutes = n]
  OBVIOUS
<1>2. punch[i] \in PunchRow /\ n \in Nat
  BY ReportsAssumption DEF RowsInv
<1>3. x \in PunchRow
  BY <1>1, <1>2 DEF PunchRow
<1>4. punch' = [punch EXCEPT ![i] = x] /\ UNCHANGED <<sheet, entry, leave, holiday>>
  BY <1>1 DEF CheckOut
<1>. QED BY <1>3, <1>4, PunchChanges

LEMMA MovePunchKeeps ==
  ASSUME RowsInv, NEW i \in DOMAIN punch, NEW st \in Statuses, MovePunch(i, st)
  PROVE  RowsInv'
<1>1. PICK x : x = [punch[i] EXCEPT !.status = st]
  OBVIOUS
<1>2. x \in PunchRow
  BY <1>1 DEF RowsInv, PunchRow
<1>3. punch' = [punch EXCEPT ![i] = x] /\ UNCHANGED <<sheet, entry, leave, holiday>>
  BY <1>1 DEF MovePunch
<1>. QED BY <1>2, <1>3, PunchChanges

LEMMA EntryPlaced ==
  ASSUME RowsInv, NEW i \in DOMAIN entry
  PROVE  /\ entry[i].owner \in Users /\ entry[i].week \in Weeks
         /\ entry[i].day \in Days /\ entry[i].hours \in Nat
         /\ <<entry[i].owner, entry[i].week>> \in Users \X Weeks
BY ReportsAssumption DEF RowsInv

LEMMA EnterHoursKeeps ==
  ASSUME RowsInv, NEW i \in Ids, NEW n \in Entries, EnterHours(i, n)
  PROVE  RowsInv'
<1>1. PICK k : k = <<n.owner, n.week>>
  OBVIOUS
<1>2. k \in Users \X Weeks
  BY <1>1, ReportsAssumption
<1>3. /\ entry' = Added(entry, i, n) /\ i \notin DOMAIN entry
      /\ sheet' = [sheet EXCEPT ![k] = "DRAFT"]
      /\ UNCHANGED <<punch, leave, holiday>>
  BY <1>1 DEF EnterHours
<1>4. /\ DOMAIN entry' = DOMAIN entry \cup {i} /\ IsFiniteSet(DOMAIN entry')
      /\ entry'[i] = n /\ \A j \in DOMAIN entry : entry'[j] = entry[j]
  <2>1. PICK t : t = entry
    OBVIOUS
  <2>2. IsFiniteSet(DOMAIN t) /\ i \notin DOMAIN t
    BY <1>3, <2>1 DEF RowsInv
  <2>3. PICK r : r = Added(t, i, n)
    OBVIOUS
  <2>4. /\ DOMAIN r = DOMAIN t \cup {i} /\ r[i] = n
        /\ \A j \in DOMAIN t : r[j] = t[j]
    BY <2>2, <2>3 DEF Added
  <2>5. IsFiniteSet(DOMAIN t \cup {i})
    BY <2>2, FS_AddElement
  <2>. QED BY <1>3, <2>1, <2>3, <2>4, <2>5
<1>5. "DRAFT" \in Statuses
  BY DEF Statuses
<1>6. /\ sheet' \in [Users \X Weeks -> Statuses \cup {"NONE"}]
      /\ IsFiniteSet(Begun')
      /\ sheet'[k] # "NONE"
      /\ \A j \in Users \X Weeks : sheet[j] # "NONE" => sheet'[j] # "NONE"
  BY <1>2, <1>3, <1>5, SheetMoves
<1>7. ASSUME NEW j \in DOMAIN entry'
      PROVE  entry'[j] \in Entries /\ sheet'[<<entry'[j].owner, entry'[j].week>>] # "NONE"
  <2>1. CASE j = i
    BY <1>1, <1>4, <1>6, <2>1
  <2>2. CASE j # i
    <3>1. j \in DOMAIN entry /\ entry'[j] = entry[j]
      BY <1>4, <1>7, <2>2
    <3>2. entry[j] \in Entries /\ sheet[<<entry[j].owner, entry[j].week>>] # "NONE"
      BY <3>1 DEF RowsInv
    <3>3. <<entry[j].owner, entry[j].week>> \in Users \X Weeks
      BY <3>1, EntryPlaced
    <3>. QED BY <1>6, <3>1, <3>2, <3>3
  <2>. QED BY <2>1, <2>2
<1>. QED BY <1>3, <1>4, <1>6, <1>7 DEF RowsInv

LEMMA MoveSheetKeeps ==
  ASSUME RowsInv, NEW o \in Users, NEW w \in Weeks, NEW st \in Statuses, MoveSheet(o, w, st)
  PROVE  RowsInv'
<1>1. PICK k : k = <<o, w>>
  OBVIOUS
<1>2. sheet' = [sheet EXCEPT ![k] = st] /\ UNCHANGED <<punch, entry, leave, holiday>>
  BY <1>1 DEF MoveSheet
<1>3. /\ sheet' \in [Users \X Weeks -> Statuses \cup {"NONE"}]
      /\ IsFiniteSet(Begun')
      /\ \A j \in Users \X Weeks : sheet[j] # "NONE" => sheet'[j] # "NONE"
  BY <1>1, <1>2, SheetMoves
<1>4. \A j \in DOMAIN entry' :
        entry'[j] \in Entries /\ sheet'[<<entry'[j].owner, entry'[j].week>>] # "NONE"
  BY <1>2, <1>3, EntryPlaced DEF RowsInv
<1>. QED BY <1>2, <1>3, <1>4 DEF RowsInv

LEMMA RowsStep ==
  ASSUME RowsInv, [ReportsNext]_<<orgVars, repVars>>
  PROVE  RowsInv'
<1>1. CASE UNCHANGED <<orgVars, repVars>>
  BY <1>1 DEF repVars, RowsInv, Begun
<1>2. ASSUME NEW l \in Leaves, ApproveLeave(l) PROVE RowsInv'
  <2>1. IsFiniteSet(leave \cup {l})
    BY FS_AddElement DEF RowsInv
  <2>. QED BY <1>2, <2>1 DEF ApproveLeave, RowsInv, Begun
<1>3. ASSUME NEW d \in Holidays, CreateHoliday(d) PROVE RowsInv'
  <2>1. IsFiniteSet(holiday \cup {d})
    BY FS_AddElement DEF RowsInv
  <2>. QED BY <1>3, <2>1 DEF CreateHoliday, RowsInv, Begun
<1>4. ASSUME NEW d \in holiday, DeleteHoliday(d) PROVE RowsInv'
  <2>1. IsFiniteSet(holiday \ {d})
    BY FS_RemoveElement DEF RowsInv
  <2>. QED BY <1>4, <2>1 DEF DeleteHoliday, RowsInv, Begun
<1>5. CASE ReportsNext
  BY <1>2, <1>3, <1>4, <1>5, CheckInKeeps, CheckOutKeeps, MovePunchKeeps, EnterHoursKeeps,
     MoveSheetKeeps DEF ReportsNext
<1>. QED BY <1>1, <1>5

LEMMA RowsAlways == ReportsSpec => []RowsInv
BY RowsBegin, RowsStep, PTL DEF ReportsSpec

---------------------------------------------------------------------------
(* Columns and groups of rows.                                             *)

\* A column that has these values on these rows.
LEMMA ColumnTotal ==
  ASSUME NEW g, NEW f, NEW S, IsFiniteSet(S), DOMAIN g = S, \A k \in S : g[k] = f[k]
  PROVE  Total(g) = SumIn(f, S)
<1>1. Total(g) = SumIn(g, S)
  BY DEF Total, SumIn
<1>. QED BY <1>1, SumCongruence

LEMMA FieldTotal ==
  ASSUME NEW rows, NEW fd, NEW f, IsFiniteSet(DOMAIN rows),
         \A k \in DOMAIN rows : rows[k][fd] = f[k]
  PROVE  Field(rows, fd) = SumIn(f, DOMAIN rows)
<1>1. PICK g : g = [k \in DOMAIN rows |-> rows[k][fd]]
  OBVIOUS
<1>2. Total(g) = SumIn(f, DOMAIN rows)
  BY <1>1, ColumnTotal
<1>. QED BY <1>1, <1>2 DEF Field

\* The values of a column, and the rows that have each.
Keys(key, S) == {key[i] : i \in S}

GroupsBy(key, S) == [k \in Keys(key, S) |-> {i \in S : key[i] = k}]

LEMMA GroupsFinite ==
  ASSUME NEW key, NEW S, IsFiniteSet(S)
  PROVE  /\ IsFiniteSet(Keys(key, S)) /\ Cardinality(Keys(key, S)) <= Cardinality(S)
         /\ \A k \in Keys(key, S) : IsFiniteSet(GroupsBy(key, S)[k])
<1>1. PICK g : g = [i \in S |-> key[i]]
  OBVIOUS
<1>2. g \in Surjection(S, Keys(key, S))
  BY <1>1 DEF Surjection, Keys
<1>3. IsFiniteSet(Keys(key, S)) /\ Cardinality(Keys(key, S)) <= Cardinality(S)
  BY <1>2, FS_Surjection
<1>4. ASSUME NEW k \in Keys(key, S) PROVE IsFiniteSet(GroupsBy(key, S)[k])
  <2>1. PICK T : T = GroupsBy(key, S)[k]
    OBVIOUS
  <2>2. T \in SUBSET S
    BY <2>1 DEF GroupsBy
  <2>3. IsFiniteSet(T)
    BY <2>2, FS_Subset
  <2>. QED BY <2>1, <2>3
<1>. QED BY <1>3, <1>4

\* Grouping rows by a column loses nothing and counts nothing twice.
LEMMA SumByKey ==
  ASSUME NEW f, NEW key, NEW S, IsFiniteSet(S), \A i \in S : f[i] \in Nat,
         NEW part, \A k \in Keys(key, S) : part[k] = SumIn(f, GroupsBy(key, S)[k])
  PROVE  SumIn(part, Keys(key, S)) = SumIn(f, S)
<1>1. PICK K, rows : K = Keys(key, S) /\ rows = GroupsBy(key, S)
  OBVIOUS
<1>2. \A k \in K : rows[k] = {i \in S : key[i] = k}
  BY <1>1 DEF GroupsBy
<1>3. IsFiniteSet(K)
  BY <1>1, GroupsFinite
<1>4. Parted(K, rows, S)
  <2>1. \A k \in K : IsFiniteSet(rows[k])
    BY <1>1, GroupsFinite
  <2>2. \A i : i \in S <=> \E k \in K : i \in rows[k]
    BY <1>1, <1>2 DEF Keys
  <2>. QED BY <1>2, <2>1, <2>2 DEF Parted
<1>5. \A k \in K : part[k] = SumIn(f, rows[k])
  BY <1>1
<1>6. SumIn(part, K) = SumIn(f, S)
  BY <1>3, <1>4, <1>5, SumOfGroups
<1>. QED BY <1>1, <1>6

LEMMA CountByKey ==
  ASSUME NEW key, NEW S, IsFiniteSet(S),
         NEW part, \A k \in Keys(key, S) : part[k] = Cardinality(GroupsBy(key, S)[k])
  PROVE  SumIn(part, Keys(key, S)) = Cardinality(S)
<1>1. PICK f : f = [i \in S |-> 1]
  OBVIOUS
<1>2. \A i \in S : f[i] \in Nat /\ f[i] = 1
  BY <1>1
<1>3. ASSUME NEW k \in Keys(key, S) PROVE part[k] = SumIn(f, GroupsBy(key, S)[k])
  <2>1. PICK T : T = GroupsBy(key, S)[k]
    OBVIOUS
  <2>2. IsFiniteSet(T) /\ T \subseteq S
    BY <2>1, GroupsFinite DEF GroupsBy
  <2>3. SumIn(f, T) = Cardinality(T)
    BY <1>2, <2>2, SumOfOnes
  <2>. QED BY <2>1, <2>3
<1>4. SumIn(part, Keys(key, S)) = SumIn(f, S)
  BY <1>2, <1>3, SumByKey
<1>5. SumIn(f, S) = Cardinality(S)
  BY <1>2, SumOfOnes
<1>. QED BY <1>4, <1>5

---------------------------------------------------------------------------
(* The reports on punches.                                                 *)

MinutesOf == [i \in DOMAIN punch |-> punch[i].minutes]

OwnerOf == [i \in DOMAIN punch |-> punch[i].of.owner]

SiteOf == [i \in DOMAIN punch |-> punch[i].of.site]

LEMMA PunchTyped ==
  ASSUME RowsInv, NEW i \in DOMAIN punch
  PROVE  /\ punch[i].of.owner \in Users /\ punch[i].of.day \in Days
         /\ punch[i].minutes \in Nat /\ punch[i].status \in Statuses
         /\ MinutesOf[i] = punch[i].minutes
         /\ OwnerOf[i] = punch[i].of.owner /\ SiteOf[i] = punch[i].of.site
<1>1. punch[i] \in PunchRow
  BY DEF RowsInv
<1>2. punch[i].of \in CheckIns /\ punch[i].minutes \in Nat /\ punch[i].status \in Statuses
  BY <1>1 DEF PunchRow
<1>. QED BY <1>2, ReportsAssumption DEF MinutesOf, OwnerOf, SiteOf

LEMMA MinutesAdd ==
  ASSUME RowsInv, NEW is, is \subseteq DOMAIN punch
  PROVE  /\ IsFiniteSet(is) /\ \A i \in is : MinutesOf[i] \in Nat
         /\ Minutes(is) = SumIn(MinutesOf, is)
         /\ Minutes(is) \in Nat
<1>1. IsFiniteSet(is)
  BY FS_Subset DEF RowsInv
<1>2. \A i \in is : MinutesOf[i] = punch[i].minutes /\ MinutesOf[i] \in Nat
  BY PunchTyped
<1>3. PICK g : g = [i \in is |-> punch[i].minutes]
  OBVIOUS
<1>4. PICK f : f = MinutesOf
  OBVIOUS
<1>5. Total(g) = SumIn(f, is)
  BY <1>1, <1>2, <1>3, <1>4, ColumnTotal
<1>6. SumIn(f, is) \in Nat
  BY <1>1, <1>2, <1>4, SumType
<1>7. Minutes(is) = Total(g)
  BY <1>3 DEF Minutes
<1>. QED BY <1>1, <1>2, <1>4, <1>5, <1>6, <1>7

\* A report of punches grouped by a column has all the minutes and all the punches,
\* and its hours are the minutes up to what each row loses.
LEMMA GroupedReport ==
  ASSUME RowsInv, NEW is, is \subseteq DOMAIN punch, NEW key,
         NEW R, DOMAIN R = Keys(key, is),
         \A k \in Keys(key, is) : R[k] = Grouped(GroupsBy(key, is)[k])
  PROVE  /\ IsFiniteSet(DOMAIN R)
         /\ Cardinality(DOMAIN R) \in Nat /\ Cardinality(DOMAIN R) <= Cardinality(is)
         /\ Field(R, "minutes") = Minutes(is)
         /\ Field(R, "punches") = Cardinality(is)
         /\ Field(R, "hours") \in Nat
         /\ 3 * Field(R, "hours") <= 5 * Minutes(is) + Cardinality(DOMAIN R)
         /\ 5 * Minutes(is) <= 3 * Field(R, "hours") + Cardinality(DOMAIN R)
<1>1. IsFiniteSet(is) /\ Minutes(is) = SumIn(MinutesOf, is) /\ \A i \in is : MinutesOf[i] \in Nat
  BY MinutesAdd
<1>2. PICK K, f : K = Keys(key, is) /\ f = MinutesOf
  OBVIOUS
<1>3. IsFiniteSet(K) /\ Cardinality(K) <= Cardinality(is) /\ Cardinality(K) \in Nat
  BY <1>1, <1>2, GroupsFinite, FS_CardinalityType
<1>4. ASSUME NEW k \in K
      PROVE  GroupsBy(key, is)[k] \subseteq is
  BY <1>2 DEF GroupsBy
<1>5. PICK m, r, c : /\ m = [k \in K |-> R[k].minutes] /\ r = [k \in K |-> R[k].hours]
                     /\ c = [k \in K |-> R[k].punches]
  OBVIOUS
<1>6. ASSUME NEW k \in K
      PROVE  /\ m[k] = SumIn(f, GroupsBy(key, is)[k]) /\ m[k] \in Nat
             /\ c[k] = Cardinality(GroupsBy(key, is)[k])
             /\ r[k] = Rounded(m[k])
  <2>1. PICK T : T = GroupsBy(key, is)[k]
    OBVIOUS
  <2>2. T \subseteq DOMAIN punch
    BY <1>4, <2>1
  <2>3. Minutes(T) = SumIn(f, T) /\ Minutes(T) \in Nat
    BY <1>2, <2>2, MinutesAdd
  <2>4. R[k] = Grouped(T)
    BY <1>2, <2>1
  <2>5. R[k].minutes = Minutes(T) /\ R[k].hours = Rounded(Minutes(T)) /\ R[k].punches = Cardinality(T)
    BY <2>4 DEF Grouped
  <2>. QED BY <1>5, <2>1, <2>3, <2>5
<1>7. SumIn(m, K) = SumIn(f, is)
  BY <1>1, <1>2, <1>6, SumByKey
<1>8. SumIn(c, K) = Cardinality(is)
  BY <1>1, <1>2, <1>6, CountByKey
<1>9. /\ Field(R, "minutes") = SumIn(m, K) /\ Field(R, "hours") = SumIn(r, K)
      /\ Field(R, "punches") = SumIn(c, K)
  <2>1. DOMAIN R = K
    BY <1>2
  <2>2. \A k \in K : R[k]["minutes"] = m[k] /\ R[k]["hours"] = r[k] /\ R[k]["punches"] = c[k]
    BY <1>5
  <2>. QED BY <1>3, <2>1, <2>2, FieldTotal
<1>10. /\ SumIn(r, K) \in Nat
       /\ 3 * SumIn(r, K) <= 5 * SumIn(m, K) + Cardinality(K)
       /\ 5 * SumIn(m, K) <= 3 * SumIn(r, K) + Cardinality(K)
  BY <1>3, <1>6, RoundedSums
<1>. QED BY <1>1, <1>2, <1>3, <1>7, <1>8, <1>9, <1>10

\* Which is how the reports by employee and by site are made.
LEMMA EmployeesAndSites ==
  ASSUME RowsInv, NEW v, NEW f, NEW is, is = Punches(v, f)
  PROVE  /\ is \subseteq DOMAIN punch
         /\ Owners(is) = Keys(OwnerOf, is)
         /\ \A o \in Owners(is) : {i \in is : punch[i].of.owner = o} = GroupsBy(OwnerOf, is)[o]
         /\ DOMAIN HoursByEmployee(v, f) = Keys(OwnerOf, is)
         /\ \A o \in Keys(OwnerOf, is) :
              HoursByEmployee(v, f)[o] = Grouped(GroupsBy(OwnerOf, is)[o])
         /\ DOMAIN HoursBySite(v, f) = Keys(SiteOf, is)
         /\ \A s \in Keys(SiteOf, is) : HoursBySite(v, f)[s] = Grouped(GroupsBy(SiteOf, is)[s])
<1>1. is \subseteq DOMAIN punch
  BY DEF Punches
<1>2. \A i \in is : OwnerOf[i] = punch[i].of.owner /\ SiteOf[i] = punch[i].of.site
  BY <1>1 DEF OwnerOf, SiteOf
<1>3. Owners(is) = Keys(OwnerOf, is) /\ {punch[i].of.site : i \in is} = Keys(SiteOf, is)
  BY <1>2 DEF Owners, Keys
<1>4. \A o \in Owners(is) : {i \in is : punch[i].of.owner = o} = GroupsBy(OwnerOf, is)[o]
  BY <1>2, <1>3 DEF GroupsBy
<1>5. \A s \in Keys(SiteOf, is) : {i \in is : punch[i].of.site = s} = GroupsBy(SiteOf, is)[s]
  BY <1>2 DEF GroupsBy
<1>6. HoursByEmployee(v, f) = [o \in Owners(is) |-> Grouped({i \in is : punch[i].of.owner = o})]
  BY DEF HoursByEmployee
<1>7. HoursBySite(v, f) =
        [s \in {punch[i].of.site : i \in is} |-> Grouped({i \in is : punch[i].of.site = s})]
  BY DEF HoursBySite
<1>8. \A o \in Owners(is) : HoursByEmployee(v, f)[o] = Grouped(GroupsBy(OwnerOf, is)[o])
  BY <1>4, <1>6
<1>9. \A s \in Keys(SiteOf, is) : HoursBySite(v, f)[s] = Grouped(GroupsBy(SiteOf, is)[s])
  BY <1>3, <1>5, <1>7
<1>. QED BY <1>1, <1>3, <1>4, <1>6, <1>7, <1>8, <1>9

---------------------------------------------------------------------------
(* Payroll.                                                                *)

\* The approved punches of an employee on a day.
ApprovedOn(o, d) ==
  {i \in DOMAIN punch :
     punch[i].of.owner = o /\ punch[i].of.day = d /\ punch[i].status = "APPROVED"}

\* What a day adds to the row of an employee.
DayColumn(o) == [d \in Int |-> DayMinutes(o, d)]

NormalColumn(o) == [d \in Int |-> LeastOf(DayMinutes(o, d), 60 * TriggerHours)]

OverColumn(o) == [d \in Int |-> DayMinutes(o, d) - LeastOf(DayMinutes(o, d), 60 * TriggerHours)]

WorkedColumn(o) == [d \in Int |-> IF DayMinutes(o, d) > 0 THEN 1 ELSE 0]

LEMMA DayAdds ==
  ASSUME RowsInv, NEW o, NEW d \in Int
  PROVE  /\ DayMinutes(o, d) \in Nat /\ DayMinutes(o, d) = Minutes(ApprovedOn(o, d))
         /\ DayColumn(o)[d] = DayMinutes(o, d)
         /\ NormalColumn(o)[d] \in Nat /\ OverColumn(o)[d] \in Nat /\ WorkedColumn(o)[d] \in Nat
         /\ DayColumn(o)[d] = NormalColumn(o)[d] + OverColumn(o)[d]
         /\ DayMinutes(o, d) = 0 => /\ NormalColumn(o)[d] = 0 /\ OverColumn(o)[d] = 0
                                    /\ WorkedColumn(o)[d] = 0
<1>1. DayMinutes(o, d) = Minutes(ApprovedOn(o, d))
  BY DEF DayMinutes, ApprovedOn
<1>2. PICK is : is = ApprovedOn(o, d)
  OBVIOUS
<1>3. is \subseteq DOMAIN punch
  BY <1>2 DEF ApprovedOn
<1>4. DayMinutes(o, d) \in Nat
  BY <1>1, <1>2, <1>3, MinutesAdd
<1>5. 60 * TriggerHours \in Nat
  BY ReportsAssumption
<1>6. PICK m, t : m = DayMinutes(o, d) /\ t = 60 * TriggerHours
  OBVIOUS
<1>7. /\ LeastOf(m, t) \in Nat /\ m - LeastOf(m, t) \in Nat
      /\ m = LeastOf(m, t) + (m - LeastOf(m, t))
      /\ m = 0 => LeastOf(m, t) = 0 /\ m - LeastOf(m, t) = 0
  BY <1>4, <1>5, <1>6 DEF LeastOf
<1>8. /\ DayColumn(o)[d] = m /\ NormalColumn(o)[d] = LeastOf(m, t)
      /\ OverColumn(o)[d] = m - LeastOf(m, t)
      /\ WorkedColumn(o)[d] = IF m > 0 THEN 1 ELSE 0
  BY <1>6 DEF DayColumn, NormalColumn, OverColumn, WorkedColumn
<1>. QED BY <1>1, <1>4, <1>6, <1>7, <1>8

\* The row of an employee is made of his days, those without an hour adding nothing.
LEMMA RowOfDays ==
  ASSUME RowsInv, NEW o, NEW from \in Int, NEW to \in Int
  PROVE  /\ PayrollRow(o, from, to).normal = SumIn(NormalColumn(o), from..to)
         /\ PayrollRow(o, from, to).overtime = SumIn(OverColumn(o), from..to)
         /\ PayrollRow(o, from, to).workedDays = SumIn(WorkedColumn(o), from..to)
<1>1. PICK S, T, R : /\ S = from..to /\ T = {d \in from..to : DayMinutes(o, d) > 0}
                     /\ R = S \ T
  OBVIOUS
<1>2. IsFiniteSet(S) /\ S \subseteq Int /\ T \subseteq S
  BY <1>1, FS_Interval
<1>3. IsFiniteSet(T) /\ IsFiniteSet(R) /\ T \cup R = S /\ T \cap R = {}
  BY <1>1, <1>2, FS_Subset
<1>4. \A d \in R : DayMinutes(o, d) = 0
  <2>1. ASSUME NEW d \in R PROVE DayMinutes(o, d) = 0
    <3>1. d \in Int /\ ~(DayMinutes(o, d) > 0)
      BY <1>1, <1>2
    <3>2. DayMinutes(o, d) \in Nat
      BY <3>1, DayAdds
    <3>. QED BY <3>1, <3>2
  <2>. QED BY <2>1
<1>5. PICK a, n, v, w : /\ a = DayColumn(o) /\ n = NormalColumn(o)
                        /\ v = OverColumn(o) /\ w = WorkedColumn(o)
  OBVIOUS
<1>6. \A d \in S : /\ n[d] \in Nat /\ v[d] \in Nat /\ w[d] \in Nat
                   /\ a[d] = DayMinutes(o, d) /\ a[d] = n[d] + v[d]
  BY <1>2, <1>5, DayAdds
<1>7. \A d \in R : n[d] = 0 /\ v[d] = 0 /\ w[d] = 0
  BY <1>1, <1>2, <1>4, <1>5, DayAdds
<1>8. SumIn(n, R) = 0 /\ SumIn(v, R) = 0 /\ SumIn(w, R) = 0
  BY <1>3, <1>7, SumOfZeros
<1>9. /\ SumIn(n, S) = SumIn(n, T) + SumIn(n, R)
      /\ SumIn(v, S) = SumIn(v, T) + SumIn(v, R)
      /\ SumIn(w, S) = SumIn(w, T) + SumIn(w, R)
  BY <1>1, <1>2, <1>6, SumOfLess
<1>10. SumIn(n, T) \in Nat /\ SumIn(v, T) \in Nat /\ SumIn(w, T) \in Nat
  BY <1>2, <1>3, <1>6, SumType
<1>11. SumIn(a, T) = SumIn(n, T) + SumIn(v, T)
  <2>1. \A d \in T : n[d] \in Nat /\ v[d] \in Nat /\ a[d] = n[d] + v[d]
    BY <1>2, <1>6
  <2>. QED BY <1>3, <2>1, SumOfBoth
<1>12. Total([d \in T |-> DayMinutes(o, d)]) = SumIn(a, T)
  <2>1. PICK g : g = [d \in T |-> DayMinutes(o, d)]
    OBVIOUS
  <2>2. DOMAIN g = T /\ \A d \in T : g[d] = a[d]
    BY <1>2, <1>6, <2>1
  <2>3. Total(g) = SumIn(a, T)
    BY <1>3, <2>2, ColumnTotal
  <2>. QED BY <2>1, <2>3
<1>13. Overtime(o, T) = SumIn(v, T)
  <2>1. PICK g : g = [d \in T |-> DayMinutes(o, d) - LeastOf(DayMinutes(o, d), 60 * TriggerHours)]
    OBVIOUS
  <2>2. DOMAIN g = T /\ \A d \in T : g[d] = v[d]
    BY <1>2, <1>5, <2>1 DEF OverColumn
  <2>3. Total(g) = SumIn(v, T)
    BY <1>3, <2>2, ColumnTotal
  <2>. QED BY <2>1, <2>3 DEF Overtime
<1>14. SumIn(w, T) = Cardinality(T)
  <2>1. \A d \in T : w[d] = 1
    BY <1>1, <1>2, <1>5 DEF WorkedColumn
  <2>. QED BY <1>3, <2>1, SumOfOnes
<1>15. /\ PayrollRow(o, from, to).workedDays = Cardinality(T)
       /\ PayrollRow(o, from, to).normal =
            Total([d \in T |-> DayMinutes(o, d)]) - Overtime(o, T)
       /\ PayrollRow(o, from, to).overtime = Overtime(o, T)
  <2>1. /\ PayrollRow(o, from, to).workedDays = Cardinality({d \in from..to : DayMinutes(o, d) > 0})
        /\ PayrollRow(o, from, to).overtime = Overtime(o, {d \in from..to : DayMinutes(o, d) > 0})
        /\ PayrollRow(o, from, to).normal =
             Total([d \in {d \in from..to : DayMinutes(o, d) > 0} |-> DayMinutes(o, d)])
               - Overtime(o, {d \in from..to : DayMinutes(o, d) > 0})
    BY DEF PayrollRow
  <2>. QED BY <1>1, <2>1
<1>. QED BY <1>1, <1>5, <1>8, <1>9, <1>10, <1>11, <1>12, <1>13, <1>14, <1>15

LEMMA ApprovedRows ==
  ASSUME NEW v, NEW from, NEW to
  PROVE  \A i : i \in Punches(v, Approved(from, to)) <=>
                  /\ i \in DOMAIN punch /\ punch[i].of.owner \in ManagedUsers(v)
                  /\ punch[i].of.day \in from..to /\ punch[i].status = "APPROVED"
<1>1. PICK f : f = Approved(from, to)
  OBVIOUS
<1>2. /\ f.from = from /\ f.to = to /\ f.who = NoUser
      /\ f.site = NoSite /\ f.status = "APPROVED"
  BY <1>1 DEF Approved, Period
<1>3. Selected(v, f.who) = ManagedUsers(v)
  BY <1>2 DEF Selected
<1>4. \A i : i \in Punches(v, f) <=>
               /\ i \in DOMAIN punch /\ punch[i].of.owner \in ManagedUsers(v)
               /\ punch[i].of.day \in from..to /\ punch[i].status = "APPROVED"
  BY <1>2, <1>3 DEF Punches
<1>. QED BY <1>1, <1>4

LEMMA PayrollMade ==
  ASSUME NEW v, NEW from, NEW to
  PROVE  /\ DOMAIN Payroll(v, from, to).rows = Owners(Punches(v, Approved(from, to)))
         /\ \A o \in Owners(Punches(v, Approved(from, to))) :
              Payroll(v, from, to).rows[o] = PayrollRow(o, from, to)
BY DEF Payroll

LEMMA HolidaysPaid ==
  ASSUME NEW v, NEW from, NEW to
  PROVE  Payroll(v, from, to).publicHolidays =
           Cardinality({d \in HolidaysIn(from, to) : d.day \notin Weekend})
BY DEF Payroll

\* An employee of the reader who is not in the payroll of a period has no hours in it:
\* whoever he is, his fields are what his days add up to.
LEMMA PayOfEmployee ==
  ASSUME RowsInv, NEW v, NEW from \in Int, NEW to \in Int, NEW o \in ManagedUsers(v)
  PROVE  /\ PayField(Payroll(v, from, to).rows, o, "normal") = SumIn(NormalColumn(o), from..to)
         /\ PayField(Payroll(v, from, to).rows, o, "overtime") = SumIn(OverColumn(o), from..to)
         /\ PayField(Payroll(v, from, to).rows, o, "workedDays") = SumIn(WorkedColumn(o), from..to)
<1>1. PICK is : is = Punches(v, Approved(from, to))
  OBVIOUS
<1>2. CASE o \in Owners(is)
  <2>1. /\ o \in DOMAIN Payroll(v, from, to).rows
        /\ Payroll(v, from, to).rows[o] = PayrollRow(o, from, to)
    <3>1. o \in Owners(Punches(v, Approved(from, to)))
      BY <1>1, <1>2
    <3>. QED BY <3>1, PayrollMade
  <2>2. PICK rows, row : rows = Payroll(v, from, to).rows /\ row = PayrollRow(o, from, to)
    OBVIOUS
  <2>3. /\ row.normal = SumIn(NormalColumn(o), from..to)
        /\ row.overtime = SumIn(OverColumn(o), from..to)
        /\ row.workedDays = SumIn(WorkedColumn(o), from..to)
    BY <2>2, RowOfDays
  <2>. QED BY <2>1, <2>2, <2>3 DEF PayField
<1>3. CASE o \notin Owners(is)
  <2>1. o \notin DOMAIN Payroll(v, from, to).rows
    BY <1>1, <1>3, PayrollMade
  <2>2. ASSUME NEW d \in from..to
        PROVE  /\ NormalColumn(o)[d] = 0 /\ OverColumn(o)[d] = 0 /\ WorkedColumn(o)[d] = 0
    <3>1. ApprovedOn(o, d) = {}
      <4>1. ASSUME NEW i \in ApprovedOn(o, d) PROVE i \in is /\ punch[i].of.owner = o
        BY <1>1, <2>2, ApprovedRows DEF ApprovedOn
      <4>. QED BY <1>3, <4>1 DEF Owners
    <3>2. Minutes({}) = 0
      BY MinutesAdd, SumOfNone
    <3>3. d \in Int
      OBVIOUS
    <3>4. DayMinutes(o, d) = 0
      BY <3>1, <3>2, <3>3, DayAdds
    <3>. QED BY <3>3, <3>4, DayAdds
  <2>3. IsFiniteSet(from..to)
    BY FS_Interval
  <2>4. /\ SumIn(NormalColumn(o), from..to) = 0 /\ SumIn(OverColumn(o), from..to) = 0
        /\ SumIn(WorkedColumn(o), from..to) = 0
    BY <2>2, <2>3, SumOfZeros
  <2>. QED BY <2>1, <2>4 DEF PayField
<1>. QED BY <1>2, <1>3

LEMMA NoPayOfOthers ==
  ASSUME NEW v, NEW from, NEW to, NEW o, o \notin ManagedUsers(v), NEW fd
  PROVE  PayField(Payroll(v, from, to).rows, o, fd) = 0
<1>1. o \notin Owners(Punches(v, Approved(from, to)))
  BY ApprovedRows DEF Owners
<1>. QED BY <1>1, PayrollMade DEF PayField

\* A period that is cut.
LEMMA PeriodsJoin ==
  ASSUME NEW from \in Int, NEW to \in Int, NEW cut \in from..(to - 1)
  PROVE  /\ cut \in Int /\ (from..cut) \cup ((cut + 1)..to) = from..to
         /\ (from..cut) \cap ((cut + 1)..to) = {}
OBVIOUS

LEMMA CutColumn ==
  ASSUME NEW f, NEW from \in Int, NEW to \in Int, NEW cut \in from..(to - 1),
         \A d \in Int : f[d] \in Nat
  PROVE  SumIn(f, from..to) = SumIn(f, from..cut) + SumIn(f, (cut + 1)..to)
<1>1. PICK S, T : S = from..cut /\ T = (cut + 1)..to
  OBVIOUS
<1>2. S \cup T = from..to /\ S \cap T = {} /\ IsFiniteSet(S) /\ IsFiniteSet(T)
  <2>1. cut \in Int /\ cut + 1 \in Int
    OBVIOUS
  <2>. QED BY <1>1, <2>1, PeriodsJoin, FS_Interval
<1>3. \A d \in S \cup T : f[d] \in Nat
  BY <1>1
<1>4. SumIn(f, S \cup T) = SumIn(f, S) + SumIn(f, T)
  BY <1>2, <1>3, SumOfParts
<1>. QED BY <1>1, <1>2, <1>4

\* Wherever the period is cut, a field of the payroll is that of its two parts.
LEMMA PayIsCut ==
  ASSUME RowsInv, NEW v, NEW from \in Int, NEW to \in Int, NEW cut \in from..(to - 1),
         NEW o, NEW fd \in {"workedDays", "normal", "overtime"}
  PROVE  PayField(Payroll(v, from, to).rows, o, fd) =
           PayField(Payroll(v, from, cut).rows, o, fd)
             + PayField(Payroll(v, cut + 1, to).rows, o, fd)
<1>1. CASE o \notin ManagedUsers(v)
  BY <1>1, NoPayOfOthers
<1>2. CASE o \in ManagedUsers(v)
  <2>1. PICK n, w, k : n = NormalColumn(o) /\ w = OverColumn(o) /\ k = WorkedColumn(o)
    OBVIOUS
  <2>2. \A d \in Int : n[d] \in Nat /\ w[d] \in Nat /\ k[d] \in Nat
    BY <2>1, DayAdds
  <2>3. cut \in Int /\ cut + 1 \in Int
    OBVIOUS
  <2>4. /\ SumIn(n, from..to) = SumIn(n, from..cut) + SumIn(n, (cut + 1)..to)
        /\ SumIn(w, from..to) = SumIn(w, from..cut) + SumIn(w, (cut + 1)..to)
        /\ SumIn(k, from..to) = SumIn(k, from..cut) + SumIn(k, (cut + 1)..to)
    BY <2>2, CutColumn
  <2>5. CASE fd = "normal"
    BY <1>2, <2>1, <2>3, <2>4, <2>5, PayOfEmployee
  <2>6. CASE fd = "overtime"
    BY <1>2, <2>1, <2>3, <2>4, <2>6, PayOfEmployee
  <2>7. CASE fd = "workedDays"
    BY <1>2, <2>1, <2>3, <2>4, <2>7, PayOfEmployee
  <2>. QED BY <2>5, <2>6, <2>7
<1>. QED BY <1>1, <1>2

LEMMA HolidaysAreCut ==
  ASSUME RowsInv, NEW v, NEW from \in Int, NEW to \in Int, NEW cut \in from..(to - 1)
  PROVE  Payroll(v, from, to).publicHolidays =
           Payroll(v, from, cut).publicHolidays + Payroll(v, cut + 1, to).publicHolidays
<1> DEFINE Off(a, b) == {d \in HolidaysIn(a, b) : d.day \notin Weekend}
<1>1. PICK S, T, U : S = Off(from, cut) /\ T = Off(cut + 1, to) /\ U = Off(from, to)
  OBVIOUS
<1>2. U = S \cup T /\ S \cap T = {}
  BY <1>1, PeriodsJoin DEF HolidaysIn
<1>3. S \in SUBSET holiday /\ T \in SUBSET holiday
  BY <1>1 DEF HolidaysIn
<1>4. IsFiniteSet(S) /\ IsFiniteSet(T)
  BY <1>3, FS_Subset DEF RowsInv
<1>5. Cardinality(S \cup T) = Cardinality(S) + Cardinality(T)
  <2>1. PICK I : I = S \cap T
    OBVIOUS
  <2>2. Cardinality(S \cup T) = Cardinality(S) + Cardinality(T) - Cardinality(I)
    BY <1>4, <2>1, FS_Union
  <2>3. Cardinality(S) \in Nat /\ Cardinality(T) \in Nat /\ Cardinality(I) = 0
    BY <1>2, <1>4, <2>1, FS_CardinalityType, FS_EmptySet
  <2>. QED BY <2>2, <2>3
<1>6. /\ Payroll(v, from, to).publicHolidays = Cardinality(U)
      /\ Payroll(v, from, cut).publicHolidays = Cardinality(S)
      /\ Payroll(v, cut + 1, to).publicHolidays = Cardinality(T)
  BY <1>1, HolidaysPaid
<1>. QED BY <1>2, <1>5, <1>6

\* The days of an employee have the minutes of all his approved punches.
LEMMA PayOfPunches ==
  ASSUME RowsInv, NEW v, NEW from \in Int, NEW to \in Int, NEW is,
         is = Punches(v, Approved(from, to)), NEW o \in Owners(is)
  PROVE  /\ PayrollRow(o, from, to).normal \in Nat
         /\ PayrollRow(o, from, to).overtime \in Nat
         /\ Minutes(GroupsBy(OwnerOf, is)[o]) =
              PayrollRow(o, from, to).normal + PayrollRow(o, from, to).overtime
<1>1. PICK K, a, n, w : /\ K = from..to /\ a = DayColumn(o)
                        /\ n = NormalColumn(o) /\ w = OverColumn(o)
  OBVIOUS
<1>2. IsFiniteSet(K)
  BY <1>1, FS_Interval
<1>3. K \subseteq Int
  BY <1>1
<1>4. \A d \in K : n[d] \in Nat /\ w[d] \in Nat /\ a[d] = n[d] + w[d]
  BY <1>1, <1>3, DayAdds
<1>5. SumIn(a, K) = SumIn(n, K) + SumIn(w, K) /\ SumIn(n, K) \in Nat /\ SumIn(w, K) \in Nat
  <2>1. SumIn(a, K) = SumIn(n, K) + SumIn(w, K)
    BY <1>2, <1>4, SumOfBoth
  <2>2. SumIn(n, K) \in Nat /\ SumIn(w, K) \in Nat
    BY <1>2, <1>4, SumType
  <2>. QED BY <2>1, <2>2
<1>6. PICK T, rows, f : /\ T = GroupsBy(OwnerOf, is)[o] /\ f = MinutesOf
                        /\ rows = [d \in K |-> ApprovedOn(o, d)]
  OBVIOUS
<1>7. T = {i \in is : punch[i].of.owner = o} /\ T \subseteq DOMAIN punch
  BY <1>6, EmployeesAndSites
<1>8. ASSUME NEW i PROVE i \in T <=> \E d \in K : i \in rows[d]
  <2>1. PICK j \in is : punch[j].of.owner = o
    BY DEF Owners
  <2>2. o \in ManagedUsers(v)
    BY <2>1, ApprovedRows
  <2>3. i \in T <=> /\ i \in DOMAIN punch /\ punch[i].of.owner = o
                    /\ punch[i].of.day \in K /\ punch[i].status = "APPROVED"
    BY <1>1, <1>7, <2>2, ApprovedRows
  <2>4. (\E d \in K : i \in rows[d]) <=>
          /\ i \in DOMAIN punch /\ punch[i].of.owner = o
          /\ punch[i].of.day \in K /\ punch[i].status = "APPROVED"
    BY <1>6 DEF ApprovedOn
  <2>. QED BY <2>3, <2>4
<1>9. ASSUME NEW d \in K
      PROVE  /\ IsFiniteSet(rows[d]) /\ \A i \in rows[d] : f[i] \in Nat
             /\ a[d] = SumIn(f, rows[d])
  <2>1. PICK R : R = ApprovedOn(o, d)
    OBVIOUS
  <2>2. R \subseteq DOMAIN punch
    BY <2>1 DEF ApprovedOn
  <2>3. a[d] = Minutes(R)
    BY <1>1, <1>3, <2>1, DayAdds
  <2>. QED BY <1>6, <2>1, <2>2, <2>3, MinutesAdd
<1>10. Parted(K, rows, T)
  <2>1. \A d \in K : \A e \in K \ {d} : rows[e] \cap rows[d] = {}
    BY <1>6 DEF ApprovedOn
  <2>. QED BY <1>8, <1>9, <2>1 DEF Parted
<1>11. SumIn(a, K) = SumIn(f, T)
  <2>1. \A i \in T : f[i] \in Nat
    BY <1>8, <1>9
  <2>2. \A d \in K : a[d] = SumIn(f, rows[d])
    BY <1>9
  <2>. QED BY <1>2, <1>10, <2>1, <2>2, SumOfGroups
<1>12. Minutes(T) = SumIn(f, T)
  BY <1>6, <1>7, MinutesAdd
<1>13. PICK row : row = PayrollRow(o, from, to)
  OBVIOUS
<1>14. row.normal = SumIn(n, K) /\ row.overtime = SumIn(w, K)
  BY <1>1, <1>13, RowOfDays
<1>. QED BY <1>5, <1>6, <1>11, <1>12, <1>13, <1>14

\* No minute of an approved punch is lost or paid twice, and the hours of the
\* summary are those minutes up to what its rows lose.
LEMMA PayOfPeriod ==
  ASSUME RowsInv, NEW v, NEW from \in Int, NEW to \in Int, NEW is,
         is = Punches(v, Approved(from, to)), NEW pay, pay = Payroll(v, from, to)
  PROVE  /\ Field(pay.rows, "normal") \in Nat /\ Field(pay.rows, "overtime") \in Nat
         /\ Field(pay.rows, "normal") + Field(pay.rows, "overtime") = Minutes(is)
         /\ PayrollSummary(pay).employees \in Nat
         /\ PayrollSummary(pay).normal \in Nat /\ PayrollSummary(pay).overtime \in Nat
         /\ 3 * (PayrollSummary(pay).normal + PayrollSummary(pay).overtime)
              <= 5 * Minutes(is) + 2 * PayrollSummary(pay).employees
         /\ 5 * Minutes(is)
              <= 3 * (PayrollSummary(pay).normal + PayrollSummary(pay).overtime)
                   + 2 * PayrollSummary(pay).employees
<1>1. PICK K, f : K = Keys(OwnerOf, is) /\ f = MinutesOf
  OBVIOUS
<1>2. is \subseteq DOMAIN punch /\ Owners(is) = K
  BY <1>1, EmployeesAndSites
<1>3. IsFiniteSet(is) /\ Minutes(is) = SumIn(f, is) /\ \A i \in is : f[i] \in Nat
  BY <1>1, <1>2, MinutesAdd
<1>4. IsFiniteSet(K) /\ Cardinality(K) \in Nat
  BY <1>1, <1>3, GroupsFinite, FS_CardinalityType
<1>5. PICK rows : rows = pay.rows
  OBVIOUS
<1>6. DOMAIN rows = K /\ \A o \in K : rows[o] = PayrollRow(o, from, to)
  BY <1>2, <1>5, PayrollMade
<1>7. PICK n, w, m, rn, rw :
        /\ n = [o \in K |-> rows[o].normal] /\ w = [o \in K |-> rows[o].overtime]
        /\ m = [o \in K |-> Minutes(GroupsBy(OwnerOf, is)[o])]
        /\ rn = [o \in K |-> Rounded(rows[o].normal)]
        /\ rw = [o \in K |-> Rounded(rows[o].overtime)]
  OBVIOUS
<1>8. ASSUME NEW o \in K
      PROVE  /\ n[o] \in Nat /\ w[o] \in Nat /\ m[o] = n[o] + w[o]
             /\ rn[o] = Rounded(n[o]) /\ rw[o] = Rounded(w[o])
             /\ m[o] = SumIn(f, GroupsBy(OwnerOf, is)[o])
  <2>1. PICK T, row : T = GroupsBy(OwnerOf, is)[o] /\ row = PayrollRow(o, from, to)
    OBVIOUS
  <2>2. row.normal \in Nat /\ row.overtime \in Nat /\ Minutes(T) = row.normal + row.overtime
    BY <1>2, <2>1, PayOfPunches
  <2>3. T \subseteq is
    BY <1>1, <2>1 DEF GroupsBy
  <2>4. Minutes(T) = SumIn(f, T)
    BY <1>1, <1>2, <2>3, MinutesAdd
  <2>5. rows[o] = row
    BY <1>6, <2>1
  <2>. QED BY <1>7, <2>1, <2>2, <2>4, <2>5
<1>9. SumIn(m, K) = SumIn(f, is)
  BY <1>1, <1>3, <1>8, SumByKey
<1>10. SumIn(m, K) = SumIn(n, K) + SumIn(w, K)
  BY <1>4, <1>8, SumOfBoth
<1>11. Field(rows, "normal") = SumIn(n, K) /\ Field(rows, "overtime") = SumIn(w, K)
  <2>1. \A o \in DOMAIN rows : rows[o]["normal"] = n[o] /\ rows[o]["overtime"] = w[o]
    BY <1>6, <1>7
  <2>. QED BY <1>4, <1>6, <2>1, FieldTotal
<1>12. /\ SumIn(rn, K) \in Nat /\ SumIn(n, K) \in Nat
       /\ 3 * SumIn(rn, K) <= 5 * SumIn(n, K) + Cardinality(K)
       /\ 5 * SumIn(n, K) <= 3 * SumIn(rn, K) + Cardinality(K)
  BY <1>4, <1>8, RoundedSums
<1>13. /\ SumIn(rw, K) \in Nat /\ SumIn(w, K) \in Nat
       /\ 3 * SumIn(rw, K) <= 5 * SumIn(w, K) + Cardinality(K)
       /\ 5 * SumIn(w, K) <= 3 * SumIn(rw, K) + Cardinality(K)
  BY <1>4, <1>8, RoundedSums
<1>14. /\ PayrollSummary(pay).employees = Cardinality(K)
       /\ PayrollSummary(pay).normal = SumIn(rn, K)
       /\ PayrollSummary(pay).overtime = SumIn(rw, K)
  <2>1. Total(rn) = SumIn(rn, K) /\ Total(rw) = SumIn(rw, K)
    BY <1>4, <1>7, ColumnTotal
  <2>2. /\ rn = [o \in DOMAIN pay.rows |-> Rounded(pay.rows[o]["normal"])]
        /\ rw = [o \in DOMAIN pay.rows |-> Rounded(pay.rows[o]["overtime"])]
    BY <1>5, <1>6, <1>7
  <2>. QED BY <1>5, <1>6, <2>1, <2>2 DEF PayrollSummary
<1>. QED BY <1>3, <1>4, <1>5, <1>9, <1>10, <1>11, <1>12, <1>13, <1>14

LEMMA PayrollFromRows == RowsInv => PayrollAddsUp
<1> SUFFICES ASSUME RowsInv, NEW v \in Viewers, NEW from \in Days, NEW to \in Days, from <= to,
                    NEW pay, pay = Payroll(v, from, to),
                    NEW bySite, bySite = HoursBySite(v, Approved(from, to))
             PROVE  /\ \A cut \in from..(to - 1) :
                         /\ pay.publicHolidays = Payroll(v, from, cut).publicHolidays
                                                   + Payroll(v, cut + 1, to).publicHolidays
                         /\ \A o \in Users, fd \in {"workedDays", "normal", "overtime"} :
                              PayField(pay.rows, o, fd) =
                                PayField(Payroll(v, from, cut).rows, o, fd)
                                  + PayField(Payroll(v, cut + 1, to).rows, o, fd)
                    /\ Field(pay.rows, "normal") + Field(pay.rows, "overtime")
                         = Field(bySite, "minutes")
                    /\ Within(PayrollSummary(pay).normal + PayrollSummary(pay).overtime,
                              HoursBySiteSheet(bySite).hours,
                              PayrollSummary(pay).employees + Cardinality(DOMAIN bySite))
  BY DEF PayrollAddsUp
<1>1. from \in Int /\ to \in Int
  BY ReportsAssumption DEF Days
<1>2. ASSUME NEW cut \in from..(to - 1)
      PROVE  /\ pay.publicHolidays = Payroll(v, from, cut).publicHolidays
                                       + Payroll(v, cut + 1, to).publicHolidays
             /\ \A o \in Users, fd \in {"workedDays", "normal", "overtime"} :
                  PayField(pay.rows, o, fd) =
                    PayField(Payroll(v, from, cut).rows, o, fd)
                      + PayField(Payroll(v, cut + 1, to).rows, o, fd)
  BY <1>1, HolidaysAreCut, PayIsCut
<1>3. PICK is : is = Punches(v, Approved(from, to))
  OBVIOUS
<1>4. PICK M, c, h : /\ M = Minutes(is) /\ c = Cardinality(DOMAIN bySite)
                     /\ h = Field(bySite, "hours")
  OBVIOUS
<1>5. /\ Field(bySite, "minutes") = M /\ c \in Nat /\ h \in Nat
      /\ 3 * h <= 5 * M + c /\ 5 * M <= 3 * h + c
  <2>1. /\ is \subseteq DOMAIN punch /\ DOMAIN bySite = Keys(SiteOf, is)
        /\ \A s \in Keys(SiteOf, is) : bySite[s] = Grouped(GroupsBy(SiteOf, is)[s])
    BY <1>3, EmployeesAndSites
  <2>. QED BY <1>4, <2>1, GroupedReport
<1>6. PICK n, w, e : /\ n = PayrollSummary(pay).normal /\ w = PayrollSummary(pay).overtime
                     /\ e = PayrollSummary(pay).employees
  OBVIOUS
<1>7. /\ Field(pay.rows, "normal") + Field(pay.rows, "overtime") = M
      /\ e \in Nat /\ n \in Nat /\ w \in Nat /\ M \in Nat
      /\ 3 * (n + w) <= 5 * M + 2 * e /\ 5 * M <= 3 * (n + w) + 2 * e
  BY <1>1, <1>3, <1>4, <1>6, PayOfPeriod
<1>8. Within(n + w, h, e + c)
  BY <1>5, <1>7 DEF Within
<1>9. HoursBySiteSheet(bySite).hours = h
  BY <1>4 DEF HoursBySiteSheet
<1>. QED BY <1>2, <1>4, <1>5, <1>6, <1>7, <1>8, <1>9

\* Payroll adds up for every tenant and every period: wherever a period is cut, its
\* minutes, worked days and public holidays are those of the two parts, no minute of
\* an approved punch is lost or paid twice (payrollExport).
THEOREM PayrollAlwaysAddsUp == ReportsSpec => []PayrollAddsUp
BY RowsAlways, PayrollFromRows, PTL

---------------------------------------------------------------------------
(* The reports on punches and leave, one with another.                     *)

\* Rows with a mark, counted.
LEMMA SumOfMarks ==
  ASSUME NEW f, NEW S, IsFiniteSet(S), NEW T, T \subseteq S,
         \A i \in S : f[i] = IF i \in T THEN 1 ELSE 0
  PROVE  SumIn(f, S) = Cardinality(T)
<1>1. PICK R : R = S \ T
  OBVIOUS
<1>2. IsFiniteSet(T) /\ IsFiniteSet(R) /\ T \cup R = S /\ T \cap R = {}
  BY <1>1, FS_Subset
<1>3. SumIn(f, T) = Cardinality(T) /\ Cardinality(T) \in Nat
  BY <1>2, SumOfOnes, FS_CardinalityType
<1>4. SumIn(f, R) = 0
  BY <1>1, <1>2, SumOfZeros
<1>5. \A i \in T \cup R : f[i] \in Nat
  BY <1>2
<1>6. SumIn(f, T \cup R) = SumIn(f, T) + SumIn(f, R)
  BY <1>2, <1>5, SumOfParts
<1>. QED BY <1>2, <1>3, <1>4, <1>6

LEMMA AllRows ==
  ASSUME NEW v, NEW from, NEW to
  PROVE  /\ \A i : i \in Punches(v, Period(from, to)) <=>
                     /\ i \in DOMAIN punch /\ punch[i].of.owner \in ManagedUsers(v)
                     /\ punch[i].of.day \in from..to
         /\ [Period(from, to) EXCEPT !.status = "NONE"] = Period(from, to)
<1>1. PICK f : f = Period(from, to)
  OBVIOUS
<1>2. /\ f.from = from /\ f.to = to /\ f.who = NoUser
      /\ f.site = NoSite /\ f.status = "NONE"
  BY <1>1 DEF Period
<1>3. Selected(v, f.who) = ManagedUsers(v)
  BY <1>2 DEF Selected
<1>4. \A i : i \in Punches(v, f) <=>
               /\ i \in DOMAIN punch /\ punch[i].of.owner \in ManagedUsers(v)
               /\ punch[i].of.day \in from..to
  BY <1>2, <1>3 DEF Punches
<1>. QED BY <1>1, <1>4 DEF Period

LEMMA MonthlyMade ==
  ASSUME NEW v, NEW from, NEW to, NEW is, is = Punches(v, Period(from, to))
  PROVE  /\ DOMAIN MonthlyAttendance(v, from, to) = Owners(is)
         /\ \A o \in Owners(is) :
              MonthlyAttendance(v, from, to)[o] =
                MonthlyRow(o, {i \in is : punch[i].of.owner = o}, from, to)
BY DEF MonthlyAttendance

\* The monthly report has the same minutes, punches and punches still open.
LEMMA MonthlyAdds ==
  ASSUME RowsInv, NEW v, NEW from, NEW to, NEW is, is = Punches(v, Period(from, to)),
         NEW R, R = MonthlyAttendance(v, from, to)
  PROVE  /\ Field(R, "minutes") = Minutes(is)
         /\ Field(R, "workedDays") = Cardinality(is)
         /\ Field(R, "open") = Cardinality(StillOpen(is))
<1>1. PICK K, f, open, g : /\ K = Keys(OwnerOf, is) /\ f = MinutesOf /\ open = StillOpen(is)
                           /\ g = [i \in is |-> IF i \in open THEN 1 ELSE 0]
  OBVIOUS
<1>2. is \subseteq DOMAIN punch /\ Owners(is) = K
  BY <1>1, EmployeesAndSites
<1>3. IsFiniteSet(is) /\ Minutes(is) = SumIn(f, is) /\ \A i \in is : f[i] \in Nat
  BY <1>1, <1>2, MinutesAdd
<1>4. IsFiniteSet(K)
  BY <1>1, <1>3, GroupsFinite
<1>5. DOMAIN R = K
  BY <1>2, MonthlyMade
<1>6. PICK m, c, n : /\ m = [o \in K |-> R[o].minutes] /\ c = [o \in K |-> R[o].workedDays]
                     /\ n = [o \in K |-> R[o].open]
  OBVIOUS
<1>7. ASSUME NEW o \in K
      PROVE  /\ m[o] = SumIn(f, GroupsBy(OwnerOf, is)[o])
             /\ c[o] = Cardinality(GroupsBy(OwnerOf, is)[o])
             /\ n[o] = SumIn(g, GroupsBy(OwnerOf, is)[o])
  <2>1. PICK T, row : T = {i \in is : punch[i].of.owner = o} /\ row = R[o]
    OBVIOUS
  <2>2. row = MonthlyRow(o, T, from, to)
    BY <1>2, <2>1, MonthlyMade
  <2>3. /\ row.minutes = Minutes(T) /\ row.workedDays = Cardinality(T)
        /\ row.open = Cardinality(StillOpen(T))
    BY <2>2 DEF MonthlyRow
  <2>4. T = GroupsBy(OwnerOf, is)[o]
    <3>1. o \in Owners(is)
      BY <1>2
    <3>2. {i \in is : punch[i].of.owner = o} = GroupsBy(OwnerOf, is)[o]
      BY <3>1, EmployeesAndSites
    <3>. QED BY <2>1, <3>2
  <2>5. SumIn(g, T) = Cardinality(StillOpen(T))
    <3>1. PICK H : H = StillOpen(T)
      OBVIOUS
    <3>2. IsFiniteSet(T)
      BY <1>3, <2>1, FS_Subset
    <3>3. H \subseteq T /\ \A i \in T : g[i] = IF i \in H THEN 1 ELSE 0
      BY <1>1, <2>1, <3>1 DEF StillOpen
    <3>. QED BY <3>1, <3>2, <3>3, SumOfMarks
  <2>6. Minutes(T) = SumIn(f, T)
    BY <1>1, <1>2, <2>1, MinutesAdd
  <2>7. m[o] = row.minutes /\ c[o] = row.workedDays /\ n[o] = row.open
    BY <1>6, <2>1
  <2>8. m[o] = SumIn(f, T) /\ c[o] = Cardinality(T) /\ n[o] = SumIn(g, T)
    BY <2>3, <2>5, <2>6, <2>7
  <2>. QED BY <2>4, <2>8
<1>8. SumIn(m, K) = Minutes(is)
  <2>1. \A o \in K : m[o] = SumIn(f, GroupsBy(OwnerOf, is)[o])
    BY <1>7
  <2>2. SumIn(m, K) = SumIn(f, is)
    BY <1>1, <1>3, <2>1, SumByKey
  <2>. QED BY <1>3, <2>2
<1>9. SumIn(c, K) = Cardinality(is)
  <2>1. \A o \in K : c[o] = Cardinality(GroupsBy(OwnerOf, is)[o])
    BY <1>7
  <2>. QED BY <1>1, <1>3, <2>1, CountByKey
<1>10. SumIn(n, K) = Cardinality(open)
  <2>1. \A o \in K : n[o] = SumIn(g, GroupsBy(OwnerOf, is)[o])
    BY <1>7
  <2>2. \A i \in is : g[i] \in Nat /\ g[i] = IF i \in open THEN 1 ELSE 0
    BY <1>1
  <2>3. SumIn(n, K) = SumIn(g, is)
    BY <1>1, <1>3, <2>1, <2>2, SumByKey
  <2>4. open \subseteq is
    BY <1>1 DEF StillOpen
  <2>5. SumIn(g, is) = Cardinality(open)
    BY <1>3, <2>2, <2>4, SumOfMarks
  <2>. QED BY <2>3, <2>5
<1>11. /\ Field(R, "minutes") = SumIn(m, K) /\ Field(R, "workedDays") = SumIn(c, K)
       /\ Field(R, "open") = SumIn(n, K)
  <2>1. IsFiniteSet(DOMAIN R)
    BY <1>4, <1>5
  <2>2. \A o \in DOMAIN R : R[o]["minutes"] = m[o]
    BY <1>5, <1>6
  <2>3. \A o \in DOMAIN R : R[o]["workedDays"] = c[o]
    BY <1>5, <1>6
  <2>4. \A o \in DOMAIN R : R[o]["open"] = n[o]
    BY <1>5, <1>6
  <2>. QED BY <1>5, <2>1, <2>2, <2>3, <2>4, FieldTotal
<1>. QED BY <1>1, <1>8, <1>9, <1>10, <1>11

\* Leave.

DaysOf == [l \in leave |-> l.days]

LEMMA LeaveAdds ==
  ASSUME RowsInv, NEW ls, ls \subseteq leave
  PROVE  /\ IsFiniteSet(ls) /\ \A l \in ls : DaysOf[l] \in Nat
         /\ LeaveDays(ls) = SumIn(DaysOf, ls)
<1>1. IsFiniteSet(ls)
  BY FS_Subset DEF RowsInv
<1>2. \A l \in ls : DaysOf[l] = l.days /\ DaysOf[l] \in Nat
  BY ReportsAssumption DEF RowsInv, DaysOf
<1>3. PICK g, f : g = [l \in ls |-> l.days] /\ f = DaysOf
  OBVIOUS
<1>4. Total(g) = SumIn(f, ls)
  BY <1>1, <1>2, <1>3, ColumnTotal
<1>5. LeaveDays(ls) = Total(g)
  BY <1>3 DEF LeaveDays
<1>. QED BY <1>1, <1>2, <1>3, <1>4, <1>5

\* The days of leave of all the employees of the reader are not less than those of
\* the employees who have punched.
LEMMA MonthlyLeave ==
  ASSUME RowsInv, NEW v, NEW from, NEW to, NEW R, R = MonthlyAttendance(v, from, to),
         NEW away, away = LeavesIn(ManagedUsers(v), from, to)
  PROVE  Field(R, "leaveDays") <= LeaveDays(away)
<1>1. PICK is, K, f, S, rows, n :
        /\ is = Punches(v, Period(from, to)) /\ K = Owners(is) /\ f = DaysOf
        /\ S = LeavesIn(K, from, to) /\ rows = [o \in K |-> LeavesIn({o}, from, to)]
        /\ n = [o \in K |-> R[o].leaveDays]
  OBVIOUS
<1>2. is \subseteq DOMAIN punch /\ K = Keys(OwnerOf, is)
  BY <1>1, EmployeesAndSites
<1>3. IsFiniteSet(K)
  BY <1>2, MinutesAdd, GroupsFinite
<1>4. K \subseteq ManagedUsers(v)
  BY <1>1, AllRows DEF Owners
<1>5. away \subseteq leave /\ S \subseteq away
  BY <1>1, <1>4 DEF LeavesIn
<1>6. DOMAIN R = K
  BY <1>1, MonthlyMade
<1>7. ASSUME NEW o \in K
      PROVE  /\ IsFiniteSet(rows[o]) /\ \A l \in rows[o] : f[l] \in Nat
             /\ n[o] = SumIn(f, rows[o])
  <2>1. PICK ls, T : /\ ls = LeavesIn({o}, from, to) /\ T = {i \in is : punch[i].of.owner = o}
    OBVIOUS
  <2>2. ls \subseteq leave
    BY <2>1 DEF LeavesIn
  <2>3. IsFiniteSet(ls) /\ (\A l \in ls : f[l] \in Nat) /\ LeaveDays(ls) = SumIn(f, ls)
    BY <1>1, <2>2, LeaveAdds
  <2>4. R[o] = MonthlyRow(o, T, from, to)
    BY <1>1, <2>1, MonthlyMade
  <2>5. R[o].leaveDays = LeaveDays(ls)
    BY <2>1, <2>4 DEF MonthlyRow
  <2>6. n[o] = R[o].leaveDays /\ rows[o] = ls
    BY <1>1, <2>1
  <2>. QED BY <2>3, <2>5, <2>6
<1>8. \A l : l \in S <=> \E o \in K : l \in rows[o]
  BY <1>1 DEF LeavesIn
<1>9. Parted(K, rows, S)
  <2>1. \A o \in K : \A u \in K \ {o} : rows[u] \cap rows[o] = {}
    BY <1>1 DEF LeavesIn
  <2>. QED BY <1>7, <1>8, <2>1 DEF Parted
<1>10. SumIn(n, K) = SumIn(f, S)
  <2>1. \A l \in S : f[l] \in Nat
    BY <1>7, <1>8
  <2>2. \A o \in K : n[o] = SumIn(f, rows[o])
    BY <1>7
  <2>. QED BY <1>3, <1>9, <2>1, <2>2, SumOfGroups
<1>11. Field(R, "leaveDays") = SumIn(n, K)
  <2>1. \A o \in DOMAIN R : R[o]["leaveDays"] = n[o]
    BY <1>1, <1>6
  <2>. QED BY <1>3, <1>6, <2>1, FieldTotal
<1>12. SumIn(f, S) <= SumIn(f, away) /\ LeaveDays(away) = SumIn(f, away)
  <2>1. IsFiniteSet(away) /\ (\A l \in away : f[l] \in Nat) /\ LeaveDays(away) = SumIn(f, away)
    BY <1>1, <1>5, LeaveAdds
  <2>. QED BY <1>5, <2>1, SumOfLess
<1>. QED BY <1>10, <1>11, <1>12

\* The leave list has what is inside the period, the other reports what crosses it too.
LEMMA LeaveListed ==
  ASSUME RowsInv, NEW v, NEW from \in Int, NEW to \in Int,
         NEW away, away = LeavesIn(ManagedUsers(v), from, to),
         NEW inside, inside = LeaveList(v, from, to)
  PROVE  LeaveDays(away) = LeaveSheetTotal(inside) + LeaveDays(away \ inside)
<1>1. away \subseteq leave
  BY DEF LeavesIn
<1>2. inside \subseteq away
  <2>1. ASSUME NEW l \in inside PROVE l \in away
    <3>1. l \in leave /\ l.owner \in ManagedUsers(v) /\ l.from >= from /\ l.to <= to
      BY DEF LeaveList
    <3>2. l.from \in Int /\ l.to \in Int /\ l.from <= l.to
      BY <3>1, ReportsAssumption DEF RowsInv
    <3>3. l.from <= to /\ l.to >= from
      BY <3>1, <3>2
    <3>. QED BY <3>1, <3>3 DEF LeavesIn
  <2>. QED BY <2>1
<1>3. PICK f, rest : f = DaysOf /\ rest = away \ inside
  OBVIOUS
<1>4. rest \subseteq leave /\ inside \subseteq leave
  BY <1>1, <1>2, <1>3
<1>5. /\ LeaveDays(away) = SumIn(f, away) /\ LeaveDays(inside) = SumIn(f, inside)
      /\ LeaveDays(rest) = SumIn(f, rest)
      /\ IsFiniteSet(away) /\ \A l \in away : f[l] \in Nat
  BY <1>1, <1>3, <1>4, LeaveAdds
<1>6. SumIn(f, away) = SumIn(f, inside) + SumIn(f, rest)
  BY <1>2, <1>3, <1>5, SumOfLess
<1>. QED BY <1>3, <1>5, <1>6 DEF LeaveSheetTotal

\* The days of a period are worked, off, or public holidays, and a day with two
\* holidays is one.
LEMMA DaysOfPeriod ==
  ASSUME NEW from \in Int, NEW to \in Int
  PROVE  WorkingDays(from, to) + Cardinality({d.day : d \in HolidaysIn(from, to)} \ Weekend)
           = Cardinality((from..to) \ Weekend)
<1>1. PICK S, T, D, I : /\ S = (from..to) \ (Weekend \cup {d.day : d \in holiday})
                        /\ T = {d.day : d \in HolidaysIn(from, to)} \ Weekend
                        /\ D = (from..to) \ Weekend /\ I = S \cap T
  OBVIOUS
<1>2. S \cup T = D /\ I = {}
  BY <1>1 DEF HolidaysIn
<1>3. IsFiniteSet(D)
  <2>1. IsFiniteSet(from..to) /\ D \in SUBSET (from..to)
    BY <1>1, FS_Interval
  <2>. QED BY <2>1, FS_Subset
<1>4. IsFiniteSet(S) /\ IsFiniteSet(T)
  <2>1. S \in SUBSET D /\ T \in SUBSET D
    BY <1>2
  <2>. QED BY <1>3, <2>1, FS_Subset
<1>5. Cardinality(D) = Cardinality(S) + Cardinality(T) - Cardinality(I)
  <2>1. PICK U : U = S \cup T
    OBVIOUS
  <2>2. Cardinality(U) = Cardinality(S) + Cardinality(T) - Cardinality(I)
    BY <1>1, <1>4, <2>1, FS_Union
  <2>3. U = D
    BY <1>2, <2>1
  <2>. QED BY <2>2, <2>3
<1>6. Cardinality(S) \in Nat /\ Cardinality(T) \in Nat /\ Cardinality(I) = 0
  BY <1>2, <1>4, FS_CardinalityType, FS_EmptySet
<1>7. Cardinality(D) = Cardinality(S) + Cardinality(T)
  BY <1>5, <1>6
<1>. QED BY <1>1, <1>7 DEF WorkingDays

LEMMA LateOnes ==
  ASSUME NEW v, NEW from, NEW to, NEW late, late = LateArrivals(v, Period(from, to)),
         NEW is, is = Punches(v, Period(from, to))
  PROVE  /\ late.open = StillOpen(is)
         /\ \A o \in DOMAIN late.late :
              late.late[o] = MonthlyAttendance(v, from, to)[o].late
<1>1. PICK L : L = Late(is)
  OBVIOUS
<1>2. /\ late.open = StillOpen(is)
      /\ late.late = [o \in Owners(L) |-> Cardinality({i \in L : punch[i].of.owner = o})]
  BY <1>1, AllRows DEF LateArrivals
<1>3. ASSUME NEW o \in Owners(L)
      PROVE  late.late[o] = MonthlyAttendance(v, from, to)[o].late
  <2>1. PICK T : T = {i \in is : punch[i].of.owner = o}
    OBVIOUS
  <2>2. o \in Owners(is)
    BY <1>1 DEF Owners, Late
  <2>3. MonthlyAttendance(v, from, to)[o] = MonthlyRow(o, T, from, to)
    BY <2>1, <2>2, MonthlyMade
  <2>4. MonthlyAttendance(v, from, to)[o].late = Cardinality(Late(T))
    BY <2>3 DEF MonthlyRow
  <2>5. Late(T) = {i \in L : punch[i].of.owner = o}
    BY <1>1, <2>1 DEF Late
  <2>. QED BY <1>2, <2>4, <2>5
<1>. QED BY <1>2, <1>3

\* The sheet made of the list has the hours of its punches, rounded one by one.
LEMMA AttendanceSheetAdds ==
  ASSUME RowsInv, NEW is, is \subseteq DOMAIN punch
  PROVE  /\ AttendanceSheetTotal(is) \in Nat /\ Cardinality(is) \in Nat
         /\ 3 * AttendanceSheetTotal(is) <= 5 * Minutes(is) + Cardinality(is)
         /\ 5 * Minutes(is) <= 3 * AttendanceSheetTotal(is) + Cardinality(is)
<1>1. PICK f, g : f = MinutesOf /\ g = [i \in is |-> Rounded(punch[i].minutes)]
  OBVIOUS
<1>2. IsFiniteSet(is) /\ Minutes(is) = SumIn(f, is) /\ \A i \in is : f[i] \in Nat
  BY <1>1, MinutesAdd
<1>3. \A i \in is : f[i] \in Nat /\ g[i] = Rounded(f[i])
  BY <1>1, <1>2, PunchTyped
<1>4. Total(g) = SumIn(g, is)
  BY <1>1, <1>2, ColumnTotal
<1>5. AttendanceSheetTotal(is) = Total(g)
  BY <1>1 DEF AttendanceSheetTotal
<1>6. /\ SumIn(g, is) \in Nat /\ Cardinality(is) \in Nat
      /\ 3 * SumIn(g, is) <= 5 * SumIn(f, is) + Cardinality(is)
      /\ 5 * SumIn(f, is) <= 3 * SumIn(g, is) + Cardinality(is)
  BY <1>2, <1>3, RoundedSums
<1>. QED BY <1>2, <1>4, <1>5, <1>6

LEMMA PunchReportsFromRows ==
  ASSUME RowsInv, NEW v, NEW from \in Int, NEW to \in Int
  PROVE  PunchReportsAgree(v, from, to)
<1>1. PICK p, is : p = Period(from, to) /\ is = Punches(v, p)
  OBVIOUS
<1>2. PICK byOwner, bySite, monthly, board, late, away, inside :
        /\ byOwner = HoursByEmployee(v, p) /\ bySite = HoursBySite(v, p)
        /\ monthly = MonthlyAttendance(v, from, to) /\ board = HrDashboard(v, from, to)
        /\ late = LateArrivals(v, p)
        /\ away = LeavesIn(ManagedUsers(v), from, to) /\ inside = LeaveList(v, from, to)
  OBVIOUS
<1>3. PICK M, n, co, cs, ho, hs, hb, ha :
        /\ M = Minutes(is) /\ n = Cardinality(is)
        /\ co = Cardinality(DOMAIN byOwner) /\ cs = Cardinality(DOMAIN bySite)
        /\ ho = Field(byOwner, "hours") /\ hs = Field(bySite, "hours")
        /\ hb = Rounded(M) /\ ha = AttendanceSheetTotal(is)
  OBVIOUS
<1>4. is \subseteq DOMAIN punch
  BY <1>1, EmployeesAndSites
<1>5. /\ Field(byOwner, "minutes") = M /\ Field(byOwner, "punches") = n
      /\ co \in Nat /\ co <= n /\ ho \in Nat
      /\ 3 * ho <= 5 * M + co /\ 5 * M <= 3 * ho + co
  <2>1. /\ DOMAIN byOwner = Keys(OwnerOf, is)
        /\ \A o \in Keys(OwnerOf, is) : byOwner[o] = Grouped(GroupsBy(OwnerOf, is)[o])
    BY <1>1, <1>2, EmployeesAndSites
  <2>. QED BY <1>3, <1>4, <2>1, GroupedReport
<1>6. /\ Field(bySite, "minutes") = M /\ Field(bySite, "punches") = n
      /\ cs \in Nat /\ cs <= n /\ hs \in Nat
      /\ 3 * hs <= 5 * M + cs /\ 5 * M <= 3 * hs + cs
  <2>1. /\ DOMAIN bySite = Keys(SiteOf, is)
        /\ \A s \in Keys(SiteOf, is) : bySite[s] = Grouped(GroupsBy(SiteOf, is)[s])
    BY <1>1, <1>2, EmployeesAndSites
  <2>. QED BY <1>3, <1>4, <2>1, GroupedReport
<1>7. /\ Field(monthly, "minutes") = M /\ Field(monthly, "workedDays") = n
      /\ Field(monthly, "open") = Cardinality(late.open)
  <2>1. /\ Field(monthly, "minutes") = M /\ Field(monthly, "workedDays") = n
        /\ Field(monthly, "open") = Cardinality(StillOpen(is))
    BY <1>1, <1>2, <1>3, MonthlyAdds
  <2>2. late.open = StillOpen(is)
    BY <1>1, <1>2, LateOnes
  <2>. QED BY <2>1, <2>2
<1>8. \A o \in DOMAIN late.late : late.late[o] = monthly[o].late
  BY <1>1, <1>2, LateOnes
<1>9. M \in Nat /\ hb \in Nat /\ 3 * hb <= 5 * M + 1 /\ 5 * M <= 3 * hb + 1
  BY <1>3, <1>4, MinutesAdd, RoundedClose
<1>10. /\ ha \in Nat /\ n \in Nat
       /\ 3 * ha <= 5 * M + n /\ 5 * M <= 3 * ha + n
  BY <1>3, <1>4, AttendanceSheetAdds
<1>11. /\ Within(ho, hb, co) /\ Within(ho, hs, n) /\ Within(ho, ha, n)
  BY <1>5, <1>6, <1>9, <1>10 DEF Within
<1>12. board.hours = hb /\ board.leaveDays = LeaveDays(away)
  BY <1>1, <1>2, <1>3 DEF HrDashboard
<1>13. n <= Take => AttendanceList(v, p) = is
  BY <1>1, <1>3 DEF AttendanceList
<1>14. /\ board.leaveDays >= Field(monthly, "leaveDays")
       /\ board.leaveDays = LeaveSheetTotal(inside) + LeaveDays(away \ inside)
  <2>1. PICK a, b : a = LeaveDays(away) /\ b = Field(monthly, "leaveDays")
    OBVIOUS
  <2>2. b <= a
    BY <1>2, <2>1, MonthlyLeave
  <2>3. a = LeaveSheetTotal(inside) + LeaveDays(away \ inside)
    BY <1>2, <2>1, LeaveListed
  <2>. QED BY <1>12, <2>1, <2>2, <2>3
<1>15. WorkingDays(from, to) + Cardinality({d.day : d \in HolidaysIn(from, to)} \ Weekend)
         = Cardinality((from..to) \ Weekend)
  BY DaysOfPeriod
<1>16. /\ HoursByEmployeeSheet(byOwner).hours = ho
       /\ HoursByEmployeeSheet(byOwner).minutes = M
       /\ HoursByEmployeeSheet(byOwner).punches = n
       /\ HoursBySiteSheet(bySite).hours = hs /\ HoursBySiteSheet(bySite).punches = n
  BY <1>3, <1>5, <1>6 DEF HoursByEmployeeSheet, HoursBySiteSheet
<1>. QED
  BY <1>1, <1>2, <1>3, <1>5, <1>6, <1>7, <1>8, <1>11, <1>12, <1>13, <1>14, <1>15, <1>16
     DEF PunchReportsAgree

---------------------------------------------------------------------------
(* The reports on sheets.                                                  *)

\* Weeks follow each other and fit in the period.
LEMMA WeeksInOrder ==
  ASSUME NEW w \in Weeks, NEW x \in Weeks
  PROVE  /\ FirstOf(w) \in Int /\ LastOf(w) \in Int
         /\ FirstOf(w) >= 1 /\ LastOf(w) <= LastDay /\ FirstOf(w) <= LastOf(w)
         /\ w <= x => FirstOf(w) <= FirstOf(x) /\ LastOf(w) <= LastOf(x)
         /\ w < x => LastOf(w) < FirstOf(x)
<1>1. PICK D, q : D = DaysInWeek /\ q = LastDay \div DaysInWeek
  OBVIOUS
<1>2. D \in Nat /\ D >= 1 /\ LastDay \in Nat
  BY <1>1, ReportsAssumption
<1>3. q \in Nat /\ q * D <= LastDay
  BY <1>1, <1>2, ReportsAssumption
<1>4. w \in Nat /\ x \in Nat /\ 1 <= w /\ w <= q
  BY <1>1, <1>3 DEF Weeks
<1>5. \A a, b \in Nat : /\ a <= b => a * D <= b * D
                        /\ a < b => a * D + D <= b * D
  <2>1. ASSUME NEW a \in Nat, NEW b \in Nat, a <= b PROVE a * D <= b * D
    <3>1. PICK c \in Nat : b = a + c
      BY <2>1
    <3>2. b * D = a * D + c * D /\ c * D \in Nat /\ a * D \in Nat
      BY <1>2, <3>1
    <3>. QED BY <3>2
  <2>2. ASSUME NEW a \in Nat, NEW b \in Nat, a < b PROVE a * D + D <= b * D
    <3>1. (a + 1) * D <= b * D
      BY <2>1, <2>2
    <3>2. (a + 1) * D = a * D + D
      BY <1>2
    <3>. QED BY <3>1, <3>2
  <2>. QED BY <2>1, <2>2
<1>6. w * D \in Nat /\ x * D \in Nat /\ (w - 1) * D = w * D - D /\ (x - 1) * D = x * D - D
  BY <1>2, <1>4
<1>7. w * D <= q * D /\ D <= w * D
  <2>1. 1 * D <= w * D
    BY <1>4, <1>5
  <2>2. w * D <= q * D
    BY <1>3, <1>4, <1>5
  <2>. QED BY <1>2, <2>1, <2>2
<1>8. /\ w <= x => w * D <= x * D
      /\ w < x => w * D + D <= x * D
  BY <1>4, <1>5
<1>9. q * D \in Nat
  BY <1>2, <1>3
<1>10. /\ FirstOf(w) = w * D - D + 1 /\ LastOf(w) = w * D
       /\ FirstOf(x) = x * D - D + 1 /\ LastOf(x) = x * D
  BY <1>1, <1>6 DEF FirstOf, LastOf
<1>. QED BY <1>2, <1>3, <1>6, <1>7, <1>8, <1>9, <1>10

\* An entry dated in the week of its sheet is in the weeks from w1 to w2 when that
\* week is.
LEMMA EntryInPeriod ==
  ASSUME NEW w \in Weeks, NEW w1 \in Weeks, NEW w2 \in Weeks,
         NEW d \in FirstOf(w)..LastOf(w)
  PROVE  /\ d \in FirstOf(w1)..LastOf(w2)
              <=> FirstOf(w) >= FirstOf(w1) /\ LastOf(w) <= LastOf(w2)
         /\ d \in FirstOf(w1)..LastOf(w1) <=> w = w1
<1>1. w \in Int /\ w1 \in Int /\ w2 \in Int
  BY DEF Weeks
<1>2. /\ FirstOf(w) \in Int /\ LastOf(w) \in Int /\ FirstOf(w1) \in Int /\ LastOf(w1) \in Int
      /\ FirstOf(w2) \in Int /\ LastOf(w2) \in Int
  BY WeeksInOrder
<1>3. /\ w1 <= w => FirstOf(w1) <= FirstOf(w)
      /\ w < w1 => LastOf(w) < FirstOf(w1)
      /\ w <= w2 => LastOf(w) <= LastOf(w2)
      /\ w2 < w => LastOf(w2) < FirstOf(w)
      /\ w1 < w => LastOf(w1) < FirstOf(w)
      /\ FirstOf(w) <= LastOf(w)
  BY WeeksInOrder
<1>. QED BY <1>1, <1>2, <1>3

LEMMA TeamOfUsers ==
  ASSUME OrgTypeOK, NEW v
  PROVE  ManagedUsers(v) \subseteq Users
<1>1. CASE role[v] \in Unrestricted
  BY <1>1 DEF ManagedUsers
<1>2. CASE role[v] \notin Unrestricted
  <2>1. ASSUME NEW s \in DirectedSites(v)
        PROVE  StaffOf(s) \subseteq Users /\ ManagerOf(s) \in Users \cup {NoUser}
    <3>1. s \in Sites /\ site[s] \in SiteRow /\ assigned[s] \subseteq Users
      BY <2>1 DEF DirectedSites, OrgTypeOK
    <3>2. s # NoSite
      BY <3>1, OrganisationAssumption
    <3>. QED BY <3>1, <3>2 DEF StaffOf, ManagerOf, SiteRow
  <2>. QED BY <1>2, <2>1 DEF ManagedUsers
<1>. QED BY <1>1, <1>2

\* Two sets without a common member are counted one after the other.
LEMMA CountOfParts ==
  ASSUME NEW S, IsFiniteSet(S), NEW T, IsFiniteSet(T), S \cap T = {},
         NEW U, U = S \cup T
  PROVE  /\ IsFiniteSet(U) /\ Cardinality(S) \in Nat /\ Cardinality(T) \in Nat
         /\ Cardinality(U) = Cardinality(S) + Cardinality(T)
<1>1. PICK I : I = S \cap T
  OBVIOUS
<1>2. IsFiniteSet(S \cup T)
      /\ Cardinality(S \cup T) = Cardinality(S) + Cardinality(T) - Cardinality(I)
  BY <1>1, FS_Union
<1>3. Cardinality(S) \in Nat /\ Cardinality(T) \in Nat /\ Cardinality(I) = 0
  BY <1>1, FS_CardinalityType, FS_EmptySet
<1>. QED BY <1>2, <1>3

\* The sheets a reader sees in a period, and those of them in these statuses.
LEMMA SheetsSeen ==
  ASSUME RowsInv, NEW v, NEW from, NEW to
  PROVE  /\ \A k : k \in Sheets(v, from, to) <=>
                     /\ k \in Users \X Weeks /\ sheet[k] # "NONE" /\ k[1] \in ManagedUsers(v)
                     /\ k[1] = v \/ sheet[k] # "DRAFT"
                     /\ FirstOf(k[2]) >= from /\ LastOf(k[2]) <= to
         /\ Sheets(v, from, to) \subseteq Begun /\ IsFiniteSet(Sheets(v, from, to))
<1>1. Sheets(v, from, to) \in SUBSET Begun
  BY DEF Sheets, Begun
<1>2. IsFiniteSet(Begun)
  BY DEF RowsInv
<1>3. IsFiniteSet(Sheets(v, from, to))
  BY <1>1, <1>2, FS_Subset
<1>. QED BY <1>1, <1>3 DEF Sheets

SeenIn(v, sts) == {k \in Sheets(v, 1, LastDay) : sheet[k] \in sts}

LEMMA CountersSee ==
  ASSUME RowsInv, OrgTypeOK, NEW v, NEW sts, "NONE" \notin sts
  PROVE  {k \in ManagedUsers(v) \X Weeks : sheet[k] \in sts /\ (k[1] = v \/ sheet[k] # "DRAFT")}
           = SeenIn(v, sts)
<1>1. ManagedUsers(v) \subseteq Users
  BY TeamOfUsers
<1>2. \A w \in Weeks : FirstOf(w) >= 1 /\ LastOf(w) <= LastDay
  BY WeeksInOrder
<1>3. ASSUME NEW k
      PROVE  k \in SeenIn(v, sts) <=>
               /\ k \in ManagedUsers(v) \X Weeks
               /\ sheet[k] \in sts /\ (k[1] = v \/ sheet[k] # "DRAFT")
  <2>1. k \in Sheets(v, 1, LastDay) <=>
          /\ k \in Users \X Weeks /\ sheet[k] # "NONE" /\ k[1] \in ManagedUsers(v)
          /\ k[1] = v \/ sheet[k] # "DRAFT"
          /\ FirstOf(k[2]) >= 1 /\ LastOf(k[2]) <= LastDay
    BY SheetsSeen
  <2>2. k \in ManagedUsers(v) \X Weeks <=> k \in Users \X Weeks /\ k[1] \in ManagedUsers(v)
    BY <1>1
  <2>3. k \in Users \X Weeks => FirstOf(k[2]) >= 1 /\ LastOf(k[2]) <= LastDay
    BY <1>2
  <2>. QED BY <2>1, <2>2, <2>3 DEF SeenIn
<1>. QED BY <1>3

\* The counters of the dashboard are those of human resources over all periods, and
\* every sheet is in one of them.
LEMMA CountersFromRows ==
  ASSUME RowsInv, OrgTypeOK, NEW v, NEW all, all = HrDashboard(v, 1, LastDay),
         NEW seen, seen = Counters(v)
  PROVE  /\ \A fd \in {"approved", "pending", "rejected"} : seen[fd] = all[fd]
         /\ seen.approved + seen.pending + seen.rejected + seen.drafts = all.total
<1>1. PICK A, P, R, D, S :
        /\ A = SeenIn(v, {"APPROVED"}) /\ P = SeenIn(v, {"SUBMITTED", "N1_APPROVED"})
        /\ R = SeenIn(v, {"REJECTED"}) /\ D = SeenIn(v, {"DRAFT", "REOPENED"})
        /\ S = Sheets(v, 1, LastDay)
  OBVIOUS
<1>2. /\ all.approved = Cardinality(A) /\ all.pending = Cardinality(P)
      /\ all.rejected = Cardinality(R) /\ all.total = Cardinality(S)
  BY <1>1 DEF HrDashboard, SeenIn
<1>3. /\ seen.approved = Cardinality(A) /\ seen.pending = Cardinality(P)
      /\ seen.rejected = Cardinality(R) /\ seen.drafts = Cardinality(D)
  <2>1. seen.approved = Cardinality(A)
    BY <1>1, CountersSee DEF Counters
  <2>2. seen.pending = Cardinality(P)
    BY <1>1, CountersSee DEF Counters
  <2>3. seen.rejected = Cardinality(R)
    BY <1>1, CountersSee DEF Counters
  <2>4. seen.drafts = Cardinality(D)
    BY <1>1, CountersSee DEF Counters
  <2>. QED BY <2>1, <2>2, <2>3, <2>4
<1>4. PICK X, Y : X = A \cup P /\ Y = R \cup D
  OBVIOUS
<1>5. IsFiniteSet(A) /\ IsFiniteSet(P) /\ IsFiniteSet(R) /\ IsFiniteSet(D)
  <2>1. IsFiniteSet(S)
    BY <1>1, SheetsSeen
  <2>2. A \in SUBSET S /\ P \in SUBSET S /\ R \in SUBSET S /\ D \in SUBSET S
    BY <1>1 DEF SeenIn
  <2>. QED BY <2>1, <2>2, FS_Subset
<1>6. A \cap P = {} /\ R \cap D = {} /\ X \cap Y = {}
  BY <1>1, <1>4 DEF SeenIn
<1>7. S = X \cup Y
  <2>1. ASSUME NEW k \in S PROVE sheet[k] \in Statuses
    BY <1>1, SheetsSeen DEF RowsInv
  <2>. QED BY <1>1, <1>4, <2>1 DEF SeenIn, Statuses
<1>8. /\ IsFiniteSet(X) /\ Cardinality(X) = Cardinality(A) + Cardinality(P)
      /\ Cardinality(A) \in Nat /\ Cardinality(P) \in Nat
  BY <1>4, <1>5, <1>6, CountOfParts
<1>9. /\ IsFiniteSet(Y) /\ Cardinality(Y) = Cardinality(R) + Cardinality(D)
      /\ Cardinality(R) \in Nat /\ Cardinality(D) \in Nat
  BY <1>4, <1>5, <1>6, CountOfParts
<1>10. Cardinality(S) = Cardinality(X) + Cardinality(Y)
  BY <1>6, <1>7, <1>8, <1>9, CountOfParts
<1>. QED BY <1>2, <1>3, <1>8, <1>9, <1>10

\* The columns of an entry, and its sheet.
HoursOf == [i \in DOMAIN entry |-> entry[i].hours]

DayOf == [i \in DOMAIN entry |-> entry[i].day]

PlaceOf == [i \in DOMAIN entry |-> entry[i].site]

SheetOf == [i \in DOMAIN entry |-> <<entry[i].owner, entry[i].week>>]

\* The entries of these sheets.
EntriesIn(ks) == {i \in DOMAIN entry : SheetOf[i] \in ks}

LEMMA HoursAdd ==
  ASSUME RowsInv, NEW is, is \subseteq DOMAIN entry
  PROVE  /\ IsFiniteSet(is) /\ \A i \in is : HoursOf[i] \in Nat
         /\ Hours(is) = SumIn(HoursOf, is)
         /\ Hours(is) \in Nat
<1>1. IsFiniteSet(is)
  BY FS_Subset DEF RowsInv
<1>2. \A i \in is : HoursOf[i] = entry[i].hours /\ HoursOf[i] \in Nat
  BY EntryPlaced DEF HoursOf
<1>3. PICK g : g = [i \in is |-> entry[i].hours]
  OBVIOUS
<1>4. PICK f : f = HoursOf
  OBVIOUS
<1>5. Total(g) = SumIn(f, is)
  BY <1>1, <1>2, <1>3, <1>4, ColumnTotal
<1>6. SumIn(f, is) \in Nat
  BY <1>1, <1>2, <1>4, SumType
<1>7. Hours(is) = Total(g)
  BY <1>3 DEF Hours
<1>. QED BY <1>1, <1>2, <1>4, <1>5, <1>6, <1>7

\* The hours of a part and those of the others.
LEMMA HoursSplit ==
  ASSUME RowsInv, NEW is, is \subseteq DOMAIN entry, NEW part, part \subseteq is
  PROVE  /\ Hours(is) = Hours(part) + Hours(is \ part)
         /\ Hours(part) \in Nat /\ Hours(is \ part) \in Nat
<1>1. PICK f, rest : f = HoursOf /\ rest = is \ part
  OBVIOUS
<1>2. IsFiniteSet(is) /\ \A i \in is : f[i] \in Nat
  BY <1>1, HoursAdd
<1>3. SumIn(f, is) = SumIn(f, part) + SumIn(f, is \ part)
  BY <1>2, SumOfLess
<1>4. Hours(is) = SumIn(f, is)
  BY <1>1, HoursAdd
<1>5. part \subseteq DOMAIN entry /\ rest \subseteq DOMAIN entry
  BY <1>1
<1>6. Hours(part) = SumIn(f, part) /\ Hours(part) \in Nat
  BY <1>1, <1>5, HoursAdd
<1>7. Hours(rest) = SumIn(f, rest) /\ Hours(rest) \in Nat
  BY <1>1, <1>5, HoursAdd
<1>. QED BY <1>1, <1>3, <1>4, <1>6, <1>7

LEMMA HoursByKind ==
  ASSUME RowsInv, NEW is, is \subseteq DOMAIN entry
  PROVE  /\ Hours(is) = Hours(Billable(is)) + Hours(is \ Billable(is))
         /\ Hours(Billable(is)) \in Nat /\ Hours(is \ Billable(is)) \in Nat
<1>1. Billable(is) \subseteq is
  BY DEF Billable
<1>. QED BY <1>1, HoursSplit

\* The hours of entries are those of their groups, as many as there are and some of
\* them empty.
LEMMA HoursByKey ==
  ASSUME RowsInv, NEW is, is \subseteq DOMAIN entry, NEW key, NEW K, IsFiniteSet(K),
         \A i \in is : key[i] \in K,
         NEW g, DOMAIN g = K, \A k \in K : g[k] = Hours({i \in is : key[i] = k})
  PROVE  /\ Total(g) = Hours(is)
         /\ Total(g) = SumIn(g, K)
         /\ \A k \in K : g[k] \in Nat
<1>1. PICK f : f = HoursOf
  OBVIOUS
<1>2. PICK rows : rows = [k \in K |-> {i \in is : key[i] = k}]
  OBVIOUS
<1>3. ASSUME NEW k \in K
      PROVE  /\ IsFiniteSet(rows[k]) /\ \A i \in rows[k] : f[i] \in Nat
             /\ g[k] = SumIn(f, rows[k]) /\ g[k] \in Nat
  <2>1. PICK T : T = rows[k]
    OBVIOUS
  <2>2. T \subseteq DOMAIN entry /\ g[k] = Hours(T)
    BY <1>2, <2>1
  <2>3. /\ IsFiniteSet(T) /\ \A i \in T : HoursOf[i] \in Nat
        /\ Hours(T) = SumIn(HoursOf, T) /\ Hours(T) \in Nat
    BY <2>2, HoursAdd
  <2>. QED BY <1>1, <2>1, <2>2, <2>3
<1>4. Parted(K, rows, is)
  <2>1. \A k \in K : IsFiniteSet(rows[k])
    BY <1>3
  <2>2. \A k \in K : \A j \in K \ {k} : rows[j] \cap rows[k] = {}
    BY <1>2
  <2>3. \A i : i \in is <=> \E k \in K : i \in rows[k]
    BY <1>2
  <2>. QED BY <2>1, <2>2, <2>3 DEF Parted
<1>5. \A i \in is : f[i] \in Nat
  BY <1>1, HoursAdd
<1>6. \A k \in K : g[k] = SumIn(f, rows[k])
  BY <1>3
<1>7. SumIn(g, K) = SumIn(f, is)
  BY <1>4, <1>5, <1>6, SumOfGroups
<1>8. Hours(is) = SumIn(f, is)
  BY <1>1, HoursAdd
<1>9. Total(g) = SumIn(g, K)
  BY ColumnTotal
<1>. QED BY <1>3, <1>7, <1>8, <1>9

\* By day, whatever days are looked at as long as those of the entries are.
LEMMA HoursByDay ==
  ASSUME RowsInv, NEW is, is \subseteq DOMAIN entry, NEW K, IsFiniteSet(K),
         \A i \in is : entry[i].day \in K,
         NEW g, g = [d \in K |-> DayHours(is, d)]
  PROVE  /\ Total(g) = Hours(is)
         /\ Total(g) = SumIn(g, K)
         /\ \A d \in K : g[d] \in Nat
<1>1. PICK key : key = DayOf
  OBVIOUS
<1>2. \A i \in is : key[i] = entry[i].day
  BY <1>1 DEF DayOf
<1>3. ASSUME NEW d \in K PROVE g[d] = Hours({i \in is : key[i] = d})
  <2>1. {i \in is : key[i] = d} = {i \in is : entry[i].day = d}
    BY <1>2
  <2>. QED BY <2>1 DEF DayHours
<1>4. DOMAIN g = K /\ \A i \in is : key[i] \in K
  BY <1>2
<1>. QED BY <1>3, <1>4, HoursByKey

\* The hours of sheets are those of their entries.
LEMMA HoursBySheet ==
  ASSUME RowsInv, NEW ks, IsFiniteSet(ks), ks \subseteq Users \X Weeks
  PROVE  SheetHours(ks) = Hours(EntriesIn(ks))
<1>1. PICK key, is : key = SheetOf /\ is = EntriesIn(ks)
  OBVIOUS
<1>2. is \subseteq DOMAIN entry /\ \A i \in is : key[i] \in ks
  BY <1>1 DEF EntriesIn
<1>3. PICK g : g = [k \in ks |-> Metrics(k[1], k[2]).total]
  OBVIOUS
<1>4. ASSUME NEW k \in ks PROVE g[k] = Hours({i \in is : key[i] = k})
  <2>1. k = <<k[1], k[2]>>
    OBVIOUS
  <2>2. {i \in is : key[i] = k} = EntriesOf(k[1], k[2])
    BY <1>1, <2>1 DEF EntriesIn, SheetOf, EntriesOf
  <2>3. g[k] = Hours(EntriesOf(k[1], k[2]))
    BY <1>3 DEF Metrics
  <2>. QED BY <2>2, <2>3
<1>5. DOMAIN g = ks
  BY <1>3
<1>6. Total(g) = Hours(is)
  BY <1>2, <1>4, <1>5, HoursByKey
<1>. QED BY <1>1, <1>3, <1>6 DEF SheetHours

\* Normal hours and overtime are those of the days, cut at the trigger.
LEMMA HoursCut ==
  ASSUME NEW K, IsFiniteSet(K), NEW g, DOMAIN g = K, \A d \in K : g[d] \in Nat,
         NEW t \in Nat,
         NEW n, DOMAIN n = K, \A d \in K : n[d] = LeastOf(g[d], t),
         NEW e, DOMAIN e = K, \A d \in K : e[d] = g[d] - LeastOf(g[d], t)
  PROVE  /\ Total(n) + Total(e) = Total(g)
         /\ Total(n) \in Nat /\ Total(e) \in Nat
<1>1. \A d \in K : n[d] \in Nat /\ e[d] \in Nat /\ g[d] = n[d] + e[d]
  BY DEF LeastOf
<1>2. SumIn(g, K) = SumIn(n, K) + SumIn(e, K)
  BY <1>1, SumOfBoth
<1>3. Total(n) = SumIn(n, K)
  BY ColumnTotal
<1>4. Total(e) = SumIn(e, K)
  BY ColumnTotal
<1>5. Total(g) = SumIn(g, K)
  BY ColumnTotal
<1>6. SumIn(n, K) \in Nat /\ SumIn(e, K) \in Nat
  BY <1>1, SumType
<1>. QED BY <1>2, <1>3, <1>4, <1>5, <1>6

\* The hours of a sheet are those of its entries, by kind and by trigger.
LEMMA MetricsAdd ==
  ASSUME RowsInv, NEW o, NEW w, NEW m, m = Metrics(o, w)
  PROVE  /\ m.total = Hours(EntriesOf(o, w))
         /\ m.normal + m.overtime = m.total
         /\ m.billable + m.nonBillable = m.total
         /\ m.total \in Nat /\ m.normal \in Nat /\ m.overtime \in Nat
         /\ m.billable \in Nat /\ m.nonBillable \in Nat
<1>1. PICK is : is = EntriesOf(o, w)
  OBVIOUS
<1>2. is \subseteq DOMAIN entry
  BY <1>1 DEF EntriesOf
<1>3. /\ m.total = Hours(is) /\ m.billable = Hours(Billable(is))
      /\ m.nonBillable = Hours(is \ Billable(is))
  BY <1>1 DEF Metrics
<1>4. /\ Hours(is) = Hours(Billable(is)) + Hours(is \ Billable(is))
      /\ Hours(Billable(is)) \in Nat /\ Hours(is \ Billable(is)) \in Nat
  BY <1>2, HoursByKind
<1>5. PICK K, t : K = {entry[i].day : i \in is} /\ t = 100 * TriggerHours
  OBVIOUS
<1>6. t \in Nat
  BY <1>5, ReportsAssumption
<1>7. PICK g : g = [d \in K |-> DayHours(is, d)]
  OBVIOUS
<1>8. PICK n, e : /\ n = [d \in K |-> LeastOf(g[d], t)]
                  /\ e = [d \in K |-> g[d] - LeastOf(g[d], t)]
  OBVIOUS
<1>9. m.normal = Total(n) /\ m.overtime = Total(e)
  <2>1. n = [d \in K |-> LeastOf(DayHours(is, d), t)]
    BY <1>7, <1>8
  <2>2. e = [d \in K |-> DayHours(is, d) - LeastOf(DayHours(is, d), t)]
    BY <1>7, <1>8
  <2>. QED BY <1>1, <1>5, <2>1, <2>2 DEF Metrics
<1>10. IsFiniteSet(K) /\ \A i \in is : entry[i].day \in K
  <2>1. IsFiniteSet(Keys(DayOf, is))
    BY <1>2, HoursAdd, GroupsFinite
  <2>2. Keys(DayOf, is) = K
    BY <1>2, <1>5 DEF Keys, DayOf
  <2>. QED BY <1>5, <2>1, <2>2
<1>11. Total(g) = Hours(is) /\ \A d \in K : g[d] \in Nat
  BY <1>2, <1>7, <1>10, HoursByDay
<1>12. /\ DOMAIN g = K /\ DOMAIN n = K /\ DOMAIN e = K
       /\ \A d \in K : n[d] = LeastOf(g[d], t)
       /\ \A d \in K : e[d] = g[d] - LeastOf(g[d], t)
  BY <1>7, <1>8
<1>13. Total(n) + Total(e) = Total(g) /\ Total(n) \in Nat /\ Total(e) \in Nat
  BY <1>6, <1>10, <1>11, <1>12, HoursCut
<1>14. m.total \in Nat
  BY <1>3, <1>4
<1>. QED BY <1>1, <1>3, <1>4, <1>9, <1>11, <1>13, <1>14

\* So are those of the sheets of an employee, on his row of the workbook.
LEMMA SummaryAdds ==
  ASSUME RowsInv, NEW o, NEW ks, IsFiniteSet(ks), \A k \in ks : k[1] = o,
         NEW row, row = Summary(o, ks)
  PROVE  /\ row.total = SheetHours(ks)
         /\ row.normal + row.overtime = row.total
         /\ row.billable + row.nonBillable = row.total
<1> DEFINE Col(fd) == [k \in ks |-> Metrics(o, k[2])[fd]]
<1>1. PICK t, n, e, b, x : /\ t = Col("total") /\ n = Col("normal") /\ e = Col("overtime")
                           /\ b = Col("billable") /\ x = Col("nonBillable")
  OBVIOUS
<1>2. ASSUME NEW k \in ks
      PROVE  /\ n[k] \in Nat /\ e[k] \in Nat /\ t[k] = n[k] + e[k]
             /\ b[k] \in Nat /\ x[k] \in Nat /\ t[k] = b[k] + x[k]
  <2>1. PICK m : m = Metrics(o, k[2])
    OBVIOUS
  <2>2. /\ m.normal + m.overtime = m.total
        /\ m.billable + m.nonBillable = m.total
        /\ m.total \in Nat /\ m.normal \in Nat /\ m.overtime \in Nat
        /\ m.billable \in Nat /\ m.nonBillable \in Nat
    BY <2>1, MetricsAdd
  <2>3. /\ t[k] = m.total /\ n[k] = m.normal /\ e[k] = m.overtime
        /\ b[k] = m.billable /\ x[k] = m.nonBillable
    BY <1>1, <2>1
  <2>. QED BY <2>2, <2>3
<1>3. SumIn(t, ks) = SumIn(n, ks) + SumIn(e, ks)
  BY <1>2, SumOfBoth
<1>4. SumIn(t, ks) = SumIn(b, ks) + SumIn(x, ks)
  BY <1>2, SumOfBoth
<1>5. /\ DOMAIN t = ks /\ DOMAIN n = ks /\ DOMAIN e = ks
      /\ DOMAIN b = ks /\ DOMAIN x = ks
  BY <1>1
<1>6. /\ Total(t) = SumIn(t, ks) /\ Total(n) = SumIn(n, ks) /\ Total(e) = SumIn(e, ks)
      /\ Total(b) = SumIn(b, ks) /\ Total(x) = SumIn(x, ks)
  BY <1>5, ColumnTotal
<1>7. /\ row.total = Total(t) /\ row.normal = Total(n) /\ row.overtime = Total(e)
      /\ row.billable = Total(b) /\ row.nonBillable = Total(x)
  BY <1>1 DEF Summary
<1>8. Total(t) = SheetHours(ks)
  <2>1. t = [k \in ks |-> Metrics(k[1], k[2]).total]
    BY <1>1
  <2>. QED BY <2>1 DEF SheetHours
<1>. QED BY <1>3, <1>4, <1>6, <1>7, <1>8

LEMMA DaysFinite == IsFiniteSet(Days)
BY ReportsAssumption, FS_Interval DEF Days

\* A workbook adds up, by kind, by day and by site.
LEMMA WorkbookAdds ==
  ASSUME RowsInv, NEW v, NEW from, NEW to, NEW book, book = Workbook(v, from, to),
         NEW o \in DOMAIN book, NEW row, row = book[o].summary
  PROVE  /\ row.normal + row.overtime = row.total
         /\ row.billable + row.nonBillable = row.total
         /\ Total(book[o].columns) = row.total
         /\ Total(book[o].rows) = row.total
<1>1. PICK ks : ks = {k \in Sheets(v, from, to) : k[1] = o}
  OBVIOUS
<1>2. PICK his : his = UNION {EntriesOf(o, k[2]) : k \in ks}
  OBVIOUS
<1>3. PICK places : places = {entry[i].site : i \in his}
  OBVIOUS
<1>4. PICK days, sites : /\ days = [d \in Days |-> DayHours(his, d)]
                         /\ sites = [s \in places |-> Hours({i \in his : entry[i].site = s})]
  OBVIOUS
<1>5. book[o].columns = days /\ book[o].rows = sites /\ row = Summary(o, ks)
  BY <1>1, <1>2, <1>3, <1>4 DEF Workbook
<1>6. IsFiniteSet(ks) /\ ks \subseteq Users \X Weeks /\ \A k \in ks : k[1] = o
  <2>1. IsFiniteSet(Sheets(v, from, to))
    BY SheetsSeen
  <2>2. ks \in SUBSET Sheets(v, from, to)
    BY <1>1
  <2>3. Sheets(v, from, to) \subseteq Users \X Weeks
    BY DEF Sheets
  <2>4. IsFiniteSet(ks)
    BY <2>1, <2>2, FS_Subset
  <2>. QED BY <1>1, <2>2, <2>3, <2>4
<1>7. /\ row.total = SheetHours(ks)
      /\ row.normal + row.overtime = row.total
      /\ row.billable + row.nonBillable = row.total
  BY <1>5, <1>6, SummaryAdds
<1>8. his = EntriesIn(ks)
  <2>1. ASSUME NEW i \in his PROVE i \in EntriesIn(ks)
    <3>1. PICK k \in ks : i \in EntriesOf(o, k[2])
      BY <1>2, <2>1
    <3>2. k = <<o, k[2]>>
      BY <1>6
    <3>. QED BY <3>1, <3>2 DEF EntriesOf, EntriesIn, SheetOf
  <2>2. ASSUME NEW i \in EntriesIn(ks) PROVE i \in his
    <3>1. PICK k \in ks : i \in DOMAIN entry /\ k = <<entry[i].owner, entry[i].week>>
      BY DEF EntriesIn, SheetOf
    <3>2. i \in EntriesOf(o, k[2])
      BY <1>6, <3>1 DEF EntriesOf
    <3>. QED BY <1>2, <3>2
  <2>. QED BY <2>1, <2>2
<1>9. SheetHours(ks) = Hours(his)
  BY <1>6, <1>8, HoursBySheet
<1>10. his \subseteq DOMAIN entry
  BY <1>8 DEF EntriesIn
<1>11. Total(days) = Hours(his)
  <2>1. \A i \in his : entry[i].day \in Days
    BY <1>10, EntryPlaced
  <2>. QED BY <1>4, <1>10, <2>1, DaysFinite, HoursByDay
<1>12. Total(sites) = Hours(his)
  <2>1. PICK key : key = PlaceOf
    OBVIOUS
  <2>2. \A i \in his : key[i] = entry[i].site
    BY <1>10, <2>1 DEF PlaceOf
  <2>3. Keys(key, his) = places
    BY <1>3, <2>2 DEF Keys
  <2>4. IsFiniteSet(places)
    BY <1>10, <2>3, HoursAdd, GroupsFinite
  <2>5. ASSUME NEW s \in places PROVE sites[s] = Hours({i \in his : key[i] = s})
    <3>1. {i \in his : key[i] = s} = {i \in his : entry[i].site = s}
      BY <2>2
    <3>. QED BY <1>4, <3>1
  <2>6. DOMAIN sites = places /\ \A i \in his : key[i] \in places
    BY <1>3, <1>4, <2>2
  <2>. QED BY <1>10, <2>4, <2>5, <2>6, HoursByKey
<1>. QED BY <1>5, <1>7, <1>9, <1>11, <1>12

\* Every entry is dated in the week of its sheet.
Dated == \A i \in DOMAIN entry : entry[i].day \in FirstOf(entry[i].week)..LastOf(entry[i].week)

LEMMA DatedEntry ==
  ASSUME RowsInv, Dated, NEW w1 \in Weeks, NEW w2 \in Weeks, NEW i \in DOMAIN entry,
         NEW k, k = SheetOf[i]
  PROVE  /\ k \in Users \X Weeks /\ k = <<entry[i].owner, entry[i].week>>
         /\ k[1] = entry[i].owner /\ k[2] = entry[i].week /\ sheet[k] # "NONE"
         /\ entry[i].day \in FirstOf(w1)..LastOf(w2)
              <=> FirstOf(k[2]) >= FirstOf(w1) /\ LastOf(k[2]) <= LastOf(w2)
         /\ entry[i].day \in FirstOf(w1)..LastOf(w1) <=> k[2] = w1
<1>1. PICK w, d : w = entry[i].week /\ d = entry[i].day
  OBVIOUS
<1>2. k = <<entry[i].owner, w>>
  BY <1>1 DEF SheetOf
<1>3. entry[i].owner \in Users /\ w \in Weeks
  BY <1>1, EntryPlaced
<1>4. d \in FirstOf(w)..LastOf(w)
  BY <1>1 DEF Dated
<1>5. /\ d \in FirstOf(w1)..LastOf(w2)
           <=> FirstOf(w) >= FirstOf(w1) /\ LastOf(w) <= LastOf(w2)
      /\ d \in FirstOf(w1)..LastOf(w1) <=> w = w1
  BY <1>3, <1>4, EntryInPeriod
<1>6. sheet[k] # "NONE"
  BY <1>1, <1>2 DEF RowsInv
<1>7. k \in Users \X Weeks /\ k[1] = entry[i].owner /\ k[2] = w
  BY <1>2, <1>3
<1>. QED BY <1>1, <1>2, <1>5, <1>6, <1>7

\* The approved sheets of an employee.
ApprovedSheets(v, o, from, to) ==
  {k \in Sheets(v, from, to) : k[1] = o /\ sheet[k] = "APPROVED"}

\* Payroll has their hours.
LEMMA PayrollOfSheets ==
  ASSUME RowsInv, Dated, NEW v, NEW w1 \in Weeks, NEW w2 \in Weeks,
         NEW pay, pay = Payroll(v, FirstOf(w1), LastOf(w2)).rows, NEW o \in DOMAIN pay
  PROVE  pay[o].billable + pay[o].nonBillable =
           SheetHours(ApprovedSheets(v, o, FirstOf(w1), LastOf(w2)))
<1>1. PICK from, to, ks : /\ from = FirstOf(w1) /\ to = LastOf(w2)
                          /\ ks = ApprovedSheets(v, o, from, to)
  OBVIOUS
<1>2. /\ o \in Owners(Punches(v, Approved(from, to)))
      /\ pay[o] = PayrollRow(o, from, to)
  BY <1>1, PayrollMade
<1>3. o \in ManagedUsers(v)
  BY <1>2, ApprovedRows DEF Owners
<1>4. PICK is : is = {i \in DOMAIN entry :
                        /\ entry[i].owner = o /\ entry[i].day \in from..to
                        /\ sheet[<<o, entry[i].week>>] = "APPROVED"}
  OBVIOUS
<1>5. pay[o].billable = Hours(Billable(is)) /\ pay[o].nonBillable = Hours(is \ Billable(is))
  BY <1>2, <1>4 DEF PayrollRow
<1>6. is \subseteq DOMAIN entry
  BY <1>4
<1>7. Hours(is) = Hours(Billable(is)) + Hours(is \ Billable(is))
  BY <1>6, HoursByKind
<1>8. ks = {k \in Sheets(v, from, to) : k[1] = o /\ sheet[k] = "APPROVED"}
  BY <1>1 DEF ApprovedSheets
<1>9. IsFiniteSet(ks) /\ ks \subseteq Users \X Weeks
  <2>1. IsFiniteSet(Sheets(v, from, to))
    BY SheetsSeen
  <2>2. ks \in SUBSET Sheets(v, from, to)
    BY <1>8
  <2>3. Sheets(v, from, to) \subseteq Users \X Weeks
    BY DEF Sheets
  <2>4. IsFiniteSet(ks)
    BY <2>1, <2>2, FS_Subset
  <2>. QED BY <2>2, <2>3, <2>4
<1>10. ASSUME NEW i \in DOMAIN entry PROVE i \in is <=> SheetOf[i] \in ks
  <2>1. PICK k : k = SheetOf[i]
    OBVIOUS
  <2>2. /\ k \in Users \X Weeks /\ k = <<entry[i].owner, entry[i].week>>
        /\ k[1] = entry[i].owner /\ k[2] = entry[i].week /\ sheet[k] # "NONE"
        /\ entry[i].day \in from..to <=> FirstOf(k[2]) >= from /\ LastOf(k[2]) <= to
    BY <1>1, <2>1, DatedEntry
  <2>3. k \in ks <=> k \in Sheets(v, from, to) /\ k[1] = o /\ sheet[k] = "APPROVED"
    BY <1>8
  <2>4. k \in Sheets(v, from, to) <=>
          /\ k \in Users \X Weeks /\ sheet[k] # "NONE" /\ k[1] \in ManagedUsers(v)
          /\ k[1] = v \/ sheet[k] # "DRAFT"
          /\ FirstOf(k[2]) >= from /\ LastOf(k[2]) <= to
    BY SheetsSeen
  <2>5. i \in is <=> k[1] = o /\ sheet[k] = "APPROVED" /\ entry[i].day \in from..to
    BY <1>4, <2>2
  <2>. QED BY <1>3, <2>1, <2>2, <2>3, <2>4, <2>5
<1>11. is = EntriesIn(ks)
  BY <1>6, <1>10 DEF EntriesIn
<1>12. SheetHours(ks) = Hours(is)
  BY <1>9, <1>11, HoursBySheet
<1>. QED BY <1>1, <1>5, <1>7, <1>12

\* The entries of these days, whatever their sheets.
EntriesDated(from, to) == {i \in DOMAIN entry : entry[i].day \in from..to}

\* The hours of the sites, billable or not, are those of the entries of the period.
LEMMA SitesAdd ==
  ASSUME RowsInv, NEW from, NEW to, NEW R, R = SiteWorkload(from, to),
         NEW is, is = EntriesDated(from, to)
  PROVE  Field(R, "billable") + Field(R, "nonBillable") = Hours(is)
<1>1. PICK key, K : key = PlaceOf /\ K = {entry[i].site : i \in is}
  OBVIOUS
<1>2. is \subseteq DOMAIN entry
  BY DEF EntriesDated
<1>3. \A i \in is : key[i] = entry[i].site /\ key[i] \in K
  BY <1>1, <1>2 DEF PlaceOf
<1>4. IsFiniteSet(K)
  <2>1. Keys(key, is) = K
    BY <1>1, <1>3 DEF Keys
  <2>2. IsFiniteSet(is)
    BY <1>2, HoursAdd
  <2>. QED BY <2>1, <2>2, GroupsFinite
<1>5. PICK rows : rows = [s \in K |-> {i \in is : key[i] = s}]
  OBVIOUS
<1>6. PICK t, b, x : /\ t = [s \in K |-> Hours(rows[s])]
                     /\ b = [s \in K |-> Hours(Billable(rows[s]))]
                     /\ x = [s \in K |-> Hours(rows[s] \ Billable(rows[s]))]
  OBVIOUS
<1>7. R = [s \in K |-> WorkloadRow({i \in is : entry[i].site = s})]
  BY <1>1 DEF SiteWorkload, EntriesDated
<1>8. ASSUME NEW s \in K
      PROVE  /\ R[s].billable = b[s] /\ R[s].nonBillable = x[s]
             /\ b[s] \in Nat /\ x[s] \in Nat /\ t[s] = b[s] + x[s]
  <2>1. PICK here : here = rows[s]
    OBVIOUS
  <2>2. here = {i \in is : entry[i].site = s}
    BY <1>3, <1>5, <2>1
  <2>3. here \subseteq DOMAIN entry
    BY <1>2, <2>2
  <2>4. /\ Hours(here) = Hours(Billable(here)) + Hours(here \ Billable(here))
        /\ Hours(Billable(here)) \in Nat /\ Hours(here \ Billable(here)) \in Nat
    BY <2>3, HoursByKind
  <2>5. R[s] = WorkloadRow(here)
    BY <1>7, <2>2
  <2>6. /\ R[s].billable = Hours(Billable(here))
        /\ R[s].nonBillable = Hours(here \ Billable(here))
    BY <2>5 DEF WorkloadRow
  <2>7. /\ t[s] = Hours(here) /\ b[s] = Hours(Billable(here))
        /\ x[s] = Hours(here \ Billable(here))
    BY <1>6, <2>1
  <2>. QED BY <2>4, <2>6, <2>7
<1>9. DOMAIN t = K
  BY <1>6
<1>10. \A s \in K : t[s] = Hours({i \in is : key[i] = s})
  BY <1>5, <1>6
<1>11. \A i \in is : key[i] \in K
  BY <1>3
<1>12. Total(t) = Hours(is) /\ Total(t) = SumIn(t, K)
  BY <1>2, <1>4, <1>9, <1>10, <1>11, HoursByKey
<1>13. SumIn(t, K) = SumIn(b, K) + SumIn(x, K)
  BY <1>4, <1>8, SumOfBoth
<1>14. DOMAIN R = K
  BY <1>7
<1>15. Field(R, "billable") = SumIn(b, K)
  BY <1>4, <1>8, <1>14, FieldTotal
<1>16. Field(R, "nonBillable") = SumIn(x, K)
  BY <1>4, <1>8, <1>14, FieldTotal
<1>. QED BY <1>12, <1>13, <1>15, <1>16

\* The drafts of the others, which a reader is not shown: of a period, or of the
\* week and his team.
DraftsWithin(v, from, to) == {k \in Drafts(v) : FirstOf(k[2]) >= from /\ LastOf(k[2]) <= to}

DraftsOfTeam(v, w) == {k \in Drafts(v) : k[2] = w /\ k[1] \in ManagedUsers(v)}

LEMMA DraftsFinite ==
  ASSUME RowsInv, NEW v, NEW ks, ks \subseteq Drafts(v)
  PROVE  IsFiniteSet(ks) /\ ks \subseteq Users \X Weeks
<1>1. ks \in SUBSET Begun
  BY DEF Drafts, Begun
<1>2. IsFiniteSet(Begun)
  BY DEF RowsInv
<1>3. IsFiniteSet(ks)
  BY <1>1, <1>2, FS_Subset
<1>. QED BY <1>3 DEF Drafts

\* To who sees everybody, the sites have the hours of the sheets he is shown and of
\* the drafts of the others.
LEMMA SitesOfSheets ==
  ASSUME RowsInv, Dated, NEW v, role[v] \in Unrestricted, NEW w1 \in Weeks, NEW w2 \in Weeks,
         NEW R, R = SiteWorkload(FirstOf(w1), LastOf(w2))
  PROVE  Field(R, "billable") + Field(R, "nonBillable") =
           SheetHours(Sheets(v, FirstOf(w1), LastOf(w2)))
             + SheetHours(DraftsWithin(v, FirstOf(w1), LastOf(w2)))
<1>1. PICK from, to : from = FirstOf(w1) /\ to = LastOf(w2)
  OBVIOUS
<1>2. PICK is, shown, hidden : /\ is = EntriesDated(from, to)
                               /\ shown = Sheets(v, from, to)
                               /\ hidden = DraftsWithin(v, from, to)
  OBVIOUS
<1>3. Field(R, "billable") + Field(R, "nonBillable") = Hours(is)
  BY <1>1, <1>2, SitesAdd
<1>4. is \subseteq DOMAIN entry
  BY <1>2 DEF EntriesDated
<1>5. IsFiniteSet(shown) /\ shown \subseteq Users \X Weeks
  <2>1. IsFiniteSet(shown)
    BY <1>2, SheetsSeen
  <2>. QED BY <1>2, <2>1 DEF Sheets
<1>6. IsFiniteSet(hidden) /\ hidden \subseteq Users \X Weeks
  <2>1. hidden \subseteq Drafts(v)
    BY <1>2 DEF DraftsWithin
  <2>. QED BY <2>1, DraftsFinite
<1>7. ASSUME NEW i \in DOMAIN entry
      PROVE  /\ i \in EntriesIn(shown) => i \in is
             /\ i \in EntriesIn(hidden) <=> i \in is /\ i \notin EntriesIn(shown)
  <2>1. PICK k : k = SheetOf[i]
    OBVIOUS
  <2>2. /\ k \in Users \X Weeks /\ k = <<entry[i].owner, entry[i].week>>
        /\ k[1] = entry[i].owner /\ k[2] = entry[i].week /\ sheet[k] # "NONE"
        /\ entry[i].day \in from..to <=> FirstOf(k[2]) >= from /\ LastOf(k[2]) <= to
    BY <1>1, <2>1, DatedEntry
  <2>3. k[1] \in ManagedUsers(v)
    BY <2>2 DEF ManagedUsers
  <2>4. k \in Sheets(v, from, to) <=>
          /\ k \in Users \X Weeks /\ sheet[k] # "NONE" /\ k[1] \in ManagedUsers(v)
          /\ k[1] = v \/ sheet[k] # "DRAFT"
          /\ FirstOf(k[2]) >= from /\ LastOf(k[2]) <= to
    BY SheetsSeen
  <2>5. k \in hidden <=> /\ k \in Users \X Weeks /\ k[1] # v /\ sheet[k] = "DRAFT"
                         /\ FirstOf(k[2]) >= from /\ LastOf(k[2]) <= to
    BY <1>2 DEF DraftsWithin, Drafts
  <2>6. /\ i \in is <=> entry[i].day \in from..to
        /\ i \in EntriesIn(shown) <=> k \in Sheets(v, from, to)
        /\ i \in EntriesIn(hidden) <=> k \in hidden
    BY <1>2, <2>1 DEF EntriesDated, EntriesIn
  <2>. QED BY <2>2, <2>3, <2>4, <2>5, <2>6
<1>8. /\ EntriesIn(shown) \subseteq is
      /\ EntriesIn(hidden) = is \ EntriesIn(shown)
  <2>1. /\ EntriesIn(shown) \subseteq DOMAIN entry
        /\ EntriesIn(hidden) \subseteq DOMAIN entry
    BY DEF EntriesIn
  <2>. QED BY <1>4, <1>7, <2>1
<1>9. Hours(is) = Hours(EntriesIn(shown)) + Hours(EntriesIn(hidden))
  BY <1>4, <1>8, HoursSplit
<1>10. SheetHours(shown) = Hours(EntriesIn(shown))
  BY <1>5, HoursBySheet
<1>11. SheetHours(hidden) = Hours(EntriesIn(hidden))
  BY <1>6, HoursBySheet
<1>. QED BY <1>1, <1>2, <1>3, <1>9, <1>10, <1>11

\* The days of the dashboard have the hours of its counter and of the drafts of the
\* others of the team.
LEMMA BoardOfSheets ==
  ASSUME RowsInv, Dated, NEW v, NEW w \in Weeks, NEW board, board = Dashboard(v, w)
  PROVE  Total(board.hoursByDay) = board.weeklyHours + SheetHours(DraftsOfTeam(v, w))
<1>1. PICK from, to : from = FirstOf(w) /\ to = LastOf(w)
  OBVIOUS
<1>2. PICK is : is = {i \in DOMAIN entry : /\ entry[i].day \in from..to
                                           /\ entry[i].owner \in ManagedUsers(v)}
  OBVIOUS
<1>3. PICK seen : seen = {i \in is : \/ entry[i].owner = v
                                     \/ sheet[<<entry[i].owner, entry[i].week>>] # "DRAFT"}
  OBVIOUS
<1>4. PICK g : g = [d \in from..to |-> DayHours(is, d)]
  OBVIOUS
<1>5. board.weeklyHours = Hours(seen) /\ board.hoursByDay = g
  BY <1>1, <1>2, <1>3, <1>4 DEF Dashboard, DayHours
<1>6. PICK hidden : hidden = DraftsOfTeam(v, w)
  OBVIOUS
<1>7. is \subseteq DOMAIN entry /\ seen \subseteq is
  BY <1>2, <1>3
<1>8. Total(g) = Hours(is)
  <2>1. from \in Int /\ to \in Int
    BY <1>1, WeeksInOrder
  <2>2. IsFiniteSet(from..to)
    BY <2>1, FS_Interval
  <2>3. \A i \in is : entry[i].day \in from..to
    BY <1>2
  <2>4. is \subseteq DOMAIN entry
    BY <1>7
  <2>. QED BY <1>4, <2>2, <2>3, <2>4, HoursByDay
<1>9. ASSUME NEW i \in DOMAIN entry
      PROVE  i \in EntriesIn(hidden) <=> i \in is /\ i \notin seen
  <2>1. PICK k : k = SheetOf[i]
    OBVIOUS
  <2>2. /\ k \in Users \X Weeks /\ k = <<entry[i].owner, entry[i].week>>
        /\ k[1] = entry[i].owner /\ k[2] = entry[i].week
        /\ entry[i].day \in from..to <=> k[2] = w
    BY <1>1, <2>1, DatedEntry
  <2>3. i \in is <=> k[2] = w /\ k[1] \in ManagedUsers(v)
    BY <1>2, <2>2
  <2>4. i \in seen <=> i \in is /\ (k[1] = v \/ sheet[k] # "DRAFT")
    BY <1>3, <2>2
  <2>5. k \in hidden <=> /\ k \in Users \X Weeks /\ k[1] # v /\ sheet[k] = "DRAFT"
                         /\ k[2] = w /\ k[1] \in ManagedUsers(v)
    BY <1>6 DEF DraftsOfTeam, Drafts
  <2>6. i \in EntriesIn(hidden) <=> k \in hidden
    BY <2>1 DEF EntriesIn
  <2>. QED BY <2>2, <2>3, <2>4, <2>5, <2>6
<1>10. EntriesIn(hidden) = is \ seen
  <2>1. EntriesIn(hidden) \subseteq DOMAIN entry
    BY DEF EntriesIn
  <2>. QED BY <1>7, <1>9, <2>1
<1>11. Hours(is) = Hours(seen) + Hours(EntriesIn(hidden))
  BY <1>7, <1>10, HoursSplit
<1>12. SheetHours(hidden) = Hours(EntriesIn(hidden))
  <2>1. hidden \subseteq Drafts(v)
    BY <1>6 DEF DraftsOfTeam
  <2>2. IsFiniteSet(hidden) /\ hidden \subseteq Users \X Weeks
    BY <2>1, DraftsFinite
  <2>. QED BY <2>2, HoursBySheet
<1>. QED BY <1>5, <1>6, <1>8, <1>11, <1>12

LEMMA SheetReportsFromRows ==
  ASSUME RowsInv, NEW v, NEW w1 \in Weeks, NEW w2 \in Weeks
  PROVE  SheetReportsAgree(v, FirstOf(w1), LastOf(w2))
<1>1. PICK from, to : from = FirstOf(w1) /\ to = LastOf(w2)
  OBVIOUS
<1>2. PICK book, shown, pay, sites : /\ book = Workbook(v, from, to)
                                     /\ shown = Sheets(v, from, to)
                                     /\ pay = Payroll(v, from, to).rows
                                     /\ sites = SiteWorkload(from, to)
  OBVIOUS
<1>3. ASSUME NEW o \in DOMAIN book
      PROVE  /\ book[o].summary.normal + book[o].summary.overtime = book[o].summary.total
             /\ book[o].summary.billable + book[o].summary.nonBillable = book[o].summary.total
             /\ Total(book[o].columns) = book[o].summary.total
             /\ Total(book[o].rows) = book[o].summary.total
  BY <1>2, WorkbookAdds
<1>4. ASSUME Dated, NEW o \in DOMAIN pay
      PROVE  pay[o].billable + pay[o].nonBillable = SheetHours(ApprovedSheets(v, o, from, to))
  BY <1>1, <1>2, <1>4, PayrollOfSheets
<1>5. ASSUME Dated, role[v] \in Unrestricted
      PROVE  Field(sites, "billable") + Field(sites, "nonBillable") =
               SheetHours(shown) + SheetHours(DraftsWithin(v, from, to))
  BY <1>1, <1>2, <1>5, SitesOfSheets
<1>6. ASSUME Dated, NEW w \in {k[2] : k \in shown}
      PROVE  Total(Dashboard(v, w).hoursByDay) =
               Dashboard(v, w).weeklyHours + SheetHours(DraftsOfTeam(v, w))
  <2>1. w \in Weeks
    BY <1>2 DEF Sheets
  <2>. QED BY <1>6, <2>1, BoardOfSheets
<1>. QED BY <1>1, <1>2, <1>3, <1>4, <1>5, <1>6
     DEF SheetReportsAgree, Dated, ApprovedSheets, DraftsWithin, DraftsOfTeam

---------------------------------------------------------------------------

LEMMA AgreeFromRows == RowsInv /\ OrgTypeOK => ReportsAgree
<1> SUFFICES ASSUME RowsInv, OrgTypeOK PROVE ReportsAgree
  OBVIOUS
<1>1. ASSUME NEW v, NEW from \in Days, NEW to \in Days PROVE PunchReportsAgree(v, from, to)
  <2>1. from \in Int /\ to \in Int
    BY ReportsAssumption DEF Days
  <2>. QED BY <2>1, PunchReportsFromRows
<1>2. ASSUME NEW v
      PROVE  /\ \A fd \in {"approved", "pending", "rejected"} :
                  Counters(v)[fd] = HrDashboard(v, 1, LastDay)[fd]
             /\ Counters(v).approved + Counters(v).pending + Counters(v).rejected
                  + Counters(v).drafts = HrDashboard(v, 1, LastDay).total
  BY CountersFromRows
<1>3. ASSUME NEW v, NEW w1 \in Weeks, NEW w2 \in Weeks
      PROVE  SheetReportsAgree(v, FirstOf(w1), LastOf(w2))
  BY SheetReportsFromRows
<1>. QED BY <1>1, <1>2, <1>3 DEF ReportsAgree

LEMMA TablesAlways == ReportsSpec => [](RowsInv /\ OrgTypeOK)
<1>1. ReportsInit => RowsInv /\ OrgTypeOK
  BY RowsBegin, OrgInitType DEF ReportsInit
<1>2. ASSUME RowsInv, OrgTypeOK, [ReportsNext]_<<orgVars, repVars>>
      PROVE  RowsInv' /\ OrgTypeOK'
  <2>1. RowsInv'
    BY <1>2, RowsStep
  <2>2. UNCHANGED orgVars
    BY <1>2 DEF ReportsNext
  <2>3. OrgTypeOK'
    BY <1>2, <2>2 DEF orgVars, people, OrgTypeOK
  <2>. QED BY <2>1, <2>3
<1>. QED BY <1>1, <1>2, PTL DEF ReportsSpec

\* Two reports of one reader on one period never contradict each other: the minutes
\* of punches by employee, by site, in the list, in the month and on the dashboard;
\* the hours of sheets in the workbook, in payroll, by site and on the dashboard; and
\* the counters of sheets (reports.service.ts, dashboard.service.ts).
THEOREM ReportsAlwaysAgree == ReportsSpec => []ReportsAgree
BY TablesAlways, AgreeFromRows, PTL

============================================================================
