-------------------------- MODULE CategoryDbProofs --------------------------
(***************************************************************************)
(* Careful callers keep the ranking exact, and see a ranked list, for any  *)
(* set of categories, any set of ranks asked for and any RANK_MAX above    *)
(* the table's size.                                                       *)
(*                                                                         *)
(* The argument for the list: in an exact ranking the place of a category  *)
(* is its rank, so a list with the new ranks in order is the new list.     *)
(***************************************************************************)
EXTENDS CategoryDbProps, CategoryTableProofs, FiniteSetTheorems, SequenceTheorems, TLAPS

IInv == TypeOK /\ RanksExact /\ DisabledParked

-----------------------------------------------------------------------------
(* Counting the enabled categories.                                        *)

\* The enabled categories are finitely many, and fewer than RANK_MAX.
LEMMA EnabledFinite ==
    ASSUME TypeOK
    PROVE  /\ IsFiniteSet(EnabledIds(rows))
           /\ CountOn \in Nat
           /\ CountOn < RankMax
  <1>1. EnabledIds(rows) \in SUBSET Ids
    BY DEF TypeOK, EnabledIds
  <1>2. /\ IsFiniteSet(EnabledIds(rows))
        /\ Cardinality(EnabledIds(rows)) <= Cardinality(Ids)
    BY <1>1, IdsAssumption, FS_Subset
  <1>3. CountOn \in Nat /\ Cardinality(Ids) \in Nat
    BY <1>2, IdsAssumption, FS_CardinalityType DEF CountOn
  <1> QED
    BY <1>2, <1>3, IdsAssumption, RankAssumption DEF CountOn

LEMMA CountIsNat == TypeOK => CountOn \in Nat
  BY EnabledFinite

\* In an exact ranking every rank up to the number of enabled categories is held.
LEMMA EveryRankHeld ==
    ASSUME TypeOK, RanksExact, NEW k \in 1..CountOn
    PROVE  \E id \in EnabledIds(rows) : rows[id].rank = k
  <1> DEFINE E == EnabledIds(rows)
             f == [id \in E |-> rows[id].rank]
  <1>1. IsFiniteSet(E) /\ CountOn \in Nat
    BY EnabledFinite
  <1>2. f \in Injection(E, 1..CountOn)
    BY DEF RanksExact, Injection, IsInjective
  <1>3. IsFiniteSet(1..CountOn) /\ Cardinality(1..CountOn) = CountOn
    BY <1>1, FS_Interval
  <1>4. f \in Surjection(E, 1..CountOn)
    <2> HIDE DEF f
    <2> QED BY <1>2, <1>3, FS_Injection DEF CountOn
  <1> QED
    BY <1>4 DEF Surjection

\* ... so the greatest rank is that number.
LEMMA MaxRankIsCount ==
    ASSUME TypeOK, RanksExact
    PROVE  MaxRank(rows) = CountOn
  <1> DEFINE R == {rows[id].rank : id \in EnabledIds(rows)}
  <1>1. IsFiniteSet(EnabledIds(rows)) /\ CountOn \in Nat
    BY EnabledFinite
  <1>2. CASE EnabledIds(rows) = {}
    BY <1>2, FS_EmptySet DEF MaxRank, CountOn
  <1>3. CASE EnabledIds(rows) # {}
    <2>1. CountOn # 0
      BY <1>1, <1>3, FS_EmptySet DEF CountOn
    <2>2. CountOn \in R
      BY <1>1, <2>1, EveryRankHeld
    <2>3. \A r \in R : r \in Int /\ r <= CountOn
      BY <1>1 DEF RanksExact
    <2>4. ASSUME NEW m \in R, \A r \in R : m >= r
          PROVE  m = CountOn
      <3>1. m >= CountOn
        BY <2>2, <2>4
      <3>2. m \in Int /\ m <= CountOn
        BY <2>3
      <3> QED
        BY <1>1, <3>1, <3>2
    <2>5. \A r \in R : CountOn >= r
      BY <1>1, <2>3
    <2>6. Max(R) = CountOn
      <3> HIDE DEF R
      <3> QED BY <2>2, <2>4, <2>5 DEF Max
    <2> QED
      BY <1>3, <2>6 DEF MaxRank
  <1> QED
    BY <1>2, <1>3

-----------------------------------------------------------------------------
(* adjustOrCreateCategory and removeCategory.                              *)

\* Whether the insert works or not, the table keeps its shape.
LEMMA CreateType ==
    ASSUME TypeOK, NEW id \in Ids, NEW name \in Names, NEW ok \in BOOLEAN,
           AdjustOrCreateCategory(id, name, ok)
    PROVE  TypeOK'
  <1>1. AdjustOrCreate(rows, id, name) \in [DOMAIN rows \cup {id} -> Row(Names)]
    BY EnabledFinite, CreationTyped DEF TypeOK
  <1> QED
    BY <1>1 DEF AdjustOrCreateCategory, TypeOK

\* A row that is known is left alone; a new one goes after the last.
LEMMA CreateEffect ==
    ASSUME TypeOK, RanksExact, NEW id \in Ids, NEW name \in Names,
           AdjustOrCreateCategory(id, name, TRUE)
    PROVE  \/ rows' = rows
           \/ /\ id \notin DOMAIN rows
              /\ DOMAIN rows' = DOMAIN rows \cup {id}
              /\ \A i \in DOMAIN rows : rows'[i] = rows[i]
              /\ rows'[id] = [rank |-> CountOn + 1, enabled |-> TRUE, name |-> name]
  <1>1. CASE id \in DOMAIN rows
    BY <1>1 DEF AdjustOrCreateCategory, AdjustOrCreate, TypeOK
  <1>2. CASE id \notin DOMAIN rows
    BY <1>2, MaxRankIsCount DEF AdjustOrCreateCategory, AdjustOrCreate, NewRow
  <1> QED
    BY <1>1, <1>2

LEMMA CreateExact ==
    ASSUME TypeOK, RanksExact, NEW id \in Ids, NEW name \in Names,
           AdjustOrCreateCategory(id, name, TRUE)
    PROVE  RanksExact'
  <1> DEFINE n == CountOn
  <1>1. n \in Nat /\ IsFiniteSet(EnabledIds(rows))
    BY EnabledFinite
  <1>2. CASE rows' = rows
    BY <1>2 DEF RanksExact, CountOn
  <1>3. CASE rows' # rows
    <2>1. /\ id \notin DOMAIN rows
          /\ DOMAIN rows' = DOMAIN rows \cup {id}
          /\ \A i \in DOMAIN rows : rows'[i] = rows[i]
          /\ rows'[id] = [rank |-> n + 1, enabled |-> TRUE, name |-> name]
      BY <1>3, CreateEffect
    <2>2. EnabledIds(rows') = EnabledIds(rows) \cup {id}
      BY <2>1 DEF EnabledIds
    <2>3. id \notin EnabledIds(rows)
      BY <2>1 DEF EnabledIds
    <2>4. CountOn' = n + 1
      BY <1>1, <2>2, <2>3, FS_AddElement DEF CountOn
    <2>5. \A i \in EnabledIds(rows) : rows'[i] = rows[i]
      BY <2>1 DEF EnabledIds
    <2> QED
      BY <1>1, <2>1, <2>2, <2>4, <2>5 DEF RanksExact
  <1> QED
    BY <1>2, <1>3

\* removeCategory asks for a statement that is not prepared, and changes nothing.
LEMMA RemoveNothing ==
    ASSUME NEW id \in Ids, RemoveCategory(id)
    PROVE  rows' = rows
  BY DEF RemoveCategory, DeleteRow, RemovalSucceeds, PreparedStatements

-----------------------------------------------------------------------------
(* updateCategory, whoever calls it.                                       *)

\* The rank asked for is brought into the list as it will be.
LEMMA ReRangedBounds ==
    ASSUME TypeOK, NEW id \in Ids, NEW rank \in Int, NEW enabled \in BOOLEAN
    PROVE  /\ CountEnabled(rows, id, enabled) \in Nat
           /\ CountEnabled(rows, id, enabled) < RankMax
           /\ ReRanged(rows, id, rank, enabled) \in 0..CountEnabled(rows, id, enabled)
           /\ CountEnabled(rows, id, enabled) # 0
                => ReRanged(rows, id, rank, enabled) >= 1
           /\ rank \in 1..CountEnabled(rows, id, enabled)
                => ReRanged(rows, id, rank, enabled) = rank
  <1> DEFINE S == EnabledIds(rows) \cup (IF enabled THEN {id} ELSE {})
  <1>1. S \subseteq Ids
    BY DEF TypeOK, EnabledIds
  <1>2. IsFiniteSet(S) /\ Cardinality(S) <= Cardinality(Ids)
    BY <1>1, IdsAssumption, FS_Subset
  <1>3. Cardinality(S) \in Nat /\ Cardinality(Ids) \in Nat
    BY <1>2, IdsAssumption, FS_CardinalityType
  <1>4. CountEnabled(rows, id, enabled) = Cardinality(S)
    BY DEF CountEnabled
  <1>5. Cardinality(S) < RankMax
    BY <1>2, <1>3, IdsAssumption, RankAssumption
  <1> HIDE DEF S
  <1> QED
    BY <1>3, <1>4, <1>5 DEF ReRanged, Clamp

\* Whatever fails, updateCategory keeps the shape of the table.
LEMMA UpdateType ==
    ASSUME TypeOK, NEW id \in Ids, NEW rank \in Int, NEW enabled \in BOOLEAN,
           NEW name \in Names \cup {NoName},
           NEW shiftOk \in BOOLEAN, NEW writeOk \in BOOLEAN,
           UpdateCategory(id, rank, enabled, name, shiftOk, writeOk)
    PROVE  TypeOK'
  <1>1. IsFiniteSet(EnabledIds(rows)) /\ RankMax \in Int /\ rows \in [DOMAIN rows -> Row(Names)]
    BY EnabledFinite, RankAssumption DEF TypeOK
  <1>2. Updated(rows, id, rank, enabled, name, shiftOk, writeOk) \in [DOMAIN rows -> Row(Names)]
    BY <1>1, UpdateTyped
  <1> QED
    BY <1>2 DEF TypeOK, UpdateCategory

\* With both statements done, the row holds what was written and every other
\* row only had its rank shifted.
LEMMA UpdateEffect ==
    ASSUME TypeOK, NEW id \in Ids, NEW rank \in Int, NEW enabled \in BOOLEAN,
           NEW name \in Names \cup {NoName}, Found(rows, id),
           UpdateCategory(id, rank, enabled, name, TRUE, TRUE)
    PROVE  /\ DOMAIN rows' = DOMAIN rows
           /\ rows'[id] = UpdatedRow(rows, id, rank, enabled, name)
           /\ \A i \in DOMAIN rows \ {id} :
                /\ rows'[i] = ShiftOthers(rows, id, rank, enabled)[i]
                /\ rows'[i].enabled = rows[i].enabled
  <1> DEFINE shifted == ShiftOthers(rows, id, rank, enabled)
             new == UpdatedRow(rows, id, rank, enabled, name)
  <1>1. id \in DOMAIN rows
    BY DEF Found
  <1>2. /\ shifted \in [DOMAIN rows -> Row(Names)]
        /\ \A i \in DOMAIN rows : shifted[i].enabled = rows[i].enabled
    BY ShiftOthersTyped DEF TypeOK
  <1>3. rows' = [shifted EXCEPT ![id] = new]
    BY DEF UpdateCategory, Updated
  <1>4. /\ DOMAIN rows' = DOMAIN rows
        /\ rows'[id] = new
        /\ \A i \in DOMAIN rows \ {id} :
             rows'[i] = shifted[i] /\ rows'[i].enabled = rows[i].enabled
    <2> HIDE DEF shifted, new
    <2> QED BY <1>1, <1>2, <1>3
  <1> QED
    BY <1>4

\* The rank another enabled row has after updateCategory.
Shifted(r, old, new) ==
    IF old < new THEN IF old < r /\ r <= new THEN r - 1 ELSE r
    ELSE IF new <= r /\ r < old THEN r + 1 ELSE r

\* Moving one element from old to new within 1..m makes room for it and keeps
\* the others apart: the arithmetic of updateRanks' two ranges.
LEMMA ShiftMakesRoom ==
    ASSUME NEW n \in Nat, NEW m \in {n, n + 1}, NEW old \in Int, NEW new \in 1..m,
           old >= 1, m = n => old <= n, m = n + 1 => old > n
    PROVE  /\ \A r \in 1..n : r # old =>
                Shifted(r, old, new) \in 1..m /\ Shifted(r, old, new) # new
           /\ \A r, s \in 1..n : r # old /\ s # old /\ r # s =>
                Shifted(r, old, new) # Shifted(s, old, new)
  BY DEF Shifted

\* The first statement for a category switched off: those from its place on move up.
LEMMA GapCloses ==
    ASSUME TypeOK, RanksExact, NEW id \in EnabledIds(rows), NEW rank
    PROVE  \A i \in EnabledIds(rows) :
             ShiftOthers(rows, id, rank, FALSE)[i].rank =
               IF rows[i].rank >= rows[id].rank THEN rows[i].rank - 1 ELSE rows[i].rank
  <1> DEFINE old == rows[id].rank
  <1>1. CountOn < RankMax /\ CountOn \in Nat /\ RankMax \in Int /\ old \in Int
    BY EnabledFinite, RankAssumption DEF RanksExact
  <1>2. ShiftOthers(rows, id, rank, FALSE) = UpdateRanks(rows, -1, old, RankMax)
    BY DEF ShiftOthers, SwitchesOff, EnabledIds
  <1>3. ASSUME NEW i \in EnabledIds(rows)
        PROVE  UpdateRanks(rows, -1, old, RankMax)[i].rank =
                 IF rows[i].rank >= old THEN rows[i].rank - 1 ELSE rows[i].rank
    <2>1. /\ i \in DOMAIN rows /\ rows[i].enabled /\ rows[i] \in Row(Names)
          /\ rows[i].rank \in Int /\ rows[i].rank <= RankMax
      <3>1. i \in DOMAIN rows /\ rows[i].enabled /\ rows[i].rank \in 1..CountOn
        BY DEF EnabledIds, RanksExact
      <3> QED
        BY <1>1, <3>1 DEF TypeOK
    <2> HIDE DEF old
    <2> QED
      BY <1>1, <2>1 DEF UpdateRanks, Row
  <1> QED
    BY <1>2, <1>3

\* A category switched off leaves the list, and those behind it move up.
LEMMA SwitchOffEffect ==
    ASSUME TypeOK, RanksExact, NEW id \in Ids, NEW rank \in Int,
           NEW name \in Names \cup {NoName}, Found(rows, id), rows[id].enabled,
           UpdateCategory(id, rank, FALSE, name, TRUE, TRUE)
    PROVE  /\ DOMAIN rows' = DOMAIN rows /\ rows'[id].enabled = FALSE
           /\ \A i \in DOMAIN rows \ {id} : rows'[i].enabled = rows[i].enabled
           /\ EnabledIds(rows') = EnabledIds(rows) \ {id} /\ CountOn' = CountOn - 1
           /\ \A i \in EnabledIds(rows) \ {id} :
                rows'[i].rank = IF rows[i].rank >= rows[id].rank
                                THEN rows[i].rank - 1 ELSE rows[i].rank
  <1> DEFINE E == EnabledIds(rows)
             shifted == ShiftOthers(rows, id, rank, FALSE)
  <1>1. /\ DOMAIN rows' = DOMAIN rows
        /\ rows'[id] = UpdatedRow(rows, id, rank, FALSE, name)
        /\ \A i \in DOMAIN rows \ {id} :
             rows'[i] = shifted[i] /\ rows'[i].enabled = rows[i].enabled
    BY UpdateEffect
  <1>2. rows'[id].enabled = FALSE
    BY <1>1 DEF UpdatedRow
  <1>3. id \in E
    BY DEF EnabledIds, Found
  <1>4. EnabledIds(rows') = E \ {id}
    BY <1>1, <1>2, <1>3 DEF EnabledIds
  <1>5. CountOn' = CountOn - 1
    BY <1>3, <1>4, EnabledFinite, FS_RemoveElement DEF CountOn
  <1>6. \A i \in E \ {id} : rows'[i] = shifted[i]
    BY <1>1 DEF EnabledIds
  <1>7. \A i \in E : shifted[i].rank =
           IF rows[i].rank >= rows[id].rank THEN rows[i].rank - 1 ELSE rows[i].rank
    BY <1>3, GapCloses
  <1> HIDE DEF shifted
  <1> QED
    BY <1>1, <1>2, <1>4, <1>5, <1>6, <1>7

\* ... and the ranks stay exact.
LEMMA SwitchOffExact ==
    ASSUME TypeOK, RanksExact, NEW id \in Ids, NEW rank \in Int,
           NEW name \in Names \cup {NoName}, Found(rows, id), rows[id].enabled,
           UpdateCategory(id, rank, FALSE, name, TRUE, TRUE)
    PROVE  RanksExact'
  <1> DEFINE E == EnabledIds(rows)
             old == rows[id].rank
  <1>1. id \in E /\ CountOn \in Nat
    BY EnabledFinite DEF EnabledIds, Found
  <1>2. EnabledIds(rows') = E \ {id}
    BY SwitchOffEffect
  <1>3. CountOn' = CountOn - 1
    BY SwitchOffEffect
  <1>4. \A i \in E \ {id} :
          rows'[i].rank = IF rows[i].rank >= old THEN rows[i].rank - 1 ELSE rows[i].rank
    BY SwitchOffEffect
  <1>5. /\ old \in 1..CountOn
        /\ \A i \in E \ {id} : rows[i].rank \in 1..CountOn /\ rows[i].rank # old
        /\ \A i, j \in E \ {id} : rows[i].rank = rows[j].rank => i = j
    BY <1>1 DEF RanksExact
  <1> HIDE DEF E, old
  <1> QED
    BY <1>1, <1>2, <1>3, <1>4, <1>5 DEF RanksExact

\* The first statement for a category switched on or moved: the others make room.
\* One that is off must have been parked.
LEMMA RoomIsMade ==
    ASSUME TypeOK, RanksExact, NEW id \in Ids, NEW rank \in Int, id \in DOMAIN rows, ~Stray(id)
    PROVE  /\ CountEnabled(rows, id, TRUE) = IF rows[id].enabled THEN CountOn ELSE CountOn + 1
           /\ rows[id].rank \in Int /\ rows[id].rank >= 1
           /\ ReRanged(rows, id, rank, TRUE) \in 1..CountEnabled(rows, id, TRUE)
           /\ rows[id].enabled <=> rows[id].rank <= CountOn
           /\ \A i \in EnabledIds(rows) \ {id} :
                /\ rows[i].rank \in 1..CountOn /\ rows[i].rank # rows[id].rank
                /\ ShiftOthers(rows, id, rank, TRUE)[i].rank =
                     Shifted(rows[i].rank, rows[id].rank, ReRanged(rows, id, rank, TRUE))
           /\ ShiftOthers(rows, id, rank, TRUE)[id].rank = rows[id].rank
  <1> DEFINE E   == EnabledIds(rows)
             old == rows[id].rank
             new == ReRanged(rows, id, rank, TRUE)
             m   == CountEnabled(rows, id, TRUE)
             shifted == ShiftOthers(rows, id, rank, TRUE)
  <1>1. IsFiniteSet(E) /\ CountOn \in Nat /\ CountOn < RankMax /\ RankMax \in Int
    BY EnabledFinite, RankAssumption
  <1>2. rows[id] \in Row(Names) /\ (rows[id].enabled <=> id \in E)
    BY DEF TypeOK, EnabledIds
  <1>3. /\ id \in E => m = CountOn
        /\ id \notin E => m = CountOn + 1
    <2>1. CASE id \in E
      <3>1. E \cup {id} = E
        BY <2>1
      <3> QED
        BY <2>1, <3>1 DEF CountEnabled, CountOn
    <2>2. CASE id \notin E
      BY <1>1, <2>2, FS_AddElement DEF CountEnabled, CountOn
    <2> QED
      BY <2>1, <2>2
  <1>4. m \in Nat /\ m < RankMax /\ new \in 0..m /\ (m # 0 => new >= 1)
        /\ (rank \in 1..m => new = rank)
    BY ReRangedBounds
  <1>5. /\ id \in E => old \in 1..CountOn
        /\ id \notin E => old = RankMax
    BY DEF EnabledIds, RanksExact, Stray
  <1>6. /\ old \in Int /\ old >= 1 /\ new \in 1..m
        /\ m = (IF rows[id].enabled THEN CountOn ELSE CountOn + 1)
        /\ rows[id].enabled <=> old <= CountOn
    <2> HIDE DEF E, old, new, m
    <2> QED BY <1>1, <1>2, <1>3, <1>4, <1>5
  <1>7. \A i \in E \ {id} : rows[i].rank \in 1..CountOn /\ rows[i].rank # old
    BY <1>1, <1>5 DEF RanksExact
  <1>8. CASE rows[id].enabled /\ old = rank
    <2>1. shifted = rows
      BY <1>8 DEF ShiftOthers, SwitchesOff
    <2>2. new = old
      BY <1>2, <1>3, <1>4, <1>5, <1>8
    <2> HIDE DEF E, old, new, m, shifted
    <2>3. \A i \in E \ {id} : shifted[i].rank = Shifted(rows[i].rank, old, new)
      BY <1>6, <1>7, <2>1, <2>2 DEF Shifted
    <2> QED
      BY <1>6, <1>7, <2>1, <2>3 DEF E, old, new, m, shifted
  <1>9. CASE ~(rows[id].enabled /\ old = rank)
    <2>1. shifted = IF old < new THEN UpdateRanks(rows, -1, old + 1, new)
                    ELSE UpdateRanks(rows, 1, new, old - 1)
      BY <1>9 DEF ShiftOthers, SwitchesOff
    <2>2. \A i \in E \ {id} : i \in DOMAIN rows /\ rows[i].enabled /\ rows[i] \in Row(Names)
      BY DEF EnabledIds, TypeOK
    <2>3. old = rows[id].rank
      OBVIOUS
    <2> HIDE DEF E, old, new, m, shifted
    <2>4. ASSUME NEW i \in E \ {id}
          PROVE  shifted[i].rank = Shifted(rows[i].rank, old, new)
      <3>1. i \in DOMAIN rows /\ rows[i].enabled /\ rows[i] \in Row(Names)
        BY <2>2
      <3>2. old \in Int /\ new \in Int /\ rows[i].rank \in Int /\ rows[i].rank # old
        BY <1>6, <1>7
      <3> QED
        BY <2>1, <3>1, <3>2 DEF UpdateRanks, Shifted, Row
    <2>5. shifted[id].rank = old
      <3>1. old \in Int /\ new \in Int
        BY <1>6
      <3> QED
        BY <1>2, <2>1, <2>3, <3>1 DEF UpdateRanks
    <2> QED
      BY <1>6, <1>7, <2>4, <2>5 DEF E, old, new, m, shifted
  <1> QED
    BY <1>8, <1>9

\* A category switched on or moved takes its place, and the others make room.
LEMMA PlaceEffect ==
    ASSUME TypeOK, RanksExact, NEW id \in Ids, NEW rank \in Int,
           NEW name \in Names \cup {NoName}, Found(rows, id), ~Stray(id),
           UpdateCategory(id, rank, TRUE, name, TRUE, TRUE)
    PROVE  /\ DOMAIN rows' = DOMAIN rows /\ rows'[id].enabled
           /\ rows'[id].rank = ReRanged(rows, id, rank, TRUE)
           /\ \A i \in DOMAIN rows \ {id} : rows'[i].enabled = rows[i].enabled
           /\ EnabledIds(rows') = EnabledIds(rows) \cup {id}
           /\ CountOn' = CountEnabled(rows, id, TRUE)
           /\ CountOn' = (IF rows[id].enabled THEN CountOn ELSE CountOn + 1)
           /\ rows[id].rank \in Int /\ rows[id].rank >= 1
           /\ ReRanged(rows, id, rank, TRUE) \in 1..CountOn'
           /\ rows[id].enabled <=> rows[id].rank <= CountOn
           /\ \A i \in EnabledIds(rows) \ {id} :
                /\ rows[i].rank \in 1..CountOn /\ rows[i].rank # rows[id].rank
                /\ rows'[i].rank = Shifted(rows[i].rank, rows[id].rank,
                                           ReRanged(rows, id, rank, TRUE))
  <1> DEFINE E   == EnabledIds(rows)
             new == ReRanged(rows, id, rank, TRUE)
             m   == CountEnabled(rows, id, TRUE)
             shifted == ShiftOthers(rows, id, rank, TRUE)
  <1>1. /\ DOMAIN rows' = DOMAIN rows
        /\ rows'[id] = UpdatedRow(rows, id, rank, TRUE, name)
        /\ \A i \in DOMAIN rows \ {id} :
             rows'[i] = shifted[i] /\ rows'[i].enabled = rows[i].enabled
    BY UpdateEffect
  <1>2. rows'[id].enabled /\ rows'[id].rank = new
    BY <1>1 DEF UpdatedRow, SwitchesOff
  <1>3. id \in DOMAIN rows
    BY DEF Found
  <1>4. EnabledIds(rows') = E \cup {id}
    BY <1>1, <1>2, <1>3 DEF EnabledIds
  <1>5. CountOn' = m
    BY <1>4 DEF CountOn, CountEnabled
  <1>6. \A i \in E \ {id} : rows'[i] = shifted[i]
    BY <1>1 DEF EnabledIds
  <1>7. /\ m = (IF rows[id].enabled THEN CountOn ELSE CountOn + 1)
        /\ rows[id].rank \in Int /\ rows[id].rank >= 1 /\ new \in 1..m
        /\ rows[id].enabled <=> rows[id].rank <= CountOn
        /\ \A i \in E \ {id} :
             /\ rows[i].rank \in 1..CountOn /\ rows[i].rank # rows[id].rank
             /\ shifted[i].rank = Shifted(rows[i].rank, rows[id].rank, new)
    BY <1>3, RoomIsMade
  <1> HIDE DEF E, new, m, shifted
  <1>8. \A i \in E \ {id} : rows'[i].rank = Shifted(rows[i].rank, rows[id].rank, new)
    BY <1>6, <1>7
  <1>9. new \in 1..CountOn' /\ CountOn' = IF rows[id].enabled THEN CountOn ELSE CountOn + 1
    BY <1>5, <1>7
  <1> QED
    BY <1>1, <1>2, <1>4, <1>5, <1>7, <1>8, <1>9 DEF E, new, m

\* ... and the ranks stay exact.
LEMMA PlaceExact ==
    ASSUME TypeOK, RanksExact, NEW id \in Ids, NEW rank \in Int,
           NEW name \in Names \cup {NoName}, Found(rows, id), ~Stray(id),
           UpdateCategory(id, rank, TRUE, name, TRUE, TRUE)
    PROVE  RanksExact'
  <1> DEFINE E == EnabledIds(rows)
             old == rows[id].rank
             new == ReRanged(rows, id, rank, TRUE)
             n == CountOn
             m == CountOn'
  <1>1. n \in Nat /\ \A i, j \in E \ {id} : rows[i].rank = rows[j].rank => i = j
    BY EnabledFinite DEF RanksExact
  <1>2. /\ rows'[id].rank = new /\ EnabledIds(rows') = E \cup {id}
        /\ m = (IF rows[id].enabled THEN n ELSE n + 1)
        /\ old \in Int /\ old >= 1 /\ new \in 1..m /\ (rows[id].enabled <=> old <= n)
        /\ \A i \in E \ {id} : /\ rows[i].rank \in 1..n /\ rows[i].rank # old
                               /\ rows'[i].rank = Shifted(rows[i].rank, old, new)
    BY PlaceEffect
  <1> HIDE DEF E, old, new, n, m
  <1>3. /\ n \in Nat /\ m \in {n, n + 1} /\ old \in Int /\ new \in 1..m /\ old >= 1
        /\ (m = n => old <= n) /\ (m = n + 1 => old > n)
    BY <1>1, <1>2
  <1>4. /\ \A r \in 1..n : r # old =>
             Shifted(r, old, new) \in 1..m /\ Shifted(r, old, new) # new
        /\ \A r, s \in 1..n : r # old /\ s # old /\ r # s =>
             Shifted(r, old, new) # Shifted(s, old, new)
    BY <1>3, ShiftMakesRoom
  <1>5. \A i \in E \cup {id} : rows'[i].rank \in 1..m
    BY <1>2, <1>4
  <1>6. \A i, j \in E \cup {id} : rows'[i].rank = rows'[j].rank => i = j
    BY <1>1, <1>2, <1>4
  <1> QED
    BY <1>2, <1>5, <1>6 DEF RanksExact, m

\* updateCategory keeps an exact ranking unless it switches on a stray.
LEMMA UpdateExact ==
    ASSUME TypeOK, RanksExact, NEW id \in Ids, NEW rank \in Int,
           NEW enabled \in BOOLEAN, NEW name \in Names \cup {NoName},
           id \in DOMAIN rows /\ enabled => ~Stray(id),
           UpdateCategory(id, rank, enabled, name, TRUE, TRUE)
    PROVE  RanksExact'
  <1>1. CASE ~Found(rows, id)
    <2>1. rows' = rows
      BY <1>1 DEF UpdateCategory, Updated
    <2> QED
      BY <2>1 DEF RanksExact, CountOn
  <1>2. CASE Found(rows, id) /\ enabled
    BY <1>2, PlaceExact DEF Found
  <1>3. CASE Found(rows, id) /\ ~enabled /\ rows[id].enabled
    BY <1>3, SwitchOffExact
  <1>4. CASE Found(rows, id) /\ ~enabled /\ ~rows[id].enabled
    <2>1. /\ DOMAIN rows' = DOMAIN rows
          /\ rows'[id] = UpdatedRow(rows, id, rank, enabled, name)
          /\ \A i \in DOMAIN rows \ {id} :
               rows'[i] = ShiftOthers(rows, id, rank, enabled)[i]
      BY <1>4, UpdateEffect
    <2>2. ShiftOthers(rows, id, rank, enabled) = rows
      BY <1>4 DEF ShiftOthers, SwitchesOff
    <2>3. ~rows'[id].enabled
      BY <1>4, <2>1 DEF UpdatedRow
    <2>4. \A i \in DOMAIN rows \ {id} : rows'[i] = rows[i]
      BY <2>1, <2>2
    <2>5. EnabledIds(rows') = EnabledIds(rows)
      BY <1>4, <2>1, <2>3, <2>4 DEF EnabledIds
    <2>6. \A i \in EnabledIds(rows) : rows'[i] = rows[i]
      BY <1>4, <2>4 DEF EnabledIds
    <2> QED
      BY <2>5, <2>6 DEF RanksExact, CountOn
  <1> QED
    BY <1>1, <1>2, <1>3, <1>4

\* A careful updateCategory parks what it switches off.
LEMMA UpdateParked ==
    ASSUME TypeOK, DisabledParked, NEW id \in Ids, NEW rank \in Int,
           NEW enabled \in BOOLEAN, NEW name \in Names \cup {NoName},
           CarefulUpdate(id, rank, enabled, name)
    PROVE  DisabledParked'
  <1>1. UpdateCategory(id, rank, enabled, name, TRUE, TRUE)
    BY DEF CarefulUpdate
  <1>2. CASE ~Found(rows, id)
    <2>1. rows' = rows
      BY <1>1, <1>2 DEF UpdateCategory, Updated
    <2> QED
      BY <2>1 DEF DisabledParked
  <1>3. CASE Found(rows, id)
    <2>1. /\ DOMAIN rows' = DOMAIN rows
          /\ rows'[id] = UpdatedRow(rows, id, rank, enabled, name)
          /\ \A i \in DOMAIN rows \ {id} :
               /\ rows'[i] = ShiftOthers(rows, id, rank, enabled)[i]
               /\ rows'[i].enabled = rows[i].enabled
      BY <1>1, <1>3, UpdateEffect
    <2>2. ~enabled => rows'[id].rank = RankMax
      BY <1>3, <2>1 DEF CarefulUpdate, RedundantDisable, Found, UpdatedRow, SwitchesOff
    <2>3. enabled => rows'[id].enabled
      BY <2>1 DEF UpdatedRow
    <2>4. \A i \in DOMAIN rows \ {id} : ~rows[i].enabled => rows'[i] = rows[i]
      BY <2>1 DEF ShiftOthers, UpdateRanks
    <2> QED
      BY <2>1, <2>2, <2>3, <2>4 DEF DisabledParked
  <1> QED
    BY <1>2, <1>3

-----------------------------------------------------------------------------
(* The invariants.                                                         *)

LEMMA InitStep == Init => IInv
  <1> SUFFICES ASSUME Init PROVE IInv
    OBVIOUS
  <1>1. DOMAIN rows = {}
    BY DEF Init, EmptyTable
  <1>2. EnabledIds(rows) = {}
    BY <1>1 DEF EnabledIds
  <1>3. rows \in [DOMAIN rows -> Row(Names)]
    BY <1>1 DEF Init, EmptyTable
  <1> QED
    BY <1>1, <1>2, <1>3 DEF IInv, TypeOK, RanksExact, DisabledParked

\* No call of any caller, and no failed statement, spoils the table's shape:
\* ids that were registered, integer ranks, names that were given (Database.cpp
\* 104-262).
THEOREM TypeCorrect == Spec => []TypeOK
  <1>1. Init => TypeOK
    BY InitStep DEF IInv
  <1>2. TypeOK /\ [Next]_rows => TypeOK'
    <2> SUFFICES ASSUME TypeOK, [Next]_rows PROVE TypeOK'
      OBVIOUS
    <2>1. CASE UNCHANGED rows
      BY <2>1 DEF TypeOK
    <2>2. ASSUME NEW id \in Ids, NEW name \in Names, NEW ok \in SqlResults,
                 AdjustOrCreateCategory(id, name, ok)
          PROVE  TypeOK'
      BY <2>2, CreateType, SqlAssumption
    <2>3. ASSUME NEW id \in Ids, NEW rank \in RankInputs, NEW enabled \in BOOLEAN,
                 NEW name \in Names \cup {NoName},
                 NEW shiftOk \in SqlResults, NEW writeOk \in SqlResults,
                 UpdateCategory(id, rank, enabled, name, shiftOk, writeOk)
          PROVE  TypeOK'
      BY <2>3, UpdateType, RankAssumption, SqlAssumption
    <2>4. ASSUME NEW id \in Ids, RemoveCategory(id)
          PROVE  TypeOK'
      BY <2>4, RemoveNothing DEF TypeOK
    <2> QED
      BY <2>1, <2>2, <2>3, <2>4 DEF Next, Call
  <1> QED
    BY <1>1, <1>2, PTL DEF Spec

\* Every call of a careful caller keeps the inductive invariant.
LEMMA CarefulStep == IInv /\ [CarefulNext]_rows => IInv'
  <1> SUFFICES ASSUME IInv, [CarefulNext]_rows PROVE IInv'
    OBVIOUS
  <1> USE DEF IInv
  <1>1. CASE UNCHANGED rows
    BY <1>1 DEF TypeOK, RanksExact, DisabledParked, CountOn
  <1>2. ASSUME NEW id \in Ids, NEW name \in Names, AdjustOrCreateCategory(id, name, TRUE)
        PROVE  IInv'
    <2>1. TypeOK'
      BY <1>2, CreateType
    <2>2. RanksExact'
      BY <1>2, CreateExact
    <2>3. rows' = rows => DisabledParked'
      BY DEF DisabledParked
    <2>4. ASSUME rows' # rows
          PROVE  DisabledParked'
      <3>1. /\ DOMAIN rows' = DOMAIN rows \cup {id}
            /\ \A i \in DOMAIN rows : rows'[i] = rows[i]
            /\ rows'[id] = [rank |-> CountOn + 1, enabled |-> TRUE, name |-> name]
        BY <1>2, <2>4, CreateEffect
      <3>2. rows'[id].enabled
        BY <3>1
      <3> QED
        BY <3>1, <3>2 DEF DisabledParked
    <2> QED
      BY <2>1, <2>2, <2>3, <2>4
  <1>3. ASSUME NEW id \in Ids, NEW rank \in RankInputs, NEW enabled \in BOOLEAN,
               NEW name \in Names \cup {NoName}, CarefulUpdate(id, rank, enabled, name)
        PROVE  IInv'
    <2>1. UpdateCategory(id, rank, enabled, name, TRUE, TRUE) /\ rank \in Int
      BY <1>3, RankAssumption DEF CarefulUpdate
    <2>2. TypeOK'
      BY <2>1, UpdateType
    <2>3. id \in DOMAIN rows => ~Stray(id)
      BY DEF DisabledParked, Stray
    <2>4. RanksExact'
      BY <2>1, <2>3, UpdateExact
    <2>5. DisabledParked'
      BY <1>3, <2>1, UpdateParked
    <2> QED
      BY <2>2, <2>4, <2>5
  <1>4. ASSUME NEW id \in Ids, RemoveCategory(id)
        PROVE  IInv'
    BY <1>4, RemoveNothing DEF TypeOK, RanksExact, DisabledParked, CountOn
  <1> QED
    BY <1>1, <1>2, <1>3, <1>4 DEF CarefulNext

\* Careful callers keep the ranks of the enabled categories exactly 1..n, each
\* held once, and park every category they switch off (Database.cpp 226-244).
THEOREM CarefulCallersKeepRanks == CarefulSpec => [](RanksExact /\ DisabledParked)
  <1>1. IInv => RanksExact /\ DisabledParked
    BY DEF IInv
  <1> QED
    BY <1>1, InitStep, CarefulStep, PTL DEF CarefulSpec

\* Whatever the callers do and whatever fails, an exact ranking is lost only by a
\* torn update, or by switching on a category that is off without the big rank
\* (Database.cpp 229-244).
THEOREM StraysAlone == Spec => OnlyStraysBreakRanks
  <1> DEFINE Broken == RanksExact /\ ~RanksExact' =>
                         \/ \E id \in DOMAIN rows : Stray(id) /\ rows'[id].enabled
                         \/ TornUpdate
  <1>1. TypeOK /\ [Next]_rows => [Broken]_rows
    <2> SUFFICES ASSUME TypeOK, Next, RanksExact, ~RanksExact', ~TornUpdate
                 PROVE  \E id \in DOMAIN rows : Stray(id) /\ rows'[id].enabled
      OBVIOUS
    <2>1. rows' # rows
      BY DEF RanksExact, CountOn
    <2>2. ASSUME NEW id \in Ids, NEW name \in Names, NEW ok \in SqlResults,
                 AdjustOrCreateCategory(id, name, ok)
          PROVE  FALSE
      <3>1. AdjustOrCreateCategory(id, name, TRUE)
        BY <2>1, <2>2 DEF AdjustOrCreateCategory
      <3> QED
        BY <3>1, CreateExact
    <2>3. ASSUME NEW id \in Ids, RemoveCategory(id)
          PROVE  FALSE
      BY <2>1, <2>3, RemoveNothing
    <2>4. PICK id \in Ids, rank \in RankInputs, enabled \in BOOLEAN,
               name \in Names \cup {NoName}, shiftOk, writeOk \in SqlResults :
            UpdateCategory(id, rank, enabled, name, shiftOk, writeOk)
      BY <2>2, <2>3 DEF Next, Call
    <2>5. Found(rows, id)
      BY <2>1, <2>4 DEF UpdateCategory, Updated
    <2>6. id \in DOMAIN rows
      BY <2>5 DEF Found
    <2>7. UpdateCategory(id, rank, enabled, name, TRUE, TRUE)
      BY <2>4, <2>6 DEF TornUpdate
    <2>8. rank \in Int
      BY RankAssumption
    <2>9. id \in DOMAIN rows /\ enabled /\ Stray(id)
      BY <2>7, <2>8, UpdateExact
    <2>10. rows'[id] = UpdatedRow(rows, id, rank, enabled, name)
      BY <2>5, <2>7, <2>8, UpdateEffect
    <2> QED
      BY <2>9, <2>10 DEF UpdatedRow
  <1> QED
    BY <1>1, TypeCorrect, PTL DEF Spec, OnlyStraysBreakRanks

-----------------------------------------------------------------------------
(* What a torn update leaves.                                              *)

SmallAfter ==
    /\ Cardinality(Ties') <= 1
    /\ \A id \in EnabledIds(rows') : rows'[id].rank \in 0..CountOn' + 1

\* When all but one are apart, the only tie there may be is that one's.
LEMMA OneTie ==
    ASSUME TypeOK', NEW id,
           \A a, b \in EnabledIds(rows') \ {id} : rows'[a].rank = rows'[b].rank => a = b
    PROVE  Cardinality(Ties') <= 1
  <1> DEFINE E == EnabledIds(rows')
             Tie(p) == p \subseteq E /\ Cardinality(p) = 2
                         /\ \A a, b \in p : rows'[a].rank = rows'[b].rank
  <1>1. IsFiniteSet(E)
    <2>1. E \subseteq Ids
      BY DEF TypeOK, EnabledIds
    <2> QED
      BY <2>1, IdsAssumption, FS_Subset
  <1> HIDE DEF E
  <1>2. ASSUME NEW p, Tie(p)
        PROVE  \E c \in p : c # id /\ p = {id, c}
    <2>1. IsFiniteSet(p)
      BY <1>1, <1>2, FS_Subset
    <2>2. \A c, d \in p \ {id} : c = d
      BY <1>2 DEF E
    <2>3. Cardinality(p) = 2 /\ Cardinality({}) = 0
      BY <1>2, FS_EmptySet
    <2>4. p # {} /\ \A c : p # {c}
      <3>1. ASSUME NEW c, p = {c} PROVE FALSE
        <4>1. Cardinality({c}) = 1
          BY FS_Singleton
        <4> QED
          BY <2>3, <3>1, <4>1
      <3> QED
        BY <2>3, <3>1
    <2>5. PICK c \in p : c # id
      BY <2>4
    <2>6. \A d \in p : d = id \/ d = c
      BY <2>2, <2>5
    <2>7. id \in p
      BY <2>4, <2>5, <2>6
    <2> QED
      BY <2>5, <2>6, <2>7
  <1>3. ASSUME NEW p, Tie(p), NEW q, Tie(q)
        PROVE  p = q
    <2>1. PICK c \in p : c # id /\ p = {id, c}
      BY <1>2, <1>3
    <2>2. PICK d \in q : d # id /\ q = {id, d}
      BY <1>2, <1>3
    <2>3. rows'[c].rank = rows'[id].rank /\ rows'[d].rank = rows'[id].rank
      BY <1>3, <2>1, <2>2
    <2>4. c \in E \ {id} /\ d \in E \ {id}
      BY <1>3, <2>1, <2>2
    <2>5. c = d
      BY <2>3, <2>4 DEF E
    <2> QED
      BY <2>1, <2>2, <2>5
  <1>4. Ties' = {p \in SUBSET E : Tie(p)}
    BY DEF Ties, E
  <1> HIDE DEF Tie
  <1>5. Ties' = {} \/ \E p : Ties' = {p}
    BY <1>3, <1>4
  <1>6. CASE Ties' = {}
    BY <1>6, FS_EmptySet
  <1>7. ASSUME NEW p, Ties' = {p} PROVE Cardinality(Ties') <= 1
    <2>1. Cardinality({p}) = 1
      BY FS_Singleton
    <2> QED
      BY <1>7, <2>1
  <1> QED
    BY <1>5, <1>6, <1>7

\* A statement was not run, and the other one was.
LEMMA TornIsSmall ==
    ASSUME IInv, TypeOK', NEW id \in Ids, NEW rank \in Int, NEW enabled \in BOOLEAN,
           NEW name \in Names \cup {NoName}, Found(rows, id),
           UpdateCategory(id, rank, enabled, name, TRUE, FALSE)
             \/ UpdateCategory(id, rank, enabled, name, FALSE, TRUE)
    PROVE  SmallAfter
  <1> DEFINE E   == EnabledIds(rows)
             n   == CountOn
             old == rows[id].rank
             new == ReRanged(rows, id, rank, enabled)
             shifted == ShiftOthers(rows, id, rank, enabled)
  <1>1. /\ n \in Nat /\ id \in DOMAIN rows /\ ~Stray(id) /\ (id \in E <=> rows[id].enabled)
        /\ \A i \in E : rows[i].rank \in 1..n
        /\ \A a, b \in E : rows[a].rank = rows[b].rank => a = b
    BY EnabledFinite DEF IInv, RanksExact, DisabledParked, Stray, Found, EnabledIds
  <1>2. CASE UpdateCategory(id, rank, enabled, name, TRUE, FALSE)
    <2>1. rows' = shifted
      BY <1>2 DEF UpdateCategory, Updated
    <2>2. EnabledIds(rows') = E /\ CountOn' = n
      <3>1. /\ DOMAIN shifted = DOMAIN rows
            /\ \A i \in DOMAIN rows : shifted[i].enabled = rows[i].enabled
        BY ShiftOthersTyped DEF IInv, TypeOK
      <3> HIDE DEF shifted
      <3>2. EnabledIds(rows') = E
        BY <2>1, <3>1 DEF EnabledIds
      <3> QED
        BY <3>2 DEF CountOn
    <2>3. CASE enabled
      <3> DEFINE m == CountEnabled(rows, id, TRUE)
      <3>1. enabled = TRUE
        BY <2>3
      <3>2. /\ m = (IF rows[id].enabled THEN n ELSE n + 1)
            /\ old \in Int /\ old >= 1 /\ new \in 1..m /\ (rows[id].enabled <=> old <= n)
            /\ \A i \in E \ {id} :
                 /\ rows[i].rank \in 1..n /\ rows[i].rank # old
                 /\ shifted[i].rank = Shifted(rows[i].rank, old, new)
            /\ shifted[id].rank = old
        <4>1. new = ReRanged(rows, id, rank, TRUE) /\ shifted = ShiftOthers(rows, id, rank, TRUE)
          BY <3>1
        <4> HIDE DEF new, shifted
        <4> QED
          BY <1>1, <4>1, RoomIsMade DEF IInv
      <3> HIDE DEF E, n, m, old, new, shifted
      <3>3. /\ n \in Nat /\ m \in {n, n + 1} /\ old \in Int /\ new \in 1..m /\ old >= 1
            /\ (m = n => old <= n) /\ (m = n + 1 => old > n)
        BY <1>1, <3>2
      <3>4. /\ \A r \in 1..n : r # old => Shifted(r, old, new) \in 1..m
            /\ \A r, s \in 1..n : r # old /\ s # old /\ r # s =>
                 Shifted(r, old, new) # Shifted(s, old, new)
        BY <3>3, ShiftMakesRoom
      <3>5. \A a, b \in E \ {id} : rows'[a].rank = rows'[b].rank => a = b
        BY <1>1, <2>1, <3>2, <3>4
      <3>6. \A i \in E \ {id} : rows'[i].rank \in 0 .. n + 1
        BY <2>1, <3>2, <3>3, <3>4
      <3>7. id \in E => rows'[id].rank \in 0 .. n + 1
        BY <1>1, <2>1, <3>2, <3>3
      <3> QED
        BY <2>2, <3>5, <3>6, <3>7, OneTie DEF SmallAfter, E, n
    <2>4. CASE ~enabled /\ rows[id].enabled
      <3>1. \A i \in E : shifted[i].rank =
              IF rows[i].rank >= old THEN rows[i].rank - 1 ELSE rows[i].rank
        <4>1. shifted = ShiftOthers(rows, id, rank, FALSE)
          BY <2>4
        <4> HIDE DEF shifted
        <4>2. id \in E /\ TypeOK /\ RanksExact
          BY <1>1, <2>4 DEF IInv
        <4> QED
          BY <4>1, <4>2, GapCloses
      <3>2. old \in 1..n /\ \A i \in E \ {id} : rows[i].rank # old
        BY <1>1, <2>4
      <3> HIDE DEF E, n, old, shifted
      <3>3. \A a, b \in E \ {id} : rows'[a].rank = rows'[b].rank => a = b
        BY <1>1, <2>1, <3>1, <3>2
      <3>4. \A i \in E : rows'[i].rank \in 0 .. n + 1
        BY <1>1, <2>1, <3>1, <3>2
      <3> QED
        BY <2>2, <3>3, <3>4, OneTie DEF SmallAfter, E, n
    <2>5. CASE ~enabled /\ ~rows[id].enabled
      <3>1. rows' = rows
        BY <2>1, <2>5 DEF ShiftOthers, SwitchesOff
      <3>2. \A i \in E : rows[i].rank \in 0 .. n + 1
        BY <1>1
      <3> HIDE DEF E, n
      <3> QED
        BY <1>1, <2>2, <3>1, <3>2, OneTie DEF SmallAfter, E, n
    <2> QED
      BY <2>3, <2>4, <2>5
  <1>3. CASE UpdateCategory(id, rank, enabled, name, FALSE, TRUE)
    <2>1. /\ DOMAIN rows' = DOMAIN rows
          /\ rows'[id] = UpdatedRow(rows, id, rank, enabled, name)
          /\ \A i \in DOMAIN rows \ {id} : rows'[i] = rows[i]
      <3>1. rows' = [rows EXCEPT ![id] = UpdatedRow(rows, id, rank, enabled, name)]
        BY <1>3 DEF UpdateCategory, Updated
      <3> QED
        BY <1>1, <3>1
    <2>2. rows'[id].enabled = enabled /\ (enabled => rows'[id].rank = new)
      BY <2>1 DEF UpdatedRow, SwitchesOff
    <2>3. EnabledIds(rows') = IF enabled THEN E \cup {id} ELSE E \ {id}
      BY <1>1, <2>1, <2>2 DEF EnabledIds
    <2>4. \A i \in E \ {id} : rows'[i] = rows[i]
      BY <2>1 DEF EnabledIds
    <2>5. /\ CountOn' \in Nat /\ CountOn' + 1 >= n
          /\ enabled => new \in 1..CountOn'
      <3>1. CASE enabled
        <4>1. enabled = TRUE
          BY <3>1
        <4>2. CountOn' = CountEnabled(rows, id, TRUE)
          BY <2>3, <4>1 DEF CountOn, CountEnabled
        <4>3. /\ new \in 1..CountEnabled(rows, id, TRUE)
              /\ CountEnabled(rows, id, TRUE) = IF rows[id].enabled THEN n ELSE n + 1
          <5>1. new = ReRanged(rows, id, rank, TRUE)
            BY <4>1
          <5> HIDE DEF new
          <5> QED
            BY <1>1, <5>1, RoomIsMade DEF IInv
        <4> HIDE DEF new, n
        <4>4. CountOn' \in {n, n + 1} /\ new \in 1..CountOn'
          BY <4>2, <4>3
        <4> QED
          BY <1>1, <4>4
      <3>2. CASE ~enabled /\ rows[id].enabled
        <4>1. CountOn' = n - 1 /\ n # 0
          BY <1>1, <2>3, <3>2, EnabledFinite, FS_RemoveElement, FS_EmptySet DEF CountOn, IInv
        <4> QED
          BY <1>1, <3>2, <4>1
      <3>3. CASE ~enabled /\ ~rows[id].enabled
        <4>1. EnabledIds(rows') = E
          BY <1>1, <2>3, <3>3
        <4> QED
          BY <1>1, <3>3, <4>1 DEF CountOn
      <3> QED
        BY <3>1, <3>2, <3>3
    <2> HIDE DEF E, n, new
    <2>6. \A a, b \in EnabledIds(rows') \ {id} : rows'[a].rank = rows'[b].rank => a = b
      BY <1>1, <2>3, <2>4
    <2>7. \A i \in EnabledIds(rows') : rows'[i].rank \in 0 .. CountOn' + 1
      <3>0. \A r \in 1..n : r \in 0 .. CountOn' + 1
        <4>1. ASSUME NEW k \in Nat, k + 1 >= n, NEW r \in 1..n
              PROVE  r \in 0 .. k + 1
          BY <1>1, <4>1
        <4> QED
          BY <2>5, <4>1
      <3>1. \A i \in E \ {id} : rows'[i].rank \in 0 .. CountOn' + 1
        BY <1>1, <2>4, <3>0
      <3>2. enabled => rows'[id].rank \in 0 .. CountOn' + 1
        BY <2>2, <2>5
      <3> QED
        BY <2>3, <3>1, <3>2
    <2> QED
      BY <2>6, <2>7, OneTie DEF SmallAfter
  <1> QED
    BY <1>2, <1>3

\* Whatever was done and failed before, a torn update of a table that was in order
\* leaves at most two categories on one rank, and no rank more than one outside its
\* range (Database.cpp 231-257).
THEOREM TornIsSmallAlways == Spec => TornUpdateIsSmall
  <1>1. ASSUME TypeOK, [Next]_rows
        PROVE  [RanksExact /\ DisabledParked => SmallAfter]_rows
    <2>1. SUFFICES ASSUME Next, rows' # rows, RanksExact, DisabledParked PROVE SmallAfter
      BY <1>1
    <2>2. ASSUME TypeOK', RanksExact' PROVE SmallAfter
      <3> DEFINE n == CountOn'
      <3>1. /\ \A id \in EnabledIds(rows') : rows'[id].rank \in 1..n
            /\ \A a, b \in EnabledIds(rows') : rows'[a].rank = rows'[b].rank => a = b
        BY <2>2 DEF RanksExact
      <3>2. n \in Nat
        <4>1. (TypeOK => CountOn \in Nat)'
          BY CountIsNat, PTL
        <4> QED
          BY <2>2, <4>1
      <3> HIDE DEF n
      <3>3. \A id \in EnabledIds(rows') : rows'[id].rank \in 0 .. n + 1
        BY <3>1, <3>2
      <3> QED
        BY <2>2, <3>1, <3>3, OneTie DEF SmallAfter, n
    <2>3. ASSUME NEW id \in Ids, NEW name \in Names, NEW ok \in SqlResults,
                 AdjustOrCreateCategory(id, name, ok)
          PROVE  SmallAfter
      <3>1. AdjustOrCreateCategory(id, name, TRUE)
        BY <2>1, <2>3 DEF AdjustOrCreateCategory
      <3>2. TypeOK' /\ RanksExact'
        BY <1>1, <2>1, <3>1, CreateType, CreateExact
      <3> QED
        BY <2>2, <3>2
    <2>4. ASSUME NEW id \in Ids, RemoveCategory(id)
          PROVE  FALSE
      BY <2>1, <2>4, RemoveNothing
    <2>5. ASSUME NEW id \in Ids, NEW rank \in RankInputs, NEW enabled \in BOOLEAN,
                 NEW name \in Names \cup {NoName}, NEW shiftOk \in SqlResults,
                 NEW writeOk \in SqlResults,
                 UpdateCategory(id, rank, enabled, name, shiftOk, writeOk)
          PROVE  SmallAfter
      <3>1. rank \in Int /\ shiftOk \in BOOLEAN /\ writeOk \in BOOLEAN
        BY RankAssumption, SqlAssumption
      <3>2. TypeOK' /\ Found(rows, id) /\ ~Stray(id)
        <4>1. TypeOK'
          BY <1>1, <2>5, <3>1, UpdateType
        <4>2. Found(rows, id)
          BY <2>1, <2>5 DEF UpdateCategory, Updated
        <4> QED
          BY <2>1, <4>1, <4>2 DEF Found, Stray, DisabledParked
      <3>3. CASE shiftOk = TRUE /\ writeOk = TRUE
        BY <1>1, <2>1, <2>2, <2>5, <3>1, <3>2, <3>3, UpdateExact
      <3>4. CASE (shiftOk = TRUE /\ writeOk = FALSE) \/ (shiftOk = FALSE /\ writeOk = TRUE)
        BY <1>1, <2>1, <2>5, <3>1, <3>2, <3>4, TornIsSmall DEF IInv
      <3>5. CASE shiftOk = FALSE /\ writeOk = FALSE
        BY <2>1, <2>5, <3>5 DEF UpdateCategory, Updated
      <3> QED
        BY <3>1, <3>3, <3>4, <3>5
    <2> QED
      BY <2>1, <2>3, <2>4, <2>5 DEF Next, Call
  <1> QED
    BY <1>1, TypeCorrect, PTL DEF Spec, TornUpdateIsSmall, SmallAfter

-----------------------------------------------------------------------------
(* Lists, one element less and one more.                                   *)

Less(s, p) == SubSeq(s, 1, p - 1) \o SubSeq(s, p + 1, Len(s))

More(s, p, e) == SubSeq(s, 1, p - 1) \o <<e>> \o SubSeq(s, p, Len(s))

LEMMA Removal ==
    ASSUME NEW S, NEW s \in Seq(S), NEW p \in 1..Len(s)
    PROVE  /\ Less(s, p) \in Seq(S) /\ Len(Less(s, p)) = Len(s) - 1
           /\ \A j \in 1 .. Len(s) - 1 : Less(s, p)[j] = IF j < p THEN s[j] ELSE s[j + 1]
  <1> DEFINE new   == Less(s, p)
             front == SubSeq(s, 1, p - 1)
             back  == SubSeq(s, p + 1, Len(s))
  <1>1. Len(s) \in Nat /\ p \in Int /\ \A i \in 1..Len(s) : s[i] \in S
    BY ElementOfSeq
  <1>2. /\ front \in Seq(S) /\ Len(front) = p - 1
        /\ \A i \in 1 .. p - 1 : front[i] = s[i]
    <2>1. \A i \in 1 .. p - 1 : s[i] \in S
      BY <1>1
    <2> QED
      BY <1>1, <2>1, SubSeqProperties
  <1>3. /\ back \in Seq(S) /\ Len(back) = Len(s) - p
        /\ \A i \in 1 .. Len(s) - p : back[i] = s[p + i]
    <2>1. \A i \in p + 1 .. Len(s) : s[i] \in S
      BY <1>1
    <2> QED
      BY <1>1, <2>1, SubSeqProperties
  <1> HIDE DEF new, front, back
  <1>4. /\ front \o back \in Seq(S)
        /\ Len(front \o back) = Len(front) + Len(back)
        /\ \A i \in 1 .. Len(front) + Len(back) :
             (front \o back)[i] = IF i <= Len(front) THEN front[i] ELSE back[i - Len(front)]
    BY <1>2, <1>3, ConcatProperties
  <1>5. new = front \o back
    BY DEF new, Less, front, back
  <1>6. new \in Seq(S) /\ Len(new) = Len(s) - 1
    <2>1. Len(front) + Len(back) = Len(s) - 1
      BY <1>1, <1>2, <1>3
    <2> QED
      BY <1>4, <1>5, <2>1
  <1>7. ASSUME NEW j \in 1 .. Len(s) - 1
        PROVE  new[j] = IF j < p THEN s[j] ELSE s[j + 1]
    <2>1. new[j] = IF j <= p - 1 THEN front[j] ELSE back[j - (p - 1)]
      BY <1>1, <1>2, <1>3, <1>4, <1>5
    <2>2. CASE j < p
      BY <1>1, <1>2, <2>1, <2>2
    <2>3. CASE j >= p
      <3>1. j - (p - 1) \in 1 .. Len(s) - p /\ p + (j - (p - 1)) = j + 1
        BY <1>1, <2>3
      <3>2. back[j - (p - 1)] = s[p + (j - (p - 1))]
        BY <1>3, <3>1
      <3> QED
        BY <1>1, <2>1, <2>3, <3>1, <3>2
    <2> QED
      BY <1>1, <2>2, <2>3
  <1> QED
    BY <1>6, <1>7 DEF new

LEMMA Insertion ==
    ASSUME NEW S, NEW s \in Seq(S), NEW p \in 1 .. Len(s) + 1, NEW e \in S
    PROVE  /\ More(s, p, e) \in Seq(S) /\ Len(More(s, p, e)) = Len(s) + 1
           /\ \A j \in 1 .. Len(s) + 1 :
                More(s, p, e)[j] = IF j < p THEN s[j] ELSE IF j = p THEN e ELSE s[j - 1]
  <1> DEFINE new   == More(s, p, e)
             front == SubSeq(s, 1, p - 1)
             one   == <<e>>
             back  == SubSeq(s, p, Len(s))
             both  == front \o one
  <1>1. Len(s) \in Nat /\ p \in Int /\ \A i \in 1..Len(s) : s[i] \in S
    BY ElementOfSeq
  <1>2. /\ front \in Seq(S) /\ Len(front) = p - 1
        /\ \A i \in 1 .. p - 1 : front[i] = s[i]
    <2>1. \A i \in 1 .. p - 1 : s[i] \in S
      BY <1>1
    <2> QED
      BY <1>1, <2>1, SubSeqProperties
  <1>3. /\ back \in Seq(S) /\ Len(back) = Len(s) - p + 1
        /\ \A i \in 1 .. Len(s) - p + 1 : back[i] = s[p + i - 1]
    <2>1. \A i \in p .. Len(s) : s[i] \in S
      BY <1>1
    <2> QED
      BY <1>1, <2>1, SubSeqProperties
  <1>4. one \in Seq(S) /\ Len(one) = 1 /\ one[1] = e
    OBVIOUS
  <1> HIDE DEF new, front, one, back
  <1>5. /\ both \in Seq(S) /\ Len(both) = p
        /\ \A i \in 1 .. p : both[i] = IF i < p THEN front[i] ELSE e
    <2>1. /\ both \in Seq(S) /\ Len(both) = Len(front) + Len(one)
          /\ \A i \in 1 .. Len(front) + Len(one) :
               both[i] = IF i <= Len(front) THEN front[i] ELSE one[i - Len(front)]
      BY <1>2, <1>4, ConcatProperties
    <2> HIDE DEF both
    <2> QED
      BY <1>1, <1>2, <1>4, <2>1
  <1> HIDE DEF both
  <1>6. /\ both \o back \in Seq(S)
        /\ Len(both \o back) = Len(both) + Len(back)
        /\ \A i \in 1 .. Len(both) + Len(back) :
             (both \o back)[i] = IF i <= Len(both) THEN both[i] ELSE back[i - Len(both)]
    BY <1>3, <1>5, ConcatProperties
  <1>7. new = both \o back
    BY DEF new, More, front, one, back, both
  <1>8. new \in Seq(S) /\ Len(new) = Len(s) + 1
    BY <1>1, <1>3, <1>5, <1>6, <1>7
  <1>9. ASSUME NEW j \in 1 .. Len(s) + 1
        PROVE  new[j] = IF j < p THEN s[j] ELSE IF j = p THEN e ELSE s[j - 1]
    <2>1. new[j] = IF j <= p THEN both[j] ELSE back[j - p]
      BY <1>1, <1>3, <1>5, <1>6, <1>7
    <2>2. CASE j <= p
      BY <1>1, <1>2, <1>5, <2>1, <2>2
    <2>3. CASE j > p
      <3>1. j - p \in 1 .. Len(s) - p + 1 /\ p + (j - p) - 1 = j - 1
        BY <1>1, <2>3
      <3>2. back[j - p] = s[p + (j - p) - 1]
        BY <1>3, <3>1
      <3> QED
        BY <1>1, <2>1, <2>3, <3>1, <3>2
    <2> QED
      BY <1>1, <2>2, <2>3
  <1> QED
    BY <1>8, <1>9 DEF new

-----------------------------------------------------------------------------
(* The display order of an exact ranking.                                  *)

\* Each rank's category at the place of its rank.
Ordered ==
    /\ CountOn \in Nat
    /\ DisplayOrder \in Seq(EnabledIds(rows)) /\ Len(DisplayOrder) = CountOn
    /\ \A k \in 1..CountOn : rows[DisplayOrder[k]].rank = k
    /\ \A id \in EnabledIds(rows) :
          rows[id].rank \in 1..CountOn /\ DisplayOrder[rows[id].rank] = id

LEMMA OrderIsRanked == TypeOK /\ RanksExact => Ordered
  <1> SUFFICES ASSUME TypeOK, RanksExact PROVE Ordered
    OBVIOUS
  <1> DEFINE E == EnabledIds(rows)
             n == CountOn
  <1>1. n \in Nat
    BY EnabledFinite
  <1>2. ASSUME NEW k \in 1..n
        PROVE  DisplayOrder[k] \in E /\ rows[DisplayOrder[k]].rank = k
    <2>1. \E id \in E : rows[id].rank = k
      BY EveryRankHeld
    <2>2. DisplayOrder[k] = CHOOSE id \in E : rows[id].rank = k
      BY DEF DisplayOrder
    <2> HIDE DEF E
    <2> QED
      BY <2>1, <2>2
  <1>3. DisplayOrder = [k \in 1..n |-> DisplayOrder[k]]
    BY DEF DisplayOrder
  <1> HIDE DEF E, n
  <1>4. DisplayOrder \in Seq(E) /\ Len(DisplayOrder) = n
    BY <1>1, <1>2, <1>3
  <1>5. \A id \in E : rows[id].rank \in 1..n
    BY DEF RanksExact, E, n
  <1>6. \A a, b \in E : rows[a].rank = rows[b].rank => a = b
    BY DEF RanksExact, E
  <1>7. \A id \in E : DisplayOrder[rows[id].rank] = id
    BY <1>2, <1>5, <1>6
  <1> QED
    BY <1>1, <1>2, <1>4, <1>5, <1>7 DEF Ordered, E, n

\* A list with every rank at its place is the display order after the step.
LEMMA OrderIs ==
    ASSUME Ordered', NEW s, s \in Seq(EnabledIds(rows')), Len(s) = CountOn',
           \A k \in 1..CountOn' : rows'[s[k]].rank = k
    PROVE  DisplayOrder' = s
  <1> DEFINE E == EnabledIds(rows')
             n == CountOn'
             t == DisplayOrder'
  <1>1. /\ n \in Nat /\ t \in Seq(E) /\ Len(t) = n
        /\ \A id \in E : t[rows'[id].rank] = id
    BY DEF Ordered
  <1>2. ASSUME NEW k \in 1..n
        PROVE  t[k] = s[k]
    <2>1. s[k] \in E /\ rows'[s[k]].rank = k
      BY ElementOfSeq
    <2>2. t[rows'[s[k]].rank] = s[k]
      BY <1>1, <2>1
    <2> HIDE DEF t
    <2> QED
      BY <2>1, <2>2
  <1> HIDE DEF E, n, t
  <1>3. s \in Seq(E) /\ Len(s) = n
    BY DEF E, n
  <1>4. t = s
    BY <1>1, <1>2, <1>3, SeqEqual
  <1> QED
    BY <1>4 DEF t

\* The list knows the categories the table holds.
LEMMA KnownIsDomain ==
    ASSUME Ordered
    PROVE  /\ List!ToSet(DisplayOrder) = EnabledIds(rows)
           /\ List!Known = DOMAIN rows
  <1>1. List!ToSet(DisplayOrder) = {DisplayOrder[k] : k \in DOMAIN DisplayOrder}
    BY DEF List!ToSet
  <1>2. DOMAIN DisplayOrder = 1..CountOn
    BY DEF DisplayOrder
  <1>3. List!ToSet(DisplayOrder) = EnabledIds(rows)
    <2>1. \A k \in 1..CountOn : DisplayOrder[k] \in EnabledIds(rows)
      BY ElementOfSeq DEF Ordered
    <2>2. \A id \in EnabledIds(rows) : \E k \in 1..CountOn : DisplayOrder[k] = id
      BY DEF Ordered
    <2> QED
      BY <1>1, <1>2, <2>1, <2>2
  <1> QED
    BY <1>3 DEF List!Known, Disabled, EnabledIds

\* The list without a category, place by place.
LEMMA WithoutIs ==
    ASSUME Ordered, NEW id
    PROVE  /\ id \in EnabledIds(rows) =>
                /\ List!Without(id) \in Seq(EnabledIds(rows))
                /\ Len(List!Without(id)) = CountOn - 1
                /\ \A j \in 1 .. CountOn - 1 :
                     List!Without(id)[j] = IF j < rows[id].rank THEN DisplayOrder[j]
                                           ELSE DisplayOrder[j + 1]
           /\ id \notin EnabledIds(rows) => List!Without(id) = DisplayOrder
  <1>1. List!ToSet(DisplayOrder) = EnabledIds(rows)
    BY KnownIsDomain
  <1>2. CASE id \in EnabledIds(rows)
    <2> DEFINE E == EnabledIds(rows)
               s == DisplayOrder
               p == rows[id].rank
    <2>1. /\ s \in Seq(E) /\ Len(s) = CountOn /\ p \in 1..Len(s) /\ s[p] = id
          /\ \A k \in 1..Len(s) : rows[s[k]].rank = k
      BY <1>2 DEF Ordered
    <2>2. List!PlaceOf(id) = CHOOSE k \in DOMAIN s : s[k] = id
      BY DEF List!PlaceOf
    <2>3. DOMAIN s = 1..Len(s)
      <3> HIDE DEF s, E
      <3> QED BY <2>1
    <2>4. \A k \in 1..Len(s) : s[k] = id => k = p
      BY <2>1
    <2>5. List!PlaceOf(id) = p
      <3> HIDE DEF s, p, E
      <3> QED BY <2>1, <2>2, <2>3, <2>4
    <2>6. List!Without(id) = List!RemoveAt(s, p)
      BY <1>1, <1>2, <2>5 DEF List!Without
    <2>7. List!RemoveAt(s, p) = Less(s, p)
      BY DEF List!RemoveAt, Less
    <2> HIDE DEF s, p, E
    <2>8. /\ List!Without(id) \in Seq(E) /\ Len(List!Without(id)) = Len(s) - 1
          /\ \A j \in 1 .. Len(s) - 1 :
               List!Without(id)[j] = IF j < p THEN s[j] ELSE s[j + 1]
      BY <2>1, <2>6, <2>7, Removal
    <2> QED
      BY <1>2, <2>1, <2>8 DEF s, p, E
  <1>3. CASE id \notin EnabledIds(rows)
    BY <1>1, <1>3 DEF List!Without
  <1> QED
    BY <1>2, <1>3

-----------------------------------------------------------------------------
(* The calls, each an operation of the list.                               *)

\* A new category goes last.
LEMMA CreateAppends ==
    ASSUME TypeOK, RanksExact, Ordered, Ordered', NEW id \in Ids, NEW name \in Names,
           AdjustOrCreateCategory(id, name, TRUE), rows' # rows
    PROVE  List!Append1(id)
  <1> DEFINE E == EnabledIds(rows)
             n == CountOn
             s == Append(DisplayOrder, id)
  <1>1. /\ id \notin DOMAIN rows /\ DOMAIN rows' = DOMAIN rows \cup {id}
        /\ \A i \in DOMAIN rows : rows'[i] = rows[i]
        /\ rows'[id].enabled = TRUE /\ rows'[id].rank = n + 1
    <2>1. rows'[id] = [rank |-> n + 1, enabled |-> TRUE, name |-> name]
      BY CreateEffect
    <2>2. rows'[id].enabled = TRUE /\ rows'[id].rank = n + 1
      BY <2>1
    <2>3. /\ id \notin DOMAIN rows /\ DOMAIN rows' = DOMAIN rows \cup {id}
          /\ \A i \in DOMAIN rows : rows'[i] = rows[i]
      BY CreateEffect
    <2> QED
      BY <2>2, <2>3
  <1>2. EnabledIds(rows') = E \cup {id} /\ id \notin E /\ Disabled' = Disabled
    BY <1>1 DEF EnabledIds, Disabled
  <1>3. n \in Nat /\ CountOn' = n + 1
    BY <1>2, EnabledFinite, FS_AddElement DEF CountOn
  <1>4. /\ DisplayOrder \in Seq(E \cup {id}) /\ Len(DisplayOrder) = n
        /\ \A k \in 1..n : DisplayOrder[k] \in E /\ rows[DisplayOrder[k]].rank = k
    <2>1. DisplayOrder \in Seq(E) /\ E \subseteq E \cup {id}
      BY DEF Ordered
    <2>2. DisplayOrder \in Seq(E \cup {id})
      BY <2>1, SeqMonotonic
    <2> QED
      BY <2>1, <2>2, ElementOfSeq DEF Ordered
  <1>5. \A i \in E : rows'[i] = rows[i]
    BY <1>1 DEF EnabledIds
  <1> HIDE DEF E, n
  <1>6. /\ s \in Seq(E \cup {id}) /\ Len(s) = n + 1 /\ s[n + 1] = id
        /\ \A k \in 1..n : s[k] = DisplayOrder[k]
    BY <1>4, AppendProperties
  <1> HIDE DEF s
  <1>7. \A k \in 1 .. n + 1 : rows'[s[k]].rank = k
    BY <1>1, <1>3, <1>4, <1>5, <1>6
  <1>8. DisplayOrder' = s
    BY <1>2, <1>3, <1>6, <1>7, OrderIs
  <1> QED
    BY <1>1, <1>2, <1>8, KnownIsDomain DEF List!Append1, s

\* One that is switched off leaves the list.
LEMMA SwitchOffParks ==
    ASSUME TypeOK, RanksExact, Ordered, Ordered', NEW id \in Ids, NEW rank \in Int,
           NEW name \in Names \cup {NoName}, Found(rows, id), rows[id].enabled,
           UpdateCategory(id, rank, FALSE, name, TRUE, TRUE)
    PROVE  List!Park(id)
  <1> DEFINE E == EnabledIds(rows)
             n == CountOn
             p == rows[id].rank
             s == List!Without(id)
  <1>1. /\ DOMAIN rows' = DOMAIN rows /\ rows'[id].enabled = FALSE
        /\ \A i \in DOMAIN rows \ {id} : rows'[i].enabled = rows[i].enabled
        /\ EnabledIds(rows') = E \ {id} /\ CountOn' = n - 1
        /\ \A i \in E \ {id} :
             rows'[i].rank = IF rows[i].rank >= p THEN rows[i].rank - 1 ELSE rows[i].rank
    BY SwitchOffEffect
  <1>2. id \in E /\ id \in DOMAIN rows
    BY DEF EnabledIds, Found
  <1>3. Disabled' = Disabled \cup {id}
    BY <1>1, <1>2 DEF Disabled
  <1>4. /\ n \in Nat /\ p \in 1..n
        /\ \A k \in 1..n : DisplayOrder[k] \in E /\ rows[DisplayOrder[k]].rank = k
    BY <1>2, ElementOfSeq DEF Ordered
  <1>5. /\ s \in Seq(E) /\ Len(s) = n - 1
        /\ \A k \in 1 .. n - 1 : s[k] = IF k < p THEN DisplayOrder[k] ELSE DisplayOrder[k + 1]
    BY <1>2, WithoutIs
  <1> HIDE DEF E, n, p, s
  <1>6. ASSUME NEW k \in 1 .. n - 1
        PROVE  s[k] \in E \ {id} /\ rows'[s[k]].rank = k
    <2>1. s[k] \in E /\ rows[s[k]].rank = IF k < p THEN k ELSE k + 1
      <3>1. k \in 1..n /\ k + 1 \in 1..n
        BY <1>4
      <3>2. s[k] = IF k < p THEN DisplayOrder[k] ELSE DisplayOrder[k + 1]
        BY <1>5
      <3> QED
        BY <1>4, <3>1, <3>2
    <2>2. rows[id].rank = p
      BY DEF p
    <2>3. s[k] # id
      BY <1>4, <2>1, <2>2
    <2> QED
      BY <1>1, <1>4, <2>1, <2>3
  <1>7. s \in Seq(E \ {id})
    BY <1>4, <1>5, <1>6
  <1>8. DisplayOrder' = s
    BY <1>1, <1>5, <1>6, <1>7, OrderIs
  <1>9. id \in List!ToSet(DisplayOrder)
    BY <1>2, KnownIsDomain DEF E
  <1> QED
    BY <1>3, <1>8, <1>9 DEF List!Park, s

\* The rank a moved category's neighbours have is their place in the new list.
LEMMA PlaceAfterMove ==
    ASSUME NEW n \in Nat, NEW old \in Int, NEW new \in Int, NEW m \in {n, n + 1},
           old >= 1, new \in 1..m, NEW j \in 1 .. m - 1
    PROVE  Shifted(IF j < old THEN j ELSE j + 1, old, new) = IF j < new THEN j ELSE j + 1
  BY DEF Shifted

\* One that is switched on, or moved, is taken out and put in at the place asked for
\* or the nearest.
LEMMA UpdatePlaces ==
    ASSUME TypeOK, RanksExact, Ordered, Ordered', NEW id \in Ids, NEW rank \in Int,
           NEW name \in Names \cup {NoName}, Found(rows, id), ~Stray(id),
           UpdateCategory(id, rank, TRUE, name, TRUE, TRUE)
    PROVE  List!Place(id, rank)
  <1> DEFINE E   == EnabledIds(rows)
             n   == CountOn
             m   == CountOn'
             old == rows[id].rank
             new == ReRanged(rows, id, rank, TRUE)
             w   == List!Without(id)
             s   == More(w, new, id)
  <1>1. /\ DOMAIN rows' = DOMAIN rows /\ rows'[id].enabled /\ rows'[id].rank = new
        /\ \A i \in DOMAIN rows \ {id} : rows'[i].enabled = rows[i].enabled
        /\ EnabledIds(rows') = E \cup {id} /\ m = CountEnabled(rows, id, TRUE)
        /\ \A i \in E \ {id} : rows'[i].rank = Shifted(rows[i].rank, old, new)
    BY PlaceEffect
  <1>2. id \in DOMAIN rows /\ (id \in E <=> rows[id].enabled)
    BY DEF EnabledIds, Found
  <1>0. /\ n \in Nat /\ m \in Nat /\ m \in {n, n + 1} /\ old \in Int /\ new \in Int
        /\ old >= 1 /\ new \in 1..m /\ m >= 1
        /\ id \in E => m = n /\ old <= n
        /\ id \notin E => m = n + 1 /\ old > n
    <2>1. /\ m = (IF rows[id].enabled THEN n ELSE n + 1)
          /\ old \in Int /\ old >= 1 /\ new \in 1..m /\ (rows[id].enabled <=> old <= n)
      BY PlaceEffect
    <2>2. n \in Nat
      BY DEF Ordered
    <2>3. (m = n /\ id \in E /\ old <= n) \/ (m = n + 1 /\ id \notin E /\ ~(old <= n))
      BY <1>2, <2>1
    <2> HIDE DEF n, m, old, new, E
    <2> QED
      BY <2>1, <2>2, <2>3
  <1>3. Disabled' = Disabled \ {id}
    BY <1>1, <1>2 DEF Disabled
  <1>4. /\ n \in Nat /\ DisplayOrder \in Seq(E) /\ Len(DisplayOrder) = n
        /\ \A k \in 1..n : DisplayOrder[k] \in E /\ rows[DisplayOrder[k]].rank = k
    BY ElementOfSeq DEF Ordered
  <1>5. /\ w \in Seq(E) /\ Len(w) = m - 1
        /\ \A k \in 1 .. m - 1 : w[k] = IF k < old THEN DisplayOrder[k] ELSE DisplayOrder[k + 1]
    <2>1. CASE id \in E
      BY <1>0, <2>1, WithoutIs
    <2>2. CASE id \notin E
      <3>1. w = DisplayOrder
        BY <2>2, WithoutIs
      <3> HIDE DEF w, n, m, old, E
      <3>2. m - 1 = n /\ \A k \in 1 .. m - 1 : k < old
        BY <1>0, <2>2
      <3> QED
        BY <1>4, <3>1, <3>2
    <2> QED
      BY <2>1, <2>2
  <1> HIDE DEF E, n, m, old, new, w
  <1>7. ASSUME NEW j \in 1 .. m - 1
        PROVE  w[j] \in E \ {id} /\ rows'[w[j]].rank = IF j < new THEN j ELSE j + 1
    <2>1. w[j] \in E /\ rows[w[j]].rank = IF j < old THEN j ELSE j + 1
      <3>1. /\ j < old => j \in 1..n
            /\ j >= old => j + 1 \in 1..n
        <4>1. CASE id \in E
          BY <1>0, <4>1
        <4>2. CASE id \notin E
          BY <1>0, <4>2
        <4> QED
          BY <4>1, <4>2
      <3>2. w[j] = IF j < old THEN DisplayOrder[j] ELSE DisplayOrder[j + 1]
        BY <1>5
      <3> QED
        BY <1>0, <1>4, <3>1, <3>2
    <2>2. rows[id].rank = old
      BY DEF old
    <2>3. w[j] # id
      BY <1>0, <2>1, <2>2
    <2>4. rows'[w[j]].rank = Shifted(IF j < old THEN j ELSE j + 1, old, new)
      BY <1>1, <2>1, <2>3
    <2>5. Shifted(IF j < old THEN j ELSE j + 1, old, new) = IF j < new THEN j ELSE j + 1
      BY <1>0, PlaceAfterMove
    <2> QED
      BY <2>1, <2>3, <2>4, <2>5
  <1>8. /\ s \in Seq(E \cup {id}) /\ Len(s) = m
        /\ \A k \in 1..m : s[k] = IF k < new THEN w[k] ELSE IF k = new THEN id ELSE w[k - 1]
    <2>1. w \in Seq(E \cup {id}) /\ new \in 1 .. Len(w) + 1 /\ id \in E \cup {id} /\ Len(w) + 1 = m
      BY <1>0, <1>5, SeqMonotonic
    <2>2. /\ s \in Seq(E \cup {id}) /\ Len(s) = Len(w) + 1
          /\ \A k \in 1 .. Len(w) + 1 :
               s[k] = IF k < new THEN w[k] ELSE IF k = new THEN id ELSE w[k - 1]
      BY <2>1, Insertion
    <2> QED
      BY <2>1, <2>2
  <1> HIDE DEF s
  <1>9. ASSUME NEW k \in 1..m
        PROVE  rows'[s[k]].rank = k
    <2>1. CASE k = new
      <3>1. s[k] = id
        BY <1>0, <1>8, <2>1
      <3> QED
        BY <1>1, <2>1, <3>1
    <2>2. CASE k < new
      <3>1. k \in 1 .. m - 1 /\ s[k] = w[k]
        BY <1>0, <1>8, <2>2
      <3> QED
        BY <1>7, <2>2, <3>1
    <2>3. CASE k > new
      <3>1. k - 1 \in 1 .. m - 1 /\ s[k] = w[k - 1] /\ ~(k - 1 < new) /\ k - 1 + 1 = k
        BY <1>0, <1>8, <2>3
      <3> QED
        BY <1>7, <3>1
    <2> QED
      BY <1>0, <2>1, <2>2, <2>3
  <1>10. DisplayOrder' = s
    BY <1>1, <1>8, <1>9, OrderIs DEF m
  <1>11. List!Nearest(rank, Len(List!Without(id)) + 1) = new
    <2>1. new = Clamp(rank, m)
      BY <1>1 DEF new, ReRanged
    <2>2. Len(List!Without(id)) + 1 = m
      BY <1>0, <1>5 DEF w
    <2>3. List!Nearest(rank, m) = Clamp(rank, m)
      BY <1>0 DEF List!Nearest, Clamp
    <2> QED
      BY <2>1, <2>2, <2>3
  <1>12. s = List!InsertAt(List!Without(id), new, id)
    BY DEF s, w, More, List!InsertAt
  <1>13. id \in List!Known
    BY <1>2, KnownIsDomain
  <1> QED
    BY <1>3, <1>10, <1>11, <1>12, <1>13 DEF List!Place

-----------------------------------------------------------------------------

\* A call of a careful caller is an operation of the list, or leaves it.
LEMMA CarefulCallsAreListSteps ==
    ASSUME IInv, Ordered, Ordered', CarefulNext
    PROVE  [List!ListNext]_List!listVars
  <1>1. CASE rows' = rows
    BY <1>1 DEF List!listVars, DisplayOrder, Disabled, CountOn
  <1>2. ASSUME NEW id \in Ids, NEW name \in Names, AdjustOrCreateCategory(id, name, TRUE),
               rows' # rows
        PROVE  List!ListNext
    BY <1>2, CreateAppends DEF IInv, List!ListNext
  <1>3. ASSUME NEW id \in Ids, NEW rank \in RankInputs, NEW enabled \in BOOLEAN,
               NEW name \in Names \cup {NoName}, CarefulUpdate(id, rank, enabled, name),
               rows' # rows
        PROVE  List!ListNext
    <2>1. UpdateCategory(id, rank, enabled, name, TRUE, TRUE) /\ rank \in Int
      BY <1>3, RankAssumption DEF CarefulUpdate
    <2>2. Found(rows, id) /\ id \in DOMAIN rows
      BY <1>3, <2>1 DEF UpdateCategory, Updated, Found
    <2>3. ~Stray(id)
      BY <2>2 DEF IInv, DisabledParked, Stray
    <2>4. CASE enabled
      <3>1. List!Place(id, rank)
        BY <2>1, <2>2, <2>3, <2>4, UpdatePlaces DEF IInv
      <3> QED
        BY <1>3, <3>1 DEF List!ListNext
    <2>5. CASE ~enabled
      <3>1. rows[id].enabled
        BY <1>3, <2>2, <2>5 DEF CarefulUpdate, RedundantDisable
      <3>2. enabled = FALSE
        BY <2>5
      <3>3. List!Park(id)
        BY <2>1, <2>2, <3>1, <3>2, SwitchOffParks DEF IInv
      <3> QED
        BY <1>3, <3>3 DEF List!ListNext
    <2> QED
      BY <2>4, <2>5
  <1>4. ASSUME NEW id \in Ids, RemoveCategory(id), rows' # rows
        PROVE  FALSE
    BY <1>4, RemoveNothing
  <1> QED
    BY <1>1, <1>2, <1>3, <1>4 DEF CarefulNext

\* Careful callers see a list: a new category is appended, an enabled one put at the
\* place asked for or the nearest there is, a disabled one taken out, the others keep
\* their order, and none is forgotten (Database.cpp 104-262).
THEOREM CarefulCallersSeeAList == CarefulSpec => ImplementsRankedList
  <1>1. Init => List!ListInit
    <2> SUFFICES ASSUME Init PROVE List!ListInit
      OBVIOUS
    <2>1. DOMAIN rows = {} /\ EnabledIds(rows) = {}
      BY DEF Init, EmptyTable, EnabledIds
    <2>2. CountOn = 0 /\ Ordered
      BY <2>1, InitStep, OrderIsRanked, FS_EmptySet DEF IInv, CountOn
    <2>3. DisplayOrder = <<>>
      BY <2>2, EmptySeq DEF Ordered
    <2> QED
      BY <2>1, <2>3 DEF List!ListInit, Disabled
  <1>2. ASSUME IInv, IInv', [CarefulNext]_rows
        PROVE  [List!ListNext]_List!listVars
    <2>1. Ordered
      BY <1>2, OrderIsRanked DEF IInv
    <2>2. (TypeOK /\ RanksExact => Ordered)'
      BY OrderIsRanked, PTL
    <2>3. Ordered'
      BY <1>2, <2>2 DEF IInv
    <2>4. CASE CarefulNext
      BY <1>2, <2>1, <2>3, <2>4, CarefulCallsAreListSteps
    <2>5. CASE UNCHANGED rows
      BY <2>5 DEF List!listVars, DisplayOrder, Disabled, CountOn
    <2> QED
      BY <1>2, <2>4, <2>5
  <1> QED
    BY <1>1, <1>2, InitStep, CarefulStep, PTL
       DEF CarefulSpec, ImplementsRankedList, List!ListSpec
=============================================================================
