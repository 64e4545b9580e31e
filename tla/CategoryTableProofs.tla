------------------------ MODULE CategoryTableProofs ------------------------
(***************************************************************************)
(* What the functions of the Category table do to the flags of its rows,   *)
(* whatever the ranks are and whichever statements fail, and that they     *)
(* leave a table of rows.                                                  *)
(***************************************************************************)
EXTENDS CategoryTable, FiniteSetTheorems, WellFoundedInduction, TLAPS

IsRow(r) ==
    /\ r = [rank |-> r.rank, enabled |-> r.enabled, name |-> r.name]
    /\ r.enabled \in BOOLEAN

IsTable(t) ==
    /\ t = [i \in DOMAIN t |-> t[i]]
    /\ \A i \in DOMAIN t : IsRow(t[i])

\* A table with the same categories and the same flags.
SameFlags(t, new) ==
    /\ IsTable(new) /\ DOMAIN new = DOMAIN t
    /\ \A i \in DOMAIN t : new[i].enabled = t[i].enabled

\* A table with the same categories, and the same flags but for that of id if done.
FlagSet(t, new, id, done, enabled) ==
    /\ IsTable(new) /\ DOMAIN new = DOMAIN t
    /\ \A i \in DOMAIN t :
          new[i].enabled = IF i = id /\ done THEN enabled ELSE t[i].enabled

\* A table with at most one row more, that of id, which is on.
RowAdded(t, new, id) ==
    /\ IsTable(new)
    /\ DOMAIN t \subseteq DOMAIN new /\ DOMAIN new \subseteq DOMAIN t \cup {id}
    /\ \A i \in DOMAIN t : new[i] = t[i]
    /\ id \in DOMAIN new \ DOMAIN t => new[id].enabled = TRUE

-----------------------------------------------------------------------------
(* The statements of the table and the flags.                              *)

LEMMA RankedRow ==
    ASSUME NEW row, IsRow(row), NEW rank
    PROVE  IsRow([row EXCEPT !.rank = rank])
           /\ [row EXCEPT !.rank = rank].enabled = row.enabled
  BY DEF IsRow

\* Shifting ranks leaves the flags.
LEMMA ShiftKeepsFlags ==
    ASSUME NEW t, IsTable(t), NEW value, NEW start, NEW end
    PROVE  SameFlags(t, UpdateRanks(t, value, start, end))
  <1> DEFINE new == UpdateRanks(t, value, start, end)
  <1>1. DOMAIN new = DOMAIN t /\ new = [i \in DOMAIN new |-> new[i]]
    BY DEF UpdateRanks
  <1>2. ASSUME NEW i \in DOMAIN t
        PROVE  IsRow(new[i]) /\ new[i].enabled = t[i].enabled
    <2>1. new[i] = t[i] \/ new[i] = [t[i] EXCEPT !.rank = t[i].rank + value]
      BY DEF UpdateRanks
    <2>2. IsRow(t[i])
      BY DEF IsTable
    <2> DEFINE rank == t[i].rank + value
    <2> HIDE DEF new, rank
    <2>3. IsRow([t[i] EXCEPT !.rank = rank])
          /\ [t[i] EXCEPT !.rank = rank].enabled = t[i].enabled
      BY <2>2, RankedRow
    <2>4. new[i] = t[i] \/ new[i] = [t[i] EXCEPT !.rank = rank]
      BY <2>1 DEF rank
    <2> QED
      BY <2>2, <2>3, <2>4
  <1> QED
    BY <1>1, <1>2 DEF IsTable, SameFlags

\* ... and so does the first statement of an update.
LEMMA FirstStatementKeepsFlags ==
    ASSUME NEW t, IsTable(t), NEW id, NEW rank, NEW enabled
    PROVE  SameFlags(t, ShiftOthers(t, id, rank, enabled))
  <1>1. SameFlags(t, t)
    BY DEF SameFlags
  <1> QED
    BY <1>1, ShiftKeepsFlags, Zenon DEF ShiftOthers

\* An update changes the flag of its own row, and only with its second statement.
LEMMA UpdateSetsOneFlag ==
    ASSUME NEW t, IsTable(t), NEW id, NEW rank, NEW enabled \in BOOLEAN, NEW name,
           NEW shiftOk, NEW writeOk
    PROVE  FlagSet(t, Updated(t, id, rank, enabled, name, shiftOk, writeOk), id,
                   Found(t, id) /\ writeOk, enabled)
  <1> DEFINE shifted == IF shiftOk THEN ShiftOthers(t, id, rank, enabled) ELSE t
             row     == UpdatedRow(t, id, rank, enabled, name)
             done    == Found(t, id) /\ writeOk
  <1>1. SameFlags(t, shifted)
    BY FirstStatementKeepsFlags DEF SameFlags
  <1>2. IsRow(row) /\ row.enabled = enabled
    BY DEF UpdatedRow, IsRow
  <1>3. Found(t, id) => id \in DOMAIN t
    BY DEF Found
  <1> HIDE DEF shifted, row
  <1>4. CASE done
    <2> DEFINE new == [shifted EXCEPT ![id] = row]
    <2>1. /\ DOMAIN new = DOMAIN t
          /\ \A i \in DOMAIN t : new[i] = IF i = id THEN row ELSE shifted[i]
          /\ new = [i \in DOMAIN new |-> new[i]]
      BY <1>1, <1>3, <1>4 DEF IsTable, SameFlags
    <2> HIDE DEF new
    <2>2. FlagSet(t, new, id, done, enabled)
      BY <1>1, <1>2, <1>4, <2>1 DEF IsTable, SameFlags, FlagSet
    <2> QED
      BY <1>4, <2>2 DEF Updated, new, shifted, row
  <1>5. CASE Found(t, id) /\ ~writeOk
    <2>1. FlagSet(t, shifted, id, done, enabled)
      BY <1>1, <1>5 DEF SameFlags, FlagSet
    <2> QED
      BY <1>5, <2>1 DEF Updated, shifted
  <1>6. CASE ~Found(t, id)
    BY <1>6 DEF Updated, FlagSet
  <1> QED
    BY <1>4, <1>5, <1>6

\* Registration adds at most its own row, which is on.
LEMMA CreationAddsOneRow ==
    ASSUME NEW t, IsTable(t), NEW id, NEW name
    PROVE  RowAdded(t, AdjustOrCreate(t, id, name), id)
  <1> DEFINE new == AdjustOrCreate(t, id, name)
  <1>1. /\ DOMAIN new = DOMAIN t \cup {id}
        /\ new = [i \in DOMAIN new |-> new[i]]
        /\ \A i \in DOMAIN new : new[i] = IF i \in DOMAIN t THEN t[i] ELSE NewRow(t, name)
    BY DEF AdjustOrCreate
  <1>2. IsRow(NewRow(t, name)) /\ NewRow(t, name).enabled = TRUE
    BY DEF NewRow, IsRow
  <1> HIDE DEF new
  <1>3. IsTable(new)
    BY <1>1, <1>2 DEF IsTable
  <1>4. RowAdded(t, new, id)
    BY <1>1, <1>2, <1>3 DEF RowAdded
  <1> QED
    BY <1>4 DEF new

\* Nothing is deleted: the statement that would do it was never prepared.
LEMMA NothingDeleted == ASSUME NEW t, NEW id PROVE DeleteRow(t, id) = t
  BY DEF DeleteRow, RemovalSucceeds, PreparedStatements

-----------------------------------------------------------------------------
(* The types of rows.                                                      *)

\* A finite set of ranks that is not empty has a greatest one.
LEMMA MaxExists ==
    ASSUME NEW S, S \subseteq Int, IsFiniteSet(S), S # {}
    PROVE  Max(S) \in S /\ \A x \in S : Max(S) >= x
  <1> DEFINE Above(m) == {x \in S : x > m}
             T == {Above(m) : m \in S}
  <1>1. T \subseteq FiniteSubsetsOf(S) /\ T # {}
    <2>1. FiniteSubsetsOf(S) = SUBSET S
      BY FS_FiniteSubsetsOfFinite
    <2>2. \A m \in S : Above(m) \in SUBSET S
      OBVIOUS
    <2>3. T \subseteq SUBSET S
      BY <2>2
    <2>4. T # {}
      OBVIOUS
    <2> QED
      BY <2>1, <2>3, <2>4
  <1>2. PICK A \in T : \A B \in T : ~(<<B, A>> \in StrictSubsetOrdering(S))
    <2>1. IsWellFoundedOn(StrictSubsetOrdering(S), FiniteSubsetsOf(S))
      BY FS_StrictSubsetOrderingWellFounded
    <2> HIDE DEF T
    <2> QED BY <1>1, <2>1, WFMin
  <1>3. PICK m \in S : A = Above(m)
    BY <1>2
  <1>4. ASSUME NEW x \in S, x > m
        PROVE  FALSE
    <2>1. Above(x) \subseteq Above(m) /\ x \in Above(m) /\ x \notin Above(x)
      <3>1. x \in Int /\ m \in Int /\ \A y \in S : y \in Int
        OBVIOUS
      <3>2. ~(x > x) /\ \A y \in S : y > x => y > m
        BY <1>4, <3>1
      <3> QED
        BY <1>4, <3>2
    <2>2. <<Above(x), Above(m)>> \in StrictSubsetOrdering(S)
      BY <2>1 DEF StrictSubsetOrdering
    <2> QED
      BY <1>2, <1>3, <2>2
  <1>5. \A x \in S : m >= x
    BY <1>4
  <1> QED
    BY <1>3, <1>5 DEF Max

\* Registration leaves a table of rows.
LEMMA CreationTyped ==
    ASSUME NEW names, NEW t, t \in [DOMAIN t -> Row(names)], IsFiniteSet(EnabledIds(t)),
           NEW id, NEW name \in names
    PROVE  AdjustOrCreate(t, id, name) \in [DOMAIN t \cup {id} -> Row(names)]
  <1> DEFINE R == {t[i].rank : i \in EnabledIds(t)}
             new == NewRow(t, name)
  <1>1. R \subseteq Int
    BY DEF EnabledIds, Row
  <1>2. IsFiniteSet(R)
    <2> DEFINE f == [i \in EnabledIds(t) |-> t[i].rank]
    <2>1. f \in Surjection(EnabledIds(t), R)
      BY DEF Surjection
    <2> HIDE DEF f, R
    <2> QED
      BY <2>1, FS_Surjection
  <1>3. MaxRank(t) \in Int
    <2>1. R # {} => Max(R) \in Int
      <3> HIDE DEF R
      <3> QED BY <1>1, <1>2, MaxExists
    <2> QED
      BY <2>1 DEF MaxRank
  <1>4. new \in Row(names)
    BY <1>3 DEF NewRow, Row
  <1>5. AdjustOrCreate(t, id, name) =
          [i \in DOMAIN t \cup {id} |-> IF i \in DOMAIN t THEN t[i] ELSE new]
    BY DEF AdjustOrCreate
  <1> HIDE DEF new
  <1> QED
    BY <1>4, <1>5

\* The statement that shifts ranks writes nothing but ranks.
LEMMA UpdateRanksTyped ==
    ASSUME NEW names, NEW t, t \in [DOMAIN t -> Row(names)], NEW value \in Int,
           NEW start, NEW end
    PROVE  /\ UpdateRanks(t, value, start, end) \in [DOMAIN t -> Row(names)]
           /\ \A i \in DOMAIN t : UpdateRanks(t, value, start, end)[i].enabled = t[i].enabled
  <1> DEFINE shifted == UpdateRanks(t, value, start, end)
  <1>1. ASSUME NEW i \in DOMAIN t
        PROVE  shifted[i] \in Row(names) /\ shifted[i].enabled = t[i].enabled
    <2>1. t[i] \in Row(names)
      OBVIOUS
    <2>2. shifted[i] = t[i] \/ shifted[i] = [t[i] EXCEPT !.rank = @ + value]
      BY DEF UpdateRanks
    <2> QED
      BY <2>1, <2>2 DEF Row
  <1> QED
    BY <1>1 DEF UpdateRanks

\* ... and so does updateCategory's first statement, whichever shift it is.
LEMMA ShiftOthersTyped ==
    ASSUME NEW names, NEW t, t \in [DOMAIN t -> Row(names)], NEW id, NEW rank, NEW enabled
    PROVE  /\ ShiftOthers(t, id, rank, enabled) \in [DOMAIN t -> Row(names)]
           /\ \A i \in DOMAIN t : ShiftOthers(t, id, rank, enabled)[i].enabled = t[i].enabled
  <1> DEFINE Kept(new) == /\ new \in [DOMAIN t -> Row(names)]
                          /\ \A i \in DOMAIN t : new[i].enabled = t[i].enabled
  <1>1. ASSUME NEW value \in Int, NEW start, NEW end
        PROVE  Kept(UpdateRanks(t, value, start, end))
    BY UpdateRanksTyped
  <1>2. Kept(t)
    OBVIOUS
  <1> HIDE DEF Kept
  <1>3. -1 \in Int /\ 1 \in Int
    OBVIOUS
  <1>4. Kept(ShiftOthers(t, id, rank, enabled))
    BY <1>1, <1>2, <1>3, Zenon DEF ShiftOthers
  <1> QED
    BY <1>4 DEF Kept

\* The rank asked for is brought to a number.
LEMMA ReRangedTyped ==
    ASSUME NEW t, IsFiniteSet(EnabledIds(t)), NEW id, NEW rank \in Int, NEW enabled \in BOOLEAN
    PROVE  ReRanged(t, id, rank, enabled) \in Int
  <1> DEFINE S == EnabledIds(t) \cup (IF enabled THEN {id} ELSE {})
  <1>1. IsFiniteSet(S)
    BY FS_EmptySet, FS_Singleton, FS_Union
  <1>2. Cardinality(S) \in Nat
    BY <1>1, FS_CardinalityType
  <1>3. CountEnabled(t, id, enabled) = Cardinality(S)
    BY DEF CountEnabled
  <1> HIDE DEF S
  <1> QED
    BY <1>2, <1>3 DEF ReRanged, Clamp

\* Whatever fails, an update leaves a table of rows.
LEMMA UpdateTyped ==
    ASSUME NEW names, NEW t, t \in [DOMAIN t -> Row(names)], IsFiniteSet(EnabledIds(t)),
           RankMax \in Int, NEW id, NEW rank \in Int, NEW enabled \in BOOLEAN,
           NEW name \in names \cup {NoName}, NEW shiftOk \in BOOLEAN, NEW writeOk \in BOOLEAN
    PROVE  Updated(t, id, rank, enabled, name, shiftOk, writeOk) \in [DOMAIN t -> Row(names)]
  <1> DEFINE shifted == IF shiftOk THEN ShiftOthers(t, id, rank, enabled) ELSE t
             new == UpdatedRow(t, id, rank, enabled, name)
  <1>1. CASE ~Found(t, id)
    BY <1>1 DEF Updated
  <1>2. CASE Found(t, id)
    <2>1. id \in DOMAIN t /\ t[id] \in Row(names)
      BY <1>2 DEF Found
    <2>2. t[id].name \in names
      BY <2>1 DEF Row
    <2>3. ReRanged(t, id, rank, enabled) \in Int
      BY ReRangedTyped
    <2>4. shifted \in [DOMAIN t -> Row(names)]
      BY ShiftOthersTyped
    <2>5. new \in Row(names)
      BY <2>2, <2>3 DEF UpdatedRow, Row
    <2>6. Updated(t, id, rank, enabled, name, shiftOk, writeOk) =
            IF writeOk THEN [shifted EXCEPT ![id] = new] ELSE shifted
      BY <1>2 DEF Updated
    <2> HIDE DEF shifted, new
    <2> QED
      BY <2>1, <2>4, <2>5, <2>6
  <1> QED
    BY <1>1, <1>2
=============================================================================
