----------------------------- MODULE CategoryDb -----------------------------
(***************************************************************************)
(* The Category table as a state machine: Database::adjustOrCreateCategory,*)
(* updateCategory and removeCategory called in any order, with any         *)
(* arguments, by the bus API and by the application manager's client.      *)
(***************************************************************************)
EXTENDS CategoryTable, Sequences

CONSTANTS
    Ids,          \* category ids
    Names,        \* display names, NoName not among them
    RankInputs,   \* ranks a caller may ask for
    SqlResults    \* outcomes of an SQL write: {TRUE}, or BOOLEAN to let it fail

ASSUME IdsAssumption == IsFiniteSet(Ids) /\ Cardinality(Ids) < RankMax
ASSUME RankAssumption == RankMax \in Nat /\ RankInputs \subseteq Int
ASSUME NameAssumption == NoName \notin Names
ASSUME SqlAssumption == TRUE \in SqlResults /\ SqlResults \subseteq BOOLEAN

VARIABLE rows     \* the persistent table

TypeOK ==
    /\ DOMAIN rows \subseteq Ids
    /\ rows \in [DOMAIN rows -> Row(Names)]

Init == rows = EmptyTable

\* The insert may fail; then the table is as it was.
AdjustOrCreateCategory(id, name, ok) ==
    rows' = IF ok THEN AdjustOrCreate(rows, id, name) ELSE rows

UpdateCategory(id, rank, enabled, name, shiftOk, writeOk) ==
    rows' = Updated(rows, id, rank, enabled, name, shiftOk, writeOk)

RemoveCategory(id) == rows' = DeleteRow(rows, id)

\* Any call by anyone, its statements ending in one of the results.
Call(results) ==
    \E id \in Ids :
        \/ \E name \in Names, ok \in results : AdjustOrCreateCategory(id, name, ok)
        \/ \E rank \in RankInputs, enabled \in BOOLEAN, name \in Names \cup {NoName},
              shiftOk, writeOk \in results :
                UpdateCategory(id, rank, enabled, name, shiftOk, writeOk)
        \/ RemoveCategory(id)

Next == Call(SqlResults)

Spec == Init /\ [][Next]_rows

-----------------------------------------------------------------------------
(* Careful callers never switch off what is already off, and no statement  *)
(* fails.  Nothing in the code makes its callers careful.                  *)

RedundantDisable(id, enabled) == id \in DOMAIN rows /\ ~rows[id].enabled /\ ~enabled

CarefulUpdate(id, rank, enabled, name) ==
    /\ ~RedundantDisable(id, enabled)
    /\ UpdateCategory(id, rank, enabled, name, TRUE, TRUE)

CarefulNext ==
    \E id \in Ids :
        \/ \E name \in Names : AdjustOrCreateCategory(id, name, TRUE)
        \/ \E rank \in RankInputs, enabled \in BOOLEAN, name \in Names \cup {NoName} :
                CarefulUpdate(id, rank, enabled, name)
        \/ RemoveCategory(id)

CarefulSpec == Init /\ [][CarefulNext]_rows
=============================================================================
