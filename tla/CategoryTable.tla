--------------------------- MODULE CategoryTable ---------------------------
(***************************************************************************)
(* The Category table of Database.cpp, as pure operators on its rows.      *)
(*                                                                         *)
(* A table is a function from the ids it holds to rows; the rank of an     *)
(* enabled row is its place in the list the user sees.  Each operator      *)
(* takes a table and returns the table one database function leaves.       *)
(* A definition marked "variant" is the one after it with a mistake in it, *)
(* put in its place to see which property notices.                         *)
(***************************************************************************)
EXTENDS Integers, FiniteSets, FiniteSetsExt

CONSTANTS
    RankMax,   \* RANK_MAX, the rank written into a row that is switched off
    NoName     \* the empty name of a request that does not rename

Row(Names) == [rank : Int, enabled : BOOLEAN, name : Names]

EmptyTable == [id \in {} |-> NoName]

EnabledIds(rows) == {id \in DOMAIN rows : rows[id].enabled}

\* SELECT max(rank) ... WHERE enabled = 1: NULL, read as 0, with no such row.
MaxRank(rows) ==
    LET ranks == {rows[id].rank : id \in EnabledIds(rows)}
    IN  IF ranks = {} THEN 0 ELSE Max(ranks)

\* CATE_CHANGERANK: the enabled rows ranked start..end move by value.
UpdateRanks(rows, value, start, end) ==
    [id \in DOMAIN rows |->
        IF rows[id].enabled /\ rows[id].rank >= start /\ rows[id].rank <= end
        THEN [rows[id] EXCEPT !.rank = @ + value]
        ELSE rows[id]]

-----------------------------------------------------------------------------
(* adjustOrCreateCategory: a known row is kept, a new one is appended.     *)

NewRow(rows, name) == [rank |-> MaxRank(rows) + 1, enabled |-> TRUE, name |-> name]

AdjustOrCreate(rows, id, name) ==
    [i \in DOMAIN rows \cup {id} |->
        IF i \in DOMAIN rows THEN rows[i] ELSE NewRow(rows, name)]

-----------------------------------------------------------------------------
(* removeCategory: it asks m_statements for a key that was never prepared, *)
(* steps a null statement, and so gives up before it deletes anything.     *)

PreparedStatements ==
    {"ITEM_INSERT", "ITEM_SELECT", "CATE_INSERT", "CATE_UPDATE", "CATE_DELETE",
     "CATE_SELECT", "CATE_RANK", "CATE_MAXRANK", "CATE_CHANGERANK"}

RemovalSucceeds == "CATE_REMOVE" \in PreparedStatements

DeleteRow(rows, id) ==
    IF RemovalSucceeds THEN [i \in DOMAIN rows \ {id} |-> rows[i]] ELSE rows

-----------------------------------------------------------------------------
(* updateCategory(id, rank, enabled, name)                                 *)

Found(rows, id) == id \in DOMAIN rows /\ rows[id].rank >= 0

\* min(max(rank, 1), count)
Clamp(rank, count) ==
    LET floored == IF rank < 1 THEN 1 ELSE rank
    IN  IF floored > count THEN count ELSE floored

\* (variant: a row about to be enabled is not counted)
CountEnabledBefore(rows, id, enabled) == Cardinality(EnabledIds(rows))

\* The enabled rows, with the updated one among them if it is, or is about to be.
CountEnabled(rows, id, enabled) ==
    Cardinality(EnabledIds(rows) \cup (IF enabled THEN {id} ELSE {}))

\* (variant: the rank asked for is taken as it is)
ReRangedAsAsked(rows, id, rank, enabled) == rank

ReRanged(rows, id, rank, enabled) == Clamp(rank, CountEnabled(rows, id, enabled))

SwitchesOff(rows, id, enabled) == rows[id].enabled /\ ~enabled

\* (variant: the row's own rank is shifted with the others')
ShiftOthersAndItself(rows, id, rank, enabled) ==
    LET old == rows[id].rank
        new == ReRanged(rows, id, rank, enabled)
    IN  IF SwitchesOff(rows, id, enabled) THEN UpdateRanks(rows, -1, old + 2, RankMax)
        ELSE IF old < new THEN UpdateRanks(rows, -1, old, new)
        ELSE UpdateRanks(rows, 1, new, old)

\* (variant: the row that was at the new place changes places with it)
ShiftOthersSwapping(rows, id, rank, enabled) ==
    LET old == rows[id].rank
        new == ReRanged(rows, id, rank, enabled)
    IN  IF SwitchesOff(rows, id, enabled) THEN UpdateRanks(rows, -1, old, RankMax)
        ELSE IF ~enabled THEN rows
        ELSE IF ~rows[id].enabled THEN UpdateRanks(rows, 1, new, RankMax)
        ELSE UpdateRanks(rows, old - new, new, new)

\* The first statement: make room for the row, or close the gap it leaves.
ShiftOthers(rows, id, rank, enabled) ==
    LET old == rows[id]
        new == ReRanged(rows, id, rank, enabled)
    IN  IF SwitchesOff(rows, id, enabled)
          THEN UpdateRanks(rows, -1, old.rank, RankMax)
        ELSE IF ~enabled \/ (old.enabled /\ old.rank = rank)
          THEN rows
        ELSE IF old.rank < new
          THEN UpdateRanks(rows, -1, old.rank + 1, new)
          ELSE UpdateRanks(rows, 1, new, old.rank - 1)

\* (variant: an empty name is written)
UpdatedRowRenamed(rows, id, rank, enabled, name) ==
    [rank    |-> IF SwitchesOff(rows, id, enabled) THEN RankMax
                 ELSE ReRanged(rows, id, rank, enabled),
     enabled |-> enabled,
     name    |-> name]

\* (variant: a row switched off gets the last rank)
UpdatedRowLast(rows, id, rank, enabled, name) ==
    [rank    |-> ReRanged(rows, id, rank, enabled),
     enabled |-> enabled,
     name    |-> IF name = NoName THEN rows[id].name ELSE name]

\* The row the second statement writes; an empty name keeps the old one.
UpdatedRow(rows, id, rank, enabled, name) ==
    [rank    |-> IF SwitchesOff(rows, id, enabled) THEN RankMax
                 ELSE ReRanged(rows, id, rank, enabled),
     enabled |-> enabled,
     name    |-> IF name = NoName THEN rows[id].name ELSE name]

\* Both statements, each of which may fail on its own: neither is rolled back.
Updated(rows, id, rank, enabled, name, shiftOk, writeOk) ==
    LET shifted == IF shiftOk THEN ShiftOthers(rows, id, rank, enabled) ELSE rows
    IN  IF ~Found(rows, id) THEN rows
        ELSE IF writeOk
          THEN [shifted EXCEPT ![id] = UpdatedRow(rows, id, rank, enabled, name)]
          ELSE shifted
=============================================================================
