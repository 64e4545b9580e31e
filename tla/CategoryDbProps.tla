-------------------------- MODULE CategoryDbProps ---------------------------
(***************************************************************************)
(* What the category table must keep true.                                 *)
(***************************************************************************)
EXTENDS CategoryDb

CountOn == Cardinality(EnabledIds(rows))

\* The ranks of the enabled categories are 1..n with none missing and none
\* shared: updateCategory's two statements together insert, move or take out
\* one element of a permutation (Database.cpp 229-244).
RanksExact ==
    /\ \A id \in EnabledIds(rows) : rows[id].rank \in 1..CountOn
    /\ \A a, b \in EnabledIds(rows) : rows[a].rank = rows[b].rank => a = b

\* A category that is off has the big rank, out of the way of every shift
\* (Database.cpp 239-240).
DisabledParked ==
    \A id \in DOMAIN rows : ~rows[id].enabled => rows[id].rank = RankMax

Stray(id) == ~rows[id].enabled /\ rows[id].rank # RankMax

\* An updateCategory that did less than it should: a statement failed, or it died
\* between them.
TornUpdate ==
    \E id \in DOMAIN rows, rank \in RankInputs, enabled \in BOOLEAN,
       name \in Names \cup {NoName}, shiftOk, writeOk \in SqlResults :
        /\ UpdateCategory(id, rank, enabled, name, shiftOk, writeOk)
        /\ ~UpdateCategory(id, rank, enabled, name, TRUE, TRUE)

\* An exact ranking is only ever broken by a torn update, or by switching on a
\* category that is off without the big rank: no other call, in any order and with
\* any arguments, does (Database.cpp 229-244).
OnlyStraysBreakRanks ==
    [][RanksExact /\ ~RanksExact' =>
        \/ \E id \in DOMAIN rows : Stray(id) /\ rows'[id].enabled
        \/ TornUpdate]_rows

\* A torn updateCategory, one of whose statements failed or which died between
\* them, leaves an exact ranking with at most two categories on one rank and
\* every rank still within one of its range (Database.cpp 231-257).
Ties == {p \in SUBSET EnabledIds(rows) :
            Cardinality(p) = 2 /\ \A a, b \in p : rows[a].rank = rows[b].rank}

TornUpdateIsSmall ==
    [][RanksExact /\ DisabledParked =>
        /\ Cardinality(Ties') <= 1
        /\ \A id \in EnabledIds(rows') : rows'[id].rank \in 0..CountOn' + 1]_rows

\* Any calls whose statements work, and failing ones in a table that is in order:
\* the bound on how far failures may pile up.
OneFaultSpec ==
    Init /\ [][Call({TRUE}) \/ (RanksExact /\ DisabledParked /\ Next)]_rows

-----------------------------------------------------------------------------
(* The table, seen through getCategories, is the ranked list.              *)

DisplayOrder ==
    [k \in 1..CountOn |-> CHOOSE id \in EnabledIds(rows) : rows[id].rank = k]

Disabled == {id \in DOMAIN rows : ~rows[id].enabled}

List == INSTANCE RankedList WITH
            Places <- RankInputs, order <- DisplayOrder, parked <- Disabled

\* Careful calls refine the list: a new category goes last, an enabled one to
\* the place asked for or the nearest there is, a disabled one leaves the list,
\* and no call reorders the others (Database.cpp 104-262).
ImplementsRankedList == List!ListSpec
=============================================================================
