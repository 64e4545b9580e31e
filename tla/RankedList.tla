----------------------------- MODULE RankedList -----------------------------
(***************************************************************************)
(* What the category table promises its users: a list of the categories    *)
(* that are on, each at the place it was last moved to, and a set of those *)
(* that are off.  A category, once known, is never forgotten.              *)
(***************************************************************************)
EXTENDS Integers, Sequences, SequencesExt

CONSTANTS Ids, Places

VARIABLES
    order,     \* the categories that are on, in display order
    parked     \* the categories that are off

listVars == <<order, parked>>

Known == ToSet(order) \cup parked

PlaceOf(id) == CHOOSE k \in DOMAIN order : order[k] = id

\* The list without id, wherever it is.
Without(id) == IF id \in ToSet(order) THEN RemoveAt(order, PlaceOf(id)) ELSE order

\* The nearest place to the one asked for in a list with room for n.
Nearest(place, n) == IF place < 1 THEN 1 ELSE IF place > n THEN n ELSE place

ListInit == order = <<>> /\ parked = {}

Append1(id) ==
    /\ id \notin Known
    /\ order' = Append(order, id)
    /\ UNCHANGED parked

\* Switching on and moving are one operation: take it out, put it in.
Place(id, place) ==
    /\ id \in Known
    /\ order' = InsertAt(Without(id), Nearest(place, Len(Without(id)) + 1), id)
    /\ parked' = parked \ {id}

Park(id) ==
    /\ id \in ToSet(order)
    /\ order' = Without(id)
    /\ parked' = parked \cup {id}

ListNext ==
    \E id \in Ids :
        \/ Append1(id)
        \/ \E place \in Places : Place(id, place)
        \/ Park(id)

ListSpec == ListInit /\ [][ListNext]_listVars
=============================================================================
