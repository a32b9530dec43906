------------------------------- MODULE Places --------------------------------
(***************************************************************************)
(* The elements of a list that pass a filter, in order, by the places they *)
(* have in it: what the list comprehensions of tgbot.py and the greps of   *)
(* install.sh keep of the lines of a file. Counted and not folded, for the *)
(* proofs: SelectSeq has the same value.                                   *)
(***************************************************************************)
EXTENDS Naturals, FiniteSets

Rank(places, i) == Cardinality({j \in places : j <= i})

\* The k-th of the places.
PlaceOf(places, k) == CHOOSE i \in places : Rank(places, i) = k

InOrder(places) == [k \in 1..Cardinality(places) |-> PlaceOf(places, k)]

\* The elements of s at the places of a set, in order.
KeptAt(s, places) == [k \in 1..Cardinality(places) |-> s[PlaceOf(places, k)]]
=============================================================================
