------------------------------- MODULE Arrays -------------------------------
(***************************************************************************)
(* The array methods of JavaScript that the pages use, for elements that   *)
(* are told apart by where they are: sort puts each place at its rank, and *)
(* filter keeps the order. (SelectSeq and SortSeq say the same, but have   *)
(* no definition that a proof can expand.)                                 *)
(***************************************************************************)
EXTENDS Naturals, FiniteSets, Sequences

\* The elements of S, each once, ranked by R: those before x are the y with
\* <<y, x>> in R, a strict total order.
Sorted(S, R) ==
  [n \in 1..Cardinality(S) |-> CHOOSE x \in S : Cardinality({y \in S : <<y, x>> \in R}) = n - 1]

\* The elements of a sequence at some places, in the order R of the places.
Arranged(s, places, R) ==
  LET order == Sorted(places, R)
  IN [n \in 1..Cardinality(places) |-> s[order[n]]]

\* The order of the places themselves.
Along(s) == {p \in (DOMAIN s) \X (DOMAIN s) : p[1] < p[2]}

\* filter: the elements that are in T.
Kept(s, T) == Arranged(s, {i \in DOMAIN s : s[i] \in T}, Along(s))
=============================================================================
