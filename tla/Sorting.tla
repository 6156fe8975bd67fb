------------------------------- MODULE Sorting -------------------------------
(* What std::sort, std::set and std::copy_if make of their elements, said  *)
(* by counting: an element comes after as many others as are before it.    *)
EXTENDS Integers, Sequences, FiniteSets

(* The elements of a finite set in the order given by a set of pairs.      *)
InOrder(S, before) ==
  [n \in 1..Cardinality(S) |->
     CHOOSE x \in S : Cardinality({y \in S : <<y, x>> \in before}) = n - 1]

Ascending(S) == InOrder(S, {p \in S \X S : p[1] < p[2]})

Taken(s, positions) == [n \in DOMAIN positions |-> s[positions[n]]]

(* The elements at some positions, in the order they have in s.            *)
Selected(s, positions) == Taken(s, Ascending(positions))

(* The elements of s by what is less, given as pairs of their positions;   *)
(* what is not told apart stays in the order it had.                       *)
Arranged(s, less) ==
  LET D == DOMAIN s
  IN Taken(s, InOrder(D, {p \in D \X D : p \in less \/ (<<p[2], p[1]>> \notin less /\ p[1] < p[2])}))

SortedBy(s, key) == Arranged(s, {p \in (DOMAIN s) \X (DOMAIN s) : key[p[1]] < key[p[2]]})

Sorted(s) == SortedBy(s, s)
=============================================================================
