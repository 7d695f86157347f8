------------------------------ MODULE IdOrder ------------------------------
(* Sets of numeric ids taken in ascending order. *)
EXTENDS Integers, Sequences, FiniteSets, SequencesExt

\* The enumeration of a finite set of ids in ascending order: SQL ORDER BY id.
Ascending(S) ==
  {s \in [1..Cardinality(S) -> S] :
     /\ ToSet(s) = S
     /\ \A i, j \in DOMAIN s : i < j => s[i] < s[j]}

\* ORDER BY id LIMIT n.
Lowest(S, n) == {m \in S : Cardinality({k \in S : k < m}) < n}
=============================================================================
