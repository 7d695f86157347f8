------------------------- MODULE MCConnectionProbe -------------------------
(* ConnectionProbe for TLC. *)
EXTENDS ConnectionProbe, TLC

\* Requests are interchangeable.
Symmetry == Permutations(Probe)
=============================================================================
