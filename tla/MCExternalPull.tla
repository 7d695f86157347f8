---------------------------- MODULE MCExternalPull --------------------------
(* ExternalPull for TLC. *)
EXTENDS ExternalPull, TLC

\* Transactions, addresses and messages of a mailbox are interchangeable.
Symmetry == Permutations(Writer) \union Permutations(Email) \union Permutations(Uid)

NoFilter == {{}}
FilterTwo == {{}, {2}}
=============================================================================
