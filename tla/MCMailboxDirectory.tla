------------------------- MODULE MCMailboxDirectory -------------------------
(* Small instances of MailboxDirectory for TLC. *)
EXTENDS MailboxDirectory, TLC

CONSTANTS q1, q2, s1, s2, x, y, lower, mixed

DirectorySymmetry == Permutations(Request) \union Permutations(State) \union Permutations(Address)
=============================================================================
