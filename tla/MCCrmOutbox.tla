---------------------------- MODULE MCCrmOutbox ----------------------------
(* Small instances of CrmOutbox for TLC. *)
EXTENDS CrmOutbox, TLC

CONSTANTS a1, a2, r1, r2

\* Rows 1 and 2 belong to the first mailbox, row 3 to the second.
MCMailboxOf == [m \in Message |-> IF m <= 2 THEN a1 ELSE a2]

\* All rows in one mailbox.
MCOneMailbox == [m \in Message |-> a1]

RunSymmetry == Permutations(Run)
=============================================================================
