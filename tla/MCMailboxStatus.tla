-------------------------- MODULE MCMailboxStatus --------------------------
(* Small instances of MailboxStatus for TLC. *)
EXTENDS MailboxStatus

CONSTANTS a1, a2, a3, a4, cycle, boot, forced
=============================================================================
