---------------------------- MODULE FeedPromise ----------------------------
(***************************************************************************)
(* What the connector promises the CRM about new mail, whatever queues,    *)
(* retries and recovery scans it is built from: a stored message is owed   *)
(* to the CRM; it is settled only after the CRM received it; a settled     *)
(* message is never owed again; a discarded one never comes back.          *)
(* Receiving twice is allowed (the CRM ingest is idempotent).              *)
(***************************************************************************)
CONSTANT Message

VARIABLES
  phase,      \* what the connector holds of each message
  received    \* messages the CRM has received at least once

vars == <<phase, received>>

Phase == {"absent", "owed", "settled", "gone"}

Init ==
  /\ phase = [m \in Message |-> "absent"]
  /\ received = {}

Move(S, from, to) ==
  /\ S # {}
  /\ \A m \in S : phase[m] \in from
  /\ phase' = [m \in Message |-> IF m \in S THEN to ELSE phase[m]]

\* A sync run commits new rows.
Commit(S) == Move(S, {"absent"}, "owed") /\ UNCHANGED received

\* The CRM stores a batch, new to it or not; only stored messages are sent.
Receive(S) ==
  /\ \A m \in S : phase[m] # "absent"
  /\ received' = received \union S
  /\ UNCHANGED phase

\* The connector stamps messages the CRM holds.
Settle(S) ==
  /\ S \subseteq received
  /\ Move(S, {"owed"}, "settled")
  /\ UNCHANGED received

\* Retention, or the deletion of the mailbox.
Discard(S) == Move(S, {"owed", "settled"}, "gone") /\ UNCHANGED received

Next ==
  \E S \in SUBSET Message : Commit(S) \/ Receive(S) \/ Settle(S) \/ Discard(S)

Spec == Init /\ [][Next]_vars
=============================================================================
