----------------------------- MODULE MCImapSync -----------------------------
(* Small instances of ImapSync for TLC. *)
EXTENDS ImapSync

CONSTANTS r1, r2

\* Every kind of exception with every text of at most three markers.
MCError ==
  [kind : Kind, text : UNION {kSubset(k, Marker) : k \in 0..3}]

\* For a run about the cursor alone.
MCNoError == {}
=============================================================================
