---------------------------- MODULE SessionGuard ----------------------------
(***************************************************************************)
(* The deferred status events of one session and the detector of the ones  *)
(* its caller forgets: MailAccountService's pending list with its listeners *)
(* on commit and rollback (src/backend/app/accounts/service.py), and the   *)
(* guard that is asked at teardown (src/shared/session_guards.py and       *)
(* src/shared/db.py).                                                      *)
(*                                                                         *)
(* The caller is any caller of the service: it begins, writes, opens a     *)
(* savepoint, commits, rolls back and closes in any order, flushes or      *)
(* forgets to.  It keeps one norm: it flushes outside a transaction.  Two  *)
(* faults are bounded: a COMMIT whose answer is lost, and a cancellation   *)
(* in the middle of a flush.                                               *)
(***************************************************************************)
EXTENDS Integers, Sequences, FiniteSets, SequencesExt

CONSTANTS Write,    \* the status writes the session may see, each on a mailbox
          Lost,     \* bound: COMMITs whose answer is lost
          Cancels   \* bound: flushes that are cancelled

GuardAssumption == {Lost, Cancels} \subseteq Nat

VARIABLES session,   \* "idle", "open" within a transaction, "nested", "flush" or "closed"
          pending,   \* _pending_status_account_ids, the list the probe holds
          committed, \* _status_committed_count
          batch,     \* what the running flush has still to push
          pushed,    \* how often each write was given to the queue
          reported,  \* the writes the detector warned of
          fate,      \* what became of each write in the database
          savepoint, \* the writes of the savepoint that is open
          lost, cancels

vars == <<session, pending, committed, batch, pushed, reported, fate, savepoint, lost, cancels>>

faults == <<lost, cancels>>

Init ==
  /\ session = "idle" /\ pending = <<>> /\ committed = 0 /\ batch = <<>>
  /\ pushed = [w \in Write |-> 0] /\ reported = {}
  /\ fate = [w \in Write |-> "none"] /\ savepoint = {}
  /\ lost = 0 /\ cancels = 0

-----------------------------------------------------------------------------
(* The transactions of the session                                         *)

InTransaction == session \in {"open", "nested"}

\* A query begins a transaction when none is open, as db.begin() does.
Begin ==
  /\ session = "idle" /\ session' = "open"
  /\ UNCHANGED <<pending, committed, batch, pushed, reported, fate, savepoint, faults>>

\* set_active, and update with new credentials: the write, and its event deferred.
StatusWrite(w) ==
  /\ InTransaction /\ fate[w] = "none"
  /\ fate' = [fate EXCEPT ![w] = "open"]
  /\ pending' = Append(pending, w)
  /\ savepoint' = IF session = "nested" THEN savepoint \union {w} ELSE savepoint
  /\ UNCHANGED <<session, committed, batch, pushed, reported, faults>>

Settle(outcome) == fate' = [w \in Write |-> IF fate[w] = "open" THEN outcome ELSE fate[w]]

\* Mutation of MarkCommitted: the release of a savepoint counts as a commit.
MarkCommittedAlways(nested) == committed' = Len(pending)

\* _mark_pending_status_committed: after_commit comes for a savepoint too.
MarkCommitted(nested) ==
  committed' = IF nested THEN committed ELSE Len(pending)

\* Mutation of Discard: a rollback drains the whole list.
DiscardAll == pending' = <<>>

\* _discard_pending_status_on_rollback: only what this transaction appended.
Discard == pending' = SubSeq(pending, 1, committed)

Commit ==
  /\ session = "open" /\ session' = "idle"
  /\ Settle("committed") /\ MarkCommitted(FALSE)
  /\ UNCHANGED <<pending, batch, pushed, reported, savepoint, faults>>

Rollback ==
  /\ InTransaction /\ session' = "idle"
  /\ Settle("undone") /\ Discard /\ savepoint' = {}
  /\ UNCHANGED <<committed, batch, pushed, reported, faults>>

\* The connection breaks during COMMIT: the database committed or did not, the session
\* rolls back.
CommitLost ==
  /\ session = "open" /\ session' = "idle"
  /\ lost < Lost /\ lost' = lost + 1
  /\ \E outcome \in {"committed", "undone"} : Settle(outcome)
  /\ Discard
  /\ UNCHANGED <<committed, batch, pushed, reported, savepoint, cancels>>

BeginNested ==
  /\ session = "open" /\ session' = "nested"
  /\ UNCHANGED <<pending, committed, batch, pushed, reported, fate, savepoint, faults>>

Release ==
  /\ session = "nested" /\ session' = "open"
  /\ MarkCommitted(TRUE) /\ savepoint' = {}
  /\ UNCHANGED <<pending, batch, pushed, reported, fate, faults>>

\* A savepoint's rollback undoes its writes; the listener ignores it.
RollbackNested ==
  /\ session = "nested" /\ session' = "open"
  /\ fate' = [w \in Write |-> IF w \in savepoint THEN "undone_nested" ELSE fate[w]]
  /\ savepoint' = {}
  /\ UNCHANGED <<pending, committed, batch, pushed, reported, faults>>

-----------------------------------------------------------------------------
(* flush_crm_status_events and the teardown                                *)

Drain == committed' = 0 /\ pending' = <<>>

Flush ==
  /\ session = "idle" /\ session' = "flush"
  /\ batch' = pending /\ Drain
  /\ UNCHANGED <<pushed, reported, fate, savepoint, faults>>

\* enqueue_crm_status_best_effort, which tells the log when Redis refuses.
Push ==
  /\ session = "flush" /\ batch # <<>>
  /\ pushed' = [pushed EXCEPT ![Head(batch)] = @ + 1] /\ batch' = Tail(batch)
  /\ UNCHANGED <<session, pending, committed, reported, fate, savepoint, faults>>

Flushed ==
  /\ session = "flush" /\ batch = <<>> /\ session' = "idle"
  /\ UNCHANGED <<pending, committed, batch, pushed, reported, fate, savepoint, faults>>

\* The caller's task is cancelled while a push waits for Redis.
Cancelled ==
  /\ session = "flush" /\ batch # <<>> /\ cancels < Cancels /\ cancels' = cancels + 1
  /\ session' = "idle" /\ batch' = <<>>
  /\ UNCHANGED <<pending, committed, pushed, reported, fate, savepoint, lost>>

\* get_session, make_session: the guards are asked before close() ends what is open.
Teardown ==
  /\ session \in {"idle", "open"} /\ session' = "closed"
  /\ reported' = ToSet(pending)
  /\ Settle("undone")
  /\ UNCHANGED <<pending, committed, batch, pushed, savepoint, faults>>

Done == session = "closed" /\ UNCHANGED vars

Next ==
  \/ Begin \/ Commit \/ Rollback \/ CommitLost
  \/ BeginNested \/ Release \/ RollbackNested
  \/ \E w \in Write : StatusWrite(w)
  \/ Flush \/ Push \/ Flushed \/ Cancelled \/ Teardown \/ Done

Spec == Init /\ [][Next]_vars

-----------------------------------------------------------------------------
(* Properties                                                              *)

\* The type invariant of the list and its frozen part.
TypeOK ==
  /\ session \in {"idle", "open", "nested", "flush", "closed"}
  /\ pending \in Seq(Write) /\ batch \in Seq(Write) /\ committed \in 0..Len(pending)
  /\ pushed \in [Write -> Nat] /\ reported \subseteq Write
  /\ fate \in [Write -> {"none", "open", "committed", "undone", "undone_nested"}]
  /\ savepoint \subseteq Write /\ lost \in 0..Lost /\ cancels \in 0..Cancels

\* A status write that is in the database has been pushed, or the detector has named it:
\* "This module makes that loss noisy" (session_guards.py:12), whatever was rolled back,
\* released or flushed between the commit and the end of the session; but for a COMMIT
\* whose answer was lost and a flush that was cancelled, of which it hears nothing.
LossIsNoisy ==
  session = "closed" /\ lost = 0 /\ cancels = 0 =>
    \A w \in Write : fate[w] = "committed" => pushed[w] > 0 \/ w \in reported

\* Nothing is pushed that a rollback of its transaction had undone.
UndoneIsNotPushed == \A w \in Write : pushed[w] > 0 => fate[w] \in {"committed", "undone_nested"}
=============================================================================
