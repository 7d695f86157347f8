----------------------------- MODULE CrmOutbox -----------------------------
(***************************************************************************)
(* The CRM push-outbox (ADR-0043): messages rows are the outbox, the Redis *)
(* list crm_push_queue is its index, and the worker runs, on one event     *)
(* loop but interleaved at every await:                                    *)
(*   - the sync of a mailbox, which commits rows and then enqueues ids;    *)
(*   - crm_push_dispatch: LPOP, load, POST, stamp pushed_at or re-enqueue; *)
(*   - crm_push_recovery_scan, which re-enqueues rows never stamped;       *)
(*   - retention_cleanup, which deletes rows by age.                       *)
(* The API process deletes mailboxes, and with them their rows.  The last  *)
(* three jobs and the dispatcher run with max_instances=1; sync runs       *)
(* overlap (scheduled cycle, boot cycle, forced sync).                     *)
(*                                                                         *)
(* A message is its row id.  Two columns read by date comparisons become   *)
(* two sets: expired (internal_date before the retention threshold) and    *)
(* outOfWindow (fetched_at before the recovery window).  They move         *)
(* independently: internal_date is the Date header the sender wrote,       *)
(* fetched_at the time of the insert.                                      *)
(***************************************************************************)
EXTENDS RedisQueue

CONSTANTS
  Message,         \* messages.id values
  Account,         \* mail_accounts.id values
  MailboxOf,       \* messages.mail_account_id
  Run,             \* concurrent executions of sync_one_account
  BatchSize,       \* CRM_PUSH_BATCH_SIZE
  RecoveryBatch,   \* CRM_PUSH_RECOVERY_BATCH_SIZE
  RetentionBatch,  \* cleanup._BATCH
  Refused,         \* messages for which the CRM refuses a batch that has one
  MayExpire,       \* bound: rows that may pass the retention threshold
  MayLapse,        \* bound: rows that may leave the recovery window
  MaxFetch,        \* bound: new messages of one sync run
  MaxQueue,        \* bound: ids in circulation when a recovery scan starts
  MaxFaults        \* bound: crashes, outages and failed transactions

ASSUME OutboxAssumption ==
  /\ Message \subseteq Nat
  /\ IsFiniteSet(Message)
  /\ MailboxOf \in [Message -> Account]
  /\ BatchSize \in Nat \ {0}
  /\ RecoveryBatch \in Nat \ {0}
  /\ RetentionBatch \in Nat \ {0}
  /\ Refused \subseteq Message
  /\ MayExpire \subseteq Message /\ MayLapse \subseteq Message
  /\ MaxFetch \in Nat /\ MaxQueue \in Nat /\ MaxFaults \in Nat

VARIABLES
  row,          \* each messages row: never inserted, pushed_at NULL, stamped, deleted
  removed,      \* deleted mailboxes
  expired,      \* rows past RETENTION_DAYS
  outOfWindow,  \* rows older than CRM_PUSH_RECOVERY_WINDOW_HOURS
  queue,        \* crm_push_queue, head first
  crm,          \* messages the CRM has stored
  sync,         \* crm_push_ids of each sync run; <<>> when it has none
  dispatch,     \* the dispatcher: stage, popped ids, loaded rows
  recovery,     \* candidate_ids of the recovery scan
  retention,    \* message_ids of the retention batch
  dropped,      \* history: ids a fault took from the queue or from a task
  faults        \* faults so far

vars == <<row, removed, expired, outOfWindow, queue, crm, sync, dispatch,
          recovery, retention, dropped, faults>>

Stored == {m \in Message : row[m] \in {"pending", "pushed"}}
Pending == {m \in Message : row[m] = "pending"}

NoDispatch == [stage |-> "idle", batch |-> <<>>, loaded |-> {}]

\* Ids that live only in the memory of the worker.
Carried ==
  ToSet(dispatch.batch) \union UNION {ToSet(sync[r]) : r \in Run}

Init ==
  /\ row = [m \in Message |-> "absent"]
  /\ removed = {} /\ expired = {} /\ outOfWindow = {}
  /\ queue = <<>>
  /\ crm = {}
  /\ sync = [r \in Run |-> <<>>]
  /\ dispatch = NoDispatch
  /\ recovery = <<>>
  /\ retention = {}
  /\ dropped = {}
  /\ faults = 0

\* A fault that loses the ids of S.
Fault(S) ==
  /\ faults < MaxFaults
  /\ faults' = faults + 1
  /\ dropped' = dropped \union S

NoFault == UNCHANGED <<faults, dropped>>

SetRows(S, state) ==
  row' = [m \in Message |-> IF m \in S THEN state ELSE row[m]]

-----------------------------------------------------------------------------
(* sync_one_account                                                        *)

\* First transaction: the new messages of mailbox a get ids and are committed.
\* ON CONFLICT DO NOTHING yields no id for a stored one, and the foreign key
\* rejects rows of a mailbox deleted meanwhile.
SaveMessages(r) ==
  /\ sync[r] = <<>>
  /\ \E a \in Account \ removed :
       \E new \in SUBSET {m \in Message : row[m] = "absent" /\ MailboxOf[m] = a} :
         /\ new # {}
         /\ Cardinality(new) <= MaxFetch
         /\ SetRows(new, "pending")
         /\ \E ids \in Ascending(new) : sync' = [sync EXCEPT ![r] = ids]
  /\ NoFault
  /\ UNCHANGED <<removed, expired, outOfWindow, queue, crm, dispatch, recovery,
                 retention>>

\* After mark_sync_success and the status event: LPUSH of the new ids.
EnqueueNew(r) ==
  /\ sync[r] # <<>>
  /\ queue' = LPush(sync[r], queue)
  /\ sync' = [sync EXCEPT ![r] = <<>>]
  /\ NoFault
  /\ UNCHANGED <<row, removed, expired, outOfWindow, crm, dispatch, recovery,
                 retention>>

\* mark_sync_success raises, or Redis refuses the LPUSH (logged, swallowed).
\* The next sync finds the rows stored and does not enqueue them.
EnqueueNewFails(r) ==
  /\ sync[r] # <<>>
  /\ Fault(ToSet(sync[r]))
  /\ sync' = [sync EXCEPT ![r] = <<>>]
  /\ UNCHANGED <<row, removed, expired, outOfWindow, queue, crm, dispatch,
                 recovery, retention>>

-----------------------------------------------------------------------------
(* crm_push_dispatch                                                       *)

PopBatch ==
  /\ dispatch.stage = "idle"
  /\ queue # <<>>
  /\ dispatch' = [stage |-> "popped", batch |-> LPopped(queue, BatchSize),
                  loaded |-> {}]
  /\ queue' = LPopRest(queue, BatchSize)
  /\ NoFault
  /\ UNCHANGED <<row, removed, expired, outOfWindow, crm, sync, recovery, retention>>

\* Mutation of LoadBatch: a batch with no row left counts as a failed POST.
LoadBatchEmptyFails ==
  /\ dispatch.stage = "popped"
  /\ LET rows == ToSet(dispatch.batch) \intersect Stored
     IN dispatch' = [dispatch EXCEPT !.stage = IF rows = {} THEN "failed" ELSE "sending",
                                     !.loaded = rows]
  /\ NoFault
  /\ UNCHANGED <<row, removed, expired, outOfWindow, queue, crm, sync, recovery,
                 retention>>

\* list_for_crm_push: rows whatever their pushed_at; missing ids fall out, and
\* a batch with no row left is done.
LoadBatch ==
  /\ dispatch.stage = "popped"
  /\ LET rows == ToSet(dispatch.batch) \intersect Stored
     IN dispatch' = IF rows = {} THEN NoDispatch
                    ELSE [dispatch EXCEPT !.stage = "sending", !.loaded = rows]
  /\ NoFault
  /\ UNCHANGED <<row, removed, expired, outOfWindow, queue, crm, sync, recovery,
                 retention>>

\* The CRM stores the whole batch and answers 2xx.
CrmAccepts ==
  /\ dispatch.stage = "sending"
  /\ dispatch.loaded \intersect Refused = {}
  /\ crm' = crm \union dispatch.loaded
  /\ dispatch' = [dispatch EXCEPT !.stage = "accepted"]
  /\ NoFault
  /\ UNCHANGED <<row, removed, expired, outOfWindow, queue, sync, recovery, retention>>

\* Mutation of CrmRefuses: the status code is not looked at.
CrmRefusesAsSuccess ==
  /\ dispatch.stage = "sending"
  /\ dispatch' = [dispatch EXCEPT !.stage = "accepted"]
  /\ NoFault
  /\ UNCHANGED <<row, removed, expired, outOfWindow, queue, crm, sync, recovery,
                 retention>>

\* Non-2xx, or a transport error before the CRM stored anything.
CrmRefuses ==
  /\ dispatch.stage = "sending"
  /\ dispatch' = [dispatch EXCEPT !.stage = "failed"]
  /\ NoFault
  /\ UNCHANGED <<row, removed, expired, outOfWindow, queue, crm, sync, recovery,
                 retention>>

\* The CRM stored the batch but the answer did not arrive in time.
ResponseLost ==
  /\ dispatch.stage = "accepted"
  /\ dispatch' = [dispatch EXCEPT !.stage = "failed"]
  /\ NoFault
  /\ UNCHANGED <<row, removed, expired, outOfWindow, queue, crm, sync, recovery,
                 retention>>

\* Mutation of MarkPushed: the stamp written as an upsert, which brings back a row
\* retention has deleted.
MarkPushedUpsert ==
  /\ dispatch.stage = "accepted"
  /\ SetRows(dispatch.loaded, "pushed")
  /\ dispatch' = NoDispatch
  /\ NoFault
  /\ UNCHANGED <<removed, expired, outOfWindow, queue, crm, sync, recovery, retention>>

\* mark_pushed of the loaded rows that are still there and unstamped, COMMIT.
MarkPushed ==
  /\ dispatch.stage = "accepted"
  /\ SetRows(dispatch.loaded \intersect Pending, "pushed")
  /\ dispatch' = NoDispatch
  /\ NoFault
  /\ UNCHANGED <<removed, expired, outOfWindow, queue, crm, sync, recovery, retention>>

\* Mutation of Reenqueue: only the first id of the batch goes back.
ReenqueueFirst ==
  /\ dispatch.stage = "failed"
  /\ queue' = LPush(SubSeq(dispatch.batch, 1, 1), queue)
  /\ dispatch' = NoDispatch
  /\ NoFault
  /\ UNCHANGED <<row, removed, expired, outOfWindow, crm, sync, recovery, retention>>

\* The whole popped batch goes back, missing and stamped ids included.
Reenqueue ==
  /\ dispatch.stage = "failed"
  /\ queue' = LPush(dispatch.batch, queue)
  /\ dispatch' = NoDispatch
  /\ NoFault
  /\ UNCHANGED <<row, removed, expired, outOfWindow, crm, sync, recovery, retention>>

\* The re-enqueue finds Redis down (logged), or the load, the UPDATE or the
\* COMMIT raises: the tick ends and the popped ids are gone.
DispatchFails ==
  /\ dispatch.stage # "idle"
  /\ Fault(ToSet(dispatch.batch))
  /\ dispatch' = NoDispatch
  /\ UNCHANGED <<row, removed, expired, outOfWindow, queue, crm, sync, recovery,
                 retention>>

-----------------------------------------------------------------------------
(* crm_push_recovery_scan                                                  *)

\* Mutation of RecoveryScan: the window comparison is inverted.
RecoveryScanInverted ==
  /\ recovery = <<>>
  /\ LET found == Lowest(Pending \intersect outOfWindow, RecoveryBatch)
     IN /\ found # {}
        /\ Len(queue) + Len(dispatch.batch) + Cardinality(found) <= MaxQueue
        /\ recovery' \in Ascending(found)
  /\ NoFault
  /\ UNCHANGED <<row, removed, expired, outOfWindow, queue, crm, sync, dispatch,
                 retention>>

RecoveryScan ==
  /\ recovery = <<>>
  /\ LET found == Lowest(Pending \ outOfWindow, RecoveryBatch)
     IN /\ found # {}
        /\ Len(queue) + Len(dispatch.batch) + Cardinality(found) <= MaxQueue
        /\ recovery' \in Ascending(found)
  /\ NoFault
  /\ UNCHANGED <<row, removed, expired, outOfWindow, queue, crm, sync, dispatch,
                 retention>>

\* The ids are in the queue again, some of them a second time.
RecoveryEnqueue ==
  /\ recovery # <<>>
  /\ queue' = LPush(recovery, queue)
  /\ dropped' = dropped \ ToSet(recovery)
  /\ recovery' = <<>>
  /\ UNCHANGED <<row, removed, expired, outOfWindow, crm, sync, dispatch, retention,
                 faults>>

\* enqueue_push_ids is not guarded here: the tick raises and the ids wait for
\* the next scan.
RecoveryFails ==
  /\ recovery # <<>>
  /\ Fault({})
  /\ recovery' = <<>>
  /\ UNCHANGED <<row, removed, expired, outOfWindow, queue, crm, sync, dispatch,
                 retention>>

-----------------------------------------------------------------------------
(* retention_cleanup and the deletion of a mailbox                         *)

\* select_expired asks for internal_date only, not for pushed_at.
SelectExpired ==
  /\ retention = {}
  /\ retention' = Lowest(Stored \intersect expired, RetentionBatch)
  /\ retention' # {}
  /\ NoFault
  /\ UNCHANGED <<row, removed, expired, outOfWindow, queue, crm, sync, dispatch,
                 recovery>>

DeleteExpired ==
  /\ retention # {}
  /\ SetRows(retention \intersect Stored, "deleted")
  /\ retention' = {}
  /\ NoFault
  /\ UNCHANGED <<removed, expired, outOfWindow, queue, crm, sync, dispatch, recovery>>

\* DELETE of the mailbox; its rows go by ON DELETE CASCADE.
DeleteMailbox(a) ==
  /\ a \notin removed
  /\ removed' = removed \union {a}
  /\ SetRows({m \in Stored : MailboxOf[m] = a}, "deleted")
  /\ NoFault
  /\ UNCHANGED <<expired, outOfWindow, queue, crm, sync, dispatch, recovery, retention>>

-----------------------------------------------------------------------------
(* Time and faults                                                         *)

\* A row may be past the retention threshold from the moment it is inserted:
\* its Date header can be years old.
Expire(m) ==
  /\ m \in (Stored \intersect MayExpire) \ expired
  /\ expired' = expired \union {m}
  /\ NoFault
  /\ UNCHANGED <<row, removed, outOfWindow, queue, crm, sync, dispatch, recovery,
                 retention>>

LeaveWindow(m) ==
  /\ m \in (Stored \intersect MayLapse) \ outOfWindow
  /\ outOfWindow' = outOfWindow \union {m}
  /\ NoFault
  /\ UNCHANGED <<row, removed, expired, queue, crm, sync, dispatch, recovery,
                 retention>>

\* The worker dies and restarts: the tables, the queue and the CRM remain.
WorkerRestart ==
  /\ Fault(Carried)
  /\ sync' = [r \in Run |-> <<>>]
  /\ dispatch' = NoDispatch
  /\ recovery' = <<>>
  /\ retention' = {}
  /\ UNCHANGED <<row, removed, expired, outOfWindow, queue, crm>>

\* Redis keeps nothing on disk (--save "", appendonly no) and may evict the
\* list (allkeys-lru).
RedisLoss ==
  /\ queue # <<>>
  /\ Fault(ToSet(queue))
  /\ queue' = <<>>
  /\ UNCHANGED <<row, removed, expired, outOfWindow, crm, sync, dispatch, recovery,
                 retention>>

-----------------------------------------------------------------------------
SyncStep(r) == SaveMessages(r) \/ EnqueueNew(r) \/ EnqueueNewFails(r)

DispatchStep ==
  \/ PopBatch \/ LoadBatch \/ CrmAccepts \/ CrmRefuses \/ ResponseLost
  \/ MarkPushed \/ Reenqueue \/ DispatchFails

RecoveryStep == RecoveryScan \/ RecoveryEnqueue \/ RecoveryFails

DeletionStep ==
  SelectExpired \/ DeleteExpired \/ (\E a \in Account : DeleteMailbox(a))

Next ==
  \/ \E r \in Run : SyncStep(r)
  \/ DispatchStep
  \/ RecoveryStep
  \/ DeletionStep
  \/ \E m \in Message : Expire(m) \/ LeaveWindow(m)
  \/ WorkerRestart
  \/ RedisLoss

Spec == Init /\ [][Next]_vars

(***************************************************************************)
(* APScheduler keeps ticking every job, a started tick runs on, and the    *)
(* CRM and the network are up often enough that a POST which can succeed   *)
(* is not refused, nor its answer lost, for ever.                          *)
(***************************************************************************)
Fairness ==
  /\ \A r \in Run : WF_vars(EnqueueNew(r))
  /\ WF_vars(PopBatch) /\ WF_vars(LoadBatch) /\ WF_vars(CrmRefuses)
  /\ WF_vars(Reenqueue)
  /\ SF_vars(CrmAccepts) /\ SF_vars(MarkPushed)
  /\ WF_vars(RecoveryScan) /\ WF_vars(RecoveryEnqueue)
  /\ WF_vars(SelectExpired) /\ WF_vars(DeleteExpired)

FairSpec == Spec /\ Fairness
-----------------------------------------------------------------------------
(* Properties                                                              *)

Stage == {"idle", "popped", "sending", "accepted", "failed"}

TypeOK ==
  /\ row \in [Message -> {"absent", "pending", "pushed", "deleted"}]
  /\ removed \subseteq Account
  /\ expired \subseteq Message
  /\ outOfWindow \subseteq Message
  /\ queue \in Seq(Message)
  /\ crm \subseteq Message
  /\ sync \in [Run -> Seq(Message)]
  /\ dispatch \in [stage : Stage, batch : Seq(Message), loaded : SUBSET Message]
  /\ recovery \in Seq(Message)
  /\ retention \subseteq Message
  /\ dropped \subseteq Message
  /\ faults \in Nat

\* A stamped row is one the CRM holds, whatever was re-enqueued, posted twice,
\* deleted in between or lost with a restart: pushed_at is what the recovery
\* scan trusts (push_message_ids stamps only after a 2xx).
PushedIsDelivered == \A m \in Message : row[m] = "pushed" => m \in crm

\* An undelivered row is in the queue, in the hands of a sync run or of the
\* dispatcher, or was taken from them by a fault the recovery scan has not
\* repaired: no ordinary path of the code (a refusal, a lost answer, a row
\* deleted under the dispatcher, a partial batch) forgets an id.
PendingIsCarried == Pending \subseteq ToSet(queue) \union Carried \union dropped

\* The outbox implements the abstract promise to the CRM.
PhaseOf(state) ==
  CASE state = "absent" -> "absent"
    [] state = "pending" -> "owed"
    [] state = "pushed" -> "settled"
    [] state = "deleted" -> "gone"

Feed == INSTANCE FeedPromise WITH
  phase <- [m \in Message |-> PhaseOf(row[m])],
  received <- crm

FeedKeepsPromise == Feed!Spec

\* Every undelivered row is delivered and stamped, or deleted, or outlives the
\* recovery window; faults included, as long as they stop.
EveryMessageSettles ==
  \A m \in Message :
    row[m] = "pending" ~> (row[m] # "pending" \/ m \in outOfWindow)

\* Re-enqueueing comes to an end: ids of deleted and of stamped rows do not
\* circulate between the queue and the dispatcher for ever.
RetriesEnd == <>[](queue = <<>> /\ dispatch = NoDispatch)

\* Retention prunes only what the CRM, the durable store, already holds
\* (cleanup.py).  The code deletes by internal_date alone: see
\* outbox_retention.cfg.
RetentionKeepsUndelivered ==
  \A m \in Message :
    row[m] = "deleted" /\ MailboxOf[m] \notin removed => m \in crm
=============================================================================
