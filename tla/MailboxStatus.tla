--------------------------- MODULE MailboxStatus ---------------------------
(***************************************************************************)
(* The status of a mailbox (is_active, last_sync_error,                    *)
(* consecutive_failures, the alert stamp, oauth_needs_consent), everyone   *)
(* who writes it, and its mirror at the CRM (ADR-0026, 0033, 0046):        *)
(*   - sync runs of the worker: the scheduled cycle, the cycle at boot and *)
(*     the forced-sync dispatcher, which overlap.  A run syncs its         *)
(*     mailboxes concurrently, writes each error at once, and only after   *)
(*     the circuit-breaker decision bumps and disables, one by one;        *)
(*   - CRM requests to the API: PATCH (enable, disable, new credentials),  *)
(*     DELETE, and the OAuth re-consent;                                   *)
(*   - crm_status_dispatch, which pops mailbox ids and posts the snapshot  *)
(*     it then reads.                                                      *)
(* Whoever commits a status enqueues the id after the COMMIT; between the  *)
(* two anything may run.                                                   *)
(*                                                                         *)
(* last_synced_at is left out: whether it suppresses a transient error is  *)
(* a free choice.  A permanent verdict is always an explicit one: classify *)
(* and is_explicit_permanent ask the same two questions, so the threshold  *)
(* on consecutive_failures decides nothing.                                *)
(***************************************************************************)
EXTENDS RedisQueue

CONSTANTS
  Account,        \* mail_accounts.id values
  OAuth,          \* accounts with auth_type oauth_outlook
  Job,            \* runs of _run_for_accounts that may overlap
  Forced,         \* those of force_sync_dispatch: any active mailboxes
  MassMin,        \* SYNC_MASS_FAILURE_MIN
  RatioNum,       \* SYNC_MASS_FAILURE_RATIO = RatioNum / RatioDen
  RatioDen,
  StatusEnabled,  \* crm_status_enabled
  BatchSize,      \* CRM_STATUS_BATCH_SIZE
  MaxEdits,       \* bound: requests of the CRM
  MaxQueue,       \* bound: events in circulation when a run or a request starts
  MaxFailures,    \* bound: where the count of consecutive_failures stops
  MaxFaults,      \* bound: crashes, outages and failed writes
  MaxLate         \* bound: timed-out POSTs the CRM processes later

ASSUME StatusAssumption ==
  /\ OAuth \subseteq Account /\ Forced \subseteq Job
  /\ MassMin \in Nat \ {0}
  /\ RatioNum \in Nat /\ RatioDen \in Nat \ {0} /\ RatioNum <= RatioDen
  /\ StatusEnabled \in BOOLEAN
  /\ BatchSize \in Nat \ {0}
  /\ MaxEdits \in Nat /\ MaxQueue \in Nat /\ MaxFailures \in Nat
  /\ MaxFaults \in Nat /\ MaxLate \in Nat

VARIABLES
  row,      \* the status columns of each mail_accounts row
  stage,    \* each run: idle, gathering, recording crashes, disabling
  task,     \* each run: the outcome of each mailbox so far
  owed,     \* each run: mailboxes committed, status event not yet enqueued
  request,  \* the API request being served: stage, mailbox, edit, events to send
  queue,    \* crm_status_queue, head first
  batch,    \* ids the dispatcher popped and has not served
  posting,  \* the snapshot being posted for Head(batch), or NoPost
  late,     \* timed-out POSTs the CRM has processed since (arrived) or may still process
  mirror,   \* the CRM's copy of each status
  lost,     \* history: mailboxes whose status event a fault took
  edits,    \* requests so far
  faults    \* faults so far

workerVars == <<stage, task, owed>>
channelVars == <<queue, batch, posting, late, mirror>>
vars == <<row, workerVars, request, channelVars, lost, edits, faults>>

Clean == [here |-> TRUE, active |-> TRUE, err |-> "none", fails |-> 0,
          stamp |-> FALSE, consent |-> FALSE]

\* _account_to_status: the mirrored columns of a row.
Snapshot(r) == [active |-> r.active, err |-> r.err, fails |-> r.fails]

NoPost == [stage |-> "none"]
NoRequest == [stage |-> "idle", pending |-> 0]
NoTasks == [a \in Account |-> "none"]

Init ==
  /\ row = [a \in Account |-> Clean]
  /\ stage = [j \in Job |-> "idle"]
  /\ task = [j \in Job |-> NoTasks]
  /\ owed = [j \in Job |-> {}]
  /\ request = NoRequest
  /\ queue = <<>> /\ batch = <<>>
  /\ posting = NoPost
  /\ late = {}
  /\ mirror = [a \in Account |-> Snapshot(Clean)]
  /\ lost = {}
  /\ edits = 0 /\ faults = 0

Fault(S) ==
  /\ faults < MaxFaults
  /\ faults' = faults + 1
  /\ lost' = lost \union S

NoFault == UNCHANGED <<lost, faults>>

\* An UPDATE by primary key: no row, no effect.
Write(a, r) == row' = [row EXCEPT ![a] = IF row[a].here THEN r ELSE row[a]]

\* The open transaction of a PATCH holds the lock of the row it updated.
Unlocked(a) == request.stage = "open" => request.account # a

\* enqueue_crm_status_best_effort: the gate, then the LPUSH.
Enqueue(a) ==
  queue' = IF StatusEnabled THEN LPush(<<a>>, queue) ELSE queue

Quiet == Len(queue) + Len(batch) <= MaxQueue
-----------------------------------------------------------------------------
(* A sync run: list the mailboxes, sync each of them                       *)

\* list_active, or list_active_by_ids for the drained markers.  A mailbox
\* loaded with oauth_needs_consent is skipped whatever its row says later.
StartRun(j) ==
  /\ stage[j] = "idle" /\ Quiet
  /\ \E S \in SUBSET {a \in Account : row[a].here /\ row[a].active} :
       /\ S # {}
       /\ j \notin Forced => S = {a \in Account : row[a].here /\ row[a].active}
       /\ task' = [task EXCEPT ![j] = [a \in Account |->
                     IF a \notin S THEN "none"
                     ELSE IF row[a].consent THEN "skipping" ELSE "working"]]
  /\ stage' = [stage EXCEPT ![j] = "gather"]
  /\ NoFault
  /\ UNCHANGED <<row, owed, request, channelVars, edits>>

\* A task of the run commits row r for mailbox a, then ends with an outcome,
\* its status event still owed.
CommitThen(j, a, r, outcome) ==
  /\ Unlocked(a)
  /\ Write(a, r)
  /\ task' = [task EXCEPT ![j][a] = outcome]
  /\ owed' = [owed EXCEPT ![j] = @ \union {a}]
  /\ NoFault
  /\ UNCHANGED <<stage, request, channelVars, edits>>

\* A task ends without having written the row.
EndTask(j, a, outcome) ==
  /\ task' = [task EXCEPT ![j][a] = outcome]
  /\ UNCHANGED <<row, stage, owed, request, channelVars, edits>>

\* mark_sync_success, COMMIT.
SyncSucceeds(j, a) ==
  /\ task[j][a] = "working"
  /\ CommitThen(j, a, [row[a] EXCEPT !.err = "none", !.fails = 0], "ok")

\* A transient error, recorded, or suppressed while the last success is recent.
SyncTransient(j, a) ==
  /\ task[j][a] = "working"
  /\ \/ CommitThen(j, a, [row[a] EXCEPT !.err = "transient"], "transient")
     \/ EndTask(j, a, "transient") /\ NoFault

\* A permanent error: recorded now, judged when the run has gathered.
SyncPermanent(j, a) ==
  /\ task[j][a] = "working"
  /\ CommitThen(j, a, [row[a] EXCEPT !.err = "permanent"], "permanent")

\* _persist_refresh, before the fetch: new tokens, and the flag cleared, without
\* an event; the task goes on.
RefreshToken(j, a) ==
  /\ task[j][a] = "working" /\ a \in OAuth
  /\ Unlocked(a)
  /\ Write(a, [row[a] EXCEPT !.consent = FALSE])
  /\ NoFault
  /\ UNCHANGED <<workerVars, request, channelVars, edits>>

\* mark_oauth_needs_consent.
Revoked(r) == [r EXCEPT !.consent = TRUE, !.err = "consent"]

\* Microsoft answers invalid_grant to the refresh, or did so meanwhile to a
\* concurrent one, which wrote the row: a clean skip either way.
SyncRevoked(j, a) ==
  /\ task[j][a] = "working" /\ a \in OAuth
  /\ \/ CommitThen(j, a, Revoked(row[a]), "ok")
     \/ row[a].consent /\ EndTask(j, a, "ok") /\ NoFault

\* Mutation of SkipConsent: the clean skip writes no marker.
SkipConsentSilently(j, a) ==
  /\ task[j][a] = "skipping"
  /\ EndTask(j, a, "ok")
  /\ NoFault

\* _record_needs_consent_marker: one guarded UPDATE, an event only if it wrote.
SkipConsent(j, a) ==
  /\ task[j][a] = "skipping"
  /\ IF row[a].here /\ row[a].err # "consent"
       THEN CommitThen(j, a, [row[a] EXCEPT !.err = "consent"], "ok")
       ELSE Unlocked(a) /\ EndTask(j, a, "ok") /\ NoFault

\* An exception escapes sync_one_account: a write failed, or the mailbox was
\* deleted under the insert of its messages.
SyncCrashes(j, a) ==
  /\ task[j][a] \in {"working", "skipping"}
  /\ IF row[a].here THEN Fault({}) ELSE NoFault
  /\ EndTask(j, a, "crashed")

\* The event of a committed status; Redis may be down (logged, swallowed).
EnqueueOwed(j, a) ==
  /\ a \in owed[j]
  /\ Enqueue(a)
  /\ owed' = [owed EXCEPT ![j] = @ \ {a}]
  /\ lost' = lost \ {a}
  /\ UNCHANGED <<row, stage, task, request, batch, posting, late, mirror, edits, faults>>

EnqueueOwedFails(j, a) ==
  /\ a \in owed[j]
  /\ Fault({a})
  /\ owed' = [owed EXCEPT ![j] = @ \ {a}]
  /\ UNCHANGED <<row, stage, task, request, channelVars, edits>>
-----------------------------------------------------------------------------
(* A sync run: collect the outcomes, decide, disable                       *)

InState(j, outcomes) == {a \in Account : task[j][a] \in outcomes}

\* asyncio.gather returns when every task has ended, its enqueue included.
Gathered(j) ==
  /\ stage[j] = "gather"
  /\ InState(j, {"working", "skipping"}) = {} /\ owed[j] = {}
  /\ stage' = [stage EXCEPT ![j] = "collect"]
  /\ NoFault
  /\ UNCHANGED <<row, task, owed, request, channelVars, edits>>

\* Phase 1: a crashed task leaves a transient error, if that write succeeds.
RecordCrash(j, a) ==
  /\ stage[j] = "collect" /\ owed[j] = {}
  /\ task[j][a] = "crashed"
  /\ \/ CommitThen(j, a, [row[a] EXCEPT !.err = "transient"], "unexpected")
     \/ EndTask(j, a, "unexpected") /\ Fault({})

Verdicts == {"permanent", "bumped", "disabled"}

\* What the breaker counts: the results of the tasks that did not crash.
Counted(j) == InState(j, {"ok", "transient"} \union Verdicts)

\* total >= MIN and permanent / total >= RATIO.
MassFailure(failures, total) ==
  /\ Cardinality(total) >= MassMin
  /\ Cardinality(failures) * RatioDen >= RatioNum * Cardinality(total)

\* Mutation of Tripped: total compared with > instead of >=.
TrippedAbove(j) ==
  /\ Cardinality(Counted(j)) > MassMin
  /\ Cardinality(InState(j, Verdicts)) * RatioDen >= RatioNum * Cardinality(Counted(j))

Tripped(j) == MassFailure(InState(j, Verdicts), Counted(j))

\* A run with nothing left to do returns to its scheduler.
EndRun(j) ==
  /\ stage' = [stage EXCEPT ![j] = "idle"]
  /\ task' = [task EXCEPT ![j] = NoTasks]
  /\ UNCHANGED <<row, owed, request, channelVars, edits>>

\* Phase 2: the breaker suppresses bump and disable of the whole run.
Decide(j) ==
  /\ stage[j] = "collect" /\ owed[j] = {}
  /\ InState(j, {"crashed"}) = {}
  /\ IF Tripped(j) THEN EndRun(j)
     ELSE /\ stage' = [stage EXCEPT ![j] = "disable"]
          /\ UNCHANGED <<row, task, owed, request, channelVars, edits>>
  /\ NoFault

\* One more permanent failure; the count stops at the bound, the run does not.
FailedOnce(r) ==
  [r EXCEPT !.fails = IF @ < MaxFailures THEN @ + 1 ELSE @, !.err = "permanent"]

\* Mutation of Bump: no status event follows the COMMIT.
BumpSilently(j, a) ==
  /\ stage[j] = "disable" /\ owed[j] = {}
  /\ task[j][a] = "permanent" /\ InState(j, {"bumped"}) = {}
  /\ Unlocked(a)
  /\ Write(a, FailedOnce(row[a]))
  /\ task' = [task EXCEPT ![j][a] = "bumped"]
  /\ NoFault
  /\ UNCHANGED <<stage, owed, request, channelVars, edits>>

\* mark_sync_failure, COMMIT: one mailbox at a time.
Bump(j, a) ==
  /\ stage[j] = "disable" /\ owed[j] = {}
  /\ task[j][a] = "permanent" /\ InState(j, {"bumped"}) = {}
  /\ CommitThen(j, a, FailedOnce(row[a]), "bumped")

\* disable_and_stamp_alert: only WHERE disabled_alert_sent_at IS NULL; the event
\* is enqueued whether or not a row matched.
Disable(j, a) ==
  /\ stage[j] = "disable" /\ owed[j] = {}
  /\ task[j][a] = "bumped"
  /\ CommitThen(j, a,
       IF row[a].stamp THEN row[a] ELSE [row[a] EXCEPT !.active = FALSE, !.stamp = TRUE],
       "disabled")

FinishRun(j) ==
  /\ stage[j] = "disable" /\ owed[j] = {}
  /\ InState(j, {"permanent", "bumped"}) = {}
  /\ EndRun(j)
  /\ NoFault

\* A write of phase 2 raises: the run ends there (_safe_sync_cycle logs it).
RunFails(j) ==
  /\ stage[j] = "disable" /\ owed[j] = {}
  /\ InState(j, {"permanent", "bumped"}) # {}
  /\ EndRun(j)
  /\ Fault({})
-----------------------------------------------------------------------------
(* The API                                                                 *)

Edit == {"enable", "disable", "replace"}

Gone == [Clean EXCEPT !.here = FALSE, !.active = FALSE]

\* Mutation of Edited: activation forgets the alert stamp.
EditedKeepsStamp(r, edit) ==
  CASE edit = "enable"  -> [r EXCEPT !.active = TRUE, !.err = "none", !.fails = 0]
    [] edit = "disable" -> [r EXCEPT !.active = FALSE]
    [] edit = "replace" -> [r EXCEPT !.active = FALSE, !.err = "none", !.fails = 0]

\* What a PATCH writes: activation and new credentials reset the sync state and
\* the stamp; deactivation sets the flag alone; new credentials together with
\* is_active=false do both, in that order.
Edited(r, edit) ==
  CASE edit = "enable"  -> [r EXCEPT !.active = TRUE, !.err = "none", !.fails = 0,
                                     !.stamp = FALSE]
    [] edit = "disable" -> [r EXCEPT !.active = FALSE]
    [] edit = "replace" -> [r EXCEPT !.active = FALSE, !.err = "none", !.fails = 0,
                                     !.stamp = FALSE]

\* The events a PATCH notes: one for new credentials, one for is_active.  The
\* credentials of an OAuth mailbox cannot be edited.
EventsOf(a, edit) ==
  CASE edit = "enable"  -> IF a \in OAuth THEN {1} ELSE {1, 2}
    [] edit = "disable" -> {1}
    [] edit = "replace" -> IF a \in OAuth THEN {} ELSE {2}

\* The request updates its row in an open transaction, and notes the events.
BeginPatch(a, edit) ==
  /\ request.stage = "idle" /\ row[a].here
  /\ edits < MaxEdits /\ Quiet
  /\ edits' = edits + 1
  /\ \E n \in EventsOf(a, edit) :
       request' = [stage |-> "open", account |-> a, edit |-> edit, pending |-> n]
  /\ NoFault
  /\ UNCHANGED <<row, workerVars, channelVars>>

\* The COMMIT promotes the noted events to be sent.
CommitPatch ==
  /\ request.stage = "open"
  /\ Write(request.account, Edited(row[request.account], request.edit))
  /\ request' = [request EXCEPT !.stage = "committed"]
  /\ NoFault
  /\ UNCHANGED <<workerVars, channelVars, edits>>

\* A rolled-back transaction leaves no event.
RollbackPatch ==
  /\ request.stage = "open"
  /\ request' = NoRequest
  /\ NoFault
  /\ UNCHANGED <<row, workerVars, channelVars, edits>>

OneEventLess == IF request.pending = 1 THEN NoRequest
                ELSE [request EXCEPT !.pending = @ - 1]

\* flush_crm_status_events, strictly after the COMMIT.
FlushEvent ==
  /\ request.stage = "committed"
  /\ Enqueue(request.account)
  /\ request' = OneEventLess
  /\ lost' = lost \ {request.account}
  /\ UNCHANGED <<row, workerVars, batch, posting, late, mirror, edits, faults>>

\* Redis refuses the events, or the API process dies before it sends them.
FlushFails ==
  /\ request.stage = "committed"
  /\ Fault({request.account})
  /\ request' = NoRequest
  /\ UNCHANGED <<row, workerVars, channelVars, edits>>

\* A one-transaction write of the API that sends no status event.
WriteSilently(a, r) ==
  /\ row[a].here /\ Unlocked(a)
  /\ edits < MaxEdits
  /\ edits' = edits + 1
  /\ row' = [row EXCEPT ![a] = r]
  /\ NoFault
  /\ UNCHANGED <<workerVars, request, channelVars>>

DeleteMailbox(a) == WriteSilently(a, Gone)

\* A request to send mail refreshes the token and is told invalid_grant.
SendRevoked(a) ==
  /\ request.stage = "idle" /\ row[a].here /\ a \in OAuth
  /\ edits < MaxEdits /\ Quiet
  /\ edits' = edits + 1
  /\ Write(a, Revoked(row[a]))
  /\ request' = [stage |-> "committed", account |-> a, edit |-> "revoked", pending |-> 1]
  /\ NoFault
  /\ UNCHANGED <<workerVars, channelVars>>

\* _create_or_relink of a known address, or a token refreshed to send mail: new
\* tokens, and the flag cleared.
Relink(a) == a \in OAuth /\ WriteSilently(a, [row[a] EXCEPT !.consent = FALSE])
-----------------------------------------------------------------------------
(* crm_status_dispatch                                                     *)

PopStatus ==
  /\ batch = <<>> /\ queue # <<>>
  /\ batch' = LPopped(queue, BatchSize)
  /\ queue' = LPopRest(queue, BatchSize)
  /\ NoFault
  /\ UNCHANGED <<row, workerVars, request, posting, late, mirror, edits>>

\* push_status reads the row; a deleted mailbox has nothing to deliver.
LoadSnapshot ==
  /\ batch # <<>> /\ posting.stage = "none"
  /\ IF row[Head(batch)].here
       THEN /\ posting' = [stage |-> "sent", snap |-> Snapshot(row[Head(batch)])]
            /\ UNCHANGED batch
       ELSE batch' = Tail(batch) /\ UNCHANGED posting
  /\ NoFault
  /\ UNCHANGED <<row, workerVars, request, queue, late, mirror, edits>>

\* The CRM mirrors the snapshot and answers 2xx.
PostAccepted ==
  /\ posting.stage = "sent"
  /\ mirror' = [mirror EXCEPT ![Head(batch)] = posting.snap]
  /\ batch' = Tail(batch)
  /\ posting' = NoPost
  /\ NoFault
  /\ UNCHANGED <<row, workerVars, request, queue, late, edits>>

\* Mutation of PostFails: the item is not retried.
PostFailsForGood ==
  /\ posting.stage = "sent"
  /\ batch' = Tail(batch)
  /\ posting' = NoPost
  /\ NoFault
  /\ UNCHANGED <<row, workerVars, request, queue, late, mirror, edits>>

\* Non-2xx, or a transport error: the CRM has processed the snapshot or not.
PostFails ==
  /\ posting.stage = "sent"
  /\ mirror' \in {mirror, [mirror EXCEPT ![Head(batch)] = posting.snap]}
  /\ posting' = [posting EXCEPT !.stage = "failed"]
  /\ NoFault
  /\ UNCHANGED <<row, workerVars, request, queue, batch, late, edits>>

\* The POST times out here while the CRM still has it to process.
PostTimesOut ==
  /\ posting.stage = "sent"
  /\ Cardinality(late) < MaxLate
  /\ late' = late \union {[account |-> Head(batch), snap |-> posting.snap, arrived |-> FALSE]}
  /\ posting' = [posting EXCEPT !.stage = "failed"]
  /\ NoFault
  /\ UNCHANGED <<row, workerVars, request, queue, batch, mirror, edits>>

LatePostArrives ==
  /\ \E p \in late : /\ ~ p.arrived
                     /\ mirror' = [mirror EXCEPT ![p.account] = p.snap]
                     /\ late' = (late \ {p}) \union {[p EXCEPT !.arrived = TRUE]}
  /\ NoFault
  /\ UNCHANGED <<row, workerVars, request, queue, batch, posting, edits>>

ReenqueueStatus ==
  /\ posting.stage = "failed"
  /\ queue' = LPush(<<Head(batch)>>, queue)
  /\ batch' = Tail(batch)
  /\ posting' = NoPost
  /\ lost' = lost \ {Head(batch)}
  /\ UNCHANGED <<row, workerVars, request, late, mirror, edits, faults>>

ReenqueueFails ==
  /\ posting.stage = "failed"
  /\ Fault({Head(batch)})
  /\ batch' = Tail(batch)
  /\ posting' = NoPost
  /\ UNCHANGED <<row, workerVars, request, queue, late, mirror, edits>>
-----------------------------------------------------------------------------
(* Crashes                                                                 *)

\* The status events some run still owes.
AllOwed == {a \in Account : \E j \in Job : a \in owed[j]}

\* The worker dies: its runs and the popped ids are gone.
WorkerRestart ==
  /\ Fault(AllOwed \union ToSet(batch))
  /\ stage' = [j \in Job |-> "idle"]
  /\ task' = [j \in Job |-> NoTasks]
  /\ owed' = [j \in Job |-> {}]
  /\ batch' = <<>> /\ posting' = NoPost
  /\ UNCHANGED <<row, request, queue, late, mirror, edits>>

\* Redis restarts empty, or evicts the list.
RedisLoss ==
  /\ queue # <<>>
  /\ Fault(ToSet(queue))
  /\ queue' = <<>>
  /\ UNCHANGED <<row, workerVars, request, batch, posting, late, mirror, edits>>
-----------------------------------------------------------------------------
TaskEnds(j, a) ==
  \/ SyncSucceeds(j, a) \/ SyncTransient(j, a) \/ SyncPermanent(j, a)
  \/ SyncRevoked(j, a)

TaskStep(j, a) ==
  \/ RefreshToken(j, a) \/ TaskEnds(j, a) \/ SkipConsent(j, a) \/ SyncCrashes(j, a)
  \/ EnqueueOwed(j, a) \/ EnqueueOwedFails(j, a)
  \/ RecordCrash(j, a) \/ Bump(j, a) \/ Disable(j, a)

RunStep(j) ==
  \/ StartRun(j) \/ Gathered(j) \/ Decide(j) \/ FinishRun(j) \/ RunFails(j)
  \/ \E a \in Account : TaskStep(j, a)

ApiStep ==
  \/ \E a \in Account :
       \/ \E edit \in Edit : BeginPatch(a, edit)
       \/ DeleteMailbox(a)
       \/ Relink(a)
       \/ SendRevoked(a)
  \/ CommitPatch \/ RollbackPatch \/ FlushEvent \/ FlushFails

DispatchStep ==
  \/ PopStatus \/ LoadSnapshot \/ PostAccepted \/ PostFails \/ PostTimesOut
  \/ LatePostArrives \/ ReenqueueStatus \/ ReenqueueFails

Next ==
  \/ \E j \in Job : RunStep(j)
  \/ ApiStep
  \/ DispatchStep
  \/ WorkerRestart
  \/ RedisLoss

Spec == Init /\ [][Next]_vars

(***************************************************************************)
(* The scheduled cycle and the dispatcher keep ticking, a started run,     *)
(* tick or request goes on, and the CRM is reachable often enough that a   *)
(* POST does not fail for ever.                                            *)
(***************************************************************************)
Fairness ==
  /\ \A j \in Job :
       /\ j \notin Forced => WF_vars(StartRun(j))
       /\ WF_vars(Gathered(j)) /\ WF_vars(Decide(j)) /\ WF_vars(FinishRun(j))
       /\ \A a \in Account :
            /\ WF_vars(TaskEnds(j, a)) /\ WF_vars(SkipConsent(j, a))
            /\ WF_vars(EnqueueOwed(j, a)) /\ WF_vars(RecordCrash(j, a))
            /\ WF_vars(Bump(j, a)) /\ WF_vars(Disable(j, a))
  /\ WF_vars(CommitPatch) /\ WF_vars(FlushEvent)
  /\ WF_vars(PopStatus) /\ WF_vars(LoadSnapshot) /\ WF_vars(ReenqueueStatus)
  /\ SF_vars(PostAccepted)

FairSpec == Spec /\ Fairness
-----------------------------------------------------------------------------
(* Properties                                                              *)

Errors == {"none", "transient", "permanent", "consent"}
Row == [here : BOOLEAN, active : BOOLEAN, err : Errors, fails : Nat,
        stamp : BOOLEAN, consent : BOOLEAN]
Status == [active : BOOLEAN, err : Errors, fails : Nat]
Outcome == {"none", "working", "skipping", "ok", "transient", "crashed", "unexpected"}
             \union Verdicts

TypeOK ==
  /\ row \in [Account -> Row]
  /\ stage \in [Job -> {"idle", "gather", "collect", "disable"}]
  /\ task \in [Job -> [Account -> Outcome]]
  /\ owed \in [Job -> SUBSET Account]
  /\ request \in {NoRequest} \union
       [stage : {"open", "committed"}, account : Account, edit : Edit \union {"revoked"},
        pending : {1, 2}]
  /\ request.stage = "open" => request.edit \in Edit
  /\ queue \in Seq(Account) /\ batch \in Seq(Account)
  /\ posting \in {NoPost} \union [stage : {"sent", "failed"}, snap : Status]
  /\ posting # NoPost => batch # <<>>
  /\ late \subseteq [account : Account, snap : Status, arrived : BOOLEAN]
  /\ mirror \in [Account -> Status]
  /\ lost \subseteq Account
  /\ edits \in Nat /\ faults \in Nat

\* The status columns agree, whoever wrote them last: an active mailbox carries
\* no alert stamp (with a stamp the guarded UPDATE of disable_and_stamp_alert
\* could never disable it again), and failures are never counted without an
\* error to show for them.
StatusCoherent ==
  \A a \in Account :
    /\ row[a].active => ~ row[a].stamp
    /\ row[a].fails > 0 => row[a].err # "none"

\* An event the dispatcher holds for a, unless it is posting an older snapshot.
InHand(a) ==
  \E i \in DOMAIN batch :
    /\ batch[i] = a
    /\ i > 1 \/ posting.stage # "sent" \/ posting.snap = Snapshot(row[a])

\* Whoever committed the status of a has still to enqueue its event.
EventOwed(a) ==
  \/ a \in AllOwed
  \/ request.stage = "committed" /\ request.account = a

\* Mailboxes whose mirror a POST given up long before has overwritten.
Overtaken == {p.account : p \in {q \in late : q.arrived}}

\* The CRM shows the status of a mailbox, or an event that will bring it is
\* queued, held by the dispatcher or owed by whoever wrote the row.
Mirrored(a) ==
  row[a].here => \/ mirror[a] = Snapshot(row[a])
                 \/ a \in ToSet(queue) \/ InHand(a) \/ EventOwed(a)

\* No order of commits, enqueues and snapshots leaves the mirror stale and without
\* an event to come (ADR-0046 section 2, enqueue after COMMIT), unless a fault took
\* the event or an abandoned POST arrived late.
MirrorCurrentOrEventPending ==
  \A a \in Account : a \in lost \union Overtaken \/ Mirrored(a)

\* The same of late POSTs too: the dispatcher is said to carry the latest status
\* whatever the order of the events (comment of push_mailbox_status).
LatestStatusWins ==
  \A a \in Account : a \in lost \/ Mirrored(a)

\* A mailbox leaves the sync by a request for it, or by a run whose own share of
\* permanent failures is below the thresholds.
DeactivatedWithCause ==
  \A a \in Account :
    row[a].active /\ row'[a].here /\ ~ row'[a].active =>
      \/ request.stage = "open" /\ request.account = a
      \/ \E j \in Job : /\ task[j][a] = "bumped" /\ task'[j][a] = "disabled"
                       /\ ~ MassFailure(InState(j, Verdicts), Counted(j))

\* A mass failure disables nobody, whatever the outcomes, the order in which they
\* are recorded, the other runs and the crashes before the decision, at the
\* exact boundary too (ADR-0026 section 3).
MassFailureDisablesNobody == [][DeactivatedWithCause]_vars

\* The deactivation of a mailbox, which no later sync can re-derive, reaches the
\* CRM unless it is undone, a fault took its event or an abandoned POST came late.
DeactivationReachesCrm ==
  \A a \in Account :
    row[a].here /\ ~ row[a].active ~>
      ~ row[a].here \/ row[a].active \/ ~ mirror[a].active \/ a \in lost \union Overtaken

\* A mailbox that needs consent does not stay green at the CRM: it shows an
\* error there unless it was relinked, disabled or deleted, or its event was lost or
\* overtaken (ADR-0046 H7).
ConsentSurfaces ==
  \A a \in OAuth :
    row[a].here /\ row[a].active /\ row[a].consent ~>
      \/ ~ row[a].here \/ ~ row[a].active \/ ~ row[a].consent
      \/ mirror[a].err # "none" \/ a \in lost \union Overtaken
=============================================================================
