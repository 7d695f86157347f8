# Verification of the mail aggregator

This directory holds TLA+ models of the mail aggregator, the TLC configurations
that check them on small instances, and proofs, checked by TLAPS, of what
matters most for every value of the constants. `PROJECT.json` says, definition by
definition, which lines of the source each one stands for.

    tlc -config outbox.cfg MCCrmOutbox      # one run
    tlapm CrmOutboxProofs.tla               # one proof module

## 1. The system

The service polls mailboxes over IMAP, keeps what it finds for some days, pushes
it to a CRM, tells the CRM the state of each mailbox, and sends mail on the CRM's
behalf. It is two Python processes over one PostgreSQL database and one Redis:

- the **API** (`src/backend`): FastAPI, requests of the CRM;
- the **worker** (`src/worker`): an APScheduler on one asyncio loop, whose jobs
  interleave at every `await`, plus a thread for each blocking IMAP fetch.

Redis runs without persistence and with eviction (`src/docker-compose.yml:91`), so
everything in it may vanish.

### Inventory

| component | sources | state | operations | what makes it correct |
|---|---|---|---|---|
| CRM push outbox | `crm_push/service.py`, `worker/crm_push_dispatch.py`, `crm_push_recovery.py`, `repositories/messages.py` | `messages` rows (`pushed_at`), Redis list `crm_push_queue` | insert, enqueue after commit, LPOP, POST, stamp or re-enqueue, recovery scan | a stamp means delivery; an undelivered row is always in somebody's hands; it settles once faults stop |
| Retention | `worker/cleanup.py`, `messages.select_expired` | the same rows | select, delete, in batches | deletes no row twice, breaks nothing in flight |
| Mailbox status mirror | `crm_push/service.py`, `worker/crm_status_dispatch.py`, `accounts/service.py` | Redis list `crm_status_queue`, the CRM's copy | enqueue after COMMIT, pop, read snapshot, POST, re-enqueue | the copy is current or an event is on its way |
| Sync cycle and circuit breaker | `worker/sync_cycle.py`, `worker/main.py` | outcomes of the run | gather, decide, bump, disable | a mass failure disables nobody; the status columns agree with each other |
| Mailbox CRUD of the API | `external/router.py`, `external/write_service.py`, `accounts/service.py` | `mail_accounts` row, events deferred in the session | POST, PATCH, DELETE, flush | events go out after the COMMIT and only then; an address is one mailbox's |
| `mail_accounts` repository | `repositories/mail_accounts.py` | `mail_accounts` row | guarded UPDATEs | each guard is evaluated on the row as it is, not as it was loaded |
| Worker scheduler and forced sync | `worker/main.py`, `sync_cycle.py`, `accounts/service.py` | jobs under way, markers `force_sync:{id}` in Redis, semaphores, thread pool | intervals, boot cycle, marker drain, attempts with timeouts, shutdown | a requested sync is in hand until an attempt begins after it, and is made |
| IMAP fetcher and cursor | `worker/imap_fetcher.py`, `sync_cycle.sync_one_account` | UIDVALIDITY and UIDNEXT of the row | connect, login, STATUS, SEARCH, FETCH, insert, advance | no message is skipped |
| Error classification | `worker/error_classify.py` | none | `classify`, `error_prefix`, `is_explicit_permanent` | the functions agree |
| Outlook access tokens | `oauth/service.py` | token columns, lock `oauth_refresh_lock:{id}` | cache, lock, wait, refresh, rotate, flag | one refresh at a time, no rotation lost, needs-consent is true |
| Outlook consent flow | `oauth/service.py`, `oauth/crm_ingest.py`, `external/router.py` | `oauth_state:{state}` in Redis, account row | authorize, callback, code exchange, create or relink, tell the CRM | a state is used once; the tokens go to the mailbox of the consented address; the CRM is told once |
| External pull API | `external/router.py`, `repositories/messages.py`, `mail_accounts.py` | none of its own | keyset pages, forward by `since_id` and backward by `before_id`, over the canonical mailboxes | nothing is returned twice; what a walk leaves out it could not have seen |
| Sending mail | `send/*` | none of its own | token, host check, SMTP, append to Sent in a thread | a failure the caller can read as "not sent" means it; one send leaves one copy |
| Connection probe | `accounts/testers.py`, `accounts/service.py` | none of its own | IMAP and SMTP legs under nested timers and one deadline | it ends by the deadline, and its error names the leg that failed |
| Rate limiter | `rate_limit.py`, `external/router.py` | a counter in Redis | INCR, EXPIRE NX, TTL | no lockout without end; `Retry-After` is enough |
| Session guard | `accounts/service.py`, `shared/session_guards.py`, `shared/db.py` | the events a session deferred, and how many of them are committed | listeners of commit and rollback, flush, teardown | what is committed is pushed or named, what is undone is not pushed |
| Startup | `main.py`, `auth/service.py` | the user `crm-service` | look, insert in a savepoint, promote, commit | no process serves without the owner of the mailboxes |
| Users and dependencies, middlewares, health, crypto, HTML, logging, provider tables, migrations | | none to check | | |

### How they interact

`sync_one_account` (worker) writes messages and the cursor, COMMITs, and pushes the
new ids on `crm_push_queue`; the push dispatcher pops them, loads the rows, posts,
and stamps `pushed_at`. The recovery scan finds rows never stamped. Retention and
the deletion of a mailbox delete rows under all of them. Every error a run meets
is classified, written on the `mail_accounts` row, and its mailbox id pushed on
`crm_status_queue`; when all mailboxes of the run are done the circuit breaker
decides whether the condemned ones are bumped and disabled. The API edits the same
rows, and its events are deferred to the end of the request. The status dispatcher
pops ids and posts the row it reads at that moment. A run or a send of an Outlook
mailbox first calls `get_valid_access_token`, which may set `oauth_needs_consent`.

POST `/sync` leaves a marker in Redis that a job of the worker drains every ten seconds. A
PATCH, a creation and a test of a connection run the probe, which like every sync attempt
and every append to a Sent folder takes threads of the default pool of its process. A reader of
the pull API pages through the rows all of the above write and delete.

### What is hard

- A commit and its queue event are two steps in two stores.
- Everything loaded before an `await` may be stale after it: the mailbox rows a run
  starts from, the batch a dispatcher loaded, the refresh token a waiter holds.
- Sync runs overlap: the scheduled cycle, the cycle at boot and forced sync share no lock.
- A POST whose answer was lost may have been processed, or be processed later.
- Redis may lose its lists; the worker may die between any two steps.
- A UIDVALIDITY change in the middle of a sequence of syncs.
- Microsoft rotates refresh tokens: two refreshes with one token condemn the mailbox.
- Ids are drawn at insertion and seen at COMMIT, while a reader goes by ids.
- Timers are nested in timers, an await that is cancelled has clean-up of its own to await, and a
  thread that was given up runs on and keeps its place in the pool.
- Redis commands of several calls interleave between the commands of one.
- A request loads a row, probes for up to 45 s, and writes.

`PROJECT.json`, `hazards`, lists each such place at its line with the properties that cover it.

## 2. Modules

    RedisQueue ─┬─ CrmOutbox ── MCCrmOutbox       FeedPromise   (abstract; CrmOutbox implements it)
                │     └─ CrmOutboxProofs
                └─ MailboxStatus ── MCMailboxStatus
                      └─ MailboxStatusProofs
    IdOrder, ErrorClassify ── ImapSync ── MCImapSync, ImapSyncProofs
    OAuthTokens ── MCOAuthTokens, OAuthTokensProofs
    MailboxDirectory ── MCMailboxDirectory, MailboxDirectoryProofs
    IdOrder ── ExternalPull ── MCExternalPull, ExternalPullProofs
    ConnectionProbe ── MCConnectionProbe, ConnectionProbeProofs
    SendTransport, SessionGuard, MailboxPatch ── MCRequests      (what single requests do)
    SyncSchedule, RateLimit, ServiceUserSeed ── MCRecurring      (what recurs)
    MCRequests, MCRecurring ── ServiceProofs

**CrmOutbox.** `row` is the `messages` table seen as an outbox (absent, pending = `pushed_at
IS NULL`, pushed, deleted); `queue` is the Redis list, head first; `sync`, `dispatch`,
`recovery`, `retention` are the local variables of the four tasks at their `await`s. Each
action is the code between two awaits: `SaveMessages` is the inserting transaction,
`EnqueueNew` the LPUSH after it, `PopBatch`, `LoadBatch`, `CrmAccepts`/`CrmRefuses`/
`ResponseLost`, `MarkPushed`, `ReenqueueFirst` and `Reenqueue` one dispatch,
`RecoveryScan`/`RecoveryEnqueue` one scan, `SelectExpired`/`DeleteExpired` a retention batch. Dates are
two sets, because retention reads the sender's Date header and recovery the
insertion time. `FeedPromise` says what a consumer may rely on: a message is delivered
before it is settled, and never unsettled.

**MailboxStatus.** `row` holds the status columns; a run has a `stage`, a `task` per
mailbox and the events it `owed`. An API request is `open` (row lock held, events deferred)
and then `flushing`. The dispatcher pops, reads (`LoadSnapshot`), and posts; the CRM's copy is
`mirror`; POSTs that timed out are `late` and may arrive at any time after. Each write
of a row is guarded as its UPDATE is and waits for the lock of an open request.

**ErrorClassify and ImapSync.** `ErrorClassify` has the rules over an error's type and
the set of markers its text contains. `ImapSync` has the server (UIDVALIDITY, UIDNEXT,
UIDs present, those older than the initial window), the cursor of the row, the messages
stored, and each run with the cursor it loaded. One action per IMAP round trip and per
transaction, a failure of each, and a server that delivers, expunges and rebuilds in between. Under the
validities of `Unnumbered` a server may leave UIDVALIDITY out of STATUS, which the fetcher reads as 0, under those
of `Omits` UIDNEXT; what is stored under 0 counts as stored only there (`Stored`).

**OAuthTokens.** Calls of `get_valid_access_token` with the row each one loaded earlier,
the lock, the endpoint's set of valid tokens and the row. `Grant` and `Deny` are the
endpoint's decision, apart from the write that follows it (`PersistRefresh`,
`MarkNeedsConsent`). `Relink` and `Revoke` are the user.

**MailboxDirectory.** `rows` is the `mail_accounts` table seen as a directory (id, address and
its spelling, kind of login, the consent its token comes from), `minted` the states in Redis, `request` the API
requests between their `await`s: a creation while it probes, a change of address while it
probes, a callback from the consumption of its state to the POST to the CRM. `asked` and `told`
count what reached Microsoft and the CRM. A write and its COMMIT are one step, because a
second writer of the same key waits for the first. `Relink` writes by id, to whatever row has
that id by then or to none, and reads the answer from the session's identity map.

**ExternalPull.** `messages` is what is committed, `drafts` what each open transaction inserted, `nextId`
the sequence, which a rollback does not turn back; `address` the mailboxes. A page is two
statements, hence two actions: `ResolveScope` reads the canonical mailboxes, `AnswerForward` or
`AnswerBackward` the rows. The client is `forward` and `backward`: its cursor, what it got,
what it got again (`twice`), what was committed below its cursor (`late`), what was there when
the walk began (`due`). A deletion or an expiry may come between any two statements.

**ConnectionProbe.** Where each test `at` awaits, the marker `stage`, one clock per timer, the timers
that have `expired` around an SMTP probe that is still at its QUIT, and the pool: `thread`
of a request and `abandoned` threads of requests that are over. `Cancel` is `asyncio.wait_for`: it
cancels the awaited call, waits for that call's clean-up, and the outermost expired
timer names the error. Peers answer, refuse, drip (`ServerGoesOn` restarts the timeout of a
phase) or stay silent. Time stands still while a timer is due, so a timer is never late, and two
events of one tick happen in either order, which covers timers that end at nearly the same time.
An error of imaplib (a BAD answer, a dropped connection, a refused AUTHENTICATE) passes the testers' `except` clauses and
ends the test as `internal_error` (`ImapErrorEscapes`).

**SendTransport.** One letter, the requests the CRM makes for it, and a caller that may give up. A
request takes a token twice, resolves, speaks SMTP phase by phase with a clock per phase and one for the leg,
and appends in a thread whose timer may fire at any of its steps (`AppendTimesOut`). Then comes the COMMIT of
the transaction around it all (`Committed`), whose failure is a 500 for a letter that is gone.
Whether `aiosmtplib.send` reports a failed QUIT is its affair, so both are possible.

**SessionGuard.** One session: `pending` with the number of its `committed` prefix, and the `fate` of each
write in the database. The caller begins, writes, opens savepoints, commits, rolls back, closes and
flushes in any order, but keeps one norm, which the service's docstrings state: it flushes outside a
transaction. `CommitLost` is SQLAlchemy's rollback after a COMMIT whose answer was lost; `Cancelled` a
flush cut short. The mode of the guard that raises, which is for tests, is left out.

**MailboxPatch.** What PATCHes of one password mailbox make of its login: each loads the row,
probes if it brings a password, and writes what it loaded. `Where` stands for address, hosts, ports,
TLS and SMTP login, which `update` writes back together. `overtaken` is history.

**SyncSchedule.** Markers with their remaining life, the three callers of `_run_for_accounts`, each
attempt from its semaphore through its preparation (the password, or a token refresh of up to 15 s), the host check and the fetch to
the writes of its outcome, the pool, the deadline of each fetch, start and stop.
A tick is the ten seconds of the dispatcher; preparation, host check, fetch and writes may last for ticks, and all that takes no time happens
before the next. The regular cycle's interval is any number of ticks. `owed` and
`waived` are history: what the CRM asked for, and what a fault, an expiry or a deactivation took. The
initial cycle is a task of `main` and no job, so `max_instances` does not cover it.

**RateLimit.** One counter per budget with its time to live, and calls whose INCR, EXPIRE NX and
TTL are separate steps, because the pipeline is no transaction. Time is counted in
parts of a second, since Redis answers TTL rounded to seconds. Counters stop at one above the capacity.
`recent` is history: the calls admitted in the last tick, the last two, and so on up to a window; it outlives a loss of
Redis, and `losses` counts those of each such stretch. A call without a key (`CallWithoutKey`) is not limited and
not counted: nginx appends to the client's X-Forwarded-For, and `client_ip` takes its first element, which may be empty.

**ServiceUserSeed.** The boot of the processes of the API: each looks for `crm-service`, inserts it in a savepoint or
promotes it, commits and serves; an uncommitted row makes the next writer wait.

**MCRequests and MCRecurring.** Each puts three modules into one graph: `part` (in `MCRecurring`, `job`) is
chosen at the start, the steps are those of that module, the others keep an initial state. They share no
state, so nothing is composed; a state graph has the sum of their states, and one run answers for the three.
The theorems `PartsKeepTheirOwn` and `JobsKeepTheirOwn` say that such a graph refines the specification of each.

Modules meet by the outcome of a step rather than by composition: `MailboxStatus` takes
from `OAuthTokens` that a refresh may end in `SyncRevoked`, and from `ErrorClassify`
that a permanent verdict is an explicit one (`FollowsTable`, run `imap_sync`), which is why
the threshold of consecutive failures is not in it. `MailboxStatus`, `MailboxDirectory` and
`MailboxPatch` are three views of one PATCH: its status columns and events, its address, its login.
`ConnectionProbe` is what `MailboxPatch` calls `ProbePasses` or `RequestFails`, and `SyncSchedule` says when the
runs of `CrmOutbox`, `MailboxStatus` and `ImapSync` start, which have them start at any time.

## 3. Runs

| run | question | bounds and why they suffice |
|---|---|---|
| `outbox` | Is a stamp true, is every pending row carried, does the outbox implement `FeedPromise`; does each message settle, do retries end? | Two overlapping runs, two messages, of which one may expire and one leave the recovery window, batches of two (a batch mixes accepted, stamped and deleted ids), one fault. |
| `status_mirror` | Is the copy at the CRM current or an event on its way, and do a deactivation and a missing consent reach the CRM? | One run after another over one OAuth mailbox, one request, one fault, one late POST. The run writes the row as often as it likes, so the request meets every one of its steps. Overlapping runs add no new kind of step on one mailbox; the theorem covers them. |
| `status_overlap` | Do the columns agree; does the breaker hold? | Two runs over two mailboxes and an API request, `MIN` = 2 at ratio 1/2: below, at and above the threshold occur. |
| `imap_sync` | Is nothing skipped, everything stored, and do the two error tables agree, for every error text of up to three markers? | Two UIDs, two validities, one run at a time, two faults; UIDVALIDITY and UIDNEXT may be left out until the mailbox is rebuilt. A disagreement needs one marker of each of the two rules and at most one that vetoes, hence three. Overlapping runs are covered by the theorem. Proved for all values but `EveryMessageStored`, the tables for any number of markers. |
| `oauth_tokens` | Does the lock exclude; is needs-consent true while calls refresh under it and no relink falls beside one; does anything but a revocation or a loss strand the mailbox; does every call end? | Two calls, three tokens, one fault: the lock is between two; the third token is a rotation after a relink. Proved for all values but `CallsEnd`. |
| `directory` | Does an Outlook row hold the token of its own address, is a code sent and a binding told once? | Two requests in service, two states, two addresses in two spellings, three ids: a race needs two writers; the third id is a mailbox created again after its deletion. Proved for all values. |
| `directory_address` | violated: is an address one row's? | No fault needed. |
| `pull` | Is nothing returned twice, is only what came late left out, is a finished backward walk complete, does what is committed reach a client that goes on? | Two transactions (one commits below the other), two ids, one row a page so that a walk has pages, one change of a mailbox or expiry between any two statements. Proved for all values but `EventuallyPulled`. |
| `pull_gap` | violated: does the forward walk leave out nothing? | Two ids, no fault needed. |
| `probe` | Is a test answered in time; under the code of its leg, where it is answered as a failed login at all; and always? | Two tests that share one thread, so that one waits for the abandoned thread of the other; timers 4, 3, 2 and 1 in the order of the code's 45, 25, 20 and 5 s. `probe_time.cfg` has them in seconds. Proved for all lengths but `Answered`. |
| `recurring` | Is a request to synchronise in hand and served; is `Retry-After` enough, what does a fixed window admit, does every lockout end; does no process serve without the owner? | One mailbox, three callers, two threads (one may be abandoned with one left), one fault. Two callers, one call a window, a window of two seconds of three ticks, so that rounding matters both ways; one broken pipeline or loss of Redis, after which three calls fit into a window's length. Three processes and two failures: one waits while one wins and one fails. Proved for all values but `RequestServed` and `LockoutEnds`. |
| `requests` | What does a clear failure of a send mean, how many copies; is a status event pushed or named; which passwords and logins does a PATCH leave? | Two requests for a letter, one at a time and after each other, four names of the folder, as in the code. Three writes of one session: one committed, one in a savepoint, one after a rollback. Two PATCHes that overlap, and the worker's disabling. Proved for all values. |

Further configurations, which no table row needs but which the same modules satisfy:
`outbox_safety.cfg` (three messages in two mailboxes and a refused one, safety and types only),
`pull_walks.cfg` (filters, three messages), `probe_time.cfg`. Those of section 6 end with a
counterexample: `outbox_retention.cfg`, `status_late.cfg`, `imap_rebuild.cfg`, `oauth_consent.cfg`, `probe_transport.cfg`,
and, on the modules themselves, `send_consent.cfg` with `SendTransport` and `patch_race.cfg` with `MailboxPatch`.

Every other bound is a counter in a guard, declared as such next to its CONSTANT. They cut
three things only: how many new things arrive (messages, edits, tokens, deliveries), how many
faults occur, and how long a queue may be when a producer starts. No bound stops a task in
the middle: `consecutive_failures` stays at `MaxFailures` once it is there, and goes on being bumped. In `CrmOutbox` and `MailboxStatus` mailboxes exist from the start and are not created again,
and `MailboxStatus` has one API request at a time: requests for different mailboxes do not
interact there, and for the same one they are serialised by the row lock. `RateLimit` has
one address: the counters of two share no key.

`CHECK_DEADLOCK FALSE`: with the bounds used up and the queues empty the model stops, as the
system does when there is nothing to do; whether it stops too early is what the liveness
properties say.

### Fairness

- `CrmOutbox!FairSpec`: weak fairness of each step of the jobs the scheduler repeats (sync,
  dispatch, recovery), since APScheduler starts them at an interval and every await has a timeout;
  strong fairness of `CrmAccepts` and `MarkPushed`: a CRM that is asked again and again
  eventually answers in time, and a write repeated again and again eventually succeeds.
  Deletion and faults have none.
- `MailboxStatus!FairSpec`: the same for runs and dispatcher, strong for `PostAccepted`.
- `ImapSync!FairSpec`: weak for each successful step of a run. Faults are bounded, so a sync is
  eventually free of them.
- `OAuthTokens!FairSpec`: weak for the next step of each call, whichever it is: every await in it
  has a timeout (Redis, the HTTP client's 15 s, the poll's 3 s).
- `ExternalPull!FairSpec`: a client that goes on polling forward, over a network that does not lose
  every answer (strong for its question and its answer). Writers have none.
- `ConnectionProbe!FairSpec`: the clock and the timers only. No server, resolver or thread must ever answer.
- `MCRecurring!SyncFairness`: the scheduler starts its jobs, the loop serves its runs, host checks and
  abandoned threads end with the timeouts of resolver and sockets, so do the preparation of an attempt (15 s of
  the HTTP client) and the writes of its outcome (the database's), Docker restarts the worker; strong
  for `TakeThread`, because the queue of the pool is first in, first out. No fetch must end before its timer.
- `MCRecurring!RateFairness`: the clock, and each command of a call that has begun. Callers have none:
  `LockoutEnds` speaks of a flood.

## 4. What is proved

Every theorem holds for all values of the constants that satisfy the `ASSUME` of the
module, unbounded numbers of mailboxes, messages, runs and calls included.

**`CrmOutboxProofs`.** `IInv` is `TypeOK` with `PushedIsDelivered`, `PendingIsCarried` and two
strengthenings: `CirculatingIsInserted` (an id in the queue, in a task or in a scan is one of a
row that was inserted; without it a pop could hand the dispatcher an absent row) and
`DispatchInv` (in stage `accepted` the loaded rows are at the CRM; without it a stamp could be
false). Theorems `TypeCorrect`, `PushedOnlyDelivered`, `NoPendingForgotten`, and
`OutboxImplementsPromise`: each step of the outbox is a step of `FeedPromise` or a stutter under
the mapping that reads pending as owed and pushed as settled.

**`MailboxStatusProofs`.** `TypeCorrect`; `StatusStaysCoherent` (no stamp on an active
mailbox, no counted failure without an error); `BreakerHolds` through `RunInv` (a run in the stage
that disables has passed the breaker with the outcomes it still has); `MirrorNeverForgotten`
through `MirrorInv`, which adds to the property that a mailbox whose snapshot in hand is stale
has an event coming (`StaleIsKnown`) and so has one whose timed-out snapshot may still land
(`PostedStaleIsKnown`). It assumes `StatusEnabled`: with the channel off nothing is enqueued.

**`OAuthTokensProofs`.** `TypeCorrect`; `LockExcludes` through `LockInv` (a call that holds the lock
is the one the key names, unless the lock expired or a waiter gave up); `ConsentNeverFalse`
through `TokenInv` (a denied call holds a dead token), as long as no call has gone on without the lock and no
relink fell beside a request: 3 s of waiting in vain are enough, with no fault, and then the flag may be false; `RotationNeverStrands`
through `KeptInv`: until a token is revoked or lost, a call between grant and write carries a token the endpoint accepts
and is the only one to have it, so that no other refresh can rotate it away. That needs no lock, and nothing of relinks.

**`ImapSyncProofs`.** `TypeCorrect`; `NoMessageSkipped` through `IInv`: a cursor is `Safe` when it names no
validity to come, is not beyond the end of a mailbox never rebuilt, and, under the present validity, hides no message (`Covered`); the cursor of the row is safe,
so is the one each run loaded (it stays so while others write, because messages come only at
the end and what is stored stays), and what a run has in hand covers every message below the
cursor it is about to write until the insert has stored it (`RunSafe`). It holds for any number of
overlapping runs and any `Unnumbered`: `NothingSkipped` speaks of a cursor that names the present validity, and one written
without UIDVALIDITY names none; the next sync that learns the validity fetches anew. It assumes `Omits \subseteq {1}`: a server may omit UIDNEXT until the mailbox is first
rebuilt, not after. Without that assumption it is false, as `imap_rebuild` shows.

**`MailboxDirectoryProofs`.** `TypeCorrect`, `NoDuplicate`, `TokensMatch`, `CodesSpentOnce`, `BindingsOnce`,
through `IInv`: an id names one row (`RowsInv`; a write goes by id, long after the look-up that
found it); what a request found out before it waited still holds when it writes (`Knows`: the row it
edits is no Outlook row, the row it relinks has the consented address), because a row keeps its kind
and an Outlook row its address (`RowsGoOn`, proved of every step); and two requests in the flow have
different states (`Apart`), without which what is counted per state could not be bounded.
`OneRowPerAddress` is false (finding 1).

**`ExternalPullProofs`.** `TypeCorrect`, `NothingTwice`, `OnlyLateSkipped`, `BackwardWalkComplete`, for any
number of writers and mailboxes, any filters and any page size. `IInv` adds to the properties that
ids in tables and drafts are below the sequence and apart (`KnownIds`, `DraftsApart`), that the
question in service carries the client's own cursor (`RequestCurrent`), that what was got lies at or below
the cursor (`GotBelow`), and that an unfinished backward walk has what was due above its cursor (`WalkCovers`).
The heart are lemmas on ORDER BY and LIMIT: a page holds the ids next to the cursor without a hole.

**`ConnectionProbeProofs`.** `TypeCorrect`, `InTime`, `Attributed`, for any number of tests, any pool and any
positive lengths of the timers. `Attributed` says which codes a test may end under: `imap_login_failed` and `smtp_login_failed` for the leg they name only, and
once the IMAP login has succeeded nothing but success and the SMTP leg's code. It does not say that a failed IMAP login is
named, which is false (section 6). `ClocksOf`: before the deadline fires the request is within it; after it fired the
request is at its QUIT, and the overtime is the QUIT's own clock, which is time-boxed. `MarkerOf`: the marker is
the leg of the awaited call.

**`ServiceProofs`.** The six components of `MCRequests` and `MCRecurring`, each about its own
specification, and at the end `RequestsAreSafe` and `RecurringIsSafe`, which carry the results over to the
specifications the two runs check. Their type invariants are theorems too.

- Sending. `RepeatableAnswersSentNothing` (answers 404, 409 and 422; a 500 is none, since a failed COMMIT after the
  letter is answered so), `OneSendOneCopy`. `SendInv`: a request that stands before
  DATA, or has such an answer, has delivered nothing; it has no thread before its append, and the thread has stored no copy
  before its APPEND. That a thread may outlive its request and its timer is why the place of the thread and
  not that of the request says what has been stored.
- Session. `CommittedIsHeardOf`, `OnlyLandedStatusIsPushed`. `SessionInv` relates the list of deferred ids to
  the fate of their writes: what stands in its first `committed` entries has landed, what stands behind them is still
  open or was undone by a savepoint only (`ListIsSplit`), and each open write is listed (`OpenIsListed`). So cutting the list
  back to that length drops exactly what a rollback undoes, and a COMMIT promotes all it made durable.
- PATCH. `StoredPasswordsWereProbed`, and the action property `UnrivalledPatchLeavesProbedLogin`. `PatchInv`: the
  passwords of the row and of every row anybody loaded passed a probe (`KnownPasswords`), a request nobody overtook has
  loaded the login the row still has (`SameLogin`), and one that comes to write a new password had the login it
  tried accepted. Any number of PATCHes may overlap.
- Schedule. `RequestsStayInHand` is made inductive by `DispatcherIsBusy` (what the dispatcher found and drained, it has only
  while it drains and loads) and `RunsAreApart` (a run has attempts only while it runs), without which a
  run that starts could overwrite an attempt that waits. `SyncTypeCorrect` includes that the threads at work and the
  abandoned ones fit the pool (`PoolInv`, by counting pairs of run and mailbox), and assumes
  `IsFiniteSet(Account)`, since it counts them.
- Rate limiter. `TwoWindowsAtMost`, `RetryAfterIsEnough`. `RateInv` holds two facts. No stretch up to a window has
  seen more than a capacity, one more for each loss of Redis in it, and what the present counter has admitted, and one that
  lies within the life of the counter and saw no loss no more than the last (`HistoryIsCounted`); a counter without a TTL, which a pipeline that breaks before its
  EXPIRE leaves behind, has no such life. The counter that refused a caller ends at most half a second after the time the caller was
  told to wait (`RefusedByWindow`), by the arithmetic of Redis's rounding (`TtlCovers`). Every capacity, window and
  number of ticks a second is covered, the code's 60 s included, which the run does not reach.
- Startup. `ServiceUserIsThere`: `OwnerIsSecured` says what each process knows between its look and its commit (whoever
  commits wrote the row or saw it in its role).

**Error tables.** `ImapSyncProofs` ends with the two tables: `TableIsFollowed` and `WorthARetryIsTransient` are
facts about every error, with any number of markers (the run has up to three), from two lemmas: some
rule of the table is the first to match, and the blocks of `classify` are the groups of rules 1-9 and 10-11.

**What is only model-checked.** Every invariant and every action property of the passing runs is stated by a
theorem. Left to TLC are the liveness properties, which need fairness and ENABLED: `EveryMessageSettles`, `RetriesEnd`,
`DeactivationReachesCrm`, `ConsentSurfaces`, `EveryMessageStored`, `CallsEnd`, `EventuallyPulled`, `Answered`,
`RequestServed`, `LockoutEnds`. The lemmas on LPUSH and LPOP (what they contain, keep and return) stand in
`CrmOutboxProofs` and `MailboxStatusProofs`, each those it needs.

Each property has a mutant in `PROJECT.json`: a plausible bug in a definition (a dropped
re-enqueue, a lock taken by everyone, a cursor one too far), under which the run finds the
property violated. The mutated forms stand in the modules beside the definitions
they replace, commented as mutations; the specifications use none of them.

## 5. Findings

1. `directory_address`. `accounts/service.py:526` calls an address globally unique; the constraint is
   case-sensitive, and only a creation looks for another spelling, before its probe. Two rows
   of one address are both polled, and every later creation or consent for it ends with 500.
2. `pull_gap`. ADR-0029:68 and `repositories/messages.py:49` promise a cursor without gaps; an id is drawn at
   insertion and seen at COMMIT, so a row that commits after a page returned a higher id is never returned.
   `SkipsOnlyLate` says that nothing else is left out.

## 6. Disagreements

What the code does and a document, comment or docstring says otherwise. The first list has a property
each, in the module named; TLC violates it.

Outbox, status and sync:

- `RetentionKeepsUndelivered` (`CrmOutbox`, `outbox_retention.cfg`). Retention deletes by the sender's Date header, whatever
  `pushed_at` says: a message fetched with an old Date may be deleted before the CRM ever got it, while
  `worker/cleanup.py:3` calls the table a buffer whose durable store is the CRM.
- `LatestStatusWins` (`MailboxStatus`, `status_late.cfg`). A snapshot carries no version; one whose POST timed out and is processed
  late overwrites a newer one and nothing repairs it, while `crm_push/service.py:174` calls ordering irrelevant.
- `NothingSkipped` (`ImapSync`, `imap_rebuild.cfg`). After a UIDVALIDITY change, if STATUS omits UIDNEXT and the window is empty,
  the old cursor is stored under the new validity and later messages are filtered out;
  ADR-0008:43 says it is reset.
- `ConsentMeansInvalidated` (`OAuthTokens`, `oauth_consent.cfg`). `oauth_needs_consent` may be set on a mailbox whose token
  Microsoft accepts: the UPDATE does not ask which token was refused; ADR-0025:44 says the flag means
  that the refresh token is invalidated.
- `ImapBounded` (`SyncSchedule`). Every call of `_run_for_accounts` makes a semaphore of its own (`sync_cycle.py:584`), so
  three callers open three times `MAX_CONCURRENT_IMAP` sessions; `05-modules.md:1490` says the same semaphore.
- `MarkersWait` (`SyncSchedule`). A marker lives 60 s, as long as one fetch may take: markers set while the dispatcher runs
  expire before its next tick (`accounts/service.py:799`), and the mailbox waits for the regular cycle;
  `05-modules.md:1494` says they wait for the next tick.
- `ShutdownFinishesRuns` (`SyncSchedule`). `shutdown(wait=True)` of an AsyncIOScheduler cancels its jobs
  (`worker/main.py:249`); ADR-0003:34 says the current tasks finish.

Requests of the API:

- `RelinkedRowExists` (`MailboxDirectory`). A mailbox deleted between the look-up of a callback and its UPDATE leaves the UPDATE without a row;
  the assertion after it (`oauth/service.py:387`) reads the identity map and cannot fail; the success page is shown and the
  CRM told of a mailbox that does not exist.
- `OneCopy` (`ExternalPull`). The canonical mailbox of an address is the oldest when the page is read (`mail_accounts.py:79`); after its
  deletion or renaming a duplicate's copies are returned too. ADR-0029:146 promises exactly one copy.
- `ImapFailureIsNamed` (`ConnectionProbe`). The IMAP testers catch `MailboxLoginError`, `MailboxFolderSelectError`, `TimeoutError` and
  `OSError` (`testers.py:108`, `276`); an error of imaplib leaves the probe as a 500. `testers.py:137` says that any failure
  raises `IMAPLoginFailedError`.
- `TransportClosed` (`ConnectionProbe`, `probe_transport.cfg`). A timer that fires while QUIT is awaited skips `client.close()`
  (`testers.py:165`), whose comment calls the teardown cancellation-safe.
- `LogoutIgnored` (`ConnectionProbe`). The guard of the IMAP login waits for the logout too: a silent one turns a login that
  succeeded into `imap_login_failed`; `testers.py:124` says logout errors are ignored.
- `OneTimeoutForTheLeg` (`SendTransport`). The 20 s hold for each phase of SMTP, as `testers.py:226` knows; `send/service.py:51` takes
  them for the whole dialogue and adds them up to a budget.
- `ReconsentIsNamed` (`SendTransport`, `send_consent.cfg`). The send that finds the refresh token revoked answers 500, not the 409
  that `send/service.py:237` names: nobody maps `OAuthRefreshInvalidError`.
- `WindowFromFirstHit` (`RateLimit`). EXPIRE NX goes with every call (`rate_limit.py:108`), not with the first as the docstring says. The
  code is the better of the two: with the docstring's a broken first pipeline would lock the address out for ever.
- `LossIsNoisy` (`SessionGuard`), which the run checks except where a COMMIT's answer is lost or a flush is cancelled: in either case a
  committed write is neither pushed nor named (`accounts/service.py:238` and `252`), while `session_guards.py:12` says that it makes the loss noisy. The
  other way round, the guard is asked before `close()` (`db.py:110`) and names writes that the close then rolls back.
- `UpdatesAreTested` (`MailboxPatch`). `update` probes only a request that brings a password (`accounts/service.py:658`);
  `05-modules.md:1057` has no UPDATE without a test.
- `ReenabledIsProbed` (`MailboxPatch`, `patch_race.cfg`). Two overlapping PATCHes, one with an IMAP and one with an SMTP password,
  each probe their own with the other's old one; the row ends, enabled, on a pair nobody tried.
  `accounts/service.py:712` says it is flipped only when credentials were re-validated.
- `AbsentFieldsStay` (`MailboxPatch`). `update` writes back every address, host and login field it loaded before the probe
  (`accounts/service.py:691`): a change made by another PATCH meanwhile is undone, while `04-api-contracts.md:1555` speaks of presence semantics.

Met while modelling, modelled as the code has them, without a property:

- `disable_and_stamp_alert` (`mail_accounts.py:383-398`) asks for a NULL stamp only. A verdict older
  than a PATCH disables the mailbox whose credentials were just replaced, and stamps
  one that was disabled by hand.
- The denominator of the breaker (`sync_cycle.py:623`) leaves out crashed tasks; ADR-0026:228 counts
  the accounts of the run.
- The IMAP connection is opened outside the `try` of the retry loop (`imap_fetcher.py:304`): only
  a failure of the login is retried, while the docstring above it and ADR-0026:297-302 name DNS and
  connect failures. `OpenFails` models the code.
- Rule 7 of `error_classify.py` never applies on the worker's path: the exception text is
  `oautherror: token endpoint returned an error`, which has no `oauth_token_error` in it, so the
  error keeps the prefix `error` (`sync_cycle.py:444-446`, `error_classify.py:177-181`). It is transient all
  the same, because what no rule matches is.
- Any `AssertionError` counts as a decryption failure; ADR-0026 means the one of `decrypt_mail_password`.
- A waiter polls for the lock for 3 s while its holder's request may take 15 s; the docstring
  at `oauth/service.py:637-640` calls the recovery automatic. `oauth_consent.cfg` shows one way it is not.
- `imap_fetcher.py:395` catches `MailboxFetchError` around the search, which raises another type. Either
  way the fetch fails, so the model has one `FetchFails`.
- A consent for the address of a password mailbox writes the tokens to its row and leaves
  `auth_type` as it was (`oauth/service.py:374-389`): the user sees the success page and the CRM is
  told, while the worker goes on with the password. ADR-0025:69 lists `auth_type='oauth_outlook'` among what linking sets.
- The docstring of the callback (`external/router.py:566`) says that any failure yields the error page. A
  unique violation, a row deleted before its tokens are written and two rows of one address
  yield 500: only `OAuthError` is caught.
- `WORKER_THREAD_POOL_SIZE` is configured (`shared/config.py:60`, ADR-0013:19) and never used: the pool is Python's default.
- `get_db` (`deps.py`) iterates the session generator with `async for`, so an exception of the request reaches the generator's
  teardown only when it is finalized; when that is, the model leaves open.
- `find_any_by_email` (`repositories/mail_accounts.py:137`) says that the service layer rejects duplicates with it; nothing calls it.

## 7. Not modelled, and the plan

Left out for good: users and dependencies, middlewares and health, crypto, credentials, HTML sanitising, logging,
configuration, migrations, and the provider tables, of which only the host check is modelled, as a
step that takes a thread and may refuse. They are data conversions, tables or wiring,
with no state over which steps interleave.

What the properties leave out, because the code makes it false, stands in their comments and under the hazards: needs-consent after
a refresh without the lock or beside a relink (`ConsentIsTrue`), a token revoked or lost (`TokenKept`), a status event lost or
overtaken (`MirrorCurrentOrEventPending`), a request to synchronise that a failure, a stop or an expiry took (`RequestInHand`), a PATCH that
another overtook (`UnrivalledPatchIsProbed`), a COMMIT that fails after a letter (`ClearFailuresSendNothing`), calls without an address
(`AtMostTwoWindows`), a login that fails with an error of imaplib (`StageAttributed`).

Abstracted: the text of messages and errors, the HMAC of a POST, the intervals of the
scheduler (fairness; `SyncSchedule` has the ten seconds), the semaphore over mailboxes in all modules but
`SyncSchedule` (any interleaving includes it), the suppression window of transient errors (a free choice),
servers that leave UIDVALIDITY out before and after a rebuild (two mailboxes then share the cursor's 0, and later messages
may be filtered out: `EveryMessageStored` is checked for servers that give it once the mailbox has been rebuilt),
whether the batch of a sync raises for its parsing or its network (one failure).

Hazards without a property, each with its reason in `PROJECT.json`: retention by the Date header, the
refused batch that starves what lies below it, a verdict older than a change of credentials, and the
event lost with a COMMIT's answer or a cancelled flush. In each the code does what the hazard says; section 6
has what follows.

Plan, in this order:

1. `CrmOutbox`, `MailboxStatus`, `ImapSync` with `ErrorClassify`, `OAuthTokens`, `MailboxDirectory`: done.
2. `ExternalPull`, `ConnectionProbe`, with proofs: done.
3. `SendTransport`, `RateLimit`, `SessionGuard`, `SyncSchedule`, `MailboxPatch`, `ServiceUserSeed`: done.
4. A module that composes `OAuthTokens` and `MailboxDirectory` (relinks of a callback against refreshes of the worker).
5. `ServiceProofs`, and the error tables in `ImapSyncProofs`: done. All safety properties of the passing runs are proved.
6. Abstract specifications of the session guard and the limiter as `FeedPromise` is one of the outbox, with their refinements proved.
