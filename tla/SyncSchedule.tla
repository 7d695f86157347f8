---------------------------- MODULE SyncSchedule ----------------------------
(***************************************************************************)
(* Who synchronises a mailbox, and when: the markers force_sync:{id} that  *)
(* POST /mailboxes/{id}/sync leaves in Redis, the dispatcher that drains   *)
(* them every ten seconds, the regular cycles, the semaphore and the       *)
(* thread pool their attempts share, and the start and stop of the worker  *)
(* (src/worker/app/sync_cycle.py and src/worker/app/main.py).  What an     *)
(* attempt writes is modelled in MailboxStatus and ImapSync.               *)
(*                                                                         *)
(* A tick is the dispatcher's interval of ten seconds.  It waits for what  *)
(* takes no time: all but the credentials, of which an OAuth refresh may   *)
(* take 15 s, the host checks and fetches in the threads, and what an      *)
(* attempt writes at its end.                                              *)
(* owed is history: the mailboxes the CRM asked to synchronise and that no *)
(* attempt has begun for since; waived, those of them whose marker expired *)
(* or was taken by a fault, a stop or a deactivation.                      *)
(***************************************************************************)
EXTENDS Integers, FiniteSets, FiniteSetsExt

CONSTANTS Account,        \* mailboxes
          Run,            \* the callers of _run_for_accounts
          MaxConcurrent,  \* MAX_CONCURRENT_IMAP
          Pool,           \* threads of the default executor
          Timeout,        \* IMAP_TIMEOUT_SECONDS, in ticks
          MarkerLife,     \* the 60 s of a marker, in ticks
          Requests,       \* bound: requests and activations of the CRM
          Faults          \* bound: failures, crashes and stops

ScheduleAssumption ==
  /\ Run \subseteq {"initial", "cycle", "force"}
  /\ {MaxConcurrent, Pool, Timeout, MarkerLife} \subseteq Nat \ {0}
  /\ {Requests, Faults} \subseteq Nat

VARIABLES worker,     \* "up", "stopping" or "down"
          marker,     \* the ticks a marker has left to live; 0 without one
          active,     \* mail_accounts.is_active
          stage,      \* each run: "ready" (the initial one, not yet run), "idle", "draining",
                      \* "loading", "running"
          found,      \* the markers of the SCAN that the drain has still to delete
          drained,    \* forced_ids
          at,         \* where the attempt of a run at a mailbox stands
          left,       \* the ticks its wait_for has left
          abandoned,  \* threads that outlive their attempt
          due,        \* the jobs whose interval is over
          owed, waived, requests, faults

attempts == <<at, left, abandoned>>
redis == <<marker, found, drained>>
history == <<owed, waived>>
bounds == <<requests, faults>>
vars == <<worker, marker, active, stage, found, drained, at, left, abandoned, due,
          owed, waived, requests, faults>>

Idle == [a \in Account |-> "out"]

Init ==
  /\ worker = "up" /\ active \in [Account -> BOOLEAN]
  /\ marker = [a \in Account |-> 0] /\ found = {} /\ drained = {}
  /\ stage = [r \in Run |-> IF r = "initial" THEN "ready" ELSE "idle"]
  /\ at = [r \in Run |-> Idle] /\ left = [r \in Run |-> [a \in Account |-> 0]]
  /\ abandoned = 0 /\ due = {}
  /\ owed = {} /\ waived = {} /\ requests = 0 /\ faults = 0

\* The mailboxes that run r has still to begin with.
Waiting(r) == {a \in Account : at[r][a] = "waiting"}

Marked == {a \in Account : marker[a] > 0}

\* A request is in hand: in Redis, in the dispatcher or in a run.
InHand == Marked \union found \union drained \union UNION {Waiting(r) : r \in Run}

-----------------------------------------------------------------------------
(* The CRM                                                                 *)

\* force_sync: SET force_sync:{id} EX 60.
ForceSync(a) ==
  /\ requests < Requests /\ requests' = requests + 1
  /\ marker' = [marker EXCEPT ![a] = MarkerLife]
  /\ owed' = owed \union {a} /\ waived' = waived \ {a}
  /\ UNCHANGED <<worker, active, stage, found, drained, attempts, due, faults>>

\* A PATCH, a failed login or a new password.
Activate(a) ==
  /\ requests < Requests /\ requests' = requests + 1
  /\ active' = [active EXCEPT ![a] = ~@]
  /\ UNCHANGED <<worker, redis, stage, attempts, due, history, faults>>

-----------------------------------------------------------------------------
(* The runs                                                                *)

Listed(r, S) == at' = [at EXCEPT ![r] = [a \in Account |-> IF a \in S THEN "waiting" ELSE "out"]]

Enabled == {a \in Account : active[a]}

\* sync_cycle: the job, of which one instance runs, and the task main creates at the start.
StartCycle(r) ==
  /\ worker = "up" /\ r # "force"
  /\ stage[r] = "ready" \/ (stage[r] = "idle" /\ r \in due)
  /\ Listed(r, Enabled) /\ stage' = [stage EXCEPT ![r] = "running"] /\ due' = due \ {r}
  /\ UNCHANGED <<worker, redis, active, left, abandoned, history, bounds>>

\* force_sync_dispatch: SCAN for the markers; without one the tick is over.
StartForce ==
  /\ worker = "up" /\ "force" \in due /\ stage["force"] = "idle"
  /\ due' = due \ {"force"} /\ found' = Marked
  /\ stage' = IF Marked = {} THEN stage ELSE [stage EXCEPT !["force"] = "draining"]
  /\ UNCHANGED <<worker, marker, drained, active, attempts, history, bounds>>

DrainMarker(a) ==
  /\ a \in found /\ found' = found \ {a}
  /\ drained' = drained \union {a} /\ marker' = [marker EXCEPT ![a] = 0]
  /\ stage' = IF found = {a} THEN [stage EXCEPT !["force"] = "loading"] ELSE stage
  /\ UNCHANGED <<worker, active, attempts, due, history, bounds>>

\* list_active_by_ids drops the mailboxes that are no longer active.
LoadForced ==
  /\ worker = "up" /\ "force" \in Run /\ stage["force"] = "loading"
  /\ Listed("force", drained \intersect Enabled)
  /\ stage' = [stage EXCEPT !["force"] = "running"]
  /\ waived' = waived \union (owed \intersect (drained \ Enabled)) /\ drained' = {}
  /\ UNCHANGED <<worker, marker, found, active, left, abandoned, due, owed, bounds>>

\* Redis or Postgres fails the dispatcher: forced_ids is gone, the job is logged.
ForceFails ==
  /\ "force" \in Run /\ stage["force"] \in {"draining", "loading"}
  /\ faults < Faults /\ faults' = faults + 1
  /\ stage' = [stage EXCEPT !["force"] = "idle"]
  /\ found' = {} /\ drained' = {}
  /\ UNCHANGED <<worker, marker, active, attempts, due, owed, requests>>
  /\ waived' = waived \union (owed \ InHand')

\* Mutation of Deleted: the markers are deleted when the run has served them.
DeletedAfterwards(r) == [a \in Account |-> IF at[r][a] = "done" THEN 0 ELSE marker[a]]

\* What the end of a run does to the markers: nothing, they went before it began.
Deleted(r) == marker

Over(r) == \A a \in Account : at[r][a] \in {"out", "done"}

\* gather returns; the verdicts that follow are those of MailboxStatus.
FinishRun(r) ==
  /\ stage[r] = "running" /\ Over(r)
  /\ stage' = [stage EXCEPT ![r] = "idle"] /\ at' = [at EXCEPT ![r] = Idle]
  /\ marker' = Deleted(r)
  /\ UNCHANGED <<worker, found, drained, active, left, abandoned, due, history, bounds>>

-----------------------------------------------------------------------------
(* An attempt: semaphore, credentials, host check, fetch, what it writes   *)

Holding == {"preparing", "resolve_queued", "resolving", "fetch_queued", "fetching", "recording"}

Held(r) == Cardinality({a \in Account : at[r][a] \in Holding})

Threads(where) == Cardinality({p \in Run \X Account : at[p[1]][p[2]] \in where})

Busy == abandoned + Threads({"resolving", "fetching"})

Move(r, a, to) == at' = [at EXCEPT ![r][a] = to]

\* Every run has a semaphore of its own.
Acquire(r, a) ==
  /\ at[r][a] = "waiting" /\ Held(r) < MaxConcurrent
  /\ Move(r, a, "preparing")
  /\ owed' = owed \ {a} /\ waived' = waived \ {a}
  /\ UNCHANGED <<worker, redis, active, stage, left, abandoned, due, bounds>>

\* _resolve_credentials gives them, or there is no more to do than it has done.
Prepared(r, a) ==
  /\ at[r][a] = "preparing"
  /\ \E to \in {"resolve_queued", "done"} : Move(r, a, to)
  /\ UNCHANGED <<worker, redis, active, stage, left, abandoned, due, history, bounds>>

Queued(r, a) == at[r][a] \in {"resolve_queued", "fetch_queued"}

\* A thread of the pool takes the host check or the fetch that was queued.
TakeThread(r, a) ==
  /\ Queued(r, a) /\ Busy < Pool
  /\ Move(r, a, IF at[r][a] = "resolve_queued" THEN "resolving" ELSE "fetching")
  /\ UNCHANGED <<worker, redis, active, stage, left, abandoned, due, history, bounds>>

\* The timeout of the sockets and of wait_for alike.
FetchTimer == Timeout

\* assert_public_host_async, which no timeout limits.
Resolved(r, a) ==
  /\ at[r][a] = "resolving"
  /\ \/ Move(r, a, "recording") /\ UNCHANGED left
     \/ Move(r, a, "fetch_queued") /\ left' = [left EXCEPT ![r][a] = FetchTimer]
  /\ UNCHANGED <<worker, redis, active, stage, abandoned, due, history, bounds>>

Fetched(r, a) ==
  /\ at[r][a] = "fetching"
  /\ Move(r, a, "recording") /\ left' = [left EXCEPT ![r][a] = 0]
  /\ UNCHANGED <<worker, redis, active, stage, abandoned, due, history, bounds>>

\* Mutation of TimedOut: the attempt waits for the thread it cannot stop.
TimedOutWaiting(r, a) == at[r][a] = "fetch_queued" /\ left[r][a] = 0

TimedOut(r, a) == at[r][a] \in {"fetch_queued", "fetching"} /\ left[r][a] = 0

\* wait_for gives up: a fetch that is queued never starts, one that runs goes on.
TimesOut(r, a) ==
  /\ TimedOut(r, a) /\ Move(r, a, "recording")
  /\ abandoned' = IF at[r][a] = "fetching" THEN abandoned + 1 ELSE abandoned
  /\ UNCHANGED <<worker, redis, active, stage, left, due, history, bounds>>

\* The messages, the cursor or the error are written, still under the semaphore.
Recorded(r, a) ==
  /\ at[r][a] = "recording" /\ Move(r, a, "done")
  /\ UNCHANGED <<worker, redis, active, stage, left, abandoned, due, history, bounds>>

AbandonedEnds ==
  /\ abandoned > 0 /\ abandoned' = abandoned - 1
  /\ UNCHANGED <<worker, redis, active, stage, at, left, due, history, bounds>>

-----------------------------------------------------------------------------
(* Time, and the worker's start and stop                                   *)

Urgent ==
  \/ worker = "up" /\ "force" \in due /\ stage["force"] = "idle"
  \/ \E r \in Run : \/ stage[r] \in {"draining", "loading"}
                    \/ stage[r] = "running" /\ Over(r)
                    \/ Waiting(r) # {} /\ Held(r) < MaxConcurrent
  \/ \E r \in Run, a \in Account :
        TimedOut(r, a) \/ (Queued(r, a) /\ Busy < Pool)

\* Markers age and expire; a job whose interval ends while it runs is skipped.  The cycle's
\* interval is any number of ticks.
Tick ==
  /\ ~Urgent
  /\ marker' = [a \in Account |-> IF marker[a] = 0 THEN 0 ELSE marker[a] - 1]
  /\ left' = [r \in Run |-> [a \in Account |->
               IF at[r][a] \in {"fetch_queued", "fetching"} /\ left[r][a] > 0
               THEN left[r][a] - 1 ELSE left[r][a]]]
  /\ due' = {r \in Run \ {"initial"} : worker = "up" /\ stage[r] = "idle"}
  /\ UNCHANGED <<worker, found, drained, active, stage, at, abandoned, owed, bounds>>
  /\ waived' = waived \union (owed \ InHand')

Running(r, a) == at[r][a] \in {"resolving", "fetching"}

\* What the cancellation of the runs in R leaves behind.
Cut(R) ==
  /\ stage' = [r \in Run |-> IF r \in R THEN "idle" ELSE stage[r]]
  /\ at' = [r \in Run |-> IF r \in R THEN Idle ELSE at[r]]
  /\ left' = [r \in Run |-> IF r \in R THEN [a \in Account |-> 0] ELSE left[r]]
  /\ found' = {} /\ drained' = {} /\ due' = {}

\* SIGTERM: scheduler.shutdown cancels the jobs under way, whatever wait says; the initial
\* cycle gets five seconds.
Stop ==
  /\ worker = "up" /\ faults < Faults /\ faults' = faults + 1
  /\ worker' = "stopping" /\ Cut(Run \ {"initial"})
  /\ abandoned' = abandoned
       + Cardinality({p \in (Run \ {"initial"}) \X Account : Running(p[1], p[2])})
  /\ UNCHANGED <<marker, active, owed, requests>>
  /\ waived' = waived \union (owed \ InHand')

\* The process ends, after Stop or without it, and its threads with it.
Exit ==
  /\ \/ worker = "stopping" /\ UNCHANGED faults
     \/ worker = "up" /\ faults < Faults /\ faults' = faults + 1
  /\ worker' = "down" /\ Cut(Run) /\ abandoned' = 0
  /\ UNCHANGED <<marker, active, owed, requests>>
  /\ waived' = waived \union (owed \ InHand')

\* Docker starts it again.
Start ==
  /\ worker = "down" /\ worker' = "up"
  /\ stage' = [r \in Run |-> IF r = "initial" THEN "ready" ELSE "idle"]
  /\ UNCHANGED <<redis, active, attempts, due, history, bounds>>

-----------------------------------------------------------------------------
AttemptStep(r, a) ==
  Acquire(r, a) \/ Prepared(r, a) \/ Resolved(r, a) \/ Fetched(r, a) \/ TimesOut(r, a)
  \/ Recorded(r, a)

Drain == \E a \in Account : DrainMarker(a)

Next ==
  \/ \E a \in Account : ForceSync(a) \/ Activate(a) \/ DrainMarker(a)
  \/ \E r \in Run : StartCycle(r) \/ FinishRun(r)
  \/ StartForce \/ LoadForced \/ ForceFails
  \/ \E r \in Run, a \in Account : AttemptStep(r, a) \/ TakeThread(r, a)
  \/ AbandonedEnds \/ Tick \/ Stop \/ Exit \/ Start

Spec == Init /\ [][Next]_vars

\* The scheduler starts its jobs, the event loop serves the runs, Microsoft's and the
\* database's timeouts end credentials and writes, the pool serves its queue in order, host
\* checks and abandoned threads end with the resolver's and the sockets' timeouts, and
\* Docker restarts the worker.  No fetch is assumed to end before its timer.
FairSpec ==
  /\ Spec
  /\ WF_vars(Tick) /\ WF_vars(Drain) /\ WF_vars(StartForce) /\ WF_vars(LoadForced)
  /\ WF_vars(AbandonedEnds) /\ WF_vars(worker = "stopping" /\ Exit) /\ WF_vars(Start)
  /\ \A r \in Run : WF_vars(StartCycle(r)) /\ WF_vars(FinishRun(r))
  /\ \A r \in Run, a \in Account :
        /\ WF_vars(Acquire(r, a)) /\ WF_vars(Prepared(r, a)) /\ WF_vars(Resolved(r, a))
        /\ WF_vars(TimesOut(r, a)) /\ WF_vars(Recorded(r, a))
        /\ SF_vars(TakeThread(r, a))

-----------------------------------------------------------------------------
(* Properties                                                              *)

\* The type invariant of the worker, its runs and the markers.
TypeOK ==
  /\ worker \in {"up", "stopping", "down"} /\ due \subseteq Run
  /\ marker \in [Account -> 0..MarkerLife] /\ active \in [Account -> BOOLEAN]
  /\ stage \in [Run -> {"ready", "idle", "draining", "loading", "running"}]
  /\ found \subseteq Account /\ drained \subseteq Account
  /\ at \in [Run -> [Account -> {"out", "waiting", "done"} \union Holding]]
  /\ left \in [Run -> [Account -> 0..Timeout]] /\ Busy <= Pool
  /\ waived \subseteq owed /\ owed \subseteq Account
  /\ requests \in 0..Requests /\ faults \in 0..Faults

\* A request to synchronise is in Redis, in the dispatcher or before its attempt in a run
\* until an attempt begins after it: the drain of one request never takes a later one with
\* it, and two requests that share a marker are both served by what follows.
RequestInHand == owed \ waived \subseteq InHand

\* A mailbox that was asked for is attempted after the request, by the dispatcher or, when
\* its marker is lost, by a later cycle, unless it is deactivated.
RequestServed == \A a \in Account : a \in owed ~> a \notin owed \/ ~active[a]

\* "tasks under the same Semaphore(MAX_CONCURRENT_IMAP) as sync_cycle"
\* (docs/05-modules.md:1490): no more IMAP sessions at once than that.
ImapBounded == Threads({"fetching"}) <= MaxConcurrent

\* "when a sync is slow, the next markers wait for the next tick" (docs/05-modules.md:1494).
MarkersWait ==
  [][\A a \in Account : worker = "up" /\ marker[a] > 0 /\ marker'[a] = 0 => a \in drained']_vars

\* "Graceful shutdown: ... the current tasks finish" (docs/adr/ADR-0003-worker.md:34).
ShutdownFinishesRuns ==
  [][worker' = "stopping" => \A r \in Run : stage[r] = "running" => stage'[r] # "idle" \/ Over(r)]_vars
=============================================================================
