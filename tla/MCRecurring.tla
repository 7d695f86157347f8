---------------------------- MODULE MCRecurring ----------------------------
(***************************************************************************)
(* What recurs, on small instances: the synchronisation of a mailbox       *)
(* (SyncSchedule), the windows of the rate limiter (RateLimit) and the     *)
(* starts of the API's processes (ServiceUserSeed).  The three share no    *)
(* state and no action, so one graph holds the states of each: job says    *)
(* whose steps are taken, and the others keep one of their initial states. *)
(***************************************************************************)
EXTENDS Naturals

CONSTANTS Account, Run, MaxConcurrent, Pool, Timeout, MarkerLife, Requests, Faults,
          Budget, Client, Capacity, Window, Second, Outages,
          Process, Nobody, MaxFaults

VARIABLES
  job,
  worker, marker, active, stage, found, drained, attempt, left, abandoned, due,
  owed, waived, requests, faults,
  count, life, call, budget, got, wait, same, recent, losses, outages,
  role, boot, writer, failures

syncVars == <<worker, marker, active, stage, found, drained, attempt, left, abandoned, due,
              owed, waived, requests, faults>>
rateVars == <<count, life, call, budget, got, wait, same, recent, losses, outages>>
seedVars == <<role, boot, writer, failures>>

recurringVars == <<job, syncVars, rateVars, seedVars>>

Sync == INSTANCE SyncSchedule WITH at <- attempt
Rate == INSTANCE RateLimit WITH left <- life, at <- call, faults <- outages, Faults <- Outages
Seed == INSTANCE ServiceUserSeed WITH None <- Nobody, stage <- boot, faults <- failures

ASSUME RecurringAssumption ==
  Sync!ScheduleAssumption /\ Rate!LimitAssumption /\ Seed!SeedAssumption

RecurringInit ==
  /\ job \in {"sync", "rate", "seed"}
  /\ Sync!Init /\ Rate!Init /\ Seed!Init
  /\ job # "sync" => \A a \in Account : active[a]
  /\ job # "rate" => budget = [c \in Client |-> CHOOSE b \in Budget : TRUE]
  /\ job # "seed" => role = "none"

SyncNext == job = "sync" /\ Sync!Next /\ UNCHANGED <<job, rateVars, seedVars>>

RateNext == job = "rate" /\ Rate!Next /\ UNCHANGED <<job, syncVars, seedVars>>

SeedNext == job = "seed" /\ Seed!Next /\ UNCHANGED <<job, syncVars, rateVars>>

RecurringNext == SyncNext \/ RateNext \/ SeedNext

RecurringSpec == RecurringInit /\ [][RecurringNext]_recurringVars

(***************************************************************************)
(* The fairness of each module, of the job whose steps are taken.          *)
(***************************************************************************)
SyncFairness ==
  /\ WF_syncVars(job = "sync" /\ Sync!Tick) /\ WF_syncVars(job = "sync" /\ Sync!Drain)
  /\ WF_syncVars(job = "sync" /\ Sync!StartForce)
  /\ WF_syncVars(job = "sync" /\ Sync!LoadForced)
  /\ WF_syncVars(job = "sync" /\ Sync!AbandonedEnds)
  /\ WF_syncVars(job = "sync" /\ worker = "stopping" /\ Sync!Exit)
  /\ WF_syncVars(job = "sync" /\ Sync!Start)
  /\ \A r \in Run : /\ WF_syncVars(job = "sync" /\ Sync!StartCycle(r))
                    /\ WF_syncVars(job = "sync" /\ Sync!FinishRun(r))
  /\ \A r \in Run, a \in Account :
       /\ WF_syncVars(job = "sync" /\ Sync!Acquire(r, a))
       /\ WF_syncVars(job = "sync" /\ Sync!Prepared(r, a))
       /\ WF_syncVars(job = "sync" /\ Sync!Resolved(r, a))
       /\ WF_syncVars(job = "sync" /\ Sync!TimesOut(r, a))
       /\ WF_syncVars(job = "sync" /\ Sync!Recorded(r, a))
       /\ SF_syncVars(job = "sync" /\ Sync!TakeThread(r, a))

RateFairness ==
  /\ WF_rateVars(job = "rate" /\ Rate!Tick)
  /\ \A c \in Client : WF_rateVars(job = "rate" /\ Rate!Step(c))

FairSpec == RecurringSpec /\ SyncFairness /\ RateFairness
-----------------------------------------------------------------------------
(* The properties, as the modules state them                               *)

\* A request to synchronise is in hand until an attempt begins after it, unless a failure,
\* a stop of the worker or the expiry of its marker has waived it.
RequestInHand == Sync!RequestInHand

\* A mailbox that was asked for is attempted, unless it is deactivated.
RequestServed == Sync!RequestServed

\* A refused caller that waits as it was told finds the counter that refused it gone or at
\* most half a second from its end.
WaitIsEnough == Rate!WaitIsEnough

\* Any stretch of the length of a window admits at most the calls of two windows, and of
\* one more for each loss of Redis in it.
AtMostTwoWindows == Rate!AtMostTwoWindows

\* A flood is let through again and again.
LockoutEnds == Rate!LockoutEnds

\* A process that serves finds the owner of the mailboxes.
ServingHasOwner == Seed!ServingHasOwner
=============================================================================
