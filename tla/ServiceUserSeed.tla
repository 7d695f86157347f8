-------------------------- MODULE ServiceUserSeed --------------------------
(* The start of the API: every process of gunicorn seeds the user crm-service in  *)
(* one transaction before it serves (backend/app/main.py, lifespan, and           *)
(* backend/app/auth/service.py).  Requests need that user as the owner of         *)
(* mailboxes.  An uncommitted INSERT or UPDATE makes the next writer of the row   *)
(* wait; a process that fails while it starts is started again by its supervisor. *)
EXTENDS Naturals, FiniteSets

CONSTANTS Process, None,
          MaxFaults  \* bound: failures while starting

SeedAssumption == None \notin Process /\ MaxFaults \in Nat

VARIABLES
  role,    \* of the committed row: none, other or super_admin
  stage,   \* each process: start, insert, promote, commit, serving or crashed
  writer,  \* the process with an uncommitted write of the row
  faults

vars == <<role, stage, writer, faults>>

Init ==
  /\ role \in {"none", "other", "super_admin"}
  /\ stage = [p \in Process |-> "start"]
  /\ writer = None /\ faults = 0

Goes(p, to) == stage' = [stage EXCEPT ![p] = to]

\* get_by_username sees what is committed.
Look(p) ==
  /\ stage[p] = "start"
  /\ Goes(p, CASE role = "none" -> "insert" [] role = "other" -> "promote" [] OTHER -> "commit")
  /\ UNCHANGED <<role, writer, faults>>

\* The flush of the new row, or of the role of the one that was found.
WriteRow(p) ==
  /\ writer = None
  /\ \/ stage[p] = "promote"
     \/ stage[p] = "insert" /\ role = "none"
  /\ writer' = p
  /\ Goes(p, "commit")
  /\ UNCHANGED <<role, faults>>

\* Mutation of InsertConflicts: the conflict is seen before the winner has committed.
InsertSkips(p) ==
  /\ stage[p] = "insert" /\ (writer # None \/ role # "none")
  /\ Goes(p, "commit")
  /\ UNCHANGED <<role, writer, faults>>

\* The winner has committed: only the SAVEPOINT is rolled back.
InsertConflicts(p) ==
  /\ stage[p] = "insert" /\ writer = None /\ role # "none"
  /\ Goes(p, "commit")
  /\ UNCHANGED <<role, writer, faults>>

Commit(p) ==
  /\ stage[p] = "commit"
  /\ role' = IF writer = p THEN "super_admin" ELSE role
  /\ writer' = IF writer = p THEN None ELSE writer
  /\ Goes(p, "serving")
  /\ UNCHANGED faults

\* An error of the database or a crash: rolled back, and the boot ends loudly.
Fails(p) ==
  /\ stage[p] \in {"start", "insert", "promote", "commit"}
  /\ faults < MaxFaults /\ faults' = faults + 1
  /\ writer' = IF writer = p THEN None ELSE writer
  /\ Goes(p, "crashed")
  /\ UNCHANGED role

\* A process ends while it serves, and another one takes its place.
Recycled(p) ==
  /\ stage[p] = "serving"
  /\ faults < MaxFaults /\ faults' = faults + 1
  /\ Goes(p, "crashed")
  /\ UNCHANGED <<role, writer>>

Restart(p) ==
  /\ stage[p] = "crashed"
  /\ Goes(p, "start")
  /\ UNCHANGED <<role, writer, faults>>

Boot(p) == Look(p) \/ WriteRow(p) \/ InsertConflicts(p) \/ Commit(p) \/ Restart(p)

Next == \E p \in Process : Boot(p) \/ Fails(p) \/ Recycled(p)

Spec == Init /\ [][Next]_vars
-----------------------------------------------------------------------------
(* Properties                                                              *)

\* The types of the state; only a transaction that is still open holds the row.
TypeOK ==
  /\ role \in {"none", "other", "super_admin"}
  /\ stage \in [Process -> {"start", "insert", "promote", "commit", "serving", "crashed"}]
  /\ writer \in Process \union {None}
  /\ writer # None => stage[writer] = "commit"
  /\ faults \in 0..MaxFaults

\* A process that serves finds its owner, with the role of one: write_service.py:70 calls
\* the contrary an impossible state, although the loser of the race never looks again.
ServingHasOwner == \A p \in Process : stage[p] = "serving" => role = "super_admin"
=============================================================================
