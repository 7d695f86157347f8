---------------------------- MODULE ServiceProofs ----------------------------
(***************************************************************************)
(* Proofs about the components whose states share the graphs of            *)
(* MCRequests and MCRecurring, each about its own specification and for    *)
(* every value of the constants: sending (Send), the session behind a      *)
(* request (Session), PATCHes of one mailbox (Patch), the schedule of      *)
(* synchronisation (Sync), the rate limiter (Rate) and the start of the    *)
(* API (Seed).  Every section gives the inductive invariant first.         *)
(***************************************************************************)
EXTENDS MCRequests, MCRecurring, Integers, SequenceTheorems, FiniteSetTheorems, TLAPS

-----------------------------------------------------------------------------
(* The start of the API's processes: ServiceUserSeed                       *)

\* Inductive.  Whoever came to insert found no row, and a row that exists since is its
\* rival's; whoever comes to commit wrote the row itself, which holds off the others, or
\* saw it with the role of an owner.
OwnerIsSecured ==
  /\ Seed!TypeOK
  /\ \A p \in Process :
       /\ boot[p] = "insert" => role \in {"none", "super_admin"}
       /\ boot[p] = "commit" => writer = p \/ role = "super_admin"
       /\ boot[p] = "serving" => role = "super_admin"

\* Every step of a process keeps it.
LEMMA SeedStep ==
  ASSUME OwnerIsSecured, [Seed!Next]_(Seed!vars)
  PROVE  OwnerIsSecured'
<1> USE RecurringAssumption DEF OwnerIsSecured, Seed!TypeOK, Seed!SeedAssumption,
        RecurringAssumption
<1>1. ASSUME NEW p \in Process, Seed!Look(p) PROVE OwnerIsSecured'
  BY <1>1 DEF Seed!Look, Seed!Goes
<1>2. ASSUME NEW p \in Process, Seed!WriteRow(p) PROVE OwnerIsSecured'
  BY <1>2 DEF Seed!WriteRow, Seed!Goes
<1>3. ASSUME NEW p \in Process, Seed!InsertConflicts(p) PROVE OwnerIsSecured'
  BY <1>3 DEF Seed!InsertConflicts, Seed!Goes
<1>4. ASSUME NEW p \in Process, Seed!Commit(p) PROVE OwnerIsSecured'
  BY <1>4 DEF Seed!Commit, Seed!Goes
<1>5. ASSUME NEW p \in Process, Seed!Fails(p) PROVE OwnerIsSecured'
  BY <1>5 DEF Seed!Fails, Seed!Goes
<1>6. ASSUME NEW p \in Process, Seed!Recycled(p) PROVE OwnerIsSecured'
  BY <1>6 DEF Seed!Recycled, Seed!Goes
<1>7. ASSUME NEW p \in Process, Seed!Restart(p) PROVE OwnerIsSecured'
  BY <1>7 DEF Seed!Restart, Seed!Goes
<1>8. CASE UNCHANGED Seed!vars
  BY <1>8 DEF Seed!vars
<1> QED
  BY <1>1, <1>2, <1>3, <1>4, <1>5, <1>6, <1>7, <1>8 DEF Seed!Next, Seed!Boot

\* However many processes start, race for the INSERT, fail and are restarted, one that
\* serves finds its owner with its role (seed_crm_service_user, lifespan).
THEOREM ServiceUserIsThere == Seed!Spec => [](Seed!TypeOK /\ ServingHasOwner)
<1>1. Seed!Init => OwnerIsSecured
  BY RecurringAssumption DEF Seed!Init, OwnerIsSecured, Seed!TypeOK, Seed!SeedAssumption,
     RecurringAssumption
<1>2. OwnerIsSecured => Seed!TypeOK /\ ServingHasOwner
  BY DEF OwnerIsSecured, ServingHasOwner, Seed!ServingHasOwner
<1>3. OwnerIsSecured /\ [Seed!Next]_(Seed!vars) => OwnerIsSecured'
  BY SeedStep
<1> QED
  BY <1>1, <1>2, <1>3, PTL DEF Seed!Spec

-----------------------------------------------------------------------------
(* The session behind a request: SessionGuard                              *)

\* What a write that may be pushed has come to: a savepoint's rollback is not heard.
Landed == {"committed", "undone_nested"}

Listed(w) == \E i \in 1..Len(pending) : pending[i] = w

InBatch(w) == \E i \in 1..Len(batch) : batch[i] = w

\* Pushed, about to be, or still known to the detector.
Accounted(w) ==
  pushed[w] > 0 \/ InBatch(w) \/ IF session = "closed" THEN w \in reported ELSE Listed(w)

\* The list is a committed part, which a rollback keeps, and what the open transaction
\* appended.
ListIsSplit ==
  /\ \A i \in 1..committed : fate[pending[i]] \in Landed
  /\ session # "closed" =>
       \A i \in (committed + 1)..Len(pending) : fate[pending[i]] \in {"open", "undone_nested"}
  /\ session = "idle" => committed = Len(pending)
  /\ session = "flush" => pending = <<>>
  /\ session # "flush" => batch = <<>>

\* A write that is open is in the list, and only a transaction has such writes.
OpenIsListed ==
  /\ session \notin {"open", "nested"} => \A w \in Change : fate[w] # "open"
  /\ \A w \in Change : fate[w] = "open" => Listed(w)
  /\ session # "nested" => savepoint = {}
  /\ \A w \in savepoint : fate[w] = "open"

OnlyLandedIsPushed ==
  /\ \A i \in 1..Len(batch) : fate[batch[i]] \in Landed
  /\ \A w \in Change : pushed[w] > 0 => fate[w] \in Landed

CommittedIsAccounted ==
  lost = 0 /\ cancels = 0 => \A w \in Change : fate[w] = "committed" => Accounted(w)

\* Inductive.
SessionInv ==
  Session!TypeOK /\ ListIsSplit /\ OpenIsListed /\ OnlyLandedIsPushed /\ CommittedIsAccounted

\* What a rollback and a COMMIT that was lost have in common: they drop what the
\* transaction appended and nothing that was committed.
LEMMA DiscardStep ==
  ASSUME SessionInv, Session!Discard, session \in {"open", "nested"}, session' = "idle",
         NEW outcome \in {"committed", "undone"}, Session!Settle(outcome), savepoint' = {},
         lost' \in 0..Lost, lost' = 0 => lost = 0 /\ outcome = "undone",
         UNCHANGED <<committed, batch, pushed, reported, cancels>>
  PROVE  SessionInv'
<1> DEFINE kept == SubSeq(pending, 1, committed)
<1>1. Session!TypeOK
  BY DEF SessionInv
<1>2. kept \in Seq(Change) /\ Len(kept) = committed /\ \A i \in 1..committed : kept[i] = pending[i]
  BY <1>1 DEF Session!TypeOK
<1>3. /\ pending' = kept
      /\ fate' = [w \in Change |-> IF fate[w] = "open" THEN outcome ELSE fate[w]]
      /\ session = "open" \/ session = "nested"
  BY DEF Session!Settle, Session!Discard
<1> HIDE DEF kept
<1>4. Session!TypeOK'
  BY <1>1, <1>2, <1>3 DEF Session!TypeOK
<1>5. \A v \in Change : fate[v] \in Landed => fate'[v] = fate[v]
  BY <1>3 DEF Landed
<1>6. \A i \in 1..Len(pending) : pending[i] \in Change
  BY <1>1 DEF Session!TypeOK
<1>7. \A i \in 1..Len(batch) : batch[i] \in Change
  BY <1>1 DEF Session!TypeOK
<1>8. ListIsSplit'
  <2>1. batch = <<>>
    BY <1>3 DEF SessionInv, ListIsSplit
  <2>2. \A i \in 1..committed : fate'[pending'[i]] \in Landed
    <3> SUFFICES ASSUME NEW i \in 1..committed PROVE fate'[pending'[i]] \in Landed
      BY <1>3
    <3>1. i \in 1..Len(pending) /\ fate[pending[i]] \in Landed
      BY <1>1 DEF SessionInv, ListIsSplit, Session!TypeOK
    <3> QED
      BY <3>1, <1>2, <1>3, <1>5, <1>6
  <2>3. committed' = Len(pending') /\ committed' \in Nat
    BY <1>1, <1>2, <1>3 DEF Session!TypeOK
  <2>4. (committed + 1)..Len(pending)' = {} /\ committed' = committed
    BY <2>3, <1>3
  <2> QED
    BY <2>1, <2>2, <2>3, <2>4, <1>3 DEF ListIsSplit
<1>9. OpenIsListed'
  BY <1>3 DEF OpenIsListed
<1>10. OnlyLandedIsPushed'
  BY <1>3, <1>5, <1>7 DEF SessionInv, OnlyLandedIsPushed
<1>11. CommittedIsAccounted'
  <2> SUFFICES ASSUME NEW w \in Change, fate'[w] = "committed", lost' = 0, cancels' = 0
               PROVE  Accounted(w)'
    BY <1>3 DEF CommittedIsAccounted
  <2>1. fate[w] = "committed" /\ lost = 0 /\ cancels = 0
    BY <1>3
  <2>2. Accounted(w)
    BY <2>1 DEF SessionInv, CommittedIsAccounted
  <2>3. CASE pushed[w] > 0 \/ InBatch(w)
    BY <2>3, <1>3 DEF Accounted, InBatch
  <2>4. CASE Listed(w)
    <3>1. PICK i \in 1..Len(pending) : pending[i] = w
      BY <2>4 DEF Listed
    <3>2. i \notin (committed + 1)..Len(pending)
      BY <2>1, <3>1, <1>3 DEF SessionInv, ListIsSplit
    <3>3. i \in 1..committed
      BY <3>2, <1>1 DEF Session!TypeOK
    <3> QED
      BY <3>1, <3>3, <1>2, <1>3 DEF Accounted, Listed
  <2> QED
    BY <2>2, <2>3, <2>4, <1>3 DEF Accounted
<1> QED
  BY <1>4, <1>8, <1>9, <1>10, <1>11 DEF SessionInv

\* A write joins the open part.
LEMMA WriteStep ==
  ASSUME SessionInv, NEW w \in Change, Session!StatusWrite(w)
  PROVE  SessionInv'
<1> DEFINE longer == Append(pending, w)
<1>1. Session!TypeOK
  BY DEF SessionInv
<1>2. /\ longer \in Seq(Change) /\ Len(longer) = Len(pending) + 1
      /\ \A i \in 1..Len(pending) : longer[i] = pending[i]
      /\ longer[Len(pending) + 1] = w
  BY <1>1 DEF Session!TypeOK
<1>3. /\ session \in {"open", "nested"} /\ fate[w] = "none" /\ pending' = longer
      /\ fate' = [fate EXCEPT ![w] = "open"]
      /\ savepoint' = IF session = "nested" THEN savepoint \union {w} ELSE savepoint
      /\ UNCHANGED <<session, committed, batch, pushed, reported, lost, cancels>>
  BY DEF Session!StatusWrite, Session!InTransaction, Session!faults
<1> HIDE DEF longer
<1>a. Len(pending) \in Nat /\ \A i \in 1..Len(pending) : pending[i] \in Change
  BY <1>1 DEF Session!TypeOK
<1>b. \A i \in 1..Len(batch) : batch[i] \in Change
  BY <1>1 DEF Session!TypeOK
<1>c. \A v \in Change : fate'[v] = IF v = w THEN "open" ELSE fate[v]
  BY <1>1, <1>3 DEF Session!TypeOK
<1>4. Session!TypeOK'
  BY <1>1, <1>2, <1>3, <1>a DEF Session!TypeOK
<1>5. ListIsSplit'
  <2>1. batch = <<>>
    BY <1>3 DEF SessionInv, ListIsSplit
  <2>2. \A i \in 1..committed : fate'[pending'[i]] \in Landed
    <3> TAKE i \in 1..committed
    <3>1. i \in 1..Len(pending) /\ fate[pending[i]] \in Landed
      BY <1>1, <1>a DEF SessionInv, ListIsSplit, Session!TypeOK
    <3> QED
      BY <3>1, <1>2, <1>3, <1>a, <1>c DEF Landed
  <2>3. \A i \in (committed + 1)..Len(pending)' : fate'[pending'[i]] \in {"open", "undone_nested"}
    <3> TAKE i \in (committed + 1)..Len(pending)'
    <3>1. CASE i = Len(pending) + 1
      BY <3>1, <1>2, <1>3, <1>c
    <3>2. CASE i # Len(pending) + 1
      <4>1. i \in (committed + 1)..Len(pending) /\ i \in 1..Len(pending)
        BY <3>2, <1>1, <1>2, <1>3, <1>a DEF Session!TypeOK
      <4>2. fate[pending[i]] \in {"open", "undone_nested"}
        BY <4>1, <1>3 DEF SessionInv, ListIsSplit
      <4> QED
        BY <4>1, <4>2, <1>2, <1>3, <1>a, <1>c
    <3> QED
      BY <3>1, <3>2
  <2> QED
    BY <2>1, <2>2, <2>3, <1>3 DEF ListIsSplit
<1>6. \A v \in Change : Listed(v) \/ v = w => Listed(v)'
  BY <1>2, <1>3, <1>a DEF Listed
<1>7. OpenIsListed'
  BY <1>3, <1>6, <1>c DEF SessionInv, OpenIsListed
<1>8. OnlyLandedIsPushed'
  BY <1>3, <1>b, <1>c DEF SessionInv, OnlyLandedIsPushed, Landed
<1>9. CommittedIsAccounted'
  BY <1>3, <1>6, <1>c DEF SessionInv, CommittedIsAccounted, Accounted, InBatch
<1> QED
  BY <1>4, <1>5, <1>7, <1>8, <1>9 DEF SessionInv

\* A push moves one write out of the batch.
LEMMA PushStep ==
  ASSUME SessionInv, Session!Push
  PROVE  SessionInv'
<1> DEFINE rest == Tail(batch)
<1>1. Session!TypeOK
  BY DEF SessionInv
<1>2. batch # <<>>
  BY DEF Session!Push
<1>3. /\ rest \in Seq(Change) /\ Len(batch) = Len(rest) + 1 /\ Head(batch) = batch[1]
      /\ \A i \in 1..Len(rest) : rest[i] = batch[i + 1]
  BY <1>1, <1>2 DEF Session!TypeOK
<1>4. /\ session = "flush" /\ batch' = rest
      /\ pushed' = [pushed EXCEPT ![batch[1]] = @ + 1]
      /\ UNCHANGED <<session, pending, committed, reported, fate, savepoint, lost, cancels>>
  BY <1>3 DEF Session!Push, Session!faults
<1> HIDE DEF rest
<1>a. Len(rest) \in Nat /\ \A i \in 1..Len(batch) : batch[i] \in Change
  BY <1>1, <1>3 DEF Session!TypeOK
<1>b. batch[1] \in Change /\ fate[batch[1]] \in Landed
  BY <1>3, <1>a DEF SessionInv, OnlyLandedIsPushed
<1>c. \A v \in Change : pushed'[v] = IF v = batch[1] THEN pushed[v] + 1 ELSE pushed[v]
  BY <1>1, <1>4 DEF Session!TypeOK
<1>5. Session!TypeOK'
  BY <1>1, <1>3, <1>4, <1>b DEF Session!TypeOK
<1>6. ListIsSplit' /\ OpenIsListed'
  BY <1>4 DEF SessionInv, ListIsSplit, OpenIsListed, Listed
<1>7. OnlyLandedIsPushed'
  <2>1. \A i \in 1..Len(rest) : fate[rest[i]] \in Landed
    <3> TAKE i \in 1..Len(rest)
    <3>1. i + 1 \in 1..Len(batch)
      BY <1>3, <1>a
    <3> QED
      BY <3>1, <1>3 DEF SessionInv, OnlyLandedIsPushed
  <2> QED
    BY <2>1, <1>4, <1>b, <1>c DEF SessionInv, OnlyLandedIsPushed
<1>8. \A v \in Change : InBatch(v) => v = batch[1] \/ InBatch(v)'
  <2> SUFFICES ASSUME NEW i \in 1..Len(batch), batch[i] # batch[1]
               PROVE  \E j \in 1..Len(rest) : rest[j] = batch[i]
    BY <1>4 DEF InBatch
  <2>1. i - 1 \in 1..Len(rest) /\ (i - 1) + 1 = i
    BY <1>3, <1>a
  <2> QED
    BY <2>1, <1>3
<1>9. CommittedIsAccounted'
  <2>1. \A v \in Change : pushed[v] \in Nat
    BY <1>1 DEF Session!TypeOK
  <2> QED
    BY <2>1, <1>4, <1>8, <1>c DEF SessionInv, CommittedIsAccounted, Accounted, Listed
<1> QED
  BY <1>5, <1>6, <1>7, <1>9 DEF SessionInv

\* The events of the committed part are named, and what is still open comes to nothing.
LEMMA TeardownStep ==
  ASSUME SessionInv, Session!Teardown
  PROVE  SessionInv'
<1>1. Session!TypeOK
  BY DEF SessionInv
<1>2. /\ session \in {"idle", "open"} /\ session' = "closed"
      /\ fate' = [w \in Change |-> IF fate[w] = "open" THEN "undone" ELSE fate[w]]
      /\ UNCHANGED <<pending, committed, batch, pushed, savepoint, lost, cancels>>
  BY DEF Session!Teardown, Session!Settle, Session!faults
<1>3. reported' = {pending[i] : i \in 1..Len(pending)}
  BY <1>1 DEF Session!Teardown, Session!ToSet, Session!TypeOK
<1>4. \A i \in 1..Len(pending) : pending[i] \in Change
  BY <1>1 DEF Session!TypeOK
<1>5. savepoint = {} /\ batch = <<>>
  BY <1>2 DEF SessionInv, OpenIsListed, ListIsSplit
<1>6. Session!TypeOK'
  BY <1>1, <1>2, <1>3, <1>4 DEF Session!TypeOK
<1>7. ListIsSplit'
  <2> SUFFICES ASSUME NEW i \in 1..committed PROVE fate'[pending[i]] \in Landed
    BY <1>2, <1>5 DEF ListIsSplit
  <2>1. fate[pending[i]] \in Landed /\ pending[i] \in Change
    BY <1>1, <1>4 DEF SessionInv, ListIsSplit, Session!TypeOK
  <2> QED
    BY <2>1, <1>2 DEF Landed
<1>8. OpenIsListed'
  BY <1>2, <1>5 DEF OpenIsListed
<1>9. OnlyLandedIsPushed'
  BY <1>2, <1>5 DEF SessionInv, OnlyLandedIsPushed, Landed
<1>10. CommittedIsAccounted'
  BY <1>2, <1>3, <1>5 DEF SessionInv, CommittedIsAccounted, Accounted, Listed, InBatch
<1> QED
  BY <1>6, <1>7, <1>8, <1>9, <1>10 DEF SessionInv

\* Every step of the session keeps the invariant.
LEMMA SessionStep ==
  ASSUME SessionInv, [Session!Next]_(Session!vars)
  PROVE  SessionInv'
<1> USE DEF SessionInv, Session!TypeOK, ListIsSplit, OpenIsListed, OnlyLandedIsPushed,
      CommittedIsAccounted, Landed, Listed, InBatch, Accounted, Session!faults
<1>1. CASE Session!Begin \/ Session!BeginNested
  <2>1. /\ session \in {"idle", "open"} /\ session' \in {"open", "nested"}
        /\ UNCHANGED <<pending, committed, batch, pushed, reported, fate, savepoint, lost, cancels>>
    BY <1>1 DEF Session!Begin, Session!BeginNested
  <2>2. ListIsSplit' /\ OpenIsListed'
    BY <2>1
  <2>3. Session!TypeOK'
    BY <2>1
  <2>4. OnlyLandedIsPushed' /\ CommittedIsAccounted'
    BY <2>1
  <2> QED
    BY <2>2, <2>3, <2>4
<1>2. CASE Session!Commit
  <2>1. /\ session = "open" /\ session' = "idle" /\ committed' = Len(pending)
        /\ fate' = [w \in Change |-> IF fate[w] = "open" THEN "committed" ELSE fate[w]]
        /\ UNCHANGED <<pending, batch, pushed, reported, savepoint, lost, cancels>>
    BY <1>2 DEF Session!Commit, Session!Settle, Session!MarkCommitted
  <2>2. batch = <<>> /\ savepoint = {} /\ Len(pending) \in Nat /\ committed \in 0..Len(pending)
    BY <2>1
  <2>3. ListIsSplit'
    <3> SUFFICES ASSUME NEW i \in 1..Len(pending) PROVE fate'[pending[i]] \in Landed
      BY <2>1, <2>2
    <3>1. pending[i] \in Change
      BY <2>2
    <3>2. i \in 1..committed \/ i \in (committed + 1)..Len(pending)
      BY <2>2
    <3>3. fate[pending[i]] \in {"open", "committed", "undone_nested"}
      BY <2>1, <3>2
    <3> QED
      BY <2>1, <3>1, <3>3
  <2>4. OpenIsListed' /\ OnlyLandedIsPushed'
    BY <2>1, <2>2
  <2>5. CommittedIsAccounted'
    BY <2>1, <2>2
  <2>6. Session!TypeOK'
    BY <2>1, <2>2
  <2> QED
    BY <2>3, <2>4, <2>5, <2>6
<1>3. CASE Session!Rollback
  <2>1. Session!Settle("undone") /\ lost' = lost
    BY <1>3 DEF Session!Rollback
  <2> QED
    BY <1>3, <2>1, DiscardStep DEF Session!Rollback, Session!InTransaction
<1>4. CASE Session!CommitLost
  <2>1. session = "open" /\ session' = "idle" /\ savepoint' = {} /\ Session!Discard
    BY <1>4 DEF Session!CommitLost
  <2>2. lost \in Nat /\ lost' = lost + 1 /\ lost' \in 0..Lost
    BY <1>4, RequestsAssumption DEF Session!CommitLost, RequestsAssumption, Session!GuardAssumption
  <2>3. PICK outcome \in {"committed", "undone"} : Session!Settle(outcome)
    BY <1>4 DEF Session!CommitLost
  <2>4. UNCHANGED <<committed, batch, pushed, reported, cancels>> /\ lost' # 0
    BY <1>4, <2>2 DEF Session!CommitLost
  <2> HIDE DEF SessionInv
  <2> QED
    BY <2>1, <2>2, <2>3, <2>4, DiscardStep
<1>5. CASE Session!Release
  BY <1>5 DEF Session!Release, Session!MarkCommitted
<1>6. CASE Session!RollbackNested
  BY <1>6 DEF Session!RollbackNested
<1>7. CASE Session!Flush
  BY <1>7 DEF Session!Flush, Session!Drain
<1>8. CASE Session!Flushed
  BY <1>8 DEF Session!Flushed
<1>9. CASE Session!Cancelled
  BY <1>9, RequestsAssumption DEF Session!Cancelled, RequestsAssumption, Session!GuardAssumption
<1>10. CASE Session!Done \/ UNCHANGED Session!vars
  <2>1. UNCHANGED <<session, pending, committed, batch, pushed, reported, fate, savepoint, lost, cancels>>
    BY <1>10 DEF Session!Done, Session!vars
  <2> QED
    BY <2>1
<1> HIDE DEF SessionInv
<1> QED
  BY WriteStep, PushStep, TeardownStep, <1>1, <1>2, <1>3, <1>4, <1>5, <1>6, <1>7, <1>8, <1>9, <1>10
  DEF Session!Next

\* So it always holds.
LEMMA SessionInvariant == Session!Spec => []SessionInv
<1>1. Session!Init => SessionInv
  BY RequestsAssumption DEF Session!Init, SessionInv, Session!TypeOK, RequestsAssumption,
     Session!GuardAssumption,
     ListIsSplit, OpenIsListed, OnlyLandedIsPushed, CommittedIsAccounted
<1> QED
  BY <1>1, SessionStep, PTL DEF Session!Spec

\* Whatever the caller commits, rolls back, nests, flushes or forgets, for any number of
\* writes: what is committed is pushed or named at teardown (session_guards.py).
THEOREM CommittedIsHeardOf == Session!Spec => []LossIsNoisy
<1>1. SessionInv => LossIsNoisy
  <2> SUFFICES ASSUME SessionInv, session = "closed", lost = 0, cancels = 0,
                      NEW w \in Change, fate[w] = "committed"
               PROVE  pushed[w] > 0 \/ w \in reported
    BY DEF LossIsNoisy, Session!LossIsNoisy
  <2>1. batch = <<>>
    BY DEF SessionInv, ListIsSplit
  <2> QED
    BY <2>1 DEF SessionInv, CommittedIsAccounted, Accounted, InBatch
<1> QED
  BY <1>1, SessionInvariant, PTL

\* No flush pushes what a rollback of its transaction undid
\* (_discard_pending_status_on_rollback).
THEOREM OnlyLandedStatusIsPushed == Session!Spec => []UndoneIsNotPushed
<1>1. SessionInv => UndoneIsNotPushed
  BY DEF SessionInv, OnlyLandedIsPushed, Landed, UndoneIsNotPushed, Session!UndoneIsNotPushed
<1> QED
  BY <1>1, SessionInvariant, PTL

\* The list, its committed part and the fates keep their types.
THEOREM SessionTypeCorrect == Session!Spec => []Session!TypeOK
<1>1. SessionInv => Session!TypeOK
  BY DEF SessionInv
<1> QED
  BY <1>1, SessionInvariant, PTL

-----------------------------------------------------------------------------
(* PATCHes of one mailbox: MailboxPatch                                    *)

Login == [where : Where, imap : Password, smtp : Password]

\* Both passwords of a row have passed a probe.
KnownPasswords(r) ==
  /\ \E l \in probed : l.imap = r.imap
  /\ r.smtp # None => \E l \in probed : l.smtp = r.smtp

SameLogin(r, s) == r.where = s.where /\ r.imap = s.imap /\ r.smtp = s.smtp

\* Inductive.  A request loaded a row whose passwords had passed; when nobody overtook it,
\* the row still has that login; and when it comes to write with a new password, the login
\* it tried has passed.
PatchInv ==
  /\ Patch!TypeOK /\ DOMAIN request = Request
  /\ KnownPasswords(row)
  /\ \A q \in Request : Patch!Stage(q) # "idle" =>
       /\ KnownPasswords(request[q].loaded)
       /\ q \notin overtaken => SameLogin(request[q].loaded, row)
       /\ Patch!Stage(q) = "write" /\ Patch!CredsChanged(request[q].payload) =>
            Patch!Tried(q) \in probed

\* What a probe tries is a login.
LEMMA TriedIsLogin ==
  ASSUME PatchInv, NEW q \in Request, Patch!Stage(q) # "idle"
  PROVE  Patch!Tried(q) \in Login
<1>1. None \notin Where /\ None \notin Password
  BY RequestsAssumption DEF RequestsAssumption, Patch!PatchAssumption
<1>2. request[q].loaded \in Patch!Row /\ request[q].payload \in Patch!Payload
  BY DEF PatchInv, Patch!TypeOK
<1> QED
  BY <1>1, <1>2 DEF Patch!Tried, Patch!Row, Patch!Payload, Patch!Given, Patch!Login, Login

\* The passwords a write leaves are the row's own, or those of the login it tried.
LEMMA UpdatedIsKnown ==
  ASSUME PatchInv, NEW q \in Request, Patch!Write(q)
  PROVE  row' \in Patch!Row /\ KnownPasswords(row')
<1>1. None \notin Where /\ None \notin Password /\ None \notin BOOLEAN
  BY RequestsAssumption DEF RequestsAssumption, Patch!PatchAssumption
<1>2. Patch!Stage(q) = "write"
  BY DEF Patch!Write
<1> DEFINE p == request[q].payload
           old == request[q].loaded
<1>3. old \in Patch!Row /\ p \in Patch!Payload /\ row \in Patch!Row
  BY <1>2 DEF PatchInv, Patch!TypeOK
<1>4. CASE ~Patch!HasAccountFields(p)
  BY <1>1, <1>3, <1>4 DEF Patch!Write, Patch!Updated, Patch!Row, Patch!Payload, Patch!Given,
     PatchInv, KnownPasswords
<1>5. CASE Patch!HasAccountFields(p)
  <2>1. row' = [where |-> Patch!Given(p.where, old.where), imap |-> Patch!Given(p.imap, row.imap),
                smtp |-> Patch!Given(p.smtp, row.smtp),
                active |-> Patch!Given(p.active, row.active \/ Patch!CredsChanged(p))]
    BY <1>3, <1>5 DEF Patch!Write, Patch!Updated, Patch!Row
  <2>2. row' \in Patch!Row
    BY <1>1, <1>3, <2>1 DEF Patch!Row, Patch!Payload, Patch!Given, Patch!CredsChanged
  <2>3. CASE ~Patch!CredsChanged(p)
    BY <2>1, <2>2, <2>3 DEF Patch!CredsChanged, Patch!Given, PatchInv, KnownPasswords
  <2>4. CASE Patch!CredsChanged(p)
    <3>1. Patch!Tried(q) \in probed
      BY <1>2, <2>4 DEF PatchInv
    <3>2. /\ p.imap # None => Patch!Tried(q).imap = row'.imap
          /\ p.smtp # None => Patch!Tried(q).smtp = row'.smtp
      BY <2>1 DEF Patch!Tried, Patch!Login, Patch!Given
    <3> QED
      BY <2>1, <2>2, <3>1, <3>2 DEF Patch!Given, PatchInv, KnownPasswords
  <2> QED
    BY <2>2, <2>3, <2>4
<1> QED
  BY <1>4, <1>5

\* Every step of the requests and of the worker keeps the invariant.
LEMMA PatchStep ==
  ASSUME PatchInv, [Patch!Next]_(Patch!vars)
  PROVE  PatchInv'
<1> USE DEF Patch!Stage
<1>a. None \notin Where /\ None \notin Password /\ None \notin BOOLEAN /\ MaxPatches \in Nat
  BY RequestsAssumption DEF RequestsAssumption, Patch!PatchAssumption
<1>1. ASSUME NEW q \in Request, NEW p \in Patch!Payload, Patch!Begin(q, p) PROVE PatchInv'
  BY <1>a, <1>1 DEF PatchInv, Patch!TypeOK, Patch!Begin, KnownPasswords, SameLogin, Patch!Tried
<1>2. ASSUME NEW q \in Request, Patch!ProbePasses(q) PROVE PatchInv'
  BY <1>a, <1>2, TriedIsLogin DEF PatchInv, Patch!TypeOK, Patch!ProbePasses, KnownPasswords,
     SameLogin, Patch!Tried, Login
<1>3. ASSUME NEW q \in Request, Patch!RequestFails(q) PROVE PatchInv'
  BY <1>a, <1>3 DEF PatchInv, Patch!TypeOK, Patch!RequestFails, KnownPasswords, SameLogin,
     Patch!Tried
<1>4. ASSUME NEW q \in Request, Patch!Write(q) PROVE PatchInv'
  <2>1. /\ request' = [request EXCEPT ![q] = None]
        /\ overtaken' = IF Patch!HasAccountFields(request[q].payload) THEN Request \ {q} ELSE overtaken
        /\ patches' = patches /\ probed' = probed
    BY <1>4 DEF Patch!Write
  <2>2. ~Patch!HasAccountFields(request[q].payload) => SameLogin(row', row)
    BY <1>4 DEF Patch!Write, Patch!Updated, PatchInv, Patch!TypeOK, Patch!Row, SameLogin
  <2>3. row' \in Patch!Row /\ KnownPasswords(row)'
    BY <1>4, <2>1, UpdatedIsKnown DEF KnownPasswords
  <2>4. Patch!TypeOK' /\ DOMAIN request' = Request
    BY <2>1, <2>3 DEF PatchInv, Patch!TypeOK
  <2> SUFFICES ASSUME NEW r \in Request, Patch!Stage(r)' # "idle"
               PROVE  (/\ KnownPasswords(request[r].loaded)
                       /\ r \notin overtaken => SameLogin(request[r].loaded, row)
                       /\ Patch!Stage(r) = "write" /\ Patch!CredsChanged(request[r].payload) =>
                            Patch!Tried(r) \in probed)'
    BY <2>3, <2>4 DEF PatchInv
  <2>5. r # q /\ request'[r] = request[r]
    BY <2>1 DEF PatchInv
  <2>6. r \notin overtaken' => r \notin overtaken /\ SameLogin(row', row)
    BY <2>1, <2>2, <2>5
  <2> QED
    BY <2>1, <2>5, <2>6 DEF PatchInv, KnownPasswords, SameLogin, Patch!Tried
<1>5. CASE Patch!Disable
  BY <1>5 DEF PatchInv, Patch!TypeOK, Patch!Disable, KnownPasswords, SameLogin, Patch!Tried,
     Patch!Row
<1>6. CASE UNCHANGED Patch!vars
  BY <1>6 DEF PatchInv, Patch!TypeOK, Patch!vars, KnownPasswords, SameLogin, Patch!Tried
<1> QED
  BY <1>1, <1>2, <1>3, <1>4, <1>5, <1>6 DEF Patch!Next

\* So it always holds.
LEMMA PatchInvariant == Patch!Spec => []PatchInv
<1>1. Patch!Init => PatchInv
  <2> SUFFICES ASSUME Patch!Init PROVE PatchInv
    OBVIOUS
  <2>1. None \notin Password /\ MaxPatches \in Nat
    BY RequestsAssumption DEF RequestsAssumption, Patch!PatchAssumption
  <2>2. row \in Patch!Row /\ row.smtp \in Password \union {None}
    BY DEF Patch!Init, Patch!Row
  <2>3. Patch!Used(row) \in Login /\ probed = {Patch!Used(row)}
    BY <2>1, <2>2 DEF Patch!Init, Patch!Used, Patch!Login, Patch!Given, Patch!Row, Login
  <2>4. KnownPasswords(row)
    BY <2>3 DEF KnownPasswords, Patch!Used, Patch!Login, Patch!Given
  <2> QED
    BY <2>1, <2>2, <2>3, <2>4 DEF Patch!Init, PatchInv, Patch!TypeOK, Patch!Stage, Login
<1> QED
  BY <1>1, PatchStep, PTL DEF Patch!Spec

\* However many PATCHes of a mailbox overlap: no password is stored that no probe has
\* accepted (MailAccountService.update).
THEOREM StoredPasswordsWereProbed == Patch!Spec => []PasswordsWereProbed
<1>1. PatchInv => PasswordsWereProbed
  BY DEF PatchInv, KnownPasswords, PasswordsWereProbed, Patch!PasswordsWereProbed
<1> QED
  BY <1>1, PatchInvariant, PTL

\* A PATCH with a password that nobody overtook leaves the login it has probed, stored
\* passwords it fell back on included.
THEOREM UnrivalledPatchLeavesProbedLogin == Patch!Spec => UnrivalledPatchIsProbed
<1>1. ASSUME PatchInv, [Patch!Next]_(Patch!vars), NEW q \in Request, Patch!Reenables(q), q \notin overtaken
      PROVE  Patch!Used(row') \in probed
  <2>1. /\ Patch!Stage(q) = "write" /\ row' # row /\ Patch!Stage(q)' = "idle"
        /\ Patch!CredsChanged(request[q].payload)
    BY <1>1 DEF Patch!Reenables, Patch!Commits
  <2>2. Patch!Write(q)
    <3>1. ~Patch!Disable /\ ~UNCHANGED Patch!vars
      BY <2>1 DEF Patch!Disable, Patch!vars, Patch!Stage
    <3>2. \A r \in Request : ~Patch!ProbePasses(r) /\ ~Patch!RequestFails(r)
      BY <2>1 DEF Patch!ProbePasses, Patch!RequestFails
    <3>3. \A r \in Request, p \in Patch!Payload : ~Patch!Begin(r, p)
      BY <2>1 DEF Patch!Begin
    <3>4. PICK r \in Request : Patch!Write(r)
      BY <1>1, <3>1, <3>2, <3>3 DEF Patch!Next
    <3>5. r = q
      BY <2>1, <3>4 DEF Patch!Write, Patch!Stage
    <3> QED
      BY <3>4, <3>5
  <2> DEFINE p == request[q].payload
             old == request[q].loaded
  <2>3. None \notin Where /\ None \notin Password
    BY RequestsAssumption DEF RequestsAssumption, Patch!PatchAssumption
  <2>4. old \in Patch!Row /\ p \in Patch!Payload /\ row \in Patch!Row
    BY <1>1, <2>1 DEF PatchInv, Patch!TypeOK
  <2>5. /\ row'.where = Patch!Given(p.where, old.where)
        /\ row'.imap = Patch!Given(p.imap, row.imap)
        /\ row'.smtp = Patch!Given(p.smtp, row.smtp)
    BY <2>1, <2>2, <2>4 DEF Patch!Write, Patch!Updated, Patch!HasAccountFields, Patch!Row
  <2>6. Patch!Tried(q) \in probed /\ SameLogin(old, row)
    BY <1>1, <2>1 DEF PatchInv
  <2>7. Patch!Used(row') = Patch!Tried(q)
    BY <2>3, <2>4, <2>5, <2>6 DEF Patch!Used, Patch!Tried, Patch!Login, Patch!Given, SameLogin,
       Patch!Payload
  <2> QED
    BY <2>6, <2>7
<1>2. PatchInv /\ [Patch!Next]_(Patch!vars) =>
        [\A q \in Request : Patch!Reenables(q) /\ q \notin overtaken
            => Patch!Used(row') \in probed]_(Patch!vars)
  BY <1>1
<1> QED
  BY <1>2, PatchInvariant, PTL DEF Patch!Spec, UnrivalledPatchIsProbed,
     Patch!UnrivalledPatchIsProbed

\* The row and the requests keep their types: the IMAP password is never NULL
\* (ck_mail_accounts_password_creds).
THEOREM PatchTypeCorrect == Patch!Spec => []Patch!TypeOK
<1>1. PatchInv => Patch!TypeOK
  BY DEF PatchInv
<1> QED
  BY <1>1, PatchInvariant, PTL

-----------------------------------------------------------------------------
(* A letter and its repetition: SendTransport                              *)

\* The answers that say the letter was not sent.
ClearFailures == {"not_found", "oauth_reconsent_required", "invalid_host"}

\* Where a request stands before it offers the letter to the SMTP server.
BeforeData ==
  {"new", "token", "smtp_host", "smtp_token", "smtp_connect", "smtp_starttls", "smtp_auth"}

\* Inductive.  The thread of a request starts with its append and may outlive it, and has
\* not stored a copy while it is before its APPEND.
SendInv ==
  /\ Send!TypeOK
  /\ \A r \in Request :
       /\ at[r] \in BeforeData => r \notin delivered
       /\ answer[r] \in ClearFailures => r \notin delivered /\ at[r] = "over"
       /\ at[r] \notin {"over", "append", "commit"} => thread[r] = "none"
       /\ thread[r] \in {"none", "login", "append"} => copies[r] = 0
       /\ copies[r] <= 1

\* Every step of requests, threads, callers and time keeps the invariant.
LEMMA SendStep ==
  ASSUME SendInv, [Send!Next]_(Send!vars)
  PROVE  SendInv'
<1>a. Folders \in Nat \ {0} /\ Phase \in Nat \ {0}
  BY RequestsAssumption DEF RequestsAssumption, Send!SendAssumption
<1> USE <1>a DEF SendInv, Send!TypeOK, Send!mailbox, Send!append, Send!clocks, Send!Await,
        Send!Reply,
      Send!Answers, Send!Active, Send!SmtpPhases, BeforeData, ClearFailures
<1>1. ASSUME NEW r \in Request, Send!SendFromMailbox(r) PROVE SendInv'
  BY <1>1 DEF Send!SendFromMailbox, Send!MayAsk
<1>2. ASSUME NEW r \in Request, Send!TokenAnswered(r) PROVE SendInv'
  <2>1. CASE /\ at' = [at EXCEPT ![r] = IF at[r] = "token" THEN "smtp_host" ELSE "smtp_connect"]
             /\ UNCHANGED <<consent, leg, reply, answer>>
    BY <1>2, <2>1 DEF Send!TokenAnswered
  <2>2. CASE consent' \in {consent, TRUE} /\ Send!Reply(r, "internal_error")
    <3>1. /\ at' = [at EXCEPT ![r] = "over"] /\ at[r] \in {"token", "smtp_token"}
          /\ answer' = [answer EXCEPT ![r] = IF @ = "none" THEN "internal_error" ELSE @]
          /\ phase' = [phase EXCEPT ![r] = 0] /\ leg' = [leg EXCEPT ![r] = 0]
          /\ reply' = [reply EXCEPT ![r] = "none"]
          /\ UNCHANGED <<kind, dead, thread, folder, copies, delivered>>
      BY <1>2, <2>2 DEF Send!TokenAnswered
    <3>2. consent \in BOOLEAN /\ consent' \in BOOLEAN /\ dead \in BOOLEAN
      BY <2>2, Zenon
    <3>3. at' \in [Request -> {"new", "over"} \union Send!Active]
      BY <3>1
    <3>4. answer' \in [Request -> Send!Answers]
      BY <3>1
    <3>5. Send!TypeOK'
      BY <3>1, <3>2, <3>3, <3>4
    <3>6. r \notin delivered /\ thread[r] = "none" /\ copies[r] = 0
      BY <3>1
    <3> QED
      BY <3>1, <3>5, <3>6
  <2> QED
    BY <1>2, <2>1, <2>2 DEF Send!TokenAnswered
<1>3. ASSUME NEW r \in Request, Send!SmtpHostResolved(r) PROVE SendInv'
  BY <1>3 DEF Send!SmtpHostResolved
<1>4. ASSUME NEW r \in Request, Send!PhaseEnds(r) PROVE SendInv'
  BY <1>4 DEF Send!PhaseEnds
<1>5. ASSUME NEW r \in Request, Send!Accept(r) PROVE SendInv'
  BY <1>5 DEF Send!Accept
<1>6. ASSUME NEW r \in Request, Send!Accepted(r) PROVE SendInv'
  BY <1>6 DEF Send!Accepted, Send!Quit
<1>7. ASSUME NEW r \in Request, Send!PhaseFails(r) PROVE SendInv'
  BY <1>7 DEF Send!PhaseFails, Send!Quit
<1>8. ASSUME NEW r \in Request, Send!QuitAnswered(r) PROVE SendInv'
  BY <1>8 DEF Send!QuitAnswered, Send!Leave
<1>9. ASSUME NEW r \in Request, Send!QuitFails(r) PROVE SendInv'
  BY <1>9 DEF Send!QuitFails, Send!Leave
<1>10. ASSUME NEW r \in Request, Send!AppendHostResolved(r) PROVE SendInv'
  BY <1>10 DEF Send!AppendHostResolved
<1>11. ASSUME NEW r \in Request, Send!AppendTimesOut(r) PROVE SendInv'
  BY <1>11 DEF Send!AppendTimesOut
<1> USE DEF Send!ThreadMoves, Send!request
<1>12. ASSUME NEW r \in Request, Send!ThreadLogsIn(r) PROVE SendInv'
  BY <1>12 DEF Send!ThreadLogsIn
<1>13. ASSUME NEW r \in Request, Send!Store(r) PROVE SendInv'
  BY <1>13 DEF Send!Store
<1>14. ASSUME NEW r \in Request, Send!FolderRefused(r) PROVE SendInv'
  BY <1>14 DEF Send!FolderRefused
<1>15. ASSUME NEW r \in Request, Send!AppendAnswered(r) PROVE SendInv'
  BY <1>15 DEF Send!AppendAnswered
<1>16. ASSUME NEW r \in Request, Send!ThreadFails(r) PROVE SendInv'
  BY <1>16 DEF Send!ThreadFails
<1>17. ASSUME NEW r \in Request, Send!LoggedOut(r) PROVE SendInv'
  BY <1>17 DEF Send!LoggedOut
<1>17a. ASSUME NEW r \in Request, Send!Committed(r) PROVE SendInv'
  BY <1>17a DEF Send!Committed
<1>18. ASSUME NEW r \in Request, Send!CallerGivesUp(r) PROVE SendInv'
  BY <1>18 DEF Send!CallerGivesUp
<1>19. CASE Send!Revoke \/ Send!ConsentChanges
  BY <1>19 DEF Send!Revoke, Send!ConsentChanges
<1>20. CASE Send!Tick
  BY <1>20 DEF Send!Tick, Send!Later, Send!TimerDue, Send!Talking
<1>21. CASE UNCHANGED Send!vars
  BY <1>21 DEF Send!vars
<1> QED
  BY <1>1, <1>2, <1>3, <1>4, <1>5, <1>6, <1>7, <1>8, <1>9, <1>10, <1>11, <1>12, <1>13, <1>14,
     <1>15, <1>16, <1>17, <1>17a, <1>18, <1>19, <1>20, <1>21 DEF Send!Next, Send!RequestStep, Send!ThreadStep

\* So it always holds.
LEMMA SendInvariant == Send!Spec => []SendInv
<1>1. Send!Init => SendInv
  <2>1. Folders \in Nat \ {0} /\ Phase \in Nat \ {0}
    BY RequestsAssumption DEF RequestsAssumption, Send!SendAssumption
  <2>2. 0 \in 0..Phase /\ 0 \in 0..Phase + 1 /\ 1 \in 1..Folders
    BY <2>1
  <2> SUFFICES ASSUME Send!Init PROVE SendInv
    OBVIOUS
  <2>3. Send!TypeOK
    BY <2>2 DEF Send!Init, Send!TypeOK, Send!Answers, Send!Active
  <2> QED
    BY <2>3 DEF Send!Init, SendInv, BeforeData, ClearFailures
<1> QED
  BY <1>1, SendStep, PTL DEF Send!Spec

\* 404, 409 and 422 mean that the letter was not sent and never will be by this request,
\* whatever the append to Sent and the COMMIT after it run into (send_from_mailbox).
THEOREM RepeatableAnswersSentNothing == Send!Spec => []ClearFailuresSendNothing
<1>1. SendInv => ClearFailuresSendNothing
  BY DEF SendInv, ClearFailures, ClearFailuresSendNothing, Send!ClearFailuresSendNothing
<1> QED
  BY <1>1, SendInvariant, PTL

\* One send leaves one copy in Sent at most, for any number of folder candidates
\* (_imap_append_blocking).
THEOREM OneSendOneCopy == Send!Spec => []OneSentCopy
<1>1. SendInv => OneSentCopy
  BY DEF SendInv, OneSentCopy, Send!OneSentCopy
<1> QED
  BY <1>1, SendInvariant, PTL

\* The requests, their threads and their answers keep their types.
THEOREM SendTypeCorrect == Send!Spec => []Send!TypeOK
<1>1. SendInv => Send!TypeOK
  BY DEF SendInv
<1> QED
  BY <1>1, SendInvariant, PTL

-----------------------------------------------------------------------------
(* The windows of the rate limiter: RateLimit                              *)

\* The calls the window has admitted.
Admitted(b) == IF count[b] > Capacity THEN Capacity ELSE count[b]

\* What the losses of Redis in the last a ticks have made it forget at most.
Forgotten(a) == losses[a] * Capacity

\* No stretch up to a window has seen more than a full window before, what the losses in it
\* have forgotten and what this window has admitted; one that lies within this window has
\* seen what this one has admitted.
Counted(b) ==
  /\ count[b] = 0 => life[b] = Rate!Forever
  /\ \A a \in Rate!Ages :
       /\ recent[b][a] <= Capacity + Admitted(b) + Forgotten(a)
       /\ life[b] # Rate!Forever /\ a <= Rate!Lifetime - life[b] => recent[b][a] <= Admitted(b)

HistoryIsCounted == \A b \in Budget : Counted(b)

\* The counter that refused a caller lives on, and for no longer than it was told to wait.
Refused(c) ==
  /\ call[c] \in {"expire", "ttl", "refused"} => count[budget[c]] > 0
  /\ call[c] \in {"ttl", "refused"} => life[budget[c]] # Rate!Forever
  /\ call[c] = "refused" => 2 * life[budget[c]] <= 2 * wait[c] + Second

RefusedByWindow == \A c \in Client : same[c] => Refused(c)

\* Inductive.
RateInv == Rate!TypeOK /\ HistoryIsCounted /\ RefusedByWindow

\* What a quotient leaves over.
LEMMA Dividing ==
  ASSUME NEW n \in Nat, NEW d \in Nat, d > 0
  PROVE  n \div d \in Nat /\ d * (n \div d) <= n /\ n < d * (n \div d) + d
OBVIOUS

\* A product grows with its factor.
LEMMA Product ==
  ASSUME NEW s \in Nat, NEW q \in Nat, NEW w \in Nat, q <= w
  PROVE  s * q \in Nat /\ s * q <= s * w
OBVIOUS

\* A product with one factor more.
LEMMA OneTimeMore ==
  ASSUME NEW n \in Nat, NEW c \in Nat
  PROVE  n * c \in Nat /\ (n + 1) * c = n * c + c /\ (2 + n) * c = 2 * c + n * c
OBVIOUS

\* What is forgotten is a number, and more with a loss only.
LEMMA ForgottenFacts ==
  ASSUME Rate!TypeOK, Capacity \in Nat
  PROVE  /\ \A a \in Rate!Ages : Forgotten(a) \in Nat
         /\ losses' = losses => \A a \in Rate!Ages : Forgotten(a)' = Forgotten(a)
BY OneTimeMore DEF Rate!TypeOK, Forgotten

\* The numbers the limiter is configured with.
LEMMA RateFacts ==
  /\ Capacity \in Nat /\ Capacity > 0 /\ Window \in Nat /\ Window > 0
  /\ Second \in Nat /\ Second > 0 /\ Outages \in Nat
  /\ Rate!Lifetime \in Nat /\ Rate!Lifetime > 0 /\ Rate!Forever = Rate!Lifetime + 1
  /\ Rate!Ages = 1..Rate!Lifetime
<1>1. \A m, n \in Nat : m > 0 /\ n > 0 => m * n \in Nat /\ m * n > 0
  OBVIOUS
<1> QED
  BY <1>1, RecurringAssumption DEF RecurringAssumption, Rate!LimitAssumption, Rate!Lifetime,
     Rate!Forever, Rate!Ages

\* What a refused caller is told lasts as long as the counter, but for the half second
\* by which TTL rounds down, and no longer than a window.
LEMMA TtlCovers ==
  ASSUME NEW k \in Budget, Rate!TypeOK, count[k] > 0, life[k] # Rate!Forever,
         NEW w, w = Second * Rate!RetryAfter(Rate!Ttl(k))
  PROVE  w \in 0..Rate!Lifetime /\ 2 * life[k] <= 2 * w + Second
<1> DEFINE t == (2 * life[k] + Second) \div (2 * Second)
<1>1. life[k] \in 1..Rate!Lifetime /\ count[k] # 0
  BY RateFacts DEF Rate!TypeOK
<1>2. Rate!Ttl(k) = t
  BY <1>1 DEF Rate!Ttl
<1>3. /\ t \in Nat /\ (2 * Second) * t <= 2 * life[k] + Second
      /\ 2 * life[k] + Second < (2 * Second) * t + 2 * Second
  <2>1. 2 * life[k] + Second \in Nat /\ 2 * Second \in Nat /\ 2 * Second > 0
    BY <1>1, RateFacts
  <2> QED
    BY <2>1, Dividing
<1> HIDE DEF t
<1>4. (2 * Second) * t = 2 * (Second * t) /\ Second * t \in Nat
  BY <1>3, RateFacts
<1>5. Rate!Lifetime = Second * Window
  BY RateFacts DEF Rate!Lifetime
<1>6. CASE t > 0
  <2>1. w = Second * t
    BY <1>2, <1>6 DEF Rate!RetryAfter
  <2>2. t <= Window
    <3> SUFFICES ASSUME t >= Window + 1 PROVE FALSE
      BY <1>3, RateFacts
    <3>1. Second * t >= Second * (Window + 1) /\ Second * (Window + 1) = Second * Window + Second
      BY <1>3, RateFacts, Product
    <3>2. \A st, lt, lf, s \in Nat :
            2 * st <= 2 * lf + s /\ lf <= lt /\ st >= lt + s /\ s > 0 => FALSE
      OBVIOUS
    <3>3. /\ Second * t \in Nat /\ 2 * (Second * t) <= 2 * life[k] + Second
          /\ Second * t >= Rate!Lifetime + Second
      BY <3>1, <1>3, <1>4, <1>5, Zenon
    <3> QED
      BY <3>2, <3>3, <1>1, RateFacts
  <2>3. Second * t \in Nat /\ Second * t <= Rate!Lifetime
    BY <2>2, <1>3, <1>5, RateFacts, Product
  <2>4. 2 * life[k] + Second < 2 * (Second * t) + 2 * Second
    BY <1>3, <1>4, Zenon
  <2>5. \A st, lf, s \in Nat : 2 * lf + s < 2 * st + 2 * s => 2 * lf <= 2 * st + s
    OBVIOUS
  <2>6. 2 * life[k] <= 2 * (Second * t) + Second
    BY <2>3, <2>4, <2>5, <1>1, RateFacts
  <2> QED
    BY <2>1, <2>3, <2>6, RateFacts
<1>7. CASE ~(t > 0)
  BY <1>1, <1>2, <1>5, <1>7, RateFacts DEF Rate!RetryAfter
<1> QED
  BY <1>6, <1>7

\* An INCR admits one call more, or none.
LEMMA IncrStep ==
  ASSUME RateInv, NEW c \in Client, Rate!Incr(c)
  PROVE  RateInv'
<1> DEFINE b == budget[c]
           n == Rate!OneMore(count[b])
<1>1. /\ b \in Budget /\ count[b] \in 0..(Capacity + 1) /\ Capacity \in Nat
      /\ \A k \in Budget, a \in Rate!Ages : recent[k][a] \in Nat
  BY RateFacts DEF RateInv, Rate!TypeOK
<1>2. n \in 1..(Capacity + 1) /\ n >= count[b] /\ (n <= Capacity => n = count[b] + 1)
  BY <1>1 DEF Rate!OneMore
<1>3. /\ call[c] = "incr" /\ call' = [call EXCEPT ![c] = "expire"]
      /\ count' = [count EXCEPT ![b] = n] /\ got' = [got EXCEPT ![c] = n]
      /\ recent' = IF n > Capacity THEN recent
                   ELSE [recent EXCEPT ![b] = [a \in Rate!Ages |-> @[a] + 1]]
      /\ same' = [same EXCEPT ![c] = n > Capacity]
      /\ UNCHANGED <<life, budget, wait, losses, outages>>
  BY DEF Rate!Incr, Rate!Over
<1>f. \A a \in Rate!Ages : Forgotten(a) \in Nat /\ Forgotten(a)' = Forgotten(a)
  BY <1>1, <1>3, ForgottenFacts DEF RateInv
<1> HIDE DEF b, n
<1>4. Rate!TypeOK'
  <2>1. recent' \in [Budget -> [Rate!Ages -> Nat]]
    BY <1>1, <1>3 DEF RateInv, Rate!TypeOK
  <2>2. same' \in [Client -> BOOLEAN]
    BY <1>3 DEF RateInv, Rate!TypeOK
  <2> QED
    BY <1>1, <1>2, <1>3, <2>1, <2>2 DEF RateInv, Rate!TypeOK
<1>5. HistoryIsCounted'
  <2> SUFFICES ASSUME NEW k \in Budget
               PROVE  Counted(k)'
    BY DEF HistoryIsCounted
  <2>a. Counted(k) /\ k \in Budget
    BY DEF RateInv, HistoryIsCounted
  <2>1. CASE k # b
    BY <2>1, <2>a, <1>3, <1>f DEF RateInv, Rate!TypeOK, Counted, Admitted
  <2>2. CASE k = b
    <3>1. count'[k] = n
      BY <2>2, <1>3 DEF RateInv, Rate!TypeOK
    <3>2. CASE n > Capacity
      <4>1. Admitted(k)' >= Admitted(k) /\ Admitted(k) \in Nat /\ Admitted(k)' \in Nat
        BY <2>2, <3>1, <3>2, <1>1, <1>2 DEF Admitted
      <4>2. recent' = recent /\ life' = life /\ count'[k] # 0
        BY <3>1, <3>2, <1>1, <1>2, <1>3
      <4>3. ASSUME NEW a \in Rate!Ages
            PROVE  (/\ recent[k][a] <= Capacity + Admitted(k) + Forgotten(a)
                    /\ life[k] # Rate!Forever /\ a <= Rate!Lifetime - life[k] =>
                         recent[k][a] <= Admitted(k))'
        <5>1. /\ recent[k][a] <= Capacity + Admitted(k) + Forgotten(a)
              /\ life[k] # Rate!Forever /\ a <= Rate!Lifetime - life[k] =>
                   recent[k][a] <= Admitted(k)
          BY <2>a DEF Counted
        <5>2. recent[k][a] \in Nat /\ Forgotten(a) \in Nat /\ Forgotten(a)' = Forgotten(a)
          BY <2>a, <1>1, <1>f
        <5> QED
          BY <4>1, <4>2, <5>1, <5>2, RateFacts
      <4> QED
        BY <4>2, <4>3, Zenon DEF Counted
    <3>3. CASE n <= Capacity
      <4>1. Admitted(k)' = Admitted(k) + 1 /\ Admitted(k) \in Nat
        BY <2>2, <3>1, <3>3, <1>1, <1>2 DEF Admitted
      <4>2. \A a \in Rate!Ages : recent'[k][a] = recent[k][a] + 1
        BY <2>2, <3>3, <1>1, <1>2, <1>3 DEF RateInv, Rate!TypeOK
      <4>3. UNCHANGED life /\ count'[k] # 0
        BY <3>1, <1>2, <1>3
      <4>4. \A a \in Rate!Ages : recent[k][a] \in Nat
        BY <1>1
      <4>5. \A a \in Rate!Ages : recent'[k][a] <= Capacity + Admitted(k)' + Forgotten(a)'
        <5>1. \A a \in Rate!Ages : recent[k][a] <= Capacity + Admitted(k) + Forgotten(a)
          BY <2>a, Zenon DEF Counted
        <5> SUFFICES ASSUME NEW a \in Rate!Ages
                     PROVE  recent'[k][a] <= Capacity + Admitted(k)' + Forgotten(a)'
          OBVIOUS
        <5>2. /\ recent[k][a] <= Capacity + Admitted(k) + Forgotten(a)
              /\ recent[k][a] \in Nat /\ recent'[k][a] = recent[k][a] + 1
              /\ Forgotten(a) \in Nat /\ Forgotten(a)' = Forgotten(a)
          BY <5>1, <4>2, <4>4, <1>f
        <5> QED
          BY <5>2, <4>1, RateFacts
      <4>6. \A a \in Rate!Ages :
              life[k] # Rate!Forever /\ a <= Rate!Lifetime - life[k] =>
                recent'[k][a] <= Admitted(k)'
        <5>1. \A a \in Rate!Ages :
                life[k] # Rate!Forever /\ a <= Rate!Lifetime - life[k] =>
                  recent[k][a] <= Admitted(k)
          BY <2>a, Zenon DEF Counted
        <5> QED
          BY <5>1, <4>1, <4>2, <4>4
      <4> QED
        BY <4>3, <4>5, <4>6, Zenon DEF Counted
    <3> QED
      BY <3>2, <3>3, <1>1, <1>2
  <2> QED
    BY <2>1, <2>2
<1>6. RefusedByWindow'
  <2> SUFFICES ASSUME NEW d \in Client, same'[d] PROVE Refused(d)'
    BY DEF RefusedByWindow
  <2>1. CASE d = c
    <3>1. call'[d] = "expire" /\ budget'[d] = b /\ count'[b] = n /\ n > 0
      BY <2>1, <1>1, <1>2, <1>3 DEF RateInv, Rate!TypeOK, b
    <3> QED
      BY <3>1 DEF Refused
  <2>2. CASE d # c
    <3>1. Refused(d) /\ budget[d] \in Budget /\ count[budget[d]] \in Nat
      BY <2>2, <1>3, RateFacts DEF RateInv, Rate!TypeOK, RefusedByWindow
    <3>2. count[budget[d]] > 0 => count'[budget[d]] > 0
      BY <3>1, <1>1, <1>2, <1>3 DEF RateInv, Rate!TypeOK
    <3>3. call'[d] = call[d] /\ UNCHANGED <<life, budget, wait>>
      BY <2>2, <1>3 DEF RateInv, Rate!TypeOK
    <3> QED
      BY <3>1, <3>2, <3>3 DEF Refused
  <2> QED
    BY <2>1, <2>2
<1> QED
  BY <1>4, <1>5, <1>6 DEF RateInv

\* EXPIRE NX starts a window that has no end yet, and moves no end that is set.
LEMMA ExpireStep ==
  ASSUME RateInv, NEW c \in Client, Rate!Expire(c)
  PROVE  RateInv'
<1> DEFINE b == budget[c]
<1>1. b \in Budget
  BY DEF RateInv, Rate!TypeOK
<1>2. /\ call[c] = "expire" /\ \E to \in {"ttl", "admitted"} : call' = [call EXCEPT ![c] = to]
      /\ \/ count[b] > 0 /\ life[b] = Rate!Forever /\ life' = [life EXCEPT ![b] = Rate!Lifetime]
         \/ ~(count[b] > 0 /\ life[b] = Rate!Forever) /\ life' = life
      /\ UNCHANGED <<count, budget, got, wait, same, recent, losses, outages>>
  BY DEF Rate!Expire, Rate!SetsTtl, Rate!Lasting, Rate!history
<1> HIDE DEF b
<1>a. life' \in [Budget -> 1..Rate!Forever] /\ \A k \in Budget : life'[k] # life[k] =>
          /\ count[k] > 0 /\ life[k] = Rate!Forever /\ life'[k] = Rate!Lifetime
  <2>1. CASE life' = life
    BY <2>1 DEF RateInv, Rate!TypeOK
  <2>2. CASE count[b] > 0 /\ life[b] = Rate!Forever /\ life' = [life EXCEPT ![b] = Rate!Lifetime]
    BY <1>1, <2>2, RateFacts DEF RateInv, Rate!TypeOK
  <2> QED
    BY <1>2, <2>1, <2>2
<1>3. Rate!TypeOK'
  <2>1. call' \in [Client -> {"idle", "incr", "expire", "ttl", "refused", "admitted", "unlimited"}]
    BY <1>2 DEF RateInv, Rate!TypeOK
  <2> QED
    BY <1>2, <1>a, <2>1 DEF RateInv, Rate!TypeOK
<1>4. HistoryIsCounted'
  <2> SUFFICES ASSUME NEW k \in Budget PROVE Counted(k)'
    BY DEF HistoryIsCounted
  <2>1. Counted(k) /\ Admitted(k)' = Admitted(k) /\ recent' = recent /\ count' = count
    BY <1>2 DEF RateInv, HistoryIsCounted, Admitted
  <2>a. \A a \in Rate!Ages : Forgotten(a)' = Forgotten(a)
    BY <1>2, ForgottenFacts, RateFacts DEF RateInv
  <2>2. CASE life'[k] = life[k]
    BY <2>1, <2>2, <2>a DEF Counted
  <2>3. CASE life'[k] # life[k]
    BY <1>a, <2>1, <2>3, <2>a, RateFacts DEF Counted
  <2> QED
    BY <2>2, <2>3
<1>5. RefusedByWindow'
  <2> SUFFICES ASSUME NEW d \in Client, same[d] PROVE Refused(d)'
    BY <1>2 DEF RefusedByWindow
  <2>1. Refused(d) /\ budget[d] \in Budget /\ (d = c => budget[d] = b)
    BY DEF RateInv, Rate!TypeOK, RefusedByWindow, b
  <2>2. CASE d = c
    <3>1. call'[d] \in {"ttl", "admitted"} /\ count[b] > 0
      BY <1>2, <2>1, <2>2 DEF RateInv, Rate!TypeOK, Refused
    <3>2. life'[b] # Rate!Forever
      BY <1>1, <1>2, <3>1, RateFacts, SMTT(30) DEF RateInv, Rate!TypeOK
    <3> QED
      BY <1>2, <2>1, <2>2, <3>1, <3>2 DEF Refused
  <2>3. CASE d # c
    <3>1. call'[d] = call[d]
      BY <1>2, <2>3 DEF RateInv, Rate!TypeOK
    <3>2. \/ life'[budget[d]] = life[budget[d]]
          \/ life[budget[d]] = Rate!Forever /\ life'[budget[d]] # Rate!Forever
      <4>1. Rate!Lifetime # Rate!Forever
        BY RateFacts
      <4> QED
        BY <1>a, <2>1, <4>1
    <3> QED
      BY <1>2, <2>1, <3>1, <3>2 DEF Refused
  <2> QED
    BY <2>2, <2>3
<1> QED
  BY <1>3, <1>4, <1>5 DEF RateInv

\* A refusal tells a wait that covers the counter.
LEMMA RefuseStep ==
  ASSUME RateInv, NEW c \in Client, Rate!Refuse(c)
  PROVE  RateInv'
<1> DEFINE b == budget[c]
           w == Second * Rate!RetryAfter(Rate!Ttl(b))
<1>1. b \in Budget /\ Rate!TypeOK
  BY DEF RateInv, Rate!TypeOK
<1>2. w \in 0..Rate!Lifetime
  <2>1. CASE count[b] > 0 /\ life[b] # Rate!Forever
    BY <1>1, <2>1, TtlCovers
  <2>2. CASE ~(count[b] > 0 /\ life[b] # Rate!Forever)
    <3>1. count[b] \in Nat
      BY <1>1, RateFacts DEF Rate!TypeOK
    <3>2. Rate!Ttl(b) \in {-1, -2}
      BY <2>2, <3>1 DEF Rate!Ttl
    <3>3. w = Second * Window
      BY <3>2, RateFacts DEF Rate!RetryAfter
    <3> QED
      BY <3>3, RateFacts DEF Rate!Lifetime
  <2> QED
    BY <2>1, <2>2
<1>3. same[c] /\ call[c] = "ttl" => 2 * life[b] <= 2 * w + Second
  <2>1. same[c] /\ call[c] = "ttl" => count[b] > 0 /\ life[b] # Rate!Forever
    BY DEF RateInv, RefusedByWindow, Refused
  <2> QED
    BY <1>1, <2>1, TtlCovers
<1>4. /\ call[c] = "ttl" /\ call' = [call EXCEPT ![c] = "refused"]
      /\ wait' = [wait EXCEPT ![c] = w] /\ got' = [got EXCEPT ![c] = 0]
      /\ UNCHANGED <<count, life, budget, same, recent, losses, outages>>
  BY DEF Rate!Refuse, Rate!counters, Rate!history
<1> HIDE DEF w
<1>5. Rate!TypeOK'
  <2>1. call' \in [Client -> {"idle", "incr", "expire", "ttl", "refused", "admitted", "unlimited"}]
    BY <1>1, <1>4 DEF Rate!TypeOK
  <2>2. wait' \in [Client -> 0..Rate!Lifetime]
    BY <1>1, <1>2, <1>4 DEF Rate!TypeOK
  <2>3. got' \in [Client -> 0..(Capacity + 1)]
    BY <1>1, <1>4, RateFacts DEF Rate!TypeOK
  <2> QED
    BY <1>1, <1>4, <2>1, <2>2, <2>3 DEF Rate!TypeOK
<1>6. HistoryIsCounted'
  <2>1. \A a \in Rate!Ages : Forgotten(a)' = Forgotten(a)
    BY <1>1, <1>4, ForgottenFacts, RateFacts
  <2> QED
    BY <1>4, <2>1 DEF RateInv, HistoryIsCounted, Counted, Admitted
<1>7. RefusedByWindow'
  BY <1>1, <1>3, <1>4 DEF RateInv, Rate!TypeOK, RefusedByWindow, Refused
<1> QED
  BY <1>5, <1>6, <1>7 DEF RateInv

\* Time moves the history, the windows and the waits alike.
LEMMA TickStep ==
  ASSUME RateInv, Rate!Tick
  PROVE  RateInv'
<1>1. /\ count' = [k \in Budget |-> IF life[k] = 1 THEN 0 ELSE count[k]]
      /\ life' = [k \in Budget |-> IF life[k] = 1 \/ life[k] = Rate!Forever
                                   THEN Rate!Forever ELSE life[k] - 1]
      /\ wait' = [c \in Client |-> IF wait[c] = 0 THEN 0 ELSE wait[c] - 1]
      /\ recent' = [b \in Budget |-> [a \in Rate!Ages |-> IF a = 1 THEN 0 ELSE recent[b][a - 1]]]
      /\ losses' = [a \in Rate!Ages |-> IF a = 1 THEN 0 ELSE losses[a - 1]]
      /\ UNCHANGED <<call, budget, got, outages>>
  BY DEF Rate!Tick, Rate!Ends
<1>2. same' = [c \in Client |-> same[c] /\ life[budget[c]] # 1]
  <2>1. \A c \in Client : Rate!Gone(c, {k \in Budget : Rate!Ends(k)}) <=> life[budget[c]] = 1
    BY DEF RateInv, Rate!TypeOK, Rate!Gone, Rate!Ends
  <2> QED
    BY <2>1, Zenon DEF Rate!Tick
<1>3. \A k \in Budget : /\ life[k] \in 1..(Rate!Lifetime + 1) /\ count[k] \in 0..(Capacity + 1)
                        /\ \A a \in Rate!Ages : recent[k][a] \in Nat
  BY RateFacts DEF RateInv, Rate!TypeOK
<1>4. Rate!TypeOK'
  <2>1. recent' \in [Budget -> [Rate!Ages -> Nat]]
    BY <1>1, <1>3, RateFacts
  <2>5. losses' \in [Rate!Ages -> Nat]
    BY <1>1, RateFacts DEF RateInv, Rate!TypeOK
  <2>2. same' \in [Client -> BOOLEAN]
    BY <1>2
  <2>3. count' \in [Budget -> 0..(Capacity + 1)] /\ life' \in [Budget -> 1..Rate!Forever]
    BY <1>1, <1>3, RateFacts
  <2>4. wait' \in [Client -> 0..Rate!Lifetime]
    <3>1. wait \in [Client -> 0..Rate!Lifetime]
      BY DEF RateInv, Rate!TypeOK
    <3>2. \A c \in Client : (IF wait[c] = 0 THEN 0 ELSE wait[c] - 1) \in 0..Rate!Lifetime
      BY <3>1, RateFacts
    <3> QED
      BY <1>1, <3>2
  <2>6. UNCHANGED <<call, budget, got, outages>>
    BY <1>1
  <2>7. Rate!TypeOK
    BY DEF RateInv
  <2> QED
    BY <2>1, <2>2, <2>3, <2>4, <2>5, <2>6, <2>7 DEF Rate!TypeOK
<1>5. HistoryIsCounted'
  <2>1. \A k \in Budget : count'[k] = 0 => life'[k] = Rate!Forever
    BY <1>1, <1>3, RateFacts DEF RateInv, HistoryIsCounted, Counted
  <2>2. ASSUME NEW k \in Budget, NEW a \in Rate!Ages
        PROVE  (/\ recent[k][a] <= Capacity + Admitted(k) + Forgotten(a)
                /\ life[k] # Rate!Forever /\ a <= Rate!Lifetime - life[k] =>
                     recent[k][a] <= Admitted(k))'
    <3>1. recent'[k][a] = IF a = 1 THEN 0 ELSE recent[k][a - 1]
      BY <1>1
    <3>2. count'[k] = IF life[k] = 1 THEN 0 ELSE count[k]
      BY <1>1
    <3>3. life'[k] = IF life[k] = 1 \/ life[k] = Rate!Forever THEN Rate!Forever ELSE life[k] - 1
      BY <1>1
    <3>4. Admitted(k) \in 0..Capacity /\ Admitted(k)' = IF life[k] = 1 THEN 0 ELSE Admitted(k)
      BY <1>3, <3>2, RateFacts DEF Admitted
    <3>f. Forgotten(a)' \in Nat
      BY <1>4, RateFacts, OneTimeMore DEF Rate!TypeOK, Forgotten
    <3>5. CASE a = 1
      BY <3>1, <3>4, <3>5, <3>f, RateFacts
    <3>6. CASE a # 1
      <4>1. a - 1 \in Rate!Ages /\ a \in 1..Rate!Lifetime
        BY <3>6, RateFacts
      <4>2. /\ recent[k][a - 1] <= Capacity + Admitted(k) + Forgotten(a - 1)
            /\ life[k] # Rate!Forever /\ a - 1 <= Rate!Lifetime - life[k] =>
                 recent[k][a - 1] <= Admitted(k)
        BY <4>1 DEF RateInv, HistoryIsCounted, Counted
      <4>3. recent[k][a - 1] \in Nat /\ life[k] \in 1..(Rate!Lifetime + 1)
        BY <4>1, <1>3
      <4>4. Forgotten(a)' = Forgotten(a - 1)
        BY <1>1, <3>6, <4>1 DEF Forgotten
      <4>5. recent'[k][a] <= Capacity + Admitted(k)' + Forgotten(a)'
        <5>1. CASE life[k] = 1
          <6>1. recent[k][a - 1] <= Admitted(k)
            BY <4>1, <4>2, <5>1, RateFacts
          <6> QED
            BY <3>1, <3>4, <3>6, <3>f, <4>3, <5>1, <6>1, RateFacts
        <5>2. CASE life[k] # 1
          BY <3>1, <3>4, <3>6, <4>2, <4>4, <5>2
        <5> QED
          BY <5>1, <5>2
      <4>6. life'[k] # Rate!Forever /\ a <= Rate!Lifetime - life'[k] =>
              recent'[k][a] <= Admitted(k)'
        BY <3>1, <3>3, <3>4, <3>6, <4>1, <4>2, <4>3, RateFacts
      <4> QED
        BY <4>5, <4>6
    <3> QED
      BY <3>5, <3>6
  <2> QED
    BY <2>1, <2>2 DEF HistoryIsCounted, Counted
<1>6. RefusedByWindow'
  <2> SUFFICES ASSUME NEW c \in Client, same'[c]
               PROVE  Refused(c)'
    BY DEF RefusedByWindow
  <2> DEFINE k == budget[c]
  <2>1. k \in Budget /\ same[c] /\ life[k] # 1 /\ k = budget'[c] /\ call'[c] = call[c]
    BY <1>1, <1>2 DEF RateInv, Rate!TypeOK
  <2>2. wait[c] \in Nat /\ wait'[c] = IF wait[c] = 0 THEN 0 ELSE wait[c] - 1
    BY <1>1, RateFacts DEF RateInv, Rate!TypeOK
  <2>3. count'[k] = count[k]
    BY <1>1, <2>1
  <2>4. life[k] # Rate!Forever => life'[k] = life[k] - 1
    BY <1>1, <2>1
  <2>5. /\ call[c] \in {"expire", "ttl", "refused"} => count[k] > 0
        /\ call[c] \in {"ttl", "refused"} => life[k] # Rate!Forever
        /\ call[c] = "refused" => 2 * life[k] <= 2 * wait[c] + Second
    BY <2>1 DEF RateInv, RefusedByWindow, Refused
  <2>6. life[k] \in 1..(Rate!Lifetime + 1) /\ (life[k] # Rate!Forever => life'[k] # Rate!Forever)
    BY <2>1, <2>4, <1>3, RateFacts
  <2> HIDE DEF k
  <2>7. call[c] = "refused" => 2 * life'[k] <= 2 * wait'[c] + Second
    <3> SUFFICES ASSUME call[c] = "refused" PROVE 2 * life'[k] <= 2 * wait'[c] + Second
      OBVIOUS
    <3>1. life[k] \in Int /\ life'[k] = life[k] - 1 /\ 2 * life[k] <= 2 * wait[c] + Second
      BY <2>4, <2>5, <2>6, RateFacts
    <3>2. CASE wait[c] = 0
      BY <2>2, <3>1, <3>2, RateFacts
    <3>3. CASE wait[c] # 0
      BY <2>2, <3>1, <3>3, RateFacts
    <3> QED
      BY <3>2, <3>3
  <2> QED
    BY <2>1, <2>3, <2>5, <2>6, <2>7 DEF Refused
<1> QED
  BY <1>4, <1>5, <1>6 DEF RateInv

\* A step that touches no counter leaves the history counted.
LEMMA HistoryKept ==
  ASSUME RateInv, UNCHANGED <<count, life, recent, losses>>
  PROVE  HistoryIsCounted'
<1>1. \A a \in Rate!Ages : Forgotten(a)' = Forgotten(a)
  BY ForgottenFacts, RateFacts DEF RateInv
<1> QED
  BY <1>1 DEF RateInv, HistoryIsCounted, Counted, Admitted

\* A loss of Redis forgets one window more.
LEMMA RedisLostStep ==
  ASSUME RateInv, Rate!RedisLost
  PROVE  RateInv'
<1>1. /\ outages < Outages /\ outages' = outages + 1
      /\ count' = [k \in Budget |-> 0] /\ life' = [k \in Budget |-> Rate!Forever]
      /\ same' = [c \in Client |-> FALSE]
      /\ losses' = [a \in Rate!Ages |-> losses[a] + 1]
      /\ UNCHANGED <<call, budget, got, wait, recent>>
  BY DEF Rate!RedisLost
<1>2. Rate!TypeOK'
  BY <1>1, RateFacts DEF RateInv, Rate!TypeOK
<1>3. ASSUME NEW b \in Budget, NEW a \in Rate!Ages
      PROVE  (recent[b][a] <= Capacity + Admitted(b) + Forgotten(a))'
  <2>1. recent[b][a] <= Capacity + Admitted(b) + Forgotten(a)
    BY DEF RateInv, HistoryIsCounted, Counted
  <2>2. Admitted(b) \in 0..Capacity /\ Admitted(b)' = 0 /\ recent[b][a] \in Nat
    BY <1>1, RateFacts DEF RateInv, Rate!TypeOK, Admitted
  <2>3. Forgotten(a)' = Forgotten(a) + Capacity /\ Forgotten(a) \in Nat
    <3>1. losses[a] \in Nat /\ losses'[a] = losses[a] + 1
      BY <1>1 DEF RateInv, Rate!TypeOK
    <3> QED
      BY <3>1, OneTimeMore, RateFacts DEF Forgotten
  <2> QED
    BY <1>1, <2>1, <2>2, <2>3, RateFacts
<1>4. HistoryIsCounted'
  <2>1. \A b \in Budget : life'[b] = Rate!Forever
    BY <1>1
  <2> QED
    BY <1>3, <2>1, Zenon DEF HistoryIsCounted, Counted
<1>5. RefusedByWindow'
  BY <1>1 DEF RefusedByWindow
<1> QED
  BY <1>2, <1>4, <1>5 DEF RateInv

\* The call of c is under way or over, and no counter is touched.
LEMMA CallMoves ==
  ASSUME RateInv, NEW c \in Client,
         NEW to \in {"idle", "incr", "unlimited"},
         call' = [call EXCEPT ![c] = to], budget' \in [Client -> Budget],
         \A d \in Client \ {c} : budget'[d] = budget[d],
         got' \in [Client -> 0..(Capacity + 1)],
         wait' \in [Client -> 0..Rate!Lifetime],
         \A d \in Client \ {c} : wait'[d] = wait[d],
         same' \in [Client -> BOOLEAN],
         \A d \in Client \ {c} : same'[d] = same[d],
         outages' \in 0..Outages,
         UNCHANGED <<count, life, recent, losses>>
  PROVE  RateInv'
<1>1. call' \in [Client -> {"idle", "incr", "expire", "ttl", "refused", "admitted", "unlimited"}]
  BY DEF RateInv, Rate!TypeOK
<1>2. Rate!TypeOK'
  BY <1>1 DEF RateInv, Rate!TypeOK
<1>3. RefusedByWindow'
  <2> SUFFICES ASSUME NEW d \in Client, same'[d] PROVE Refused(d)'
    BY DEF RefusedByWindow
  <2>1. CASE d = c
    <3>1. call'[d] = to
      BY <2>1 DEF RateInv, Rate!TypeOK
    <3> QED
      BY <3>1 DEF Refused
  <2>2. CASE d # c
    BY <2>2 DEF RateInv, Rate!TypeOK, RefusedByWindow, Refused
  <2> QED
    BY <2>1, <2>2
<1> QED
  BY <1>2, <1>3, HistoryKept DEF RateInv

\* Every step keeps the invariant.
LEMMA RateStep ==
  ASSUME RateInv, [Rate!Next]_(Rate!vars)
  PROVE  RateInv'
<1> USE RateFacts DEF Rate!counters, Rate!history
<1>0. /\ budget \in [Client -> Budget] /\ got \in [Client -> 0..(Capacity + 1)]
      /\ wait \in [Client -> 0..Rate!Lifetime] /\ same \in [Client -> BOOLEAN]
      /\ outages \in 0..Outages
  BY DEF RateInv, Rate!TypeOK
<1>1. ASSUME NEW c \in Client, Rate!Call(c) PROVE RateInv'
  <2>1. /\ call' = [call EXCEPT ![c] = "incr"] /\ budget' \in [Client -> Budget]
        /\ \A d \in Client \ {c} : budget'[d] = budget[d]
        /\ got' \in [Client -> 0..(Capacity + 1)] /\ wait' \in [Client -> 0..Rate!Lifetime]
        /\ \A d \in Client \ {c} : wait'[d] = wait[d]
    BY <1>0, <1>1 DEF Rate!Call
  <2>2. /\ same' \in [Client -> BOOLEAN] /\ \A d \in Client \ {c} : same'[d] = same[d]
        /\ outages' \in 0..Outages /\ UNCHANGED <<count, life, recent, losses>>
    BY <1>0, <1>1 DEF Rate!Call
  <2> QED
    BY <2>1, <2>2, CallMoves
<1>2. ASSUME NEW c \in Client, Rate!CallWithoutKey(c) PROVE RateInv'
  <2>1. /\ call' = [call EXCEPT ![c] = "unlimited"] /\ budget' \in [Client -> Budget]
        /\ \A d \in Client \ {c} : budget'[d] = budget[d]
        /\ got' \in [Client -> 0..(Capacity + 1)] /\ wait' \in [Client -> 0..Rate!Lifetime]
        /\ \A d \in Client \ {c} : wait'[d] = wait[d]
    BY <1>0, <1>2 DEF Rate!CallWithoutKey
  <2>2. /\ same' \in [Client -> BOOLEAN] /\ \A d \in Client \ {c} : same'[d] = same[d]
        /\ outages' \in 0..Outages /\ UNCHANGED <<count, life, recent, losses>>
    BY <1>0, <1>2 DEF Rate!CallWithoutKey
  <2> QED
    BY <2>1, <2>2, CallMoves
<1>3. ASSUME NEW c \in Client, Rate!Leave(c) PROVE RateInv'
  <2>1. /\ call' = [call EXCEPT ![c] = "idle"] /\ budget' \in [Client -> Budget]
        /\ \A d \in Client \ {c} : budget'[d] = budget[d]
        /\ got' \in [Client -> 0..(Capacity + 1)] /\ wait' \in [Client -> 0..Rate!Lifetime]
        /\ \A d \in Client \ {c} : wait'[d] = wait[d]
    BY <1>0, <1>3 DEF Rate!Leave
  <2>2. /\ same' \in [Client -> BOOLEAN] /\ \A d \in Client \ {c} : same'[d] = same[d]
        /\ outages' \in 0..Outages /\ UNCHANGED <<count, life, recent, losses>>
    BY <1>0, <1>3 DEF Rate!Leave
  <2> QED
    BY <2>1, <2>2, CallMoves
<1>4. ASSUME NEW c \in Client, Rate!Broken(c) PROVE RateInv'
  <2>1. /\ call' = [call EXCEPT ![c] = "idle"] /\ budget' \in [Client -> Budget]
        /\ \A d \in Client \ {c} : budget'[d] = budget[d]
        /\ got' \in [Client -> 0..(Capacity + 1)] /\ wait' \in [Client -> 0..Rate!Lifetime]
        /\ \A d \in Client \ {c} : wait'[d] = wait[d]
    BY <1>0, <1>4 DEF Rate!Broken
  <2>2. /\ same' \in [Client -> BOOLEAN] /\ \A d \in Client \ {c} : same'[d] = same[d]
        /\ outages' \in 0..Outages /\ UNCHANGED <<count, life, recent, losses>>
    BY <1>0, <1>4 DEF Rate!Broken
  <2> QED
    BY <2>1, <2>2, CallMoves
<1>5. CASE UNCHANGED Rate!vars
  <2>1. Rate!TypeOK' /\ RefusedByWindow'
    BY <1>5 DEF Rate!vars, RateInv, Rate!TypeOK, RefusedByWindow, Refused
  <2> QED
    BY <1>5, <2>1, HistoryKept DEF RateInv, Rate!vars
<1> QED
  BY IncrStep, ExpireStep, RefuseStep, TickStep, RedisLostStep, <1>1, <1>2, <1>3, <1>4, <1>5
  DEF Rate!Next, Rate!Step

\* So it always holds.
LEMMA RateInvariant == Rate!Spec => []RateInv
<1>1. Rate!Init => RateInv
  <2> SUFFICES ASSUME Rate!Init PROVE RateInv
    OBVIOUS
  <2>1. Rate!TypeOK /\ RefusedByWindow
    BY RateFacts DEF Rate!Init, Rate!TypeOK, RefusedByWindow
  <2>2. \A a \in Rate!Ages : Forgotten(a) \in Nat
    BY <2>1, ForgottenFacts, RateFacts
  <2>3. HistoryIsCounted
    BY <2>2, RateFacts DEF Rate!Init, HistoryIsCounted, Counted, Admitted
  <2> QED
    BY <2>1, <2>3 DEF RateInv
<1> QED
  BY <1>1, RateStep, PTL DEF Rate!Spec

\* For any capacity, window and number of callers, however their commands interleave,
\* wherever a pipeline breaks and whenever Redis loses its keys: a stretch of the length of
\* a window sees at most the calls of two windows admitted, and of one more for each loss
\* in it (consume, rate_limit.py).
THEOREM TwoWindowsAtMost == Rate!Spec => []AtMostTwoWindows
<1>1. RateInv => AtMostTwoWindows
  <2> SUFFICES ASSUME RateInv, NEW b \in Budget
               PROVE  recent[b][Rate!Lifetime] <= (2 + losses[Rate!Lifetime]) * Capacity
    BY DEF AtMostTwoWindows, Rate!AtMostTwoWindows
  <2> DEFINE n == losses[Rate!Lifetime]
             m == recent[b][Rate!Lifetime]
  <2>1. Rate!Lifetime \in Rate!Ages /\ m \in Nat /\ count[b] \in Nat /\ n \in Nat
    BY RateFacts DEF RateInv, Rate!TypeOK
  <2>2. m <= Capacity + Admitted(b) + n * Capacity
    BY <2>1 DEF RateInv, HistoryIsCounted, Counted, Forgotten
  <2>3. Admitted(b) \in Nat /\ Admitted(b) <= Capacity
    BY <2>1, RateFacts DEF Admitted
  <2> HIDE DEF n, m
  <2>4. n * Capacity \in Nat /\ (2 + n) * Capacity = 2 * Capacity + n * Capacity
    BY <2>1, OneTimeMore, RateFacts
  <2>5. m <= (2 + n) * Capacity
    BY <2>1, <2>2, <2>3, <2>4, RateFacts
  <2> QED
    BY <2>5 DEF n, m
<1> QED
  BY <1>1, RateInvariant, PTL

\* A refused caller that waits as it was told finds the counter that refused it gone, or
\* in the half second by which TTL rounds down (retry_after).
THEOREM RetryAfterIsEnough == Rate!Spec => []WaitIsEnough
<1>1. RateInv => WaitIsEnough
  <2> SUFFICES ASSUME RateInv, NEW c \in Client, call[c] = "refused", wait[c] = 0, same[c]
               PROVE  2 * life[budget[c]] <= Second
    BY DEF WaitIsEnough, Rate!WaitIsEnough
  <2>1. 2 * life[budget[c]] <= 2 * wait[c] + Second
    BY DEF RateInv, RefusedByWindow, Refused
  <2> QED
    BY <2>1, RateFacts
<1> QED
  BY <1>1, RateInvariant, PTL

\* The counters and the calls keep their types: no caller is told to wait longer than a
\* window.
THEOREM RateTypeCorrect == Rate!Spec => []Rate!TypeOK
<1>1. RateInv => Rate!TypeOK
  BY DEF RateInv
<1> QED
  BY <1>1, RateInvariant, PTL

-----------------------------------------------------------------------------
(* Who is synchronised, and when: SyncSchedule                             *)

\* Where an attempt stands.
AttemptStates == {"out", "waiting", "done"} \union Sync!Holding

\* The types of what carries a request.
SyncTypes ==
  /\ worker \in {"up", "stopping", "down"}
  /\ marker \in [Account -> 0..MarkerLife] /\ due \subseteq Run
  /\ stage \in [Run -> {"ready", "idle", "draining", "loading", "running"}]
  /\ found \subseteq Account /\ drained \subseteq Account
  /\ attempt \in [Run -> [Account -> AttemptStates]]
  /\ owed \subseteq Account

\* What the dispatcher has in hand, it has while it drains and loads.
DispatcherIsBusy ==
  /\ found # {} => "force" \in Run /\ stage["force"] = "draining"
  /\ drained # {} => "force" \in Run /\ stage["force"] \in {"draining", "loading"}

\* A run has attempts only while it runs, and a worker that is down has no run.
RunsAreApart ==
  /\ \A r \in Run : stage[r] # "running" => attempt[r] = Sync!Idle
  /\ worker = "down" => found = {} /\ drained = {} /\ \A r \in Run : stage[r] # "running"

\* Inductive: a run that starts overwrites no attempt that still waits, and a drain that
\* starts no marker the last one has taken.
SyncInv == SyncTypes /\ DispatcherIsBusy /\ RunsAreApart /\ RequestInHand

\* Every step of CRM, dispatcher, runs, attempts and worker keeps the invariant.
LEMMA SyncStep ==
  ASSUME SyncInv, [Sync!Next]_(Sync!vars)
  PROVE  SyncInv'
<1>a. Run \subseteq {"initial", "cycle", "force"} /\ MarkerLife \in Nat /\ MarkerLife > 0
  BY RecurringAssumption DEF RecurringAssumption, Sync!ScheduleAssumption
<1> USE <1>a DEF SyncInv, SyncTypes, DispatcherIsBusy, RunsAreApart, RequestInHand,
        Sync!RequestInHand,
     Sync!InHand, Sync!Marked, Sync!Waiting, Sync!Idle, Sync!attempts, Sync!redis, Sync!history,
     Sync!bounds, AttemptStates, Sync!Holding
<1>1. ASSUME NEW a \in Account, Sync!ForceSync(a) PROVE SyncInv'
  BY <1>1 DEF Sync!ForceSync
<1>2. ASSUME NEW a \in Account, Sync!Activate(a) PROVE SyncInv'
  BY <1>2 DEF Sync!Activate
<1>3. ASSUME NEW a \in Account, Sync!DrainMarker(a) PROVE SyncInv'
  BY <1>3 DEF Sync!DrainMarker
<1>4. ASSUME NEW r \in Run, Sync!StartCycle(r) PROVE SyncInv'
  <2>1. /\ attempt' = [attempt EXCEPT ![r] = [a \in Account |-> IF active[a] THEN "waiting" ELSE "out"]]
        /\ stage' = [stage EXCEPT ![r] = "running"] /\ due' = due \ {r}
        /\ worker = "up" /\ r # "force" /\ stage[r] # "running"
        /\ UNCHANGED <<worker, marker, found, drained, owed, waived>>
    BY <1>4, ZenonT(40) DEF Sync!StartCycle, Sync!Listed, Sync!Enabled
  <2>2. attempt' \in [Run -> [Account -> AttemptStates]]
    BY <2>1
  <2>3. SyncTypes'
    BY <2>1, <2>2
  <2>4. DispatcherIsBusy'
    BY <2>1
  <2>5. RunsAreApart'
    BY <2>1
  <2>6. \A a \in Account : attempt[r][a] # "waiting"
    BY <2>1
  <2>7. Sync!InHand \subseteq Sync!InHand'
    BY <2>1, <2>6
  <2> QED
    BY <2>1, <2>3, <2>4, <2>5, <2>7
<1>5. ASSUME NEW r \in Run, Sync!FinishRun(r) PROVE SyncInv'
  BY <1>5 DEF Sync!FinishRun, Sync!Over, Sync!Deleted
<1>6. CASE Sync!StartForce
  <2>1. stage["force"] = "idle" /\ "force" \in Run /\ worker = "up" /\ found = {} /\ drained = {}
    BY <1>6 DEF Sync!StartForce
  <2>2. /\ found' = Sync!Marked
        /\ stage' = IF Sync!Marked = {} THEN stage ELSE [stage EXCEPT !["force"] = "draining"]
        /\ due' = due \ {"force"}
        /\ UNCHANGED <<worker, marker, drained, attempt, owed, waived>>
    BY <1>6 DEF Sync!StartForce
  <2>3. SyncTypes' /\ DispatcherIsBusy'
    BY <2>1, <2>2
  <2>4. RunsAreApart'
    BY <2>1, <2>2
  <2>5. Sync!InHand \subseteq Sync!InHand'
    BY <2>1, <2>2
  <2> QED
    BY <2>2, <2>3, <2>4, <2>5
<1>7. CASE Sync!LoadForced
  <2>1. /\ worker = "up" /\ "force" \in Run /\ stage["force"] = "loading" /\ found = {}
        /\ attempt' = [attempt EXCEPT !["force"] =
             [a \in Account |-> IF a \in drained /\ active[a] THEN "waiting" ELSE "out"]]
        /\ stage' = [stage EXCEPT !["force"] = "running"]
        /\ drained' = {}
        /\ UNCHANGED <<worker, marker, found, due, owed>>
    BY <1>7, ZenonT(40) DEF Sync!LoadForced, Sync!Listed, Sync!Enabled
  <2>2. \A a \in drained : a \in owed /\ ~active[a] => a \in waived'
    BY <1>7 DEF Sync!LoadForced, Sync!Enabled
  <2>3. waived \subseteq waived'
    BY <1>7 DEF Sync!LoadForced
  <2>4. attempt' \in [Run -> [Account -> AttemptStates]]
    BY <2>1
  <2>5. SyncTypes' /\ DispatcherIsBusy'
    BY <2>1, <2>4
  <2>6. RunsAreApart'
    BY <2>1
  <2>7. \A a \in Account : attempt["force"][a] # "waiting"
    BY <2>1
  <2>8. ASSUME NEW a \in Sync!InHand, a \in owed, a \notin waived' PROVE a \in Sync!InHand'
    <3>1. CASE a \in drained
      <4>1. a \in Account /\ active[a]
        BY <2>2, <2>8, <3>1
      <4>2. attempt'["force"][a] = "waiting"
        BY <2>1, <3>1, <4>1
      <4> QED
        BY <2>1, <4>1, <4>2
    <3>2. CASE a \in Sync!Marked
      BY <2>1, <3>2
    <3>3. ASSUME NEW r \in Run, a \in Sync!Waiting(r) PROVE a \in Sync!InHand'
      <4>1. r # "force"
        BY <2>7, <3>3
      <4> QED
        BY <2>1, <3>3, <4>1
    <3> QED
      <4>1. a \in Sync!Marked \/ a \in drained \/ \E r \in Run : a \in Sync!Waiting(r)
        BY <2>1, <2>8
      <4> QED
        BY <3>1, <3>2, <3>3, <4>1
  <2> QED
    BY <2>1, <2>3, <2>5, <2>6, <2>8
<1>8. CASE Sync!ForceFails
  BY <1>8 DEF Sync!ForceFails
<1>9. ASSUME NEW r \in Run, NEW a \in Account, Sync!Acquire(r, a) PROVE SyncInv'
  BY <1>9 DEF Sync!Acquire, Sync!Move
<1>10. ASSUME NEW r \in Run, NEW a \in Account, 
               \/ Sync!Prepared(r, a) \/ Sync!Resolved(r, a) \/ Sync!Fetched(r, a)
               \/ Sync!TimesOut(r, a) \/ Sync!Recorded(r, a) \/ Sync!TakeThread(r, a)
       PROVE SyncInv'
  <2>1. /\ attempt[r][a] \in Sync!Holding
        /\ \E to \in Sync!Holding \union {"done"} : attempt' = [attempt EXCEPT ![r][a] = to]
        /\ UNCHANGED <<worker, marker, found, drained, stage, due, owed, waived>>
    BY <1>10 DEF Sync!Prepared, Sync!Resolved, Sync!Fetched, Sync!Recorded, Sync!TimesOut, Sync!TimedOut, Sync!TakeThread,
       Sync!Queued, Sync!Move
  <2>2. attempt' \in [Run -> [Account -> AttemptStates]]
    BY <2>1
  <2>3. SyncTypes' /\ DispatcherIsBusy'
    BY <2>1, <2>2
  <2>4. stage[r] = "running" /\ \A q \in Run \ {r} : attempt'[q] = attempt[q]
    BY <2>1
  <2>5. RunsAreApart'
    BY <2>1, <2>4
  <2>6. Sync!InHand \subseteq Sync!InHand'
    BY <2>1
  <2> QED
    BY <2>1, <2>3, <2>5, <2>6
<1>11. CASE Sync!AbandonedEnds
  BY <1>11 DEF Sync!AbandonedEnds
<1>12. CASE Sync!Tick
  <2>1. /\ due' \subseteq Run /\ waived' = waived \union (owed \ Sync!InHand')
        /\ UNCHANGED <<worker, found, drained, stage, attempt, owed>>
    BY <1>12 DEF Sync!Tick
  <2>2. marker' \in [Account -> 0..MarkerLife]
    BY <1>12 DEF Sync!Tick
  <2>3. SyncTypes' /\ DispatcherIsBusy' /\ RunsAreApart'
    BY <2>1, <2>2
  <2>4. (owed \ waived)' \subseteq Sync!InHand'
    BY <2>1
  <2> QED
    BY <2>3, <2>4
<1>13. CASE Sync!Stop
  BY <1>13 DEF Sync!Stop, Sync!Cut
<1>14. CASE Sync!Exit
  BY <1>14 DEF Sync!Exit, Sync!Cut
<1>15. CASE Sync!Start
  BY <1>15 DEF Sync!Start
<1>16. CASE UNCHANGED Sync!vars
  BY <1>16 DEF Sync!vars
<1> QED
  BY <1>1, <1>2, <1>3, <1>4, <1>5, <1>6, <1>7, <1>8, <1>9, <1>10, <1>11, <1>12, <1>13, <1>14,
     <1>15, <1>16 DEF Sync!Next, Sync!AttemptStep

\* It holds at the start of the worker.
LEMMA SyncInitial == Sync!Init => SyncInv
  BY RecurringAssumption DEF RecurringAssumption, Sync!ScheduleAssumption, Sync!Init, SyncInv,
     SyncTypes, DispatcherIsBusy, RunsAreApart,
     RequestInHand, Sync!RequestInHand, Sync!Idle, AttemptStates

\* So it always holds.
LEMMA SyncInvariant == Sync!Spec => []SyncInv
BY SyncInitial, SyncStep, PTL DEF Sync!Spec

\* For any number of mailboxes and any interleaving of requests, drains, cycles, failures
\* and restarts: a request to synchronise is in Redis, in the dispatcher or before its
\* attempt, until an attempt begins (force_sync_dispatch).
THEOREM RequestsStayInHand == Sync!Spec => []RequestInHand
<1>1. SyncInv => RequestInHand
  BY DEF SyncInv
<1> QED
  BY <1>1, SyncInvariant, PTL

-----------------------------------------------------------------------------
\* The attempts that have a thread.
Threads == {p \in Run \X Account : attempt[p[1]][p[2]] \in {"resolving", "fetching"}}

\* Inductive: the threads at work and those abandoned fit the pool.
PoolInv == SyncInv /\ abandoned \in Nat /\ Sync!Busy <= Pool

\* The types of the rest.
RestTypes ==
  /\ active \in [Account -> BOOLEAN] /\ left \in [Run -> [Account -> 0..Timeout]]
  /\ waived \subseteq owed /\ requests \in 0..Requests /\ faults \in 0..Faults

\* Every step keeps the types of the rest.
LEMMA RestStep ==
  ASSUME RestTypes, SyncInv, [Sync!Next]_(Sync!vars)
  PROVE  RestTypes'
<1>a. Timeout \in Nat /\ Requests \in Nat /\ Faults \in Nat
  BY RecurringAssumption DEF RecurringAssumption, Sync!ScheduleAssumption
<1> USE <1>a DEF RestTypes, Sync!attempts, Sync!redis, Sync!history, Sync!bounds
<1>1. ASSUME NEW a \in Account, Sync!ForceSync(a) \/ Sync!DrainMarker(a)
      PROVE  RestTypes'
  BY <1>1 DEF Sync!ForceSync, Sync!DrainMarker
<1>2. ASSUME NEW a \in Account, Sync!Activate(a)
      PROVE  RestTypes'
  <2>1. active' \in [Account -> BOOLEAN]
    BY <1>2 DEF Sync!Activate
  <2> QED
    BY <1>2, <2>1 DEF Sync!Activate
<1>3. ASSUME NEW r \in Run, Sync!StartCycle(r) \/ Sync!FinishRun(r)
      PROVE  RestTypes'
  BY <1>3 DEF Sync!StartCycle, Sync!FinishRun
<1>4. CASE Sync!StartForce \/ Sync!LoadForced \/ Sync!ForceFails \/ Sync!AbandonedEnds \/ Sync!Start
  BY <1>4 DEF Sync!StartForce, Sync!LoadForced, Sync!ForceFails, Sync!AbandonedEnds, Sync!Start
<1>5. ASSUME NEW r \in Run, NEW a \in Account, Sync!AttemptStep(r, a) \/ Sync!TakeThread(r, a)
      PROVE  RestTypes'
  <2>1. left' \in [Run -> [Account -> 0..Timeout]]
    BY <1>5 DEF Sync!AttemptStep, Sync!Acquire, Sync!Prepared, Sync!Resolved, Sync!FetchTimer,
       Sync!Fetched, Sync!TimesOut, Sync!Recorded, Sync!TakeThread
  <2> QED
    BY <1>5, <2>1 DEF Sync!AttemptStep, Sync!Acquire, Sync!Prepared, Sync!Resolved, Sync!Fetched,
       Sync!TimesOut, Sync!Recorded, Sync!TakeThread
<1>6. CASE Sync!Tick
  <2>1. left' \in [Run -> [Account -> 0..Timeout]]
    BY <1>6 DEF Sync!Tick
  <2> QED
    BY <1>6, <2>1 DEF Sync!Tick
<1>7. CASE Sync!Stop \/ Sync!Exit
  <2>1. left' \in [Run -> [Account -> 0..Timeout]]
    BY <1>7 DEF Sync!Stop, Sync!Exit, Sync!Cut
  <2> QED
    BY <1>7, <2>1 DEF Sync!Stop, Sync!Exit
<1>8. CASE UNCHANGED Sync!vars
  BY <1>8 DEF Sync!vars
<1> QED
  BY <1>1, <1>2, <1>3, <1>4, <1>5, <1>6, <1>7, <1>8 DEF Sync!Next

\* The cardinality SyncSchedule speaks of.
LEMMA SameCardinality ==
  ASSUME NEW S
  PROVE  Sync!Cardinality(S) = Cardinality(S)
BY DEF Sync!Cardinality, Cardinality

\* The threads that are taken.
LEMMA BusyIs ==
  Sync!Busy = abandoned + Cardinality(Threads)
BY SameCardinality DEF Sync!Busy, Sync!Threads, Threads

\* A thread is taken when one is free, and every other step takes none more.
LEMMA PoolStep ==
  ASSUME IsFiniteSet(Account), PoolInv, SyncInv', [Sync!Next]_(Sync!vars)
  PROVE  abandoned' \in Nat /\ (Sync!Busy <= Pool)'
<1>1. IsFiniteSet(Run \X Account)
  <2>1. IsFiniteSet({"initial", "cycle", "force"})
    <3>1. {"initial", "cycle", "force"} = ({"initial"} \union {"cycle"}) \union {"force"}
      OBVIOUS
    <3>2. IsFiniteSet({"initial"}) /\ IsFiniteSet({"cycle"}) /\ IsFiniteSet({"force"})
      BY FS_Singleton
    <3>3. IsFiniteSet({"initial"} \union {"cycle"})
      BY <3>2, FS_Union
    <3>4. IsFiniteSet(({"initial"} \union {"cycle"}) \union {"force"})
      BY <3>2, <3>3, FS_Union
    <3> QED
      BY <3>1, <3>4
  <2>2. IsFiniteSet(Run)
    BY <2>1, FS_Subset, RecurringAssumption DEF RecurringAssumption, Sync!ScheduleAssumption
  <2> QED
    BY <2>2, FS_Product
<1>2. /\ Threads \subseteq Run \X Account /\ Threads' \subseteq Run \X Account
      /\ IsFiniteSet(Threads) /\ IsFiniteSet(Threads')
      /\ Cardinality(Threads) \in Nat /\ Cardinality(Threads') \in Nat
  BY <1>1, FS_Subset, FS_CardinalityType DEF Threads
<1>3. Pool \in Nat /\ abandoned \in Nat /\ abandoned + Cardinality(Threads) <= Pool
  BY BusyIs, RecurringAssumption DEF RecurringAssumption, Sync!ScheduleAssumption, PoolInv
<1>4. SUFFICES abandoned' \in Nat /\ abandoned' + Cardinality(Threads') <= Pool
  BY SameCardinality DEF Sync!Busy, Sync!Threads, Threads
<1>5. /\ attempt \in [Run -> [Account -> AttemptStates]]
      /\ \A r \in Run : stage[r] # "running" => attempt[r] = Sync!Idle
  BY DEF PoolInv, SyncInv, SyncTypes, RunsAreApart
<1>6. CASE UNCHANGED abandoned /\ Threads' \subseteq Threads
  BY <1>2, <1>3, <1>6, FS_Subset
<1>7. ASSUME UNCHANGED abandoned, UNCHANGED attempt
       PROVE  abandoned' + Cardinality(Threads') <= Pool /\ abandoned' \in Nat
  BY <1>6, <1>7 DEF Threads
<1>8. ASSUME NEW a \in Account, Sync!ForceSync(a) \/ Sync!Activate(a) \/ Sync!DrainMarker(a)
      PROVE  UNCHANGED <<abandoned, attempt>>
  BY <1>8 DEF Sync!ForceSync, Sync!Activate, Sync!DrainMarker, Sync!attempts
<1>9. CASE Sync!StartForce \/ Sync!ForceFails \/ Sync!Tick \/ Sync!Start \/ UNCHANGED Sync!vars
  <2>1. UNCHANGED <<abandoned, attempt>>
    BY <1>9 DEF Sync!StartForce, Sync!ForceFails, Sync!Tick, Sync!Start, Sync!vars, Sync!attempts
  <2> QED
    BY <1>7, <2>1
<1>10. ASSUME NEW r \in Run, NEW S, Sync!Listed(r, S), UNCHANGED abandoned
       PROVE  abandoned' \in Nat /\ abandoned' + Cardinality(Threads') <= Pool
  <2>1. Threads' \subseteq Threads
    BY <1>5, <1>10 DEF Sync!Listed, Threads
  <2> QED
    BY <1>6, <1>10, <2>1
<1>11. ASSUME NEW r \in Run, Sync!StartCycle(r) \/ Sync!FinishRun(r)
       PROVE  abandoned' \in Nat /\ abandoned' + Cardinality(Threads') <= Pool
  <2>1. Sync!StartCycle(r) => Sync!Listed(r, Sync!Enabled) /\ UNCHANGED abandoned
    BY DEF Sync!StartCycle
  <2>2. Sync!FinishRun(r) => attempt' = [attempt EXCEPT ![r] = Sync!Idle] /\ UNCHANGED abandoned
    BY DEF Sync!FinishRun
  <2>3. attempt' = [attempt EXCEPT ![r] = Sync!Idle] => Threads' \subseteq Threads
    BY <1>5 DEF Threads, Sync!Idle
  <2> QED
    BY <1>6, <1>10, <1>11, <2>1, <2>2, <2>3
<1>12. CASE Sync!LoadForced
  BY <1>10, <1>12 DEF Sync!LoadForced
<1>13. ASSUME NEW r \in Run, NEW a \in Account, Sync!AttemptStep(r, a) \/ Sync!TakeThread(r, a)
       PROVE  abandoned' \in Nat /\ abandoned' + Cardinality(Threads') <= Pool
  <2>1. CASE \/ Sync!Acquire(r, a) \/ Sync!Prepared(r, a) \/ Sync!Resolved(r, a)
             \/ Sync!Fetched(r, a) \/ Sync!Recorded(r, a)
    <3>1. Threads' \subseteq Threads
      BY <1>5, <2>1 DEF Sync!Acquire, Sync!Prepared, Sync!Resolved, Sync!Fetched, Sync!Recorded,
         Sync!Move, Threads
    <3> QED
      BY <1>6, <2>1, <3>1 DEF Sync!Acquire, Sync!Prepared, Sync!Resolved, Sync!Fetched,
         Sync!Recorded
  <2>2. CASE Sync!TimesOut(r, a)
    <3>1. attempt' = [attempt EXCEPT ![r][a] = "recording"]
      BY <2>2 DEF Sync!TimesOut, Sync!Move
    <3>2. CASE attempt[r][a] = "fetching"
      <4>1. <<r, a>> \in Threads /\ Threads' = Threads \ {<<r, a>>}
        BY <1>5, <3>1, <3>2 DEF Threads
      <4>2. Cardinality(Threads') = Cardinality(Threads) - 1
        BY <1>2, <4>1, FS_RemoveElement
      <4> QED
        BY <1>2, <1>3, <2>2, <3>2, <4>2 DEF Sync!TimesOut
    <3>3. CASE attempt[r][a] # "fetching"
      <4>1. Threads' \subseteq Threads
        BY <1>5, <3>1 DEF Threads
      <4> QED
        BY <1>6, <2>2, <3>3, <4>1 DEF Sync!TimesOut
    <3> QED
      BY <3>2, <3>3
  <2>3. CASE Sync!TakeThread(r, a)
    <3>1. Threads' \subseteq Threads \union {<<r, a>>}
      BY <1>5, <2>3 DEF Sync!TakeThread, Sync!Move, Threads
    <3>2. Cardinality(Threads') <= Cardinality(Threads) + 1
      <4>1. /\ IsFiniteSet(Threads \union {<<r, a>>})
            /\ Cardinality(Threads \union {<<r, a>>})
                 \in {Cardinality(Threads), Cardinality(Threads) + 1}
        BY <1>2, FS_AddElement
      <4>2. Cardinality(Threads') <= Cardinality(Threads \union {<<r, a>>})
        BY <3>1, <4>1, FS_Subset
      <4> QED
        BY <1>2, <4>1, <4>2
    <3>3. UNCHANGED abandoned /\ abandoned + Cardinality(Threads) < Pool
      BY <2>3, BusyIs DEF Sync!TakeThread
    <3> QED
      BY <1>2, <1>3, <3>2, <3>3
  <2> QED
    BY <1>13, <2>1, <2>2, <2>3 DEF Sync!AttemptStep
<1>14. CASE Sync!AbandonedEnds
  <2>1. attempt' = attempt /\ abandoned > 0 /\ abandoned' = abandoned - 1
    BY <1>14 DEF Sync!AbandonedEnds
  <2>2. Threads' = Threads
    BY <2>1 DEF Threads
  <2> QED
    BY <1>2, <1>3, <2>1, <2>2
<1>15. CASE Sync!Stop
  <2> DEFINE cut == {p \in (Run \ {"initial"}) \X Account : Sync!Running(p[1], p[2])}
  <2>1. abandoned' = abandoned + Cardinality(cut)
    BY <1>15, SameCardinality DEF Sync!Stop
  <2>2. cut \subseteq Threads /\ Threads' \subseteq Threads \ cut
    BY <1>5, <1>15 DEF Sync!Stop, Sync!Cut, Sync!Running, Sync!Idle, Threads
  <2>3. IsFiniteSet(cut) /\ Cardinality(cut) \in Nat
    BY <1>2, <2>2, FS_Subset, FS_CardinalityType
  <2>4. /\ IsFiniteSet(Threads \ cut)
        /\ Cardinality(Threads \ cut) = Cardinality(Threads) - Cardinality(cut)
    <3>1. Cardinality(Threads \ cut) = Cardinality(Threads) - Cardinality(Threads \cap cut)
      BY <1>2, FS_Difference
    <3>2. Threads \cap cut = cut
      BY <2>2
    <3> QED
      BY <3>1, <3>2, <1>2, FS_Difference
  <2>5. Cardinality(Threads') <= Cardinality(Threads \ cut)
    BY <2>2, <2>4, FS_Subset
  <2> HIDE DEF cut
  <2> QED
    BY <1>2, <1>3, <2>1, <2>3, <2>4, <2>5
<1>16. CASE Sync!Exit
  <2>1. abandoned' = 0 /\ Threads' = {}
    BY <1>5, <1>16 DEF Sync!Exit, Sync!Cut, Sync!Idle, Threads
  <2> QED
    BY <1>3, <2>1, <1>2, FS_EmptySet
<1> QED
  BY <1>7, <1>8, <1>9, <1>11, <1>12, <1>13, <1>14, <1>15, <1>16 DEF Sync!Next

\* The state keeps its types for any finite number of mailboxes, and with them the bound
\* of the pool: an attempt that times out leaves its thread to the abandoned ones, and a
\* stopped run all of its threads.
THEOREM SyncTypeCorrect ==
  ASSUME IsFiniteSet(Account)
  PROVE  Sync!Spec => []Sync!TypeOK
<1>1. Sync!Init => PoolInv /\ RestTypes
  <2> SUFFICES ASSUME Sync!Init PROVE RestTypes /\ abandoned \in Nat /\ Sync!Busy <= Pool
    BY SyncInitial DEF PoolInv
  <2>1. Threads = {} /\ abandoned = 0
    BY DEF Sync!Init, Sync!Idle, Threads
  <2>2. {Pool, Timeout, Requests, Faults} \subseteq Nat
    BY RecurringAssumption DEF RecurringAssumption, Sync!ScheduleAssumption
  <2>3. RestTypes
    BY <2>2 DEF Sync!Init, RestTypes
  <2> QED
    BY <2>1, <2>2, <2>3, FS_EmptySet, BusyIs
<1>2. PoolInv /\ RestTypes /\ [Sync!Next]_(Sync!vars) => (PoolInv /\ RestTypes)'
  BY SyncStep, RestStep, PoolStep DEF PoolInv
<1>3. PoolInv /\ RestTypes => Sync!TypeOK
  BY DEF PoolInv, RestTypes, SyncInv, SyncTypes, AttemptStates, Sync!TypeOK
<1> QED
  BY <1>1, <1>2, <1>3, PTL DEF Sync!Spec
-----------------------------------------------------------------------------
(* The graphs of MCRequests and MCRecurring                                *)

\* In the graph of MCRequests each module behaves as its own specification says: a step is
\* one of the part that was chosen, and a stutter of the others.
THEOREM PartsKeepTheirOwn == Spec => Send!Spec /\ Session!Spec /\ Patch!Spec
<1>1. Init => Send!Init /\ Session!Init /\ Patch!Init
  BY DEF Init
<1>2. [Next]_vars => [Send!Next]_(Send!vars)
  BY DEF Next, SendNext, SessionNext, PatchNext, vars, sendVars, Send!vars
<1>3. [Next]_vars => [Session!Next]_(Session!vars)
  BY DEF Next, SendNext, SessionNext, PatchNext, vars, sessionVars, Session!vars
<1>4. [Next]_vars => [Patch!Next]_(Patch!vars)
  BY DEF Next, SendNext, SessionNext, PatchNext, vars, patchVars, Patch!vars
<1> QED
  BY <1>1, <1>2, <1>3, <1>4, PTL DEF Spec, Send!Spec, Session!Spec, Patch!Spec

\* In the graph of MCRecurring, likewise, with its fairness or without.
THEOREM JobsKeepTheirOwn == RecurringSpec => Sync!Spec /\ Rate!Spec /\ Seed!Spec
<1>1. RecurringInit => Sync!Init /\ Rate!Init /\ Seed!Init
  BY DEF RecurringInit
<1>2. [RecurringNext]_recurringVars => [Sync!Next]_(Sync!vars)
  BY DEF RecurringNext, SyncNext, RateNext, SeedNext, recurringVars, syncVars, Sync!vars
<1>3. [RecurringNext]_recurringVars => [Rate!Next]_(Rate!vars)
  BY DEF RecurringNext, SyncNext, RateNext, SeedNext, recurringVars, rateVars, Rate!vars
<1>4. [RecurringNext]_recurringVars => [Seed!Next]_(Seed!vars)
  BY DEF RecurringNext, SyncNext, RateNext, SeedNext, recurringVars, seedVars, Seed!vars
<1> QED
  BY <1>1, <1>2, <1>3, <1>4, PTL DEF RecurringSpec, Sync!Spec, Rate!Spec, Seed!Spec

\* Hence what TLC checks of the run requests holds for all values of its constants.
THEOREM RequestsAreSafe ==
  Spec => /\ [](ClearFailuresSendNothing /\ OneSentCopy)
          /\ [](LossIsNoisy /\ UndoneIsNotPushed)
          /\ []PasswordsWereProbed /\ UnrivalledPatchIsProbed
BY PartsKeepTheirOwn, RepeatableAnswersSentNothing, OneSendOneCopy, CommittedIsHeardOf,
   OnlyLandedStatusIsPushed, StoredPasswordsWereProbed, UnrivalledPatchLeavesProbedLogin, PTL

\* And so does what it checks of the run recurring, liveness apart.
THEOREM RecurringIsSafe ==
  RecurringSpec => [](RequestInHand /\ WaitIsEnough /\ AtMostTwoWindows /\ ServingHasOwner)
BY JobsKeepTheirOwn, RequestsStayInHand, RetryAfterIsEnough, TwoWindowsAtMost,
   ServiceUserIsThere, PTL
=============================================================================
