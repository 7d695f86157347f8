------------------------ MODULE MailboxStatusProofs ------------------------
(***************************************************************************)
(* Proofs about MailboxStatus for every set of mailboxes and overlapping   *)
(* runs, every threshold of the breaker and every number of requests and   *)
(* faults: type correctness, the coherence of the status columns, the      *)
(* breaker, and the mirror.                                                *)
(***************************************************************************)
EXTENDS MailboxStatus, SequenceTheorems, FiniteSetTheorems, TLAPS

-----------------------------------------------------------------------------
(* The list: each operation keeps the element type, and neither loses nor  *)
(* invents an item                                                         *)

\* The elements of a list are what its indices reach.
LEMMA ToSetOfSeq ==
  ASSUME NEW S, NEW s \in Seq(S)
  PROVE  /\ \A x : x \in ToSet(s) <=> \E i \in 1 .. Len(s) : x = s[i]
         /\ ToSet(s) \subseteq S
<1>1. DOMAIN s = 1 .. Len(s) /\ \A i \in 1 .. Len(s) : s[i] \in S
  OBVIOUS
<1>2. ToSet(s) = {s[i] : i \in 1 .. Len(s)}
  BY <1>1 DEF ToSet
<1>3. QED BY <1>1, <1>2

\* A concatenation holds the elements of both lists.
LEMMA ToSetOfConcat ==
  ASSUME NEW S, NEW s \in Seq(S), NEW t \in Seq(S)
  PROVE  s \o t \in Seq(S) /\ ToSet(s \o t) = ToSet(s) \union ToSet(t)
<1>1. s \o t \in Seq(S)
  BY ConcatProperties
<1>2. \A u : ToSet(u) = Range(u)
  BY DEF ToSet, Range
<1>3. Range(s \o t) = Range(s) \union Range(t)
  BY RangeConcatenation
<1>4. QED BY <1>1, <1>2, <1>3

\* LPOP with a count splits the list: what it returns and what it leaves are
\* lists of the same type and hold between them every element.
LEMMA LPopProperties ==
  ASSUME NEW S, NEW q \in Seq(S), NEW count \in Nat
  PROVE  /\ LPopped(q, count) \in Seq(S)
         /\ LPopRest(q, count) \in Seq(S)
         /\ ToSet(q) = ToSet(LPopped(q, count)) \union ToSet(LPopRest(q, count))
<1>1. PopLen(q, count) \in 0 .. Len(q) /\ Len(q) \in Nat
  BY DEF PopLen
<1>2. LPopped(q, count) \in Seq(S) /\ LPopRest(q, count) \in Seq(S)
  BY <1>1 DEF LPopped, LPopRest
<1>3. LPopped(q, count) \o LPopRest(q, count) = q
  <2>1. /\ 1 \in 1 .. Len(q) + 1 /\ PopLen(q, count) \in 1 - 1 .. Len(q)
        /\ Len(q) \in PopLen(q, count) .. Len(q)
    BY <1>1
  <2>2. LPopped(q, count) \o LPopRest(q, count) = SubSeq(q, 1, Len(q))
    BY <2>1, ConcatAdjacentSubSeq, Zenon DEF LPopped, LPopRest
  <2>3. QED BY <2>2, SubSeqFull, Zenon
<1> DEFINE front == LPopped(q, count)
           rest == LPopRest(q, count)
<1> HIDE DEF front, rest
<1>4. front \in Seq(S) /\ rest \in Seq(S) /\ front \o rest = q
  BY <1>2, <1>3 DEF front, rest
<1>5. ToSet(q) = ToSet(front) \union ToSet(rest)
  BY <1>4, ToSetOfConcat
<1>6. QED BY <1>2, <1>5 DEF front, rest

\* LPUSH of one item: that item, then the list as it was.
LEMMA LPushOne ==
  ASSUME NEW S, NEW x \in S, NEW q \in Seq(S)
  PROVE  /\ LPush(<<x>>, q) \in Seq(S)
         /\ ToSet(LPush(<<x>>, q)) = {x} \union ToSet(q)
<1> DEFINE one == <<x>>
<1>1. one \in Seq(S) /\ Reverse(one) = one /\ ToSet(one) = {x}
  BY DEF Reverse, ToSet
<1> HIDE DEF one
<1>2. one \o q \in Seq(S) /\ ToSet(one \o q) = ToSet(one) \union ToSet(q)
  BY <1>1, ToSetOfConcat
<1>3. LPush(one, q) = one \o q
  BY <1>1 DEF LPush
<1>4. QED BY <1>1, <1>2, <1>3 DEF one

\* The items of a nonempty list are its head and the items of its tail.
LEMMA HeadAndTail ==
  ASSUME NEW S, NEW q \in Seq(S), q # <<>>
  PROVE  /\ Head(q) \in S /\ Tail(q) \in Seq(S)
         /\ ToSet(q) = {Head(q)} \union ToSet(Tail(q))
<1> DEFINE one == <<Head(q)>>
           rest == Tail(q)
<1>1. one \in Seq(S) /\ rest \in Seq(S) /\ Head(q) \in S /\ ToSet(one) = {Head(q)}
  BY DEF ToSet
<1>2. q = one \o rest
  OBVIOUS
<1> HIDE DEF one, rest
<1>3. ToSet(one \o rest) = ToSet(one) \union ToSet(rest)
  BY <1>1, ToSetOfConcat
<1>4. QED BY <1>1, <1>2, <1>3 DEF rest

-----------------------------------------------------------------------------
(* Type correctness                                                        *)

\* What a fault does to the history variables.
LEMMA FaultType ==
  ASSUME lost \subseteq Account, faults \in Nat, NEW S, S \subseteq Account, Fault(S)
  PROVE  lost' \subseteq Account /\ faults' \in Nat
BY DEF Fault

\* The updates of the status columns, whoever writes them, give typed rows.
LEMMA RowUpdates ==
  ASSUME NEW r \in Row
  PROVE  /\ [r EXCEPT !.err = "none", !.fails = 0] \in Row
         /\ \A e \in Errors : [r EXCEPT !.err = e] \in Row
         /\ [r EXCEPT !.consent = TRUE, !.err = "consent"] \in Row
         /\ FailedOnce(r) \in Row
         /\ [r EXCEPT !.active = FALSE, !.stamp = TRUE] \in Row
         /\ [r EXCEPT !.consent = FALSE] \in Row
         /\ \A edit \in Edit : Edited(r, edit) \in Row
         /\ Snapshot(r) \in Status
         /\ Clean \in Row /\ Gone \in Row /\ Snapshot(Clean) \in Status
<1>1. /\ [r EXCEPT !.err = "none", !.fails = 0] \in Row
      /\ \A e \in Errors : [r EXCEPT !.err = e] \in Row
  BY DEF Row, Errors
<1>2. /\ [r EXCEPT !.consent = TRUE, !.err = "consent"] \in Row
      /\ [r EXCEPT !.consent = FALSE] \in Row
  BY DEF Row, Errors
<1>3. FailedOnce(r) \in Row
  <2> DEFINE n == IF r.fails < MaxFailures THEN r.fails + 1 ELSE r.fails
  <2>1. n \in Nat
    BY DEF Row
  <2>2. \A m \in Nat : [r EXCEPT !.fails = m, !.err = "permanent"] \in Row
    BY DEF Row, Errors
  <2>3. FailedOnce(r) = [r EXCEPT !.fails = n, !.err = "permanent"]
    BY DEF FailedOnce
  <2>4. QED BY <2>1, <2>2, <2>3
<1>4. [r EXCEPT !.active = FALSE, !.stamp = TRUE] \in Row
  BY DEF Row
<1>5. ASSUME NEW edit \in Edit PROVE Edited(r, edit) \in Row
  <2>1. Edited(r, "enable") \in Row
    BY DEF Row, Errors, Edited
  <2>2. Edited(r, "disable") \in Row
    BY DEF Row, Errors, Edited
  <2>3. Edited(r, "replace") \in Row
    BY DEF Row, Errors, Edited
  <2>4. QED BY <1>5, <2>1, <2>2, <2>3 DEF Edit
<1>6. Snapshot(r) \in Status
  BY DEF Row, Snapshot, Status
<1>7. Clean \in Row
  BY DEF Row, Errors, Clean
<1>8. Gone \in Row
  BY <1>7 DEF Row, Gone, Clean
<1>9. Snapshot(Clean) \in Status
  BY DEF Snapshot, Clean, Status, Errors
<1>10. QED BY <1>1, <1>2, <1>3, <1>4, <1>5, <1>6, <1>7, <1>8, <1>9

\* A primary-key UPDATE keeps the rows typed.
LEMMA WriteType ==
  ASSUME row \in [Account -> Row], NEW a \in Account, NEW r \in Row, Write(a, r)
  PROVE  row' \in [Account -> Row]
BY DEF Write

\* A task that committed a typed row keeps the types.
LEMMA CommitThenType ==
  ASSUME TypeOK, NEW j \in Job, NEW a \in Account, NEW r \in Row,
         NEW outcome \in Outcome, CommitThen(j, a, r, outcome)
  PROVE  TypeOK'
<1>1. row' \in [Account -> Row]
  BY WriteType DEF CommitThen, TypeOK
<1>2. /\ task' \in [Job -> [Account -> Outcome]]
      /\ owed' \in [Job -> SUBSET Account]
  BY DEF CommitThen, TypeOK
<1>3. UNCHANGED <<stage, request, channelVars, lost, edits, faults>>
  BY DEF CommitThen, NoFault
<1>4. QED BY <1>1, <1>2, <1>3 DEF TypeOK, channelVars

\* So does a task that ended without a write, and the end of a run.
LEMMA EndTaskType ==
  ASSUME TypeOK, NEW j \in Job, NEW a \in Account, NEW outcome \in Outcome,
         EndTask(j, a, outcome), lost' \subseteq Account, faults' \in Nat
  PROVE  TypeOK'
<1>1. task' \in [Job -> [Account -> Outcome]]
  BY DEF EndTask, TypeOK
<1>2. QED BY <1>1 DEF EndTask, TypeOK, channelVars

LEMMA EndRunType ==
  ASSUME TypeOK, NEW j \in Job, EndRun(j), lost' \subseteq Account, faults' \in Nat
  PROVE  TypeOK'
<1>1. /\ stage' \in [Job -> {"idle", "gather", "collect", "disable"}]
      /\ task' \in [Job -> [Account -> Outcome]]
  BY DEF EndRun, TypeOK, NoTasks, Outcome
<1>2. QED BY <1>1 DEF EndRun, TypeOK, channelVars

\* The steps of one mailbox inside a sync run.
LEMMA TaskTypeOK ==
  ASSUME TypeOK, NEW j \in Job, NEW a \in Account, TaskStep(j, a)
  PROVE  TypeOK'
<1> USE DEF TypeOK
<1>1. /\ row[a] \in Row /\ row[a].err \in Errors
      /\ {"ok", "transient", "permanent", "crashed", "unexpected", "bumped", "disabled"}
           \subseteq Outcome
      /\ {"transient", "permanent", "consent"} \subseteq Errors
  BY DEF Row, Errors, Outcome, Verdicts
<1>2. NoFault => lost' \subseteq Account /\ faults' \in Nat
  BY DEF NoFault
<1>3. CASE SyncSucceeds(j, a)
  BY <1>1, <1>3, RowUpdates, CommitThenType DEF SyncSucceeds
<1>4. CASE SyncTransient(j, a)
  BY <1>1, <1>2, <1>4, RowUpdates, CommitThenType, EndTaskType DEF SyncTransient
<1>5. CASE SyncPermanent(j, a)
  BY <1>1, <1>5, RowUpdates, CommitThenType DEF SyncPermanent
<1>6. CASE SyncRevoked(j, a)
  BY <1>1, <1>2, <1>6, RowUpdates, CommitThenType, EndTaskType DEF SyncRevoked, Revoked
<1>7. CASE SkipConsent(j, a)
  BY <1>1, <1>2, <1>7, RowUpdates, CommitThenType, EndTaskType DEF SkipConsent
<1>8. CASE SyncCrashes(j, a)
  <2>1. lost' \subseteq Account /\ faults' \in Nat
    BY <1>2, <1>8, FaultType DEF SyncCrashes
  <2>2. QED BY <1>1, <1>8, <2>1, EndTaskType DEF SyncCrashes
<1>9. CASE EnqueueOwed(j, a)
  <2>1. queue' \in Seq(Account)
    BY <1>9, LPushOne DEF EnqueueOwed, Enqueue
  <2>2. QED BY <1>9, <2>1 DEF EnqueueOwed
<1>10. CASE EnqueueOwedFails(j, a)
  <2>1. lost' \subseteq Account /\ faults' \in Nat
    BY <1>10, FaultType DEF EnqueueOwedFails
  <2>2. QED BY <1>10, <2>1 DEF EnqueueOwedFails, channelVars
<1>11. CASE RecordCrash(j, a)
  <2>1. Fault({}) => lost' \subseteq Account /\ faults' \in Nat
    BY FaultType
  <2>2. QED BY <1>1, <1>11, <2>1, RowUpdates, CommitThenType, EndTaskType DEF RecordCrash
<1>12. CASE Bump(j, a)
  BY <1>1, <1>12, RowUpdates, CommitThenType DEF Bump
<1>13. CASE Disable(j, a)
  BY <1>1, <1>13, RowUpdates, CommitThenType DEF Disable
<1>14. CASE RefreshToken(j, a)
  <2>1. row' \in [Account -> Row]
    BY <1>1, <1>14, RowUpdates, WriteType DEF RefreshToken
  <2>2. QED BY <1>2, <1>14, <2>1 DEF RefreshToken, workerVars, channelVars
<1>15. QED
  BY <1>3, <1>4, <1>5, <1>6, <1>7, <1>8, <1>9, <1>10, <1>11, <1>12, <1>13, <1>14
  DEF TaskStep, TaskEnds

\* The steps of a run as a whole.
LEMMA RunTypeOK ==
  ASSUME TypeOK, NEW j \in Job, RunStep(j)
  PROVE  TypeOK'
<1> USE DEF TypeOK
<1>1. NoFault => lost' \subseteq Account /\ faults' \in Nat
  BY DEF NoFault
<1>2. CASE StartRun(j)
  <2>1. /\ stage' \in [Job -> {"idle", "gather", "collect", "disable"}]
        /\ task' \in [Job -> [Account -> Outcome]]
    BY <1>2 DEF StartRun, Outcome
  <2>2. QED BY <1>1, <1>2, <2>1 DEF StartRun, channelVars
<1>3. CASE Gathered(j)
  <2>1. stage' \in [Job -> {"idle", "gather", "collect", "disable"}]
    BY <1>3 DEF Gathered
  <2>2. QED BY <1>1, <1>3, <2>1 DEF Gathered, channelVars
<1>4. CASE Decide(j)
  <2>1. CASE Tripped(j)
    BY <1>1, <1>4, <2>1, EndRunType DEF Decide
  <2>2. CASE ~ Tripped(j)
    <3>1. stage' \in [Job -> {"idle", "gather", "collect", "disable"}]
      BY <1>4, <2>2 DEF Decide
    <3>2. QED BY <1>1, <1>4, <2>2, <3>1 DEF Decide, channelVars
  <2>3. QED BY <2>1, <2>2
<1>5. CASE FinishRun(j)
  BY <1>1, <1>5, EndRunType DEF FinishRun
<1>6. CASE RunFails(j)
  <2>1. lost' \subseteq Account /\ faults' \in Nat
    BY <1>6, FaultType DEF RunFails
  <2>2. QED BY <1>6, <2>1, EndRunType DEF RunFails
<1>7. QED BY <1>2, <1>3, <1>4, <1>5, <1>6, TaskTypeOK DEF RunStep

\* The requests of the API.
LEMMA ApiTypeOK ==
  ASSUME TypeOK, ApiStep
  PROVE  TypeOK'
<1> USE DEF TypeOK
<1>1. NoFault => lost' \subseteq Account /\ faults' \in Nat
  BY DEF NoFault
<1> DEFINE Open == [stage : {"open", "committed"}, account : Account,
                    edit : Edit \union {"revoked"}, pending : {1, 2}]
<1>r. request.stage \in {"open", "committed"} => request \in Open
  BY DEF NoRequest
<1>2. ASSUME NEW a \in Account, NEW edit \in Edit, BeginPatch(a, edit)
      PROVE  TypeOK'
  <2>1. request' \in Open /\ request'.edit \in Edit
    BY <1>2 DEF BeginPatch, EventsOf, Edit
  <2>2. edits' \in Nat
    BY <1>2 DEF BeginPatch
  <2>3. QED BY <1>1, <1>2, <2>1, <2>2 DEF BeginPatch, workerVars, channelVars
<1>3. ASSUME NEW a \in Account, NEW r \in Row, WriteSilently(a, r)
      PROVE  TypeOK'
  <2>1. row' \in [Account -> Row] /\ edits' \in Nat
    BY <1>3 DEF WriteSilently
  <2>2. QED BY <1>1, <1>3, <2>1 DEF WriteSilently, workerVars, channelVars
<1>4. ASSUME NEW a \in Account, DeleteMailbox(a) \/ Relink(a)
      PROVE  TypeOK'
  <2>1. row[a] \in Row
    OBVIOUS
  <2>2. QED BY <1>3, <1>4, <2>1, RowUpdates DEF DeleteMailbox, Relink
<1>s. ASSUME NEW a \in Account, SendRevoked(a)
      PROVE  TypeOK'
  <2>1. request' \in Open /\ request'.stage = "committed" /\ edits' \in Nat
    BY <1>s DEF SendRevoked
  <2>2. row' \in [Account -> Row]
    BY <1>s, RowUpdates, WriteType DEF SendRevoked, Revoked
  <2>3. QED BY <1>1, <1>s, <2>1, <2>2 DEF SendRevoked, workerVars, channelVars
<1>5. CASE CommitPatch
  <2>1. request \in Open /\ request.edit \in Edit
    BY <1>5, <1>r DEF CommitPatch
  <2>2. Edited(row[request.account], request.edit) \in Row
    BY <2>1, RowUpdates
  <2>3. row' \in [Account -> Row]
    BY <1>5, <2>1, <2>2, WriteType DEF CommitPatch
  <2>4. request' \in Open /\ request'.stage = "committed"
    BY <1>5, <2>1 DEF CommitPatch
  <2>5. QED BY <1>1, <1>5, <2>3, <2>4 DEF CommitPatch, workerVars, channelVars
<1>6. CASE RollbackPatch
  BY <1>1, <1>6 DEF RollbackPatch, NoRequest, workerVars, channelVars
<1>7. CASE FlushEvent
  <2>1. request \in Open
    BY <1>7, <1>r DEF FlushEvent
  <2>2. request' \in {NoRequest} \union Open /\ request'.stage # "open"
    <3>1. CASE request.pending = 1
      BY <1>7, <3>1 DEF FlushEvent, OneEventLess, NoRequest
    <3>2. CASE request.pending # 1
      <4>1. request.pending - 1 = 1
        BY <2>1, <3>2
      <4>2. request' = [request EXCEPT !.pending = 1]
        BY <1>7, <3>2, <4>1 DEF FlushEvent, OneEventLess
      <4>3. QED BY <1>7, <2>1, <4>2 DEF FlushEvent
    <3>3. QED BY <3>1, <3>2
  <2>3. queue' \in Seq(Account) /\ lost' \subseteq Account
    BY <1>7, <2>1, LPushOne DEF FlushEvent, Enqueue
  <2>4. QED BY <1>7, <2>2, <2>3 DEF FlushEvent, workerVars
<1>8. CASE FlushFails
  <2>1. lost' \subseteq Account /\ faults' \in Nat
    BY <1>8, <1>r, FaultType DEF FlushFails
  <2>2. QED BY <1>8, <2>1 DEF FlushFails, NoRequest, workerVars, channelVars
<1>9. QED BY <1>2, <1>4, <1>s, <1>5, <1>6, <1>7, <1>8 DEF ApiStep

\* The status dispatcher.
LEMMA DispatchTypeOK ==
  ASSUME TypeOK, DispatchStep
  PROVE  TypeOK'
<1> USE DEF TypeOK
<1>1. NoFault => lost' \subseteq Account /\ faults' \in Nat
  BY DEF NoFault
<1> DEFINE Sent == [stage : {"sent", "failed"}, snap : Status]
<1>p. posting.stage # "none" => posting \in Sent /\ batch # <<>>
  BY DEF NoPost
<1>b. batch # <<>> => Head(batch) \in Account /\ Tail(batch) \in Seq(Account)
  BY HeadAndTail
<1>2. CASE PopStatus
  <2>1. queue' \in Seq(Account) /\ batch' \in Seq(Account)
    BY <1>2, StatusAssumption, LPopProperties DEF PopStatus
  <2>2. posting' = NoPost
    BY <1>2 DEF PopStatus
  <2>3. QED BY <1>1, <1>2, <2>1, <2>2 DEF PopStatus, workerVars
<1>3. CASE LoadSnapshot
  <2>1. posting = NoPost
    BY <1>3 DEF LoadSnapshot
  <2>2. CASE row[Head(batch)].here
    <3>1. Snapshot(row[Head(batch)]) \in Status
      BY <1>3, <1>b, RowUpdates DEF LoadSnapshot
    <3>2. posting' \in Sent /\ batch' = batch /\ batch # <<>>
      BY <1>3, <2>2, <3>1 DEF LoadSnapshot
    <3>3. QED BY <1>1, <1>3, <3>2 DEF LoadSnapshot, workerVars
  <2>3. CASE ~ row[Head(batch)].here
    <3>1. posting' = NoPost /\ batch' \in Seq(Account)
      BY <1>3, <1>b, <2>1, <2>3 DEF LoadSnapshot
    <3>2. QED BY <1>1, <1>3, <3>1 DEF LoadSnapshot, workerVars
  <2>4. QED BY <2>2, <2>3
<1>4. CASE PostAccepted
  <2>1. mirror' \in [Account -> Status] /\ batch' \in Seq(Account) /\ posting' = NoPost
    BY <1>4, <1>p, <1>b DEF PostAccepted
  <2>2. QED BY <1>1, <1>4, <2>1 DEF PostAccepted, workerVars
<1>5. CASE PostFails
  <2>1. /\ mirror' \in [Account -> Status]
        /\ posting' \in Sent /\ batch # <<>>
    BY <1>5, <1>p, <1>b DEF PostFails
  <2>2. QED BY <1>1, <1>5, <2>1 DEF PostFails, workerVars
<1>6. CASE PostTimesOut
  <2>1. posting \in Sent /\ batch # <<>>
    BY <1>6, <1>p DEF PostTimesOut
  <2>2. /\ posting' \in Sent
        /\ late' = late \union {[account |-> Head(batch), snap |-> posting.snap, arrived |-> FALSE]}
        /\ Head(batch) \in Account /\ posting.snap \in Status
    BY <1>6, <1>b, <2>1 DEF PostTimesOut
  <2>l. late' \subseteq [account : Account, snap : Status, arrived : BOOLEAN]
    <3>1. [account |-> Head(batch), snap |-> posting.snap, arrived |-> FALSE]
            \in [account : Account, snap : Status, arrived : BOOLEAN]
      BY <2>2
    <3>2. late \subseteq [account : Account, snap : Status, arrived : BOOLEAN]
      BY DEF TypeOK
    <3>3. QED BY <2>2, <3>1, <3>2
  <2>3. QED BY <1>1, <1>6, <2>1, <2>2, <2>l DEF PostTimesOut, workerVars
<1>7. CASE LatePostArrives
  <2>1. /\ mirror' \in [Account -> Status]
        /\ late' \subseteq [account : Account, snap : Status, arrived : BOOLEAN]
    BY <1>7 DEF LatePostArrives
  <2>2. QED BY <1>1, <1>7, <2>1 DEF LatePostArrives, workerVars
<1>8. CASE ReenqueueStatus
  <2>1. queue' \in Seq(Account) /\ batch' \in Seq(Account) /\ posting' = NoPost
    BY <1>8, <1>p, <1>b, LPushOne DEF ReenqueueStatus
  <2>2. QED BY <1>8, <2>1 DEF ReenqueueStatus, workerVars
<1>9. CASE ReenqueueFails
  <2>1. lost' \subseteq Account /\ faults' \in Nat
    BY <1>9, <1>p, <1>b, FaultType DEF ReenqueueFails
  <2>2. batch' \in Seq(Account) /\ posting' = NoPost
    BY <1>9, <1>p, <1>b DEF ReenqueueFails
  <2>3. QED BY <1>9, <2>1, <2>2 DEF ReenqueueFails, workerVars
<1>10. QED
  BY <1>2, <1>3, <1>4, <1>5, <1>6, <1>7, <1>8, <1>9 DEF DispatchStep

\* Every step keeps the types.
LEMMA NextTypeOK == TypeOK /\ [Next]_vars => TypeOK'
<1> SUFFICES ASSUME TypeOK, [Next]_vars PROVE TypeOK'
  OBVIOUS
<1> USE DEF TypeOK
<1>1. CASE WorkerRestart
  <2>1. ToSet(batch) \subseteq Account /\ AllOwed \subseteq Account
    BY ToSetOfSeq DEF AllOwed
  <2>2. lost' \subseteq Account /\ faults' \in Nat
    BY <1>1, <2>1, FaultType DEF WorkerRestart
  <2>3. /\ stage' \in [Job -> {"idle", "gather", "collect", "disable"}]
        /\ task' \in [Job -> [Account -> Outcome]]
        /\ owed' \in [Job -> SUBSET Account]
        /\ batch' \in Seq(Account) /\ posting' = NoPost
    BY <1>1 DEF WorkerRestart, NoTasks, Outcome
  <2>4. QED BY <1>1, <2>2, <2>3 DEF WorkerRestart
<1>2. CASE RedisLoss
  <2>1. lost' \subseteq Account /\ faults' \in Nat
    BY <1>2, FaultType, ToSetOfSeq DEF RedisLoss
  <2>2. queue' \in Seq(Account)
    BY <1>2 DEF RedisLoss
  <2>3. QED BY <1>2, <2>1, <2>2 DEF RedisLoss, workerVars
<1>3. CASE UNCHANGED vars
  BY <1>3 DEF vars, workerVars, channelVars
<1>4. QED
  BY <1>1, <1>2, <1>3, RunTypeOK, ApiTypeOK, DispatchTypeOK DEF Next

\* The initial state is typed.
LEMMA InitTypeOK == Init => TypeOK
<1> SUFFICES ASSUME Init PROVE TypeOK
  OBVIOUS
<1>1. Clean \in Row /\ Snapshot(Clean) \in Status
  <2>1. Clean \in Row
    BY DEF Clean, Row, Errors
  <2>2. QED BY <2>1, RowUpdates
<1>2. task \in [Job -> [Account -> Outcome]]
  BY DEF Init, NoTasks, Outcome
<1>3. QED BY <1>1, <1>2 DEF Init, TypeOK, NoRequest

\* Statuses, runs, requests, queue and posts keep their types, whoever
\* interleaves with whom.
THEOREM TypeCorrect == Spec => []TypeOK
BY InitTypeOK, NextTypeOK, PTL DEF Spec

-----------------------------------------------------------------------------
(* The coherence of the status columns                                     *)

CoherentRow(r) ==
  /\ r.active => ~ r.stamp
  /\ r.fails > 0 => r.err # "none"

\* Every update of the status columns keeps a coherent row coherent.
LEMMA CoherentUpdates ==
  ASSUME NEW r \in Row, CoherentRow(r)
  PROVE  /\ CoherentRow([r EXCEPT !.err = "none", !.fails = 0])
         /\ \A e \in Errors \ {"none"} : CoherentRow([r EXCEPT !.err = e])
         /\ CoherentRow([r EXCEPT !.consent = TRUE, !.err = "consent"])
         /\ CoherentRow(FailedOnce(r))
         /\ CoherentRow([r EXCEPT !.active = FALSE, !.stamp = TRUE])
         /\ CoherentRow([r EXCEPT !.consent = FALSE])
         /\ \A edit \in Edit : CoherentRow(Edited(r, edit))
         /\ CoherentRow(Gone)
<1>1. CoherentRow([r EXCEPT !.err = "none", !.fails = 0])
  BY DEF CoherentRow, Row
<1>2. \A e \in Errors \ {"none"} : CoherentRow([r EXCEPT !.err = e])
  BY DEF CoherentRow, Row
<1>3. CoherentRow([r EXCEPT !.consent = TRUE, !.err = "consent"])
  BY DEF CoherentRow, Row
<1>4. CoherentRow(FailedOnce(r))
  BY DEF CoherentRow, Row, FailedOnce
<1>5. CoherentRow([r EXCEPT !.active = FALSE, !.stamp = TRUE])
  BY DEF CoherentRow, Row
<1>6. CoherentRow([r EXCEPT !.consent = FALSE])
  BY DEF CoherentRow, Row
<1>7. ASSUME NEW edit \in Edit PROVE CoherentRow(Edited(r, edit))
  <2>1. CoherentRow(Edited(r, "enable"))
    <3>1. Edited(r, "enable").stamp = FALSE /\ Edited(r, "enable").fails = 0
      BY DEF Row, Edited
    <3>2. QED BY <3>1 DEF CoherentRow
  <2>2. CoherentRow(Edited(r, "disable"))
    BY DEF CoherentRow, Row, Edited
  <2>3. CoherentRow(Edited(r, "replace"))
    <3>1. Edited(r, "replace").stamp = FALSE /\ Edited(r, "replace").fails = 0
      BY DEF Row, Edited
    <3>2. QED BY <3>1 DEF CoherentRow
  <2>4. QED BY <1>7, <2>1, <2>2, <2>3 DEF Edit
<1>8. CoherentRow(Gone)
  BY DEF CoherentRow, Gone, Clean
<1>9. QED BY <1>1, <1>2, <1>3, <1>4, <1>5, <1>6, <1>7, <1>8

\* A step writes no row, or one row, coherently.
LEMMA NextRowWrite ==
  ASSUME TypeOK, StatusCoherent, [Next]_vars
  PROVE  \/ row' = row
         \/ \E a \in Account, r \in Row :
              CoherentRow(r) /\ row' = [row EXCEPT ![a] = r]
<1> DEFINE Goal == \/ row' = row
                   \/ \E a \in Account, r \in Row :
                        CoherentRow(r) /\ row' = [row EXCEPT ![a] = r]
<1>t. \A a \in Account : row[a] \in Row /\ CoherentRow(row[a])
  BY DEF TypeOK, StatusCoherent, CoherentRow
<1>1. ASSUME NEW a \in Account, NEW r \in Row, CoherentRow(r), Write(a, r) PROVE Goal
  BY <1>1 DEF Write, TypeOK
<1>2. ASSUME NEW j \in Job, NEW a \in Account, TaskStep(j, a) PROVE Goal
  <2>1. row[a] \in Row /\ CoherentRow(row[a])
    BY <1>t
  <2>2. ASSUME NEW r \in Row, CoherentRow(r), NEW outcome, CommitThen(j, a, r, outcome)
        PROVE  Goal
    BY <1>1, <2>2 DEF CommitThen
  <2>e. {"transient", "permanent", "consent"} \subseteq Errors \ {"none"}
    BY DEF Errors
  <2> HIDE DEF Goal
  <2>3. ASSUME EndTask(j, a, "ok") \/ EndTask(j, a, "transient")
                 \/ EndTask(j, a, "crashed") \/ EndTask(j, a, "unexpected")
        PROVE  Goal
    BY <2>3 DEF EndTask, Goal
  <2>4. CASE SyncSucceeds(j, a)
    BY <2>1, <2>2, <2>4, RowUpdates, CoherentUpdates DEF SyncSucceeds
  <2>5. CASE SyncTransient(j, a) \/ SyncPermanent(j, a)
    BY <2>1, <2>2, <2>3, <2>5, <2>e, RowUpdates, CoherentUpdates
    DEF SyncTransient, SyncPermanent
  <2>6. CASE SyncRevoked(j, a)
    BY <2>1, <2>2, <2>3, <2>6, RowUpdates, CoherentUpdates DEF SyncRevoked, Revoked
  <2>r. CASE RefreshToken(j, a)
    BY <1>1, <2>1, <2>r, RowUpdates, CoherentUpdates DEF RefreshToken
  <2>7. CASE SkipConsent(j, a)
    BY <2>1, <2>2, <2>3, <2>7, <2>e, RowUpdates, CoherentUpdates DEF SkipConsent
  <2>8. CASE SyncCrashes(j, a)
    BY <2>3, <2>8 DEF SyncCrashes
  <2>9. CASE EnqueueOwed(j, a) \/ EnqueueOwedFails(j, a)
    BY <2>9 DEF EnqueueOwed, EnqueueOwedFails, Goal
  <2>10. CASE RecordCrash(j, a)
    BY <2>1, <2>2, <2>3, <2>10, <2>e, RowUpdates, CoherentUpdates DEF RecordCrash
  <2>11. CASE Bump(j, a)
    BY <2>1, <2>2, <2>11, RowUpdates, CoherentUpdates DEF Bump
  <2>12. CASE Disable(j, a)
    BY <2>1, <2>2, <2>12, RowUpdates, CoherentUpdates DEF Disable
  <2>13. QED
    BY <1>2, <2>4, <2>5, <2>6, <2>r, <2>7, <2>8, <2>9, <2>10, <2>11, <2>12
    DEF TaskStep, TaskEnds
<1>3. ASSUME NEW j \in Job, RunStep(j) PROVE Goal
  BY <1>2, <1>3 DEF RunStep, StartRun, Gathered, Decide, FinishRun, RunFails, EndRun
<1>4. ASSUME ApiStep PROVE Goal
  <2>1. ASSUME NEW a \in Account, DeleteMailbox(a) \/ Relink(a) PROVE Goal
    <3>1. /\ Gone \in Row /\ CoherentRow(Gone)
          /\ [row[a] EXCEPT !.consent = FALSE] \in Row
          /\ CoherentRow([row[a] EXCEPT !.consent = FALSE])
      BY <1>t, RowUpdates, CoherentUpdates
    <3>2. QED BY <2>1, <3>1 DEF DeleteMailbox, Relink, WriteSilently
  <2> HIDE DEF Goal
  <2>2. CASE CommitPatch
    <3>1. request.account \in Account /\ request.edit \in Edit
      BY <2>2 DEF CommitPatch, TypeOK, NoRequest
    <3>2. /\ Edited(row[request.account], request.edit) \in Row
          /\ CoherentRow(Edited(row[request.account], request.edit))
      BY <1>t, <3>1, RowUpdates, CoherentUpdates
    <3>3. Write(request.account, Edited(row[request.account], request.edit))
      BY <2>2 DEF CommitPatch
    <3>4. QED BY <1>1, <3>1, <3>2, <3>3
  <2>3. ASSUME NEW a \in Account, SendRevoked(a) PROVE Goal
    BY <1>1, <1>t, <2>3, RowUpdates, CoherentUpdates DEF SendRevoked, Revoked
  <2>4. QED
    BY <1>4, <2>1, <2>2, <2>3
    DEF ApiStep, BeginPatch, RollbackPatch, FlushEvent, FlushFails, Goal
<1>5. CASE DispatchStep
  BY <1>5 DEF DispatchStep, PopStatus, LoadSnapshot, PostAccepted, PostFails,
              PostTimesOut, LatePostArrives, ReenqueueStatus, ReenqueueFails
<1>6. CASE WorkerRestart \/ RedisLoss \/ UNCHANGED vars
  BY <1>6 DEF WorkerRestart, RedisLoss, vars
<1>7. QED BY <1>3, <1>4, <1>5, <1>6 DEF Next

\* An active mailbox never carries the alert stamp and failures are never
\* counted without an error, whoever wrote the row last.
THEOREM StatusStaysCoherent == Spec => []StatusCoherent
<1>1. Init => StatusCoherent
  BY DEF Init, Clean, StatusCoherent
<1>2. TypeOK /\ StatusCoherent /\ [Next]_vars => StatusCoherent'
  <2> SUFFICES ASSUME TypeOK, StatusCoherent, [Next]_vars, NEW b \in Account
               PROVE  CoherentRow(row'[b])
    BY DEF StatusCoherent, CoherentRow
  <2>1. CoherentRow(row[b])
    BY DEF StatusCoherent, CoherentRow
  <2>2. QED BY <2>1, NextRowWrite DEF TypeOK
<1>3. QED BY <1>1, <1>2, TypeCorrect, PTL DEF Spec

-----------------------------------------------------------------------------
(* The circuit breaker                                                     *)

CountedOutcomes == {"ok", "transient"} \union Verdicts

\* Once a run has gathered, no task of it is under way; once it disables, every
\* crash has been recorded and the breaker has not tripped on its outcomes.
RunSettled(j) ==
  /\ stage[j] \in {"collect", "disable"} =>
       \A a \in Account : task[j][a] \notin {"working", "skipping"}
  /\ stage[j] = "disable" =>
       /\ \A a \in Account : task[j][a] # "crashed"
       /\ ~ Tripped(j)

RunInv == \A j \in Job : RunSettled(j)

\* The breaker sees the same numbers as long as no outcome changes class.
LEMMA SameNumbers ==
  ASSUME NEW j \in Job,
         \A a \in Account :
           /\ task[j][a] \in Verdicts <=> task'[j][a] \in Verdicts
           /\ task[j][a] \in CountedOutcomes <=> task'[j][a] \in CountedOutcomes
  PROVE  Tripped(j)' <=> Tripped(j)
<1>1. /\ InState(j, Verdicts)' = InState(j, Verdicts)
      /\ Counted(j)' = Counted(j)
  BY DEF InState, Counted, CountedOutcomes
<1>2. QED BY <1>1 DEF Tripped

\* A run that took no step stays as settled as it was.
LEMMA OtherRun ==
  ASSUME NEW j \in Job, RunSettled(j), stage'[j] = stage[j], task'[j] = task[j]
  PROVE  RunSettled(j)'
<1>1. Tripped(j)' <=> Tripped(j)
  BY SameNumbers
<1>2. QED BY <1>1 DEF RunSettled

\* The steps of one mailbox keep their run settled.
LEMMA TaskSettled ==
  ASSUME TypeOK, NEW j \in Job, RunSettled(j), NEW a \in Account, TaskStep(j, a)
  PROVE  RunSettled(j)'
<1>1. stage' = stage
  BY DEF TaskStep, RefreshToken, workerVars, TaskEnds, SyncSucceeds, SyncTransient, SyncPermanent, SyncRevoked,
         SkipConsent, SyncCrashes, EnqueueOwed, EnqueueOwedFails, RecordCrash, Bump,
         Disable, CommitThen, EndTask
<1>2. CASE EnqueueOwed(j, a) \/ EnqueueOwedFails(j, a) \/ RefreshToken(j, a)
  BY <1>1, <1>2, OtherRun DEF EnqueueOwed, EnqueueOwedFails, RefreshToken, workerVars
<1>3. CASE TaskEnds(j, a) \/ SkipConsent(j, a) \/ SyncCrashes(j, a)
  <2>1. task[j][a] \in {"working", "skipping"}
    BY <1>3 DEF TaskEnds, SyncSucceeds, SyncTransient, SyncPermanent, SyncRevoked,
                SkipConsent, SyncCrashes
  <2>2. QED BY <1>1, <2>1 DEF RunSettled
<1>4. CASE RecordCrash(j, a)
  <2>1. /\ stage[j] = "collect"
        /\ task' = [task EXCEPT ![j][a] = "unexpected"]
    BY <1>4 DEF RecordCrash, CommitThen, EndTask
  <2>2. QED BY <1>1, <2>1 DEF RunSettled, TypeOK
<1>5. CASE Bump(j, a) \/ Disable(j, a)
  <2>1. /\ task[j][a] \in Verdicts
        /\ \/ task' = [task EXCEPT ![j][a] = "bumped"]
           \/ task' = [task EXCEPT ![j][a] = "disabled"]
    BY <1>5 DEF Bump, Disable, CommitThen, Verdicts
  <2>2. /\ task'[j][a] \in {"bumped", "disabled"}
        /\ \A b \in Account : b # a => task'[j][b] = task[j][b]
    BY <2>1 DEF TypeOK
  <2>3. Tripped(j)' <=> Tripped(j)
    BY <2>1, <2>2, SameNumbers DEF Verdicts, CountedOutcomes
  <2>4. QED BY <1>1, <2>2, <2>3 DEF RunSettled
<1>6. QED BY <1>2, <1>3, <1>4, <1>5 DEF TaskStep

\* Every step keeps every run settled.
LEMMA NextRunInv == TypeOK /\ RunInv /\ [Next]_vars => RunInv'
<1> SUFFICES ASSUME TypeOK, RunInv, [Next]_vars, NEW j \in Job
             PROVE  RunSettled(j)'
  BY DEF RunInv
<1>1. RunSettled(j)
  BY DEF RunInv
<1>2. CASE UNCHANGED <<stage, task>>
  BY <1>1, <1>2, OtherRun
<1>3. CASE WorkerRestart
  <2>1. stage'[j] = "idle"
    BY <1>3 DEF WorkerRestart
  <2>2. QED BY <2>1 DEF RunSettled
<1>4. ASSUME NEW k \in Job, RunStep(k), k # j
      PROVE  RunSettled(j)'
  <2>1. stage'[j] = stage[j] /\ task'[j] = task[j]
    BY <1>4, ZenonT(40)
    DEF TypeOK, RunStep, StartRun, Gathered, Decide, FinishRun, RunFails, EndRun,
        TaskStep, RefreshToken, workerVars, TaskEnds, SyncSucceeds, SyncTransient,
        SyncPermanent, SyncRevoked,
        SkipConsent, SyncCrashes, EnqueueOwed, EnqueueOwedFails, RecordCrash, Bump,
        Disable, CommitThen, EndTask
  <2>2. QED BY <1>1, <2>1, OtherRun
<1>5. CASE StartRun(j) \/ FinishRun(j) \/ RunFails(j)
  <2>1. stage'[j] \in {"gather", "idle"}
    BY <1>5 DEF StartRun, FinishRun, RunFails, EndRun, TypeOK
  <2>2. QED BY <2>1 DEF RunSettled
<1>6. CASE Gathered(j)
  <2>1. /\ stage'[j] = "collect" /\ task' = task
        /\ \A a \in Account : task[j][a] \notin {"working", "skipping"}
    BY <1>6 DEF Gathered, TypeOK, InState
  <2>2. QED BY <2>1 DEF RunSettled
<1>7. CASE Decide(j)
  <2>1. CASE Tripped(j)
    <3>1. stage'[j] = "idle"
      BY <1>7, <2>1 DEF Decide, EndRun, TypeOK
    <3>2. QED BY <3>1 DEF RunSettled
  <2>2. CASE ~ Tripped(j)
    <3>1. /\ stage[j] = "collect" /\ stage'[j] = "disable" /\ task' = task
          /\ \A a \in Account : task[j][a] # "crashed"
      BY <1>7, <2>2 DEF Decide, TypeOK, InState
    <3>2. ~ Tripped(j)'
      BY <2>2, <3>1, SameNumbers
    <3>3. QED BY <1>1, <3>1, <3>2 DEF RunSettled
  <2>3. QED BY <2>1, <2>2
<1>8. ASSUME NEW a \in Account, TaskStep(j, a) PROVE RunSettled(j)'
  BY <1>1, <1>8, TaskSettled
<1>9. CASE RunStep(j)
  BY <1>5, <1>6, <1>7, <1>8, <1>9 DEF RunStep
<1>10. CASE ApiStep \/ DispatchStep \/ RedisLoss \/ UNCHANGED vars
  BY <1>2, <1>10
  DEF ApiStep, BeginPatch, DeleteMailbox, Relink, SendRevoked, WriteSilently, CommitPatch,
      RollbackPatch, FlushEvent, FlushFails, DispatchStep, PopStatus, LoadSnapshot,
      PostAccepted, PostFails, PostTimesOut, LatePostArrives, ReenqueueStatus,
      ReenqueueFails, RedisLoss, vars, workerVars
<1>11. QED BY <1>3, <1>4, <1>9, <1>10 DEF Next

\* The writes of a task leave the flag is_active alone, Disable apart.
LEMMA TaskLeavesActive ==
  ASSUME TypeOK, NEW j \in Job, NEW a \in Account, TaskStep(j, a), ~ Disable(j, a),
         NEW b \in Account
  PROVE  row'[b].active = row[b].active
<1> DEFINE Goal == row'[b].active = row[b].active
<1>1. row[a] \in Row /\ row \in [Account -> Row]
  BY DEF TypeOK
<1>2. ASSUME NEW r, r.active = row[a].active, NEW outcome, CommitThen(j, a, r, outcome)
      PROVE  Goal
  BY <1>1, <1>2 DEF CommitThen, Write
<1>3. \A e : [row[a] EXCEPT !.err = e].active = row[a].active
  BY <1>1 DEF Row
<1>4. UNCHANGED row => Goal
  OBVIOUS
<1> HIDE DEF Goal
<1>5. CASE SyncSucceeds(j, a)
  <2>1. [row[a] EXCEPT !.err = "none", !.fails = 0].active = row[a].active
    BY <1>1 DEF Row
  <2>2. QED BY <1>2, <1>5, <2>1 DEF SyncSucceeds, Goal
<1>6. CASE SyncTransient(j, a) \/ SyncPermanent(j, a) \/ SkipConsent(j, a)
             \/ RecordCrash(j, a)
  BY <1>2, <1>3, <1>4, <1>6
  DEF SyncTransient, SyncPermanent, SkipConsent, RecordCrash, EndTask, Goal
<1>7. CASE SyncRevoked(j, a)
  <2>1. [row[a] EXCEPT !.consent = TRUE, !.err = "consent"].active = row[a].active
    BY <1>1 DEF Row
  <2>2. QED BY <1>2, <1>4, <1>7, <2>1 DEF SyncRevoked, Revoked, EndTask, Goal
<1>r. CASE RefreshToken(j, a)
  <2>1. [row[a] EXCEPT !.consent = FALSE].active = row[a].active
    BY <1>1 DEF Row
  <2>2. QED BY <1>1, <1>r, <2>1 DEF RefreshToken, Write, Goal
<1>8. CASE SyncCrashes(j, a) \/ EnqueueOwed(j, a) \/ EnqueueOwedFails(j, a)
  BY <1>4, <1>8 DEF SyncCrashes, EndTask, EnqueueOwed, EnqueueOwedFails, Goal
<1>9. CASE Bump(j, a)
  <2>1. FailedOnce(row[a]).active = row[a].active
    BY <1>1 DEF Row, FailedOnce
  <2>2. QED BY <1>2, <1>9, <2>1 DEF Bump, Goal
<1>10. QED
  BY <1>5, <1>6, <1>7, <1>r, <1>8, <1>9 DEF TaskStep, TaskEnds, Goal

\* Only a request for the mailbox or an untripped run deactivates it.
LEMMA NextDeactivatesWithCause ==
  TypeOK /\ RunInv /\ [Next]_vars => DeactivatedWithCause
<1> DEFINE Cause(a) ==
      \/ request.stage = "open" /\ request.account = a
      \/ \E j \in Job : /\ task[j][a] = "bumped" /\ task'[j][a] = "disabled"
                       /\ ~ MassFailure(InState(j, Verdicts), Counted(j))
<1> SUFFICES ASSUME TypeOK, RunInv, [Next]_vars, NEW a \in Account,
                    row[a].active, row'[a].here, ~ row'[a].active
             PROVE  Cause(a)
  BY DEF DeactivatedWithCause
<1>1. row \in [Account -> Row] /\ row' # row
  BY DEF TypeOK
<1>2. ASSUME NEW j \in Job, NEW b \in Account, TaskStep(j, b) PROVE Cause(a)
  <2>1. Disable(j, b)
    BY <1>2, TaskLeavesActive
  <2>2. b = a
    BY <1>1, <2>1 DEF Disable, CommitThen, Write
  <2>3. task[j][a] = "bumped" /\ task'[j][a] = "disabled"
    BY <2>1, <2>2 DEF Disable, CommitThen, TypeOK
  <2>4. ~ MassFailure(InState(j, Verdicts), Counted(j))
    BY <2>1 DEF Disable, RunInv, RunSettled, Tripped
  <2>5. QED BY <2>3, <2>4
<1>3. ASSUME NEW j \in Job, RunStep(j) PROVE Cause(a)
  <2>1. \E b \in Account : TaskStep(j, b)
    BY <1>1, <1>3 DEF RunStep, StartRun, Gathered, Decide, FinishRun, RunFails, EndRun
  <2>2. QED BY <1>2, <2>1
<1>4. CASE ApiStep
  <2>1. ASSUME NEW b \in Account, DeleteMailbox(b) PROVE FALSE
    BY <1>1, <2>1 DEF DeleteMailbox, WriteSilently, Gone, Clean
  <2>2. ASSUME NEW b \in Account, Relink(b) PROVE FALSE
    <3>1. [row[b] EXCEPT !.consent = FALSE].active = row[b].active
      BY <1>1 DEF Row
    <3>2. QED BY <1>1, <2>2, <3>1 DEF Relink, WriteSilently
  <2>3. CASE CommitPatch
    BY <1>1, <2>3 DEF CommitPatch, Write
  <2>r. ASSUME NEW b \in Account, SendRevoked(b) PROVE FALSE
    <3>1. Revoked(row[b]).active = row[b].active
      BY <1>1 DEF Row, Revoked
    <3>2. QED BY <1>1, <2>r, <3>1 DEF SendRevoked, Write
  <2>4. QED
    BY <1>1, <1>4, <2>1, <2>2, <2>3, <2>r
    DEF ApiStep, BeginPatch, RollbackPatch, FlushEvent, FlushFails
<1>5. QED
  BY <1>1, <1>3, <1>4
  DEF Next, DispatchStep, PopStatus, LoadSnapshot, PostAccepted, PostFails, PostTimesOut,
      LatePostArrives, ReenqueueStatus, ReenqueueFails, WorkerRestart, RedisLoss, vars

\* The breaker protects every mailbox from a mass failure, for any thresholds and
\* any number of overlapping runs.
THEOREM BreakerHolds == Spec => MassFailureDisablesNobody
<1>1. Init => RunInv
  BY DEF Init, RunInv, RunSettled
<1>2. Spec => []RunInv
  BY <1>1, NextRunInv, TypeCorrect, PTL DEF Spec
<1>3. QED
  BY <1>2, NextDeactivatesWithCause, TypeCorrect, PTL DEF Spec, MassFailureDisablesNobody

-----------------------------------------------------------------------------
(* The mirror                                                              *)

\* An event for a waits in Redis or with its writer, or a fault took it.
KnownElsewhere(a) == a \in ToSet(queue) \/ EventOwed(a) \/ a \in lost

\* A mailbox whose mirror differs is known somewhere, the dispatcher included.
StaleIsKnown ==
  \A a \in Account :
    row[a].here /\ mirror[a] # Snapshot(row[a]) =>
      KnownElsewhere(a) \/ a \in ToSet(batch) \/ a \in Overtaken

\* While a snapshot the row has left behind is being posted, the event of the
\* newer status is not the one being served.
PostedStaleIsKnown ==
  posting.stage = "sent" /\ row[Head(batch)].here
      /\ posting.snap # Snapshot(row[Head(batch)]) =>
    KnownElsewhere(Head(batch)) \/ Head(batch) \in ToSet(Tail(batch))

MirrorInv == StaleIsKnown /\ PostedStaleIsKnown

\* Steps beside the dispatcher: events move or are taken by faults, and a status
\* changes only with an event for it.
LEMMA BesideDispatcher ==
  ASSUME TypeOK, MirrorInv, UNCHANGED <<batch, posting, mirror, late>>,
         \A b \in Account : KnownElsewhere(b) => KnownElsewhere(b)',
         \A b \in Account :
           row'[b].here => \/ row[b].here /\ Snapshot(row'[b]) = Snapshot(row[b])
                           \/ KnownElsewhere(b)'
  PROVE  MirrorInv'
<1>1. StaleIsKnown'
  BY DEF MirrorInv, StaleIsKnown, Overtaken
<1>2. PostedStaleIsKnown'
  <2>1. posting.stage = "sent" => Head(batch) \in Account
    BY HeadAndTail DEF TypeOK, NoPost
  <2>2. QED BY <2>1 DEF MirrorInv, PostedStaleIsKnown
<1>3. QED BY <1>1, <1>2 DEF MirrorInv

\* A status committed by a task of a run is owed to the CRM.
LEMMA CommitThenMirror ==
  ASSUME TypeOK, MirrorInv, NEW j \in Job, NEW a \in Account, NEW r, NEW outcome,
         CommitThen(j, a, r, outcome)
  PROVE  MirrorInv'
<1>1. /\ UNCHANGED <<queue, request, lost, batch, posting, mirror, late>>
      /\ owed' = [owed EXCEPT ![j] = @ \union {a}]
      /\ \A b \in Account : b # a => row'[b] = row[b]
  BY DEF CommitThen, NoFault, channelVars, Write, TypeOK
<1>2. AllOwed \union {a} \subseteq AllOwed'
  BY <1>1 DEF AllOwed, TypeOK
<1>3. \A b \in Account : KnownElsewhere(b) => KnownElsewhere(b)'
  BY <1>1, <1>2 DEF KnownElsewhere, EventOwed
<1>4. KnownElsewhere(a)'
  BY <1>2 DEF KnownElsewhere, EventOwed
<1>5. QED BY <1>1, <1>3, <1>4, BesideDispatcher

\* Steps that touch neither rows nor events.
LEMMA QuietMirror ==
  ASSUME TypeOK, MirrorInv, UNCHANGED <<row, owed, request, channelVars>>,
         lost \subseteq lost'
  PROVE  MirrorInv'
<1>1. \A b \in Account : KnownElsewhere(b) => KnownElsewhere(b)'
  BY DEF KnownElsewhere, EventOwed, AllOwed, channelVars
<1>2. QED BY <1>1, BesideDispatcher DEF channelVars

LEMMA EndTaskMirror ==
  ASSUME TypeOK, MirrorInv, NEW j, NEW a, NEW outcome, EndTask(j, a, outcome),
         lost \subseteq lost'
  PROVE  MirrorInv'
BY QuietMirror DEF EndTask

\* The steps of a sync run.
LEMMA RunMirror ==
  ASSUME StatusEnabled, TypeOK, MirrorInv, NEW j \in Job, RunStep(j)
  PROVE  MirrorInv'
<1>1. /\ NoFault => lost \subseteq lost'
      /\ \A S : Fault(S) => lost' = lost \union S
  BY DEF NoFault, Fault
<1>2. CASE StartRun(j) \/ Gathered(j) \/ Decide(j) \/ FinishRun(j) \/ RunFails(j)
  <2>1. UNCHANGED <<row, owed, request, channelVars>> /\ lost \subseteq lost'
    BY <1>1, <1>2 DEF StartRun, Gathered, Decide, FinishRun, RunFails, EndRun
  <2>2. QED BY <2>1, QuietMirror
<1>3. ASSUME NEW a \in Account, TaskStep(j, a) PROVE MirrorInv'
  <2>1. CASE TaskEnds(j, a) \/ Bump(j, a) \/ Disable(j, a)
    BY <1>1, <2>1, CommitThenMirror, EndTaskMirror
    DEF TaskEnds, SyncSucceeds, SyncTransient, SyncPermanent, SyncRevoked, Bump, Disable
  <2>r. CASE RefreshToken(j, a)
    <3>1. UNCHANGED <<owed, request, queue, batch, posting, mirror, late, lost>>
      BY <2>r DEF RefreshToken, NoFault, workerVars, channelVars
    <3>2. \A b \in Account : row'[b].here => /\ row[b].here
                                             /\ Snapshot(row'[b]) = Snapshot(row[b])
      BY <2>r DEF RefreshToken, Write, TypeOK, Row, Snapshot
    <3>3. \A b \in Account : KnownElsewhere(b) => KnownElsewhere(b)'
      BY <3>1 DEF KnownElsewhere, EventOwed, AllOwed
    <3>4. QED BY <3>1, <3>2, <3>3, BesideDispatcher
  <2>2. CASE SkipConsent(j, a) \/ SyncCrashes(j, a) \/ RecordCrash(j, a)
    BY <1>1, <2>2, CommitThenMirror, EndTaskMirror DEF SkipConsent, SyncCrashes, RecordCrash
  <2>3. CASE EnqueueOwed(j, a)
    <3>1. /\ a \in ToSet(queue') /\ ToSet(queue) \subseteq ToSet(queue')
          /\ UNCHANGED <<row, request, batch, posting, mirror, late>>
          /\ lost' = lost \ {a}
      BY <2>3, LPushOne DEF EnqueueOwed, Enqueue, TypeOK
    <3>2. AllOwed \subseteq AllOwed' \union {a}
      BY <2>3 DEF EnqueueOwed, AllOwed, TypeOK
    <3>3. \A b \in Account : KnownElsewhere(b) => KnownElsewhere(b)'
      BY <3>1, <3>2 DEF KnownElsewhere, EventOwed
    <3>4. QED BY <3>1, <3>3, BesideDispatcher
  <2>4. CASE EnqueueOwedFails(j, a)
    <3>1. /\ lost' = lost \union {a}
          /\ UNCHANGED <<row, request, queue, batch, posting, mirror, late>>
      BY <1>1, <2>4 DEF EnqueueOwedFails, channelVars
    <3>2. AllOwed \subseteq AllOwed' \union {a}
      BY <2>4 DEF EnqueueOwedFails, AllOwed, TypeOK
    <3>3. \A b \in Account : KnownElsewhere(b) => KnownElsewhere(b)'
      BY <3>1, <3>2 DEF KnownElsewhere, EventOwed
    <3>4. QED BY <3>1, <3>3, BesideDispatcher
  <2>5. QED BY <1>3, <2>1, <2>r, <2>2, <2>3, <2>4 DEF TaskStep
<1>4. QED BY <1>2, <1>3 DEF RunStep

\* The requests of the API.
LEMMA ApiMirror ==
  ASSUME StatusEnabled, TypeOK, MirrorInv, ApiStep
  PROVE  MirrorInv'
<1>0. row \in [Account -> Row]
  BY DEF TypeOK
<1>1. ASSUME NEW a \in Account, NEW edit, BeginPatch(a, edit) PROVE MirrorInv'
  <2>1. /\ UNCHANGED <<row, owed, queue, batch, posting, mirror, late, lost>>
        /\ request.stage = "idle"
    BY <1>1 DEF BeginPatch, NoFault, workerVars, channelVars
  <2>2. \A b \in Account : KnownElsewhere(b) => KnownElsewhere(b)'
    BY <2>1 DEF KnownElsewhere, EventOwed, AllOwed
  <2>3. QED BY <2>1, <2>2, BesideDispatcher
<1>2. ASSUME NEW a \in Account, DeleteMailbox(a) \/ Relink(a) PROVE MirrorInv'
  <2>1. /\ UNCHANGED <<request, owed, queue, batch, posting, mirror, late, lost>>
        /\ row[a].here
        /\ \A b \in Account : b # a => row'[b] = row[b]
    BY <1>0, <1>2 DEF DeleteMailbox, Relink, WriteSilently, NoFault, workerVars, channelVars
  <2>2. ~ row'[a].here \/ Snapshot(row'[a]) = Snapshot(row[a])
    <3>1. ~ Gone.here
      BY DEF Gone, Clean
    <3>2. Snapshot([row[a] EXCEPT !.consent = FALSE]) = Snapshot(row[a])
      BY <1>0 DEF Snapshot, Row
    <3>3. row'[a] = Gone \/ row'[a] = [row[a] EXCEPT !.consent = FALSE]
      BY <1>0, <1>2 DEF DeleteMailbox, Relink, WriteSilently
    <3>4. QED BY <3>1, <3>2, <3>3
  <2>3. \A b \in Account : KnownElsewhere(b) => KnownElsewhere(b)'
    BY <2>1 DEF KnownElsewhere, EventOwed, AllOwed
  <2>4. QED BY <2>1, <2>2, <2>3, BesideDispatcher
<1>3. CASE CommitPatch
  <2> DEFINE c == request.account
  <2>1. /\ UNCHANGED <<owed, queue, batch, posting, mirror, late, lost>>
        /\ request.stage = "open" /\ request'.stage = "committed" /\ request'.account = c
        /\ \A b \in Account : b # c => row'[b] = row[b]
    BY <1>3 DEF CommitPatch, NoFault, workerVars, channelVars, Write, TypeOK, NoRequest
  <2>2. \A b \in Account : KnownElsewhere(b) => KnownElsewhere(b)'
    BY <2>1 DEF KnownElsewhere, EventOwed, AllOwed
  <2>3. KnownElsewhere(c)'
    BY <2>1 DEF KnownElsewhere, EventOwed
  <2>4. QED BY <2>1, <2>2, <2>3, BesideDispatcher
<1>4. CASE RollbackPatch
  <2>1. /\ UNCHANGED <<row, owed, queue, batch, posting, mirror, late, lost>>
        /\ request.stage = "open"
    BY <1>4 DEF RollbackPatch, NoFault, workerVars, channelVars
  <2>2. \A b \in Account : KnownElsewhere(b) => KnownElsewhere(b)'
    BY <2>1 DEF KnownElsewhere, EventOwed, AllOwed
  <2>3. QED BY <2>1, <2>2, BesideDispatcher
<1>5. CASE FlushEvent
  <2> DEFINE c == request.account
  <2>1. c \in Account
    BY <1>5 DEF FlushEvent, TypeOK, NoRequest
  <2>2. /\ c \in ToSet(queue') /\ ToSet(queue) \subseteq ToSet(queue')
        /\ UNCHANGED <<row, owed, batch, posting, mirror, late>>
        /\ lost' = lost \ {c}
    BY <1>5, <2>1, LPushOne DEF FlushEvent, Enqueue, TypeOK, workerVars
  <2>3. \A b \in Account : KnownElsewhere(b) => KnownElsewhere(b)'
    BY <2>2 DEF KnownElsewhere, EventOwed, AllOwed
  <2>4. QED BY <2>2, <2>3, BesideDispatcher
<1>6. CASE FlushFails
  <2>1. /\ UNCHANGED <<row, owed, queue, batch, posting, mirror, late>>
        /\ lost' = lost \union {request.account}
    BY <1>6 DEF FlushFails, Fault, workerVars, channelVars
  <2>2. \A b \in Account : KnownElsewhere(b) => KnownElsewhere(b)'
    BY <2>1 DEF KnownElsewhere, EventOwed, AllOwed
  <2>3. QED BY <2>1, <2>2, BesideDispatcher
<1>7. ASSUME NEW a \in Account, SendRevoked(a) PROVE MirrorInv'
  <2>1. /\ UNCHANGED <<owed, queue, batch, posting, mirror, late, lost>>
        /\ request.stage = "idle" /\ request'.stage = "committed" /\ request'.account = a
        /\ \A b \in Account : b # a => row'[b] = row[b]
    BY <1>0, <1>7 DEF SendRevoked, NoFault, workerVars, channelVars, Write
  <2>2. \A b \in Account : KnownElsewhere(b) => KnownElsewhere(b)'
    BY <2>1 DEF KnownElsewhere, EventOwed, AllOwed
  <2>3. KnownElsewhere(a)'
    BY <2>1 DEF KnownElsewhere, EventOwed
  <2>4. QED BY <2>1, <2>2, <2>3, BesideDispatcher
<1>8. QED BY <1>1, <1>2, <1>3, <1>4, <1>5, <1>6, <1>7 DEF ApiStep

\* The status dispatcher: the event it pops stays in its batch until the snapshot
\* it posted has reached the CRM, was put back, or is one the row left behind.
LEMMA DispatchMirror ==
  ASSUME TypeOK, MirrorInv, DispatchStep
  PROVE  MirrorInv'
<1>1. /\ row \in [Account -> Row] /\ mirror \in [Account -> Status]
      /\ queue \in Seq(Account) /\ batch \in Seq(Account)
      /\ NoPost.stage = "none"
      /\ posting # NoPost => batch # <<>>
      /\ NoFault => UNCHANGED lost
  BY DEF TypeOK, NoPost, NoFault
<1>b. batch # <<>> => /\ Head(batch) \in Account
                      /\ ToSet(batch) = {Head(batch)} \union ToSet(Tail(batch))
  BY <1>1, HeadAndTail
<1>2. CASE PopStatus
  <2>a. /\ batch = <<>> /\ batch' = LPopped(queue, BatchSize)
        /\ queue' = LPopRest(queue, BatchSize)
        /\ UNCHANGED <<row, owed, request, posting, mirror, late, lost>>
    BY <1>1, <1>2 DEF PopStatus, workerVars
  <2>b. ToSet(queue) = ToSet(batch') \union ToSet(queue')
    BY <1>1, <2>a, StatusAssumption, LPopProperties
  <2>1. /\ batch = <<>> /\ posting' = NoPost
        /\ ToSet(queue) = ToSet(batch') \union ToSet(queue')
        /\ UNCHANGED <<row, owed, request, mirror, late, lost>>
    BY <1>1, <2>a, <2>b
  <2>2. \A b \in Account : KnownElsewhere(b) => KnownElsewhere(b)' \/ b \in ToSet(batch')
    BY <2>1 DEF KnownElsewhere, EventOwed, AllOwed
  <2>3. ToSet(batch) = {}
    BY <2>1 DEF ToSet
  <2>4. StaleIsKnown'
    BY <2>1, <2>2, <2>3 DEF MirrorInv, StaleIsKnown, Overtaken
  <2>5. PostedStaleIsKnown'
    BY <1>1, <2>1 DEF PostedStaleIsKnown
  <2>6. QED BY <2>1, <2>4, <2>5 DEF MirrorInv
<1>3. ASSUME UNCHANGED <<row, owed, request, lost>>, ToSet(queue) \subseteq ToSet(queue')
      PROVE  \A b \in Account : KnownElsewhere(b) => KnownElsewhere(b)'
  BY <1>3 DEF KnownElsewhere, EventOwed, AllOwed
<1>4. CASE LoadSnapshot
  <2>1. /\ UNCHANGED <<row, owed, request, queue, mirror, late, lost>>
        /\ batch # <<>> /\ posting.stage = "none"
    BY <1>1, <1>4 DEF LoadSnapshot, workerVars
  <2>2. \A b \in Account : KnownElsewhere(b) => KnownElsewhere(b)'
    BY <1>3, <2>1
  <2>3. CASE row[Head(batch)].here
    <3>1. batch' = batch /\ posting'.snap = Snapshot(row[Head(batch)])
      BY <1>4, <2>3 DEF LoadSnapshot
    <3>2. StaleIsKnown' /\ PostedStaleIsKnown'
      BY <2>1, <2>2, <3>1 DEF MirrorInv, StaleIsKnown, PostedStaleIsKnown, Overtaken
    <3>3. QED BY <2>1, <3>2 DEF MirrorInv
  <2>4. CASE ~ row[Head(batch)].here
    <3>1. batch' = Tail(batch) /\ posting' = posting
      BY <1>4, <2>4 DEF LoadSnapshot
    <3>2. StaleIsKnown' /\ PostedStaleIsKnown'
      BY <1>b, <2>1, <2>2, <2>4, <3>1 DEF MirrorInv, StaleIsKnown, PostedStaleIsKnown, Overtaken
    <3>3. QED BY <2>1, <3>2 DEF MirrorInv
  <2>5. QED BY <2>3, <2>4
<1>5. CASE PostAccepted
  <2> DEFINE h == Head(batch)
  <2>1. /\ UNCHANGED <<row, owed, request, queue, late, lost>>
        /\ posting.stage = "sent" /\ batch # <<>>
        /\ mirror' = [mirror EXCEPT ![h] = posting.snap]
        /\ batch' = Tail(batch) /\ posting' = NoPost
    BY <1>1, <1>5 DEF PostAccepted, workerVars
  <2>2. \A b \in Account : KnownElsewhere(b) => KnownElsewhere(b)'
    BY <1>3, <2>1
  <2>3. ASSUME NEW b \in Account, row'[b].here, mirror'[b] # Snapshot(row'[b])
        PROVE  KnownElsewhere(b)' \/ b \in ToSet(batch') \/ b \in Overtaken
    <3>1. CASE b = h
      <4>1. posting.snap # Snapshot(row[h])
        BY <1>1, <2>1, <2>3, <3>1
      <4>2. QED BY <2>1, <2>2, <2>3, <3>1, <4>1 DEF MirrorInv, PostedStaleIsKnown
    <3>2. CASE b # h
      <4>1. KnownElsewhere(b) \/ b \in ToSet(batch) \/ b \in Overtaken
        BY <1>1, <2>1, <2>3, <3>2 DEF MirrorInv, StaleIsKnown
      <4>2. QED BY <1>b, <2>1, <2>2, <3>2, <4>1
    <3>3. QED BY <3>1, <3>2
  <2>4. StaleIsKnown' /\ PostedStaleIsKnown'
    BY <1>1, <2>1, <2>3 DEF StaleIsKnown, PostedStaleIsKnown, Overtaken
  <2>5. QED BY <2>1, <2>4 DEF MirrorInv
<1>6. CASE PostFails
  <2>1. /\ UNCHANGED <<row, owed, request, queue, batch, late, lost>>
        /\ posting # NoPost /\ batch # <<>>
        /\ posting' = [posting EXCEPT !.stage = "failed"]
        /\ \A b \in Account : b # Head(batch) => mirror'[b] = mirror[b]
    BY <1>1, <1>6 DEF PostFails, workerVars
  <2>2. posting'.stage = "failed"
    BY <2>1 DEF TypeOK
  <2>3. \A b \in Account : KnownElsewhere(b) => KnownElsewhere(b)'
    BY <1>3, <2>1
  <2>4. StaleIsKnown'
    BY <1>b, <2>1, <2>3 DEF MirrorInv, StaleIsKnown, Overtaken
  <2>5. PostedStaleIsKnown'
    BY <2>2 DEF PostedStaleIsKnown
  <2>6. QED BY <2>1, <2>4, <2>5 DEF MirrorInv
<1>7. CASE PostTimesOut
  <2>1. /\ UNCHANGED <<row, owed, request, queue, batch, mirror, lost>>
        /\ posting \in [stage : {"sent", "failed"}, snap : Status]
        /\ posting' = [posting EXCEPT !.stage = "failed"]
        /\ late \subseteq late'
    BY <1>1, <1>7 DEF PostTimesOut, TypeOK, NoPost, workerVars
  <2>2. posting'.stage = "failed"
    BY <2>1
  <2>3. \A b \in Account : KnownElsewhere(b) => KnownElsewhere(b)'
    BY <1>3, <2>1
  <2>4. Overtaken \subseteq Overtaken'
    BY <2>1 DEF Overtaken
  <2>5. StaleIsKnown'
    BY <2>1, <2>3, <2>4 DEF MirrorInv, StaleIsKnown
  <2>6. PostedStaleIsKnown'
    BY <2>2 DEF PostedStaleIsKnown
  <2>7. QED BY <2>5, <2>6 DEF MirrorInv
<1>l. CASE LatePostArrives
  <2>1. UNCHANGED <<row, owed, request, queue, batch, posting, lost>>
    BY <1>1, <1>l DEF LatePostArrives, workerVars
  <2>2. PICK p \in late : /\ ~ p.arrived
                          /\ mirror' = [mirror EXCEPT ![p.account] = p.snap]
                          /\ late' = (late \ {p}) \union {[p EXCEPT !.arrived = TRUE]}
    BY <1>l DEF LatePostArrives
  <2>3. p \in [account : Account, snap : Status, arrived : BOOLEAN]
    BY <2>2 DEF TypeOK
  <2>4. Overtaken \subseteq Overtaken'
    BY <2>2 DEF Overtaken
  <2>5. p.account \in Overtaken'
    <3>1. [p EXCEPT !.arrived = TRUE].account = p.account /\ [p EXCEPT !.arrived = TRUE].arrived
      BY <2>3
    <3>2. QED BY <2>2, <3>1 DEF Overtaken
  <2>6. \A b \in Account : b # p.account => mirror'[b] = mirror[b]
    BY <1>1, <2>2
  <2>7. \A b \in Account : KnownElsewhere(b) => KnownElsewhere(b)'
    BY <1>3, <2>1
  <2>8. StaleIsKnown'
    BY <2>1, <2>4, <2>5, <2>6, <2>7 DEF MirrorInv, StaleIsKnown
  <2>9. PostedStaleIsKnown'
    <3>1. posting.stage = "sent" => Head(batch) \in Account
      BY <1>1, <1>b
    <3>2. QED BY <2>1, <2>7, <3>1 DEF MirrorInv, PostedStaleIsKnown
  <2>10. QED BY <2>8, <2>9 DEF MirrorInv
<1>8. CASE ReenqueueStatus
  <2> DEFINE h == Head(batch)
  <2>1. /\ UNCHANGED <<row, owed, request, mirror, late>>
        /\ batch # <<>> /\ batch' = Tail(batch) /\ posting' = NoPost
        /\ lost' = lost \ {h}
    BY <1>1, <1>8 DEF ReenqueueStatus, workerVars
  <2>2. ToSet(queue') = {h} \union ToSet(queue)
    BY <1>1, <1>b, <1>8, <2>1, LPushOne DEF ReenqueueStatus
  <2>3. \A b \in Account : KnownElsewhere(b) => KnownElsewhere(b)'
    BY <2>1, <2>2 DEF KnownElsewhere, EventOwed, AllOwed
  <2>4. \A b \in Account : b \in ToSet(batch) => KnownElsewhere(b)' \/ b \in ToSet(batch')
    BY <1>b, <2>1, <2>2 DEF KnownElsewhere
  <2>5. StaleIsKnown' /\ PostedStaleIsKnown'
    BY <1>1, <2>1, <2>3, <2>4 DEF MirrorInv, StaleIsKnown, PostedStaleIsKnown, Overtaken
  <2>6. QED BY <2>1, <2>5 DEF MirrorInv
<1>9. CASE ReenqueueFails
  <2> DEFINE h == Head(batch)
  <2>1. /\ UNCHANGED <<row, owed, request, queue, mirror, late>>
        /\ batch # <<>> /\ batch' = Tail(batch) /\ posting' = NoPost
        /\ lost' = lost \union {h}
    BY <1>1, <1>9 DEF ReenqueueFails, Fault, workerVars
  <2>2. \A b \in Account : KnownElsewhere(b) => KnownElsewhere(b)'
    BY <2>1 DEF KnownElsewhere, EventOwed, AllOwed
  <2>3. \A b \in Account : b \in ToSet(batch) => KnownElsewhere(b)' \/ b \in ToSet(batch')
    BY <1>b, <2>1 DEF KnownElsewhere
  <2>4. StaleIsKnown' /\ PostedStaleIsKnown'
    BY <1>1, <2>1, <2>2, <2>3 DEF MirrorInv, StaleIsKnown, PostedStaleIsKnown, Overtaken
  <2>5. QED BY <2>1, <2>4 DEF MirrorInv
<1>10. QED
  BY <1>2, <1>4, <1>5, <1>6, <1>7, <1>l, <1>8, <1>9 DEF DispatchStep

\* Every step keeps the invariant of the mirror.
LEMMA NextMirror ==
  ASSUME StatusEnabled, TypeOK, MirrorInv, [Next]_vars
  PROVE  MirrorInv'
<1>1. CASE WorkerRestart
  <2>1. /\ UNCHANGED <<row, request, queue, mirror, late>>
        /\ batch' = <<>> /\ posting' = NoPost
        /\ lost' = lost \union (AllOwed \union ToSet(batch))
    BY <1>1 DEF WorkerRestart, Fault
  <2>2. \A b \in Account :
          KnownElsewhere(b) \/ b \in ToSet(batch) => KnownElsewhere(b)'
    BY <2>1 DEF KnownElsewhere, EventOwed
  <2>3. StaleIsKnown' /\ PostedStaleIsKnown'
    BY <2>1, <2>2 DEF MirrorInv, StaleIsKnown, PostedStaleIsKnown, Overtaken, NoPost
  <2>4. QED BY <2>1, <2>3 DEF MirrorInv
<1>2. CASE RedisLoss
  <2>1. /\ UNCHANGED <<row, owed, request, batch, posting, mirror, late>>
        /\ lost' = lost \union ToSet(queue)
    BY <1>2 DEF RedisLoss, Fault, workerVars
  <2>2. \A b \in Account : KnownElsewhere(b) => KnownElsewhere(b)'
    BY <2>1 DEF KnownElsewhere, EventOwed, AllOwed
  <2>3. QED BY <2>1, <2>2, BesideDispatcher
<1>3. CASE UNCHANGED vars
  BY <1>3, QuietMirror DEF vars, workerVars
<1>4. QED
  BY <1>1, <1>2, <1>3, RunMirror, ApiMirror, DispatchMirror DEF Next

\* The invariant implies the property the runs check.
LEMMA MirrorInvSuffices ==
  ASSUME TypeOK, MirrorInv
  PROVE  MirrorCurrentOrEventPending
<1> SUFFICES ASSUME NEW a \in Account, row[a].here, mirror[a] # Snapshot(row[a]),
                    ~ KnownElsewhere(a), a \notin Overtaken
             PROVE  InHand(a)
  BY DEF MirrorCurrentOrEventPending, Mirrored, KnownElsewhere
<1>1. a \in ToSet(batch) /\ batch \in Seq(Account)
  BY DEF MirrorInv, StaleIsKnown, TypeOK
<1>2. PICK i \in 1 .. Len(batch) : a = batch[i]
  BY <1>1, ToSetOfSeq
<1>3. DOMAIN batch = 1 .. Len(batch) /\ batch # <<>> /\ Head(batch) = batch[1]
  BY <1>1, <1>2
<1>4. CASE i > 1 \/ posting.stage # "sent" \/ posting.snap = Snapshot(row[a])
  BY <1>2, <1>3, <1>4 DEF InHand
<1>5. CASE ~ (i > 1) /\ posting.stage = "sent" /\ posting.snap # Snapshot(row[a])
  <2>1. i = 1 /\ a = Head(batch)
    BY <1>2, <1>3, <1>5
  <2>2. a \in ToSet(Tail(batch)) /\ Tail(batch) \in Seq(Account)
    BY <1>1, <1>3, <1>5, <2>1, HeadAndTail DEF MirrorInv, PostedStaleIsKnown
  <2>3. PICK k \in 1 .. Len(Tail(batch)) : a = Tail(batch)[k]
    BY <2>2, ToSetOfSeq
  <2>4. k + 1 \in DOMAIN batch /\ k + 1 > 1 /\ batch[k + 1] = a
    BY <1>1, <1>3, <2>3
  <2>5. QED BY <2>4 DEF InHand
<1>6. QED BY <1>4, <1>5

\* No interleaving leaves the CRM with a stale status and no event to replace it,
\* unless a fault took it or a POST that was given up arrived late.
THEOREM MirrorNeverForgotten ==
  ASSUME StatusEnabled
  PROVE  Spec => []MirrorCurrentOrEventPending
<1>1. Init => MirrorInv
  BY DEF Init, MirrorInv, StaleIsKnown, PostedStaleIsKnown, NoPost
<1>2. TypeOK /\ MirrorInv /\ [Next]_vars => MirrorInv'
  BY NextMirror
<1>3. TypeOK /\ MirrorInv => MirrorCurrentOrEventPending
  BY MirrorInvSuffices
<1>4. QED BY <1>1, <1>2, <1>3, TypeCorrect, PTL DEF Spec
=============================================================================
