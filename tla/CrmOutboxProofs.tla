-------------------------- MODULE CrmOutboxProofs --------------------------
(***************************************************************************)
(* Proofs about CrmOutbox for every set of messages, mailboxes and sync    *)
(* runs, every batch size and every number of faults: type correctness,    *)
(* then the inductive invariant IInv, which adds to the two safety         *)
(* properties what the dispatcher knows between its steps.                 *)
(***************************************************************************)
EXTENDS CrmOutbox, SequenceTheorems, FiniteSetTheorems, TLAPS

-----------------------------------------------------------------------------
(* The list: each operation keeps the element type, and neither loses nor  *)
(* invents an item                                                         *)

\* The elements of a list are what its indices reach.
LEMMA ToSetOfSeq ==
  ASSUME NEW S, NEW s \in Seq(S)
  PROVE  /\ \A x : x \in ToSet(s) <=> \E i \in 1 .. Len(s) : x = s[i]
         /\ ToSet(s) \subseteq S
<1>1. DOMAIN s = 1 .. Len(s) /\ \A i \in 1 .. Len(s) : s[i] \in S
  OBVIOUS
<1>2. ToSet(s) = {s[i] : i \in 1 .. Len(s)}
  BY <1>1 DEF ToSet
<1>3. QED BY <1>1, <1>2

\* A concatenation holds the elements of both lists.
LEMMA ToSetOfConcat ==
  ASSUME NEW S, NEW s \in Seq(S), NEW t \in Seq(S)
  PROVE  s \o t \in Seq(S) /\ ToSet(s \o t) = ToSet(s) \union ToSet(t)
<1>1. s \o t \in Seq(S)
  BY ConcatProperties
<1>2. \A u : ToSet(u) = Range(u)
  BY DEF ToSet, Range
<1>3. Range(s \o t) = Range(s) \union Range(t)
  BY RangeConcatenation
<1>4. QED BY <1>1, <1>2, <1>3

\* LPOP with a count splits the list: what it returns and what it leaves are
\* lists of the same type and hold between them every element.
LEMMA LPopProperties ==
  ASSUME NEW S, NEW q \in Seq(S), NEW count \in Nat
  PROVE  /\ LPopped(q, count) \in Seq(S)
         /\ LPopRest(q, count) \in Seq(S)
         /\ ToSet(q) = ToSet(LPopped(q, count)) \union ToSet(LPopRest(q, count))
<1>1. PopLen(q, count) \in 0 .. Len(q) /\ Len(q) \in Nat
  BY DEF PopLen
<1>2. LPopped(q, count) \in Seq(S) /\ LPopRest(q, count) \in Seq(S)
  BY <1>1 DEF LPopped, LPopRest
<1>3. LPopped(q, count) \o LPopRest(q, count) = q
  <2>1. /\ 1 \in 1 .. Len(q) + 1 /\ PopLen(q, count) \in 1 - 1 .. Len(q)
        /\ Len(q) \in PopLen(q, count) .. Len(q)
    BY <1>1
  <2>2. LPopped(q, count) \o LPopRest(q, count) = SubSeq(q, 1, Len(q))
    BY <2>1, ConcatAdjacentSubSeq, Zenon DEF LPopped, LPopRest
  <2>3. QED BY <2>2, SubSeqFull, Zenon
<1> DEFINE front == LPopped(q, count)
           rest == LPopRest(q, count)
<1> HIDE DEF front, rest
<1>4. front \in Seq(S) /\ rest \in Seq(S) /\ front \o rest = q
  BY <1>2, <1>3 DEF front, rest
<1>5. ToSet(q) = ToSet(front) \union ToSet(rest)
  BY <1>4, ToSetOfConcat
<1>6. QED BY <1>2, <1>5 DEF front, rest

\* LPUSH keeps the element type of the list and loses nothing.
LEMMA LPushProperties ==
  ASSUME NEW S, NEW items \in Seq(S), NEW q \in Seq(S)
  PROVE  /\ LPush(items, q) \in Seq(S)
         /\ ToSet(LPush(items, q)) = ToSet(items) \union ToSet(q)
<1> DEFINE r == Reverse(items)
<1>1. /\ r \in Seq(S) /\ Len(r) = Len(items)
      /\ \A i \in 1 .. Len(items) : r[i] = items[Len(items) - i + 1]
  BY DEF Reverse
<1> HIDE DEF r
<1>2. ToSet(r) = ToSet(items)
  <2>1. \A i \in 1 .. Len(items) :
          /\ Len(items) - i + 1 \in 1 .. Len(items)
          /\ items[i] = r[Len(items) - i + 1]
    BY <1>1
  <2>2. \A x : (\E i \in 1 .. Len(items) : x = items[i]) <=> \E i \in 1 .. Len(items) : x = r[i]
    <3>1. ASSUME NEW i \in 1 .. Len(items) PROVE \E j \in 1 .. Len(items) : items[i] = r[j]
      BY <2>1, Zenon
    <3>2. ASSUME NEW i \in 1 .. Len(items) PROVE \E j \in 1 .. Len(items) : r[i] = items[j]
      BY <1>1, <2>1, Zenon
    <3>3. QED BY <3>1, <3>2, Zenon
  <2>3. \A x : x \in ToSet(r) <=> \E i \in 1 .. Len(r) : x = r[i]
    BY <1>1, ToSetOfSeq, Zenon
  <2>4. \A x : x \in ToSet(items) <=> \E i \in 1 .. Len(items) : x = items[i]
    BY ToSetOfSeq, Zenon
  <2>5. QED BY <1>1, <2>2, <2>3, <2>4
<1>3. r \o q \in Seq(S) /\ ToSet(r \o q) = ToSet(r) \union ToSet(q)
  BY <1>1, ToSetOfConcat
<1>4. QED BY <1>2, <1>3 DEF r, LPush

\* The ascending list of a finite set of ids holds exactly that set.
LEMMA AscendingIsSeq ==
  ASSUME NEW S, NEW T \in SUBSET S, IsFiniteSet(T), NEW s \in Ascending(T)
  PROVE  s \in Seq(S) /\ ToSet(s) = T
<1>1. Cardinality(T) \in Nat
  BY FS_CardinalityType
<1>2. s \in [1 .. Cardinality(T) -> T] /\ ToSet(s) = T
  BY DEF Ascending
<1>3. QED BY <1>1, <1>2

\* ids selected by an ORDER BY id LIMIT n are among those asked for.
LEMMA LowestSubset ==
  ASSUME NEW S, NEW n
  PROVE  Lowest(S, n) \subseteq S
BY DEF Lowest

-----------------------------------------------------------------------------
(* The inductive invariant                                                 *)

\* Ids anywhere in circulation are ids of rows that were inserted: an id of the
\* queue can never come alive under the dispatcher.
CirculatingIsInserted ==
  \A m \in Message :
    m \in ToSet(queue) \union Carried \union ToSet(recovery) => row[m] # "absent"

\* What the dispatcher holds: nothing between two ticks; between load and stamp
\* the loaded rows are popped ones and include every popped row still pending,
\* and once the CRM accepted, it has all of them.
DispatchInv ==
  /\ dispatch.stage = "idle" => dispatch.batch = <<>>
  /\ dispatch.stage \in {"sending", "accepted"} =>
       /\ dispatch.loaded \subseteq ToSet(dispatch.batch)
       /\ Pending \intersect ToSet(dispatch.batch) \subseteq dispatch.loaded
  /\ dispatch.stage = "accepted" => dispatch.loaded \subseteq crm

IInv ==
  /\ TypeOK
  /\ CirculatingIsInserted
  /\ DispatchInv
  /\ PushedIsDelivered
  /\ PendingIsCarried

-----------------------------------------------------------------------------
(* Type correctness                                                        *)

\* A set of rows is finite, whatever query selected it.
LEMMA FiniteRows ==
  ASSUME NEW S \in SUBSET Message
  PROVE  IsFiniteSet(S)
BY OutboxAssumption, FS_Subset

\* Nothing stored, queued or carried: the invariant holds at the start.
LEMMA InitIInv == Init => IInv
<1> SUFFICES ASSUME Init PROVE IInv
  OBVIOUS
<1>1. ToSet(<<>>) = {} /\ <<>> \in Seq(Message)
  BY DEF ToSet
<1>2. TypeOK
  BY <1>1 DEF Init, TypeOK, NoDispatch, Stage
<1>3. Pending = {} /\ dispatch.batch = <<>> /\ dispatch.stage = "idle"
  BY DEF Init, Pending, NoDispatch
<1>4. Carried = {}
  BY <1>1 DEF Init, Carried, NoDispatch
<1>5. CirculatingIsInserted
  BY <1>1, <1>4 DEF Init, CirculatingIsInserted
<1>6. DispatchInv
  BY <1>3 DEF DispatchInv
<1>7. PushedIsDelivered /\ PendingIsCarried
  BY <1>3 DEF Init, PushedIsDelivered, PendingIsCarried
<1>8. QED BY <1>2, <1>5, <1>6, <1>7 DEF IInv

\* What a fault does to the history variables.
LEMMA FaultType ==
  ASSUME dropped \subseteq Message, faults \in Nat, NEW S, S \subseteq Message, Fault(S)
  PROVE  dropped' \subseteq Message /\ faults' \in Nat
BY DEF Fault

\* Every step of every job, of the API and of the environment keeps the types.
LEMMA NextTypeOK == TypeOK /\ [Next]_vars => TypeOK'
<1> SUFFICES ASSUME TypeOK, [Next]_vars
             PROVE  TypeOK'
  OBVIOUS
<1> USE OutboxAssumption DEF TypeOK, Stage, NoFault, SetRows, NoDispatch
<1>c. dispatch.batch \in Seq(Message) /\ Carried \subseteq Message
  BY ToSetOfSeq DEF Carried
<1>e. <<>> \in Seq(Message)
  OBVIOUS
<1>1. ASSUME NEW r \in Run, SaveMessages(r)
      PROVE  TypeOK'
  <2>1. PICK new \in SUBSET Message :
             /\ SetRows(new, "pending")
             /\ \E ids \in Ascending(new) : sync' = [sync EXCEPT ![r] = ids]
    BY <1>1 DEF SaveMessages
  <2>2. PICK ids \in Ascending(new) : sync' = [sync EXCEPT ![r] = ids]
    BY <2>1
  <2>3. ids \in Seq(Message)
    BY FiniteRows, AscendingIsSeq
  <2>4. QED BY <1>1, <2>1, <2>2, <2>3 DEF SaveMessages
<1>2. ASSUME NEW r \in Run, EnqueueNew(r)
      PROVE  TypeOK'
  <2>1. LPush(sync[r], queue) \in Seq(Message)
    BY LPushProperties
  <2>2. QED BY <1>2, <1>e, <2>1 DEF EnqueueNew
<1>3. ASSUME NEW r \in Run, EnqueueNewFails(r)
      PROVE  TypeOK'
  <2>1. ToSet(sync[r]) \subseteq Message
    BY ToSetOfSeq
  <2>2. dropped' \subseteq Message /\ faults' \in Nat
    BY <1>3, <2>1, FaultType DEF EnqueueNewFails
  <2>3. QED BY <1>3, <1>e, <2>2 DEF EnqueueNewFails
<1>4. CASE PopBatch
  <2>1. LPopped(queue, BatchSize) \in Seq(Message) /\ LPopRest(queue, BatchSize) \in Seq(Message)
    BY LPopProperties
  <2>2. QED BY <1>4, <2>1 DEF PopBatch
<1>5. CASE LoadBatch
  BY <1>5, <1>c, <1>e DEF LoadBatch, Stored
<1>6. CASE CrmAccepts
  BY <1>6 DEF CrmAccepts
<1>7. CASE CrmRefuses
  BY <1>7 DEF CrmRefuses
<1>8. CASE ResponseLost
  BY <1>8 DEF ResponseLost
<1>9. CASE MarkPushed
  BY <1>9, <1>e DEF MarkPushed
<1>10. CASE Reenqueue
  <2>1. LPush(dispatch.batch, queue) \in Seq(Message)
    BY LPushProperties
  <2>2. QED BY <1>10, <1>e, <2>1 DEF Reenqueue
<1>11. CASE DispatchFails
  <2>1. ToSet(dispatch.batch) \subseteq Message
    BY ToSetOfSeq
  <2>2. dropped' \subseteq Message /\ faults' \in Nat
    BY <1>11, <2>1, FaultType DEF DispatchFails
  <2>3. QED BY <1>11, <1>e, <2>2 DEF DispatchFails
<1>12. CASE RecoveryScan
  <2> DEFINE found == Lowest(Pending \ outOfWindow, RecoveryBatch)
  <2>1. found \in SUBSET Message
    BY LowestSubset DEF Pending
  <2>2. recovery' \in Ascending(found)
    BY <1>12 DEF RecoveryScan
  <2>3. recovery' \in Seq(Message)
    BY <2>1, <2>2, FiniteRows, AscendingIsSeq
  <2>4. QED BY <1>12, <2>3 DEF RecoveryScan
<1>13. CASE RecoveryEnqueue
  <2>1. LPush(recovery, queue) \in Seq(Message)
    BY LPushProperties
  <2>2. QED BY <1>13, <1>e, <2>1 DEF RecoveryEnqueue
<1>14. CASE RecoveryFails
  BY <1>14, <1>e, FaultType DEF RecoveryFails
<1>15. CASE SelectExpired
  <2>1. Lowest(Stored \intersect expired, RetentionBatch) \subseteq Message
    BY LowestSubset DEF Stored
  <2>2. QED BY <1>15, <2>1 DEF SelectExpired
<1>16. CASE DeleteExpired
  BY <1>16 DEF DeleteExpired
<1>17. ASSUME NEW a \in Account, DeleteMailbox(a)
       PROVE  TypeOK'
  BY <1>17 DEF DeleteMailbox
<1>18. ASSUME NEW m \in Message, Expire(m)
       PROVE  TypeOK'
  BY <1>18 DEF Expire
<1>19. ASSUME NEW m \in Message, LeaveWindow(m)
       PROVE  TypeOK'
  BY <1>19 DEF LeaveWindow
<1>20. CASE WorkerRestart
  BY <1>20, <1>c, <1>e, FaultType DEF WorkerRestart
<1>21. CASE RedisLoss
  <2>1. ToSet(queue) \subseteq Message
    BY ToSetOfSeq
  <2>2. dropped' \subseteq Message /\ faults' \in Nat
    BY <1>21, <2>1, FaultType DEF RedisLoss
  <2>3. QED BY <1>21, <1>e, <2>2 DEF RedisLoss
<1>22. CASE UNCHANGED vars
  BY <1>22 DEF vars
<1>23. QED
  BY <1>1, <1>2, <1>3, <1>4, <1>5, <1>6, <1>7, <1>8, <1>9, <1>10, <1>11, <1>12,
     <1>13, <1>14, <1>15, <1>16, <1>17, <1>18, <1>19, <1>20, <1>21, <1>22
     DEF Next, SyncStep, DispatchStep, RecoveryStep, DeletionStep

\* Every column, queue and job variable keeps its type for any set of messages,
\* any batch sizes and any number of faults.
THEOREM TypeCorrect == Spec => []TypeOK
<1>1. Init => TypeOK
  BY InitIInv DEF IInv
<1>2. QED BY <1>1, NextTypeOK, PTL DEF Spec

-----------------------------------------------------------------------------
(* The invariant is inductive                                              *)

\* A step that touches no row, id or delivery keeps the invariant.
LEMMA FrameKeepsIInv ==
  ASSUME IInv, TypeOK',
         UNCHANGED <<row, queue, crm, sync, dispatch, recovery, dropped>>
  PROVE  IInv'
BY DEF IInv, CirculatingIsInserted, DispatchInv, PushedIsDelivered, PendingIsCarried,
       Carried, Pending

\* A step of one sync run changes what is carried by what that run held and holds.
LEMMA CarriedUpdate ==
  ASSUME NEW r \in Run,
         \A s \in Run \ {r} : sync'[s] = sync[s],
         UNCHANGED dispatch
  PROVE  /\ Carried \union ToSet(sync'[r]) = Carried' \union ToSet(sync[r])
         /\ ToSet(sync[r]) \subseteq Carried
         /\ ToSet(sync'[r]) \subseteq Carried'
<1>1. \A x : x \in Carried <=>
        \/ x \in ToSet(dispatch.batch)
        \/ \E s \in Run : x \in ToSet(sync[s])
  BY DEF Carried
<1>2. \A x : x \in Carried' <=>
        \/ x \in ToSet(dispatch.batch)
        \/ \E s \in Run : x \in ToSet(sync'[s])
  BY DEF Carried
<1>3. \A x : \A s \in Run \ {r} : x \in ToSet(sync[s]) <=> x \in ToSet(sync'[s])
  OBVIOUS
<1>4. QED BY <1>1, <1>2, <1>3

\* sync_one_account: the insert, the LPUSH, and the exceptions around it.
LEMMA SyncKeepsIInv ==
  ASSUME IInv, TypeOK', NEW r \in Run, SyncStep(r)
  PROVE  IInv'
<1> USE DEF IInv, TypeOK, NoFault
<1>e. ToSet(<<>>) = {}
  BY DEF ToSet
<1>1. CASE SaveMessages(r)
  <2>1. PICK new \in SUBSET {m \in Message : row[m] = "absent"} :
             /\ SetRows(new, "pending")
             /\ \E ids \in Ascending(new) : sync' = [sync EXCEPT ![r] = ids]
    BY <1>1 DEF SaveMessages
  <2>2. PICK ids \in Ascending(new) : sync' = [sync EXCEPT ![r] = ids]
    BY <2>1
  <2>3. ToSet(ids) = new
    BY FiniteRows, AscendingIsSeq
  <2>4. /\ sync[r] = <<>> /\ sync'[r] = ids
        /\ \A s \in Run \ {r} : sync'[s] = sync[s]
        /\ UNCHANGED <<queue, crm, dispatch, recovery, dropped>>
    BY <1>1, <2>2 DEF SaveMessages
  <2>5. Carried' = Carried \union new
    BY <1>e, <2>3, <2>4, CarriedUpdate
  <2>6. /\ \A m \in new : row[m] = "absent" /\ row'[m] = "pending"
        /\ \A m \in Message \ new : row'[m] = row[m]
    BY <2>1 DEF SetRows
  <2>7. CirculatingIsInserted'
    BY <2>4, <2>5, <2>6 DEF CirculatingIsInserted
  <2>8. Pending' = Pending \union new
    BY <2>6 DEF Pending
  <2>9. DispatchInv'
    <3>1. new \intersect ToSet(dispatch.batch) = {}
      BY <2>6 DEF CirculatingIsInserted, Carried
    <3>2. QED BY <2>4, <2>8, <3>1 DEF DispatchInv
  <2>10. PushedIsDelivered'
    BY <2>4, <2>6 DEF PushedIsDelivered
  <2>11. PendingIsCarried'
    BY <2>4, <2>5, <2>8 DEF PendingIsCarried
  <2>12. QED BY <2>7, <2>9, <2>10, <2>11
<1>2. CASE EnqueueNew(r)
  <2>1. ToSet(queue') = ToSet(sync[r]) \union ToSet(queue)
    BY <1>2, LPushProperties DEF EnqueueNew
  <2>2. /\ sync'[r] = <<>>
        /\ \A s \in Run \ {r} : sync'[s] = sync[s]
        /\ UNCHANGED <<row, crm, dispatch, recovery, dropped>>
    BY <1>2 DEF EnqueueNew
  <2>3. ToSet(queue') \union Carried' = ToSet(queue) \union Carried
    BY <1>e, <2>1, <2>2, CarriedUpdate
  <2>4. QED
    BY <2>2, <2>3 DEF CirculatingIsInserted, DispatchInv, PushedIsDelivered,
                      PendingIsCarried, Pending
<1>3. CASE EnqueueNewFails(r)
  <2>1. dropped' = dropped \union ToSet(sync[r])
    BY <1>3 DEF EnqueueNewFails, Fault
  <2>2. /\ sync'[r] = <<>>
        /\ \A s \in Run \ {r} : sync'[s] = sync[s]
        /\ UNCHANGED <<row, queue, crm, dispatch, recovery>>
    BY <1>3 DEF EnqueueNewFails
  <2>3. Carried' \subseteq Carried /\ Carried \subseteq Carried' \union ToSet(sync[r])
    BY <1>e, <2>2, CarriedUpdate
  <2>4. QED
    BY <2>1, <2>2, <2>3 DEF CirculatingIsInserted, DispatchInv, PushedIsDelivered,
                            PendingIsCarried, Pending
<1>4. QED BY <1>1, <1>2, <1>3 DEF SyncStep

\* A step of the dispatcher changes what is carried by what it held and holds.
LEMMA CarriedByDispatch ==
  ASSUME UNCHANGED sync
  PROVE  /\ Carried \union ToSet(dispatch'.batch) = Carried' \union ToSet(dispatch.batch)
         /\ ToSet(dispatch.batch) \subseteq Carried
         /\ ToSet(dispatch'.batch) \subseteq Carried'
BY DEF Carried

\* crm_push_dispatch: a batch leaves the task stamped, back in the queue, or dropped.
LEMMA DispatchKeepsIInv ==
  ASSUME IInv, TypeOK', DispatchStep
  PROVE  IInv'
<1> USE DEF IInv, TypeOK, NoFault, Stage
<1>e. ToSet(<<>>) = {}
  BY DEF ToSet
<1>1. CASE PopBatch
  <2>1. /\ dispatch'.stage = "popped"
        /\ dispatch'.batch = LPopped(queue, BatchSize)
        /\ queue' = LPopRest(queue, BatchSize)
        /\ dispatch.batch = <<>>
        /\ UNCHANGED <<row, crm, sync, recovery, dropped>>
    BY <1>1 DEF PopBatch, DispatchInv
  <2>2. ToSet(queue) = ToSet(dispatch'.batch) \union ToSet(queue')
    BY <2>1, OutboxAssumption, LPopProperties
  <2>3. Carried' = Carried \union ToSet(dispatch'.batch)
    BY <1>e, <2>1, CarriedByDispatch
  <2>4. QED
    BY <2>1, <2>2, <2>3 DEF CirculatingIsInserted, DispatchInv, PushedIsDelivered,
                            PendingIsCarried, Pending
<1>2. CASE LoadBatch
  <2> DEFINE rows == ToSet(dispatch.batch) \intersect Stored
  <2>1. UNCHANGED <<row, queue, crm, sync, recovery, dropped>>
    BY <1>2 DEF LoadBatch
  <2>2. Pending \subseteq Stored
    BY DEF Pending, Stored
  <2>3. CASE rows = {}
    <3>1. dispatch'.stage = "idle" /\ dispatch'.batch = <<>>
      BY <1>2, <2>3 DEF LoadBatch, NoDispatch
    <3>2. Carried = Carried' \union ToSet(dispatch.batch)
      BY <1>e, <2>1, <3>1, CarriedByDispatch
    <3>3. Pending \intersect ToSet(dispatch.batch) = {}
      BY <2>2, <2>3
    <3>4. Pending' = Pending
      BY <2>1 DEF Pending
    <3>5. PendingIsCarried'
      BY <2>1, <3>2, <3>3, <3>4 DEF PendingIsCarried
    <3>6. QED
      BY <2>1, <3>1, <3>2, <3>5 DEF CirculatingIsInserted, DispatchInv, PushedIsDelivered
  <2>4. CASE rows # {}
    <3>1. /\ dispatch'.stage = "sending"
          /\ dispatch'.batch = dispatch.batch
          /\ dispatch'.loaded = rows
      BY <1>2, <2>4 DEF LoadBatch
    <3>2. Carried' = Carried /\ Pending' = Pending
      BY <2>1, <3>1 DEF Carried, Pending
    <3>3. QED
      BY <2>1, <2>2, <3>1, <3>2 DEF CirculatingIsInserted, DispatchInv,
                                    PushedIsDelivered, PendingIsCarried
  <2>5. QED BY <2>3, <2>4
<1>3. CASE CrmAccepts
  <2>1. /\ dispatch.stage = "sending"
        /\ dispatch'.stage = "accepted"
        /\ dispatch'.batch = dispatch.batch
        /\ dispatch'.loaded = dispatch.loaded
        /\ crm' = crm \union dispatch.loaded
        /\ UNCHANGED <<row, queue, sync, recovery, dropped>>
    BY <1>3 DEF CrmAccepts
  <2>2. Carried' = Carried /\ Pending' = Pending
    BY <2>1 DEF Carried, Pending
  <2>3. QED
    BY <2>1, <2>2 DEF CirculatingIsInserted, DispatchInv, PushedIsDelivered,
                      PendingIsCarried
<1>4. CASE CrmRefuses \/ ResponseLost
  <2>1. /\ dispatch'.stage = "failed"
        /\ dispatch'.batch = dispatch.batch
        /\ UNCHANGED <<row, queue, crm, sync, recovery, dropped>>
    BY <1>4 DEF CrmRefuses, ResponseLost
  <2>2. Carried' = Carried /\ Pending' = Pending
    BY <2>1 DEF Carried, Pending
  <2>3. QED
    BY <2>1, <2>2 DEF CirculatingIsInserted, DispatchInv, PushedIsDelivered,
                      PendingIsCarried
<1>5. CASE MarkPushed
  <2>1. /\ dispatch.stage = "accepted"
        /\ dispatch'.stage = "idle" /\ dispatch'.batch = <<>>
        /\ SetRows(dispatch.loaded \intersect Pending, "pushed")
        /\ UNCHANGED <<queue, crm, sync, recovery, dropped>>
    BY <1>5 DEF MarkPushed, NoDispatch
  <2>2. \A m \in Message :
          row'[m] = IF m \in dispatch.loaded \intersect Pending THEN "pushed" ELSE row[m]
    BY <2>1 DEF SetRows
  <2>3. Carried = Carried' \union ToSet(dispatch.batch)
    BY <1>e, <2>1, CarriedByDispatch
  <2>4. Pending' = Pending \ dispatch.loaded
    BY <2>2 DEF Pending
  <2>5. /\ Pending \intersect ToSet(dispatch.batch) \subseteq dispatch.loaded
        /\ dispatch.loaded \subseteq crm
    BY <2>1 DEF DispatchInv
  <2>6. CirculatingIsInserted'
    BY <2>1, <2>2, <2>3 DEF CirculatingIsInserted
  <2>7. DispatchInv'
    BY <2>1 DEF DispatchInv
  <2>8. PushedIsDelivered'
    BY <2>1, <2>2, <2>5 DEF PushedIsDelivered
  <2>9. PendingIsCarried'
    BY <2>1, <2>3, <2>4, <2>5 DEF PendingIsCarried
  <2>10. QED BY <2>6, <2>7, <2>8, <2>9
<1>6. CASE Reenqueue
  <2>1. /\ dispatch'.stage = "idle" /\ dispatch'.batch = <<>>
        /\ UNCHANGED <<row, crm, sync, recovery, dropped>>
    BY <1>6 DEF Reenqueue, NoDispatch
  <2>2. ToSet(queue') = ToSet(dispatch.batch) \union ToSet(queue)
    BY <1>6, LPushProperties DEF Reenqueue
  <2>3. Carried = Carried' \union ToSet(dispatch.batch)
    BY <1>e, <2>1, CarriedByDispatch
  <2>4. Pending' = Pending
    BY <2>1 DEF Pending
  <2>5. QED
    BY <2>1, <2>2, <2>3, <2>4 DEF CirculatingIsInserted, DispatchInv, PushedIsDelivered,
                                  PendingIsCarried
<1>7. CASE DispatchFails
  <2>1. /\ dispatch'.stage = "idle" /\ dispatch'.batch = <<>>
        /\ UNCHANGED <<row, queue, crm, sync, recovery>>
    BY <1>7 DEF DispatchFails, NoDispatch
  <2>2. dropped' = dropped \union ToSet(dispatch.batch)
    BY <1>7 DEF DispatchFails, Fault
  <2>3. Carried = Carried' \union ToSet(dispatch.batch)
    BY <1>e, <2>1, CarriedByDispatch
  <2>4. Pending' = Pending
    BY <2>1 DEF Pending
  <2>5. QED
    BY <2>1, <2>2, <2>3, <2>4 DEF CirculatingIsInserted, DispatchInv, PushedIsDelivered,
                                  PendingIsCarried
<1>8. QED BY <1>1, <1>2, <1>3, <1>4, <1>5, <1>6, <1>7 DEF DispatchStep

\* crm_push_recovery_scan enqueues only rows it read as pending.
LEMMA RecoveryKeepsIInv ==
  ASSUME IInv, TypeOK', RecoveryStep
  PROVE  IInv'
<1> USE DEF IInv, TypeOK, NoFault
<1>e. ToSet(<<>>) = {}
  BY DEF ToSet
<1>1. CASE RecoveryScan
  <2> DEFINE found == Lowest(Pending \ outOfWindow, RecoveryBatch)
  <2>1. UNCHANGED <<row, queue, crm, sync, dispatch, dropped>>
    BY <1>1 DEF RecoveryScan
  <2>2. found \in SUBSET Message /\ found \subseteq Pending
    BY LowestSubset DEF Pending
  <2>3. recovery' \in Ascending(found)
    BY <1>1 DEF RecoveryScan
  <2> HIDE DEF found
  <2>4. ToSet(recovery') \subseteq Pending
    <3>1. IsFiniteSet(found)
      BY <2>2, FiniteRows
    <3>2. QED BY <2>2, <2>3, <3>1, AscendingIsSeq
  <2>5. Carried' = Carried /\ Pending' = Pending
    BY <2>1 DEF Carried, Pending
  <2>6. CirculatingIsInserted'
    BY <2>1, <2>4, <2>5 DEF CirculatingIsInserted, Pending
  <2>7. QED
    BY <2>1, <2>5, <2>6 DEF DispatchInv, PushedIsDelivered, PendingIsCarried
<1>2. CASE RecoveryEnqueue
  <2>1. /\ dropped' = dropped \ ToSet(recovery)
        /\ recovery' = <<>>
        /\ UNCHANGED <<row, crm, sync, dispatch>>
    BY <1>2 DEF RecoveryEnqueue
  <2>2. ToSet(queue') = ToSet(recovery) \union ToSet(queue)
    BY <1>2, LPushProperties DEF RecoveryEnqueue
  <2>3. Carried' = Carried /\ Pending' = Pending
    BY <2>1 DEF Carried, Pending
  <2>4. QED
    BY <1>e, <2>1, <2>2, <2>3 DEF CirculatingIsInserted, DispatchInv, PushedIsDelivered,
                                  PendingIsCarried
<1>3. CASE RecoveryFails
  <2>1. /\ recovery' = <<>> /\ dropped' = dropped
        /\ UNCHANGED <<row, queue, crm, sync, dispatch>>
    BY <1>3 DEF RecoveryFails, Fault
  <2>2. Carried' = Carried /\ Pending' = Pending
    BY <2>1 DEF Carried, Pending
  <2>3. QED
    BY <1>e, <2>1, <2>2 DEF CirculatingIsInserted, DispatchInv, PushedIsDelivered,
                            PendingIsCarried
<1>4. QED BY <1>1, <1>2, <1>3 DEF RecoveryStep

\* Rows deleted under the dispatcher and the queue leave no debt.
LEMMA DeletionKeepsIInv ==
  ASSUME IInv, TypeOK', DeletionStep
  PROVE  IInv'
<1> USE DEF IInv, TypeOK, NoFault
<1>1. CASE SelectExpired
  BY <1>1, FrameKeepsIInv DEF SelectExpired
<1>2. ASSUME NEW S \in SUBSET Message, SetRows(S, "deleted"),
             UNCHANGED <<queue, crm, sync, dispatch, recovery, dropped>>
      PROVE  IInv'
  <2>1. \A m \in Message : row'[m] = IF m \in S THEN "deleted" ELSE row[m]
    BY <1>2 DEF SetRows
  <2>2. Carried' = Carried
    BY <1>2 DEF Carried
  <2>3. Pending' = Pending \ S
    BY <2>1 DEF Pending
  <2>4. QED
    BY <1>2, <2>1, <2>2, <2>3 DEF CirculatingIsInserted, DispatchInv, PushedIsDelivered,
                                  PendingIsCarried
<1>3. CASE DeleteExpired
  BY <1>2, <1>3 DEF DeleteExpired, Stored
<1>4. ASSUME NEW a \in Account, DeleteMailbox(a)
      PROVE  IInv'
  BY <1>2, <1>4 DEF DeleteMailbox, Stored
<1>5. QED BY <1>1, <1>3, <1>4 DEF DeletionStep

\* What a restart or Redis loses is recorded in dropped.
LEMMA FaultsKeepIInv ==
  ASSUME IInv, TypeOK', WorkerRestart \/ RedisLoss
  PROVE  IInv'
<1> USE DEF IInv, TypeOK
<1>e. ToSet(<<>>) = {}
  BY DEF ToSet
<1>1. CASE WorkerRestart
  <2>1. /\ dispatch'.stage = "idle" /\ dispatch'.batch = <<>>
        /\ \A r \in Run : sync'[r] = <<>>
        /\ recovery' = <<>>
        /\ UNCHANGED <<row, queue, crm>>
    BY <1>1 DEF WorkerRestart, NoDispatch
  <2>2. dropped' = dropped \union Carried
    BY <1>1 DEF WorkerRestart, Fault
  <2>3. Carried' = {}
    BY <1>e, <2>1 DEF Carried
  <2>4. Pending' = Pending
    BY <2>1 DEF Pending
  <2>5. QED
    BY <1>e, <2>1, <2>2, <2>3, <2>4 DEF CirculatingIsInserted, DispatchInv,
                                        PushedIsDelivered, PendingIsCarried
<1>2. CASE RedisLoss
  <2>1. queue' = <<>> /\ UNCHANGED <<row, crm, sync, dispatch, recovery>>
    BY <1>2 DEF RedisLoss
  <2>2. dropped' = dropped \union ToSet(queue)
    BY <1>2 DEF RedisLoss, Fault
  <2>3. Carried' = Carried /\ Pending' = Pending
    BY <2>1 DEF Carried, Pending
  <2>4. QED
    BY <1>e, <2>1, <2>2, <2>3 DEF CirculatingIsInserted, DispatchInv, PushedIsDelivered,
                                  PendingIsCarried
<1>3. QED BY <1>1, <1>2

\* The invariant is inductive.
LEMMA NextIInv == IInv /\ [Next]_vars => IInv'
<1> SUFFICES ASSUME IInv, [Next]_vars
             PROVE  IInv'
  OBVIOUS
<1>t. TypeOK'
  BY NextTypeOK DEF IInv
<1>1. ASSUME NEW r \in Run, SyncStep(r)
      PROVE  IInv'
  BY <1>t, <1>1, SyncKeepsIInv
<1>2. CASE DispatchStep
  BY <1>t, <1>2, DispatchKeepsIInv
<1>3. CASE RecoveryStep
  BY <1>t, <1>3, RecoveryKeepsIInv
<1>4. CASE DeletionStep
  BY <1>t, <1>4, DeletionKeepsIInv
<1>5. ASSUME NEW m \in Message, Expire(m) \/ LeaveWindow(m)
      PROVE  IInv'
  BY <1>t, <1>5, FrameKeepsIInv DEF Expire, LeaveWindow, NoFault
<1>6. CASE WorkerRestart \/ RedisLoss
  BY <1>t, <1>6, FaultsKeepIInv
<1>7. CASE UNCHANGED vars
  BY <1>t, <1>7, FrameKeepsIInv DEF vars
<1>8. QED
  BY <1>1, <1>2, <1>3, <1>4, <1>5, <1>6, <1>7 DEF Next

\* It holds in every reachable state.
LEMMA InductiveInvariant == Spec => []IInv
BY InitIInv, NextIInv, PTL DEF Spec

-----------------------------------------------------------------------------
(* What the outbox guarantees                                              *)

\* pushed_at is set only for messages the CRM stored, however sync runs, the
\* dispatcher, the recovery scan, deletions, lost answers and crashes interleave.
THEOREM PushedOnlyDelivered == Spec => []PushedIsDelivered
<1>1. IInv => PushedIsDelivered
  BY DEF IInv
<1>2. QED BY <1>1, InductiveInvariant, PTL

\* An undelivered row is always queued, carried by a job, or taken by a fault
\* that the recovery scan has not yet repaired.
THEOREM NoPendingForgotten == Spec => []PendingIsCarried
<1>1. IInv => PendingIsCarried
  BY DEF IInv
<1>2. QED BY <1>1, InductiveInvariant, PTL

-----------------------------------------------------------------------------
(* The outbox implements the abstract promise                              *)

FeedPhase == [m \in Message |-> PhaseOf(row[m])]

\* A write of some rows is a move of those messages between phases.
LEMMA SetRowsIsMove ==
  ASSUME TypeOK,
         NEW S \in SUBSET Message, S # {},
         NEW state \in {"absent", "pending", "pushed", "deleted"},
         SetRows(S, state),
         NEW from, \A m \in S : PhaseOf(row[m]) \in from
  PROVE  /\ Feed!Move(S, from, PhaseOf(state))
         /\ FeedPhase' = [m \in Message |-> IF m \in S THEN PhaseOf(state) ELSE FeedPhase[m]]
<1>1. row' = [m \in Message |-> IF m \in S THEN state ELSE row[m]]
  BY DEF SetRows
<1>2. FeedPhase' = [m \in Message |-> IF m \in S THEN PhaseOf(state) ELSE FeedPhase[m]]
  BY <1>1 DEF FeedPhase
<1>3. QED BY <1>2 DEF Feed!Move, FeedPhase

\* A step that writes neither rows nor the CRM is a stutter of the promise.
LEMMA RowsUnchangedIsStutter ==
  ASSUME UNCHANGED <<row, crm>>
  PROVE  UNCHANGED Feed!vars
BY DEF Feed!vars

\* Every step maps to a step of the promise or to a stutter.
LEMMA NextRefines ==
  ASSUME IInv, IInv', [Next]_vars
  PROVE  [Feed!Next]_(Feed!vars)
<1> USE DEF IInv, NoFault
<1>1. ASSUME NEW r \in Run, SaveMessages(r)
      PROVE  Feed!Next
  <2>1. PICK new \in SUBSET Message :
          /\ new # {} /\ SetRows(new, "pending")
          /\ \A m \in new : row[m] = "absent"
    BY <1>1 DEF SaveMessages
  <2>2. Feed!Move(new, {"absent"}, "owed")
    BY <2>1, SetRowsIsMove DEF PhaseOf
  <2>3. Feed!Commit(new)
    BY <1>1, <2>2 DEF Feed!Commit, SaveMessages
  <2>4. QED BY <2>3 DEF Feed!Next
<1>2. CASE CrmAccepts
  <2>1. dispatch.stage = "sending" /\ crm' = crm \union dispatch.loaded /\ row' = row
    BY <1>2 DEF CrmAccepts
  <2>2. dispatch.loaded \in SUBSET Message
    BY DEF TypeOK
  <2>3. \A m \in dispatch.loaded : row[m] # "absent"
    BY <2>1, <2>2 DEF DispatchInv, CirculatingIsInserted, Carried
  <2>4. \A m \in dispatch.loaded : PhaseOf(row[m]) # "absent"
    BY <2>2, <2>3 DEF TypeOK, PhaseOf
  <2>5. Feed!Receive(dispatch.loaded)
    BY <2>1, <2>2, <2>4 DEF Feed!Receive
  <2>6. QED BY <2>2, <2>5 DEF Feed!Next
<1>3. CASE MarkPushed
  <2> DEFINE S == dispatch.loaded \intersect Pending
  <2>1. /\ dispatch.stage = "accepted" /\ SetRows(S, "pushed") /\ crm' = crm
        /\ S \in SUBSET Message
    BY <1>3 DEF MarkPushed, Pending
  <2>2. CASE S = {}
    <3>1. row' = row
      BY <2>1, <2>2 DEF SetRows, TypeOK
    <3>2. QED BY <2>1, <3>1, RowsUnchangedIsStutter
  <2>3. CASE S # {}
    <3>1. \A m \in S : PhaseOf(row[m]) \in {"owed"}
      BY DEF Pending, PhaseOf
    <3>2. Feed!Move(S, {"owed"}, "settled")
      BY <2>1, <2>3, <3>1, SetRowsIsMove DEF PhaseOf
    <3>3. S \subseteq crm
      BY <2>1 DEF DispatchInv
    <3>4. Feed!Settle(S)
      BY <2>1, <3>2, <3>3 DEF Feed!Settle
    <3>5. QED BY <2>1, <3>4 DEF Feed!Next
  <2>4. QED BY <2>2, <2>3
<1>4. ASSUME NEW S \in SUBSET Stored, SetRows(S, "deleted"), crm' = crm
      PROVE  [Feed!Next]_(Feed!vars)
  <2>1. S \in SUBSET Message
    BY DEF Stored
  <2>2. CASE S = {}
    <3>1. row' = row
      BY <1>4, <2>2 DEF SetRows, TypeOK
    <3>2. QED BY <1>4, <3>1, RowsUnchangedIsStutter
  <2>3. CASE S # {}
    <3>1. \A m \in S : PhaseOf(row[m]) \in {"owed", "settled"}
      BY DEF Stored, PhaseOf
    <3>2. Feed!Move(S, {"owed", "settled"}, "gone")
      BY <1>4, <2>1, <2>3, <3>1, SetRowsIsMove DEF PhaseOf
    <3>3. Feed!Discard(S)
      BY <1>4, <3>2 DEF Feed!Discard
    <3>4. QED BY <2>1, <3>3 DEF Feed!Next
  <2>4. QED BY <2>2, <2>3
<1>5. CASE DeleteExpired
  BY <1>4, <1>5 DEF DeleteExpired
<1>6. ASSUME NEW a \in Account, DeleteMailbox(a)
      PROVE  [Feed!Next]_(Feed!vars)
  <2>1. {m \in Stored : MailboxOf[m] = a} \in SUBSET Stored
    OBVIOUS
  <2>2. QED BY <1>4, <1>6, <2>1 DEF DeleteMailbox
<1>7. CASE UNCHANGED <<row, crm>>
  BY <1>7, RowsUnchangedIsStutter
<1>8. QED
  BY <1>1, <1>2, <1>3, <1>5, <1>6, <1>7
     DEF Next, SyncStep, EnqueueNew, EnqueueNewFails, DispatchStep, PopBatch, LoadBatch,
         CrmRefuses, ResponseLost, Reenqueue, DispatchFails, RecoveryStep, RecoveryScan,
         RecoveryEnqueue, RecoveryFails, DeletionStep, SelectExpired, Expire, LeaveWindow,
         WorkerRestart, RedisLoss, vars

\* Every behaviour of the outbox, faults included, is one the promise to the CRM
\* allows: a message is settled only once received, and what was settled or
\* discarded is never owed again.
THEOREM OutboxImplementsPromise == Spec => FeedKeepsPromise
<1>1. Init => Feed!Init
  BY DEF Init, Feed!Init, PhaseOf
<1>2. IInv /\ IInv' /\ [Next]_vars => [Feed!Next]_(Feed!vars)
  BY NextRefines
<1>3. QED
  BY <1>1, <1>2, InductiveInvariant, PTL DEF Spec, FeedKeepsPromise, Feed!Spec
=============================================================================
