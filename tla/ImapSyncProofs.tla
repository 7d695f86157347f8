--------------------------- MODULE ImapSyncProofs ---------------------------
(***************************************************************************)
(* Proofs about ImapSync for any set of overlapping runs, any number of    *)
(* messages, rebuilds and faults and any batch size: type correctness, and *)
(* that no cursor ever hides a message of the mailbox it names, provided   *)
(* the server reports UIDNEXT once the mailbox has been rebuilt (a server  *)
(* that omits it after a rebuild makes imap_rebuild.cfg fail).             *)
(*                                                                         *)
(* The argument: a cursor is safe when it names no validity to come and    *)
(* hides no message of the present one.  The cursor a run loaded stays     *)
(* safe while the run waits, so the one it writes is safe whatever the     *)
(* other runs wrote; what the search found covers every message below the  *)
(* cursor to be written until the insert has stored it.                    *)
(*                                                                         *)
(* The tables of errors at the end agree for every error, whatever its     *)
(* kind and its markers.                                                   *)
(***************************************************************************)
EXTENDS ImapSync, FiniteSetTheorems, WellFoundedInduction, TLAPS

RunRecord == [stage : {"idle", "open", "login", "save", "mark"} \union Connected,
              attempt : 0..Retries, from : Cursor, to : Cursor, uids : SUBSET Uids,
              got : SUBSET Uids]

Server ==
  {srv \in [validity : 1..MaxValidity, next : 1..(MaxUid + 1), box : SUBSET Uids,
            old : SUBSET Uids] :
     srv.old \subseteq srv.box /\ \A u \in srv.box : u < srv.next}

Inserted == SUBSET ((0..MaxValidity) \X Uids)

TypeInv ==
  /\ server \in Server /\ cursor \in Cursor /\ stored \in Inserted
  /\ sync \in [Run -> RunRecord] /\ faults \in 0..MaxFaults

LEMMA TypeInvOK == TypeInv => TypeOK
BY DEF TypeInv, TypeOK, Server, Inserted, RunRecord

\* The highest of some UIDs: what the fallback for a missing UIDNEXT computes.
LEMMA MaxOfUids ==
  ASSUME NEW n \in Nat, NEW S \in SUBSET (1..n), S # {}
  PROVE  /\ Max(S) \in S
         /\ \A u \in S : Max(S) >= u
<1> DEFINE gaps == {n - u : u \in S}
           less == {pair \in Nat \X Nat : pair[1] < pair[2]}
<1>1. IsWellFoundedOn(less, Nat)
  <2>1. less = OpToRel(<, Nat)
    BY DEF OpToRel
  <2>2. QED BY <2>1, NatLessThanWellFounded
<1>2. gaps \subseteq Nat
  <2>1. \A u \in S : u \in Nat /\ u <= n
    OBVIOUS
  <2>2. \A u \in S : n - u \in Nat
    BY <2>1
  <2>3. QED BY <2>2
<1>3. gaps # {}
  OBVIOUS
<1>4. PICK g \in gaps : \A h \in gaps : ~ (<<h, g>> \in less)
  <2> HIDE DEF gaps, less
  <2> QED BY <1>1, <1>2, <1>3, WFMin
<1>5. PICK m \in S : g = n - m
  BY <1>4
<1>6. ASSUME NEW u \in S PROVE m >= u
  <2>1. n - u \in gaps /\ n - u \in Nat /\ g \in Nat
    BY <1>2, <1>4
  <2>2. ~ (n - u < g)
    <3>1. <<n - u, g>> \notin less
      BY <1>4, <2>1
    <3>2. n - u < g => <<n - u, g>> \in less
      BY <2>1
    <3>3. QED BY <3>1, <3>2
  <2>3. u \in Nat /\ m \in Nat
    BY <1>5
  <2>4. QED BY <1>5, <2>2, <2>3
<1>7. QED BY <1>5, <1>6 DEF Max

\* The cursor a fetch ends with is a cursor.
LEMMA NextCursorType ==
  ASSUME NEW s \in RunRecord
  PROVE  /\ NextCursor(s) \in 0..(MaxUid + 1)
         /\ s.to.next = Unknown /\ s.got # {} => \E w \in s.got : NextCursor(s) = w + 1
<1>1. s.to \in Cursor /\ s.from \in Cursor /\ s.got \subseteq 1..MaxUid /\ MaxUid \in Nat
  BY ImapAssumption DEF RunRecord, Uids
<1>2. s.to.next \in 0..(MaxUid + 1) /\ s.from.next \in 0..(MaxUid + 1)
  BY <1>1 DEF Cursor
<1>3. ASSUME s.got # {} PROVE Max(s.got) \in s.got
  BY <1>1, <1>3, MaxOfUids
<1>4. ASSUME s.got # {} PROVE Max(s.got) + 1 \in 0..(MaxUid + 1)
  BY <1>1, <1>3, <1>4
<1>5. QED BY <1>2, <1>3, <1>4 DEF NextCursor

-----------------------------------------------------------------------------
(* Type correctness                                                        *)

LEMMA AdvanceType ==
  ASSUME sync \in [Run -> RunRecord], NEW r \in Run, NEW s \in RunRecord, Advance(r, s)
  PROVE  sync' \in [Run -> RunRecord] /\ sync'[r] = s
         /\ \A q \in Run : q # r => sync'[q] = sync[q]
BY DEF Advance

LEMMA IdleRunType == IdleRun \in RunRecord /\ NoCursor \in Cursor
BY ImapAssumption DEF IdleRun, RunRecord, NoCursor, Unknown, Cursor, Uids

LEMMA FaultType == ASSUME faults \in 0..MaxFaults, Fault PROVE faults' \in 0..MaxFaults
BY ImapAssumption DEF Fault

\* A step of a run writes its own record.
LEMMA RunTypes ==
  ASSUME TypeInv, NEW r \in Run, RunStep(r)
  PROVE  /\ sync' \in [Run -> RunRecord]
         /\ \A q \in Run : q # r => sync'[q] = sync[q]
<1> DEFINE s == sync[r]
<1>0. sync \in [Run -> RunRecord] /\ s \in RunRecord /\ server \in Server /\ cursor \in Cursor
  BY DEF TypeInv
<1>s. s.from \in Cursor /\ s.to \in Cursor /\ s.attempt \in 0..Retries
      /\ s.uids \in SUBSET Uids /\ s.got \in SUBSET Uids
  BY <1>0 DEF RunRecord
<1>v. server.validity \in 0..MaxValidity /\ server.next \in 0..(MaxUid + 1)
      /\ server.box \in SUBSET Uids
  BY <1>0 DEF Server
<1>g. ASSUME NEW t \in RunRecord, Advance(r, t)
      PROVE  /\ sync' \in [Run -> RunRecord]
             /\ \A q \in Run : q # r => sync'[q] = sync[q]
  BY <1>0, <1>g, AdvanceType
<1>i. IdleRun \in RunRecord
  BY IdleRunType
<1>1. CASE StartSync(r)
  <2>1. [IdleRun EXCEPT !.stage = "open", !.from = cursor] \in RunRecord
    BY <1>0, <1>i DEF RunRecord
  <2>2. QED BY <1>1, <1>g, <2>1 DEF StartSync
<1>2. CASE Open(r) \/ Login(r)
  <2>1. [s EXCEPT !.stage = "login"] \in RunRecord /\ [s EXCEPT !.stage = "status"] \in RunRecord
    BY <1>0 DEF RunRecord, Connected
  <2>2. QED BY <1>2, <1>g, <2>1 DEF Open, Login
<1>3. CASE OpenFails(r) \/ LoginFails(r) \/ FetchFails(r) \/ StoreFails(r)
  BY <1>3, <1>g, <1>i DEF OpenFails, LoginFails, FetchFails, StoreFails, GiveUp
<1>4. CASE LoginRetries(r)
  <2>1. s.attempt + 1 \in 0..Retries
    BY <1>4, <1>s, ImapAssumption DEF LoginRetries
  <2>2. [s EXCEPT !.stage = "open", !.attempt = @ + 1] \in RunRecord
    BY <1>0, <2>1 DEF RunRecord
  <2>3. QED BY <1>4, <1>g, <2>2 DEF LoginRetries
<1>5. CASE ReadValidity(r)
  <2>1. PICK v \in Reported :
          Advance(r, [s EXCEPT !.stage = "uidnext", !.to.validity = v])
    BY <1>5 DEF ReadValidity
  <2>2. v \in 0..MaxValidity
    BY <1>v, ImapAssumption DEF Reported, Unknown
  <2>3. [s EXCEPT !.stage = "uidnext", !.to.validity = v] \in RunRecord
    <3> DEFINE t == [s.to EXCEPT !.validity = v]
    <3>1. t \in Cursor
      BY <1>s, <2>2 DEF Cursor
    <3>2. [s EXCEPT !.stage = "uidnext", !.to.validity = v]
            = [s EXCEPT !.stage = "uidnext", !.to = t]
      BY <1>0 DEF RunRecord
    <3> HIDE DEF t
    <3>3. QED BY <1>0, <3>1, <3>2 DEF RunRecord, Connected
  <2>4. QED BY <1>g, <2>1, <2>3
<1>6. CASE ReadNext(r)
  <2>1. [s.to EXCEPT !.next = server.next] \in Cursor
    BY <1>s, <1>v DEF Cursor
  <2>2. /\ [s EXCEPT !.stage = "search", !.to.next = server.next] \in RunRecord
        /\ [s EXCEPT !.stage = "search"] \in RunRecord
    <3> DEFINE t == [s.to EXCEPT !.next = server.next]
    <3>2. [s EXCEPT !.stage = "search", !.to.next = server.next]
            = [s EXCEPT !.stage = "search", !.to = t]
      BY <1>0 DEF RunRecord
    <3>3. QED BY <1>0, <2>1, <3>2 DEF RunRecord, Connected
  <2>3. QED BY <1>6, <1>g, <2>2 DEF ReadNext
<1>7. CASE Search(r)
  <2>1. Found(s.from, s.to) \in SUBSET Uids
    BY <1>v DEF Found
  <2>2. [s EXCEPT !.stage = "fetch", !.uids = Found(s.from, s.to)] \in RunRecord
    BY <1>0, <2>1 DEF RunRecord, Connected
  <2>3. QED BY <1>7, <1>g, <2>2 DEF Search
<1>8. CASE FetchBatch(r)
  <2> DEFINE batch == Lowest(s.uids, BatchSize)
  <2>1. [s EXCEPT !.uids = @ \ batch, !.got = @ \union (batch \intersect server.box)]
          \in RunRecord
    <3> HIDE DEF batch
    <3>1. s.uids \ batch \in SUBSET Uids
          /\ s.got \union (batch \intersect server.box) \in SUBSET Uids
      BY <1>s, <1>v
    <3>2. QED BY <1>0, <3>1 DEF RunRecord
  <2>2. QED BY <1>8, <1>g, <2>1 DEF FetchBatch
<1>9. CASE FetchEnds(r)
  <2>1. NextCursor(s) \in 0..(MaxUid + 1)
    BY <1>0, NextCursorType
  <2> DEFINE t == [s.to EXCEPT !.next = NextCursor(s)]
  <2>2. t \in Cursor
    BY <1>s, <2>1 DEF Cursor
  <2>3. [s EXCEPT !.stage = "save", !.to.next = NextCursor(s)] \in RunRecord
    <3>1. [s EXCEPT !.stage = "save", !.to.next = NextCursor(s)]
            = [s EXCEPT !.stage = "save", !.to = t]
      BY <1>0 DEF RunRecord
    <3>2. QED BY <1>0, <2>2, <3>1 DEF RunRecord
  <2>4. QED BY <1>9, <1>g, <2>3 DEF FetchEnds
<1>10. CASE Save(r)
  <2>1. [s EXCEPT !.stage = "mark"] \in RunRecord
    BY <1>0 DEF RunRecord
  <2>2. QED BY <1>10, <1>g, <2>1 DEF Save
<1>11. CASE Mark(r)
  BY <1>11, <1>g, <1>i DEF Mark
<1>12. QED
  BY <1>1, <1>2, <1>3, <1>4, <1>5, <1>6, <1>7, <1>8, <1>9, <1>10, <1>11 DEF RunStep

LEMMA RunType ==
  ASSUME TypeInv, NEW r \in Run, RunStep(r)
  PROVE  TypeInv'
<1>t. /\ server \in Server /\ cursor \in Cursor /\ stored \in Inserted
      /\ sync \in [Run -> RunRecord] /\ faults \in 0..MaxFaults
  BY DEF TypeInv
<1>1. sync' \in [Run -> RunRecord]
  BY RunTypes
<1>2. server' = server
  BY DEF RunStep, StartSync, Open, OpenFails, Login, LoginRetries, LoginFails, ReadValidity,
         ReadNext, Search, FetchBatch, FetchEnds, FetchFails, Save, Mark, StoreFails, GiveUp
<1>3. faults' = faults \/ Fault
  BY DEF RunStep, StartSync, Open, OpenFails, Login, LoginRetries, LoginFails, ReadValidity,
         ReadNext, Search, FetchBatch, FetchEnds, FetchFails, Save, Mark, StoreFails, GiveUp
<1>4. faults' \in 0..MaxFaults
  BY <1>t, <1>3, FaultType
<1>5. cursor' \in Cursor
  <2>1. cursor' = cursor \/ cursor' = sync[r].to
    BY DEF RunStep, StartSync, Open, OpenFails, Login, LoginRetries, LoginFails, ReadValidity,
           ReadNext, Search, FetchBatch, FetchEnds, FetchFails, Save, Mark, StoreFails, GiveUp
  <2>2. QED BY <1>t, <2>1 DEF RunRecord
<1>6. stored' \in Inserted
  <2>1. stored' = stored \/ Save(r)
    BY DEF RunStep, StartSync, Open, OpenFails, Login, LoginRetries, LoginFails, ReadValidity,
           ReadNext, Search, FetchBatch, FetchEnds, FetchFails, Mark, StoreFails, GiveUp
  <2>2. CASE Save(r)
    <3>1. sync[r].got \in SUBSET Uids
      BY <1>t DEF RunRecord
    <3>2. sync[r].to.validity \in 0..MaxValidity
      BY <1>t DEF RunRecord, Cursor
    <3>3. QED BY <1>t, <2>2, <3>1, <3>2 DEF Save, Inserted
  <2>3. QED BY <1>t, <2>1, <2>2
<1>7. QED BY <1>t, <1>1, <1>2, <1>4, <1>5, <1>6 DEF TypeInv

LEMMA ServerType ==
  ASSUME TypeInv, WorkerRestart \/ ServerStep
  PROVE  TypeInv'
<1>t. /\ server \in Server /\ cursor \in Cursor /\ stored \in Inserted
      /\ sync \in [Run -> RunRecord] /\ faults \in 0..MaxFaults
  BY DEF TypeInv
<1>i. IdleRun \in RunRecord
  BY IdleRunType
<1>1. CASE WorkerRestart
  <2>1. sync' \in [Run -> RunRecord]
    BY <1>1, <1>i DEF WorkerRestart
  <2>2. faults' \in 0..MaxFaults
    BY <1>1, <1>t, FaultType DEF WorkerRestart
  <2>3. QED BY <1>1, <1>t, <2>1, <2>2 DEF WorkerRestart, TypeInv
<1>2. CASE Deliver
  <2>1. PICK old \in {{}, {server.next}} :
          server' = [server EXCEPT !.next = @ + 1, !.box = @ \union {server.next},
                                   !.old = @ \union old]
    BY <1>2 DEF Deliver
  <2>2. server.next \in 1..MaxUid
    BY <1>2, <1>t, ImapAssumption DEF Deliver, Server
  <2>3. server' \in Server
    <3>1. /\ server.next + 1 \in 1..(MaxUid + 1)
          /\ server.box \union {server.next} \in SUBSET Uids
          /\ server.old \union old \in SUBSET Uids
          /\ server.old \union old \subseteq server.box \union {server.next}
      BY <1>t, <2>2, ImapAssumption DEF Server, Uids
    <3>2. \A u \in server.box \union {server.next} : u < server.next + 1
      BY <1>t, <2>2, ImapAssumption DEF Server, Uids
    <3>3. server' = [validity |-> server.validity, next |-> server.next + 1,
                     box |-> server.box \union {server.next},
                     old |-> server.old \union old]
      BY <1>t, <2>1 DEF Server
    <3>4. server.validity \in 1..MaxValidity
      BY <1>t DEF Server
    <3>5. QED BY <3>1, <3>2, <3>3, <3>4 DEF Server
  <2>4. QED BY <1>2, <1>t, <2>3 DEF Deliver, TypeInv
<1>3. ASSUME NEW u \in 1..MaxUid, Expunge(u) \/ GrowOld(u) PROVE TypeInv'
  <2>1. server' \in Server
    BY <1>3, <1>t DEF Expunge, GrowOld, Server, Uids
  <2>2. QED BY <1>3, <1>t, <2>1 DEF Expunge, GrowOld, TypeInv
<1>4. CASE Rebuild
  <2>1. PICK n \in 0..Cardinality(server.box) : \E old \in SUBSET (1..n) :
          server' = [validity |-> server.validity + 1, next |-> n + 1, box |-> 1..n,
                     old |-> old]
    BY <1>4 DEF Rebuild
  <2>2. n \in 0..MaxUid
    <3>1. server.box \subseteq 1..MaxUid /\ MaxUid \in Nat
      BY <1>t, ImapAssumption DEF Server, Uids
    <3>2. IsFiniteSet(1..MaxUid) /\ Cardinality(1..MaxUid) = MaxUid
      BY <3>1, FS_Interval
    <3>3. Cardinality(server.box) \in Nat /\ Cardinality(server.box) <= MaxUid
      BY <3>1, <3>2, FS_Subset, FS_CardinalityType
    <3>4. QED BY <3>1, <3>3
  <2>3. server' \in Server
    <3>1. PICK old \in SUBSET (1..n) :
            server' = [validity |-> server.validity + 1, next |-> n + 1, box |-> 1..n,
                       old |-> old]
      BY <2>1
    <3>2. server.validity + 1 \in 1..MaxValidity
      BY <1>4, <1>t, ImapAssumption DEF Rebuild, Server
    <3>3. n + 1 \in 1..(MaxUid + 1) /\ 1..n \subseteq Uids /\ \A u \in 1..n : u < n + 1
      BY <2>2, ImapAssumption DEF Uids
    <3>4. QED BY <3>1, <3>2, <3>3 DEF Server
  <2>4. sync' \in [Run -> RunRecord]
    BY <1>4, <1>t, <1>i DEF Rebuild
  <2>5. QED BY <1>4, <1>t, <2>3, <2>4 DEF Rebuild, TypeInv
<1>5. QED BY <1>1, <1>2, <1>3, <1>4 DEF ServerStep

LEMMA TypeStep == TypeInv /\ [Next]_vars => TypeInv'
<1> SUFFICES ASSUME TypeInv, [Next]_vars PROVE TypeInv'
  OBVIOUS
<1>1. CASE UNCHANGED vars
  BY <1>1 DEF vars, TypeInv
<1>2. QED BY <1>1, RunType, ServerType DEF Next

LEMMA TypeInit == Init => TypeInv
<1> SUFFICES ASSUME Init PROVE TypeInv
  OBVIOUS
<1>1. PICK n \in 0..MaxUid, old \in SUBSET (1..MaxUid) :
        /\ old \subseteq 1..n
        /\ server = [validity |-> 1, next |-> n + 1, box |-> 1..n, old |-> old]
  BY DEF Init
<1>2. server \in Server
  <2>1. 1 \in 1..MaxValidity /\ n + 1 \in 1..(MaxUid + 1) /\ 1..n \subseteq Uids
        /\ \A u \in 1..n : u < n + 1
    BY ImapAssumption DEF Uids
  <2>2. QED BY <1>1, <2>1 DEF Server
<1>3. sync \in [Run -> RunRecord] /\ cursor \in Cursor
  BY IdleRunType DEF Init
<1>4. QED BY <1>2, <1>3, ImapAssumption DEF Init, TypeInv, Inserted

\* The cursor, the runs and what is stored keep their types, whatever the runs and the
\* server do and wherever a run fails (fetcher.py, cycle.py).
THEOREM TypeCorrect == Spec => []TypeOK
<1>1. Spec => []TypeInv
  BY TypeInit, TypeStep, PTL DEF Spec
<1>2. QED BY <1>1, TypeInvOK, PTL

-----------------------------------------------------------------------------
(* No cursor hides a message                                               *)

\* What is on the server below n is stored, or among the UIDs in hand.
Below(n, srv, uids, st) ==
  /\ n <= srv.next
  /\ \A u \in srv.box \ srv.old : u < n => <<srv.validity, u>> \in st \/ u \in uids

\* What holds of a cursor <<v, n>> with the UIDs in hand: it names no validity to
\* come, it is not beyond the end of a mailbox that was never renumbered, and
\* what it leaves behind in the mailbox it names is stored or in hand.
Covered(v, n, srv, uids, st) ==
  /\ v <= srv.validity
  /\ srv.validity = 1 => n <= srv.next
  /\ v = srv.validity => Below(n, srv, uids, st)

Safe(c, srv, st) == Covered(c.validity, c.next, srv, {}, st)

\* The cursors the fetch may end with, as far as it is known.
Reach(s) ==
  IF s.to.next # Unknown THEN {s.to.next}
  ELSE {s.from.next} \union {u + 1 : u \in s.uids \union s.got}

RunSafe(s, srv, st) ==
  /\ Safe(s.from, srv, st)
  /\ s.stage \in {"open", "login", "status", "uidnext"} => s.to.next = Unknown
  /\ s.stage \in {"open", "login", "status", "uidnext", "search"} => s.got = {}
  /\ s.stage \in {"uidnext", "search"} => s.to.validity \in {Unknown, srv.validity}
  /\ s.stage = "search" /\ s.to.next = Unknown => srv.validity \in Omits
  /\ s.stage = "search" => s.to.next <= srv.next
  /\ s.stage = "fetch" =>
       \A n \in Reach(s) : Covered(s.to.validity, n, srv, s.uids \union s.got, st)
  /\ s.stage = "save" => Covered(s.to.validity, s.to.next, srv, s.got, st)
  /\ s.stage = "mark" => Safe(s.to, srv, st)

IInv ==
  /\ TypeInv
  /\ Safe(cursor, server, stored)
  /\ \A r \in Run : RunSafe(sync[r], server, stored)

\* The mailbox goes on under its validity: messages come at its end or leave, and
\* more is stored.
GoesOn(srv, srv2, st, st2) ==
  /\ srv2.validity = srv.validity /\ srv.next <= srv2.next /\ st \subseteq st2
  /\ \A u \in srv2.box \ srv2.old : u \in srv.box \ srv.old \/ u >= srv.next

LEMMA BelowKept ==
  ASSUME NEW srv \in Server, NEW srv2 \in Server, NEW st, NEW st2, GoesOn(srv, srv2, st, st2),
         NEW n \in Nat, NEW uids, Below(n, srv, uids, st)
  PROVE  Below(n, srv2, uids, st2)
<1>1. srv.next \in Nat /\ srv2.next \in Nat /\ srv2.box \subseteq Nat
  BY ImapAssumption DEF Server, Uids
<1>2. n <= srv2.next
  BY <1>1 DEF Below, GoesOn
<1>3. ASSUME NEW u \in srv2.box \ srv2.old, u < n
      PROVE  <<srv2.validity, u>> \in st2 \/ u \in uids
  <2>1. u \in srv.box \ srv.old
    BY <1>1, <1>3 DEF Below, GoesOn
  <2>2. QED BY <1>3, <2>1 DEF Below, GoesOn
<1>4. QED BY <1>2, <1>3 DEF Below

LEMMA CoveredKept ==
  ASSUME NEW srv \in Server, NEW srv2 \in Server, NEW st, NEW st2, GoesOn(srv, srv2, st, st2),
         NEW v \in Nat, NEW n \in Nat, NEW uids, Covered(v, n, srv, uids, st)
  PROVE  Covered(v, n, srv2, uids, st2)
<1>1. v = srv2.validity => Below(n, srv2, uids, st2)
  BY BelowKept DEF Covered, GoesOn
<1>2. srv.next \in Nat /\ srv2.next \in Nat
  BY ImapAssumption DEF Server
<1>3. QED BY <1>1, <1>2 DEF Covered, GoesOn

LEMMA SafeKept ==
  ASSUME NEW srv \in Server, NEW srv2 \in Server, NEW st, NEW st2, GoesOn(srv, srv2, st, st2),
         NEW c \in Cursor, Safe(c, srv, st)
  PROVE  Safe(c, srv2, st2)
<1>1. c.next \in Nat /\ c.validity \in Nat
  BY ImapAssumption DEF Cursor
<1>2. QED BY <1>1, CoveredKept DEF Safe

\* A rebuild leaves every cursor behind.
LEMMA RebuildCovers ==
  ASSUME NEW srv \in Server, NEW srv2 \in Server, srv2.validity = srv.validity + 1,
         NEW st, NEW v \in Nat, NEW n, NEW uids, Covered(v, n, srv, uids, st)
  PROVE  Covered(v, n, srv2, uids, st)
<1>1. srv.validity \in Nat \ {0}
  BY ImapAssumption DEF Server
<1>2. QED BY <1>1 DEF Covered

LEMMA ReachType ==
  ASSUME NEW s \in RunRecord
  PROVE  Reach(s) \subseteq Nat
<1>1. s.to.next \in Nat /\ s.from.next \in Nat /\ s.uids \subseteq Nat /\ s.got \subseteq Nat
  BY ImapAssumption DEF RunRecord, Cursor, Uids
<1>2. QED BY <1>1 DEF Reach

LEMMA RunSafeKept ==
  ASSUME NEW srv \in Server, NEW srv2 \in Server, NEW st, NEW st2, GoesOn(srv, srv2, st, st2),
         NEW s \in RunRecord, RunSafe(s, srv, st)
  PROVE  RunSafe(s, srv2, st2)
<1>1. s.from \in Cursor /\ s.to \in Cursor /\ s.to.next \in Nat /\ s.to.validity \in Nat
  BY ImapAssumption DEF RunRecord, Cursor
<1>2. Safe(s.from, srv2, st2)
  BY <1>1, SafeKept DEF RunSafe
<1>3. s.stage = "mark" => Safe(s.to, srv2, st2)
  BY <1>1, SafeKept DEF RunSafe
<1>4. ASSUME s.stage = "fetch", NEW n \in Reach(s)
      PROVE  Covered(s.to.validity, n, srv2, s.uids \union s.got, st2)
  <2>1. n \in Nat /\ Covered(s.to.validity, n, srv, s.uids \union s.got, st)
    BY <1>4, ReachType DEF RunSafe
  <2>2. QED BY <1>1, <2>1, CoveredKept
<1>5. s.stage = "save" => Covered(s.to.validity, s.to.next, srv2, s.got, st2)
  BY <1>1, CoveredKept DEF RunSafe
<1>6. s.stage = "search" => s.to.next <= srv2.next
  <2>1. srv.next \in Nat /\ srv2.next \in Nat
    BY ImapAssumption DEF Server
  <2>2. QED BY <1>1, <2>1 DEF RunSafe, GoesOn
<1>7. QED BY <1>2, <1>3, <1>4, <1>5, <1>6 DEF RunSafe, GoesOn

\* A run that ended, and one that starts.
LEMMA IdleRunSafe ==
  ASSUME NEW srv \in Server, NEW st
  PROVE  RunSafe(IdleRun, srv, st) /\ Safe(NoCursor, srv, st)
<1>1. srv.validity \in Nat /\ srv.validity # 0 /\ srv.next \in Nat
  BY ImapAssumption DEF Server
<1>2. Safe(NoCursor, srv, st)
  BY <1>1 DEF Safe, Covered, NoCursor, Unknown
<1>3. QED BY <1>2 DEF RunSafe, IdleRun

LEMMA SearchSafe ==
  ASSUME IInv, Omits \subseteq {1}, NEW r \in Run, Search(r)
  PROVE  RunSafe(sync'[r], server, stored)
<1> DEFINE s == sync[r]
           uids == Found(s.from, s.to)
           t == [s EXCEPT !.stage = "fetch", !.uids = uids]
           all == uids \union s.got
<1>1. /\ s \in RunRecord /\ RunSafe(s, server, stored) /\ s.stage = "search"
      /\ server \in Server /\ sync'[r] = t
  BY DEF IInv, TypeInv, Search, Advance
<1>2. /\ s.got = {} /\ s.to.validity \in {Unknown, server.validity}
      /\ s.to.next <= server.next /\ Safe(s.from, server, stored)
      /\ s.to.next = Unknown => server.validity = 1
  BY <1>1 DEF RunSafe
<1>3. /\ s.from.next \in Nat /\ s.from.validity \in Nat /\ s.to.next \in Nat
      /\ server.validity \in Nat \ {0} /\ server.next \in Nat /\ server.box \subseteq Nat
      /\ \A u \in server.box : u < server.next
  BY <1>1, ImapAssumption DEF RunRecord, Cursor, Server, Uids
<1>4. all = uids /\ uids \subseteq server.box
  BY <1>2 DEF Found
<1>5. ASSUME s.to.validity = server.validity, NEW u \in server.box \ server.old
      PROVE  <<server.validity, u>> \in stored \/ u \in all
  <2>1. CASE Initial(s.from, s.to)
    BY <1>4, <1>5, <2>1 DEF Found
  <2>2. CASE ~ Initial(s.from, s.to)
    <3>1. Below(s.from.next, server, {}, stored)
      BY <1>2, <1>5, <2>2 DEF Initial, Safe, Covered
    <3>2. CASE u < s.from.next
      BY <3>1, <3>2 DEF Below
    <3>3. CASE u >= s.from.next
      BY <1>4, <2>2, <3>3 DEF Found
    <3>4. QED BY <1>3, <3>2, <3>3
  <2>3. QED BY <2>1, <2>2
<1>6. ASSUME NEW n \in Nat, n <= server.next
      PROVE  Covered(s.to.validity, n, server, all, stored)
  <2>1. s.to.validity = server.validity => Below(n, server, all, stored)
    BY <1>5, <1>6 DEF Below
  <2>2. s.to.validity <= server.validity
    BY <1>2, <1>3 DEF Unknown
  <2>3. QED BY <1>6, <2>1, <2>2 DEF Covered
<1>7. t.stage = "fetch" /\ t.uids \union t.got = all /\ t.to = s.to /\ t.from = s.from
  BY <1>1 DEF RunRecord
<1>8. ASSUME NEW n \in Reach(t) PROVE n \in Nat /\ n <= server.next
  <2>1. CASE n = s.to.next
    BY <1>2, <1>3, <2>1
  <2>2. CASE s.to.next = Unknown /\ n = s.from.next
    BY <1>2, <1>3, <2>2 DEF Safe, Covered
  <2>3. CASE \E u \in all : n = u + 1
    BY <1>3, <1>4, <2>3
  <2> HIDE DEF all, t
  <2>4. QED BY <1>7, <1>8, <2>1, <2>2, <2>3 DEF Reach
<1>9. \A n \in Reach(t) : Covered(t.to.validity, n, server, t.uids \union t.got, stored)
  <2> HIDE DEF all, t
  <2> QED BY <1>6, <1>7, <1>8
<1>10. RunSafe(t, server, stored)
  <2> HIDE DEF t
  <2> QED BY <1>1, <1>2, <1>7, <1>9 DEF RunSafe
<1>11. QED BY <1>1, <1>10

LEMMA FetchBatchSafe ==
  ASSUME IInv, NEW r \in Run, FetchBatch(r)
  PROVE  RunSafe(sync'[r], server, stored)
<1> DEFINE s == sync[r]
           batch == Lowest(s.uids, BatchSize)
           got == s.got \union (batch \intersect server.box)
           t == [s EXCEPT !.uids = s.uids \ batch, !.got = got]
<1>1. /\ s \in RunRecord /\ RunSafe(s, server, stored) /\ s.stage = "fetch"
      /\ server \in Server /\ sync'[r] = t
  BY DEF IInv, TypeInv, FetchBatch, Advance
<1>2. batch \subseteq s.uids
  BY DEF Lowest
<1> HIDE DEF batch
<1>3. /\ t.stage = "fetch" /\ t.to = s.to /\ t.from = s.from
      /\ t.uids = s.uids \ batch /\ t.got = got
  BY <1>1 DEF RunRecord
<1>4. t.uids \union t.got \subseteq s.uids \union s.got
  BY <1>2, <1>3
<1>5. \A u \in server.box : u \in s.uids \union s.got => u \in t.uids \union t.got
  BY <1>3
<1> HIDE DEF t
<1>6. Reach(t) \subseteq Reach(s)
  BY <1>3, <1>4 DEF Reach
<1>7. ASSUME NEW n \in Reach(t)
      PROVE  Covered(t.to.validity, n, server, t.uids \union t.got, stored)
  <2>1. Covered(s.to.validity, n, server, s.uids \union s.got, stored)
    BY <1>1, <1>6 DEF RunSafe
  <2>2. QED BY <1>3, <1>5, <2>1 DEF Covered, Below
<1>8. QED BY <1>1, <1>3, <1>7 DEF RunSafe

LEMMA FetchEndsSafe ==
  ASSUME IInv, NEW r \in Run, FetchEnds(r)
  PROVE  RunSafe(sync'[r], server, stored)
<1> DEFINE s == sync[r]
           t == [s EXCEPT !.stage = "save", !.to.next = NextCursor(s)]
<1>1. /\ s \in RunRecord /\ RunSafe(s, server, stored) /\ s.stage = "fetch" /\ s.uids = {}
      /\ server \in Server /\ sync'[r] = t
  BY DEF IInv, TypeInv, FetchEnds, Advance
<1>2. s.to \in Cursor
  BY <1>1 DEF RunRecord
<1>3. /\ t.stage = "save" /\ t.from = s.from /\ t.got = s.got
      /\ t.to.validity = s.to.validity /\ t.to.next = NextCursor(s)
  BY <1>1, <1>2 DEF RunRecord, Cursor
<1>4. NextCursor(s) \in Reach(s)
  <2>1. CASE s.to.next # Unknown
    BY <2>1 DEF NextCursor, Reach
  <2>2. CASE s.to.next = Unknown /\ s.got # {}
    BY <1>1, <2>2, NextCursorType DEF Reach
  <2>3. CASE s.to.next = Unknown /\ s.got = {}
    BY <2>3 DEF NextCursor, Reach
  <2>4. QED BY <2>1, <2>2, <2>3
<1>5. Covered(s.to.validity, NextCursor(s), server, s.got, stored)
  <2>1. s.uids \union s.got = s.got
    BY <1>1
  <2>2. QED BY <1>1, <1>4, <2>1 DEF RunSafe
<1> HIDE DEF t
<1>6. QED BY <1>1, <1>3, <1>5 DEF RunSafe

LEMMA SaveSafe ==
  ASSUME IInv, NEW r \in Run, Save(r)
  PROVE  RunSafe(sync'[r], server, stored')
<1> DEFINE s == sync[r]
           t == [s EXCEPT !.stage = "mark"]
<1>1. /\ s \in RunRecord /\ RunSafe(s, server, stored) /\ s.stage = "save"
      /\ server \in Server /\ sync'[r] = t /\ stored \subseteq stored'
      /\ stored' = stored \union {<<s.to.validity, u>> : u \in s.got}
  BY DEF IInv, TypeInv, Save, Advance
<1>2. s.from \in Cursor /\ s.to \in Cursor
  BY <1>1 DEF RunRecord
<1>3. t.stage = "mark" /\ t.from = s.from /\ t.to = s.to
  BY <1>1 DEF RunRecord
<1>4. GoesOn(server, server, stored, stored')
  <2>1. server.next \in Nat
    BY <1>1, ImapAssumption DEF Server
  <2>2. QED BY <1>1, <2>1 DEF GoesOn
<1>5. Safe(s.from, server, stored')
  BY <1>1, <1>2, <1>4, SafeKept DEF RunSafe
<1>6. Safe(s.to, server, stored')
  <2>1. ASSUME s.to.validity = server.validity PROVE Below(s.to.next, server, {}, stored')
    <3>1. Below(s.to.next, server, s.got, stored)
      BY <1>1, <2>1 DEF RunSafe, Covered
    <3>2. QED BY <1>1, <2>1, <3>1 DEF Below
  <2>2. QED BY <1>1, <2>1 DEF Safe, Covered, RunSafe
<1> HIDE DEF t
<1>7. QED BY <1>1, <1>3, <1>5, <1>6 DEF RunSafe

\* The steps of a run up to the search, and those that end it.
LEMMA EarlyStepSafe ==
  ASSUME IInv, NEW r \in Run, RunStep(r), ~ Search(r), ~ FetchBatch(r), ~ FetchEnds(r), ~ Save(r)
  PROVE  RunSafe(sync'[r], server, stored)
<1> DEFINE s == sync[r]
<1>1. /\ s \in RunRecord /\ RunSafe(s, server, stored) /\ server \in Server
      /\ sync \in [Run -> RunRecord] /\ Safe(cursor, server, stored)
  BY DEF IInv, TypeInv
<1>2. RunSafe(IdleRun, server, stored)
  BY <1>1, IdleRunSafe
<1>3. CASE StartSync(r)
  <2> DEFINE t == [IdleRun EXCEPT !.stage = "open", !.from = cursor]
  <2>1. /\ sync'[r] = t /\ t.stage = "open" /\ t.from = cursor /\ t.got = {}
        /\ t.to.next = Unknown
    BY <1>1, <1>3 DEF StartSync, Advance, IdleRun, NoCursor
  <2> HIDE DEF t
  <2>2. QED BY <1>1, <2>1 DEF RunSafe
<1>4. CASE Open(r) \/ Login(r)
  <2> DEFINE t(stage) == [s EXCEPT !.stage = stage]
  <2>1. \E stage \in {"login", "status"} : sync'[r] = t(stage)
    BY <1>1, <1>4 DEF Open, Login, Advance
  <2>2. s.stage \in {"open", "login"}
    BY <1>4 DEF Open, Login
  <2>3. ASSUME NEW stage \in {"login", "status"} PROVE RunSafe(t(stage), server, stored)
    <3>1. /\ t(stage).stage = stage /\ t(stage).from = s.from /\ t(stage).to = s.to
          /\ t(stage).got = s.got
      BY <1>1 DEF RunRecord
    <3> HIDE DEF t
    <3>2. QED BY <1>1, <2>2, <3>1 DEF RunSafe
  <2>4. QED BY <2>1, <2>3
<1>5. CASE LoginRetries(r)
  <2> DEFINE t == [s EXCEPT !.stage = "open", !.attempt = @ + 1]
  <2>1. /\ sync'[r] = t /\ s.stage = "login"
        /\ t.stage = "open" /\ t.from = s.from /\ t.to = s.to /\ t.got = s.got
    BY <1>1, <1>5 DEF LoginRetries, Advance, RunRecord
  <2> HIDE DEF t
  <2>2. QED BY <1>1, <2>1 DEF RunSafe
<1>6. CASE ReadValidity(r)
  <2>1. PICK v \in Reported :
          Advance(r, [s EXCEPT !.stage = "uidnext", !.to.validity = v])
    BY <1>6 DEF ReadValidity
  <2> DEFINE t == [s EXCEPT !.stage = "uidnext", !.to.validity = v]
  <2>2. s.to \in Cursor /\ v \in {Unknown, server.validity}
    BY <1>1 DEF RunRecord, Reported
  <2>3. /\ sync'[r] = t /\ s.stage = "status"
        /\ t.stage = "uidnext" /\ t.from = s.from /\ t.got = s.got
        /\ t.to.next = s.to.next /\ t.to.validity = v
    BY <1>1, <1>6, <2>1, <2>2 DEF ReadValidity, Advance, RunRecord, Cursor
  <2> HIDE DEF t
  <2>4. QED BY <1>1, <2>2, <2>3 DEF RunSafe
<1>7. CASE ReadNext(r)
  <2> DEFINE t == [s EXCEPT !.stage = "search", !.to.next = server.next]
             o == [s EXCEPT !.stage = "search"]
  <2>1. s.to \in Cursor /\ s.stage = "uidnext" /\ server.next \in Nat \ {0}
    BY <1>1, <1>7, ImapAssumption DEF RunRecord, ReadNext, Server
  <2>2. /\ t.stage = "search" /\ t.from = s.from /\ t.got = s.got
        /\ t.to.next = server.next /\ t.to.validity = s.to.validity
    BY <1>1, <2>1 DEF RunRecord, Cursor
  <2>3. o.stage = "search" /\ o.from = s.from /\ o.got = s.got /\ o.to = s.to
    BY <1>1 DEF RunRecord
  <2>4. sync'[r] = t \/ (sync'[r] = o /\ server.validity \in Omits)
    BY <1>1, <1>7 DEF ReadNext, Advance
  <2> HIDE DEF t, o
  <2>5. RunSafe(t, server, stored)
    BY <1>1, <2>1, <2>2 DEF RunSafe, Unknown
  <2>6. server.validity \in Omits => RunSafe(o, server, stored)
    BY <1>1, <2>1, <2>3 DEF RunSafe, Unknown
  <2>7. QED BY <2>4, <2>5, <2>6
<1>8. CASE \/ OpenFails(r) \/ LoginFails(r) \/ FetchFails(r) \/ StoreFails(r) \/ Mark(r)
  <2>1. sync'[r] = IdleRun
    BY <1>1, <1>8 DEF OpenFails, LoginFails, FetchFails, StoreFails, Mark, GiveUp, Advance
  <2>2. QED BY <1>2, <2>1
<1>9. QED BY <1>3, <1>4, <1>5, <1>6, <1>7, <1>8 DEF RunStep

LEMMA RunStepSafe ==
  ASSUME IInv, TypeInv', Omits \subseteq {1}, NEW r \in Run, RunStep(r)
  PROVE  IInv'
<1>1. /\ server \in Server /\ cursor \in Cursor /\ sync \in [Run -> RunRecord]
      /\ Safe(cursor, server, stored) /\ \A q \in Run : RunSafe(sync[q], server, stored)
  BY DEF IInv, TypeInv
<1>2. server' = server
  BY DEF RunStep, StartSync, Open, OpenFails, Login, LoginRetries, LoginFails, ReadValidity,
         ReadNext, Search, FetchBatch, FetchEnds, FetchFails, Save, Mark, StoreFails, GiveUp
<1>3. stored' = stored \/ Save(r)
  BY DEF RunStep, StartSync, Open, OpenFails, Login, LoginRetries, LoginFails, ReadValidity,
         ReadNext, Search, FetchBatch, FetchEnds, FetchFails, Mark, StoreFails, GiveUp
<1>4. cursor' = cursor \/ Mark(r)
  BY DEF RunStep, StartSync, Open, OpenFails, Login, LoginRetries, LoginFails, ReadValidity,
         ReadNext, Search, FetchBatch, FetchEnds, FetchFails, Save, StoreFails, GiveUp
<1>5. GoesOn(server, server', stored, stored')
  <2>1. stored \subseteq stored'
    BY <1>3 DEF Save
  <2>2. server.next \in Nat
    BY <1>1, ImapAssumption DEF Server
  <2>3. QED BY <1>2, <2>1, <2>2 DEF GoesOn
<1>6. RunSafe(sync'[r], server', stored')
  <2>1. CASE Save(r)
    BY <1>2, <2>1, SaveSafe
  <2>2. CASE ~ Save(r)
    <3>1. RunSafe(sync'[r], server, stored)
      BY <2>2, SearchSafe, FetchBatchSafe, FetchEndsSafe, EarlyStepSafe
    <3>2. QED BY <1>2, <1>3, <2>2, <3>1
  <2>3. QED BY <2>1, <2>2
<1>7. ASSUME NEW q \in Run, q # r PROVE RunSafe(sync'[q], server', stored')
  <2>1. sync'[q] = sync[q]
    BY <1>7, RunTypes DEF IInv
  <2>2. RunSafe(sync[q], server', stored')
    BY <1>1, <1>2, <1>5, RunSafeKept
  <2>3. QED BY <2>1, <2>2
<1>8. Safe(cursor', server', stored')
  <2>1. CASE Mark(r)
    <3>1. sync[r].stage = "mark" /\ cursor' = sync[r].to /\ stored' = stored
      BY <2>1 DEF Mark
    <3>2. QED BY <1>1, <1>2, <3>1 DEF RunSafe
  <2>2. CASE cursor' = cursor
    BY <1>1, <1>2, <1>5, <2>2, SafeKept
  <2>3. QED BY <1>4, <2>1, <2>2
<1>9. QED BY <1>6, <1>7, <1>8 DEF IInv

LEMMA ServerStepSafe ==
  ASSUME IInv, TypeInv', WorkerRestart \/ ServerStep
  PROVE  IInv'
<1>1. /\ server \in Server /\ cursor \in Cursor /\ sync \in [Run -> RunRecord]
      /\ Safe(cursor, server, stored) /\ \A q \in Run : RunSafe(sync[q], server, stored)
  BY DEF IInv, TypeInv
<1>2. server' \in Server /\ sync' \in [Run -> RunRecord]
  BY DEF TypeInv
<1>3. server.next \in Nat /\ server.validity \in Nat /\ server.box \subseteq Nat
  BY <1>1, ImapAssumption DEF Server, Uids
<1>4. CASE Rebuild
  <2>1. server'.validity = server.validity + 1 /\ stored' = stored /\ cursor' = cursor
    BY <1>4 DEF Rebuild
  <2>2. ASSUME NEW c \in Cursor, Safe(c, server, stored) PROVE Safe(c, server', stored')
    <3>1. c.validity \in Nat
      BY ImapAssumption DEF Cursor
    <3>2. QED BY <1>1, <1>2, <2>1, <2>2, <3>1, RebuildCovers DEF Safe
  <2>3. ASSUME NEW q \in Run PROVE RunSafe(sync'[q], server', stored')
    <3>1. CASE sync[q].stage \in Connected
      <4>1. sync'[q] = IdleRun
        BY <1>4, <3>1 DEF Rebuild
      <4>2. QED BY <1>2, <4>1, IdleRunSafe
    <3>2. CASE sync[q].stage \notin Connected
      <4> DEFINE s == sync[q]
      <4>1. sync'[q] = s
        BY <1>4, <3>2 DEF Rebuild
      <4>2. s \in RunRecord /\ RunSafe(s, server, stored)
        BY <1>1
      <4>3. s.from \in Cursor /\ s.to \in Cursor /\ s.to.validity \in Nat
        BY <4>2, ImapAssumption DEF RunRecord, Cursor
      <4>4. Safe(s.from, server', stored')
            /\ (s.stage = "mark" => Safe(s.to, server', stored'))
        BY <2>2, <4>2, <4>3 DEF RunSafe
      <4>5. s.stage = "save" => Covered(s.to.validity, s.to.next, server', s.got, stored')
        BY <1>1, <1>2, <2>1, <4>2, <4>3, RebuildCovers DEF RunSafe
      <4>6. s.stage \notin {"status", "uidnext", "search", "fetch"}
        BY <3>2 DEF Connected
      <4> HIDE DEF s
      <4>7. RunSafe(s, server', stored')
        BY <4>2, <4>3, <4>4, <4>5, <4>6 DEF RunSafe
      <4>8. QED BY <4>1, <4>7
    <3>3. QED BY <3>1, <3>2
  <2>4. Safe(cursor', server', stored')
    BY <1>1, <2>1, <2>2
  <2>5. QED BY <2>3, <2>4 DEF IInv
<1>5. CASE ~ Rebuild
  <2>1. cursor' = cursor /\ stored' = stored
    BY <1>5 DEF WorkerRestart, ServerStep, Deliver, Expunge, GrowOld
  <2>2. GoesOn(server, server', stored, stored')
    <3>1. CASE WorkerRestart
      BY <1>3, <2>1, <3>1 DEF GoesOn, WorkerRestart
    <3>2. CASE Deliver
      <4>1. PICK old \in {{}, {server.next}} :
              server' = [server EXCEPT !.next = @ + 1, !.box = @ \union {server.next},
                                       !.old = @ \union old]
        BY <3>2 DEF Deliver
      <4>2. /\ server'.validity = server.validity /\ server'.next = server.next + 1
            /\ server'.box = server.box \union {server.next}
            /\ server'.old = server.old \union old
        BY <1>1, <4>1 DEF Server
      <4>3. QED BY <1>3, <2>1, <4>2 DEF GoesOn
    <3>3. ASSUME NEW u, Expunge(u) \/ GrowOld(u) PROVE GoesOn(server, server', stored, stored')
      <4>1. /\ server'.validity = server.validity /\ server'.next = server.next
            /\ server'.box \ server'.old \subseteq server.box \ server.old
        BY <1>1, <3>3 DEF Server, Expunge, GrowOld
      <4>2. QED BY <1>3, <2>1, <4>1 DEF GoesOn
    <3>4. QED BY <1>5, <3>1, <3>2, <3>3 DEF ServerStep
  <2>3. ASSUME NEW q \in Run PROVE RunSafe(sync'[q], server', stored')
    <3>1. sync'[q] = sync[q] \/ sync'[q] = IdleRun
      BY <1>5 DEF WorkerRestart, ServerStep, Deliver, Expunge, GrowOld
    <3>2. RunSafe(sync[q], server', stored')
      BY <1>1, <1>2, <2>2, RunSafeKept
    <3>3. RunSafe(IdleRun, server', stored')
      BY <1>2, IdleRunSafe
    <3>4. QED BY <3>1, <3>2, <3>3
  <2>4. Safe(cursor', server', stored')
    BY <1>1, <1>2, <2>1, <2>2, SafeKept
  <2>5. QED BY <2>3, <2>4 DEF IInv
<1>6. QED BY <1>4, <1>5

\* No message of the mailbox the cursor names is skipped by any number of overlapping runs, whichever wrote the cursor
\* last and wherever each failed, across any number of rebuilds, while a server that
\* was rebuilt reports UIDNEXT (fetch_blocking, fetcher.py).
THEOREM NoMessageSkipped ==
  ASSUME Omits \subseteq {1}
  PROVE  Spec => []NothingSkipped
<1>1. Init => IInv
  <2> SUFFICES ASSUME Init PROVE IInv
    OBVIOUS
  <2>1. TypeInv
    BY TypeInit
  <2>2. server \in Server /\ cursor = NoCursor /\ sync = [r \in Run |-> IdleRun]
    BY <2>1 DEF Init, TypeInv
  <2>3. QED BY <2>1, <2>2, IdleRunSafe DEF IInv
<1>2. IInv /\ [Next]_vars => IInv'
  <2> SUFFICES ASSUME IInv, [Next]_vars PROVE IInv'
    OBVIOUS
  <2>1. TypeInv'
    BY TypeStep DEF IInv
  <2>2. CASE UNCHANGED vars
    BY <2>1, <2>2 DEF IInv, vars
  <2>3. QED BY <2>1, <2>2, RunStepSafe, ServerStepSafe DEF Next
<1>3. IInv => NothingSkipped
  BY DEF IInv, NothingSkipped, HidesNothing, Safe, Covered, Below
<1>4. QED BY <1>1, <1>2, <1>3, PTL DEF Spec
-----------------------------------------------------------------------------
(* The tables of errors                                                    *)

\* The rules are tried in their order, and the last one matches whatever was left.
LEMMA SomeRuleIsFirst ==
  ASSUME NEW e, NEW oauth
  PROVE  /\ FirstRule(e, oauth) \in 1..12
         /\ Rules(e, oauth)[FirstRule(e, oauth)]
         /\ \A j \in 1..(FirstRule(e, oauth) - 1) : ~Rules(e, oauth)[j]
<1> DEFINE R == Rules(e, oauth)
           First(i) == R[i] /\ \A j \in 1..(i - 1) : ~R[j]
<1>1. R[12]
  BY DEF Rules
<1> HIDE DEF R
<1>2. \E i \in 1..12 : First(i)
  <2>1. ASSUME NEW n \in 1..12, R[n], \A j \in 1..(n - 1) : ~R[j] PROVE \E i \in 1..12 : First(i)
    BY <2>1
  <2>2. ASSUME \A i \in 1..12 : ~First(i) PROVE \A i \in 1..12 : ~R[i]
    <3>1. ~R[1]
      BY <2>2
    <3>2. ~R[2]
      BY <2>2, <3>1
    <3>3. ~R[3]
      BY <2>2, <3>1, <3>2
    <3>4. ~R[4]
      BY <2>2, <3>1, <3>2, <3>3
    <3>5. ~R[5]
      BY <2>2, <3>1, <3>2, <3>3, <3>4
    <3>6. ~R[6]
      BY <2>2, <3>1, <3>2, <3>3, <3>4, <3>5
    <3>7. ~R[7]
      BY <2>2, <3>1, <3>2, <3>3, <3>4, <3>5, <3>6
    <3>8. ~R[8]
      BY <2>2, <3>1, <3>2, <3>3, <3>4, <3>5, <3>6, <3>7
    <3>9. ~R[9]
      BY <2>2, <3>1, <3>2, <3>3, <3>4, <3>5, <3>6, <3>7, <3>8
    <3>10. ~R[10]
      BY <2>2, <3>1, <3>2, <3>3, <3>4, <3>5, <3>6, <3>7, <3>8, <3>9
    <3>11. ~R[11]
      BY <2>2, <3>1, <3>2, <3>3, <3>4, <3>5, <3>6, <3>7, <3>8, <3>9, <3>10
    <3>12. ~R[12]
      BY <2>2, <3>1, <3>2, <3>3, <3>4, <3>5, <3>6, <3>7, <3>8, <3>9, <3>10, <3>11
    <3> QED
      BY <1>1, <3>12
  <2> QED
    BY <1>1, <2>2
<1>3. FirstRule(e, oauth) = CHOOSE i \in 1..12 : First(i)
  BY DEF FirstRule, R
<1> QED
  BY <1>2, <1>3 DEF R

\* The blocks of classify are groups of rules.
LEMMA WhatMatches ==
  ASSUME NEW e, NEW oauth
  PROVE  /\ MatchesTransient(e, oauth) <=> \E i \in 1..9 : Rules(e, oauth)[i]
         /\ MatchesPermanent(e) <=> Rules(e, oauth)[10] \/ Rules(e, oauth)[11]
         /\ Rules(e, oauth)[3] <=> Has(e, {"again", "rate"})
<1>1. /\ Rules(e, oauth)[1] <=> e.kind = "timeout"
      /\ Rules(e, oauth)[2] <=> e.kind = "gaierror" \/ Has(e, {"resolve"})
      /\ Rules(e, oauth)[3] <=> Has(e, {"again", "rate"})
      /\ Rules(e, oauth)[4] <=> Has(e, {"not connected"})
      /\ Rules(e, oauth)[5] <=> Has(e, {"timed out"})
      /\ Rules(e, oauth)[6] <=> e.kind \in {"connection", "ssl"} \/ Has(e, {"network"})
      /\ Rules(e, oauth)[7] <=> e.kind = "unreachable"
      /\ Rules(e, oauth)[8] <=> OAuthTransient(e)
      /\ Rules(e, oauth)[9] <=> OAuthLoginFlake(e, oauth)
      /\ Rules(e, oauth)[10] <=> RejectsAuth(e)
      /\ Rules(e, oauth)[11] <=> Undecryptable(e)
  BY DEF Rules
<1>2. Has(e, {"resolve", "again", "rate", "not connected", "timed out", "network"}) <=>
        \/ Has(e, {"resolve"}) \/ Has(e, {"again", "rate"}) \/ Has(e, {"not connected"})
        \/ Has(e, {"timed out"}) \/ Has(e, {"network"})
  BY DEF Has
<1> DEFINE R == Rules(e, oauth)
<1>3. (\E i \in 1..9 : R[i]) <=> R[1] \/ R[2] \/ R[3] \/ R[4] \/ R[5] \/ R[6] \/ R[7] \/ R[8] \/ R[9]
  <2> HIDE DEF R
  <2>1. \A i \in 1..9 : i \in {1, 2, 3, 4, 5, 6, 7, 8, 9}
    OBVIOUS
  <2>2. {1, 2, 3, 4, 5, 6, 7, 8, 9} \subseteq 1..9
    OBVIOUS
  <2> QED
    BY <2>1, <2>2, Zenon
<1>4. e.kind \in {"timeout", "gaierror", "connection", "ssl", "unreachable"} <=>
        e.kind = "timeout" \/ e.kind = "gaierror" \/ e.kind \in {"connection", "ssl"} \/ e.kind = "unreachable"
  OBVIOUS
<1> QED
  BY <1>1, <1>2, <1>3, <1>4, Zenon DEF MatchesTransient, MatchesPermanent

\* Of every error, whatever its kind and its markers: classify by blocks and the rules of
\* error_prefix agree (error_classify.py).
THEOREM TableIsFollowed == AllFollowTable
<1> SUFFICES ASSUME NEW e \in Error, NEW oauth \in BOOLEAN PROVE FollowsTable(e, oauth)
  BY DEF AllFollowTable
<1> DEFINE first == FirstRule(e, oauth)
<1>1. /\ first \in 1..12 /\ Rules(e, oauth)[first]
      /\ \A j \in 1..(first - 1) : ~Rules(e, oauth)[j]
  BY SomeRuleIsFirst
<1> HIDE DEF first
<1>2. MatchesTransient(e, oauth) <=> first \in 1..9
  BY <1>1, WhatMatches
<1>3. ~MatchesTransient(e, oauth) => (MatchesPermanent(e) <=> first \in {10, 11})
  BY <1>1, <1>2, WhatMatches
<1>4. Classify(e, oauth) = "permanent" <=> first \in {10, 11}
  BY <1>1, <1>2, <1>3 DEF Classify
<1>5. IsExplicitPermanent(e, oauth) <=> Classify(e, oauth) = "permanent"
  BY DEF Classify, IsExplicitPermanent
<1>6. Prefix(e, oauth) = "auth_failed" => first \in {3, 10}
  <2> DEFINE shown == <<"timeout", "invalid_host", "network", "network", "timeout", "network", "network",
                        "oauth_token_error", "network", "auth_failed", "decrypt_fail", "error">>
  <2>1. \A i \in 1..12 : shown[i] = "auth_failed" => i = 10
    OBVIOUS
  <2>2. first = 3 \/ Prefix(e, oauth) = shown[first]
    BY DEF Prefix, first
  <2> HIDE DEF shown
  <2> QED
    BY <1>1, <2>1, <2>2
<1>7. first = 3 => Has(e, {"again", "rate"})
  BY <1>1, WhatMatches
<1> QED
  BY <1>4, <1>5, <1>6, <1>7 DEF FollowsTable, first

\* Of every error: what the fetcher retries, the classifier calls transient.
THEOREM WorthARetryIsTransient == RetriesAgree
<1> SUFFICES ASSUME NEW e \in Error, NEW oauth \in BOOLEAN, Retryable(e, oauth), ~Has(e, {"invalid_grant"})
             PROVE  MatchesTransient(e, oauth)
  BY DEF RetriesAgree, Classify
<1>1. CASE RetryableConnect(e)
  BY <1>1 DEF RetryableConnect, MatchesTransient
<1>2. CASE RetryableImap(e, oauth)
  BY <1>2 DEF RetryableImap, MatchesTransient, OAuthLoginFlake, Has
<1> QED
  BY <1>1, <1>2 DEF Retryable

\* Whatever a login fails with follows one table (ADR-0026, classify and error_prefix).
THEOREM ClassifierFollowsOneTable == Spec => []ClassFollowsTable
<1>1. ClassFollowsTable
  BY TableIsFollowed DEF ClassFollowsTable
<1> QED
  BY <1>1, PTL

\* What was given another attempt does not condemn the mailbox (_connect_and_login).
THEOREM NothingRetriedCondemns == Spec => []RetriedNeverCondemns
<1>1. RetriedNeverCondemns
  BY WorthARetryIsTransient DEF RetriedNeverCondemns
<1> QED
  BY <1>1, PTL
=============================================================================
