------------------------------ MODULE ImapSync ------------------------------
(***************************************************************************)
(* The incremental sync of one mailbox (ADR-0008): the cursor              *)
(* (last_uidvalidity, last_synced_uidnext) of the row, the fetch over IMAP *)
(* in a thread, the insert of what it found and the advance of the cursor, *)
(* by runs that overlap and may fail between any two steps, against a      *)
(* server that receives, deletes and rebuilds at any time.                 *)
(*                                                                         *)
(* The server keeps a UID for the life of a session: a rebuild of the      *)
(* mailbox drops the sessions that are open on it.                         *)
(***************************************************************************)
EXTENDS ErrorClassify, IdOrder

CONSTANTS
  Run,          \* executions of sync_one_account that may overlap
  OAuth,        \* the account authenticates by XOAUTH2
  Retries,      \* SYNC_CONNECT_RETRIES
  BatchSize,    \* UIDs of one FETCH
  Omits,        \* validities under which STATUS may come without UIDNEXT
  Unnumbered,   \* validities under which it may come without UIDVALIDITY
  MaxUid,       \* bound: UIDs the server assigns under one validity
  MaxValidity,  \* bound: UIDVALIDITY
  MaxFaults     \* bound: errors, timeouts and crashes

ASSUME ImapAssumption ==
  /\ OAuth \in BOOLEAN
  /\ Retries \in Nat /\ BatchSize \in Nat \ {0}
  /\ MaxUid \in Nat /\ MaxValidity \in Nat \ {0} /\ MaxFaults \in Nat
  /\ Omits \subseteq 1..MaxValidity /\ Unnumbered \subseteq 1..MaxValidity

VARIABLES
  server,  \* the INBOX: UIDVALIDITY, UIDNEXT, UIDs in it, those before the initial window
  cursor,  \* last_uidvalidity and last_synced_uidnext of the mail_accounts row
  stored,  \* messages rows ever inserted: <<uidvalidity, uid>>
  sync,    \* each run
  faults   \* faults so far

vars == <<server, cursor, stored, sync, faults>>

\* NULL, or a STATUS answer without UIDNEXT; a missing UIDVALIDITY is 0 in the code.
Unknown == 0

NoCursor == [validity |-> Unknown, next |-> Unknown]

IdleRun == [stage |-> "idle", attempt |-> 0, from |-> NoCursor, to |-> NoCursor,
            uids |-> {}, got |-> {}]

Init ==
  /\ \E n \in 0..MaxUid, old \in SUBSET (1..MaxUid) :
       /\ old \subseteq 1..n
       /\ server = [validity |-> 1, next |-> n + 1, box |-> 1..n, old |-> old]
  /\ cursor = NoCursor
  /\ stored = {}
  /\ sync = [r \in Run |-> IdleRun]
  /\ faults = 0

Fault == faults < MaxFaults /\ faults' = faults + 1

Advance(r, fields) == sync' = [sync EXCEPT ![r] = fields]

\* The run ends without having written; the cursor stays where it was.
GiveUp(r) ==
  /\ Fault
  /\ Advance(r, IdleRun)
  /\ UNCHANGED <<server, cursor, stored>>

-----------------------------------------------------------------------------
(* _connect_and_login                                                      *)

\* The cycle loaded the row; the run keeps this cursor whatever happens to it.
StartSync(r) ==
  /\ sync[r].stage = "idle"
  /\ Advance(r, [IdleRun EXCEPT !.stage = "open", !.from = cursor])
  /\ UNCHANGED <<server, cursor, stored, faults>>

Open(r) ==
  /\ sync[r].stage = "open"
  /\ Advance(r, [sync[r] EXCEPT !.stage = "login"])
  /\ UNCHANGED <<server, cursor, stored, faults>>

\* The constructor that connects stands outside the try: no retry.
OpenFails(r) == sync[r].stage = "open" /\ GiveUp(r)

Login(r) ==
  /\ sync[r].stage = "login"
  /\ Advance(r, [sync[r] EXCEPT !.stage = "status"])
  /\ UNCHANGED <<server, cursor, stored, faults>>

\* Whether some error of a login is worth another attempt, and some is not.
SomeFlake == \E e \in Error : Retryable(e, OAuth)
SomeRefusal == \E e \in Error : ~ Retryable(e, OAuth)

\* On a new connection, up to the limit.
LoginRetries(r) ==
  /\ sync[r].stage = "login"
  /\ sync[r].attempt < Retries
  /\ SomeFlake
  /\ Fault
  /\ Advance(r, [sync[r] EXCEPT !.stage = "open", !.attempt = @ + 1])
  /\ UNCHANGED <<server, cursor, stored>>

LoginFails(r) ==
  /\ sync[r].stage = "login"
  /\ sync[r].attempt < Retries => SomeRefusal
  /\ GiveUp(r)

-----------------------------------------------------------------------------
(* fetch_blocking                                                          *)

Connected == {"status", "uidnext", "search", "fetch"}

\* What a STATUS of UIDVALIDITY comes to.
Reported ==
  {server.validity} \union (IF server.validity \in Unnumbered THEN {Unknown} ELSE {})

ReadValidity(r) ==
  /\ sync[r].stage = "status"
  /\ \E validity \in Reported :
       Advance(r, [sync[r] EXCEPT !.stage = "uidnext", !.to.validity = validity])
  /\ UNCHANGED <<server, cursor, stored, faults>>

\* UIDNEXT is read before the search: what arrives in between is found below it
\* or fetched again by the next run.
ReadNext(r) ==
  /\ sync[r].stage = "uidnext"
  /\ \/ Advance(r, [sync[r] EXCEPT !.stage = "search", !.to.next = server.next])
     \/ /\ server.validity \in Omits
        /\ Advance(r, [sync[r] EXCEPT !.stage = "search"])
  /\ UNCHANGED <<server, cursor, stored, faults>>

\* last_uidvalidity is NULL, which is tested too, only beside a NULL UIDNEXT.
Initial(from, to) == from.next = Unknown \/ from.validity # to.validity

\* Mutation of Found: the UID the cursor names is taken as already fetched.
FoundAfter(from, to) ==
  IF Initial(from, to) THEN server.box \ server.old ELSE {u \in server.box : u > from.next}

\* SEARCH SINCE the window, or from the cursor on.  A failed SEARCH raises (the
\* handler around it names another exception of imap-tools).
Found(from, to) ==
  IF Initial(from, to) THEN server.box \ server.old ELSE {u \in server.box : u >= from.next}

Search(r) ==
  /\ sync[r].stage = "search"
  /\ Advance(r, [sync[r] EXCEPT !.stage = "fetch", !.uids = Found(sync[r].from, sync[r].to)])
  /\ UNCHANGED <<server, cursor, stored, faults>>

\* One FETCH; a UID deleted since the search is not in the answer.
FetchBatch(r) ==
  LET batch == Lowest(sync[r].uids, BatchSize) IN
  /\ sync[r].stage = "fetch" /\ sync[r].uids # {}
  /\ Advance(r, [sync[r] EXCEPT !.uids = @ \ batch,
                                !.got = @ \union (batch \intersect server.box)])
  /\ UNCHANGED <<server, cursor, stored, faults>>

\* The server's UIDNEXT; without one the highest UID fetched plus 1; without any
\* message the cursor the run came with.
NextCursor(s) ==
  IF s.to.next # Unknown THEN s.to.next
  ELSE IF s.got # {} THEN Max(s.got) + 1
  ELSE s.from.next

FetchEnds(r) ==
  /\ sync[r].stage = "fetch" /\ sync[r].uids = {}
  /\ Advance(r, [sync[r] EXCEPT !.stage = "save", !.to.next = NextCursor(sync[r])])
  /\ UNCHANGED <<server, cursor, stored, faults>>

\* The server answers with an error, the connection drops, one message cannot
\* be parsed, or wait_for runs out: nothing fetched so far is kept.
FetchFails(r) == sync[r].stage \in Connected /\ GiveUp(r)

-----------------------------------------------------------------------------
(* sync_one_account: save, then mark                                       *)

\* Mutation of Save: the INSERT without ON CONFLICT.
SaveAborts(r) ==
  LET rows == {<<sync[r].to.validity, u>> : u \in sync[r].got} IN
  /\ sync[r].stage = "save"
  /\ IF rows \intersect stored # {} THEN Advance(r, IdleRun) /\ UNCHANGED stored
     ELSE Advance(r, [sync[r] EXCEPT !.stage = "mark"]) /\ stored' = stored \union rows
  /\ UNCHANGED <<server, cursor, faults>>

\* One transaction; ON CONFLICT DO NOTHING for what is stored already.
Save(r) ==
  /\ sync[r].stage = "save"
  /\ stored' = stored \union {<<sync[r].to.validity, u>> : u \in sync[r].got}
  /\ Advance(r, [sync[r] EXCEPT !.stage = "mark"])
  /\ UNCHANGED <<server, cursor, faults>>

\* mark_sync_success: the cursor of this run, whatever another run wrote.
Mark(r) ==
  /\ sync[r].stage = "mark"
  /\ cursor' = sync[r].to
  /\ Advance(r, IdleRun)
  /\ UNCHANGED <<server, stored, faults>>

\* Either transaction fails.
StoreFails(r) == sync[r].stage \in {"save", "mark"} /\ GiveUp(r)

WorkerRestart ==
  /\ Fault
  /\ sync' = [r \in Run |-> IdleRun]
  /\ UNCHANGED <<server, cursor, stored>>

-----------------------------------------------------------------------------
(* The IMAP server                                                         *)

\* A message comes in; one moved in from elsewhere keeps its old date.
Deliver ==
  /\ server.next <= MaxUid
  /\ \E old \in {{}, {server.next}} :
       server' = [server EXCEPT !.next = @ + 1, !.box = @ \union {server.next},
                                !.old = @ \union old]
  /\ UNCHANGED <<cursor, stored, sync, faults>>

\* A message leaves the mailbox, or the window of the initial sync.
Expunge(u) ==
  /\ u \in server.box
  /\ server' = [server EXCEPT !.box = @ \ {u}, !.old = @ \ {u}]
  /\ UNCHANGED <<cursor, stored, sync, faults>>

GrowOld(u) ==
  /\ u \in server.box \ server.old
  /\ server' = [server EXCEPT !.old = @ \union {u}]
  /\ UNCHANGED <<cursor, stored, sync, faults>>

\* The mailbox is recreated: a new UIDVALIDITY, its messages numbered anew.
Rebuild ==
  /\ server.validity < MaxValidity
  /\ \E n \in 0..Cardinality(server.box) : \E old \in SUBSET (1..n) :
       server' = [validity |-> server.validity + 1, next |-> n + 1, box |-> 1..n,
                  old |-> old]
  /\ sync' = [r \in Run |-> IF sync[r].stage \in Connected THEN IdleRun ELSE sync[r]]
  /\ UNCHANGED <<cursor, stored, faults>>

-----------------------------------------------------------------------------
RunStep(r) ==
  \/ StartSync(r) \/ Open(r) \/ OpenFails(r)
  \/ Login(r) \/ LoginRetries(r) \/ LoginFails(r)
  \/ ReadValidity(r) \/ ReadNext(r) \/ Search(r) \/ FetchBatch(r) \/ FetchEnds(r)
  \/ FetchFails(r) \/ Save(r) \/ Mark(r) \/ StoreFails(r)

ServerStep == Deliver \/ Rebuild \/ \E u \in 1..MaxUid : Expunge(u) \/ GrowOld(u)

Next == (\E r \in Run : RunStep(r)) \/ WorkerRestart \/ ServerStep

Spec == Init /\ [][Next]_vars

\* The scheduler starts the next cycle, and a started run goes on.
Fairness ==
  \A r \in Run :
    /\ WF_vars(StartSync(r)) /\ WF_vars(Open(r)) /\ WF_vars(Login(r))
    /\ WF_vars(ReadValidity(r)) /\ WF_vars(ReadNext(r)) /\ WF_vars(Search(r))
    /\ WF_vars(FetchBatch(r)) /\ WF_vars(FetchEnds(r)) /\ WF_vars(Save(r)) /\ WF_vars(Mark(r))

FairSpec == Spec /\ Fairness
-----------------------------------------------------------------------------
(* Properties                                                              *)

Uids == 1..MaxUid
Cursor == [validity : 0..MaxValidity, next : 0..(MaxUid + 1)]

TypeOK ==
  /\ server \in [validity : 1..MaxValidity, next : 1..(MaxUid + 1), box : SUBSET Uids,
                 old : SUBSET Uids]
  /\ server.old \subseteq server.box
  /\ \A u \in server.box : u < server.next
  /\ cursor \in Cursor
  /\ stored \subseteq (0..MaxValidity) \X Uids
  /\ sync \in [Run -> [stage : {"idle", "open", "login", "save", "mark"} \union Connected,
                       attempt : 0..Retries, from : Cursor, to : Cursor,
                       uids : SUBSET Uids, got : SUBSET Uids]]
  /\ faults \in 0..MaxFaults

\* A cursor c hides no message: whatever is on the server below it, and was not
\* too old for the initial sync, is stored.
HidesNothing(c) ==
  c.validity = server.validity =>
    \A u \in server.box \ server.old : u < c.next => <<server.validity, u>> \in stored

\* No message is skipped, whichever run wrote the cursor last, however stale the
\* cursor it started from, and wherever a run failed: later syncs never look
\* below the cursor (ADR-0008; a rebuilt mailbox is synced from scratch).  A cursor
\* written without UIDVALIDITY names no mailbox, and nothing is said of it.
NothingSkipped == HidesNothing(cursor)

\* Whatever a login fails with, what the code does with the mailbox and what it
\* shows come from one table: classify tests whole blocks, error_prefix rule by
\* rule, and an error condemns the mailbox exactly when the first rule that matches
\* it is an auth or a decrypt rule (error_classify.py, "never diverge").
ClassFollowsTable == \A r \in Run : sync[r].stage = "login" => AllFollowTable

\* What was given another attempt never condemns the mailbox when the attempts are
\* used up: the tables of the fetcher and of the classifier are kept apart and must
\* agree.
RetriedNeverCondemns == \A r \in Run : sync[r].attempt > 0 => RetriesAgree

\* A message is stored, without its validity where the server may omit that.
Stored(v, u) == <<v, u>> \in stored \/ (v \in Unnumbered /\ <<Unknown, u>> \in stored)

\* Every message of the mailbox is stored once faults stop, unless it is deleted,
\* grows too old for an initial sync, or is renumbered by a rebuild.
EveryMessageStored ==
  \A v \in 1..MaxValidity, u \in Uids :
    server.validity = v /\ u \in server.box ~>
      Stored(v, u) \/ server.validity # v \/ u \notin server.box \ server.old
=============================================================================
