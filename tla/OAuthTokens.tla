---------------------------- MODULE OAuthTokens ----------------------------
(***************************************************************************)
(* The refresh of an Outlook access token (ADR-0025 section 3): the token  *)
(* columns of one mailbox row, the Redis lock around a refresh, and calls  *)
(* of get_valid_access_token from the sync cycle, the connection test and  *)
(* the send path, each with the row it loaded earlier, against Microsoft's *)
(* token endpoint, which may rotate the refresh token and revoke the one   *)
(* it was given.                                                           *)
(*                                                                         *)
(* A refresh token is a number, in the order of issue.  The row stays: a   *)
(* deleted mailbox only turns the writes below into writes of no row.      *)
(***************************************************************************)
EXTENDS Integers

CONSTANTS
  Call,       \* calls of get_valid_access_token that may overlap
  Nobody,     \* no holder of the lock
  MaxToken,   \* bound: refresh tokens Microsoft issues
  MaxFaults   \* bound: errors of Redis, the endpoint or the database, crashes

ASSUME OAuthAssumption ==
  Nobody \notin Call /\ MaxToken \in Nat \ {0} /\ MaxFaults \in Nat

VARIABLES
  valid,   \* refresh tokens the endpoint accepts
  issued,  \* refresh tokens issued so far
  row,     \* oauth_refresh_token, whether the access token is fresh, oauth_needs_consent
  lock,    \* holder of oauth_refresh_lock:{id}
  call,    \* each call: its stage, the row it loaded, whether it took the lock, its answer
  faults,  \* faults so far
  events   \* history: what the lock does not protect against has happened

vars == <<valid, issued, row, lock, call, faults, events>>

NoToken == 0

IdleCall == [stage |-> "idle", own |-> NoToken, cached |-> FALSE, locked |-> FALSE,
             got |-> NoToken]

Init ==
  /\ valid = {1} /\ issued = 1
  /\ \E fresh \in BOOLEAN : row = [refresh |-> 1, fresh |-> fresh, consent |-> FALSE]
  /\ lock = Nobody
  /\ call = [c \in Call |-> IdleCall]
  /\ faults = 0 /\ events = {}

Fault == faults < MaxFaults /\ faults' = faults + 1

Become(c, fields) == call' = [call EXCEPT ![c] = fields]

\* The call returns or raises; one that took the lock passes its finally first.
Leave(c) == Become(c, IF call[c].locked THEN [IdleCall EXCEPT !.stage = "release", !.locked = TRUE]
                      ELSE IdleCall)

\* A request for new tokens is out, or its answer not written yet.
InFlight(c) == call[c].stage \in {"refreshing", "granted", "denied"}

-----------------------------------------------------------------------------
(* get_valid_access_token                                                  *)

\* The caller loads the row, at times long before it asks for a token; it skips
\* a mailbox that needs consent.
Load(c) ==
  /\ call[c].stage = "idle"
  /\ ~ row.consent
  /\ Become(c, [IdleCall EXCEPT !.stage = "loaded", !.own = row.refresh, !.cached = row.fresh])
  /\ UNCHANGED <<valid, issued, row, lock, faults, events>>

CacheHit(c) ==
  /\ call[c].stage = "loaded" /\ call[c].cached
  /\ Become(c, IdleCall)
  /\ UNCHANGED <<valid, issued, row, lock, faults, events>>

\* Mutation of AcquireLock: SET without NX.
AcquireLockAlways(c) ==
  /\ call[c].stage = "loaded" /\ ~ call[c].cached
  /\ lock' = c
  /\ Become(c, [call[c] EXCEPT !.stage = "locked", !.locked = TRUE])
  /\ UNCHANGED <<valid, issued, row, faults, events>>

\* SET NX EX.
AcquireLock(c) ==
  /\ call[c].stage = "loaded" /\ ~ call[c].cached
  /\ lock = Nobody
  /\ lock' = c
  /\ Become(c, [call[c] EXCEPT !.stage = "locked", !.locked = TRUE])
  /\ UNCHANGED <<valid, issued, row, faults, events>>

\* Held elsewhere, or Redis fails, before it set the key or after.
MissLock(c) ==
  /\ call[c].stage = "loaded" /\ ~ call[c].cached
  /\ \/ lock # Nobody /\ UNCHANGED <<lock, faults>>
     \/ Fault /\ lock' \in {lock} \union (IF lock = Nobody THEN {c} ELSE {})
  /\ Become(c, [call[c] EXCEPT !.stage = "waiting"])
  /\ UNCHANGED <<valid, issued, row, events>>

\* A poll of the row finds that the holder is done, one way or the other.
Poll(c) ==
  /\ call[c].stage = "waiting"
  /\ row.consent \/ row.fresh
  /\ Become(c, IdleCall)
  /\ UNCHANGED <<valid, issued, row, lock, faults, events>>

\* Mutation of WaitEnds: the poll has no deadline.
WaitGoesOn(c) ==
  /\ call[c].stage = "waiting"
  /\ ~ row.consent /\ ~ row.fresh
  /\ UNCHANGED vars

\* After 3 s: a refresh without the lock, with the row as it was loaded.
WaitEnds(c) ==
  /\ call[c].stage = "waiting"
  /\ ~ row.consent /\ ~ row.fresh
  /\ Become(c, [call[c] EXCEPT !.stage = "refreshing"])
  /\ events' = events \union {"unlocked"}
  /\ UNCHANGED <<valid, issued, row, lock, faults>>

\* Mutation of DoubleCheck: the row is looked at but the loaded one is used.
DoubleCheckOwn(c) ==
  /\ call[c].stage = "locked"
  /\ IF row.consent \/ row.fresh THEN Leave(c)
     ELSE Become(c, [call[c] EXCEPT !.stage = "refreshing"])
  /\ UNCHANGED <<valid, issued, row, lock, faults, events>>

\* With the lock, the row is loaded again.
DoubleCheck(c) ==
  /\ call[c].stage = "locked"
  /\ IF row.consent \/ row.fresh THEN Leave(c)
     ELSE Become(c, [call[c] EXCEPT !.stage = "refreshing", !.own = row.refresh])
  /\ UNCHANGED <<valid, issued, row, lock, faults, events>>

-----------------------------------------------------------------------------
(* _do_refresh                                                             *)

\* A grant with a new refresh token; the old one may be revoked by it.
Rotate(old) ==
  /\ old \in valid /\ issued < MaxToken
  /\ issued' = issued + 1
  /\ \E revoked \in SUBSET {old} : valid' = (valid \ revoked) \union {issued + 1}

Grant(c) ==
  /\ call[c].stage = "refreshing" /\ call[c].own \in valid
  /\ \/ /\ Rotate(call[c].own)
        /\ Become(c, [call[c] EXCEPT !.stage = "granted", !.got = issued + 1])
     \/ /\ Become(c, [call[c] EXCEPT !.stage = "granted"])
        /\ UNCHANGED <<valid, issued>>
  /\ UNCHANGED <<row, lock, faults, events>>

\* invalid_grant.
Deny(c) ==
  /\ call[c].stage = "refreshing" /\ call[c].own \notin valid
  /\ Become(c, [call[c] EXCEPT !.stage = "denied"])
  /\ UNCHANGED <<valid, issued, row, lock, faults, events>>

\* Another status or no answer in 15 s, whatever the endpoint has done.
RefreshFails(c) ==
  /\ call[c].stage = "refreshing"
  /\ Fault
  /\ \/ UNCHANGED <<valid, issued, events>>
     \/ Rotate(call[c].own) /\ events' = events \union {"lost"}
  /\ Leave(c)
  /\ UNCHANGED <<row, lock>>

\* Mutation of PersistRefresh: the new refresh token is dropped.
PersistAccessOnly(c) ==
  /\ call[c].stage = "granted"
  /\ row' = [row EXCEPT !.fresh = TRUE, !.consent = FALSE]
  /\ Leave(c)
  /\ UNCHANGED <<valid, issued, lock, faults, events>>

\* update_oauth_tokens writes the refresh token only if there is a new one.
PersistRefresh(c) ==
  /\ call[c].stage = "granted"
  /\ row' = [refresh |-> IF call[c].got = NoToken THEN row.refresh ELSE call[c].got,
             fresh |-> TRUE, consent |-> FALSE]
  /\ Leave(c)
  /\ UNCHANGED <<valid, issued, lock, faults, events>>

\* The status event that follows the write is in MailboxStatus.
MarkNeedsConsent(c) ==
  /\ call[c].stage = "denied"
  /\ row' = [row EXCEPT !.consent = TRUE]
  /\ Leave(c)
  /\ UNCHANGED <<valid, issued, lock, faults, events>>

\* A call that ends here takes a new refresh token with it.
LosesToken(c) ==
  IF call[c].stage = "granted" /\ call[c].got # NoToken THEN {"lost"} ELSE {}

\* The transaction of either fails, the re-read of the row does, or the deadline
\* of the connection test cancels the call: the finally is still passed.
CallFails(c) ==
  /\ call[c].stage \in {"waiting", "locked", "granted", "denied"}
  /\ Fault
  /\ events' = events \union LosesToken(c)
  /\ Leave(c)
  /\ UNCHANGED <<valid, issued, row, lock>>

\* DEL only if the lock is still this call's; best effort.
ReleaseLock(c) ==
  /\ call[c].stage = "release"
  /\ \/ lock' = (IF lock = c THEN Nobody ELSE lock) /\ UNCHANGED faults
     \/ Fault /\ UNCHANGED lock
  /\ Become(c, IdleCall)
  /\ UNCHANGED <<valid, issued, row, events>>

\* The process dies; its lock stays until it expires.
Crash(c) ==
  /\ call[c].stage # "idle"
  /\ Fault
  /\ events' = events \union LosesToken(c)
  /\ Become(c, IdleCall)
  /\ UNCHANGED <<valid, issued, row, lock>>

-----------------------------------------------------------------------------
(* The clock, the user and Microsoft                                       *)

\* The TTL of 30 s, over a holder that is still at work as well.
LockExpires ==
  /\ lock # Nobody
  /\ events' = events \union (IF call[lock].locked THEN {"unlocked"} ELSE {})
  /\ lock' = Nobody
  /\ UNCHANGED <<valid, issued, row, call, faults>>

\* The copies loaded earlier expire first.
AccessExpires ==
  /\ row.fresh \/ \E c \in Call : call[c].cached
  /\ \E fresh \in {FALSE, row.fresh} : row' = [row EXCEPT !.fresh = fresh]
  /\ call' = [c \in Call |-> [call[c] EXCEPT !.cached = FALSE]]
  /\ UNCHANGED <<valid, issued, lock, faults, events>>

\* _create_or_relink: the user consents again.
Relink ==
  /\ issued < MaxToken
  /\ issued' = issued + 1
  /\ valid' = valid \union {issued + 1}
  /\ row' = [refresh |-> issued + 1, fresh |-> TRUE, consent |-> FALSE]
  /\ events' = events \union (IF \E c \in Call : InFlight(c) THEN {"relinked"} ELSE {})
  /\ UNCHANGED <<lock, call, faults>>

\* The user changes the password or withdraws the consent.
Revoke ==
  /\ valid # {}
  /\ valid' = {}
  /\ events' = events \union {"revoked"}
  /\ UNCHANGED <<issued, row, lock, call, faults>>

-----------------------------------------------------------------------------
CallStep(c) ==
  \/ CacheHit(c) \/ AcquireLock(c) \/ MissLock(c) \/ Poll(c) \/ WaitEnds(c) \/ DoubleCheck(c)
  \/ Grant(c) \/ Deny(c) \/ PersistRefresh(c) \/ MarkNeedsConsent(c) \/ ReleaseLock(c)

CallFault(c) == RefreshFails(c) \/ CallFails(c) \/ Crash(c)

Next ==
  \/ \E c \in Call : Load(c) \/ CallStep(c) \/ CallFault(c)
  \/ LockExpires \/ AccessExpires \/ Relink \/ Revoke

Spec == Init /\ [][Next]_vars

\* A call goes on: every await in it has a timeout.
FairSpec == Spec /\ \A c \in Call : WF_vars(CallStep(c))
-----------------------------------------------------------------------------
(* Properties                                                              *)

Token == 1..issued

Stages == {"idle", "loaded", "waiting", "locked", "refreshing", "granted", "denied", "release"}

CallRecord == [stage : Stages, own : Token \union {NoToken}, cached : BOOLEAN, locked : BOOLEAN,
               got : Token \union {NoToken}]

TypeOK ==
  /\ issued \in 1..MaxToken /\ valid \subseteq Token
  /\ row \in [refresh : Token, fresh : BOOLEAN, consent : BOOLEAN]
  /\ lock \in Call \union {Nobody}
  /\ call \in [Call -> CallRecord]
  /\ faults \in 0..MaxFaults
  /\ events \subseteq {"unlocked", "relinked", "revoked", "lost"}

\* As long as no call has waited in vain or outlived its lock, at most one call
\* has a refresh under way: errors of Redis, crashes and late releases included.
OneRefreshAtATime ==
  "unlocked" \notin events => \A c, d \in Call : InFlight(c) /\ InFlight(d) => c = d

\* The lock's part in oauth_needs_consent.  While calls refresh under the lock,
\* the user is asked to consent again only over a refresh token that is dead: the
\* call that saw invalid_grant had presented the token of the row.  The code keeps
\* this up to three ordinary events, and the formula excepts them: a call that
\* waited 3 s in vain, with no fault, since the holder's request may take 15 s,
\* and went on without the lock; a lock that expired over its holder; a relink
\* while a request was in flight.  ConsentMeansInvalidated is false after them.
ConsentIsTrue ==
  events \intersect {"unlocked", "relinked"} = {} /\ row.consent => row.refresh \notin valid

\* What the column is documented to mean (ADR-0025, data model).
ConsentMeansInvalidated == row.consent => row.refresh \notin valid

\* Only a revocation or the loss of a rotated token strands the mailbox: else the
\* row has a token the endpoint accepts, or a call that is about to write one has
\* it, also where calls refresh without the lock, or beside a relink.
TokenKept ==
  events \intersect {"revoked", "lost"} = {} =>
    \/ row.refresh \in valid
    \/ \E c \in Call : call[c].stage = "granted" /\ call[c].got \in valid

\* Every call ends, whoever died with the lock.
CallsEnd == \A c \in Call : call[c].stage # "idle" ~> call[c].stage = "idle"
=============================================================================
