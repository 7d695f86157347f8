------------------------- MODULE OAuthTokensProofs -------------------------
(***************************************************************************)
(* Proofs about OAuthTokens for every set of calls and every number of     *)
(* tokens and faults: type correctness, the exclusion of refreshes by the  *)
(* lock, what it does for the needs-consent flag while it excludes, and,   *)
(* with or without it, that no rotation strands the mailbox.               *)
(***************************************************************************)
EXTENDS OAuthTokens, TLAPS

-----------------------------------------------------------------------------
(* Type correctness                                                        *)

\* A later issue only adds tokens.
LEMMA TokensGrow ==
  ASSUME issued \in Nat, issued' \in Nat, issued <= issued'
  PROVE  Token \subseteq Token'
BY DEF Token

\* A step that writes one call's record.
LEMMA BecomeType ==
  ASSUME TypeOK, NEW c \in Call, NEW f, f \in CallRecord', Become(c, f), Token \subseteq Token'
  PROVE  call' \in [Call -> CallRecord']
<1>1. \A d \in Call : call[d] \in CallRecord'
  BY DEF TypeOK, CallRecord
<1>2. QED BY <1>1 DEF Become, TypeOK

\* The record of a call that ends is one of a call.
LEMMA LeaveType ==
  ASSUME NEW c \in Call, Leave(c)
  PROVE  \E f \in CallRecord' : /\ Become(c, f)
                                /\ f.stage \in {"idle", "release"}
                                /\ f.stage = "release" => call[c].locked
                                /\ f.locked => call[c].locked
<1> DEFINE f == IF call[c].locked THEN [IdleCall EXCEPT !.stage = "release", !.locked = TRUE]
                ELSE IdleCall
<1>1. f \in CallRecord' /\ f.stage \in {"idle", "release"}
      /\ (f.stage = "release" => call[c].locked) /\ (f.locked => call[c].locked)
  BY DEF IdleCall, CallRecord, Stages
<1>2. Become(c, f)
  BY DEF Leave
<1>3. QED BY <1>1, <1>2

LEMMA RotateType ==
  ASSUME TypeOK, NEW old, Rotate(old)
  PROVE  /\ issued' = issued + 1 /\ issued' \in 1..MaxToken
         /\ valid' \subseteq Token' /\ Token \subseteq Token' /\ issued' \in Token'
         /\ issued' \in valid'
BY OAuthAssumption DEF TypeOK, Rotate, Token

\* The steps of a call that change neither the tokens nor the row.
LEMMA QuietType ==
  ASSUME TypeOK, NEW c \in Call, NEW f, f \in CallRecord, Become(c, f),
         UNCHANGED <<valid, issued, row>>,
         lock' \in Call \union {Nobody}, faults' \in 0..MaxFaults,
         events' \subseteq {"unlocked", "relinked", "revoked", "lost"}
  PROVE  TypeOK'
<1>1. UNCHANGED <<Token, CallRecord>>
  BY DEF Token, CallRecord
<1>2. call' \in [Call -> CallRecord']
  BY <1>1, BecomeType
<1>3. QED BY <1>1, <1>2 DEF TypeOK

LEMMA FaultType == ASSUME TypeOK, Fault PROVE faults' \in 0..MaxFaults
BY OAuthAssumption DEF TypeOK, Fault

\* A call's own steps.
LEMMA CallType ==
  ASSUME TypeOK, NEW c \in Call, Load(c) \/ CallStep(c) \/ CallFault(c)
  PROVE  TypeOK'
<1>c. call[c] \in CallRecord /\ IdleCall \in CallRecord
  BY DEF TypeOK, CallRecord, IdleCall, Stages
<1>s. \A s \in Stages : [call[c] EXCEPT !.stage = s] \in CallRecord
  BY <1>c DEF CallRecord
<1>l. ASSUME Leave(c) PROVE \E f \in CallRecord' : Become(c, f)
  BY <1>l, LeaveType
<1>e. ASSUME UNCHANGED <<valid, issued, row>> PROVE UNCHANGED CallRecord
  BY <1>e DEF CallRecord, Token
<1>1. CASE Load(c)
  <2>1. [IdleCall EXCEPT !.stage = "loaded", !.own = row.refresh, !.cached = row.fresh]
           \in CallRecord
    BY DEF TypeOK, CallRecord, IdleCall, Stages
  <2>2. QED BY <1>1, <2>1, QuietType DEF Load, TypeOK
<1>2. CASE CacheHit(c) \/ Poll(c)
  BY <1>c, <1>2, QuietType DEF CacheHit, Poll, TypeOK
<1>3. CASE AcquireLock(c)
  <2>1. [call[c] EXCEPT !.stage = "locked", !.locked = TRUE] \in CallRecord
    BY <1>c DEF CallRecord, Stages
  <2>2. QED BY <1>3, <2>1, QuietType DEF AcquireLock, TypeOK
<1>4. CASE MissLock(c)
  <2>1. lock' \in Call \union {Nobody} /\ faults' \in 0..MaxFaults
    BY <1>4, FaultType DEF MissLock, TypeOK
  <2>2. "waiting" \in Stages
    BY DEF Stages
  <2>3. QED BY <1>4, <1>s, <2>1, <2>2, QuietType DEF MissLock, TypeOK
<1>5. CASE WaitEnds(c) \/ Deny(c)
  <2>1. "refreshing" \in Stages /\ "denied" \in Stages
    BY DEF Stages
  <2>2. QED BY <1>5, <1>s, <2>1, QuietType DEF WaitEnds, Deny, TypeOK
<1>6. CASE DoubleCheck(c)
  <2>1. [call[c] EXCEPT !.stage = "refreshing", !.own = row.refresh] \in CallRecord
    BY <1>c DEF CallRecord, Stages, TypeOK
  <2>2. PICK f \in CallRecord : Become(c, f)
    BY <1>6, <1>l, <1>e, <2>1 DEF DoubleCheck
  <2>3. QED BY <1>6, <2>2, QuietType DEF DoubleCheck, TypeOK
<1>7. CASE Grant(c)
  <2>1. CASE Rotate(call[c].own) /\ Become(c, [call[c] EXCEPT !.stage = "granted", !.got = issued + 1])
    <3>1. /\ issued' = issued + 1 /\ issued' \in 1..MaxToken
          /\ valid' \subseteq Token' /\ Token \subseteq Token' /\ issued' \in Token'
      BY <2>1, RotateType
    <3>2. [call[c] EXCEPT !.stage = "granted", !.got = issued + 1] \in CallRecord'
      BY <1>c, <3>1 DEF CallRecord, Stages
    <3>3. call' \in [Call -> CallRecord']
      BY <2>1, <3>1, <3>2, BecomeType
    <3>4. QED BY <1>7, <3>1, <3>3 DEF Grant, TypeOK
  <2>2. CASE Become(c, [call[c] EXCEPT !.stage = "granted"]) /\ UNCHANGED <<valid, issued>>
    <3>1. "granted" \in Stages
      BY DEF Stages
    <3>2. QED BY <1>7, <1>s, <2>2, <3>1, QuietType DEF Grant, TypeOK
  <2>3. QED BY <1>7, <2>1, <2>2 DEF Grant
<1>8. CASE PersistRefresh(c) \/ MarkNeedsConsent(c)
  <2>1. UNCHANGED <<Token, CallRecord>>
    BY <1>8 DEF PersistRefresh, MarkNeedsConsent, Token, CallRecord
  <2>2. row' \in [refresh : Token, fresh : BOOLEAN, consent : BOOLEAN]
    <3>1. row \in [refresh : Token, fresh : BOOLEAN, consent : BOOLEAN]
          /\ call[c].got \in Token \union {NoToken}
      BY <1>c DEF TypeOK, CallRecord
    <3>2. CASE PersistRefresh(c)
      <4> DEFINE t == IF call[c].got = NoToken THEN row.refresh ELSE call[c].got
      <4>1. t \in Token
        BY <3>1
      <4>2. row' = [refresh |-> t, fresh |-> TRUE, consent |-> FALSE]
        BY <3>2 DEF PersistRefresh
      <4>3. QED BY <4>1, <4>2
    <3>3. CASE MarkNeedsConsent(c)
      BY <3>1, <3>3 DEF MarkNeedsConsent
    <3>4. QED BY <1>8, <3>2, <3>3
  <2>3. Leave(c)
    BY <1>8 DEF PersistRefresh, MarkNeedsConsent
  <2>4. call' \in [Call -> CallRecord']
    BY <1>l, <2>1, <2>3, BecomeType
  <2>5. QED BY <1>8, <2>1, <2>2, <2>4 DEF PersistRefresh, MarkNeedsConsent, TypeOK
<1>9. CASE ReleaseLock(c)
  <2>1. lock' \in Call \union {Nobody} /\ faults' \in 0..MaxFaults
    BY <1>9, FaultType DEF ReleaseLock, TypeOK
  <2>2. QED BY <1>9, <1>c, <2>1, QuietType DEF ReleaseLock, TypeOK
<1>10. CASE RefreshFails(c)
  <2>1. /\ issued' \in 1..MaxToken /\ valid' \subseteq Token' /\ Token \subseteq Token'
    BY <1>10, RotateType DEF RefreshFails, TypeOK, Token
  <2>2. faults' \in 0..MaxFaults
    BY <1>10, FaultType DEF RefreshFails
  <2>3. call' \in [Call -> CallRecord']
    BY <1>10, <1>l, <2>1, BecomeType DEF RefreshFails
  <2>4. QED BY <1>10, <2>1, <2>2, <2>3 DEF RefreshFails, TypeOK
<1>11. CASE CallFails(c)
  <2>1. PICK f \in CallRecord : Become(c, f)
    BY <1>11, <1>l, <1>e DEF CallFails
  <2>2. faults' \in 0..MaxFaults
    BY <1>11, FaultType DEF CallFails
  <2>3. QED BY <1>11, <2>1, <2>2, QuietType DEF CallFails, LosesToken, TypeOK
<1>12. CASE Crash(c)
  <2>1. faults' \in 0..MaxFaults
    BY <1>12, FaultType DEF Crash
  <2>2. QED BY <1>12, <1>c, <2>1, QuietType DEF Crash, LosesToken, TypeOK
<1>13. QED
  BY <1>1, <1>2, <1>3, <1>4, <1>5, <1>6, <1>7, <1>8, <1>9, <1>10, <1>11, <1>12
  DEF CallStep, CallFault

\* The clock, the user and Microsoft.
LEMMA WorldType ==
  ASSUME TypeOK, LockExpires \/ AccessExpires \/ Relink \/ Revoke
  PROVE  TypeOK'
<1>1. CASE LockExpires
  BY <1>1 DEF LockExpires, TypeOK, CallRecord, Token
<1>2. CASE AccessExpires
  <2>1. call' \in [Call -> CallRecord]
    BY <1>2, ZenonT(40) DEF AccessExpires, TypeOK, CallRecord
  <2>2. row' \in [refresh : Token, fresh : BOOLEAN, consent : BOOLEAN]
    BY <1>2 DEF AccessExpires, TypeOK
  <2>3. QED BY <1>2, <2>1, <2>2 DEF AccessExpires, TypeOK, CallRecord, Token
<1>3. CASE Relink
  <2>1. /\ issued' \in 1..MaxToken /\ Token \subseteq Token' /\ issued' \in Token'
        /\ valid' \subseteq Token'
    BY <1>3, OAuthAssumption DEF Relink, TypeOK, Token
  <2>2. call' \in [Call -> CallRecord']
    BY <1>3, <2>1 DEF Relink, TypeOK, CallRecord
  <2>3. QED BY <1>3, <2>1, <2>2 DEF Relink, TypeOK
<1>4. CASE Revoke
  BY <1>4 DEF Revoke, TypeOK, CallRecord, Token
<1>5. QED BY <1>1, <1>2, <1>3, <1>4

\* Every state is made of the values the model is about.
THEOREM TypeCorrect == Spec => []TypeOK
<1>1. Init => TypeOK
  BY OAuthAssumption DEF Init, TypeOK, Token, CallRecord, IdleCall, Stages, NoToken
<1>2. TypeOK /\ [Next]_vars => TypeOK'
  <2> SUFFICES ASSUME TypeOK, [Next]_vars PROVE TypeOK'
    OBVIOUS
  <2>1. CASE UNCHANGED vars
    BY <2>1 DEF vars, TypeOK, CallRecord, Token
  <2>2. QED BY <2>1, CallType, WorldType DEF Next
<1>3. QED BY <1>1, <1>2, PTL DEF Spec

-----------------------------------------------------------------------------
(* The lock                                                                *)

\* A call between the lock and the end of its writes.
AtWork(c) == InFlight(c) \/ call[c].stage = "locked"

\* Without a wait in vain or an expiry over a living holder, whoever is at work
\* took the lock and still holds it.
LockInv ==
  "unlocked" \notin events =>
    \A c \in Call : /\ AtWork(c) => call[c].locked
                    /\ call[c].locked => lock = c

LEMMA IdleIsFree == IdleCall.stage = "idle" /\ ~ IdleCall.locked
BY DEF IdleCall

\* A step that writes one call's record and lets no other into its work.
LEMMA HolderStep ==
  ASSUME TypeOK, LockInv, NEW c \in Call, NEW f, f \in CallRecord', Become(c, f),
         "unlocked" \notin events' => "unlocked" \notin events,
         f.stage \in {"locked", "refreshing", "granted", "denied"} => f.locked,
         "unlocked" \notin events' /\ f.locked => lock' = c,
         \A d \in Call \ {c} : lock = d => lock' = d
  PROVE  LockInv'
<1>1. call'[c] = f /\ \A d \in Call \ {c} : call'[d] = call[d]
  BY DEF Become, TypeOK
<1>2. SUFFICES ASSUME "unlocked" \notin events', NEW d \in Call
               PROVE  /\ AtWork(d)' => call'[d].locked
                      /\ call'[d].locked => lock' = d
  BY DEF LockInv, AtWork
<1>3. CASE d = c
  BY <1>1, <1>2, <1>3 DEF AtWork, InFlight
<1>4. CASE d # c
  BY <1>1, <1>2, <1>4 DEF LockInv, AtWork, InFlight
<1>5. QED BY <1>3, <1>4

\* A call's own steps keep the lock's invariant.
LEMMA CallLock ==
  ASSUME TypeOK, TypeOK', LockInv, NEW c \in Call, Load(c) \/ CallStep(c) \/ CallFault(c)
  PROVE  LockInv'
<1>c. call[c] \in CallRecord /\ call'[c] \in CallRecord' /\ Nobody \notin Call
  BY OAuthAssumption DEF TypeOK
<1>b. \A g : Become(c, g) => call'[c] = g /\ Become(c, call'[c])
  BY DEF Become, TypeOK
<1>h. "unlocked" \notin events =>
        (AtWork(c) => call[c].locked) /\ (call[c].locked => lock = c)
  BY DEF LockInv
<1>l. ASSUME Leave(c), UNCHANGED lock, "unlocked" \notin events' => "unlocked" \notin events
      PROVE  LockInv'
  <2>1. PICK f \in CallRecord' : /\ Become(c, f)
                                 /\ f.stage \in {"idle", "release"}
                                 /\ f.locked => call[c].locked
    BY <1>l, LeaveType
  <2>2. QED BY <1>h, <1>l, <2>1, HolderStep
<1>1. CASE Load(c) \/ CacheHit(c) \/ Poll(c) \/ Crash(c)
  <2> DEFINE f == call'[c]
  <2>1. /\ Become(c, f) /\ ~ f.locked
        /\ f.stage \notin {"locked", "refreshing", "granted", "denied"}
    <3>1. CASE Load(c)
      <4> DEFINE g == [IdleCall EXCEPT !.stage = "loaded", !.own = row.refresh,
                                       !.cached = row.fresh]
      <4>1. Become(c, g)
        BY <3>1 DEF Load
      <4>2. g.stage = "loaded" /\ ~ g.locked
        BY DEF IdleCall
      <4>3. QED BY <1>b, <4>1, <4>2
    <3>2. CASE CacheHit(c) \/ Poll(c) \/ Crash(c)
      <4>1. Become(c, IdleCall)
        BY <3>2 DEF CacheHit, Poll, Crash
      <4>2. QED BY <1>b, <4>1, IdleIsFree
    <3>3. QED BY <1>1, <3>1, <3>2
  <2>2. UNCHANGED lock /\ events \subseteq events'
    BY <1>1 DEF Load, CacheHit, Poll, Crash
  <2>3. QED BY <1>c, <2>1, <2>2, HolderStep
<1>2. CASE AcquireLock(c)
  <2> DEFINE f == call'[c]
  <2>1. Become(c, f) /\ f.locked
    BY <1>2, <1>c DEF AcquireLock, Become, CallRecord, TypeOK
  <2>2. lock = Nobody /\ lock' = c /\ events' = events
    BY <1>2 DEF AcquireLock
  <2>3. QED BY <1>c, <2>1, <2>2, HolderStep
<1>3. CASE MissLock(c)
  <2> DEFINE f == call'[c]
  <2>1. Become(c, f) /\ f.locked = call[c].locked /\ f.stage = "waiting"
    BY <1>3, <1>c DEF MissLock, Become, CallRecord, TypeOK
  <2>2. events' = events /\ (lock' = lock \/ (lock = Nobody /\ lock' = c))
    BY <1>3 DEF MissLock
  <2>3. QED BY <1>c, <1>h, <2>1, <2>2, HolderStep
<1>4. CASE WaitEnds(c)
  BY <1>4 DEF WaitEnds, LockInv
<1>5. CASE DoubleCheck(c)
  <2>1. UNCHANGED <<lock, events>> /\ AtWork(c)
    BY <1>5 DEF DoubleCheck, AtWork
  <2>2. CASE Leave(c)
    BY <1>l, <2>1, <2>2
  <2>3. CASE Become(c, [call[c] EXCEPT !.stage = "refreshing", !.own = row.refresh])
    <3> DEFINE f == call'[c]
    <3>1. Become(c, f) /\ f.locked = call[c].locked
      BY <1>c, <2>3 DEF Become, CallRecord, TypeOK
    <3>2. CASE "unlocked" \in events
      BY <2>1, <3>2 DEF LockInv
    <3>3. CASE "unlocked" \notin events
      BY <1>c, <1>h, <2>1, <3>1, <3>3, HolderStep
    <3>4. QED BY <3>2, <3>3
  <2>4. QED BY <1>5, <2>2, <2>3 DEF DoubleCheck
<1>6. CASE Grant(c) \/ Deny(c)
  <2> DEFINE f == call'[c]
  <2>1. Become(c, f) /\ f.locked = call[c].locked
    <3>1. PICK g \in {[call[c] EXCEPT !.stage = "granted", !.got = issued + 1],
                      [call[c] EXCEPT !.stage = "granted"],
                      [call[c] EXCEPT !.stage = "denied"]} : Become(c, g)
      BY <1>6 DEF Grant, Deny
    <3>2. g.locked = call[c].locked
      BY <1>c DEF CallRecord
    <3>3. QED BY <1>b, <3>1, <3>2
  <2>2. UNCHANGED <<lock, events>> /\ AtWork(c)
    BY <1>6 DEF Grant, Deny, AtWork, InFlight
  <2>3. CASE "unlocked" \in events
    BY <2>2, <2>3 DEF LockInv
  <2>4. CASE "unlocked" \notin events
    BY <1>c, <1>h, <2>1, <2>2, <2>4, HolderStep
  <2>5. QED BY <2>3, <2>4
<1>7. CASE PersistRefresh(c) \/ MarkNeedsConsent(c) \/ RefreshFails(c) \/ CallFails(c)
  <2>1. Leave(c) /\ UNCHANGED lock /\ events \subseteq events'
    BY <1>7 DEF PersistRefresh, MarkNeedsConsent, RefreshFails, CallFails
  <2>2. QED BY <1>l, <2>1
<1>8. CASE ReleaseLock(c)
  <2> DEFINE f == call'[c]
  <2>1. Become(c, f) /\ ~ f.locked /\ f.stage = "idle"
    BY <1>c, <1>8, IdleIsFree DEF ReleaseLock, Become, TypeOK
  <2>2. events' = events /\ (lock' = lock \/ lock = c)
    BY <1>8 DEF ReleaseLock
  <2>3. QED BY <1>c, <2>1, <2>2, HolderStep
<1>9. QED
  BY <1>1, <1>2, <1>3, <1>4, <1>5, <1>6, <1>7, <1>8 DEF CallStep, CallFault

\* Every step keeps the lock's invariant.
LEMMA NextLock ==
  ASSUME TypeOK, TypeOK', LockInv, [Next]_vars
  PROVE  LockInv'
<1>1. CASE LockExpires
  <2>1. CASE "unlocked" \in events'
    BY <2>1 DEF LockInv
  <2>2. CASE "unlocked" \notin events'
    <3>1. "unlocked" \notin events /\ ~ call[lock].locked /\ call' = call
      BY <1>1, <2>2 DEF LockExpires
    <3>2. \A d \in Call : ~ call[d].locked
      BY <3>1 DEF LockInv
    <3>3. QED BY <3>1, <3>2 DEF LockInv, AtWork, InFlight
  <2>3. QED BY <2>1, <2>2
<1>2. CASE AccessExpires
  <2>1. \A d \in Call : call'[d].stage = call[d].stage /\ call'[d].locked = call[d].locked
    BY <1>2 DEF AccessExpires, TypeOK, CallRecord
  <2>2. UNCHANGED <<lock, events>>
    BY <1>2 DEF AccessExpires
  <2>3. QED BY <2>1, <2>2 DEF LockInv, AtWork, InFlight
<1>3. CASE Relink \/ Revoke \/ UNCHANGED vars
  <2>1. UNCHANGED <<lock, call>> /\ events \subseteq events'
    BY <1>3 DEF Relink, Revoke, vars
  <2>2. QED BY <2>1 DEF LockInv, AtWork, InFlight
<1>4. QED BY <1>1, <1>2, <1>3, CallLock DEF Next

\* The lock lets one refresh through at a time, errors of Redis and crashes
\* included, until a call waits in vain or outlives its lock.
THEOREM LockExcludes == Spec => []OneRefreshAtATime
<1>1. Init => LockInv
  <2>1. ASSUME Init PROVE \A c \in Call : call[c] = IdleCall
    BY <2>1 DEF Init
  <2>2. QED BY <2>1, IdleIsFree DEF LockInv, AtWork, InFlight
<1>2. TypeOK /\ TypeOK' /\ LockInv /\ [Next]_vars => LockInv'
  BY NextLock
<1>3. LockInv => OneRefreshAtATime
  BY DEF LockInv, AtWork, OneRefreshAtATime
<1>4. QED BY <1>1, <1>2, <1>3, TypeCorrect, PTL DEF Spec

-----------------------------------------------------------------------------
(* The tokens                                                              *)

\* What the lock does not protect against: a refresh without it, or a consent
\* that comes in during one.
Protected == events \intersect {"unlocked", "relinked"} = {}

\* A request out presents the token of the row, an invalid_grant is about it, and
\* a mailbox that needs consent has a dead one.
TokenInv ==
  Protected =>
    /\ row.consent => row.refresh \notin valid
    /\ \A c \in Call : /\ call[c].stage = "refreshing" => call[c].own = row.refresh
                       /\ call[c].stage = "denied" => row.refresh \notin valid

\* Nobody but the call at work is in a stage of its own.
LEMMA AloneAtWork ==
  ASSUME LockInv, Protected, NEW c \in Call, AtWork(c)
  PROVE  \A d \in Call \ {c} : ~ AtWork(d)
<1>1. "unlocked" \notin events
  BY DEF Protected
<1>2. QED BY <1>1 DEF LockInv

\* A step of a call that writes neither the row nor a token away.
LEMMA QuietTokens ==
  ASSUME TypeOK, TokenInv, NEW c \in Call, NEW f, Become(c, f),
         events \subseteq events', row' = row,
         row.refresh \in valid' => row.refresh \in valid,
         Protected' => /\ f.stage = "refreshing" => f.own = row.refresh
                       /\ f.stage = "denied" => row.refresh \notin valid
  PROVE  TokenInv'
<1>1. call'[c] = f /\ \A d \in Call \ {c} : call'[d] = call[d]
  BY DEF Become, TypeOK
<1>2. Protected' => Protected
  BY DEF Protected
<1>3. QED BY <1>1, <1>2 DEF TokenInv

\* A rotation issues a token the row does not have.
LEMMA RotateKeeps ==
  ASSUME TypeOK, NEW old, Rotate(old)
  PROVE  row.refresh \in valid' => row.refresh \in valid
<1>1. row.refresh \in 1..issued /\ issued \in Nat
  BY DEF TypeOK, Token
<1>2. PICK revoked \in SUBSET {old} : valid' = (valid \ revoked) \union {issued + 1}
  BY DEF Rotate
<1>3. QED BY <1>1, <1>2

\* A call's own steps keep the tokens' invariant.
LEMMA CallTokens ==
  ASSUME TypeOK, TypeOK', LockInv, TokenInv, NEW c \in Call,
         Load(c) \/ CallStep(c) \/ CallFault(c)
  PROVE  TokenInv'
<1>c. call[c] \in CallRecord
  BY DEF TypeOK
<1>b. \A g : Become(c, g) => call'[c] = g /\ Become(c, call'[c])
  BY DEF Become, TypeOK
<1>q. ASSUME Become(c, call'[c]), call'[c].stage \notin {"refreshing", "denied"},
             events \subseteq events', row' = row,
             row.refresh \in valid' => row.refresh \in valid
      PROVE  TokenInv'
  BY <1>q, QuietTokens
<1>l. ASSUME Leave(c)
      PROVE  Become(c, call'[c]) /\ call'[c].stage \notin {"refreshing", "denied"}
  BY <1>b, <1>l, LeaveType
<1>1. CASE Load(c)
  <2> DEFINE g == [IdleCall EXCEPT !.stage = "loaded", !.own = row.refresh, !.cached = row.fresh]
  <2>1. Become(c, g) /\ g.stage = "loaded"
    BY <1>1 DEF Load, IdleCall
  <2>2. QED BY <1>1, <1>b, <1>q, <2>1 DEF Load
<1>2. CASE CacheHit(c) \/ Poll(c) \/ ReleaseLock(c) \/ Crash(c)
  <2>1. Become(c, IdleCall) /\ UNCHANGED <<row, valid>> /\ events \subseteq events'
    BY <1>2 DEF CacheHit, Poll, ReleaseLock, Crash
  <2>2. QED BY <1>b, <1>q, <2>1, IdleIsFree
<1>3. CASE AcquireLock(c)
  <2> DEFINE g == [call[c] EXCEPT !.stage = "locked", !.locked = TRUE]
  <2>1. Become(c, g) /\ g.stage = "locked"
    BY <1>3, <1>c DEF AcquireLock, CallRecord
  <2>2. QED BY <1>3, <1>b, <1>q, <2>1 DEF AcquireLock
<1>4. CASE MissLock(c)
  <2> DEFINE g == [call[c] EXCEPT !.stage = "waiting"]
  <2>1. Become(c, g) /\ g.stage = "waiting"
    BY <1>4, <1>c DEF MissLock, CallRecord
  <2>2. QED BY <1>4, <1>b, <1>q, <2>1 DEF MissLock
<1>5. CASE WaitEnds(c)
  <2>1. ~ Protected'
    BY <1>5 DEF WaitEnds, Protected
  <2>2. QED BY <2>1 DEF TokenInv
<1>6. CASE DoubleCheck(c)
  <2> DEFINE g == [call[c] EXCEPT !.stage = "refreshing", !.own = row.refresh]
  <2>1. UNCHANGED <<row, valid, events>>
    BY <1>6 DEF DoubleCheck
  <2>2. CASE Leave(c)
    BY <1>l, <1>q, <2>1, <2>2
  <2>3. CASE Become(c, g)
    <3>1. g.stage = "refreshing" /\ g.own = row.refresh
      BY <1>c DEF CallRecord
    <3>2. QED BY <2>1, <2>3, <3>1, QuietTokens
  <2>4. QED BY <1>6, <2>2, <2>3 DEF DoubleCheck
<1>7. CASE Grant(c)
  <2>1. PICK g \in {[call[c] EXCEPT !.stage = "granted", !.got = issued + 1],
                    [call[c] EXCEPT !.stage = "granted"]} : Become(c, g)
    BY <1>7 DEF Grant
  <2>2. g.stage = "granted"
    BY <1>c DEF CallRecord
  <2>3. row.refresh \in valid' => row.refresh \in valid
    BY <1>7, RotateKeeps DEF Grant
  <2>4. QED BY <1>7, <1>b, <1>q, <2>1, <2>2, <2>3 DEF Grant
<1>8. CASE Deny(c)
  <2> DEFINE g == [call[c] EXCEPT !.stage = "denied"]
  <2>1. Become(c, g) /\ g.stage = "denied" /\ UNCHANGED <<row, valid, events>>
    BY <1>8, <1>c DEF Deny, CallRecord
  <2>2. Protected => row.refresh \notin valid
    BY <1>8 DEF Deny, TokenInv
  <2>3. Protected' => Protected
    BY <2>1 DEF Protected
  <2>4. QED BY <2>1, <2>2, <2>3, QuietTokens
<1>9. CASE PersistRefresh(c) \/ MarkNeedsConsent(c)
  <2> SUFFICES ASSUME Protected' PROVE TokenInv'
    BY DEF TokenInv
  <2>1. Protected /\ AtWork(c) /\ Leave(c) /\ valid' = valid
    BY <1>9 DEF PersistRefresh, MarkNeedsConsent, Protected, AtWork, InFlight
  <2>2. \A d \in Call : call'[d].stage \notin {"refreshing", "denied"}
    <3>1. \A d \in Call \ {c} : call'[d] = call[d] /\ ~ AtWork(d)
      BY <1>l, <2>1, AloneAtWork DEF Become, TypeOK
    <3>2. QED BY <1>l, <2>1, <3>1 DEF AtWork, InFlight
  <2>3. row'.consent => row'.refresh \notin valid
    <3>1. CASE PersistRefresh(c)
      <4>1. ~ row'.consent
        BY <3>1 DEF PersistRefresh
      <4>2. QED BY <4>1
    <3>2. CASE MarkNeedsConsent(c)
      <4>1. row'.refresh = row.refresh
        BY <3>2 DEF MarkNeedsConsent, TypeOK
      <4>2. row.refresh \notin valid
        BY <2>1, <3>2 DEF MarkNeedsConsent, TokenInv
      <4>3. QED BY <4>1, <4>2
    <3>3. QED BY <1>9, <3>1, <3>2
  <2>4. QED BY <2>1, <2>2, <2>3 DEF TokenInv
<1>10. CASE RefreshFails(c)
  <2>1. row.refresh \in valid' => row.refresh \in valid
    BY <1>10, RotateKeeps DEF RefreshFails
  <2>2. QED BY <1>10, <1>l, <1>q, <2>1 DEF RefreshFails
<1>11. CASE CallFails(c)
  BY <1>11, <1>l, <1>q DEF CallFails
<1>12. QED
  BY <1>1, <1>2, <1>3, <1>4, <1>5, <1>6, <1>7, <1>8, <1>9, <1>10, <1>11
  DEF CallStep, CallFault

\* Every step keeps the tokens' invariant.
LEMMA NextTokens ==
  ASSUME TypeOK, TypeOK', LockInv, TokenInv, [Next]_vars
  PROVE  TokenInv'
<1>1. CASE LockExpires \/ Revoke \/ UNCHANGED vars
  <2>1. UNCHANGED <<row, call>> /\ valid' \subseteq valid /\ events \subseteq events'
    BY <1>1 DEF LockExpires, Revoke, vars
  <2>2. Protected' => Protected
    BY <2>1 DEF Protected
  <2>3. QED BY <2>1, <2>2 DEF TokenInv
<1>2. CASE AccessExpires
  <2>1. /\ UNCHANGED <<valid, events>>
        /\ row'.refresh = row.refresh /\ row'.consent = row.consent
        /\ \A c \in Call : call'[c].stage = call[c].stage /\ call'[c].own = call[c].own
    BY <1>2 DEF AccessExpires, TypeOK, CallRecord
  <2>2. QED BY <2>1 DEF TokenInv, Protected
<1>3. CASE Relink
  <2> SUFFICES ASSUME Protected' PROVE TokenInv'
    BY DEF TokenInv
  <2>1. \A c \in Call : ~ InFlight(c)
    BY <1>3 DEF Relink, Protected
  <2>2. ~ row'.consent /\ call' = call
    BY <1>3 DEF Relink
  <2>3. QED BY <2>1, <2>2 DEF TokenInv, InFlight
<1>4. QED BY <1>1, <1>2, <1>3, CallTokens DEF Next

\* Under the lock the user is asked to consent again only over a dead token: a
\* refresh presents the token of the row, re-read after the lock was taken.  It
\* says nothing once a call has gone on without the lock, after 3 s of waiting or
\* past the 30 s of its holder, or the user has relinked beside a request.
THEOREM ConsentNeverFalse == Spec => []ConsentIsTrue
<1>1. Init => LockInv /\ TokenInv
  <2>1. ASSUME Init PROVE \A c \in Call : call[c] = IdleCall
    BY <2>1 DEF Init
  <2>2. ASSUME Init PROVE ~ row.consent
    BY <2>2 DEF Init
  <2>3. QED BY <2>1, <2>2, IdleIsFree DEF LockInv, AtWork, InFlight, TokenInv
<1>2. TypeOK /\ TypeOK' /\ LockInv /\ TokenInv /\ [Next]_vars => LockInv' /\ TokenInv'
  BY NextLock, NextTokens
<1>3. TokenInv => ConsentIsTrue
  BY DEF TokenInv, Protected, ConsentIsTrue
<1>4. QED BY <1>1, <1>2, <1>3, TypeCorrect, PTL DEF Spec

\* A new token is in the hands of the call that was granted it.  Until a token is
\* revoked or lost, it is valid and the only copy: neither the row nor any call
\* has it to present, so that no other rotation can revoke it.
Kept == events \intersect {"revoked", "lost"} = {}

OnlyCopy(c) ==
  /\ call[c].got \in valid /\ call[c].got # row.refresh
  /\ \A d \in Call : call[d].own # call[c].got /\ (d # c => call[d].got # call[c].got)

KeptInv ==
  /\ \A c \in Call : call[c].got # NoToken => call[c].stage = "granted"
  /\ Kept => \A c \in Call : call[c].got # NoToken => OnlyCopy(c)
  /\ TokenKept

\* What TypeOK says of the tokens.
LEMMA TokenFacts ==
  ASSUME TypeOK
  PROVE  /\ issued \in Nat /\ valid \subseteq 1..issued /\ row.refresh \in 1..issued
         /\ NoToken \notin valid
         /\ \A c \in Call : /\ call[c] \in CallRecord
                            /\ call[c].own \in 0..issued /\ call[c].got \in 0..issued
BY DEF TypeOK, Token, CallRecord, NoToken

\* A step of a call that has no new token before or after, and presents none that
\* another call has.
LEMMA QuietKept ==
  ASSUME TypeOK, KeptInv, NEW c \in Call, NEW g, Become(c, g), g.got = NoToken,
         call[c].got = NoToken, g.own \in {NoToken, call[c].own, row.refresh},
         UNCHANGED valid, row'.refresh = row.refresh, events \subseteq events'
  PROVE  KeptInv'
<1>1. call'[c] = g /\ \A d \in Call \ {c} : call'[d] = call[d]
  BY DEF Become, TypeOK
<1>2. Kept' => Kept
  BY DEF Kept
<1>3. ASSUME Kept', NEW d \in Call, call'[d].got # NoToken
      PROVE  OnlyCopy(d)'
  <2>1. d # c /\ call'[d] = call[d] /\ OnlyCopy(d)
    BY <1>1, <1>2, <1>3 DEF KeptInv
  <2>2. g.own # call[d].got
    BY <1>1, <1>3, <2>1 DEF OnlyCopy
  <2>3. QED BY <1>1, <1>3, <2>1, <2>2 DEF OnlyCopy
<1>4. TokenKept'
  <2> SUFFICES ASSUME Kept' PROVE row'.refresh \in valid'
                   \/ \E d \in Call : call'[d].stage = "granted" /\ call'[d].got \in valid'
    BY DEF TokenKept, Kept
  <2>1. CASE row.refresh \in valid
    BY <2>1
  <2>2. CASE row.refresh \notin valid
    <3>1. PICK d \in Call : call[d].stage = "granted" /\ call[d].got \in valid
      BY <1>2, <2>2 DEF KeptInv, TokenKept, Kept
    <3>2. d # c
      BY <3>1, TokenFacts
    <3>3. QED BY <1>1, <3>1, <3>2
  <2>3. QED BY <2>1, <2>2
<1>5. \A d \in Call : call'[d].got # NoToken => call'[d].stage = "granted"
  BY <1>1 DEF KeptInv
<1>6. QED BY <1>3, <1>4, <1>5 DEF KeptInv

\* A call that ends without writing a token it was granted.
LEMMA LostKept ==
  ASSUME TypeOK, KeptInv, NEW c \in Call, NEW g, Become(c, g), g.got = NoToken, ~ Kept'
  PROVE  KeptInv'
<1>1. call'[c] = g /\ \A d \in Call \ {c} : call'[d] = call[d]
  BY DEF Become, TypeOK
<1>2. TokenKept'
  BY DEF TokenKept, Kept
<1>3. QED BY <1>1, <1>2 DEF KeptInv

\* A granted call writes its token: the row gets the only copy of it.
LEMMA PersistKept ==
  ASSUME TypeOK, KeptInv, NEW c \in Call, NEW g, Become(c, g), g.got = NoToken,
         g.own = NoToken, call[c].got # NoToken, row'.refresh = call[c].got,
         UNCHANGED <<valid, events>>
  PROVE  KeptInv'
<1>1. call'[c] = g /\ \A d \in Call \ {c} : call'[d] = call[d]
  BY DEF Become, TypeOK
<1>2. Kept' <=> Kept
  BY DEF Kept
<1>3. ASSUME Kept', NEW d \in Call, call'[d].got # NoToken
      PROVE  OnlyCopy(d)'
  <2>1. d # c /\ call'[d] = call[d] /\ OnlyCopy(d) /\ OnlyCopy(c)
    BY <1>1, <1>2, <1>3 DEF KeptInv
  <2>2. g.own # call[d].got /\ call[d].got # call[c].got
    BY <1>1, <1>3, <2>1 DEF OnlyCopy
  <2>3. QED BY <1>1, <1>3, <2>1, <2>2 DEF OnlyCopy
<1>4. TokenKept'
  BY <1>2 DEF KeptInv, OnlyCopy, TokenKept, Kept
<1>5. \A d \in Call : call'[d].got # NoToken => call'[d].stage = "granted"
  BY <1>1 DEF KeptInv
<1>6. QED BY <1>3, <1>4, <1>5 DEF KeptInv

\* A call is granted a new token: the one it presented may go, and that is none
\* which another call has.
LEMMA RotateKept ==
  ASSUME TypeOK, KeptInv, NEW c \in Call, call[c].stage = "refreshing",
         Rotate(call[c].own), UNCHANGED <<row, events>>,
         Become(c, [call[c] EXCEPT !.stage = "granted", !.got = issued + 1])
  PROVE  KeptInv'
<1>f. /\ issued \in Nat /\ valid \subseteq 1..issued /\ row.refresh \in 1..issued
      /\ \A d \in Call : call[d].own \in 0..issued /\ call[d].got \in 0..issued
  BY TokenFacts
<1>1. /\ call'[c].stage = "granted" /\ call'[c].got = issued + 1 /\ call'[c].own = call[c].own
      /\ \A d \in Call \ {c} : call'[d] = call[d]
  BY TokenFacts DEF Become, TypeOK, CallRecord
<1>2. issued + 1 \in valid' /\ valid \ {call[c].own} \subseteq valid'
  BY DEF Rotate
<1>3. Kept' <=> Kept
  BY DEF Kept
<1>4. ASSUME Kept, NEW d \in Call, call'[d].got # NoToken
      PROVE  OnlyCopy(d)'
  <2>1. CASE d = c
    <3>1. \A e \in Call : call'[e].own # issued + 1
      BY <1>1, <1>f
    <3>2. \A e \in Call : e # c => call'[e].got # issued + 1
      BY <1>1, <1>f
    <3>3. row.refresh # issued + 1
      BY <1>f
    <3>4. QED BY <1>1, <1>2, <2>1, <3>1, <3>2, <3>3 DEF OnlyCopy
  <2>2. CASE d # c
    <3>1. call'[d] = call[d] /\ OnlyCopy(d)
      BY <1>1, <1>4, <2>2 DEF KeptInv
    <3>2. call[d].got \in valid' /\ call[d].got # issued + 1
      BY <1>2, <1>f, <3>1 DEF OnlyCopy
    <3>3. \A e \in Call : call'[e].own = call[e].own
      BY <1>1
    <3>4. QED BY <1>1, <2>2, <3>1, <3>2, <3>3 DEF OnlyCopy
  <2>3. QED BY <2>1, <2>2
<1>5. TokenKept'
  BY <1>1, <1>2 DEF TokenKept
<1>6. \A d \in Call : call'[d].got # NoToken => call'[d].stage = "granted"
  BY <1>1 DEF KeptInv
<1>7. QED BY <1>3, <1>4, <1>5, <1>6 DEF KeptInv

\* What a call that ends leaves.
LEMMA LeaveKeepsNoToken ==
  ASSUME NEW c \in Call, Leave(c)
  PROVE  \E g : Become(c, g) /\ g.got = NoToken /\ g.own = NoToken
<1> DEFINE g == IF call[c].locked THEN [IdleCall EXCEPT !.stage = "release", !.locked = TRUE]
                ELSE IdleCall
<1>1. Become(c, g)
  BY DEF Leave
<1>2. g.got = NoToken /\ g.own = NoToken
  BY DEF IdleCall
<1>3. QED BY <1>1, <1>2

\* A call's own steps keep the invariant.
LEMMA CallKept ==
  ASSUME TypeOK, KeptInv, NEW c \in Call, Load(c) \/ CallStep(c) \/ CallFault(c)
  PROVE  KeptInv'
<1>i. IdleCall.got = NoToken /\ IdleCall.own = NoToken
  BY DEF IdleCall
<1>n. call[c].stage # "granted" => call[c].got = NoToken
  BY DEF KeptInv
<1>1. CASE Load(c)
  <2> DEFINE g == [IdleCall EXCEPT !.stage = "loaded", !.own = row.refresh, !.cached = row.fresh]
  <2>1. Become(c, g) /\ call[c].stage # "granted" /\ UNCHANGED <<valid, row, events>>
    BY <1>1 DEF Load
  <2>2. g.got = NoToken /\ g.own = row.refresh
    BY DEF IdleCall
  <2>3. QED BY <1>n, <2>1, <2>2, QuietKept
<1>2. CASE CacheHit(c) \/ Poll(c) \/ ReleaseLock(c)
  <2>1. Become(c, IdleCall) /\ call[c].stage # "granted" /\ UNCHANGED <<valid, row, events>>
    BY <1>2 DEF CacheHit, Poll, ReleaseLock
  <2>2. QED BY <1>i, <1>n, <2>1, QuietKept
<1>3. CASE AcquireLock(c) \/ MissLock(c) \/ WaitEnds(c) \/ Deny(c)
  <2>1. PICK g \in {[call[c] EXCEPT !.stage = "locked", !.locked = TRUE],
                    [call[c] EXCEPT !.stage = "waiting"],
                    [call[c] EXCEPT !.stage = "refreshing"],
                    [call[c] EXCEPT !.stage = "denied"]} : Become(c, g)
    BY <1>3 DEF AcquireLock, MissLock, WaitEnds, Deny
  <2>2. call[c].stage # "granted" /\ UNCHANGED <<valid, row>> /\ events \subseteq events'
    BY <1>3 DEF AcquireLock, MissLock, WaitEnds, Deny
  <2>3. g.got = NoToken /\ g.own = call[c].own
    BY <1>n, <2>2, TokenFacts DEF CallRecord
  <2>4. QED BY <1>n, <2>1, <2>2, <2>3, QuietKept
<1>4. CASE DoubleCheck(c)
  <2> DEFINE h == [call[c] EXCEPT !.stage = "refreshing", !.own = row.refresh]
  <2>1. call[c].stage # "granted" /\ UNCHANGED <<valid, row, events>>
    BY <1>4 DEF DoubleCheck
  <2>2. h.got = NoToken /\ h.own = row.refresh
    BY <1>n, <2>1, TokenFacts DEF CallRecord
  <2>3. PICK g : Become(c, g) /\ g.got = NoToken /\ g.own \in {NoToken, row.refresh}
    BY <1>4, <2>2, LeaveKeepsNoToken DEF DoubleCheck
  <2>4. QED BY <1>n, <2>1, <2>3, QuietKept
<1>5. CASE Grant(c)
  <2>1. call[c].stage = "refreshing" /\ UNCHANGED <<row, events>>
    BY <1>5 DEF Grant
  <2>2. CASE Rotate(call[c].own) /\ Become(c, [call[c] EXCEPT !.stage = "granted", !.got = issued + 1])
    BY <2>1, <2>2, RotateKept
  <2>3. CASE Become(c, [call[c] EXCEPT !.stage = "granted"]) /\ UNCHANGED <<valid, issued>>
    <3> DEFINE g == [call[c] EXCEPT !.stage = "granted"]
    <3>1. g.got = NoToken /\ g.own = call[c].own
      BY <1>n, <2>1, TokenFacts DEF CallRecord
    <3>2. QED BY <1>n, <2>1, <2>3, <3>1, QuietKept
  <2>4. QED BY <1>5, <2>2, <2>3 DEF Grant
<1>6. CASE PersistRefresh(c)
  <2>1. /\ UNCHANGED <<valid, events>> /\ Leave(c)
        /\ row'.refresh = IF call[c].got = NoToken THEN row.refresh ELSE call[c].got
    BY <1>6 DEF PersistRefresh
  <2>2. PICK g : Become(c, g) /\ g.got = NoToken /\ g.own = NoToken
    BY <2>1, LeaveKeepsNoToken
  <2>3. CASE call[c].got = NoToken
    BY <2>1, <2>2, <2>3, QuietKept
  <2>4. CASE call[c].got # NoToken
    BY <2>1, <2>2, <2>4, PersistKept
  <2>5. QED BY <2>3, <2>4
<1>7. CASE MarkNeedsConsent(c)
  <2>1. /\ call[c].stage = "denied" /\ UNCHANGED <<valid, events>> /\ Leave(c)
        /\ row'.refresh = row.refresh
    BY <1>7 DEF MarkNeedsConsent, TypeOK
  <2>2. PICK g : Become(c, g) /\ g.got = NoToken /\ g.own = NoToken
    BY <2>1, LeaveKeepsNoToken
  <2>3. QED BY <1>n, <2>1, <2>2, QuietKept
<1>8. CASE RefreshFails(c)
  <2>1. PICK g : Become(c, g) /\ g.got = NoToken /\ g.own = NoToken
    BY <1>8, LeaveKeepsNoToken DEF RefreshFails
  <2>2. CASE UNCHANGED <<valid, issued, events>>
    BY <1>8, <1>n, <2>1, <2>2, QuietKept DEF RefreshFails
  <2>3. CASE events' = events \union {"lost"}
    <3>1. ~ Kept'
      BY <2>3 DEF Kept
    <3>2. QED BY <2>1, <3>1, LostKept
  <2>4. QED BY <1>8, <2>2, <2>3 DEF RefreshFails
<1>9. CASE CallFails(c) \/ Crash(c)
  <2>1. PICK g : Become(c, g) /\ g.got = NoToken /\ g.own = NoToken
    BY <1>9, <1>i, LeaveKeepsNoToken DEF CallFails, Crash
  <2>2. UNCHANGED <<valid, row>> /\ events' = events \union LosesToken(c)
    BY <1>9 DEF CallFails, Crash
  <2>3. CASE call[c].got # NoToken
    <3>1. ~ Kept'
      BY <2>2, <2>3 DEF Kept, LosesToken, KeptInv
    <3>2. QED BY <2>1, <3>1, LostKept
  <2>4. CASE call[c].got = NoToken
    BY <2>1, <2>2, <2>4, QuietKept
  <2>5. QED BY <2>3, <2>4
<1>10. QED
  BY <1>1, <1>2, <1>3, <1>4, <1>5, <1>6, <1>7, <1>8, <1>9 DEF CallStep, CallFault

\* Every step keeps the invariant.
LEMMA NextKept ==
  ASSUME TypeOK, KeptInv, [Next]_vars
  PROVE  KeptInv'
<1>f. /\ issued \in Nat
      /\ \A d \in Call : call[d].own \in 0..issued /\ call[d].got \in 0..issued
  BY TokenFacts
<1>k. ASSUME events \subseteq events' PROVE Kept' => Kept
  BY <1>k DEF Kept
<1>1. CASE LockExpires \/ UNCHANGED vars
  <2>1. UNCHANGED <<row, call, valid>> /\ events \subseteq events'
    BY <1>1 DEF LockExpires, vars
  <2>2. QED BY <1>k, <2>1 DEF KeptInv, OnlyCopy, TokenKept, Kept
<1>2. CASE AccessExpires
  <2>1. /\ UNCHANGED <<valid, events>> /\ row'.refresh = row.refresh
        /\ \A c \in Call : /\ call'[c].stage = call[c].stage
                           /\ call'[c].got = call[c].got /\ call'[c].own = call[c].own
    BY <1>2 DEF AccessExpires, TypeOK, CallRecord
  <2>2. QED BY <1>k, <2>1 DEF KeptInv, OnlyCopy, TokenKept, Kept
<1>3. CASE Relink
  <2>1. /\ call' = call /\ events \subseteq events'
        /\ valid' = valid \union {issued + 1} /\ row'.refresh = issued + 1
    BY <1>3 DEF Relink
  <2>2. \A c \in Call : call[c].got # issued + 1
    BY <1>f
  <2>3. Kept' => \A c \in Call : call'[c].got # NoToken => OnlyCopy(c)'
    BY <1>k, <2>1, <2>2 DEF KeptInv, OnlyCopy
  <2>4. TokenKept'
    BY <2>1 DEF TokenKept
  <2>5. QED BY <2>1, <2>3, <2>4 DEF KeptInv
<1>4. CASE Revoke
  <2>1. call' = call /\ ~ Kept'
    BY <1>4 DEF Revoke, Kept
  <2>2. QED BY <2>1 DEF KeptInv, TokenKept, Kept
<1>5. QED BY <1>1, <1>2, <1>3, <1>4, CallKept DEF Next

\* Only a revocation, or the loss of a token Microsoft has rotated, strands the
\* mailbox: under any other interleaving, refreshes without the lock and relinks
\* included, the row keeps a token Microsoft accepts, or a call that is about to
\* write one has it.
THEOREM RotationNeverStrands == Spec => []TokenKept
<1>1. Init => KeptInv
  <2>1. ASSUME Init
        PROVE  (\A c \in Call : call[c] = IdleCall) /\ row.refresh \in valid
    BY <2>1 DEF Init
  <2>2. IdleCall.got = NoToken
    BY DEF IdleCall
  <2>3. QED BY <2>1, <2>2 DEF KeptInv, TokenKept
<1>2. TypeOK /\ KeptInv /\ [Next]_vars => KeptInv'
  BY NextKept
<1>3. KeptInv => TokenKept
  BY DEF KeptInv
<1>4. QED BY <1>1, <1>2, <1>3, TypeCorrect, PTL DEF Spec
=============================================================================
