------------------------------ MODULE RateLimit ------------------------------
(***************************************************************************)
(* The fixed-window limiter of the machine API: consume and the routes     *)
(* that call it first (src/backend/app/rate_limit.py and                   *)
(* src/backend/app/external/router.py), for the calls of one address.      *)
(*                                                                         *)
(* A call sends INCR and EXPIRE NX in a pipeline that is no transaction:   *)
(* commands of other calls come between them, and the connection may break *)
(* after the first.  A call over the capacity then asks for the TTL, when  *)
(* the window may be over already.  Time is counted in parts of a second,  *)
(* since Redis answers TTL in seconds, rounded.                            *)
(*                                                                         *)
(* recent and losses are history, which Redis does not lose: how many      *)
(* calls were admitted, and how often Redis lost its keys, in the last     *)
(* tick, the last two, and so on to the length of a window.                *)
(***************************************************************************)
EXTENDS Integers

CONSTANTS Budget,    \* the names of the limits: external_api, external_write
          Client,    \* the callers behind the address, each with one call at a time
          Capacity,  \* calls per window
          Window,    \* window_seconds
          Second,    \* the ticks of a second
          Faults     \* bound: broken connections and losses of Redis's keys

LimitAssumption ==
  /\ {Capacity, Window, Second} \subseteq Nat \ {0}
  /\ Faults \in Nat

VARIABLES count,   \* the value of the counter; 0 when there is no key
          left,    \* the ticks it has left to live; Forever without a TTL
          at,      \* where a call stands
          budget,  \* the budget it draws on
          got,     \* the value its INCR answered
          wait,    \* the ticks a refused caller has still been told to wait
          same,    \* the counter that refuses it is still there
          recent, losses, faults

counters == <<count, left>>
history == <<recent, losses>>
calls == <<at, budget, got, wait, same>>
vars == <<count, left, at, budget, got, wait, same, recent, losses, faults>>

Lifetime == Window * Second
Forever == Lifetime + 1
Ages == 1..Lifetime

\* Nothing asks how far a counter is beyond the capacity.
OneMore(n) == IF n > Capacity THEN n ELSE n + 1

Init ==
  /\ count = [b \in Budget |-> 0] /\ left = [b \in Budget |-> Forever]
  /\ at = [c \in Client |-> "idle"] /\ budget \in [Client -> Budget]
  /\ got = [c \in Client |-> 0] /\ wait = [c \in Client |-> 0]
  /\ same = [c \in Client |-> FALSE]
  /\ recent = [b \in Budget |-> [a \in Ages |-> 0]] /\ losses = [a \in Ages |-> 0]
  /\ faults = 0

-----------------------------------------------------------------------------
(* A call                                                                  *)

\* A caller waits as it was told, or does not.
Call(c) ==
  /\ at[c] \in {"idle", "refused"}
  /\ at' = [at EXCEPT ![c] = "incr"]
  /\ \E b \in Budget : budget' = [budget EXCEPT ![c] = b]
  /\ wait' = [wait EXCEPT ![c] = 0] /\ same' = [same EXCEPT ![c] = FALSE]
  /\ UNCHANGED <<counters, got, history, faults>>

\* The call came with no address, as a X-Forwarded-For with an empty first element makes
\* it: there is no counter for it, and no limit.
CallWithoutKey(c) ==
  /\ at[c] \in {"idle", "refused"}
  /\ at' = [at EXCEPT ![c] = "unlimited"]
  /\ wait' = [wait EXCEPT ![c] = 0] /\ same' = [same EXCEPT ![c] = FALSE]
  /\ UNCHANGED <<counters, budget, got, history, faults>>

\* Mutation of Over: the capacity is compared with the calls before this one.
OverBefore(n) == n - 1 > Capacity

Over(n) == n > Capacity

Incr(c) ==
  LET b == budget[c]
      n == OneMore(count[b])
  IN  /\ at[c] = "incr"
      /\ count' = [count EXCEPT ![b] = n]
      /\ got' = [got EXCEPT ![c] = n]
      /\ at' = [at EXCEPT ![c] = "expire"]
      /\ recent' = IF Over(n) THEN recent ELSE [recent EXCEPT ![b] = [a \in Ages |-> @[a] + 1]]
      /\ same' = [same EXCEPT ![c] = Over(n)]
      /\ UNCHANGED <<left, budget, wait, losses, faults>>

\* What EXPIRE NX does: a counter that has a TTL keeps it.
Lasting(k) == count[k] > 0 /\ left[k] = Forever

\* Mutation of SetsTtl: EXPIRE without NX.
SetsTtlAlways(c) == count[budget[c]] > 0

\* Mutation of SetsTtl: EXPIRE if the value is 1, as the docstring has it.
SetsTtlOnFirst(c) == got[c] = 1 /\ Lasting(budget[c])

SetsTtl(c) == Lasting(budget[c])

Expire(c) ==
  /\ at[c] = "expire"
  /\ left' = IF SetsTtl(c) THEN [left EXCEPT ![budget[c]] = Lifetime] ELSE left
  /\ at' = [at EXCEPT ![c] = IF Over(got[c]) THEN "ttl" ELSE "admitted"]
  /\ UNCHANGED <<count, budget, got, wait, same, history, faults>>

\* TTL in seconds, to the nearest; not positive without a key and in its last half second.
Ttl(k) == IF count[k] = 0 THEN -2
          ELSE IF left[k] = Forever THEN -1
          ELSE (2 * left[k] + Second) \div (2 * Second)

RetryAfter(ttl) == IF ttl > 0 THEN ttl ELSE Window

\* RateLimitedError with its retry_after.
Refuse(c) ==
  /\ at[c] = "ttl"
  /\ wait' = [wait EXCEPT ![c] = Second * RetryAfter(Ttl(budget[c]))]
  /\ at' = [at EXCEPT ![c] = "refused"] /\ got' = [got EXCEPT ![c] = 0]
  /\ UNCHANGED <<counters, budget, same, history, faults>>

\* The key, the gate and the handler behind them: served, 401 or 403, and no way back
\* for what was counted.
Leave(c) ==
  /\ at[c] \in {"admitted", "unlimited"}
  /\ at' = [at EXCEPT ![c] = "idle"] /\ got' = [got EXCEPT ![c] = 0]
  /\ UNCHANGED <<counters, budget, wait, same, history, faults>>

\* The connection to Redis breaks before a command or its answer: the call ends with a 500,
\* and what was executed stays.
Broken(c) ==
  /\ at[c] \in {"expire", "ttl"} /\ faults < Faults /\ faults' = faults + 1
  /\ at' = [at EXCEPT ![c] = "idle"] /\ got' = [got EXCEPT ![c] = 0]
  /\ same' = [same EXCEPT ![c] = FALSE]
  /\ UNCHANGED <<counters, budget, wait, history>>

-----------------------------------------------------------------------------
(* Redis and time                                                          *)

Ends(k) == left[k] = 1

Gone(c, gone) == budget[c] \in gone

Tick ==
  LET over == {k \in Budget : Ends(k)}
  IN  /\ count' = [k \in Budget |-> IF k \in over THEN 0 ELSE count[k]]
      /\ left' = [k \in Budget |-> IF k \in over \/ left[k] = Forever THEN Forever ELSE left[k] - 1]
      /\ wait' = [c \in Client |-> IF wait[c] = 0 THEN 0 ELSE wait[c] - 1]
      /\ same' = [c \in Client |-> same[c] /\ ~Gone(c, over)]
      /\ recent' = [b \in Budget |-> [a \in Ages |-> IF a = 1 THEN 0 ELSE recent[b][a - 1]]]
      /\ losses' = [a \in Ages |-> IF a = 1 THEN 0 ELSE losses[a - 1]]
      /\ UNCHANGED <<at, budget, got, faults>>

\* Redis persists nothing: a restart forgets the counters.
RedisLost ==
  /\ faults < Faults /\ faults' = faults + 1
  /\ count' = [k \in Budget |-> 0] /\ left' = [k \in Budget |-> Forever]
  /\ same' = [c \in Client |-> FALSE]
  /\ losses' = [a \in Ages |-> losses[a] + 1]
  /\ UNCHANGED <<at, budget, got, wait, recent>>

-----------------------------------------------------------------------------
Step(c) == Incr(c) \/ Expire(c) \/ Refuse(c) \/ Leave(c)

Next == \/ \E c \in Client : Call(c) \/ CallWithoutKey(c) \/ Step(c) \/ Broken(c)
        \/ Tick \/ RedisLost

Spec == Init /\ [][Next]_vars

\* Time passes, and Redis and the event loop serve the calls that are under way; nothing
\* makes a caller call.
FairSpec == Spec /\ WF_vars(Tick) /\ \A c \in Client : WF_vars(Step(c))

-----------------------------------------------------------------------------
(* Properties                                                              *)

\* The type invariant of the counters and the calls.
TypeOK ==
  /\ count \in [Budget -> 0..(Capacity + 1)] /\ left \in [Budget -> 1..Forever]
  /\ at \in [Client -> {"idle", "incr", "expire", "ttl", "refused", "admitted", "unlimited"}]
  /\ budget \in [Client -> Budget] /\ got \in [Client -> 0..(Capacity + 1)]
  /\ wait \in [Client -> 0..Lifetime] /\ same \in [Client -> BOOLEAN]
  /\ recent \in [Budget -> [Ages -> Nat]] /\ losses \in [Ages -> Nat]
  /\ faults \in 0..Faults

\* However the commands of the calls interleave, any stretch of time of the length of a
\* window sees at most the calls of two windows admitted, the price of a fixed window
\* (rate_limit.py:94-116), and those of one more for each time Redis lost its keys in the
\* stretch.  It is said of the calls that come with an address.
AtMostTwoWindows ==
  \A b \in Budget : recent[b][Lifetime] <= (2 + losses[Lifetime]) * Capacity

\* A refused caller that waits as it was told finds the counter that refused it gone, or in
\* the half second by which TTL rounds down, whatever the other callers do meanwhile.
WaitIsEnough ==
  \A c \in Client :
    at[c] = "refused" /\ wait[c] = 0 /\ same[c] => 2 * left[budget[c]] <= Second

Calling(b) == \E c \in Client : at[c] = "incr" /\ budget[c] = b

Admitting(b) == \E c \in Client : at[c] = "admitted" /\ budget[c] = b

\* A flood that never lets up is let through again and again: neither its own calls nor a
\* counter left without a TTL by a broken pipeline locks the address out for good.
LockoutEnds == \A b \in Budget : []<>Calling(b) => []<>Admitting(b)

\* "INCR then EXPIRE if the value is 1 (first hit in a window)" (rate_limit.py:97-98).
WindowFromFirstHit ==
  [][\A k \in Budget : left[k] = Forever /\ left'[k] # Forever => count[k] = 1]_vars
=============================================================================
