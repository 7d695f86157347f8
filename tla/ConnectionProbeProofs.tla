----------------------- MODULE ConnectionProbeProofs -----------------------
(***************************************************************************)
(* Proofs about ConnectionProbe for every set of requests, every length of *)
(* its timers and every size of the thread pool.                           *)
(***************************************************************************)
EXTENDS ConnectionProbe, FiniteSetTheorems, TLAPS

-----------------------------------------------------------------------------
(* The inductive invariant                                                 *)

\* What the clocks of request p show: the deadline bounds the time before it
\* fires, QUIT's own time-box the time after.
ClocksOf(p) ==
  /\ at[p] = "idle" => total[p] = 0 /\ expired[p] = {}
  /\ "deadline" \notin expired[p] => total[p] <= Deadline
  /\ "deadline" \in expired[p] => total[p] <= Deadline + phase[p]
  /\ expired[p] # {} => at[p] = "smtp_quit"
  /\ at[p] = "smtp_quit" => phase[p] <= Quit

\* The marker is where the request is, and what it awaits in a thread is a job.
MarkerOf(p) ==
  /\ at[p] = "token" => stage[p] = "oauth_token"
  /\ at[p] \in {"imap_host", "imap_login"} => stage[p] = "imap"
  /\ at[p] \in SmtpLeg => stage[p] = "smtp"
  /\ thread[p] # "none" => at[p] \in ThreadCalls
  /\ thread[p] = "logout" => at[p] = "imap_login"
  /\ at[p] = "smtp_quit" /\ expired[p] = {} =>
       result[p] \in {TestResult, Error("smtp_login_failed", "refused")}

\* TypeOK without the pool.
Typed ==
  /\ at \in [Probe -> Calls \union {"idle"}]
  /\ auth \in [Probe -> {"password", "oauth_outlook"}]
  /\ stage \in [Probe -> {"oauth_token", "imap", "smtp"}]
  /\ total \in [Probe -> 0..Horizon] /\ guarded \in [Probe -> 0..Horizon]
  /\ phase \in [Probe -> 0..Horizon]
  /\ expired \in [Probe -> SUBSET {"guard", "deadline"}]
  /\ result \in [Probe -> Answers] /\ answer \in [Probe -> Answers]
  /\ thread \in [Probe -> {"none", "queued", "running", "logout"}]
  /\ abandoned \in Nat
  /\ socket \in [Probe -> {"none", "open", "closed"}]

IInv ==
  /\ Typed /\ PoolFits
  /\ \A p \in Probe : ClocksOf(p) /\ MarkerOf(p)

USE DEF Calls, SmtpCalls, SmtpPhases, SmtpLeg, ThreadCalls

\* The timers are positive and the horizon of the clocks lies beyond the deadline.
LEMMA Lengths ==
  /\ Deadline \in Nat /\ Guard \in Nat /\ Phase \in Nat /\ Quit \in Nat /\ Threads \in Nat
  /\ Deadline > 0 /\ Phase > 0 /\ Horizon \in Nat /\ Horizon = Deadline + Phase
<1>1. Deadline \in Nat \ {0} /\ Guard \in Nat \ {0} /\ Phase \in Nat \ {0}
      /\ Quit \in Nat \ {0} /\ Threads \in Nat \ {0}
  BY ProbeAssumption
<1> QED
  BY <1>1 DEF Horizon

\* The answers of the probe are answers.
LEMMA AnswersTyped ==
  /\ TestResult \in Answers /\ NoAnswer \in Answers
  /\ Refusals \subseteq Answers /\ TokenErrors \subseteq Answers
  /\ HostErrors \subseteq Answers /\ Error("internal_error", "none") \in Answers
  /\ \A c \in {"imap_login_failed", "smtp_login_failed"} :
       \A d \in {"refused", "timeout", "deadline", "ssl_and_starttls_set"} : Error(c, d) \in Answers
BY DEF TestResult, NoAnswer, Refusals, TokenErrors, HostErrors, Error, Answers, Codes

\* Whatever timers expired, the outcome of a request is an answer: success, or the code
\* of its own leg.
LEMMA OutcomeTyped ==
  ASSUME IInv, NEW p \in Probe, at[p] # "idle", NEW timers,
         timers # {} \/ (at[p] = "smtp_quit" /\ timers = expired[p])
  PROVE  /\ Outcome(p, timers) \in Answers \/ timers \intersect {"guard", "deadline"} = {}
         /\ timers \subseteq {"guard", "deadline"} => Outcome(p, timers).code \in {"ok", Leg(p)}
<1>1. stage[p] = "smtp" <=> at[p] \in SmtpLeg
  BY DEF IInv, Typed, MarkerOf
<1>2. CASE "deadline" \in timers
  BY <1>1, <1>2, AnswersTyped DEF Outcome, DeadlineError, Leg, Error
<1>3. CASE "deadline" \notin timers /\ "guard" \in timers
  BY <1>3, AnswersTyped DEF Outcome, Leg, Error
<1>4. CASE "deadline" \notin timers /\ "guard" \notin timers
  <2>1. CASE timers # {}
    BY <1>4, <2>1
  <2>2. CASE timers = {}
    <3>1. at[p] = "smtp_quit" /\ expired[p] = {}
      BY <2>2
    <3>2. result[p] \in {TestResult, Error("smtp_login_failed", "refused")}
      BY <3>1 DEF IInv, MarkerOf
    <3>3. Outcome(p, timers) = result[p] /\ Leg(p) = "smtp_login_failed"
      BY <1>4, <3>1 DEF Outcome, Leg
    <3> QED
      BY <3>2, <3>3, <2>2 DEF TestResult, Error
  <2> QED
    BY <2>1, <2>2
<1> QED
  BY <1>2, <1>3, <1>4

-----------------------------------------------------------------------------
(* Steps of one request                                                    *)

\* A step that leaves the variables of every other request alone keeps the
\* invariant when it keeps it for p.
Others(p) ==
  \A q \in Probe \ {p} :
    /\ at'[q] = at[q] /\ stage'[q] = stage[q] /\ total'[q] = total[q]
    /\ phase'[q] = phase[q] /\ expired'[q] = expired[q] /\ result'[q] = result[q]
    /\ thread'[q] = thread[q]

LEMMA OthersKeep ==
  ASSUME IInv, NEW p \in Probe, Others(p), ClocksOf(p)', MarkerOf(p)'
  PROVE  \A q \in Probe : ClocksOf(q)' /\ MarkerOf(q)'
<1> SUFFICES ASSUME NEW q \in Probe, q # p PROVE ClocksOf(q)' /\ MarkerOf(q)'
  OBVIOUS
<1>1. ClocksOf(q) /\ MarkerOf(q)
  BY DEF IInv
<1> QED
  BY <1>1 DEF Others, ClocksOf, MarkerOf

\* The request is over.
LEMMA ReplyKeeps ==
  ASSUME IInv, NEW p \in Probe, NEW a \in Answers, Reply(p, a),
         abandoned' \in Nat, socket' \in [Probe -> {"none", "open", "closed"}]
  PROVE  /\ Typed' /\ \A q \in Probe : ClocksOf(q)' /\ MarkerOf(q)'
         /\ Running' = Running \ {p}
<1>1. Typed'
  <2>1. /\ at' \in [Probe -> Calls \union {"idle"}] /\ auth' \in [Probe -> {"password", "oauth_outlook"}]
        /\ stage' \in [Probe -> {"oauth_token", "imap", "smtp"}]
        /\ thread' \in [Probe -> {"none", "queued", "running", "logout"}]
    BY DEF Reply, IInv, Typed
  <2>2. /\ total' \in [Probe -> 0..Horizon] /\ guarded' \in [Probe -> 0..Horizon]
        /\ phase' \in [Probe -> 0..Horizon]
    BY Lengths DEF Reply, IInv, Typed
  <2>3. /\ expired' \in [Probe -> SUBSET {"guard", "deadline"}]
        /\ result' \in [Probe -> Answers] /\ answer' \in [Probe -> Answers]
    BY AnswersTyped DEF Reply, IInv, Typed
  <2> QED
    BY <2>1, <2>2, <2>3 DEF Typed
<1>2. ClocksOf(p)' /\ MarkerOf(p)'
  BY Lengths DEF Reply, IInv, Typed, ClocksOf, MarkerOf
<1>3. Others(p)
  BY DEF Reply, IInv, Typed, Others
<1>4. Running' = Running \ {p}
  BY DEF Reply, IInv, Typed, Running
<1> QED
  BY <1>1, <1>2, <1>3, <1>4, OthersKeep

\* The request awaits the next call of its body.
LEMMA AwaitKeeps ==
  ASSUME IInv, NEW p \in Probe, NEW c, NEW s, Await(p, c, s),
         <<c, s>> \in {<<"token", "oauth_token">>, <<"imap_host", "imap">>,
                       <<"imap_login", "imap">>, <<"smtp_host", "smtp">>,
                       <<"smtp_connect", "smtp">>},
         at[p] # "smtp_quit", UNCHANGED <<total, expired, result, abandoned>>,
         auth' \in [Probe -> {"password", "oauth_outlook"}],
         answer' \in [Probe -> Answers], socket' \in [Probe -> {"none", "open", "closed"}]
  PROVE  /\ Typed' /\ \A q \in Probe : ClocksOf(q)' /\ MarkerOf(q)'
         /\ Running' = Running \ {p}
<1>0. /\ c \in {"token", "imap_host", "imap_login", "smtp_host", "smtp_connect"}
      /\ s \in {"oauth_token", "imap", "smtp"}
  OBVIOUS
<1>1. Typed'
  <2>1. at' \in [Probe -> Calls \union {"idle"}]
    BY <1>0 DEF Await, IInv, Typed
  <2>2. stage' \in [Probe -> {"oauth_token", "imap", "smtp"}]
    BY <1>0 DEF Await, IInv, Typed
  <2>3. guarded' \in [Probe -> 0..Horizon] /\ phase' \in [Probe -> 0..Horizon]
    BY Lengths DEF Await, IInv, Typed
  <2>4. thread' \in [Probe -> {"none", "queued", "running", "logout"}]
    BY DEF Await, IInv, Typed
  <2> QED
    BY <2>1, <2>2, <2>3, <2>4 DEF IInv, Typed
<1>2. ClocksOf(p) /\ expired[p] = {} /\ total[p] \in Nat
  BY DEF IInv, Typed, ClocksOf
<1>3. at'[p] = c /\ stage'[p] = s /\ phase'[p] = 0 /\ thread'[p] \in {"none", "queued"}
      /\ (thread'[p] # "none" => c \in ThreadCalls)
  BY DEF Await, IInv, Typed
<1>4. ClocksOf(p)'
  BY <1>0, <1>2, <1>3, Lengths DEF ClocksOf
<1>5. MarkerOf(p)'
  BY <1>0, <1>3 DEF MarkerOf
<1>6. Others(p)
  BY DEF Await, IInv, Typed, Others
<1>7. Running' = Running \ {p}
  BY <1>3 DEF Await, IInv, Typed, Running
<1> QED
  BY <1>1, <1>4, <1>5, <1>6, <1>7, OthersKeep

\* The SMTP probe goes on with call c, or the IMAP login with its next operation.
LEMMA GoOnKeeps ==
  ASSUME IInv, NEW p \in Probe, NEW c, GoOn(p, c),
         c = at[p] \/ (at[p] \in SmtpPhases /\ c \in SmtpCalls), at[p] # "idle",
         at[p] # "smtp_quit",
         expired' \in [Probe -> SUBSET {"guard", "deadline"}],
         result' \in [Probe -> Answers],
         \A q \in Probe \ {p} : expired'[q] = expired[q] /\ result'[q] = result[q],
         expired'[p] # {} => c = "smtp_quit",
         c = "smtp_quit" /\ expired'[p] = {} =>
           result'[p] \in {TestResult, Error("smtp_login_failed", "refused")},
         socket' \in [Probe -> {"none", "open", "closed"}]
  PROVE  /\ Typed' /\ \A q \in Probe : ClocksOf(q)' /\ MarkerOf(q)'
         /\ Running' = Running
<1>1. Typed'
  <2>1. at' \in [Probe -> Calls \union {"idle"}]
    BY DEF GoOn, IInv, Typed
  <2>2. phase' \in [Probe -> 0..Horizon]
    BY Lengths DEF GoOn, IInv, Typed
  <2> QED
    BY <2>1, <2>2 DEF GoOn, IInv, Typed
<1>2. ClocksOf(p) /\ MarkerOf(p) /\ expired[p] = {} /\ total[p] \in Nat
  BY DEF IInv, Typed, ClocksOf
<1>3. at'[p] = c /\ stage'[p] = stage[p] /\ phase'[p] = 0 /\ thread'[p] = thread[p]
      /\ total'[p] = total[p]
  BY DEF GoOn, IInv, Typed
<1>4. total[p] <= Deadline
  BY <1>2 DEF ClocksOf
<1>5. ClocksOf(p)'
  BY <1>2, <1>3, <1>4, Lengths DEF ClocksOf
<1>6. MarkerOf(p)'
  BY <1>2, <1>3 DEF MarkerOf
<1>7. Others(p)
  BY DEF GoOn, IInv, Typed, Others
<1>8. Running' = Running
  BY DEF GoOn, Running
<1> QED
  BY <1>1, <1>5, <1>6, <1>7, <1>8, OthersKeep

\* The pool loses a job, keeps one that nobody awaits any more, or takes one when
\* a thread is free.
LEMMA PoolCounts ==
  ASSUME IInv, NEW p \in Probe
  PROVE  /\ abandoned \in Nat /\ Cardinality(Running) \in Nat
         /\ Cardinality(Running \ {p}) \in Nat
         /\ Cardinality(Running \ {p}) = Cardinality(Running) - (IF p \in Running THEN 1 ELSE 0)
         /\ Cardinality(Running \union {p}) \in Nat
         /\ Cardinality(Running \union {p}) <= Cardinality(Running) + 1
<1>1. IsFiniteSet(Running)
  BY ProbeAssumption, FS_Subset DEF Running
<1>2. /\ Cardinality(Running \ {p}) = IF p \in Running THEN Cardinality(Running) - 1
                                      ELSE Cardinality(Running)
      /\ IsFiniteSet(Running \ {p})
  BY <1>1, FS_RemoveElement
<1>3. /\ Cardinality(Running \union {p}) = IF p \in Running THEN Cardinality(Running)
                                           ELSE Cardinality(Running) + 1
      /\ IsFiniteSet(Running \union {p})
  BY <1>1, FS_AddElement
<1>4. /\ Cardinality(Running) \in Nat /\ Cardinality(Running \ {p}) \in Nat
      /\ Cardinality(Running \union {p}) \in Nat
  BY <1>1, <1>2, <1>3, FS_CardinalityType
<1> QED
  BY <1>2, <1>3, <1>4 DEF IInv, Typed

\* The request is over and the pool no fuller.
LEMMA ReplyKeepsAll ==
  ASSUME IInv, NEW p \in Probe, NEW a \in Answers, Reply(p, a),
         socket' \in [Probe -> {"none", "open", "closed"}],
         abandoned' = abandoned \/ (p \in Running /\ abandoned' = abandoned + 1)
  PROVE  IInv'
<1>1. abandoned' \in Nat
  BY DEF IInv, Typed
<1>2. Typed' /\ (\A q \in Probe : ClocksOf(q)' /\ MarkerOf(q)') /\ Running' = Running \ {p}
  BY <1>1, ReplyKeeps
<1>3. abandoned' + Cardinality(Running \ {p}) <= Threads
  <2> DEFINE n == Cardinality(Running)
             k == Cardinality(Running \ {p})
  <2>1. n \in Nat /\ k \in Nat /\ abandoned \in Nat /\ (p \in Running => k = n - 1)
        /\ (p \notin Running => k = n)
    BY PoolCounts
  <2>2. abandoned + n <= Threads
    BY DEF IInv, PoolFits
  <2> HIDE DEF n, k
  <2>3. abandoned' + k <= Threads
    BY <2>1, <2>2, Lengths
  <2> QED
    BY <2>3 DEF k
<1>4. PoolFits'
  BY <1>2, <1>3 DEF PoolFits
<1> QED
  BY <1>2, <1>4 DEF IInv

LEMMA AwaitKeepsAll ==
  ASSUME IInv, NEW p \in Probe, NEW c, NEW s, Await(p, c, s),
         <<c, s>> \in {<<"token", "oauth_token">>, <<"imap_host", "imap">>,
                       <<"imap_login", "imap">>, <<"smtp_host", "smtp">>,
                       <<"smtp_connect", "smtp">>},
         at[p] # "smtp_quit", UNCHANGED <<total, expired, result, abandoned>>,
         auth' \in [Probe -> {"password", "oauth_outlook"}],
         answer' \in [Probe -> Answers], socket' \in [Probe -> {"none", "open", "closed"}]
  PROVE  IInv'
<1>1. Typed' /\ (\A q \in Probe : ClocksOf(q)' /\ MarkerOf(q)') /\ Running' = Running \ {p}
  BY AwaitKeeps
<1>2. abandoned + Cardinality(Running \ {p}) <= Threads
  BY PoolCounts, Lengths DEF IInv, PoolFits
<1>3. PoolFits'
  BY <1>1, <1>2 DEF PoolFits
<1> QED
  BY <1>1, <1>3 DEF IInv

LEMMA GoOnKeepsAll ==
  ASSUME IInv, NEW p \in Probe, NEW c, GoOn(p, c),
         c = at[p] \/ (at[p] \in SmtpPhases /\ c \in SmtpCalls), at[p] # "idle",
         at[p] # "smtp_quit",
         expired' \in [Probe -> SUBSET {"guard", "deadline"}],
         result' \in [Probe -> Answers],
         \A q \in Probe \ {p} : expired'[q] = expired[q] /\ result'[q] = result[q],
         expired'[p] # {} => c = "smtp_quit",
         c = "smtp_quit" /\ expired'[p] = {} =>
           result'[p] \in {TestResult, Error("smtp_login_failed", "refused")},
         socket' \in [Probe -> {"none", "open", "closed"}]
  PROVE  IInv'
<1>1. Typed' /\ (\A q \in Probe : ClocksOf(q)' /\ MarkerOf(q)') /\ Running' = Running
  BY GoOnKeeps
<1>2. PoolFits'
  BY <1>1 DEF PoolFits, IInv, GoOn
<1> QED
  BY <1>1, <1>2 DEF IInv

\* MailAccountService.test, refused or begun.
LEMMA RequestKeeps ==
  ASSUME IInv, NEW p \in Probe, Request(p)
  PROVE  IInv'
<1>1. CASE Refuse(p)
  <2>1. answer' \in [Probe -> Answers]
    BY <1>1, AnswersTyped DEF Refuse, IInv, Typed
  <2>2. Typed' /\ PoolFits'
    BY <1>1, <2>1 DEF Refuse, IInv, Typed, PoolFits, Running, clocks
  <2>3. \A q \in Probe : ClocksOf(q)' /\ MarkerOf(q)'
    BY <1>1 DEF Refuse, IInv, ClocksOf, MarkerOf, clocks
  <2> QED
    BY <2>2, <2>3 DEF IInv
<1>2. CASE TestCredentials(p)
  <2>1. /\ auth' \in [Probe -> {"password", "oauth_outlook"}]
        /\ answer' \in [Probe -> Answers] /\ socket' \in [Probe -> {"none", "open", "closed"}]
    BY <1>2, AnswersTyped DEF TestCredentials, IInv, Typed
  <2> QED
    BY <1>2, <2>1, AwaitKeepsAll DEF TestCredentials
<1>3. CASE TestOauthAccount(p)
  <2>1. /\ auth' \in [Probe -> {"password", "oauth_outlook"}]
        /\ answer' \in [Probe -> Answers] /\ socket' \in [Probe -> {"none", "open", "closed"}]
    BY <1>3, AnswersTyped DEF TestOauthAccount, IInv, Typed
  <2> QED
    BY <1>3, <2>1, AwaitKeepsAll DEF TestOauthAccount
<1> QED
  BY <1>1, <1>2, <1>3 DEF Request

\* A thread of the pool takes the job of p.
LEMMA StartThreadKeeps ==
  ASSUME IInv, NEW p \in Probe, StartThread(p)
  PROVE  IInv'
<1>1. Typed'
  BY Lengths DEF StartThread, IInv, Typed
<1>2. at[p] \in ThreadCalls /\ ClocksOf(p) /\ MarkerOf(p)
  BY DEF StartThread, IInv, Typed, MarkerOf
<1>3. /\ thread'[p] = "running" /\ phase'[p] = 0
      /\ UNCHANGED <<at, stage, total, expired, result>>
  BY DEF StartThread, IInv, Typed
<1>4. ClocksOf(p)' /\ MarkerOf(p)'
  BY <1>2, <1>3 DEF ClocksOf, MarkerOf
<1>5. Others(p)
  BY DEF StartThread, IInv, Typed, Others
<1>6. Running' = Running \union {p}
  BY DEF StartThread, IInv, Typed, Running
<1>7. abandoned + Cardinality(Running \union {p}) <= Threads
  <2> DEFINE n == Cardinality(Running)
             k == Cardinality(Running \union {p})
  <2>1. n \in Nat /\ k \in Nat /\ abandoned \in Nat /\ k <= n + 1 /\ n + abandoned < Threads
    BY PoolCounts DEF StartThread
  <2> HIDE DEF n, k
  <2>2. abandoned + k <= Threads
    BY <2>1, Lengths
  <2> QED
    BY <2>2 DEF k
<1>8. PoolFits'
  BY <1>6, <1>7 DEF PoolFits, StartThread
<1> QED
  BY <1>1, <1>4, <1>5, <1>8, OthersKeep DEF IInv

\* A name resolved, a token or an answer of the IMAP server.
LEMMA FirstLegKeeps ==
  ASSUME IInv, NEW p \in Probe,
         TokenAnswered(p) \/ HostRefused(p) \/ ImapHostPublic(p) \/ SmtpHostPublic(p)
           \/ ImapAccepts(p) \/ ImapFails(p) \/ ImapErrorEscapes(p) \/ LogoutEnds(p)
  PROVE  IInv'
<1>0. /\ auth \in [Probe -> {"password", "oauth_outlook"}] /\ answer \in [Probe -> Answers]
      /\ socket \in [Probe -> {"none", "open", "closed"}]
      /\ (thread[p] = "logout" => at[p] = "imap_login")
  BY DEF IInv, Typed, MarkerOf
<1>1. CASE TokenAnswered(p)
  <2>1. CASE Await(p, "imap_host", "imap") /\ UNCHANGED <<auth, total, expired, result, answer>>
    BY <1>0, <1>1, <2>1, AwaitKeepsAll DEF TokenAnswered
  <2>2. CASE \E a \in TokenErrors : Reply(p, a)
    BY <1>0, <1>1, <2>2, AnswersTyped, ReplyKeepsAll DEF TokenAnswered
  <2> QED
    BY <1>1, <2>1, <2>2 DEF TokenAnswered
<1>2. CASE HostRefused(p)
  BY <1>0, <1>2, AnswersTyped, ReplyKeepsAll DEF HostRefused
<1>3. CASE ImapHostPublic(p)
  BY <1>0, <1>3, AwaitKeepsAll DEF ImapHostPublic
<1>4. CASE SmtpHostPublic(p)
  <2>1. CASE Await(p, "smtp_connect", "smtp") /\ UNCHANGED <<auth, total, expired, result, answer>>
    BY <1>0, <1>4, <2>1, AwaitKeepsAll DEF SmtpHostPublic
  <2>2. CASE Reply(p, Error("smtp_login_failed", "ssl_and_starttls_set"))
    BY <1>0, <1>4, <2>2, AnswersTyped, ReplyKeepsAll DEF SmtpHostPublic
  <2> QED
    BY <1>4, <2>1, <2>2 DEF SmtpHostPublic
<1>5. CASE ImapAccepts(p)
  <2>1. Typed'
    BY <1>5, Lengths DEF ImapAccepts, IInv, Typed
  <2>2. /\ thread'[p] = "logout" /\ phase'[p] = 0 /\ at[p] = "imap_login"
        /\ UNCHANGED <<at, stage, total, expired, result, abandoned>>
    BY <1>5 DEF ImapAccepts, IInv, Typed
  <2>3. ClocksOf(p)' /\ MarkerOf(p)'
    BY <2>2 DEF ClocksOf, MarkerOf, IInv
  <2>4. Others(p) /\ Running' = Running
    BY <1>5 DEF ImapAccepts, IInv, Typed, Others, Running
  <2> QED
    BY <2>1, <2>2, <2>3, <2>4, OthersKeep DEF IInv, PoolFits
<1>6. CASE ImapFails(p)
  BY <1>0, <1>6, AnswersTyped, ReplyKeepsAll DEF ImapFails
<1>7. CASE LogoutEnds(p)
  BY <1>0, <1>7, AwaitKeepsAll DEF LogoutEnds
<1>8. CASE ImapErrorEscapes(p)
  BY <1>0, <1>8, AnswersTyped, ReplyKeepsAll DEF ImapErrorEscapes
<1> QED
  BY <1>1, <1>2, <1>3, <1>4, <1>5, <1>6, <1>7, <1>8

\* The dialogue with the SMTP server, and with an IMAP server that drips.
LEMMA SmtpKeeps ==
  ASSUME IInv, NEW p \in Probe,
         ServerGoesOn(p) \/ Connected(p) \/ Secured(p) \/ SmtpAccepts(p) \/ SmtpFails(p)
           \/ QuitEnds(p)
  PROVE  IInv'
<1>0. /\ expired \in [Probe -> SUBSET {"guard", "deadline"}] /\ result \in [Probe -> Answers]
      /\ socket \in [Probe -> {"none", "open", "closed"}]
      /\ (expired[p] # {} => at[p] = "smtp_quit")
  BY DEF IInv, Typed, ClocksOf
<1>1. CASE ServerGoesOn(p)
  <2>1. socket' \in [Probe -> {"none", "open", "closed"}]
    BY <1>0, <1>1 DEF ServerGoesOn
  <2> QED
    BY <1>0, <1>1, <2>1, GoOnKeepsAll DEF ServerGoesOn
<1>2. CASE Connected(p)
  BY <1>0, <1>2, GoOnKeepsAll DEF Connected
<1>3. CASE Secured(p)
  BY <1>0, <1>3, GoOnKeepsAll DEF Secured
<1>4. CASE SmtpAccepts(p)
  <2>1. /\ result' \in [Probe -> Answers] /\ result'[p] = TestResult
        /\ \A q \in Probe \ {p} : result'[q] = result[q]
    BY <1>0, <1>4, AnswersTyped DEF SmtpAccepts
  <2> QED
    BY <1>0, <1>4, <2>1, GoOnKeepsAll DEF SmtpAccepts
<1>5. CASE SmtpFails(p)
  <2> DEFINE failed == Error("smtp_login_failed", "refused")
  <2>1. failed \in Answers
    BY AnswersTyped
  <2>2. CASE GoOn(p, "smtp_quit") /\ result' = [result EXCEPT ![p] = failed] /\ UNCHANGED expired
    <3>1. /\ result' \in [Probe -> Answers] /\ result'[p] = failed
          /\ \A q \in Probe \ {p} : result'[q] = result[q]
      BY <1>0, <2>1, <2>2
    <3> QED
      BY <1>0, <1>5, <2>2, <3>1, GoOnKeepsAll DEF SmtpFails
  <2>3. CASE Reply(p, failed) /\ UNCHANGED abandoned
    BY <1>0, <1>5, <2>1, <2>3, ReplyKeepsAll DEF SmtpFails
  <2> QED
    BY <1>5, <2>2, <2>3 DEF SmtpFails
<1>6. CASE QuitEnds(p)
  <2>1. Outcome(p, expired[p]) \in Answers
    <3>1. CASE expired[p] = {}
      <4>1. result[p] \in Answers /\ Outcome(p, expired[p]) = result[p]
        BY <1>0, <3>1 DEF Outcome
      <4> QED
        BY <4>1
    <3>2. CASE expired[p] # {}
      BY <1>0, <1>6, <3>2, OutcomeTyped DEF QuitEnds
    <3> QED
      BY <3>1, <3>2
  <2>2. socket' \in [Probe -> {"none", "open", "closed"}]
    BY <1>0, <1>6 DEF QuitEnds
  <2> QED
    BY <1>6, <2>1, <2>2, ReplyKeepsAll DEF QuitEnds
<1> QED
  BY <1>1, <1>2, <1>3, <1>4, <1>5, <1>6

\* A timer around the probe runs out.
LEMMA CancelKeeps ==
  ASSUME IInv, NEW p \in Probe, NEW timer \in {"guard", "deadline"}, Cancel(p, timer),
         at[p] # "idle"
  PROVE  IInv'
<1> DEFINE timers == expired[p] \union {timer}
<1>0. /\ expired \in [Probe -> SUBSET {"guard", "deadline"}] /\ result \in [Probe -> Answers]
      /\ socket \in [Probe -> {"none", "open", "closed"}] /\ abandoned \in Nat
      /\ timers \in SUBSET {"guard", "deadline"} /\ timers # {}
  BY DEF IInv, Typed
<1>1. CASE /\ at[p] \in SmtpPhases /\ socket[p] = "open" /\ GoOn(p, "smtp_quit")
           /\ expired' = [expired EXCEPT ![p] = timers] /\ UNCHANGED result
  <2>1. /\ expired' \in [Probe -> SUBSET {"guard", "deadline"}] /\ expired'[p] = timers
        /\ \A q \in Probe \ {p} : expired'[q] = expired[q]
    BY <1>0, <1>1
  <2> HIDE DEF timers
  <2> QED
    BY <1>0, <1>1, <2>1, GoOnKeepsAll DEF Cancel
<1>2. CASE /\ Reply(p, Outcome(p, timers))
           /\ abandoned' = abandoned + IF p \in Running THEN 1 ELSE 0
  <2>1. Outcome(p, timers) \in Answers
    BY <1>0, OutcomeTyped
  <2>2. abandoned' = abandoned \/ (p \in Running /\ abandoned' = abandoned + 1)
    BY <1>0, <1>2
  <2> HIDE DEF timers
  <2> QED
    BY <1>0, <1>2, <2>1, <2>2, ReplyKeepsAll DEF Cancel
<1> QED
  BY <1>1, <1>2 DEF Cancel

\* Time passes for everybody.
LEMMA TickKeeps ==
  ASSUME IInv, Tick
  PROVE  IInv'
<1>1. \A n \in 0..Horizon : Later(n) \in 0..Horizon /\ Later(n) <= n + 1
  BY Lengths DEF Later
<1>2. Typed'
  BY <1>1, Lengths DEF Tick, IInv, Typed
<1>3. ASSUME NEW q \in Probe PROVE ClocksOf(q)' /\ MarkerOf(q)'
  <2>1. /\ ClocksOf(q) /\ MarkerOf(q) /\ total[q] \in 0..Horizon /\ phase[q] \in 0..Horizon
        /\ ~DeadlineDue(q) /\ ~TalkDue(q)
        /\ total'[q] = IF at[q] = "idle" THEN 0 ELSE Later(total[q])
        /\ phase'[q] = IF Talking(q) THEN Later(phase[q]) ELSE 0
        /\ UNCHANGED <<at, stage, expired, result, thread>>
    BY DEF Tick, IInv, Typed
  <2>2. MarkerOf(q)'
    BY <2>1 DEF MarkerOf
  <2>3. CASE "deadline" \in expired[q]
    <3>1. at[q] = "smtp_quit" /\ Talking(q) /\ phase[q] < Quit /\ total[q] <= Deadline + phase[q]
      BY <2>1, <2>3, Lengths DEF ClocksOf, Talking, TalkDue
    <3>2. phase'[q] <= Quit /\ total'[q] <= Deadline + phase'[q]
      BY <2>1, <3>1, Lengths DEF Later
    <3> QED
      BY <2>1, <2>2, <2>3, <3>1, <3>2 DEF ClocksOf
  <2>4. CASE "deadline" \notin expired[q]
    <3>1. at[q] # "idle" => total[q] < Deadline
      BY <2>1, <2>4, Lengths DEF DeadlineDue
    <3>2. total'[q] <= Deadline /\ (at[q] = "idle" => total'[q] = 0)
      BY <2>1, <3>1, Lengths DEF Later
    <3>3. at[q] = "smtp_quit" => phase'[q] <= Quit
      <4>1. at[q] = "smtp_quit" => Talking(q) /\ phase[q] < Quit
        BY <2>1, Lengths DEF Talking, TalkDue
      <4> QED
        BY <2>1, <4>1, Lengths DEF Later
    <3> QED
      BY <2>1, <2>2, <2>4, <3>2, <3>3 DEF ClocksOf
  <2> QED
    BY <2>3, <2>4
<1>4. PoolFits'
  BY DEF Tick, PoolFits, Running, IInv
<1> QED
  BY <1>2, <1>3, <1>4 DEF IInv

-----------------------------------------------------------------------------
(* The theorems                                                            *)

LEMMA InitIInv == Init => IInv
<1> SUFFICES ASSUME Init PROVE IInv
  OBVIOUS
<1>1. Typed
  BY Lengths, AnswersTyped DEF Init, Typed
<1>2. \A p \in Probe : ClocksOf(p) /\ MarkerOf(p)
  BY Lengths DEF Init, ClocksOf, MarkerOf
<1>3. Running = {}
  BY DEF Init, Running
<1>4. PoolFits
  BY <1>3, FS_EmptySet, Lengths DEF Init, PoolFits
<1> QED
  BY <1>1, <1>2, <1>4 DEF IInv

LEMMA NextIInv == IInv /\ [Next]_vars => IInv'
<1> SUFFICES ASSUME IInv, [Next]_vars PROVE IInv'
  OBVIOUS
<1>1. ASSUME NEW p \in Probe, Peer(p) PROVE IInv'
  BY <1>1, FirstLegKeeps, SmtpKeeps DEF Peer
<1>2. ASSUME NEW p \in Probe, GuardExpires(p) PROVE IInv'
  BY <1>2, CancelKeeps DEF GuardExpires, GuardDue, Guarded
<1>3. ASSUME NEW p \in Probe, DeadlineExpires(p) PROVE IInv'
  BY <1>3, CancelKeeps DEF DeadlineExpires, DeadlineDue
<1>4. CASE AbandonedEnds
  <2>1. Typed'
    BY <1>4 DEF AbandonedEnds, IInv, Typed, clocks
  <2>2. \A p \in Probe : ClocksOf(p)' /\ MarkerOf(p)'
    BY <1>4 DEF AbandonedEnds, IInv, ClocksOf, MarkerOf, clocks
  <2>3. Running' = Running
    BY <1>4 DEF AbandonedEnds, Running
  <2>4. IsFiniteSet(Running)
    BY ProbeAssumption, FS_Subset DEF Running
  <2>5. Cardinality(Running) \in Nat /\ abandoned \in Nat /\ abandoned' = abandoned - 1
    BY <1>4, <2>4, FS_CardinalityType DEF AbandonedEnds, IInv, Typed
  <2>6. abandoned' + Cardinality(Running) <= Threads
    BY <2>5, Lengths DEF IInv, PoolFits
  <2>7. PoolFits'
    BY <2>3, <2>6 DEF PoolFits
  <2> QED
    BY <2>1, <2>2, <2>7 DEF IInv
<1>5. CASE UNCHANGED vars
  <2>1. Typed' /\ PoolFits'
    BY <1>5 DEF vars, IInv, Typed, PoolFits, Running
  <2>2. \A p \in Probe : ClocksOf(p)' /\ MarkerOf(p)'
    BY <1>5 DEF vars, IInv, ClocksOf, MarkerOf
  <2> QED
    BY <2>1, <2>2 DEF IInv
<1> QED
  BY <1>1, <1>2, <1>3, <1>4, <1>5, RequestKeeps, StartThreadKeeps, TickKeeps DEF Next

LEMMA Invariance == Spec => []IInv
BY InitIInv, NextIInv, PTL DEF Spec

\* The type invariant of the connection test, the size of its thread pool included.
THEOREM TypeCorrect == Spec => []TypeOK
<1>1. IInv => TypeOK
  BY DEF IInv, Typed, TypeOK
<1> QED
  BY <1>1, Invariance, PTL

\* A connection test is over a QUIT after its deadline, whatever the peers and the pool
\* do and however the timers are chosen.
THEOREM InTime == Spec => []AnsweredInTime
<1>1. IInv => AnsweredInTime
  <2> SUFFICES ASSUME IInv, NEW p \in Probe, at[p] # "idle"
               PROVE  total[p] <= Deadline + Quit
    BY DEF AnsweredInTime
  <2>1. ClocksOf(p) /\ total[p] \in 0..Horizon /\ phase[p] \in 0..Horizon
    BY DEF IInv, Typed
  <2> QED
    BY <2>1, Lengths DEF ClocksOf
<1> QED
  BY <1>1, Invariance, PTL

\* The step that ends request p.
Ends(p) == at[p] # "idle" /\ at'[p] = "idle"

\* What StageAttributed says of it.
InItsLeg(p) ==
  /\ answer'[p].code \in {"imap_login_failed", "smtp_login_failed"} => answer'[p].code = Leg(p)
  /\ at[p] \in SmtpCalls \/ thread[p] = "logout" => answer'[p].code \in {"ok", Leg(p)}

\* Only steps of p end it: with the code of its leg, or with one of another kind before
\* either login.
LEMMA EndsInItsLeg ==
  ASSUME IInv, Next, NEW p \in Probe, Ends(p)
  PROVE  InItsLeg(p)
<1>0. at \in [Probe -> Calls \union {"idle"}] /\ answer \in [Probe -> Answers]
  BY DEF IInv, Typed
<1>1. ASSUME NEW a, Reply(p, a) PROVE answer'[p] = a
  BY <1>0, <1>1 DEF Reply
<1>2. ASSUME NEW q \in Probe, q # p,
             Request(q) \/ StartThread(q) \/ Peer(q) \/ GuardExpires(q) \/ DeadlineExpires(q)
      PROVE  FALSE
  <2>1. at'[p] = at[p]
    BY <1>0, <1>2 DEF Request, Refuse, TestCredentials, TestOauthAccount, StartThread, Peer,
         TokenAnswered, HostRefused, ImapHostPublic, SmtpHostPublic, ImapAccepts, ImapFails,
         ImapErrorEscapes, LogoutEnds, ServerGoesOn, Connected, Secured, SmtpAccepts, SmtpFails,
         QuitEnds, GuardExpires, DeadlineExpires, Cancel, Reply, Await, GoOn
  <2> QED
    BY <2>1 DEF Ends
<1>3. answer'[p].code \in {"ok", Leg(p)} => InItsLeg(p)
  BY DEF InItsLeg
<1>4. ASSUME GuardExpires(p) \/ DeadlineExpires(p) PROVE InItsLeg(p)
  <2>1. PICK timer \in {"guard", "deadline"} : Cancel(p, timer)
    BY <1>4 DEF GuardExpires, DeadlineExpires
  <2> DEFINE timers == expired[p] \union {timer}
  <2>2. timers \subseteq {"guard", "deadline"} /\ timers # {}
    BY DEF IInv, Typed
  <2>3. ~GoOn(p, "smtp_quit")
    BY <1>0 DEF GoOn, Ends
  <2>4. Reply(p, Outcome(p, timers))
    BY <2>1, <2>3 DEF Cancel
  <2>5. answer'[p] = Outcome(p, timers)
    BY <1>1, <2>4
  <2> HIDE DEF timers
  <2> QED
    BY <1>3, <2>2, <2>5, OutcomeTyped DEF Ends
<1>5. ASSUME QuitEnds(p) PROVE InItsLeg(p)
  <2>1. answer'[p] = Outcome(p, expired[p]) /\ at[p] = "smtp_quit"
    BY <1>1, <1>5 DEF QuitEnds
  <2>2. expired[p] \subseteq {"guard", "deadline"}
    BY DEF IInv, Typed
  <2> QED
    BY <1>3, <2>1, <2>2, OutcomeTyped DEF Ends
<1>6. ASSUME SmtpFails(p) PROVE InItsLeg(p)
  <2>1. ~GoOn(p, "smtp_quit")
    BY <1>0 DEF GoOn, Ends
  <2>2. answer'[p] = Error("smtp_login_failed", "refused") /\ at[p] \in SmtpPhases
    BY <1>1, <1>6, <2>1 DEF SmtpFails
  <2> QED
    BY <1>3, <2>2 DEF Leg, Error
<1>7. ASSUME ImapFails(p) PROVE InItsLeg(p)
  BY <1>1, <1>3, <1>7 DEF ImapFails, Leg, Error
<1>8. ASSUME ImapErrorEscapes(p) PROVE InItsLeg(p)
  BY <1>1, <1>8 DEF ImapErrorEscapes, InItsLeg, Error
<1>9. ASSUME HostRefused(p) \/ TokenAnswered(p) PROVE InItsLeg(p)
  <2>1. ~Await(p, "imap_host", "imap")
    BY <1>0 DEF Await, Ends
  <2>2. \E a \in TokenErrors \union HostErrors : answer'[p] = a
    BY <1>1, <1>9, <2>1 DEF HostRefused, TokenAnswered
  <2>3. at[p] \notin SmtpCalls /\ thread[p] # "logout"
    BY <1>9 DEF HostRefused, TokenAnswered, IInv, MarkerOf
  <2> QED
    BY <2>2, <2>3 DEF InItsLeg, TokenErrors, HostErrors, Error
<1>10. ASSUME SmtpHostPublic(p) PROVE InItsLeg(p)
  <2>1. ~Await(p, "smtp_connect", "smtp")
    BY <1>0 DEF Await, Ends
  <2>2. answer'[p] = Error("smtp_login_failed", "ssl_and_starttls_set") /\ at[p] = "smtp_host"
    BY <1>1, <1>10, <2>1 DEF SmtpHostPublic
  <2> QED
    BY <1>3, <2>2 DEF Leg, Error
<1>11. ASSUME \/ Request(p) \/ StartThread(p) \/ ImapHostPublic(p) \/ ImapAccepts(p)
              \/ LogoutEnds(p) \/ ServerGoesOn(p) \/ Connected(p) \/ Secured(p) \/ SmtpAccepts(p)
              \/ AbandonedEnds \/ Tick
       PROVE FALSE
  <2>1. at'[p] # "idle" \/ at[p] = "idle"
    BY <1>0, <1>11 DEF Request, Refuse, TestCredentials, TestOauthAccount, StartThread,
         ImapHostPublic, ImapAccepts, LogoutEnds, ServerGoesOn, Connected, Secured, SmtpAccepts,
         AbandonedEnds, Tick, Await, GoOn
  <2> QED
    BY <2>1 DEF Ends
<1> QED
  <2>1. CASE AbandonedEnds \/ Tick
    BY <1>11, <2>1
  <2>2. CASE \E q \in Probe : Request(q) \/ StartThread(q) \/ Peer(q) \/ GuardExpires(q)
                                \/ DeadlineExpires(q)
    <3>1. Request(p) \/ StartThread(p) \/ Peer(p) \/ GuardExpires(p) \/ DeadlineExpires(p)
      BY <1>2, <2>2
    <3> QED
      BY <3>1, <1>4, <1>5, <1>6, <1>7, <1>8, <1>9, <1>10, <1>11 DEF Peer
  <2> QED
    BY <2>1, <2>2 DEF Next

\* A failed login is reported under the code of the leg it failed in, by whichever timer
\* or server ended the test, and in the logout of IMAP and the dialogue with SMTP a test
\* has no other end than that code and success.
THEOREM Attributed == Spec => StageAttributed
<1>1. IInv /\ [Next]_vars =>
        [\A p \in Probe :
           at[p] # "idle" /\ at'[p] = "idle" =>
             /\ answer'[p].code \in {"imap_login_failed", "smtp_login_failed"}
                  => answer'[p].code = Leg(p)
             /\ at[p] \in SmtpCalls \/ thread[p] = "logout"
                  => answer'[p].code \in {"ok", Leg(p)}]_vars
  BY EndsInItsLeg DEF Ends, InItsLeg
<1> QED
  BY <1>1, Invariance, PTL DEF Spec, StageAttributed
=============================================================================
