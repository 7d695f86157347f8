-------------------------- MODULE ConnectionProbe --------------------------
(***************************************************************************)
(* The connection test of a mailbox (ADR-0047): token (Outlook only), IMAP *)
(* login, SMTP login, under one hard deadline, with a guard of its own     *)
(* around each login and a time-boxed QUIT that every end of the SMTP leg  *)
(* passes, a cancelled one too.  Names are resolved and IMAP is spoken in  *)
(* threads of one pool, which outlive the request that gave them up.       *)
(*                                                                         *)
(* Servers answer, refuse, drip or stay silent.  Time is a clock per       *)
(* timer; it stands still while a timer that has run out is unserved, so a *)
(* tick is any unit: two events of one tick happen in either order.        *)
(***************************************************************************)
EXTENDS Integers, FiniteSets

CONSTANTS
  Probe,     \* requests that may overlap; each may be made again
  Deadline,  \* MAILBOX_TEST_DEADLINE_SECONDS
  Guard,     \* _IMAP_TIMEOUT + 5 and _SMTP_TIMEOUT + 5
  Phase,     \* _IMAP_TIMEOUT, _SMTP_TIMEOUT
  Quit,      \* _SMTP_QUIT_TIMEOUT
  Threads    \* threads of the default executor

ASSUME ProbeAssumption ==
  /\ IsFiniteSet(Probe)
  /\ {Deadline, Guard, Phase, Quit, Threads} \subseteq Nat \ {0}

VARIABLES
  at,         \* the call each request awaits
  auth,       \* auth_type of the mailbox
  stage,      \* _ProbeStage.value
  total,      \* since the deadline was set
  guarded,    \* since the guard around the login was set
  phase,      \* since the socket operation, or QUIT, began
  expired,    \* the timers around the SMTP probe that have cancelled it
  result,     \* what the SMTP probe has come to when it starts its QUIT
  thread,     \* the thread each request awaits
  abandoned,  \* threads that run on for requests that are over
  socket,     \* the SMTP transport
  answer      \* the last answer

vars == <<at, auth, stage, total, guarded, phase, expired, result, thread, abandoned,
          socket, answer>>

clocks == <<total, guarded, phase>>

SmtpPhases == {"smtp_connect", "smtp_starttls", "smtp_login"}
SmtpCalls == SmtpPhases \union {"smtp_quit"}
SmtpLeg == SmtpCalls \union {"smtp_host"}
ThreadCalls == {"imap_host", "imap_login", "smtp_host"}

Error(code, detail) == [code |-> code, detail |-> detail]
TestResult == Error("ok", "none")
NoAnswer == Error("none", "none")

Init ==
  /\ at = [p \in Probe |-> "idle"] /\ auth = [p \in Probe |-> "password"]
  /\ stage = [p \in Probe |-> "imap"]
  /\ total = [p \in Probe |-> 0] /\ guarded = [p \in Probe |-> 0] /\ phase = [p \in Probe |-> 0]
  /\ expired = [p \in Probe |-> {}] /\ result = [p \in Probe |-> NoAnswer]
  /\ thread = [p \in Probe |-> "none"] /\ abandoned = 0
  /\ socket = [p \in Probe |-> "none"] /\ answer = [p \in Probe |-> NoAnswer]

\* Request p awaits call c, a job of the pool when c is one; the stage becomes s.
Await(p, c, s) ==
  /\ at' = [at EXCEPT ![p] = c]
  /\ stage' = [stage EXCEPT ![p] = s]
  /\ thread' = [thread EXCEPT ![p] = IF c \in ThreadCalls THEN "queued" ELSE "none"]
  /\ guarded' = [guarded EXCEPT ![p] = 0] /\ phase' = [phase EXCEPT ![p] = 0]

\* The request ends, its marker and its timers with it.  Its thread, if it runs, runs on.
Reply(p, a) ==
  /\ at' = [at EXCEPT ![p] = "idle"]
  /\ answer' = [answer EXCEPT ![p] = a]
  /\ thread' = [thread EXCEPT ![p] = "none"]
  /\ total' = [total EXCEPT ![p] = 0]
  /\ guarded' = [guarded EXCEPT ![p] = 0] /\ phase' = [phase EXCEPT ![p] = 0]
  /\ expired' = [expired EXCEPT ![p] = {}] /\ result' = [result EXCEPT ![p] = NoAnswer]
  /\ auth' = [auth EXCEPT ![p] = "password"] /\ stage' = [stage EXCEPT ![p] = "imap"]

-----------------------------------------------------------------------------
(* MailAccountService.test                                                 *)

Refusals == {Error("validation_error", "none"), Error("not_found", "none"),
             Error("oauth_reconsent_required", "none")}

\* A field is missing, the mailbox is not there, or it waits for consent.
Refuse(p) ==
  /\ at[p] = "idle"
  /\ \E a \in Refusals : answer' = [answer EXCEPT ![p] = a]
  /\ UNCHANGED <<at, auth, stage, clocks, expired, result, thread, abandoned, socket>>

TestCredentials(p) ==
  /\ at[p] = "idle"
  /\ Await(p, "imap_host", "imap")
  /\ auth' = [auth EXCEPT ![p] = "password"]
  /\ socket' = [socket EXCEPT ![p] = "none"]
  /\ answer' = [answer EXCEPT ![p] = NoAnswer]
  /\ UNCHANGED <<total, expired, result, abandoned>>

TestOauthAccount(p) ==
  /\ at[p] = "idle"
  /\ Await(p, "token", "oauth_token")
  /\ auth' = [auth EXCEPT ![p] = "oauth_outlook"]
  /\ socket' = [socket EXCEPT ![p] = "none"]
  /\ answer' = [answer EXCEPT ![p] = NoAnswer]
  /\ UNCHANGED <<total, expired, result, abandoned>>

\* OAuthRefreshInvalidError, and OAuthError, which nobody maps.
TokenErrors == {Error("oauth_reconsent_required", "none"), Error("internal_error", "none")}

TokenAnswered(p) ==
  /\ at[p] = "token"
  /\ \/ /\ Await(p, "imap_host", "imap")
        /\ UNCHANGED <<auth, total, expired, result, answer>>
     \/ \E a \in TokenErrors : Reply(p, a)
  /\ UNCHANGED <<abandoned, socket>>

-----------------------------------------------------------------------------
(* The thread pool                                                         *)

Running == {p \in Probe : thread[p] \in {"running", "logout"}}

StartThread(p) ==
  /\ thread[p] = "queued"
  /\ Cardinality(Running) + abandoned < Threads
  /\ thread' = [thread EXCEPT ![p] = "running"]
  /\ phase' = [phase EXCEPT ![p] = 0]
  /\ UNCHANGED <<at, auth, stage, total, guarded, expired, result, abandoned, socket, answer>>

\* A resolver gives up, or a socket times out, for a request that is over.
AbandonedEnds ==
  /\ abandoned > 0
  /\ abandoned' = abandoned - 1
  /\ UNCHANGED <<at, auth, stage, clocks, expired, result, thread, socket, answer>>

-----------------------------------------------------------------------------
(* assert_public_host_async                                                *)

\* InvalidHostError, and the UnicodeError of a name that cannot be encoded, which nobody maps.
HostErrors == {Error("invalid_host", "none"), Error("internal_error", "none")}

HostRefused(p) ==
  /\ at[p] \in {"imap_host", "smtp_host"} /\ thread[p] = "running"
  /\ \E a \in HostErrors : Reply(p, a)
  /\ UNCHANGED <<abandoned, socket>>

ImapHostPublic(p) ==
  /\ at[p] = "imap_host" /\ thread[p] = "running"
  /\ Await(p, "imap_login", "imap")
  /\ UNCHANGED <<auth, total, expired, result, abandoned, socket, answer>>

\* A password probe refuses smtp_ssl with smtp_starttls here.
SmtpHostPublic(p) ==
  /\ at[p] = "smtp_host" /\ thread[p] = "running"
  /\ \/ /\ Await(p, "smtp_connect", "smtp")
        /\ UNCHANGED <<auth, total, expired, result, answer>>
     \/ /\ auth[p] = "password"
        /\ Reply(p, Error("smtp_login_failed", "ssl_and_starttls_set"))
  /\ UNCHANGED <<abandoned, socket>>

-----------------------------------------------------------------------------
(* imap_test_login, imap_test_oauth                                        *)

\* Logged in and INBOX selected.
ImapAccepts(p) ==
  /\ at[p] = "imap_login" /\ thread[p] = "running"
  /\ thread' = [thread EXCEPT ![p] = "logout"]
  /\ phase' = [phase EXCEPT ![p] = 0]
  /\ UNCHANGED <<at, auth, stage, total, guarded, expired, result, abandoned, socket, answer>>

\* MailboxLoginError, MailboxFolderSelectError, TimeoutError or OSError.
ImapFails(p) ==
  /\ at[p] = "imap_login" /\ thread[p] = "running"
  /\ Reply(p, Error("imap_login_failed", "refused"))
  /\ UNCHANGED <<abandoned, socket>>

\* imaplib's own errors pass the three except clauses and the guard: a BAD answer, a
\* dropped connection, every refusal of AUTHENTICATE XOAUTH2.
ImapErrorEscapes(p) ==
  /\ at[p] = "imap_login" /\ thread[p] = "running"
  /\ Reply(p, Error("internal_error", "none"))
  /\ UNCHANGED <<abandoned, socket>>

\* Mutation of LogoutEnds: the marker is not moved.
LogoutEndsInImap(p) ==
  /\ thread[p] = "logout"
  /\ Await(p, "smtp_host", "imap")
  /\ UNCHANGED <<auth, total, expired, result, abandoned, socket, answer>>

\* Answered or not: an error of the logout is suppressed.  The SMTP leg follows.
LogoutEnds(p) ==
  /\ thread[p] = "logout"
  /\ Await(p, "smtp_host", "smtp")
  /\ UNCHANGED <<auth, total, expired, result, abandoned, socket, answer>>

-----------------------------------------------------------------------------
(* _smtp_login_probe, _smtp_oauth_probe                                    *)

\* The next call on the same transport, under the same guard.
GoOn(p, c) ==
  /\ at' = [at EXCEPT ![p] = c]
  /\ phase' = [phase EXCEPT ![p] = 0]
  /\ UNCHANGED <<auth, stage, total, guarded, thread, abandoned, answer>>

\* The peer accepts the transport, or answers one of the commands of a phase.
ServerGoesOn(p) ==
  /\ at[p] \in SmtpPhases \/ (at[p] = "imap_login" /\ p \in Running)
  /\ socket' = [socket EXCEPT ![p] = IF at[p] = "smtp_connect" THEN "open" ELSE @]
  /\ GoOn(p, at[p])
  /\ UNCHANGED <<expired, result>>

Connected(p) ==
  /\ at[p] = "smtp_connect" /\ socket[p] = "open"
  /\ \E c \in {"smtp_starttls", "smtp_login"} : GoOn(p, c)
  /\ UNCHANGED <<expired, result, socket>>

Secured(p) ==
  /\ at[p] = "smtp_starttls"
  /\ GoOn(p, "smtp_login")
  /\ UNCHANGED <<expired, result, socket>>

SmtpAccepts(p) ==
  /\ at[p] = "smtp_login"
  /\ GoOn(p, "smtp_quit")
  /\ result' = [result EXCEPT ![p] = TestResult]
  /\ UNCHANGED <<expired, socket>>

\* QUIT needs a transport: without one the error is the answer at once.
SmtpFails(p) ==
  LET failed == Error("smtp_login_failed", "refused") IN
  /\ at[p] \in SmtpPhases
  /\ \/ /\ socket[p] = "open"
        /\ GoOn(p, "smtp_quit")
        /\ result' = [result EXCEPT ![p] = failed]
        /\ UNCHANGED expired
     \/ /\ socket[p] = "none"
        /\ Reply(p, failed)
        /\ UNCHANGED abandoned
  /\ UNCHANGED socket

-----------------------------------------------------------------------------
(* The ends of a probe                                                     *)

Leg(p) == IF at[p] \in SmtpLeg THEN "smtp_login_failed" ELSE "imap_login_failed"

\* _deadline_error
DeadlineError(s) ==
  Error(IF s = "smtp" THEN "smtp_login_failed" ELSE "imap_login_failed", "deadline")

\* The outermost timer that expired turns the cancellation into its own error.
Outcome(p, timers) ==
  IF "deadline" \in timers THEN DeadlineError(stage[p])
  ELSE IF "guard" \in timers THEN Error(Leg(p), "timeout")
  ELSE result[p]

\* QUIT is answered, fails or runs out of time; then the transport is closed.
QuitEnds(p) ==
  /\ at[p] = "smtp_quit"
  /\ socket' = [socket EXCEPT ![p] = "closed"]
  /\ Reply(p, Outcome(p, expired[p]))
  /\ UNCHANGED abandoned

\* A timer around the awaited call cancels it.  A thread runs on; an open
\* transport gets its QUIT; a QUIT is cut short, and close() after it skipped.
Cancel(p, timer) ==
  LET timers == expired[p] \union {timer} IN
  /\ \/ /\ at[p] \in SmtpPhases /\ socket[p] = "open"
        /\ GoOn(p, "smtp_quit")
        /\ expired' = [expired EXCEPT ![p] = timers]
        /\ UNCHANGED result
     \/ /\ ~(at[p] \in SmtpPhases /\ socket[p] = "open")
        /\ Reply(p, Outcome(p, timers))
        /\ abandoned' = abandoned + IF p \in Running THEN 1 ELSE 0
  /\ UNCHANGED socket

-----------------------------------------------------------------------------
(* Timers                                                                  *)

Guarded(p) == at[p] \in SmtpCalls \union {"imap_login"} /\ "guard" \notin expired[p]

Talking(p) == at[p] \in SmtpCalls \/ (at[p] = "imap_login" /\ p \in Running)

\* Mutation of DeadlineDue: the deadline covers the logins only.
DeadlineDueAtLogin(p) ==
  at[p] \in SmtpCalls \union {"imap_login"} /\ "deadline" \notin expired[p] /\ total[p] >= Deadline

DeadlineDue(p) == at[p] # "idle" /\ "deadline" \notin expired[p] /\ total[p] >= Deadline
GuardDue(p) == Guarded(p) /\ guarded[p] >= Guard

\* Mutation of TalkDue: QUIT is not time-boxed but takes a whole phase.
TalkDueUnboxed(p) == Talking(p) /\ phase[p] >= Phase

TalkDue(p) == Talking(p) /\ phase[p] >= (IF at[p] = "smtp_quit" THEN Quit ELSE Phase)

DeadlineExpires(p) == DeadlineDue(p) /\ Cancel(p, "deadline")
GuardExpires(p) == GuardDue(p) /\ Cancel(p, "guard")

\* What a silent peer's timeout makes of the operation.
TalkTimesOut(p) == TalkDue(p) /\ (ImapFails(p) \/ LogoutEnds(p) \/ SmtpFails(p) \/ QuitEnds(p))

\* Bound: beyond it a clock has nothing left to tell.
Horizon == Deadline + Phase

Later(n) == IF n < Horizon THEN n + 1 ELSE n

\* Time passes while no timer is due.
Tick ==
  /\ \A p \in Probe : ~DeadlineDue(p) /\ ~GuardDue(p) /\ ~TalkDue(p)
  /\ total' = [p \in Probe |-> IF at[p] = "idle" THEN 0 ELSE Later(total[p])]
  /\ guarded' = [p \in Probe |-> IF Guarded(p) THEN Later(guarded[p]) ELSE 0]
  /\ phase' = [p \in Probe |-> IF Talking(p) THEN Later(phase[p]) ELSE 0]
  /\ UNCHANGED <<at, auth, stage, expired, result, thread, abandoned, socket, answer>>

-----------------------------------------------------------------------------
Request(p) == Refuse(p) \/ TestCredentials(p) \/ TestOauthAccount(p)

Peer(p) ==
  \/ TokenAnswered(p) \/ HostRefused(p) \/ ImapHostPublic(p) \/ SmtpHostPublic(p)
  \/ ImapAccepts(p) \/ ImapFails(p) \/ ImapErrorEscapes(p) \/ LogoutEnds(p)
  \/ ServerGoesOn(p) \/ Connected(p) \/ Secured(p) \/ SmtpAccepts(p) \/ SmtpFails(p) \/ QuitEnds(p)

Next ==
  \/ \E p \in Probe :
       Request(p) \/ StartThread(p) \/ Peer(p) \/ GuardExpires(p) \/ DeadlineExpires(p)
  \/ AbandonedEnds \/ Tick

Spec == Init /\ [][Next]_vars

\* The event loop serves its timers.  No server, resolver or thread need ever answer.
FairSpec ==
  /\ Spec /\ WF_vars(Tick)
  /\ \A p \in Probe : /\ WF_vars(DeadlineExpires(p)) /\ WF_vars(GuardExpires(p))
                      /\ WF_vars(TalkTimesOut(p))

-----------------------------------------------------------------------------
(* Properties                                                              *)

Calls == {"token"} \union ThreadCalls \union SmtpCalls
Codes == {"none", "ok", "validation_error", "not_found", "oauth_reconsent_required",
          "internal_error", "invalid_host", "imap_login_failed", "smtp_login_failed"}
Answers == [code : Codes,
            detail : {"none", "refused", "timeout", "deadline", "ssl_and_starttls_set"}]

PoolFits == abandoned + Cardinality(Running) <= Threads

\* The type invariant of the requests, their timers and the thread pool, which runs the
\* jobs of requests that are over besides those somebody awaits.
TypeOK ==
  /\ at \in [Probe -> Calls \union {"idle"}]
  /\ auth \in [Probe -> {"password", "oauth_outlook"}]
  /\ stage \in [Probe -> {"oauth_token", "imap", "smtp"}]
  /\ total \in [Probe -> 0..Horizon] /\ guarded \in [Probe -> 0..Horizon]
  /\ phase \in [Probe -> 0..Horizon]
  /\ expired \in [Probe -> SUBSET {"guard", "deadline"}]
  /\ result \in [Probe -> Answers] /\ answer \in [Probe -> Answers]
  /\ thread \in [Probe -> {"none", "queued", "running", "logout"}]
  /\ abandoned \in Nat /\ PoolFits
  /\ socket \in [Probe -> {"none", "open", "closed"}]

\* A request is over a QUIT after its deadline at the latest, whatever servers, resolver
\* and thread pool do: 45 + 5 s, inside the 60 s of the proxy (ADR-0047 section 2.1).
AnsweredInTime == \A p \in Probe : at[p] # "idle" => total[p] <= Deadline + Quit

\* Whichever server or timer ends a test: a failed login carries the code of the leg it
\* failed in, for the marker is where the probe is; and from the logout of IMAP and in the
\* dialogue with SMTP a test has no other end than that code and success (ADR-0047
\* section 3).  Before, in the login of IMAP, an error of imaplib is answered 500.
StageAttributed ==
  [][\A p \in Probe :
       at[p] # "idle" /\ at'[p] = "idle" =>
         /\ answer'[p].code \in {"imap_login_failed", "smtp_login_failed"}
              => answer'[p].code = Leg(p)
         /\ at[p] \in SmtpCalls \/ thread[p] = "logout"
              => answer'[p].code \in {"ok", Leg(p)}]_vars

\* "Raises IMAPLoginFailedError on any failure" (testers.py:137): the dialogue with the
\* IMAP server ends a test under that code only.
ImapFailureIsNamed ==
  [][\A p \in Probe :
       at[p] = "imap_login" /\ at'[p] = "idle" => answer'[p].code = "imap_login_failed"]_vars

\* Every test is answered, though no server and no resolver ever answers and every thread
\* of the pool is taken.
Answered == \A p \in Probe : at[p] # "idle" ~> at[p] = "idle"

\* "the transport is then closed synchronously" (testers.py:64): no request that is over
\* has left its transport open.
TransportClosed == \A p \in Probe : at[p] = "idle" => socket[p] # "open"

\* "Ignore logout errors - the login already succeeded" (testers.py:124): a logout is not
\* what an IMAP failure comes from.
LogoutIgnored ==
  [][\A p \in Probe :
       thread[p] = "logout" /\ total[p] < Deadline /\ at'[p] = "idle"
       => answer'[p].code # "imap_login_failed"]_vars
=============================================================================
