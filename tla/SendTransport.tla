--------------------------- MODULE SendTransport ---------------------------
(***************************************************************************)
(* POST /api/external/mailboxes/{id}/send (ADR-0048): the CRM has one      *)
(* letter to send from one mailbox, and repeats the request while it was   *)
(* not told that the letter went out.  A request takes an access token     *)
(* (Outlook only, twice), resolves the SMTP host, speaks SMTP, and then    *)
(* appends the letter to the Sent folder in a thread, whatever comes of    *)
(* that; a COMMIT ends the transaction around it all.  The caller, or the  *)
(* proxy before the service, may give up on a request; the request goes on.*)
(***************************************************************************)
EXTENDS Integers, FiniteSets

CONSTANTS
  Request,  \* requests for the letter, each made once at most
  Folders,  \* candidates for the name of the Sent folder
  Phase     \* _SMTP_TIMEOUT

SendAssumption == Folders \in Nat \ {0} /\ Phase \in Nat \ {0}

VARIABLES
  kind,       \* auth_type of the mailbox
  dead,       \* Microsoft has revoked the refresh token
  consent,    \* oauth_needs_consent
  at,         \* what each request awaits
  phase,      \* time since the SMTP phase began
  leg,        \* time since the SMTP leg began
  reply,      \* what the SMTP leg has come to when its QUIT starts
  thread,     \* the thread that appends
  folder,     \* the candidate it tries
  copies,     \* copies in Sent made for each request
  delivered,  \* requests whose letter the SMTP server has accepted
  answer      \* what the caller was told

vars == <<kind, dead, consent, at, phase, leg, reply, thread, folder, copies, delivered, answer>>

SmtpPhases == {"smtp_connect", "smtp_starttls", "smtp_auth", "smtp_data"}
Active == {"token", "smtp_host", "smtp_token", "smtp_quit", "append_host", "append",
           "commit"} \union SmtpPhases

Init ==
  /\ kind \in {"password", "oauth_outlook"}
  /\ dead = FALSE /\ consent = FALSE
  /\ at = [r \in Request |-> "new"]
  /\ phase = [r \in Request |-> 0] /\ leg = [r \in Request |-> 0]
  /\ reply = [r \in Request |-> "none"]
  /\ thread = [r \in Request |-> "none"] /\ folder = [r \in Request |-> 1]
  /\ copies = [r \in Request |-> 0] /\ delivered = {}
  /\ answer = [r \in Request |-> "none"]

mailbox == <<kind, dead, consent>>
append == <<thread, folder, copies>>
clocks == <<phase, leg>>

Await(r, c) ==
  /\ at' = [at EXCEPT ![r] = c]
  /\ phase' = [phase EXCEPT ![r] = 0]

\* The request ends.  Nobody hears it when the caller has given up.
Reply(r, a) ==
  /\ Await(r, "over")
  /\ leg' = [leg EXCEPT ![r] = 0] /\ reply' = [reply EXCEPT ![r] = "none"]
  /\ answer' = [answer EXCEPT ![r] = IF @ = "none" THEN a ELSE @]

-----------------------------------------------------------------------------
(* The caller and the mailbox                                              *)

\* The CRM asks again only when it knows of no success and awaits no answer.
MayAsk(r) ==
  /\ at[r] = "new"
  /\ \A q \in Request : /\ at[q] # "new" => answer[q] # "none"
                        /\ answer[q] # "ok"

\* The 60 s of the proxy, or the caller's own patience.
CallerGivesUp(r) ==
  /\ at[r] \in Active /\ answer[r] = "none"
  /\ answer' = [answer EXCEPT ![r] = "gateway_timeout"]
  /\ UNCHANGED <<mailbox, at, clocks, reply, append, delivered>>

Revoke ==
  /\ kind = "oauth_outlook" /\ ~dead
  /\ dead' = TRUE
  /\ UNCHANGED <<kind, consent, at, clocks, reply, append, delivered, answer>>

\* Another call finds the token revoked, or the user consents again.
ConsentChanges ==
  /\ dead
  /\ \/ consent' = TRUE /\ UNCHANGED dead
     \/ consent' = FALSE /\ dead' = FALSE
  /\ UNCHANGED <<kind, at, clocks, reply, append, delivered, answer>>

-----------------------------------------------------------------------------
(* send_from_mailbox, _send_transport up to the SMTP leg                   *)

SendFromMailbox(r) ==
  /\ MayAsk(r)
  /\ \/ Reply(r, "not_found")
     \/ consent /\ Reply(r, "oauth_reconsent_required")
     \/ /\ ~consent
        /\ Await(r, IF kind = "oauth_outlook" THEN "token" ELSE "smtp_host")
        /\ UNCHANGED <<leg, reply, answer>>
  /\ UNCHANGED <<mailbox, append, delivered>>

\* get_valid_access_token, for the append and again for SMTP.  What it raises, a
\* revoked token included, is no DomainError.
TokenAnswered(r) ==
  /\ at[r] \in {"token", "smtp_token"}
  /\ \/ /\ Await(r, IF at[r] = "token" THEN "smtp_host" ELSE "smtp_connect")
        /\ UNCHANGED <<consent, leg, reply, answer>>
     \/ /\ dead /\ consent' = TRUE
        /\ Reply(r, "internal_error")
     \/ /\ Reply(r, "internal_error")
        /\ UNCHANGED consent
  /\ UNCHANGED <<kind, dead, append, delivered>>

SmtpHostResolved(r) ==
  /\ at[r] = "smtp_host"
  /\ \/ /\ Await(r, IF kind = "oauth_outlook" THEN "smtp_token" ELSE "smtp_connect")
        /\ UNCHANGED <<leg, reply, answer>>
     \/ Reply(r, "invalid_host")
  /\ UNCHANGED <<mailbox, append, delivered>>

-----------------------------------------------------------------------------
(* smtp_send_message                                                       *)

\* STARTTLS is a setting of the mailbox.
PhaseEnds(r) ==
  /\ \/ at[r] = "smtp_connect" /\ Await(r, "smtp_starttls")
     \/ at[r] \in {"smtp_connect", "smtp_starttls"} /\ Await(r, "smtp_auth")
     \/ at[r] = "smtp_auth" /\ Await(r, "smtp_data")
  /\ UNCHANGED <<mailbox, leg, reply, append, delivered, answer>>

\* The server takes the letter.  Its answer is another step.
Accept(r) ==
  /\ at[r] = "smtp_data" /\ r \notin delivered
  /\ delivered' = delivered \union {r}
  /\ UNCHANGED <<mailbox, at, clocks, reply, append, answer>>

Quit(r, a) ==
  /\ Await(r, "smtp_quit")
  /\ reply' = [reply EXCEPT ![r] = a]
  /\ UNCHANGED <<mailbox, leg, append, delivered, answer>>

Accepted(r) == at[r] = "smtp_data" /\ r \in delivered /\ Quit(r, "ok")

\* A refusal, a broken connection or a timeout of the phase: SMTPSendFailedError.
PhaseFails(r) == at[r] \in SmtpPhases /\ Quit(r, "smtp_failed")

\* The leg is over; sent, the append follows.
Leave(r) ==
  \/ /\ reply[r] = "ok"
     /\ Await(r, "append_host")
     /\ leg' = [leg EXCEPT ![r] = 0] /\ reply' = [reply EXCEPT ![r] = "none"]
     /\ UNCHANGED answer
  \/ reply[r] # "ok" /\ Reply(r, reply[r])

QuitAnswered(r) ==
  /\ at[r] = "smtp_quit"
  /\ Leave(r)
  /\ UNCHANGED <<mailbox, append, delivered>>

\* An Outlook send suppresses it.  The QUIT of a password send is aiosmtplib.send's
\* own, and may be raised or not.
QuitFails(r) ==
  /\ at[r] = "smtp_quit"
  /\ \/ Leave(r)
     \/ kind = "password" /\ Reply(r, "smtp_failed")
  /\ UNCHANGED <<mailbox, append, delivered>>

-----------------------------------------------------------------------------
(* The append to Sent: the request, then its thread                        *)

\* Mutation of AppendHostResolved: the host check stands before the try.
AppendHostResolvedUncaught(r) ==
  /\ at[r] = "append_host"
  /\ \/ /\ Await(r, "append")
        /\ thread' = [thread EXCEPT ![r] = "login"]
        /\ UNCHANGED <<leg, reply, answer>>
     \/ /\ Reply(r, "invalid_host")
        /\ UNCHANGED thread
  /\ UNCHANGED <<mailbox, folder, copies, delivered>>

AppendHostResolved(r) ==
  /\ at[r] = "append_host"
  /\ \/ /\ Await(r, "append")
        /\ thread' = [thread EXCEPT ![r] = "login"]
        /\ UNCHANGED <<leg, reply, answer>>
     \/ /\ Await(r, "commit")
        /\ UNCHANGED <<leg, reply, thread, answer>>
  /\ UNCHANGED <<mailbox, folder, copies, delivered>>

\* The guard around the thread; the thread runs on.
AppendTimesOut(r) ==
  /\ at[r] = "append"
  /\ Await(r, "commit")
  /\ UNCHANGED <<mailbox, leg, reply, append, delivered, answer>>

ThreadMoves(r, from, to) == thread[r] = from /\ thread' = [thread EXCEPT ![r] = to]

\* The thread's own steps leave the request alone.
request == <<mailbox, at, clocks, reply, delivered, answer>>

ThreadLogsIn(r) == ThreadMoves(r, "login", "append") /\ UNCHANGED <<request, folder, copies>>

\* The server stores the copy; whether its answer arrives is another step.
Store(r) ==
  /\ ThreadMoves(r, "append", "stored")
  /\ copies' = [copies EXCEPT ![r] = @ + 1]
  /\ UNCHANGED <<request, folder>>

\* MailboxAppendError: the next candidate, if there is one.
FolderRefused(r) ==
  /\ IF folder[r] < Folders
     THEN /\ thread[r] = "append" /\ UNCHANGED thread
          /\ folder' = [folder EXCEPT ![r] = @ + 1]
     ELSE ThreadMoves(r, "append", "logout") /\ UNCHANGED folder
  /\ UNCHANGED <<request, copies>>

\* Mutation of AppendAnswered: any error tries the next candidate.
AppendAnsweredRetry(r) ==
  /\ thread[r] = "stored"
  /\ \/ ThreadMoves(r, "stored", "logout") /\ UNCHANGED folder
     \/ /\ folder[r] < Folders /\ thread' = [thread EXCEPT ![r] = "append"]
        /\ folder' = [folder EXCEPT ![r] = @ + 1]
  /\ UNCHANGED <<request, copies>>

\* Answered, or the answer is lost: no MailboxAppendError, and the loop ends too.
AppendAnswered(r) == ThreadMoves(r, "stored", "logout") /\ UNCHANGED <<request, folder, copies>>

\* No login, a broken connection or a timeout of the socket.
ThreadFails(r) ==
  /\ \E s \in {"login", "append"} : ThreadMoves(r, s, "logout")
  /\ UNCHANGED <<request, folder, copies>>

\* Answered or not, after which the request goes on, if it still waits.
LoggedOut(r) ==
  /\ ThreadMoves(r, "logout", "ended")
  /\ IF at[r] = "append" THEN Await(r, "commit") ELSE UNCHANGED <<at, phase>>
  /\ UNCHANGED <<mailbox, leg, reply, delivered, folder, copies, answer>>

\* The end of db.begin() in the handler.  It has nothing to write, but it may fail; the
\* letter is gone.
Committed(r) ==
  /\ at[r] = "commit"
  /\ Reply(r, "ok") \/ Reply(r, "internal_error")
  /\ UNCHANGED <<mailbox, append, delivered>>

-----------------------------------------------------------------------------
(* Time                                                                    *)

Talking(r) == at[r] \in SmtpPhases \union {"smtp_quit"}

TimerDue(r) == Talking(r) /\ phase[r] >= Phase

TimesOut(r) == TimerDue(r) /\ (PhaseFails(r) \/ QuitFails(r))

\* Bound: the clock of the leg stops where the one of a phase must have.
Later(n) == IF n <= Phase THEN n + 1 ELSE n

Tick ==
  /\ \A r \in Request : ~TimerDue(r)
  /\ phase' = [r \in Request |-> IF Talking(r) THEN Later(phase[r]) ELSE 0]
  /\ leg' = [r \in Request |-> IF Talking(r) THEN Later(leg[r]) ELSE 0]
  /\ UNCHANGED <<mailbox, at, reply, append, delivered, answer>>

-----------------------------------------------------------------------------
RequestStep(r) ==
  \/ SendFromMailbox(r) \/ TokenAnswered(r) \/ SmtpHostResolved(r)
  \/ PhaseEnds(r) \/ Accept(r) \/ Accepted(r) \/ PhaseFails(r) \/ QuitAnswered(r) \/ QuitFails(r)
  \/ AppendHostResolved(r) \/ AppendTimesOut(r) \/ Committed(r)

ThreadStep(r) ==
  ThreadLogsIn(r) \/ Store(r) \/ FolderRefused(r) \/ AppendAnswered(r) \/ ThreadFails(r) \/ LoggedOut(r)

Next ==
  \/ \E r \in Request : RequestStep(r) \/ ThreadStep(r) \/ CallerGivesUp(r)
  \/ Revoke \/ ConsentChanges \/ Tick

Spec == Init /\ [][Next]_vars

-----------------------------------------------------------------------------
(* Properties                                                              *)

Answers == {"none", "ok", "not_found", "oauth_reconsent_required", "internal_error",
            "invalid_host", "smtp_failed", "gateway_timeout"}

\* The type invariant of the requests and their threads.
TypeOK ==
  /\ kind \in {"password", "oauth_outlook"} /\ dead \in BOOLEAN /\ consent \in BOOLEAN
  /\ at \in [Request -> {"new", "over"} \union Active]
  /\ phase \in [Request -> 0..Phase] /\ leg \in [Request -> 0..Phase + 1]
  /\ reply \in [Request -> {"none", "ok", "smtp_failed"}]
  /\ thread \in [Request -> {"none", "login", "append", "stored", "logout", "ended"}]
  /\ folder \in [Request -> 1..Folders] /\ copies \in [Request -> Nat]
  /\ delivered \subseteq Request /\ answer \in [Request -> Answers]

\* The answers after which the CRM can repeat the letter without a doubt - 404, 409, 422 -
\* mean that this request has not sent it and never will.  500 is none of them: the COMMIT
\* that fails after the letter went out is answered so.
ClearFailuresSendNothing ==
  \A r \in Request :
    answer[r] \in {"not_found", "oauth_reconsent_required", "invalid_host"}
      => r \notin delivered /\ at[r] = "over"

\* One send leaves one copy in Sent at most, whichever names are tried, whichever answers
\* are lost and however long the thread outlives its request.
OneSentCopy == \A r \in Request : copies[r] <= 1

\* "aiosmtplib applies this single timeout to the whole connect+STARTTLS+AUTH+DATA
\* sequence" (send/service.py:51-52).
OneTimeoutForTheLeg == \A r \in Request : at[r] \in SmtpPhases => leg[r] <= Phase

\* "Raises ... OAuthReconsentRequiredError when an oauth account needs re-consent"
\* (send/service.py:237-239): a request that finds this out says so.
ReconsentIsNamed ==
  [][\A r \in Request :
       at[r] \in {"token", "smtp_token"} /\ at'[r] = "over" /\ answer[r] = "none"
         /\ ~consent /\ consent'
       => answer'[r] = "oauth_reconsent_required"]_vars
=============================================================================
