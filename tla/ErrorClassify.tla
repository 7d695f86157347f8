--------------------------- MODULE ErrorClassify ---------------------------
(***************************************************************************)
(* Which sync errors are retried, which are transient, which condemn a     *)
(* mailbox, and what the operator is shown (ADR-0026 section 1, ADR-0028). *)
(* An error is the kind of the exception and the markers its text carries; *)
(* a marker stands for one row of the substring tables, and the tables of  *)
(* the classifier and of the fetcher share the rows they share.            *)
(***************************************************************************)
EXTENDS Integers

CONSTANT Error   \* the errors considered: records [kind, text]

Kind == {"timeout", "gaierror", "connection", "ssl", "unreachable", "imap", "decrypt",
         "other"}

Marker ==
  {"resolve",         \* rule 2
   "again",           \* rule 3: too many, try again, temporarily
   "rate",            \* rule 3: simultaneous, unavailable, rate, throttl ...
   "not connected",   \* rule 3b
   "timed out",       \* rule 4
   "network",         \* rule 5
   "oauth token",     \* rule 7: oauth_token_error, oauth_token_unexpected
   "oauth code",      \* rule 7: 5xx, 429, token_network, oauth_exchange_failed ...
   "login failed",    \* rules 7b and 8: login failed, authenticationfailed
   "credentials",     \* rule 8: invalid credentials
   "blocked",         \* rule 8: account is disabled, account has been blocked
   "alert",           \* rule 8: [alert]
   "invalid_grant",   \* rule 8
   "undecryptable",   \* rule 9: invalidtag, decrypt_fail
   "auth"}            \* any other word of _AUTH_MARKER_SUBSTRINGS

ASSUME ErrorAssumption == Error \subseteq [kind : Kind, text : SUBSET Marker]

Has(e, markers) == e.text \intersect markers # {}

-----------------------------------------------------------------------------
(* error_classify.py; oauth: auth_type = "oauth_outlook", switch on        *)

\* Rule 7.
OAuthTransient(e) == Has(e, {"oauth token"}) /\ Has(e, {"oauth code", "network", "timed out"})

\* Rule 7b: the refresh proved the token valid before IMAP was reached.
OAuthLoginFlake(e, oauth) ==
  oauth /\ ~ Has(e, {"invalid_grant"}) /\ Has(e, {"login failed"})

\* Mutation of MatchesTransient: the texts of rule 3 are left to rule 8.
MatchesTransientLate(e, oauth) ==
  \/ e.kind \in {"timeout", "gaierror", "connection", "ssl", "unreachable"}
  \/ Has(e, {"resolve", "not connected", "timed out", "network"})
  \/ OAuthTransient(e)
  \/ OAuthLoginFlake(e, oauth)

MatchesTransient(e, oauth) ==
  \/ e.kind \in {"timeout", "gaierror", "connection", "ssl", "unreachable"}
  \/ Has(e, {"resolve", "again", "rate", "not connected", "timed out", "network"})
  \/ OAuthTransient(e)
  \/ OAuthLoginFlake(e, oauth)

\* Rules 8 and 9.
RejectsAuth(e) ==
  Has(e, {"login failed", "credentials", "blocked", "alert", "invalid_grant"})

Undecryptable(e) == e.kind = "decrypt" \/ Has(e, {"undecryptable"})

MatchesPermanent(e) == RejectsAuth(e) \/ Undecryptable(e)

\* The whole transient block before the permanent one; the rest fails open.
Classify(e, oauth) ==
  IF ~ MatchesTransient(e, oauth) /\ MatchesPermanent(e) THEN "permanent" ELSE "transient"

IsExplicitPermanent(e, oauth) == ~ MatchesTransient(e, oauth) /\ MatchesPermanent(e)

\* The rules in the order in which error_prefix tries them.
Rules(e, oauth) ==
  <<e.kind = "timeout",
    e.kind = "gaierror" \/ Has(e, {"resolve"}),
    Has(e, {"again", "rate"}),
    Has(e, {"not connected"}),
    Has(e, {"timed out"}),
    e.kind \in {"connection", "ssl"} \/ Has(e, {"network"}),
    e.kind = "unreachable",
    OAuthTransient(e),
    OAuthLoginFlake(e, oauth),
    RejectsAuth(e),
    Undecryptable(e),
    TRUE>>

FirstRule(e, oauth) ==
  CHOOSE i \in 1..12 : Rules(e, oauth)[i] /\ \A j \in 1..(i - 1) : ~ Rules(e, oauth)[j]

\* What last_sync_error starts with; a rate limit that smells of a login answer
\* keeps the prefix of one.
Prefix(e, oauth) ==
  IF FirstRule(e, oauth) = 3 /\ Has(e, {"auth", "login failed", "credentials"})
  THEN "auth_failed"
  ELSE <<"timeout", "invalid_host", "network", "network", "timeout", "network", "network",
         "oauth_token_error", "network", "auth_failed", "decrypt_fail",
         "error">>[FirstRule(e, oauth)]

-----------------------------------------------------------------------------
(* imap_fetcher.py: what the login retries within one sync                 *)

RetryableConnect(e) == e.kind \in {"gaierror", "connection", "unreachable"}

\* Mutation of RetryableImap: the permanent markers are not looked at first.
RetryableImapGreedy(e, oauth) ==
  /\ e.kind = "imap"
  /\ Has(e, {"not connected", "again", "login failed"})

RetryableImap(e, oauth) ==
  /\ e.kind = "imap"
  /\ ~ Has(e, {"credentials", "blocked"} \union IF oauth THEN {} ELSE {"login failed"})
  /\ Has(e, {"not connected", "again"} \union IF oauth THEN {"login failed"} ELSE {})

Retryable(e, oauth) == RetryableConnect(e) \/ RetryableImap(e, oauth)

-----------------------------------------------------------------------------
(* What ImapSync states of every error a login may fail with               *)

\* classify, by blocks, and the first rule that matches agree on e; a permanent
\* verdict is an explicit one, so that consecutive_failures never decides; what is
\* shown as auth_failed condemns the mailbox or is a rate limit.
FollowsTable(e, oauth) ==
  /\ Classify(e, oauth) = "permanent" <=> FirstRule(e, oauth) \in {10, 11}
  /\ IsExplicitPermanent(e, oauth) <=> Classify(e, oauth) = "permanent"
  /\ Prefix(e, oauth) = "auth_failed" =>
       Classify(e, oauth) = "permanent" \/ Has(e, {"again", "rate"})

AllFollowTable == \A e \in Error, oauth \in BOOLEAN : FollowsTable(e, oauth)

\* Nothing that is worth a retry condemns.  invalid_grant is left out: no IMAP answer
\* carries it.
RetriesAgree ==
  \A e \in Error, oauth \in BOOLEAN :
    Retryable(e, oauth) /\ ~ Has(e, {"invalid_grant"}) => Classify(e, oauth) = "transient"
=============================================================================
