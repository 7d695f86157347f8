-------------------------- MODULE MailboxDirectory --------------------------
(***************************************************************************)
(* Which mailboxes exist, and how they come to: POST, PATCH and DELETE of  *)
(* the external API (ADR-0039) and the Outlook consent flow (ADR-0045),    *)
(* whose callback creates a mailbox or relinks one and then tells the CRM. *)
(* Requests overlap: each looks an address up, then waits for a probe or   *)
(* for Microsoft, then writes.                                             *)
(*                                                                         *)
(* All rows belong to crm-service.  A write waits for an open transaction  *)
(* that holds its row or its unique key, so that writing and committing is *)
(* one step.  A refresh token is named after the state it was obtained     *)
(* with.                                                                   *)
(***************************************************************************)
EXTENDS Integers, FiniteSets

CONSTANTS
  Request,       \* API requests that may be in service at once
  State,         \* values of the OAuth state parameter
  Address,       \* addresses, letter case apart
  Spelling,      \* ways to write one
  Lower,         \* the one in lower case
  Attempts,      \* _CONNECT_RETRY_ATTEMPTS
  None,          \* no state, no address, no token
  MaxId          \* bound: ids drawn from mail_accounts_id_seq

ASSUME DirectoryAssumption ==
  /\ Lower \in Spelling
  /\ Attempts \in Nat \ {0}
  /\ None \notin State \union Address
  /\ MaxId \in Nat

VARIABLES
  rows,     \* mail_accounts
  nextId,   \* mail_accounts_id_seq
  minted,   \* oauth_state:{state} in Redis: unused, fresh, spent or expired
  consent,  \* the address the user consented for, on the page opened with a state
  asked,    \* exchanges of the code of a state that reached Microsoft
  told,     \* POSTs about a state that the CRM has processed
  request   \* each request

vars == <<rows, nextId, minted, consent, asked, told, request>>

Email == [address : Address, spelling : Spelling]

Idle == [stage |-> "idle", id |-> 0, email |-> None, state |-> None, tries |-> 0]

Init ==
  /\ rows = {} /\ nextId = 1
  /\ minted = [s \in State |-> "unused"]
  /\ consent = [s \in State |-> None]
  /\ asked = [s \in State |-> 0]
  /\ told = [s \in State |-> 0]
  /\ request = [q \in Request |-> Idle]

Become(q, fields) == request' = [request EXCEPT ![q] = fields]

End(q) == Become(q, Idle)

\* find_by_user_email ignores letter case.
Found(address) == {r \in rows : r.email.address = address}

\* uq_mail_accounts_user_email does not.
Taken(id, email) == \E r \in rows : r.email = email /\ r.id # id

\* Requests that may still draw an id; the bound is on those that start.
Drawing == {q \in Request : request[q].stage \in {"create", "exchange", "lookup", "insert"}}

RoomForOne == nextId + Cardinality(Drawing) <= MaxId

NewRow(email, auth, token) == [id |-> nextId, email |-> email, auth |-> auth, token |-> token]

-----------------------------------------------------------------------------
(* POST /mailboxes                                                         *)

\* An address that is found ends the request at once with 409; two of them, with 500.
BeginCreate(q, email) ==
  /\ request[q] = Idle /\ RoomForOne /\ Found(email.address) = {}
  /\ Become(q, [Idle EXCEPT !.stage = "create", !.email = email])
  /\ UNCHANGED <<rows, nextId, minted, consent, asked, told>>

\* The probe of IMAP and SMTP has ended well; a unique violation is a 409.
InsertMailbox(q) ==
  LET email == request[q].email IN
  /\ request[q].stage = "create"
  /\ nextId' = nextId + 1
  /\ rows' = IF Taken(nextId, email) THEN rows
             ELSE rows \union {NewRow(email, "password", None)}
  /\ End(q)
  /\ UNCHANGED <<minted, consent, asked, told>>

ProbeFails(q) ==
  /\ request[q].stage \in {"create", "patch"}
  /\ End(q)
  /\ UNCHANGED <<rows, nextId, minted, consent, asked, told>>

-----------------------------------------------------------------------------
(* PATCH and DELETE                                                        *)

\* Mutation of Editable: the branch for oauth_outlook rows is missing.
EditableAny(r) == TRUE

\* Of an Outlook row only the display name may be changed.
Editable(r) == r.auth = "password"

\* The request loads the row; what it will write is the new address or the loaded one.
BeginPatch(q, r, email) ==
  /\ request[q] = Idle /\ Editable(r)
  /\ Become(q, [Idle EXCEPT !.stage = "patch", !.id = r.id, !.email = email])
  /\ UNCHANGED <<rows, nextId, minted, consent, asked, told>>

\* The UPDATE names the row by its id; a row deleted meanwhile ends in 404, a unique
\* violation in 500, both rolled back.
CommitPatch(q) ==
  LET id == request[q].id
      email == request[q].email IN
  /\ request[q].stage = "patch"
  /\ rows' = IF Taken(id, email) THEN rows
             ELSE {IF r.id = id THEN [r EXCEPT !.email = email] ELSE r : r \in rows}
  /\ End(q)
  /\ UNCHANGED <<nextId, minted, consent, asked, told>>

DeleteMailbox(r) ==
  /\ rows' = rows \ {r}
  /\ UNCHANGED <<nextId, minted, consent, asked, told, request>>

-----------------------------------------------------------------------------
(* The consent flow                                                        *)

\* POST /mailboxes/oauth/authorize
Authorize(s) ==
  /\ minted[s] = "unused"
  /\ minted' = [minted EXCEPT ![s] = "fresh"]
  /\ UNCHANGED <<rows, nextId, consent, asked, told, request>>

StateExpires(s) ==
  /\ minted[s] = "fresh"
  /\ minted' = [minted EXCEPT ![s] = "expired"]
  /\ UNCHANGED <<rows, nextId, consent, asked, told, request>>

\* The user signs in; Microsoft redirects the browser to the callback with a code.
Consent(s, address) ==
  /\ minted[s] # "unused" /\ consent[s] = None
  /\ consent' = [consent EXCEPT ![s] = address]
  /\ UNCHANGED <<rows, nextId, minted, asked, told, request>>

\* Mutation of ConsumeState: the key is read and left to expire.
ConsumeStateReads(q, s) ==
  /\ request[q] = Idle /\ RoomForOne /\ consent[s] # None /\ minted[s] = "fresh"
  /\ Become(q, [Idle EXCEPT !.stage = "exchange", !.state = s])
  /\ UNCHANGED <<rows, nextId, minted, consent, asked, told>>

\* The browser may send the callback again, at any time; GET and DEL are one
\* transaction, and a callback that finds no state ends with the error page.
ConsumeState(q, s) ==
  /\ request[q] = Idle /\ RoomForOne /\ consent[s] # None /\ minted[s] = "fresh"
  /\ minted' = [minted EXCEPT ![s] = "spent"]
  /\ Become(q, [Idle EXCEPT !.stage = "exchange", !.state = s])
  /\ UNCHANGED <<rows, nextId, consent, asked, told>>

\* Microsoft takes a code once.  The address comes from the id token, in lower case.
Exchange(q) ==
  LET s == request[q].state IN
  /\ request[q].stage = "exchange"
  /\ asked' = [asked EXCEPT ![s] = @ + 1]
  /\ IF asked[s] = 0
     THEN Become(q, [request[q] EXCEPT !.stage = "lookup",
                       !.email = [address |-> consent[s], spelling |-> Lower]])
     ELSE End(q)
  /\ UNCHANGED <<rows, nextId, minted, consent, told>>

\* An error status, no refresh token, no address in the id token: the error page.
ExchangeFails(q) ==
  /\ request[q].stage = "exchange"
  /\ asked' = [asked EXCEPT ![request[q].state] = @ + 1]
  /\ End(q)
  /\ UNCHANGED <<rows, nextId, minted, consent, told>>

\* Two rows for the address raise, and the callback ends with 500.
Lookup(q) ==
  LET found == Found(request[q].email.address) IN
  /\ request[q].stage = "lookup"
  /\ \/ found = {} /\ Become(q, [request[q] EXCEPT !.stage = "insert"])
     \/ \E r \in found :
          found = {r} /\ Become(q, [request[q] EXCEPT !.stage = "relink", !.id = r.id])
     \/ Cardinality(found) > 1 /\ End(q)
  /\ UNCHANGED <<rows, nextId, minted, consent, asked, told>>

\* Nobody catches the unique violation: 500.
InsertOutlook(q) ==
  LET now == request[q] IN
  /\ now.stage = "insert"
  /\ nextId' = nextId + 1
  /\ IF Taken(nextId, now.email)
     THEN End(q) /\ UNCHANGED rows
     ELSE /\ rows' = rows \union {NewRow(now.email, "outlook", now.state)}
          /\ Become(q, [now EXCEPT !.stage = "notify", !.id = nextId])
  /\ UNCHANGED <<minted, consent, asked, told>>

\* The tokens go to the row found before, whatever its auth_type.  If it was deleted
\* meanwhile the UPDATE touches nothing, the session still has the loaded object, and
\* the request goes on with it.
Relink(q) ==
  LET now == request[q] IN
  /\ now.stage = "relink"
  /\ rows' = {IF r.id = now.id THEN [r EXCEPT !.token = now.state] ELSE r : r \in rows}
  /\ Become(q, [now EXCEPT !.stage = "notify"])
  /\ UNCHANGED <<nextId, minted, consent, asked, told>>

-----------------------------------------------------------------------------
(* notify_crm_oauth_ingest                                                 *)

\* The connection was never opened: another attempt, unless it was the last.
ConnectFails(q) ==
  /\ request[q].stage = "notify"
  /\ IF request[q].tries + 1 < Attempts
     THEN Become(q, [request[q] EXCEPT !.tries = @ + 1])
     ELSE End(q)
  /\ UNCHANGED <<rows, nextId, minted, consent, asked, told>>

Tell(s) == told' = [told EXCEPT ![s] = @ + 1]

\* Mutation of Notified: a lost answer is tried again like a lost connection.
NotifiedAgain(q) ==
  /\ request[q].stage = "notify"
  /\ Tell(request[q].state)
  /\ IF request[q].tries + 1 < Attempts
     THEN Become(q, [request[q] EXCEPT !.tries = @ + 1])
     ELSE End(q)
  /\ UNCHANGED <<rows, nextId, minted, consent, asked>>

\* The CRM stores the binding; whether its answer arrives changes nothing here.
Notified(q) ==
  /\ request[q].stage = "notify"
  /\ Tell(request[q].state)
  /\ End(q)
  /\ UNCHANGED <<rows, nextId, minted, consent, asked>>

\* Refused, lost before it was processed, or the channel is off: nothing is repeated.
NotNotified(q) ==
  /\ request[q].stage = "notify"
  /\ End(q)
  /\ UNCHANGED <<rows, nextId, minted, consent, asked, told>>

-----------------------------------------------------------------------------

\* The process dies, the client goes away, or a statement fails: the transaction is
\* rolled back, or was committed before.
RequestFails(q) ==
  /\ request[q] # Idle
  /\ End(q)
  /\ UNCHANGED <<rows, nextId, minted, consent, asked, told>>

CallbackStep(q) ==
  \/ Exchange(q) \/ Lookup(q) \/ InsertOutlook(q) \/ Relink(q)
  \/ ConnectFails(q) \/ Notified(q) \/ NotNotified(q)

RequestStep(q) ==
  InsertMailbox(q) \/ CommitPatch(q) \/ ProbeFails(q) \/ CallbackStep(q)

RequestBegins(q) ==
  \/ \E email \in Email : BeginCreate(q, email)
  \/ \E r \in rows, email \in Email : BeginPatch(q, r, email)
  \/ \E s \in State : ConsumeState(q, s)

Next ==
  \/ \E q \in Request :
       RequestBegins(q) \/ RequestStep(q) \/ ExchangeFails(q) \/ RequestFails(q)
  \/ \E r \in rows : DeleteMailbox(r)
  \/ \E s \in State :
       Authorize(s) \/ StateExpires(s) \/ \E address \in Address : Consent(s, address)

Spec == Init /\ [][Next]_vars
-----------------------------------------------------------------------------
(* Properties                                                              *)

Row == [id : 1..(nextId - 1), email : Email, auth : {"password", "outlook"},
        token : State \union {None}]

Stages == {"idle", "create", "patch", "exchange", "lookup", "insert", "relink", "notify"}

\* The types of the state: rows drawn from the sequence, requests with the fields of
\* their stage (external/router.py, write_service.py and oauth/service.py).
TypeOK ==
  /\ rows \subseteq Row /\ nextId \in Nat \ {0}
  /\ minted \in [State -> {"unused", "fresh", "spent", "expired"}]
  /\ consent \in [State -> Address \union {None}]
  /\ asked \in [State -> Nat] /\ told \in [State -> Nat]
  /\ request \in [Request -> [stage : Stages, id : 0..(nextId - 1),
                              email : Email \union {None}, state : State \union {None},
                              tries : 0..(Attempts - 1)]]

\* An address written in one way belongs to one mailbox, although every request that
\* gives a mailbox its address has looked long before it writes, and a callback, a
\* creation and a change of address may all have seen it free.
OneRowPerEmail == \A r1, r2 \in rows : r1.email = r2.email => r1 = r2

\* accounts/service.py:526 calls the address globally unique.
OneRowPerAddress == \A r1, r2 \in rows : r1.email.address = r2.email.address => r1 = r2

\* An Outlook mailbox holds the refresh token of a consent given for its own address:
\* the callback looked the address up before it wrote, and between the two the row
\* may have been changed, deleted or created by another request.
TokenMatchesAddress ==
  \A r \in rows : r.auth = "outlook" => r.token \in State /\ consent[r.token] = r.email.address

\* However often the browser repeats the callback, the code of a consent is sent to
\* Microsoft once: the state is consumed atomically (a code sent twice makes Microsoft
\* revoke what it gave for it).
CodeSentOnce == \A s \in State : asked[s] <= 1

\* After a relink the row is there: oauth/service.py:387 asserts it before the CRM is told.
RelinkedRowExists ==
  [][\A q \in Request : request[q].stage = "relink" /\ request'[q].stage = "notify"
       => \E r \in rows' : r.id = request[q].id]_vars

\* The CRM processes one binding per consent: the POST is repeated only while it
\* cannot have arrived (crm_ingest.py, "anti-double-write").
BindingToldOnce == \A s \in State : told[s] <= 1
=============================================================================
