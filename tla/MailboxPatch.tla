---------------------------- MODULE MailboxPatch ----------------------------
(* PATCH /api/external/mailboxes/{id} of one password mailbox: what two requests  *)
(* that overlap make of its login, its passwords and its flag.  A request loads   *)
(* the row, may probe a login for up to 45 s, and then writes what it loaded      *)
(* (accounts/service.py, update and set_active; external/write_service.py).       *)
(* `Where` stands for address, hosts, ports, TLS and SMTP login, which are        *)
(* written back together.  Deletion and unique addresses are in MailboxDirectory, *)
(* the other status columns and the events in MailboxStatus.                      *)
EXTENDS Naturals

CONSTANTS
  Request, Where, Password, None,
  MaxPatches  \* bound: requests that are made

PatchAssumption == None \notin Where \union Password \union BOOLEAN /\ MaxPatches \in Nat

VARIABLES
  row,      \* the mail_accounts row; smtp = None: the IMAP password serves both
  request,  \* each request
  patches,  \* how many requests were made
  probed,   \* the logins whose probe has passed
  overtaken \* history: requests during which another one wrote the login columns

vars == <<row, request, patches, probed, overtaken>>

Row == [where : Where, imap : Password, smtp : Password \union {None}, active : BOOLEAN]

\* name: only the display name is given, which takes the same path as the others.
Payload ==
  {p \in [where : Where \union {None}, imap : Password \union {None},
          smtp : Password \union {None}, name : BOOLEAN, active : BOOLEAN \union {None}] :
     p.name => p.where = None /\ p.imap = None /\ p.smtp = None}

Login(where, imap, smtp) == [where |-> where, imap |-> imap, smtp |-> smtp]

Given(new, old) == IF new = None THEN old ELSE new

\* What the fetcher and the send path use: without a password of its own SMTP has IMAP's.
Used(r) == Login(r.where, r.imap, Given(r.smtp, r.imap))

\* A mailbox is created after its login was probed.
Init ==
  /\ row \in [where : Where, imap : Password, smtp : Password \union {None}, active : {TRUE}]
  /\ probed = {Used(row)}
  /\ request = [q \in Request |-> None]
  /\ overtaken = {}
  /\ patches = 0

\* Mutation of CredsChanged: a new SMTP password alone is not probed.
CredsChangedImap(p) == p.imap # None

CredsChanged(p) == p.imap # None \/ p.smtp # None

HasAccountFields(p) == p.where # None \/ CredsChanged(p) \/ p.name

SetsActive(p) == p.active # None

Stage(q) == IF request[q] = None THEN "idle" ELSE request[q].stage

Begin(q, p) ==
  /\ Stage(q) = "idle" /\ patches < MaxPatches
  /\ patches' = patches + 1
  /\ HasAccountFields(p) \/ SetsActive(p)
  /\ request' = [request EXCEPT ![q] =
       [stage |-> IF CredsChanged(p) THEN "probe" ELSE "write", loaded |-> row, payload |-> p]]
  /\ overtaken' = overtaken \ {q}
  /\ UNCHANGED <<row, probed>>

\* Mutation of Tried: the stored SMTP password is not looked at.
TriedStoredForgotten(q) ==
  LET p == request[q].payload
      old == request[q].loaded
      imap == Given(p.imap, old.imap) IN
  Login(Given(p.where, old.where), imap, Given(p.smtp, imap))

\* The login the probe tries: what is new, and for the rest what was loaded.
Tried(q) ==
  LET p == request[q].payload
      old == request[q].loaded
      imap == Given(p.imap, old.imap) IN
  Login(Given(p.where, old.where), imap, Given(p.smtp, Given(old.smtp, imap)))

ProbePasses(q) ==
  /\ Stage(q) = "probe"
  /\ probed' = probed \union {Tried(q)}
  /\ request' = [request EXCEPT ![q].stage = "write"]
  /\ UNCHANGED <<row, patches, overtaken>>

\* Also a client that goes away, or a failed statement: nothing is written.
RequestFails(q) ==
  /\ Stage(q) # "idle"
  /\ request' = [request EXCEPT ![q] = None]
  /\ UNCHANGED <<row, patches, probed, overtaken>>

\* update, with the whereabouts it loaded and the passwords it was given; a login
\* that was probed re-enables the mailbox.
Updated(p, old) ==
  IF HasAccountFields(p)
  THEN [row EXCEPT !.where = Given(p.where, old.where), !.imap = Given(p.imap, @),
                   !.smtp = Given(p.smtp, @), !.active = @ \/ CredsChanged(p)]
  ELSE row

\* update and then set_active, in one transaction: another writer waits for the COMMIT.
Write(q) ==
  LET p == request[q].payload
      r == Updated(p, request[q].loaded) IN
  /\ Stage(q) = "write"
  /\ row' = [r EXCEPT !.active = Given(p.active, @)]
  /\ request' = [request EXCEPT ![q] = None]
  /\ overtaken' = IF HasAccountFields(p) THEN Request \ {q} ELSE overtaken
  /\ UNCHANGED <<patches, probed>>

\* disable_and_stamp_alert of the worker.
Disable ==
  /\ row.active
  /\ row' = [row EXCEPT !.active = FALSE]
  /\ UNCHANGED <<request, patches, probed, overtaken>>

Next ==
  \/ \E q \in Request : ProbePasses(q) \/ RequestFails(q) \/ Write(q) \/ \E p \in Payload : Begin(q, p)
  \/ Disable

Spec == Init /\ [][Next]_vars
-----------------------------------------------------------------------------
(* Properties                                                              *)

\* The types of the state; the IMAP password of a password mailbox is never NULL
\* (ck_mail_accounts_password_creds).
TypeOK ==
  /\ row \in Row
  /\ \A q \in Request :
       Stage(q) = "idle" \/ request[q] \in [stage : {"probe", "write"}, loaded : Row, payload : Payload]
  /\ probed \subseteq [where : Where, imap : Password, smtp : Password]
  /\ overtaken \subseteq Request
  /\ patches \in 0..MaxPatches

\* However requests overlap, no password is stored that no probe has accepted: a PATCH
\* with only an SMTP password probes too, and one without passwords writes none back.
PasswordsWereProbed ==
  /\ \E l \in probed : l.imap = row.imap
  /\ row.smtp # None => \E l \in probed : l.smtp = row.smtp

Commits(q) == Stage(q) = "write" /\ row' # row /\ Stage(q)' = "idle"

Reenables(q) == Commits(q) /\ CredsChanged(request[q].payload)

\* A PATCH with a password that nobody overtook leaves the very login it has probed: the
\* stored passwords it fell back on for the probe are those the row still has.
UnrivalledPatchIsProbed ==
  [][\A q \in Request : Reenables(q) /\ q \notin overtaken => Used(row') \in probed]_vars

\* docs/05-modules.md:1057: no UPDATE without a successful test of IMAP and SMTP.
UpdatesAreTested == Used(row) \in probed

\* accounts/service.py:712: the flag is flipped only when the credentials were re-validated.
ReenabledIsProbed ==
  [][\A q \in Request : Reenables(q) => Used(row') \in probed]_vars

\* docs/04-api-contracts.md:1555: a field that is not in the request is not changed.
AbsentFieldsStay ==
  [][\A q \in Request : Commits(q) /\ request[q].payload.where = None
       => row'.where = row.where]_vars
=============================================================================
