----------------------- MODULE MailboxDirectoryProofs -----------------------
(***************************************************************************)
(* Proofs about MailboxDirectory for any number of requests, states,       *)
(* addresses and spellings: type correctness, and its four safety          *)
(* properties.                                                             *)
(*                                                                         *)
(* The argument: an id names one row for ever and an Outlook row keeps its *)
(* address, so what a request found out about a row before it waited still *)
(* holds when it writes by id; and a state lets one callback through, so   *)
(* that whatever is counted per state happens in one request.              *)
(***************************************************************************)
EXTENDS MailboxDirectory, TLAPS

\* The stages of a callback.
Flow == {"exchange", "lookup", "insert", "relink", "notify"}

RequestRecord ==
  [stage : Stages, id : 0..(nextId - 1), email : Email \union {None},
   state : State \union {None}, tries : 0..(Attempts - 1)]

\* The rows: an id names one, a spelling names one, tokens are of the right address.
RowsInv(rs, con) ==
  /\ \A r1, r2 \in rs : r1.id = r2.id => r1 = r2
  /\ \A r1, r2 \in rs : r1.email = r2.email => r1 = r2
  /\ \A r \in rs : r.auth = "outlook" => r.token \in State /\ con[r.token] = r.email.address

\* What a request knows, and still holds when it writes.
Knows(f, rs, con, min, ask, tol) ==
  /\ f.stage \in {"create", "patch"} => f.email \in Email
  /\ f.stage \in Flow =>
       f.state \in State /\ con[f.state] # None /\ min[f.state] = "spent" /\ tol[f.state] = 0
  /\ f.stage = "exchange" => ask[f.state] = 0
  /\ f.stage \in {"lookup", "insert", "relink"} =>
       f.email = [address |-> con[f.state], spelling |-> Lower]
  /\ f.stage = "patch" => \A r \in rs : r.id = f.id => r.auth = "password"
  /\ f.stage = "relink" =>
       \A r \in rs : r.id = f.id /\ r.auth = "outlook" => r.email.address = f.email.address

\* A state has let one callback through at most.
Apart(req) ==
  \A q, p \in Request :
    req[q].stage \in Flow /\ req[p].stage \in Flow /\ req[q].state = req[p].state => q = p

\* Nothing is counted of a state before it is spent, and nothing twice.
Once(min, ask, tol) ==
  \A s \in State : /\ min[s] # "spent" => ask[s] = 0 /\ tol[s] = 0
                   /\ ask[s] <= 1 /\ tol[s] <= 1

IInv ==
  /\ TypeOK
  /\ RowsInv(rows, consent)
  /\ \A q \in Request : Knows(request[q], rows, consent, minted, asked, told)
  /\ Apart(request)
  /\ Once(minted, asked, told)

-----------------------------------------------------------------------------
(* Type correctness                                                        *)

LEMMA IdleType == nextId \in Nat \ {0} => Idle \in RequestRecord
BY DirectoryAssumption DEF Idle, RequestRecord, Stages

LEMMA BecomeType ==
  ASSUME request \in [Request -> RequestRecord], NEW q \in Request, NEW f \in RequestRecord,
         Become(q, f)
  PROVE  /\ request' \in [Request -> RequestRecord] /\ request'[q] = f
         /\ \A p \in Request : p # q => request'[p] = request[p]
BY DEF Become

LEMMA TypeParts ==
  TypeOK <=> /\ rows \subseteq Row /\ nextId \in Nat \ {0}
             /\ minted \in [State -> {"unused", "fresh", "spent", "expired"}]
             /\ consent \in [State -> Address \union {None}]
             /\ asked \in [State -> Nat] /\ told \in [State -> Nat]
             /\ request \in [Request -> RequestRecord]
BY DEF TypeOK, RequestRecord

\* More ids only widen the types.
LEMMA IdsGrow ==
  ASSUME nextId \in Nat \ {0}, nextId' = nextId \/ nextId' = nextId + 1
  PROVE  /\ Row \subseteq Row' /\ RequestRecord \subseteq RequestRecord'
         /\ nextId' \in Nat \ {0}
<1>1. 1..(nextId - 1) \subseteq 1..(nextId' - 1) /\ 0..(nextId - 1) \subseteq 0..(nextId' - 1)
  OBVIOUS
<1>2. QED BY <1>1 DEF Row, RequestRecord

\* A step that writes one request and leaves the table as it is.
LEMMA QuietType ==
  ASSUME TypeOK, NEW q \in Request, NEW f \in RequestRecord, Become(q, f),
         UNCHANGED <<rows, nextId, consent>>,
         minted' \in [State -> {"unused", "fresh", "spent", "expired"}],
         asked' \in [State -> Nat], told' \in [State -> Nat]
  PROVE  TypeOK'
<1>1. UNCHANGED <<Row, RequestRecord>>
  BY DEF Row, RequestRecord
<1>2. request' \in [Request -> RequestRecord]
  BY BecomeType, TypeParts
<1>3. QED BY <1>1, <1>2 DEF TypeOK, RequestRecord

LEMMA CountType ==
  ASSUME NEW f \in [State -> Nat], NEW s \in State
  PROVE  [f EXCEPT ![s] = @ + 1] \in [State -> Nat]
OBVIOUS

\* The row a request inserts.
LEMMA InsertType ==
  ASSUME TypeOK, nextId' = nextId + 1, NEW email \in Email, NEW auth \in {"password", "outlook"},
         NEW token \in State \union {None},
         rows' = rows \/ rows' = rows \union {NewRow(email, auth, token)}
  PROVE  rows' \subseteq Row'
<1>1. Row \subseteq Row' /\ rows \subseteq Row
  BY IdsGrow, TypeParts
<1>2. nextId \in 1..(nextId' - 1)
  BY DEF TypeOK
<1>3. NewRow(email, auth, token) \in Row'
  BY <1>2 DEF NewRow, Row, Email
<1>4. QED BY <1>1, <1>3

LEMMA TypeStep == IInv /\ [Next]_vars => TypeOK'
<1> SUFFICES ASSUME IInv, [Next]_vars PROVE TypeOK'
  OBVIOUS
<1>t. /\ TypeOK /\ rows \subseteq Row /\ nextId \in Nat \ {0}
      /\ minted \in [State -> {"unused", "fresh", "spent", "expired"}]
      /\ consent \in [State -> Address \union {None}]
      /\ asked \in [State -> Nat] /\ told \in [State -> Nat]
      /\ request \in [Request -> RequestRecord]
      /\ Idle \in RequestRecord
      /\ \A q \in Request : Knows(request[q], rows, consent, minted, asked, told)
  BY IdleType, TypeParts DEF IInv
<1>s. \A stage \in Stages : \A q \in Request :
        [request[q] EXCEPT !.stage = stage] \in RequestRecord
  BY <1>t DEF RequestRecord
<1>1. CASE UNCHANGED vars
  BY <1>1, <1>t DEF vars, TypeOK, Row
<1>2. ASSUME NEW q \in Request, NEW email \in Email, BeginCreate(q, email) PROVE TypeOK'
  <2>1. [Idle EXCEPT !.stage = "create", !.email = email] \in RequestRecord
    BY <1>t DEF RequestRecord, Stages
  <2>2. QED BY <1>2, <1>t, <2>1, QuietType DEF BeginCreate
<1>3. ASSUME NEW q \in Request, NEW r \in rows, NEW email \in Email, BeginPatch(q, r, email)
      PROVE  TypeOK'
  <2>1. r.id \in 0..(nextId - 1)
    BY <1>t DEF Row
  <2>2. [Idle EXCEPT !.stage = "patch", !.id = r.id, !.email = email] \in RequestRecord
    BY <1>t, <2>1 DEF RequestRecord, Stages
  <2>3. QED BY <1>3, <1>t, <2>2, QuietType DEF BeginPatch
<1>4. ASSUME NEW q \in Request, NEW s \in State, ConsumeState(q, s) PROVE TypeOK'
  <2>1. [Idle EXCEPT !.stage = "exchange", !.state = s] \in RequestRecord
    BY <1>t DEF RequestRecord, Stages
  <2>2. minted' \in [State -> {"unused", "fresh", "spent", "expired"}]
    BY <1>4, <1>t DEF ConsumeState
  <2>3. QED BY <1>4, <1>t, <2>1, <2>2, QuietType DEF ConsumeState
<1>5. ASSUME NEW q \in Request, InsertMailbox(q) PROVE TypeOK'
  <2> DEFINE email == request[q].email
  <2>1. email \in Email /\ nextId' = nextId + 1
    BY <1>5, <1>t DEF InsertMailbox, Knows
  <2>2. rows' \subseteq Row'
    BY <1>5, <1>t, <2>1, InsertType DEF InsertMailbox
  <2>3. RequestRecord \subseteq RequestRecord' /\ nextId' \in Nat \ {0}
    BY <1>t, <2>1, IdsGrow
  <2>4. request' \in [Request -> RequestRecord']
    BY <1>5, <1>t, <2>3 DEF InsertMailbox, End, Become
  <2>5. QED BY <1>5, <1>t, <2>2, <2>3, <2>4 DEF InsertMailbox, TypeOK, RequestRecord
<1>6. ASSUME NEW q \in Request, CommitPatch(q) PROVE TypeOK'
  <2>1. request[q].email \in Email
    BY <1>6, <1>t DEF CommitPatch, Knows
  <2>2. \A r \in rows : [r EXCEPT !.email = request[q].email] \in Row
    BY <1>t, <2>1 DEF Row
  <2>3. rows' \subseteq Row
    BY <1>6, <1>t, <2>2 DEF CommitPatch
  <2>4. UNCHANGED <<Row, RequestRecord>>
    BY <1>6 DEF CommitPatch, Row, RequestRecord
  <2>5. request' \in [Request -> RequestRecord]
    BY <1>6, <1>t, BecomeType DEF CommitPatch, End
  <2>6. QED BY <1>6, <1>t, <2>3, <2>4, <2>5 DEF CommitPatch, TypeOK, RequestRecord
<1>7. ASSUME NEW q \in Request, ProbeFails(q) \/ NotNotified(q) \/ RequestFails(q) PROVE TypeOK'
  BY <1>7, <1>t, QuietType DEF ProbeFails, NotNotified, RequestFails, End
<1>8. ASSUME NEW q \in Request, Exchange(q) PROVE TypeOK'
  <2> DEFINE s == request[q].state
             email == [address |-> consent[s], spelling |-> Lower]
  <2>1. s \in State /\ consent[s] \in Address
    BY <1>8, <1>t DEF Exchange, Knows, Flow
  <2>2. email \in Email
    BY <2>1, DirectoryAssumption DEF Email
  <2>3. [request[q] EXCEPT !.stage = "lookup", !.email = email] \in RequestRecord
    BY <1>t, <2>2 DEF RequestRecord, Stages
  <2>4. asked' \in [State -> Nat]
    BY <1>8, <1>t, <2>1, CountType DEF Exchange
  <2>5. QED BY <1>8, <1>t, <2>3, <2>4, QuietType DEF Exchange, End
<1>9. ASSUME NEW q \in Request, ExchangeFails(q) PROVE TypeOK'
  <2>1. request[q].state \in State
    BY <1>9, <1>t DEF ExchangeFails, Knows, Flow
  <2>2. asked' \in [State -> Nat]
    BY <1>9, <1>t, <2>1, CountType DEF ExchangeFails
  <2>3. QED BY <1>9, <1>t, <2>2, QuietType DEF ExchangeFails, End
<1>10. ASSUME NEW q \in Request, Lookup(q) PROVE TypeOK'
  <2>1. [request[q] EXCEPT !.stage = "insert"] \in RequestRecord
    BY <1>s DEF Stages
  <2>2. \A r \in rows : [request[q] EXCEPT !.stage = "relink", !.id = r.id] \in RequestRecord
    <3>1. \A r \in rows : r.id \in 0..(nextId - 1)
      BY <1>t DEF Row
    <3>2. QED BY <1>t, <3>1 DEF RequestRecord, Stages
  <2>3. Found(request[q].email.address) \subseteq rows
    BY DEF Found
  <2>4. \E f \in RequestRecord : Become(q, f)
    BY <1>10, <1>t, <2>1, <2>2, <2>3 DEF Lookup, End
  <2>5. QED BY <1>10, <1>t, <2>4, QuietType DEF Lookup
<1>11. ASSUME NEW q \in Request, InsertOutlook(q) PROVE TypeOK'
  <2> DEFINE now == request[q]
  <2>1. now.email \in Email /\ now.state \in State /\ nextId' = nextId + 1
    <3>1. now.state \in State /\ consent[now.state] \in Address
      BY <1>11, <1>t DEF InsertOutlook, Knows, Flow
    <3>2. now.email = [address |-> consent[now.state], spelling |-> Lower]
      BY <1>11, <1>t DEF InsertOutlook, Knows
    <3>3. QED BY <1>11, <3>1, <3>2, DirectoryAssumption DEF InsertOutlook, Email
  <2>2. rows' \subseteq Row'
    BY <1>11, <1>t, <2>1, InsertType DEF InsertOutlook
  <2>3. RequestRecord \subseteq RequestRecord' /\ nextId' \in Nat \ {0}
    BY <1>t, <2>1, IdsGrow
  <2>4. request' \in [Request -> RequestRecord']
    <3>1. [now EXCEPT !.stage = "notify", !.id = nextId] \in RequestRecord'
      <4>1. nextId \in 0..(nextId' - 1) /\ now \in RequestRecord'
        BY <1>t, <2>1, <2>3
      <4>2. QED BY <4>1 DEF RequestRecord, Stages
    <3>2. QED BY <1>11, <1>t, <2>3, <3>1 DEF InsertOutlook, End, Become
  <2>5. QED BY <1>11, <1>t, <2>2, <2>3, <2>4 DEF InsertOutlook, TypeOK, RequestRecord
<1>12. ASSUME NEW q \in Request, Relink(q) PROVE TypeOK'
  <2>1. request[q].state \in State
    BY <1>12, <1>t DEF Relink, Knows, Flow
  <2>2. \A r \in rows : [r EXCEPT !.token = request[q].state] \in Row
    BY <1>t, <2>1 DEF Row
  <2>3. rows' \subseteq Row
    BY <1>12, <1>t, <2>2 DEF Relink
  <2>4. UNCHANGED <<Row, RequestRecord>>
    BY <1>12 DEF Relink, Row, RequestRecord
  <2>5. [request[q] EXCEPT !.stage = "notify"] \in RequestRecord
    BY <1>s DEF Stages
  <2>6. request' \in [Request -> RequestRecord]
    BY <1>12, <1>t, <2>5, BecomeType DEF Relink, End
  <2>7. QED BY <1>12, <1>t, <2>3, <2>4, <2>6 DEF Relink, TypeOK, RequestRecord
<1>13. ASSUME NEW q \in Request, ConnectFails(q) PROVE TypeOK'
  <2>1. request[q].tries + 1 < Attempts =>
          [request[q] EXCEPT !.tries = @ + 1] \in RequestRecord
    <3>1. request[q].tries \in 0..(Attempts - 1)
      BY <1>t DEF RequestRecord
    <3>2. request[q].tries + 1 < Attempts => request[q].tries + 1 \in 0..(Attempts - 1)
      BY <3>1, DirectoryAssumption
    <3>3. QED BY <1>t, <3>2 DEF RequestRecord
  <2>2. \E f \in RequestRecord : Become(q, f)
    BY <1>13, <1>t, <2>1 DEF ConnectFails, End
  <2>3. QED BY <1>13, <1>t, <2>2, QuietType DEF ConnectFails
<1>14. ASSUME NEW q \in Request, Notified(q) PROVE TypeOK'
  <2>1. request[q].state \in State
    BY <1>14, <1>t DEF Notified, Knows, Flow
  <2>2. told' \in [State -> Nat]
    BY <1>14, <1>t, <2>1, CountType DEF Notified, Tell
  <2>3. QED BY <1>14, <1>t, <2>2, QuietType DEF Notified, End
<1>15. ASSUME NEW r \in rows, DeleteMailbox(r) PROVE TypeOK'
  BY <1>15, <1>t DEF DeleteMailbox, TypeOK, Row
<1>16. ASSUME NEW s \in State, Authorize(s) \/ StateExpires(s) PROVE TypeOK'
  BY <1>16, <1>t DEF Authorize, StateExpires, TypeOK, Row
<1>17. ASSUME NEW s \in State, NEW address \in Address, Consent(s, address) PROVE TypeOK'
  BY <1>17, <1>t DEF Consent, TypeOK, Row
<1>18. QED
  BY <1>1, <1>2, <1>3, <1>4, <1>5, <1>6, <1>7, <1>8, <1>9, <1>10, <1>11, <1>12, <1>13, <1>14,
     <1>15, <1>16, <1>17
     DEF Next, RequestBegins, RequestStep, CallbackStep

-----------------------------------------------------------------------------
(* The table                                                               *)

\* Whatever happens to the table: new rows have new ids, a row that stays keeps its kind,
\* and an Outlook row its address.
RowsGoOn(rs, rs2, n) ==
  \A r2 \in rs2 :
    \/ r2.id = n
    \/ \E r \in rs : /\ r.id = r2.id /\ r.auth = r2.auth
                     /\ r.auth = "outlook" => r.email = r2.email

LEMMA InsertKeeps ==
  ASSUME TypeOK, RowsInv(rows, consent), NEW email \in Email,
         NEW auth \in {"password", "outlook"}, NEW token,
         ~ Taken(nextId, email),
         auth = "outlook" => token \in State /\ consent[token] = email.address,
         rows' = rows \union {NewRow(email, auth, token)}
  PROVE  RowsInv(rows', consent) /\ RowsGoOn(rows, rows', nextId)
<1> DEFINE new == NewRow(email, auth, token)
<1>1. /\ new.id = nextId /\ new.email = email /\ new.auth = auth /\ new.token = token
  BY DEF NewRow
<1>2. \A r \in rows : r.id # nextId /\ r.email # email
  <2>1. \A r \in rows : r.id # nextId
    BY DEF TypeOK, Row
  <2>2. QED BY <2>1 DEF Taken
<1> HIDE DEF new
<1>3. rows' = rows \union {new}
  BY DEF new
<1>4. RowsInv(rows', consent)
  BY <1>1, <1>2, <1>3 DEF RowsInv
<1>5. QED BY <1>1, <1>3, <1>4 DEF RowsGoOn

\* Rows replaced one by one.
LEMMA ReplaceKeeps ==
  ASSUME TypeOK, RowsInv(rows, consent), NEW id, NEW f,
         \A r \in rows : r.id = id =>
           /\ f[r].id = id /\ f[r].auth = r.auth
           /\ \A o \in rows : o.id # id => o.email # f[r].email
           /\ r.auth = "outlook" =>
                /\ f[r].email = r.email /\ f[r].token \in State
                /\ consent[f[r].token] = r.email.address,
         \A r2 \in rows' : \E r \in rows : r2 = IF r.id = id THEN f[r] ELSE r
  PROVE  RowsInv(rows', consent) /\ RowsGoOn(rows, rows', nextId)
<1>1. \A r2 \in rows' : \E r \in rows : r2 = IF r.id = id THEN f[r] ELSE r
  OBVIOUS
<1>2. \A r1, r2 \in rows' : r1.id = r2.id => r1 = r2
  BY <1>1 DEF RowsInv
<1>3. \A r1, r2 \in rows' : r1.email = r2.email => r1 = r2
  <2> SUFFICES ASSUME NEW r1 \in rows', NEW r2 \in rows', r1.email = r2.email
               PROVE  r1 = r2
    OBVIOUS
  <2>1. PICK o1 \in rows : r1 = IF o1.id = id THEN f[o1] ELSE o1
    BY <1>1
  <2>2. PICK o2 \in rows : r2 = IF o2.id = id THEN f[o2] ELSE o2
    BY <1>1
  <2>3. o1 = o2
    BY <2>1, <2>2 DEF RowsInv
  <2>4. QED BY <2>1, <2>2, <2>3
<1>4. \A r \in rows' : r.auth = "outlook" => r.token \in State /\ consent[r.token] = r.email.address
  BY <1>1 DEF RowsInv
<1>5. RowsGoOn(rows, rows', nextId)
  BY <1>1 DEF RowsGoOn
<1>6. QED BY <1>2, <1>3, <1>4, <1>5 DEF RowsInv

\* Every step keeps the table in order.
LEMMA RowsStep ==
  ASSUME IInv, Next
  PROVE  RowsInv(rows', consent') /\ RowsGoOn(rows, rows', nextId)
<1>t. /\ TypeOK /\ rows \subseteq Row /\ nextId \in Nat \ {0}
      /\ request \in [Request -> RequestRecord]
      /\ RowsInv(rows, consent)
      /\ \A q \in Request : Knows(request[q], rows, consent, minted, asked, told)
  BY TypeParts DEF IInv
<1>1. ASSUME rows' \subseteq rows, consent' = consent
      PROVE  RowsInv(rows', consent') /\ RowsGoOn(rows, rows', nextId)
  BY <1>1, <1>t DEF RowsInv, RowsGoOn
<1>2. ASSUME NEW q \in Request, InsertMailbox(q)
      PROVE  RowsInv(rows', consent') /\ RowsGoOn(rows, rows', nextId)
  <2> DEFINE email == request[q].email
  <2>1. email \in Email /\ consent' = consent
    BY <1>2, <1>t DEF InsertMailbox, Knows
  <2>2. CASE Taken(nextId, email)
    BY <1>1, <1>2, <2>1, <2>2 DEF InsertMailbox
  <2>3. CASE ~ Taken(nextId, email)
    <3>1. rows' = rows \union {NewRow(email, "password", None)}
      BY <1>2, <2>3 DEF InsertMailbox
    <3> HIDE DEF email
    <3>2. RowsInv(rows', consent) /\ RowsGoOn(rows, rows', nextId)
      BY <1>t, <2>1, <2>3, <3>1, InsertKeeps
    <3>3. QED BY <2>1, <3>2
  <2>4. QED BY <2>2, <2>3
<1>3. ASSUME NEW q \in Request, CommitPatch(q)
      PROVE  RowsInv(rows', consent') /\ RowsGoOn(rows, rows', nextId)
  <2> DEFINE email == request[q].email
             id == request[q].id
             f == [r \in rows |-> [r EXCEPT !.email = email]]
  <2>1. consent' = consent /\ \A r \in rows : r.id = id => r.auth = "password"
    BY <1>3, <1>t DEF CommitPatch, Knows
  <2>2. CASE Taken(id, email)
    BY <1>1, <1>3, <2>1, <2>2 DEF CommitPatch
  <2>3. CASE ~ Taken(id, email)
    <3>1. \A r2 \in rows' : \E r \in rows : r2 = IF r.id = id THEN f[r] ELSE r
      BY <1>3, <2>3 DEF CommitPatch
    <3>2. \A r \in rows : f[r].id = r.id /\ f[r].auth = r.auth /\ f[r].email = email
      BY <1>t DEF Row
    <3>3. \A o \in rows : o.id # id => o.email # email
      BY <2>3 DEF Taken
    <3>4. \A r \in rows : r.id = id =>
            /\ f[r].id = id /\ f[r].auth = r.auth
            /\ \A o \in rows : o.id # id => o.email # f[r].email
            /\ r.auth = "outlook" =>
                 /\ f[r].email = r.email /\ f[r].token \in State
                 /\ consent[f[r].token] = r.email.address
      BY <2>1, <3>2, <3>3
    <3> HIDE DEF f, email, id
    <3>5. RowsInv(rows', consent) /\ RowsGoOn(rows, rows', nextId)
      BY <1>t, <3>1, <3>4, ReplaceKeeps
    <3>6. QED BY <2>1, <3>5
  <2>4. QED BY <2>2, <2>3
<1>4. ASSUME NEW q \in Request, InsertOutlook(q)
      PROVE  RowsInv(rows', consent') /\ RowsGoOn(rows, rows', nextId)
  <2> DEFINE email == request[q].email
             s == request[q].state
  <2>1. /\ s \in State /\ consent[s] \in Address /\ consent' = consent
        /\ email = [address |-> consent[s], spelling |-> Lower]
    <3>1. s \in State /\ consent[s] # None
      BY <1>4, <1>t DEF InsertOutlook, Knows, Flow
    <3>2. consent[s] \in Address
      BY <1>t, <3>1 DEF TypeOK
    <3>3. email = [address |-> consent[s], spelling |-> Lower]
      BY <1>4, <1>t DEF InsertOutlook, Knows
    <3>4. consent' = consent
      BY <1>4 DEF InsertOutlook
    <3>5. QED BY <3>1, <3>2, <3>3, <3>4
  <2>2. email \in Email /\ consent[s] = email.address
    BY <2>1, DirectoryAssumption DEF Email
  <2>3. CASE Taken(nextId, email)
    BY <1>1, <1>4, <2>1, <2>3 DEF InsertOutlook
  <2>4. CASE ~ Taken(nextId, email)
    <3>1. rows' = rows \union {NewRow(email, "outlook", s)}
      BY <1>4, <2>4 DEF InsertOutlook
    <3> HIDE DEF email, s
    <3>2. RowsInv(rows', consent) /\ RowsGoOn(rows, rows', nextId)
      BY <1>t, <2>1, <2>2, <2>4, <3>1, InsertKeeps
    <3>3. QED BY <2>1, <3>2
  <2>5. QED BY <2>3, <2>4
<1>5. ASSUME NEW q \in Request, Relink(q)
      PROVE  RowsInv(rows', consent') /\ RowsGoOn(rows, rows', nextId)
  <2> DEFINE s == request[q].state
             id == request[q].id
             f == [r \in rows |-> [r EXCEPT !.token = s]]
  <2>1. /\ s \in State /\ consent' = consent
        /\ request[q].email.address = consent[s]
        /\ \A r \in rows : r.id = id /\ r.auth = "outlook" => r.email.address = consent[s]
    <3>1. request[q].stage = "relink" /\ consent' = consent
      BY <1>5 DEF Relink
    <3>2. Knows(request[q], rows, consent, minted, asked, told)
      BY <1>t
    <3>3. s \in State /\ request[q].email = [address |-> consent[s], spelling |-> Lower]
      BY <3>1, <3>2 DEF Knows, Flow
    <3>4. request[q].email.address = consent[s]
      BY <3>3
    <3>5. \A r \in rows : r.id = id /\ r.auth = "outlook" => r.email.address = request[q].email.address
      BY <3>1, <3>2 DEF Knows
    <3>6. QED BY <3>1, <3>3, <3>4, <3>5
  <2>2. CASE ~ \E r \in rows : r.id = id
    BY <1>1, <1>5, <2>1, <2>2 DEF Relink
  <2>3. CASE \E r \in rows : r.id = id
    <3>1. \A r2 \in rows' : \E r \in rows : r2 = IF r.id = id THEN f[r] ELSE r
      BY <1>5, <2>3 DEF Relink
    <3>2. \A r \in rows : /\ f[r].id = r.id /\ f[r].auth = r.auth /\ f[r].email = r.email
                         /\ f[r].token = s
      BY <1>t DEF Row
    <3>3. \A r, o \in rows : r.id = id /\ o.id # id => o.email # r.email
      BY <1>t DEF RowsInv
    <3>4. \A r \in rows : r.id = id =>
            /\ f[r].id = id /\ f[r].auth = r.auth
            /\ \A o \in rows : o.id # id => o.email # f[r].email
            /\ r.auth = "outlook" =>
                 /\ f[r].email = r.email /\ f[r].token \in State
                 /\ consent[f[r].token] = r.email.address
      BY <2>1, <3>2, <3>3
    <3> HIDE DEF f, s, id
    <3>5. RowsInv(rows', consent) /\ RowsGoOn(rows, rows', nextId)
      BY <1>t, <3>1, <3>4, ReplaceKeeps
    <3>6. QED BY <2>1, <3>5
  <2>4. QED BY <2>2, <2>3
<1>6. ASSUME NEW s \in State, NEW address \in Address, Consent(s, address)
      PROVE  RowsInv(rows', consent') /\ RowsGoOn(rows, rows', nextId)
  <2>1. /\ rows' = rows /\ consent[s] = None /\ consent \in [State -> Address \union {None}]
        /\ consent' = [consent EXCEPT ![s] = address]
    BY <1>6, <1>t DEF Consent, TypeOK
  <2>2. \A r \in rows : r.email.address # None
    BY <1>t, DirectoryAssumption DEF Row, Email
  <2>3. \A r \in rows : r.auth = "outlook" => consent'[r.token] = consent[r.token]
    BY <1>t, <2>1, <2>2 DEF RowsInv
  <2>4. QED BY <1>t, <2>1, <2>3 DEF RowsInv, RowsGoOn
<1>7. CASE rows' \subseteq rows /\ consent' = consent
  BY <1>1, <1>7
<1>8. \/ rows' \subseteq rows /\ consent' = consent
      \/ \E q \in Request : InsertMailbox(q) \/ CommitPatch(q) \/ InsertOutlook(q) \/ Relink(q)
      \/ \E s \in State, address \in Address : Consent(s, address)
  BY DEF Next, RequestBegins, RequestStep, CallbackStep, BeginCreate, BeginPatch, ConsumeState,
         ProbeFails, Exchange, Lookup, ConnectFails, Notified, NotNotified, ExchangeFails,
         RequestFails, DeleteMailbox, Authorize, StateExpires
<1>9. QED BY <1>2, <1>3, <1>4, <1>5, <1>6, <1>7, <1>8
-----------------------------------------------------------------------------
(* What a request knows                                                    *)

\* Knowledge about a row survives what may happen to the table.
LEMMA KnowsKept ==
  ASSUME NEW rs, NEW rs2, NEW con, NEW con2, NEW min, NEW min2, NEW ask, NEW ask2,
         NEW tol, NEW tol2, NEW n, NEW f,
         f.id # n, RowsGoOn(rs, rs2, n), Knows(f, rs, con, min, ask, tol),
         f.stage \in Flow =>
           /\ con2[f.state] = con[f.state] /\ min2[f.state] = min[f.state]
           /\ ask2[f.state] = ask[f.state] /\ tol2[f.state] = tol[f.state]
  PROVE  Knows(f, rs2, con2, min2, ask2, tol2)
<1>1. f.stage = "patch" => \A r \in rs2 : r.id = f.id => r.auth = "password"
  BY DEF RowsGoOn, Knows
<1>2. f.stage = "relink" =>
        \A r \in rs2 : r.id = f.id /\ r.auth = "outlook" => r.email.address = f.email.address
  BY DEF RowsGoOn, Knows
<1>3. QED BY <1>1, <1>2 DEF Knows, Flow

\* What a request in the flow knows of its state, in one place.
LEMMA FlowFacts ==
  ASSUME IInv, NEW p \in Request, request[p].stage \in Flow
  PROVE  /\ request[p].state \in State /\ consent[request[p].state] # None
         /\ minted[request[p].state] = "spent" /\ told[request[p].state] = 0
BY DEF IInv, Knows

\* Nobody but its request touches a state that was let through.
LEMMA FlowKept ==
  ASSUME IInv, Next, NEW p \in Request, request[p].stage \in Flow
  PROVE  LET s == request[p].state IN
         /\ consent'[s] = consent[s] /\ minted'[s] = minted[s]
         /\ asked'[s] = asked[s] \/ Exchange(p) \/ ExchangeFails(p)
         /\ told'[s] = told[s] \/ Notified(p)
<1> DEFINE s == request[p].state
<1>t. /\ minted \in [State -> {"unused", "fresh", "spent", "expired"}]
      /\ consent \in [State -> Address \union {None}]
      /\ asked \in [State -> Nat] /\ told \in [State -> Nat]
  BY TypeParts DEF IInv
<1>f. s \in State /\ consent[s] # None /\ minted[s] = "spent"
  BY FlowFacts
<1>a. \A q \in Request : request[q].stage \in Flow /\ request[q].state = s => q = p
  BY DEF IInv, Apart
<1> HIDE DEF s
<1>1. CASE UNCHANGED <<minted, consent, asked, told>>
  BY <1>1 DEF s
<1>2. ASSUME NEW q \in Request, NEW u \in State, ConsumeState(q, u)
      PROVE  UNCHANGED <<consent, asked, told>> /\ minted'[s] = minted[s]
  BY <1>2, <1>t, <1>f DEF ConsumeState
<1>3. ASSUME NEW q \in Request, Exchange(q) \/ ExchangeFails(q)
      PROVE  /\ UNCHANGED <<consent, minted, told>>
             /\ asked'[s] = asked[s] \/ Exchange(p) \/ ExchangeFails(p)
  <2>1. CASE q = p
    BY <1>3, <2>1 DEF Exchange, ExchangeFails
  <2>2. CASE q # p
    <3>1. request[q].stage \in Flow
      BY <1>3 DEF Exchange, ExchangeFails, Flow
    <3>2. request[q].state # s
      BY <1>a, <2>2, <3>1
    <3>3. asked' = [asked EXCEPT ![request[q].state] = @ + 1]
      BY <1>3 DEF Exchange, ExchangeFails
    <3>4. QED BY <1>3, <1>t, <1>f, <3>2, <3>3 DEF Exchange, ExchangeFails
  <2>3. QED BY <2>1, <2>2
<1>4. ASSUME NEW q \in Request, Notified(q)
      PROVE  /\ UNCHANGED <<consent, minted, asked>>
             /\ told'[s] = told[s] \/ Notified(p)
  <2>1. CASE q = p
    BY <1>4, <2>1 DEF Notified
  <2>2. CASE q # p
    <3>1. request[q].state # s
      BY <1>4, <1>a, <2>2 DEF Notified, Flow
    <3>2. QED BY <1>4, <1>t, <1>f, <3>1 DEF Notified, Tell
  <2>3. QED BY <2>1, <2>2
<1>5. ASSUME NEW u \in State, Authorize(u) \/ StateExpires(u)
      PROVE  UNCHANGED <<consent, asked, told>> /\ minted'[s] = minted[s]
  BY <1>5, <1>t, <1>f DEF Authorize, StateExpires
<1>6. ASSUME NEW u \in State, NEW address \in Address, Consent(u, address)
      PROVE  UNCHANGED <<minted, asked, told>> /\ consent'[s] = consent[s]
  BY <1>6, <1>t, <1>f DEF Consent
<1>7. \/ UNCHANGED <<minted, consent, asked, told>>
      \/ \E q \in Request : \/ \E u \in State : ConsumeState(q, u)
                            \/ Exchange(q) \/ ExchangeFails(q) \/ Notified(q)
      \/ \E u \in State : \/ Authorize(u) \/ StateExpires(u)
                          \/ \E address \in Address : Consent(u, address)
  BY DEF Next, RequestBegins, RequestStep, CallbackStep, BeginCreate, BeginPatch, InsertMailbox,
         CommitPatch, ProbeFails, Lookup, InsertOutlook, Relink, ConnectFails, NotNotified,
         RequestFails, DeleteMailbox
<1>8. QED BY <1>1, <1>2, <1>3, <1>4, <1>5, <1>6, <1>7 DEF s

\* A request that does not move still knows what it knew.
LEMMA OthersKnow ==
  ASSUME IInv, Next, NEW p \in Request, request'[p] = request[p],
         ~ Exchange(p), ~ ExchangeFails(p), ~ Notified(p)
  PROVE  Knows(request'[p], rows', consent', minted', asked', told')
<1>1. request[p].id # nextId
  BY TypeParts DEF IInv, RequestRecord
<1>2. RowsGoOn(rows, rows', nextId) /\ Knows(request[p], rows, consent, minted, asked, told)
  BY RowsStep DEF IInv
<1>3. QED BY <1>1, <1>2, FlowKept, KnowsKept

\* A request that ends knows nothing.
LEMMA IdleKnows ==
  ASSUME NEW rs, NEW con, NEW min, NEW ask, NEW tol
  PROVE  Knows(Idle, rs, con, min, ask, tol)
BY DEF Idle, Knows, Flow

\* The stages of the flow that follow the exchange, one by one.
LEMMA KnowsNext ==
  ASSUME NEW rs, NEW con, NEW min, NEW ask, NEW tol, NEW f, NEW g,
         g.state = f.state, g.email = f.email, g.stage \in {"insert", "notify"},
         f.state \in State, con[f.state] # None, min[f.state] = "spent", tol[f.state] = 0,
         g.stage = "insert" => f.email = [address |-> con[f.state], spelling |-> Lower]
  PROVE  Knows(g, rs, con, min, ask, tol)
BY DEF Knows, Flow

\* What may become of a request in one step.
LEMMA Moves ==
  ASSUME IInv, Next, NEW p \in Request
  PROVE  \/ request'[p] = request[p] /\ ~ Exchange(p) /\ ~ ExchangeFails(p) /\ ~ Notified(p)
         \/ request'[p] = Idle
         \/ \E email \in Email : BeginCreate(p, email)
         \/ \E r \in rows, email \in Email : BeginPatch(p, r, email)
         \/ \E u \in State : ConsumeState(p, u)
         \/ Exchange(p) \/ Lookup(p)
         \/ InsertOutlook(p) \/ Relink(p) \/ ConnectFails(p)
<1>t. request \in [Request -> RequestRecord]
  BY TypeParts DEF IInv
<1>1. ASSUME NEW q \in Request, q # p,
             RequestBegins(q) \/ RequestStep(q) \/ ExchangeFails(q) \/ RequestFails(q)
      PROVE  request'[p] = request[p]
  BY <1>1, <1>t
     DEF RequestBegins, RequestStep, CallbackStep, BeginCreate, BeginPatch, ConsumeState,
         InsertMailbox, CommitPatch, ProbeFails, Exchange, ExchangeFails, Lookup,
         InsertOutlook, Relink, ConnectFails, Notified, NotNotified, RequestFails,
         Become, End
<1>2. ExchangeFails(p) \/ Notified(p) \/ RequestFails(p) \/ NotNotified(p) \/ ProbeFails(p)
        \/ InsertMailbox(p) \/ CommitPatch(p) => request'[p] = Idle
  BY <1>t DEF ExchangeFails, Notified, RequestFails, NotNotified, ProbeFails, InsertMailbox,
              CommitPatch, Become, End
<1>3. (\E r \in rows : DeleteMailbox(r)) \/ (\E u \in State : Authorize(u) \/ StateExpires(u)
        \/ \E address \in Address : Consent(u, address)) => request'[p] = request[p]
  BY DEF DeleteMailbox, Authorize, StateExpires, Consent
<1>4. QED BY <1>1, <1>2, <1>3 DEF Next, RequestBegins, RequestStep, CallbackStep

LEMMA KnowsStep ==
  ASSUME IInv, Next, NEW p \in Request
  PROVE  Knows(request'[p], rows', consent', minted', asked', told')
<1> DEFINE Goal == Knows(request'[p], rows', consent', minted', asked', told')
           now == request[p]
           s == request[p].state
<1>t. /\ TypeOK /\ request \in [Request -> RequestRecord] /\ now \in RequestRecord
      /\ rows \subseteq Row /\ RowsInv(rows, consent)
      /\ minted \in [State -> {"unused", "fresh", "spent", "expired"}]
      /\ consent \in [State -> Address \union {None}]
      /\ asked \in [State -> Nat] /\ told \in [State -> Nat]
      /\ Once(minted, asked, told)
      /\ Knows(now, rows, consent, minted, asked, told)
  BY TypeParts DEF IInv
<1>i. request'[p] = Idle => Goal
  BY IdleKnows
<1>1. CASE request'[p] = request[p] /\ ~ Exchange(p) /\ ~ ExchangeFails(p) /\ ~ Notified(p)
  BY <1>1, OthersKnow
<1>2. CASE request'[p] = Idle
  BY <1>2, <1>i
<1>3. ASSUME NEW email \in Email, BeginCreate(p, email) PROVE Goal
  <2>1. request'[p] = [Idle EXCEPT !.stage = "create", !.email = email]
    BY <1>3, <1>t DEF BeginCreate, Become
  <2>2. request'[p].stage = "create" /\ request'[p].email = email
    BY <2>1 DEF Idle
  <2>3. QED BY <2>2 DEF Knows, Flow
<1>4. ASSUME NEW r \in rows, NEW email \in Email, BeginPatch(p, r, email) PROVE Goal
  <2>1. request'[p] = [Idle EXCEPT !.stage = "patch", !.id = r.id, !.email = email]
    BY <1>4, <1>t DEF BeginPatch, Become
  <2>2. request'[p].stage = "patch" /\ request'[p].email = email /\ request'[p].id = r.id
    BY <2>1 DEF Idle
  <2>3. rows' = rows /\ \A o \in rows : o.id = r.id => o.auth = "password"
    BY <1>4, <1>t DEF BeginPatch, Editable, RowsInv
  <2>4. QED BY <2>2, <2>3 DEF Knows, Flow
<1>5. ASSUME NEW u \in State, ConsumeState(p, u) PROVE Goal
  <2>1. request'[p] = [Idle EXCEPT !.stage = "exchange", !.state = u]
    BY <1>5, <1>t DEF ConsumeState, Become
  <2>2. request'[p].stage = "exchange" /\ request'[p].state = u
    BY <2>1 DEF Idle
  <2>3. /\ consent'[u] # None /\ minted'[u] = "spent"
        /\ asked'[u] = 0 /\ told'[u] = 0
    BY <1>5, <1>t DEF ConsumeState, Once
  <2>4. QED BY <2>2, <2>3 DEF Knows, Flow
<1>6. CASE Exchange(p)
  <2> DEFINE email == [address |-> consent[s], spelling |-> Lower]
  <2>1. s \in State /\ consent[s] # None /\ minted[s] = "spent" /\ told[s] = 0 /\ asked[s] = 0
    BY <1>6, <1>t DEF Exchange, Knows, Flow
  <2>2. request'[p] = [now EXCEPT !.stage = "lookup", !.email = email]
    BY <1>6, <1>t, <2>1 DEF Exchange, Become
  <2>3. request'[p].stage = "lookup" /\ request'[p].email = email /\ request'[p].state = s
    BY <2>2, <1>t DEF RequestRecord
  <2>4. UNCHANGED <<consent, minted, told>>
    BY <1>6 DEF Exchange
  <2>5. QED BY <2>1, <2>3, <2>4 DEF Knows, Flow
<1>7. CASE Lookup(p)
  <2>1. /\ now.stage = "lookup" /\ UNCHANGED <<rows, consent, minted, told>>
        /\ s \in State /\ consent[s] # None /\ minted[s] = "spent" /\ told[s] = 0
        /\ now.email = [address |-> consent[s], spelling |-> Lower]
    BY <1>7, <1>t DEF Lookup, Knows, Flow
  <2>2. ASSUME request'[p] = [now EXCEPT !.stage = "insert"] PROVE Goal
    <3>1. /\ request'[p].stage = "insert" /\ request'[p].state = s
          /\ request'[p].email = now.email
      BY <2>2, <1>t DEF RequestRecord
    <3>2. QED BY <2>1, <3>1, KnowsNext
  <2>3. ASSUME NEW r \in Found(now.email.address),
               request'[p] = [now EXCEPT !.stage = "relink", !.id = r.id]
        PROVE  Goal
    <3>1. /\ request'[p].stage = "relink" /\ request'[p].state = s
          /\ request'[p].email = now.email /\ request'[p].id = r.id
      BY <2>3, <1>t DEF RequestRecord
    <3>2. r \in rows /\ r.email.address = now.email.address
      BY DEF Found
    <3>3. \A o \in rows : o.id = r.id => o.email.address = now.email.address
      BY <1>t, <3>2 DEF RowsInv
    <3>4. QED BY <2>1, <3>1, <3>3 DEF Knows, Flow
  <2>4. \/ request'[p] = [now EXCEPT !.stage = "insert"]
        \/ \E r \in Found(now.email.address) :
             request'[p] = [now EXCEPT !.stage = "relink", !.id = r.id]
        \/ request'[p] = Idle
    BY <1>7, <1>t DEF Lookup, Become, End
  <2>5. QED BY <1>i, <2>2, <2>3, <2>4
<1>8. CASE InsertOutlook(p) \/ Relink(p) \/ ConnectFails(p)
  <2>1. /\ now.stage \in {"insert", "relink", "notify"}
        /\ ~ Exchange(p) /\ ~ ExchangeFails(p)
    BY <1>8 DEF InsertOutlook, Relink, ConnectFails, Exchange, ExchangeFails
  <2>2. UNCHANGED <<consent, minted, told>>
    BY <1>8 DEF InsertOutlook, Relink, ConnectFails
  <2>3. s \in State /\ consent[s] # None /\ minted[s] = "spent" /\ told[s] = 0
    BY <1>t, <2>1 DEF Knows, Flow
  <2>4. \/ request'[p] = Idle
        \/ request'[p] = [now EXCEPT !.stage = "notify", !.id = nextId]
        \/ request'[p] = [now EXCEPT !.stage = "notify"]
        \/ now.stage = "notify" /\ request'[p] = [now EXCEPT !.tries = @ + 1]
    BY <1>8, <1>t DEF InsertOutlook, Relink, ConnectFails, Become, End
  <2>5. \/ request'[p] = Idle
        \/ /\ request'[p].stage = "notify" /\ request'[p].state = s
           /\ request'[p].email = now.email
    BY <1>t, <2>4 DEF RequestRecord
  <2>6. QED BY <1>i, <2>2, <2>3, <2>5, KnowsNext
<1>9. QED BY <1>1, <1>2, <1>3, <1>4, <1>5, <1>6, <1>7, <1>8, Moves

-----------------------------------------------------------------------------
(* One callback for each state                                             *)

\* Who is in the flow was in it, with the same state, or has just consumed a fresh one.
LEMMA FlowComes ==
  ASSUME IInv, Next, NEW p \in Request, request'[p].stage \in Flow
  PROVE  \/ request[p].stage \in Flow /\ request'[p].state = request[p].state
         \/ /\ minted[request'[p].state] = "fresh"
            /\ \A q \in Request : q # p => request'[q] = request[q]
<1>t. request \in [Request -> RequestRecord] /\ request[p] \in RequestRecord
  BY TypeParts DEF IInv
<1>1. ASSUME NEW u \in State, ConsumeState(p, u)
      PROVE  /\ minted[request'[p].state] = "fresh"
             /\ \A q \in Request : q # p => request'[q] = request[q]
  BY <1>1, <1>t DEF ConsumeState, Become, Idle
<1>2. ASSUME CallbackStep(p)
      PROVE  request[p].stage \in Flow /\ request'[p].state = request[p].state
  <2>1. request[p].stage \in Flow
    BY <1>2 DEF CallbackStep, Exchange, Lookup, InsertOutlook, Relink, ConnectFails, Notified,
                NotNotified, Flow
  <2>2. \/ request'[p] = Idle
        \/ \E email : request'[p] = [request[p] EXCEPT !.stage = "lookup", !.email = email]
        \/ request'[p] = [request[p] EXCEPT !.stage = "insert"]
        \/ \E id : request'[p] = [request[p] EXCEPT !.stage = "relink", !.id = id]
        \/ \E id : request'[p] = [request[p] EXCEPT !.stage = "notify", !.id = id]
        \/ request'[p] = [request[p] EXCEPT !.stage = "notify"]
        \/ request'[p] = [request[p] EXCEPT !.tries = @ + 1]
    BY <1>2, <1>t DEF CallbackStep, Exchange, Lookup, InsertOutlook, Relink, ConnectFails,
                      Notified, NotNotified, Become, End
  <2>3. request'[p] # Idle
    BY DEF Idle, Flow
  <2>4. QED BY <1>t, <2>1, <2>2, <2>3 DEF RequestRecord
<1>3. \/ request'[p] = request[p]
      \/ request'[p].stage \in {"idle", "create", "patch"}
      \/ \E u \in State : ConsumeState(p, u)
      \/ CallbackStep(p)
  <2>1. \A email \in Email : BeginCreate(p, email) => request'[p].stage = "create"
    BY <1>t DEF BeginCreate, Become, Idle
  <2>2. \A r \in rows, email \in Email : BeginPatch(p, r, email) => request'[p].stage = "patch"
    BY <1>t DEF BeginPatch, Become, Idle
  <2>3. Idle.stage = "idle"
    BY DEF Idle
  <2>4. QED BY <2>1, <2>2, <2>3, Moves DEF CallbackStep
<1>4. QED BY <1>1, <1>2, <1>3 DEF Flow

LEMMA ApartStep == ASSUME IInv, Next PROVE Apart(request')
<1> SUFFICES ASSUME NEW q \in Request, NEW p \in Request,
                    request'[q].stage \in Flow, request'[p].stage \in Flow,
                    request'[q].state = request'[p].state, q # p
             PROVE  FALSE
  BY DEF Apart
<1> DEFINE Old(o) == request[o].stage \in Flow /\ request'[o].state = request[o].state
           Fresh(o) == minted[request'[o].state] = "fresh"
<1>1. \A o \in Request : Old(o) => minted[request'[o].state] = "spent"
  BY FlowFacts
<1>2. \A o \in Request : request'[o].stage \in Flow =>
        Old(o) \/ (Fresh(o) /\ \A i \in Request : i # o => request'[i] = request[i])
  BY FlowComes
<1>3. /\ Old(q) \/ (Fresh(q) /\ request'[p] = request[p])
      /\ Old(p) \/ (Fresh(p) /\ request'[q] = request[q])
  BY <1>2
<1>4. CASE Old(q) /\ Old(p)
  BY <1>4 DEF IInv, Apart
<1>5. CASE Fresh(q) /\ request'[p] = request[p]
  BY <1>1, <1>5
<1>6. CASE Fresh(p) /\ request'[q] = request[q]
  BY <1>1, <1>6
<1>7. QED BY <1>3, <1>4, <1>5, <1>6

LEMMA OnceStep == ASSUME IInv, Next PROVE Once(minted', asked', told')
<1>t. /\ minted \in [State -> {"unused", "fresh", "spent", "expired"}]
      /\ asked \in [State -> Nat] /\ told \in [State -> Nat]
      /\ Once(minted, asked, told)
      /\ \A q \in Request : Knows(request[q], rows, consent, minted, asked, told)
  BY TypeParts DEF IInv
<1>1. CASE UNCHANGED <<minted, asked, told>>
  BY <1>1, <1>t DEF Once
<1>2. ASSUME NEW q \in Request, NEW u \in State, ConsumeState(q, u)
      PROVE  Once(minted', asked', told')
  BY <1>2, <1>t DEF ConsumeState, Once
<1>3. ASSUME NEW q \in Request, Exchange(q) \/ ExchangeFails(q)
      PROVE  Once(minted', asked', told')
  <2> DEFINE s == request[q].state
  <2>1. s \in State /\ minted[s] = "spent" /\ asked[s] = 0
    BY <1>3, <1>t DEF Exchange, ExchangeFails, Knows, Flow
  <2>2. asked' = [asked EXCEPT ![s] = @ + 1] /\ UNCHANGED <<minted, told>>
    BY <1>3 DEF Exchange, ExchangeFails
  <2> HIDE DEF s
  <2>3. QED BY <1>t, <2>1, <2>2 DEF Once
<1>4. ASSUME NEW q \in Request, Notified(q)
      PROVE  Once(minted', asked', told')
  <2> DEFINE s == request[q].state
  <2>1. s \in State /\ minted[s] = "spent" /\ told[s] = 0
    BY <1>4, <1>t DEF Notified, Knows, Flow
  <2>2. told' = [told EXCEPT ![s] = @ + 1] /\ UNCHANGED <<minted, asked>>
    BY <1>4 DEF Notified, Tell
  <2> HIDE DEF s
  <2>3. QED BY <1>t, <2>1, <2>2 DEF Once
<1>5. ASSUME NEW u \in State, Authorize(u) \/ StateExpires(u)
      PROVE  Once(minted', asked', told')
  BY <1>5, <1>t DEF Authorize, StateExpires, Once
<1>6. \/ UNCHANGED <<minted, asked, told>>
      \/ \E q \in Request : \/ \E u \in State : ConsumeState(q, u)
                            \/ Exchange(q) \/ ExchangeFails(q) \/ Notified(q)
      \/ \E u \in State : Authorize(u) \/ StateExpires(u)
  BY DEF Next, RequestBegins, RequestStep, CallbackStep, BeginCreate, BeginPatch, InsertMailbox,
         CommitPatch, ProbeFails, Lookup, InsertOutlook, Relink, ConnectFails, NotNotified,
         RequestFails, DeleteMailbox, Consent
<1>7. QED BY <1>1, <1>2, <1>3, <1>4, <1>5, <1>6

-----------------------------------------------------------------------------
(* The invariant and what follows from it                                  *)

LEMMA Initially == Init => IInv
<1> SUFFICES ASSUME Init PROVE IInv
  OBVIOUS
<1>1. Idle \in RequestRecord /\ nextId \in Nat \ {0}
  BY IdleType DEF Init
<1>2. TypeOK
  BY <1>1, TypeParts DEF Init
<1>3. RowsInv(rows, consent)
  BY DEF Init, RowsInv
<1>4. ASSUME NEW q \in Request PROVE Knows(request[q], rows, consent, minted, asked, told)
  BY IdleKnows DEF Init
<1>5. Apart(request)
  BY DEF Init, Apart, Idle, Flow
<1>6. Once(minted, asked, told)
  BY DEF Init, Once
<1>7. QED BY <1>2, <1>3, <1>4, <1>5, <1>6 DEF IInv

LEMMA Inductive == IInv /\ [Next]_vars => IInv'
<1> SUFFICES ASSUME IInv, [Next]_vars PROVE IInv'
  OBVIOUS
<1>1. TypeOK'
  BY TypeStep
<1>2. CASE Next
  <2>1. RowsInv(rows', consent')
    BY <1>2, RowsStep
  <2>2. \A p \in Request : Knows(request'[p], rows', consent', minted', asked', told')
    BY <1>2, KnowsStep
  <2>3. Apart(request') /\ Once(minted', asked', told')
    BY <1>2, ApartStep, OnceStep
  <2>4. QED BY <1>1, <2>1, <2>2, <2>3 DEF IInv
<1>3. CASE UNCHANGED vars
  BY <1>1, <1>3 DEF IInv, vars
<1>4. QED BY <1>2, <1>3

\* The invariant holds in every state the requests reach.
THEOREM Invariant == Spec => []IInv
BY Initially, Inductive, PTL DEF Spec

\* Rows, ids and requests keep the types external/router.py and oauth/service.py give them.
THEOREM TypeCorrect == Spec => []TypeOK
<1>1. IInv => TypeOK
  BY DEF IInv
<1>2. QED BY <1>1, Invariant, PTL

\* One row for each way of writing an address, whatever overlaps with the probe of
\* _create (accounts/service.py) or the exchange of handle_callback (oauth/service.py).
THEOREM NoDuplicate == Spec => []OneRowPerEmail
<1>1. IInv => OneRowPerEmail
  BY DEF IInv, RowsInv, OneRowPerEmail
<1>2. QED BY <1>1, Invariant, PTL

\* An Outlook mailbox holds a token consented for its own address, although
\* handle_callback writes by the id it looked up some time before.
THEOREM TokensMatch == Spec => []TokenMatchesAddress
<1>1. IInv => TokenMatchesAddress
  BY DEF IInv, RowsInv, TokenMatchesAddress
<1>2. QED BY <1>1, Invariant, PTL

\* A code goes to Microsoft once, because consume_state lets one callback through.
THEOREM CodesSpentOnce == Spec => []CodeSentOnce
<1>1. IInv => CodeSentOnce
  BY DEF IInv, Once, CodeSentOnce
<1>2. QED BY <1>1, Invariant, PTL

\* notify_crm_oauth_ingest makes the CRM process one binding per consent.
THEOREM BindingsOnce == Spec => []BindingToldOnce
<1>1. IInv => BindingToldOnce
  BY DEF IInv, Once, BindingToldOnce
<1>2. QED BY <1>1, Invariant, PTL
=============================================================================
