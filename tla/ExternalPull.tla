---------------------------- MODULE ExternalPull ----------------------------
(***************************************************************************)
(* The external pull API (ADR-0029, ADR-0036): a client walks the table of *)
(* messages by id, forward from its cursor or backward from the newest     *)
(* row, page by page, while sync runs insert, retention and mailbox        *)
(* deletions remove, and the set of canonical mailboxes (the oldest row    *)
(* for each address) changes under it.                                     *)
(*                                                                         *)
(* A page is two statements, each with the snapshot of its own: READ       *)
(* COMMITTED, and no transaction around them.  An id is drawn when the row *)
(* is inserted and the row is seen when its transaction commits.           *)
(***************************************************************************)
EXTENDS IdOrder

CONSTANTS
  Writer,      \* transactions of sync_one_account that insert messages, one account each
  Account,     \* ids mail_accounts rows may have
  Email,       \* addresses, letter case folded
  Uid,         \* messages of a mailbox
  Filter,      \* mail_account_id filters a client sends; {} is none
  Limit,       \* rows of a page
  MaxId,       \* bound: message ids drawn
  MaxChanges   \* bound: mailboxes created, renamed, deleted; rows expired

ASSUME PullAssumption ==
  /\ Account \subseteq Nat \ {0}
  /\ Filter \subseteq SUBSET Account
  /\ Limit \in Nat \ {0} /\ MaxId \in Nat /\ MaxChanges \in Nat

VARIABLES
  messages,   \* committed rows of messages
  drafts,     \* rows inserted by each open transaction
  nextId,     \* messages_id_seq
  address,    \* the mailboxes: the address of each mail_accounts row
  newest,     \* the largest id a mailbox was given
  request,    \* the request being served
  forward,    \* the client's forward walk
  backward,   \* the client's backward walk
  changes     \* changes of mailboxes and expiries so far

vars == <<messages, drafts, nextId, address, newest, request, forward, backward, changes>>

Row == [id : Nat, account : Account, uid : Uid, email : Email]

Ids(R) == {m.id : m \in R}

\* No cursor: before_id absent, next_before_id null.
None == 0

NoRequest == [stage |-> "none", order |-> "asc", since |-> 0, before |-> None,
              filter |-> {}, scope |-> {}]

\* last: the cursor.  got, twice: rows received, and received again.  late: rows
\* committed below the cursor.  common: mailboxes in scope of every page so far.
ForwardStart == [last |-> 0, got |-> {}, twice |-> {}, late |-> {}, common |-> Account]

\* due: rows there were when the first page was read.
BackwardStart == [before |-> None, got |-> {}, due |-> {}, common |-> Account,
                  more |-> FALSE, done |-> FALSE]

Init ==
  /\ messages = {}
  /\ drafts = [w \in Writer |-> {}]
  /\ nextId = 1
  /\ address \in UNION {[A -> Email] : A \in SUBSET Account}
  /\ newest \in {0} \union Account
  /\ \A a \in DOMAIN address : a <= newest
  /\ request = NoRequest
  /\ forward = ForwardStart
  /\ backward = BackwardStart
  /\ changes = 0

-----------------------------------------------------------------------------
(* The writers                                                             *)

\* The rows a transaction of w would meet on (account, uid).
Same(R, a, u) == {m \in R : m.account = a /\ m.uid = u}

\* The row of another open transaction makes this one wait.
MayInsert(w, a, u) ==
  /\ a \in DOMAIN address
  /\ nextId <= MaxId
  /\ \A m \in drafts[w] : m.account = a
  /\ \A v \in Writer \ {w} : Same(drafts[v], a, u) = {}

Insert(w, a, u) ==
  /\ MayInsert(w, a, u)
  /\ Same(messages \union drafts[w], a, u) = {}
  /\ drafts' = [drafts EXCEPT ![w] = @ \union
                  {[id |-> nextId, account |-> a, uid |-> u, email |-> address[a]]}]
  /\ nextId' = nextId + 1
  /\ UNCHANGED <<messages, address, newest, request, forward, backward, changes>>

\* ON CONFLICT DO NOTHING: no row, and an id is spent.
InsertConflicts(w, a, u) ==
  /\ MayInsert(w, a, u)
  /\ Same(messages \union drafts[w], a, u) # {}
  /\ nextId' = nextId + 1
  /\ UNCHANGED <<messages, drafts, address, newest, request, forward, backward, changes>>

Commit(w) ==
  /\ drafts[w] # {}
  /\ messages' = messages \union drafts[w]
  /\ drafts' = [drafts EXCEPT ![w] = {}]
  /\ forward' = [forward EXCEPT !.late = @ \union {m \in drafts[w] : m.id <= forward.last}]
  /\ UNCHANGED <<nextId, address, newest, request, backward, changes>>

\* An error, the end of the worker: the ids are not given again.
Rollback(w) ==
  /\ drafts[w] # {}
  /\ drafts' = [drafts EXCEPT ![w] = {}]
  /\ UNCHANGED <<messages, nextId, address, newest, request, forward, backward, changes>>

-----------------------------------------------------------------------------
(* The mailboxes                                                           *)

Change == changes < MaxChanges /\ changes' = changes + 1

\* The next id of the sequence.
CreateMailbox(a, e) ==
  /\ newest < a
  /\ Change
  /\ newest' = a
  /\ address' = [b \in DOMAIN address \union {a} |-> IF b = a THEN e ELSE address[b]]
  /\ UNCHANGED <<messages, drafts, nextId, request, forward, backward>>

\* An open transaction that inserted a message of the mailbox holds its row.
Unlocked(a) == a \in DOMAIN address /\ \A w \in Writer : \A m \in drafts[w] : m.account # a

Rename(a, e) ==
  /\ Unlocked(a)
  /\ address[a] # e
  /\ Change
  /\ address' = [address EXCEPT ![a] = e]
  /\ UNCHANGED <<messages, drafts, nextId, newest, request, forward, backward>>

DeleteMailbox(a) ==
  /\ Unlocked(a)
  /\ Change
  /\ address' = [b \in DOMAIN address \ {a} |-> address[b]]
  /\ messages' = {m \in messages : m.account # a}
  /\ UNCHANGED <<drafts, nextId, newest, request, forward, backward>>

\* Retention.
Expire(R) ==
  /\ R # {}
  /\ Change
  /\ messages' = messages \ R
  /\ UNCHANGED <<drafts, nextId, address, newest, request, forward, backward>>

-----------------------------------------------------------------------------
(* A request                                                               *)

\* The parameter a request is refused for (400), in the order of the checks.
Refusal(order, since, before) ==
  CASE order \notin {"asc", "desc"} -> "order"
    [] order = "asc" /\ before # None -> "before_id"
    [] order = "desc" /\ since # 0 -> "since_id"
    [] OTHER -> "none"

\* The client sends a cursor it was given, or none.  It follows a backward walk
\* to its end, or starts another.
Ask(order, since, before, filter) ==
  /\ request.stage = "none"
  /\ Refusal(order, since, before) = "none"
  /\ order = "asc" => since = forward.last
  /\ order = "desc" => before = None \/ backward.more
  /\ request' = [NoRequest EXCEPT !.stage = "asked", !.order = order, !.since = since,
                                  !.before = before, !.filter = filter]
  /\ UNCHANGED <<messages, drafts, nextId, address, newest, forward, backward, changes>>

\* One mailbox for each address, the oldest.
Canonical ==
  {a \in DOMAIN address : \A b \in DOMAIN address : address[b] = address[a] => a <= b}

\* A mailbox the filter names and the canonical set lacks is passed over.
Narrowed(filter) == IF filter = {} THEN Canonical ELSE Canonical \intersect filter

ResolveScope ==
  /\ request.stage = "asked"
  /\ request' = [request EXCEPT !.stage = "scoped", !.scope = Narrowed(request.filter)]
  /\ UNCHANGED <<messages, drafts, nextId, address, newest, forward, backward, changes>>

\* ORDER BY id DESC LIMIT n.
Highest(S, n) == {m \in S : Cardinality({k \in S : k > m}) < n}

InScope == {m \in messages : m.account \in request.scope}

\* Mutation of Above: WHERE id >= since_id.
AboveInclusive(since) == {m \in InScope : m.id >= since}

\* Mutation of Below: the older page starts one row too low.
BelowByTwo(before) == {m \in InScope : before = None \/ m.id < before - 1}

Above(since) == {m \in InScope : m.id > since}
Below(before) == {m \in InScope : before = None \/ m.id < before}

ForwardPage ==
  {m \in Above(request.since) : m.id \in Lowest(Ids(Above(request.since)), Limit)}
BackwardPage ==
  {m \in Below(request.before) : m.id \in Highest(Ids(Below(request.before)), Limit)}

\* Mutation of NextSince: the cursor is the newest row there is.
NextSinceNewest(page) ==
  IF messages = {} THEN request.since
  ELSE CHOOSE i \in Ids(messages) : \A j \in Ids(messages) : j <= i
\* Mutation of NextSince: the page does not move the cursor.
NextSinceStuck(page) == request.since
\* The id of the last row of the page.
NextSince(page) ==
  IF page = {} THEN request.since
  ELSE CHOOSE i \in Ids(page) : \A j \in Ids(page) : j <= i
NextBefore(page) ==
  IF page = {} THEN None ELSE CHOOSE i \in Ids(page) : \A j \in Ids(page) : i <= j

HasMore(page) == Cardinality(Ids(page)) = Limit

AnswerForward ==
  /\ request.stage = "scoped" /\ request.order = "asc"
  /\ forward' = [forward EXCEPT !.last = NextSince(ForwardPage),
                                !.got = @ \union ForwardPage,
                                !.twice = @ \union (forward.got \intersect ForwardPage),
                                !.common = @ \intersect request.scope]
  /\ request' = NoRequest
  /\ UNCHANGED <<messages, drafts, nextId, address, newest, backward, changes>>

\* A walk begins with the latest page.
Walk ==
  IF request.before = None THEN [BackwardStart EXCEPT !.due = messages] ELSE backward

AnswerBackward ==
  /\ request.stage = "scoped" /\ request.order = "desc"
  /\ backward' = [before |-> NextBefore(BackwardPage),
                  got |-> Walk.got \union BackwardPage,
                  due |-> Walk.due,
                  common |-> Walk.common \intersect request.scope,
                  more |-> HasMore(BackwardPage),
                  done |-> ~ HasMore(BackwardPage)]
  /\ request' = NoRequest
  /\ UNCHANGED <<messages, drafts, nextId, address, newest, forward, changes>>

\* The request fails or its answer is lost: the client keeps its cursor.
AnswerLost ==
  /\ request.stage # "none"
  /\ request' = NoRequest
  /\ UNCHANGED <<messages, drafts, nextId, address, newest, forward, backward, changes>>

-----------------------------------------------------------------------------
WriterStep(w) ==
  \/ \E a \in Account, u \in Uid : Insert(w, a, u) \/ InsertConflicts(w, a, u)
  \/ Commit(w)
  \/ Rollback(w)

MailboxStep ==
  \/ \E a \in Account : DeleteMailbox(a) \/ \E e \in Email : CreateMailbox(a, e) \/ Rename(a, e)
  \/ \E R \in SUBSET messages : Expire(R)

AsksForward == \E filter \in Filter : Ask("asc", forward.last, None, filter)

ClientAsks ==
  \E order \in {"asc", "desc", "other"}, since \in {0, forward.last},
     before \in {None, backward.before}, filter \in Filter :
    Ask(order, since, before, filter)

Next ==
  \/ \E w \in Writer : WriterStep(w)
  \/ MailboxStep
  \/ ClientAsks
  \/ ResolveScope
  \/ AnswerForward
  \/ AnswerBackward
  \/ AnswerLost

Spec == Init /\ [][Next]_vars

ResolvesForward == request.order = "asc" /\ ResolveScope

\* A client that keeps polling forward, over a network that does not lose every
\* answer; the other requests it takes meanwhile end too.
FairSpec ==
  /\ Spec
  /\ SF_vars(AsksForward) /\ SF_vars(ResolvesForward) /\ SF_vars(AnswerForward)
  /\ WF_vars(ResolveScope) /\ WF_vars(AnswerBackward)

-----------------------------------------------------------------------------
TypeOK ==
  /\ messages \subseteq Row
  /\ drafts \in [Writer -> SUBSET Row]
  /\ nextId \in Nat \ {0}
  /\ DOMAIN address \subseteq Account
  /\ address \in [DOMAIN address -> Email]
  /\ newest \in Nat
  /\ request \in [stage : {"none", "asked", "scoped"}, order : {"asc", "desc"}, since : Nat,
                  before : Nat, filter : SUBSET Account, scope : SUBSET Account]
  /\ forward \in [last : Nat, got : SUBSET Row, twice : SUBSET Row, late : SUBSET Row,
                  common : SUBSET Account]
  /\ backward \in [before : Nat, got : SUBSET Row, due : SUBSET Row, common : SUBSET Account,
                   more : BOOLEAN, done : BOOLEAN]
  /\ changes \in Nat

\* No message reaches the client twice on its forward walk, whatever is
\* inserted, committed out of order, deleted or renamed between two pages.
NeverTwice == forward.twice = {}

\* The forward walk leaves out no row of a mailbox that stayed in scope, except
\* one that was committed after the cursor had passed its id.
SkipsOnlyLate ==
  \A m \in messages :
    m.id <= forward.last /\ m.account \in forward.common
      => m \in forward.got \union forward.late

\* When the backward walk reports no more rows, it has returned every row there
\* was when it began that is still there, of the mailboxes that stayed in scope.
HistoryComplete ==
  backward.done =>
    \A m \in messages \intersect backward.due :
      m.account \in backward.common => m \in backward.got

\* ADR-0029 section 1, and the docstring of list_since_id: the keyset leaves no
\* gap between successive pages.
NoGap ==
  \A m \in messages :
    m.id <= forward.last /\ m.account \in forward.common => m \in forward.got

\* ADR-0029 section 5: of a mailbox connected twice, the client receives one
\* copy of each message.
OneCopy ==
  \A m, n \in forward.got :
    m.email = n.email /\ m.uid = n.uid => m.account = n.account

\* A committed message that is not late reaches a client that keeps polling,
\* unless it is deleted first or its mailbox leaves the scope of a page.
EventuallyPulled ==
  \A i \in 1..MaxId :
    i \in Ids(messages) ~>
      \/ i \in Ids(forward.got \union forward.late)
      \/ \A m \in messages : m.id = i => m.account \notin forward.common
=============================================================================
