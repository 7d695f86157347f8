-------------------------- MODULE ExternalPullProofs ------------------------
(***************************************************************************)
(* Proofs about the pull API: pages of a bounded set of ids, the type of   *)
(* the state, and what the two walks leave out.                            *)
(***************************************************************************)
EXTENDS ExternalPull, TLAPS, FiniteSetTheorems, WellFoundedInduction

-----------------------------------------------------------------------------
(* ORDER BY id LIMIT n over a bounded set of ids                           *)

LEMMA LeastId ==
  ASSUME NEW S \in SUBSET Nat, S # {}
  PROVE  \E i \in S : \A j \in S : i <= j
<1>1. PICK i \in S : \A j \in S : ~ (<<j, i>> \in OpToRel(<, Nat))
  BY NatLessThanWellFounded, WFMin
<1>2. \A j \in S : ~ (j < i)
  BY <1>1 DEF OpToRel
<1>3. QED BY <1>2

LEMMA GreatestId ==
  ASSUME NEW S \in SUBSET Nat, S # {}, NEW b \in Nat, \A i \in S : i <= b
  PROVE  \E i \in S : \A j \in S : j <= i
<1> DEFINE T == {b - i : i \in S}
<1>1. T \in SUBSET Nat /\ T # {}
  <2>1. \A i \in S : b - i \in Nat
    OBVIOUS
  <2>2. QED BY <2>1
<1>2. PICK t \in T : \A u \in T : t <= u
  BY <1>1, LeastId
<1>3. PICK i \in S : t = b - i
  OBVIOUS
<1>4. \A j \in S : b - i <= b - j
  BY <1>2, <1>3
<1>5. \A j \in S : j <= i
  BY <1>4
<1>6. QED BY <1>5

\* A page in ascending order holds the ids below any id it holds.
LEMMA LowestIsDownClosed ==
  ASSUME NEW S \in SUBSET Nat, NEW b \in Nat, \A i \in S : i <= b, NEW n \in Nat,
         NEW p \in Lowest(S, n), NEW i \in S, i <= p
  PROVE  i \in Lowest(S, n)
<1> DEFINE A == {k \in S : k < i}
           B == {k \in S : k < p}
<1>1. IsFiniteSet(B) /\ A \in SUBSET B
  <2>1. IsFiniteSet(S)
    BY FS_BoundedSetOfNaturals
  <2>2. B \in SUBSET S
    OBVIOUS
  <2>3. IsFiniteSet(B)
    BY <2>1, <2>2, FS_Subset
  <2>4. p \in Nat /\ i \in Nat
    BY DEF Lowest
  <2>5. \A k \in S : k \in Nat
    OBVIOUS
  <2>6. \A k \in S : k < i => k < p
    BY <2>4, <2>5
  <2>7. A \in SUBSET B
    BY <2>6
  <2>8. QED BY <2>3, <2>7
<1>2. Cardinality(A) <= Cardinality(B)
  BY <1>1, FS_Subset
<1>3. Cardinality(B) < n
  BY DEF Lowest
<1>4. Cardinality(A) \in Nat /\ Cardinality(B) \in Nat
  BY <1>1, FS_Subset, FS_CardinalityType
<1>5. Cardinality(A) < n
  BY <1>2, <1>3, <1>4
<1>6. QED BY <1>5 DEF Lowest

\* A page in descending order holds the ids above any id it holds.
LEMMA HighestIsUpClosed ==
  ASSUME NEW S \in SUBSET Nat, NEW b \in Nat, \A i \in S : i <= b, NEW n \in Nat,
         NEW p \in Highest(S, n), NEW i \in S, p <= i
  PROVE  i \in Highest(S, n)
<1> DEFINE A == {k \in S : k > i}
           B == {k \in S : k > p}
<1>1. IsFiniteSet(B) /\ A \in SUBSET B
  <2>1. IsFiniteSet(S)
    BY FS_BoundedSetOfNaturals
  <2>2. B \in SUBSET S
    OBVIOUS
  <2>3. IsFiniteSet(B)
    BY <2>1, <2>2, FS_Subset
  <2>4. p \in Nat /\ i \in Nat
    BY DEF Highest
  <2>5. \A k \in S : k \in Nat
    OBVIOUS
  <2>6. \A k \in S : k > i => k > p
    BY <2>4, <2>5
  <2>7. A \in SUBSET B
    BY <2>6
  <2>8. QED BY <2>3, <2>7
<1>2. Cardinality(A) <= Cardinality(B)
  BY <1>1, FS_Subset
<1>3. Cardinality(B) < n
  BY DEF Highest
<1>4. Cardinality(A) \in Nat /\ Cardinality(B) \in Nat
  BY <1>1, FS_Subset, FS_CardinalityType
<1>5. Cardinality(A) < n
  BY <1>2, <1>3, <1>4
<1>6. QED BY <1>5 DEF Highest

\* A page that leaves something out is full.
LEMMA HighestIsFull ==
  ASSUME NEW S \in SUBSET Nat, NEW b \in Nat, \A i \in S : i <= b, NEW n \in Nat \ {0},
         NEW x \in S, x \notin Highest(S, n)
  PROVE  Cardinality(Highest(S, n)) = n
<1> DEFINE H == Highest(S, n)
           Out == S \ H
<1>1. IsFiniteSet(S) /\ H \in SUBSET S
  BY FS_BoundedSetOfNaturals DEF Highest
<1>2. PICK y \in Out : \A z \in Out : z <= y
  <2>1. Out \in SUBSET Nat /\ Out # {} /\ \A i \in Out : i <= b
    OBVIOUS
  <2>2. QED BY <2>1, GreatestId
<1> DEFINE U == {k \in S : k > y}
<1>3. U \in SUBSET H
  <2>1. \A k \in S : k \in Nat
    OBVIOUS
  <2>2. \A k \in S : k > y => ~ (k <= y)
    BY <1>2, <2>1
  <2>3. \A k \in U : k \notin Out
    BY <1>2, <2>2
  <2>4. QED BY <2>3
<1>4. ~ (Cardinality(U) < n)
  BY <1>2 DEF Highest
<1>5. IsFiniteSet(H) /\ IsFiniteSet(U)
  BY <1>1, FS_Subset
<1>6. Cardinality(U) <= Cardinality(H) /\ Cardinality(U) \in Nat /\ Cardinality(H) \in Nat
  BY <1>3, <1>5, FS_Subset, FS_CardinalityType
<1>7. H # {}
  <2>1. CASE H = {}
    <3>1. U = {}
      BY <2>1, <1>3
    <3>2. Cardinality(U) = 0
      BY <3>1, FS_EmptySet
    <3>3. QED BY <3>2, <1>4
  <2>2. QED BY <2>1
<1>8. PICK l \in H : \A j \in H : l <= j
  <2>1. H \in SUBSET Nat
    BY <1>1
  <2>2. QED BY <2>1, <1>7, LeastId
<1> DEFINE A == {k \in S : k > l}
<1>9. Cardinality(A) < n /\ IsFiniteSet(A) /\ Cardinality(A) \in Nat
  BY <1>1, <1>8, FS_Subset, FS_CardinalityType DEF Highest
<1>10. l \notin A /\ l \in Nat
  <2>1. l \in Nat
    BY <1>1, <1>8
  <2>2. ~ (l > l)
    BY <2>1
  <2>3. QED BY <2>1, <2>2
<1>11. Cardinality(A \union {l}) = Cardinality(A) + 1 /\ IsFiniteSet(A \union {l})
  BY <1>9, <1>10, FS_AddElement
<1>12. H \in SUBSET (A \union {l})
  <2>1. \A k \in H : k \in S /\ k \in Nat
    BY <1>1
  <2>2. \A k \in H : k > l \/ k = l
    BY <1>8, <1>10, <2>1
  <2>3. QED BY <2>1, <2>2
<1>13. Cardinality(H) <= Cardinality(A) + 1
  BY <1>11, <1>12, FS_Subset
<1>14. QED BY <1>4, <1>6, <1>9, <1>13

-----------------------------------------------------------------------------
(* The invariant                                                           *)

\* The sequence is ahead of every row.
KnownIds ==
  /\ \A m \in messages : m.id < nextId
  /\ \A w \in Writer : \A m \in drafts[w] : m.id < nextId

\* A row is in one open transaction at most, and not yet in the table.
DraftsApart ==
  /\ \A m \in backward.due : m.id < nextId
  /\ \A w \in Writer : \A m \in drafts[w] : m \notin messages /\ m \notin backward.due
  /\ \A v, w \in Writer : v # w => drafts[v] \intersect drafts[w] = {}

\* The request being served carries a cursor of the client as it stands.
RequestCurrent ==
  request.stage # "none" =>
    /\ request.order = "asc" => request.since = forward.last
    /\ request.order = "desc" =>
         request.before = None \/ (backward.more /\ request.before = backward.before)

GotBelow == \A m \in forward.got : m.id <= forward.last

\* What the backward walk has not returned lies below its cursor.
WalkCovers ==
  /\ backward.done => ~ backward.more
  /\ \A m \in messages \intersect backward.due :
       m.account \in backward.common =>
         m \in backward.got \/ (backward.more /\ m.id < backward.before)

IInv ==
  /\ TypeOK
  /\ KnownIds
  /\ DraftsApart
  /\ RequestCurrent
  /\ GotBelow
  /\ NeverTwice
  /\ SkipsOnlyLate
  /\ WalkCovers

LEMMA BoundedIds ==
  ASSUME TypeOK, KnownIds, NEW R \in SUBSET messages
  PROVE  Ids(R) \in SUBSET Nat /\ nextId \in Nat /\ \A i \in Ids(R) : i <= nextId
<1>1. nextId \in Nat /\ \A m \in R : m.id \in Nat /\ m.id < nextId
  BY DEF TypeOK, Row, KnownIds
<1>2. \A m \in R : m.id <= nextId
  BY <1>1
<1>3. QED BY <1>1, <1>2 DEF Ids

\* list_since_id: the page holds the rows in scope from the cursor to the next one.
LEMMA ForwardPageHolds ==
  ASSUME TypeOK, KnownIds
  PROVE  /\ ForwardPage \in SUBSET messages
         /\ NextSince(ForwardPage) \in Nat
         /\ request.since <= NextSince(ForwardPage)
         /\ \A m \in ForwardPage : request.since < m.id /\ m.id <= NextSince(ForwardPage)
         /\ \A m \in messages :
              m.account \in request.scope /\ request.since < m.id
                /\ m.id <= NextSince(ForwardPage) => m \in ForwardPage
<1> DEFINE R == Above(request.since)
           S == Ids(R)
           P == ForwardPage
<1>1. R \in SUBSET messages
  BY DEF Above, InScope
<1>2. S \in SUBSET Nat /\ nextId \in Nat /\ \A i \in S : i <= nextId
  BY <1>1, BoundedIds
<1>3. P = {m \in R : m.id \in Lowest(S, Limit)}
  BY DEF ForwardPage
<1>4. P \in SUBSET R
  BY <1>3
<1>5. \A m \in R : m.id > request.since
  BY DEF Above
<1>6. \A m \in messages : m.account \in request.scope /\ m.id > request.since => m \in R
  BY DEF Above, InScope
<1>7. request.since \in Nat /\ Limit \in Nat /\ \A m \in messages : m.id \in Nat
  BY PullAssumption DEF TypeOK, Row
<1>8. CASE P = {}
  <2>1. NextSince(P) = request.since
    BY <1>8 DEF NextSince
  <2>2. \A m \in messages : ~ (request.since < m.id /\ m.id <= request.since)
    BY <1>7
  <2>3. QED BY <1>1, <1>4, <1>7, <1>8, <2>1, <2>2
<1>9. CASE P # {}
  <2>1. Ids(P) # {} /\ Ids(P) \in SUBSET S
    BY <1>4, <1>9 DEF Ids
  <2>2. \E i \in Ids(P) : \A j \in Ids(P) : j <= i
    BY <1>2, <2>1, GreatestId
  <2>3. NextSince(P) \in Ids(P) /\ \A j \in Ids(P) : j <= NextSince(P)
    BY <1>9, <2>2 DEF NextSince
  <2>4. PICK p \in P : p.id = NextSince(P)
    BY <2>3 DEF Ids
  <2>5. \A m \in P : m.id <= NextSince(P)
    BY <2>3 DEF Ids
  <2>6. p.id \in Lowest(S, Limit) /\ p.id > request.since /\ p \in messages
    BY <1>1, <1>3, <1>4, <1>5
  <2>7. ASSUME NEW m \in R, m.id <= p.id
        PROVE  m \in P
    <3>1. m.id \in S
      BY DEF Ids
    <3>2. m.id \in Lowest(S, Limit)
      BY <1>2, <1>7, <2>6, <2>7, <3>1, LowestIsDownClosed
    <3>3. QED BY <1>3, <3>2
  <2>8. \A m \in P : request.since < m.id
    BY <1>4, <1>5, <1>7, <1>1
  <2>9. request.since <= NextSince(P) /\ NextSince(P) \in Nat
    BY <1>7, <2>4, <2>6
  <2>10. \A m \in messages : m.account \in request.scope /\ request.since < m.id
            /\ m.id <= NextSince(P) => m \in P
    BY <1>6, <1>7, <2>4, <2>7
  <2>11. QED BY <1>1, <1>4, <2>5, <2>8, <2>9, <2>10
<1>10. QED BY <1>8, <1>9

\* list_before_id: what a page leaves out lies below its cursor, and has_more says so.
LEMMA BackwardPageHolds ==
  ASSUME TypeOK, KnownIds
  PROVE  /\ BackwardPage \in SUBSET messages
         /\ NextBefore(BackwardPage) \in Nat
         /\ \A m \in messages :
              m.account \in request.scope /\ (request.before = None \/ m.id < request.before)
                => \/ m \in BackwardPage
                   \/ (HasMore(BackwardPage) /\ m.id < NextBefore(BackwardPage))
<1> DEFINE R == Below(request.before)
           S == Ids(R)
           P == BackwardPage
<1>1. R \in SUBSET messages
  BY DEF Below, InScope
<1>2. S \in SUBSET Nat /\ nextId \in Nat /\ \A i \in S : i <= nextId
  BY <1>1, BoundedIds
<1>3. P = {m \in R : m.id \in Highest(S, Limit)}
  BY DEF BackwardPage
<1>4. P \in SUBSET R
  BY <1>3
<1>5. Limit \in Nat \ {0} /\ Limit \in Nat
  BY PullAssumption
<1>6. Ids(P) = Highest(S, Limit)
  <2>1. Ids(P) \subseteq Highest(S, Limit)
    BY <1>3 DEF Ids
  <2>2. \A i \in Highest(S, Limit) : \E m \in R : m.id = i
    BY DEF Highest, Ids
  <2>3. Highest(S, Limit) \subseteq Ids(P)
    BY <1>3, <2>2 DEF Ids
  <2>4. QED BY <2>1, <2>3
<1>7. P # {} => /\ NextBefore(P) \in Ids(P)
                /\ \A j \in Ids(P) : NextBefore(P) <= j
  <2>1. SUFFICES ASSUME P # {}
                 PROVE  NextBefore(P) \in Ids(P) /\ \A j \in Ids(P) : NextBefore(P) <= j
    OBVIOUS
  <2>2. Ids(P) # {} /\ Ids(P) \in SUBSET Nat
    BY <1>2, <1>4, <2>1 DEF Ids
  <2>3. \E i \in Ids(P) : \A j \in Ids(P) : i <= j
    BY <2>2, LeastId
  <2>4. QED BY <2>1, <2>3 DEF NextBefore
<1>8. NextBefore(P) \in Nat
  <2>1. CASE P = {}
    BY <2>1 DEF NextBefore, None
  <2>2. CASE P # {}
    <3>1. NextBefore(P) \in S
      BY <1>4, <1>7, <2>2 DEF Ids
    <3>2. QED BY <1>2, <3>1
  <2>3. QED BY <2>1, <2>2
<1>9. ASSUME NEW m \in R, m \notin P
      PROVE  HasMore(P) /\ m.id < NextBefore(P)
  <2>1. m.id \in S /\ m.id \notin Highest(S, Limit)
    BY <1>3, <1>9 DEF Ids
  <2>2. Cardinality(Highest(S, Limit)) = Limit
    BY <1>2, <1>5, <2>1, HighestIsFull
  <2>3. HasMore(P)
    BY <1>6, <2>2 DEF HasMore
  <2>4. P # {}
    <3>1. SUFFICES ASSUME P = {} PROVE FALSE
      OBVIOUS
    <3>2. Ids(P) = {}
      BY <3>1 DEF Ids
    <3>3. Cardinality(Ids(P)) = 0
      BY <3>2, FS_EmptySet
    <3>4. QED BY <1>5, <1>6, <2>2, <3>3
  <2>5. NextBefore(P) \in Highest(S, Limit)
    BY <1>6, <1>7, <2>4
  <2>6. ~ (NextBefore(P) <= m.id)
    BY <1>2, <1>5, <2>1, <2>5, HighestIsUpClosed
  <2>7. m.id \in Nat
    BY <1>2, <2>1
  <2>8. QED BY <1>8, <2>3, <2>6, <2>7
<1>10. \A m \in messages :
         m.account \in request.scope /\ (request.before = None \/ m.id < request.before)
           => m \in R
  BY DEF Below, InScope
<1>11. QED BY <1>1, <1>4, <1>8, <1>9, <1>10

-----------------------------------------------------------------------------
(* The invariant is inductive                                              *)

LEMMA InitIInv == Init => IInv
<1> SUFFICES ASSUME Init PROVE IInv
  OBVIOUS
<1>1. PICK A \in SUBSET Account : address \in [A -> Email]
  BY DEF Init
<1>2. DOMAIN address \subseteq Account /\ address \in [DOMAIN address -> Email]
  BY <1>1
<1>3. newest \in Nat
  BY PullAssumption DEF Init
<1>4. TypeOK
  BY <1>2, <1>3 DEF Init, TypeOK, NoRequest, ForwardStart, BackwardStart, None
<1>5. QED
  BY <1>4 DEF Init, IInv, KnownIds, DraftsApart, RequestCurrent, GotBelow, NeverTwice, SkipsOnlyLate,
              WalkCovers, NoRequest, ForwardStart, BackwardStart

\* The inserts and the end of a sync run's transaction.
LEMMA WriterKeepsIInv ==
  ASSUME IInv, NEW w \in Writer, WriterStep(w)
  PROVE  IInv'
<1> USE DEF IInv, TypeOK
<1>1. CASE \E a \in Account, u \in Uid : Insert(w, a, u)
  <2>1. PICK a \in Account, u \in Uid : Insert(w, a, u)
    BY <1>1
  <2> DEFINE new == [id |-> nextId, account |-> a, uid |-> u, email |-> address[a]]
  <2>2. new \in Row
    BY <2>1 DEF Insert, MayInsert, Row
  <2>3. /\ drafts' = [drafts EXCEPT ![w] = @ \union {new}]
        /\ nextId' = nextId + 1
        /\ UNCHANGED <<messages, address, newest, request, forward, backward, changes>>
    BY <2>1 DEF Insert
  <2>4. new.id = nextId
    OBVIOUS
  <2> HIDE DEF new
  <2>5. TypeOK'
    BY <2>2, <2>3
  <2>6. KnownIds'
    <3>1. \A m \in messages : m.id < nextId + 1
      BY DEF KnownIds, Row
    <3>2. ASSUME NEW v \in Writer, NEW m \in drafts'[v]
          PROVE  m.id < nextId + 1
      <4>1. m \in drafts[v] \/ m = new
        BY <2>3
      <4>2. CASE m \in drafts[v]
        BY <4>2 DEF KnownIds, Row
      <4>3. CASE m = new
        BY <2>4, <4>3
      <4>4. QED BY <4>1, <4>2, <4>3
    <3>3. QED BY <2>3, <3>1, <3>2 DEF KnownIds
  <2>7. DraftsApart'
    <3>1. \A m \in backward.due : m.id < nextId + 1
      BY DEF DraftsApart, Row
    <3>2. /\ \A m \in messages \union backward.due : m # new
          /\ \A v \in Writer : new \notin drafts[v]
      BY <2>4 DEF KnownIds, DraftsApart
    <3>3. \A v \in Writer : drafts'[v] = IF v = w THEN drafts[w] \union {new} ELSE drafts[v]
      BY <2>3
    <3>4. \A v \in Writer : \A m \in drafts'[v] : m \notin messages /\ m \notin backward.due
      BY <3>2, <3>3 DEF DraftsApart
    <3>5. \A v, x \in Writer : v # x => drafts'[v] \intersect drafts'[x] = {}
      BY <3>2, <3>3 DEF DraftsApart
    <3>6. QED BY <2>3, <3>1, <3>4, <3>5 DEF DraftsApart
  <2>8. QED
    BY <2>3, <2>5, <2>6, <2>7 DEF RequestCurrent, GotBelow, NeverTwice, SkipsOnlyLate, WalkCovers
<1>2. CASE \E a \in Account, u \in Uid : InsertConflicts(w, a, u)
  <2>1. /\ nextId' = nextId + 1
        /\ UNCHANGED <<messages, drafts, address, newest, request, forward, backward, changes>>
    BY <1>2 DEF InsertConflicts
  <2>2. TypeOK'
    BY <2>1
  <2>3. KnownIds'
    <3>1. \A m \in messages : m.id < nextId + 1
      BY DEF KnownIds, Row
    <3>2. \A v \in Writer : \A m \in drafts[v] : m.id < nextId + 1
      BY DEF KnownIds, Row
    <3>3. QED BY <2>1, <3>1, <3>2 DEF KnownIds
  <2>4. DraftsApart'
    <3>1. \A m \in backward.due : m.id < nextId + 1
      BY DEF DraftsApart, Row
    <3>2. QED BY <2>1, <3>1 DEF DraftsApart
  <2>5. QED
    BY <2>1, <2>2, <2>3, <2>4 DEF RequestCurrent, GotBelow, NeverTwice, SkipsOnlyLate, WalkCovers
<1>3. CASE Commit(w)
  <2> DEFINE Late == {m \in drafts[w] : m.id <= forward.last}
  <2>1. /\ messages' = messages \union drafts[w]
        /\ drafts' = [drafts EXCEPT ![w] = {}]
        /\ forward' = [forward EXCEPT !.late = @ \union Late]
        /\ UNCHANGED <<nextId, address, newest, request, backward, changes>>
    BY <1>3 DEF Commit
  <2>2. Late \subseteq Row
    OBVIOUS
  <2>3. \A m \in drafts[w] : m.id <= forward.last => m \in Late
    OBVIOUS
  <2> HIDE DEF Late
  <2>4. /\ forward'.last = forward.last /\ forward'.got = forward.got
        /\ forward'.twice = forward.twice /\ forward'.common = forward.common
        /\ forward'.late = forward.late \union Late
    BY <2>1
  <2>5. TypeOK'
    BY <2>1, <2>2
  <2>6. KnownIds'
    BY <2>1 DEF KnownIds
  <2>7. SkipsOnlyLate'
    BY <2>1, <2>3, <2>4 DEF SkipsOnlyLate
  <2>8. RequestCurrent' /\ GotBelow' /\ NeverTwice'
    BY <2>1, <2>4 DEF RequestCurrent, GotBelow, NeverTwice
  <2>9. WalkCovers'
    BY <2>1 DEF WalkCovers, DraftsApart
  <2>10. DraftsApart'
    <3>1. \A v \in Writer : drafts'[v] = IF v = w THEN {} ELSE drafts[v]
      BY <2>1
    <3>2. QED BY <2>1, <3>1 DEF DraftsApart
  <2>11. QED BY <2>5, <2>6, <2>7, <2>8, <2>9, <2>10
<1>4. CASE Rollback(w)
  <2>1. /\ drafts' = [drafts EXCEPT ![w] = {}]
        /\ UNCHANGED <<messages, nextId, address, newest, request, forward, backward, changes>>
    BY <1>4 DEF Rollback
  <2>2. TypeOK'
    BY <2>1
  <2>3. QED
    BY <2>1, <2>2 DEF KnownIds, DraftsApart, RequestCurrent, GotBelow, NeverTwice, SkipsOnlyLate, WalkCovers
<1>5. QED BY <1>1, <1>2, <1>3, <1>4 DEF WriterStep

\* Mailboxes created, renamed and deleted, messages deleted: rows only go away.
LEMMA MailboxKeepsIInv ==
  ASSUME IInv, MailboxStep
  PROVE  IInv'
<1> USE DEF IInv
<1>1. /\ messages' \subseteq messages
      /\ UNCHANGED <<drafts, nextId, request, forward, backward>>
  BY DEF MailboxStep, CreateMailbox, Rename, DeleteMailbox, Expire
<1>2. changes' \in Nat
  <2>1. Change
    BY DEF MailboxStep, CreateMailbox, Rename, DeleteMailbox, Expire
  <2>2. QED BY <2>1 DEF Change, TypeOK
<1>3. newest' \in Nat
  BY PullAssumption DEF MailboxStep, CreateMailbox, Rename, DeleteMailbox, Expire, TypeOK
<1>4. DOMAIN address' \subseteq Account /\ address' \in [DOMAIN address' -> Email]
  <2>1. CASE \E a \in Account, e \in Email : CreateMailbox(a, e)
    BY <2>1 DEF CreateMailbox, TypeOK
  <2>2. CASE \E a \in Account, e \in Email : Rename(a, e)
    <3>1. PICK a \in DOMAIN address, e \in Email : address' = [address EXCEPT ![a] = e]
      BY <2>2 DEF Rename, Unlocked
    <3>2. DOMAIN address' = DOMAIN address
      BY <3>1
    <3>3. address' \in [DOMAIN address -> Email]
      BY <3>1 DEF TypeOK
    <3>4. QED BY <3>2, <3>3 DEF TypeOK
  <2>3. CASE \E a \in Account : DeleteMailbox(a)
    BY <2>3 DEF DeleteMailbox, TypeOK
  <2>4. CASE \E R \in SUBSET messages : Expire(R)
    BY <2>4 DEF Expire, TypeOK
  <2>5. QED BY <2>1, <2>2, <2>3, <2>4 DEF MailboxStep
<1>5. TypeOK'
  BY <1>1, <1>2, <1>3, <1>4 DEF TypeOK
<1>6. QED
  BY <1>1, <1>5 DEF KnownIds, DraftsApart, RequestCurrent, GotBelow, NeverTwice, SkipsOnlyLate,
                    WalkCovers

\* The statements of a request, and what the client makes of its answer.
LEMMA ClientKeepsIInv ==
  ASSUME IInv, ClientAsks \/ ResolveScope \/ AnswerForward \/ AnswerBackward \/ AnswerLost
  PROVE  IInv'
<1> USE DEF IInv
<1>1. CASE ClientAsks
  <2>1. PICK order \in {"asc", "desc", "other"}, since \in {0, forward.last},
             before \in {None, backward.before}, filter \in Filter :
               Ask(order, since, before, filter)
    BY <1>1 DEF ClientAsks
  <2>2. order \in {"asc", "desc"}
    BY <2>1 DEF Ask, Refusal
  <2>3. since \in Nat /\ before \in Nat /\ filter \in SUBSET Account
    BY PullAssumption DEF TypeOK, None
  <2>4. /\ request' = [stage |-> "asked", order |-> order, since |-> since,
                       before |-> before, filter |-> filter, scope |-> {}]
        /\ UNCHANGED <<messages, drafts, nextId, address, newest, forward, backward, changes>>
        /\ order = "asc" => since = forward.last
        /\ order = "desc" => before = None \/ backward.more
    BY <2>1 DEF Ask, NoRequest
  <2>5. TypeOK'
    BY <2>2, <2>3, <2>4 DEF TypeOK
  <2>6. RequestCurrent'
    BY <2>4 DEF RequestCurrent
  <2>7. QED
    BY <2>4, <2>5, <2>6 DEF KnownIds, DraftsApart, GotBelow, NeverTwice, SkipsOnlyLate, WalkCovers
<1>2. CASE ResolveScope
  <2>1. /\ request' = [request EXCEPT !.stage = "scoped", !.scope = Narrowed(request.filter)]
        /\ request.stage = "asked"
        /\ UNCHANGED <<messages, drafts, nextId, address, newest, forward, backward, changes>>
    BY <1>2 DEF ResolveScope
  <2>2. Narrowed(request.filter) \in SUBSET Account
    BY DEF Narrowed, Canonical, TypeOK
  <2>3. TypeOK'
    BY <2>1, <2>2 DEF TypeOK
  <2>4. RequestCurrent'
    BY <2>1 DEF RequestCurrent, TypeOK
  <2>5. QED
    BY <2>1, <2>3, <2>4 DEF KnownIds, DraftsApart, GotBelow, NeverTwice, SkipsOnlyLate, WalkCovers
<1>3. CASE AnswerForward
  <2> DEFINE P == ForwardPage
             last == NextSince(ForwardPage)
  <2>1. /\ P \in SUBSET messages
        /\ last \in Nat
        /\ request.since <= last
        /\ \A m \in P : request.since < m.id /\ m.id <= last
        /\ \A m \in messages :
             m.account \in request.scope /\ request.since < m.id /\ m.id <= last => m \in P
    BY ForwardPageHolds
  <2>2. request.since = forward.last
    BY <1>3 DEF AnswerForward, RequestCurrent
  <2>3. /\ forward' = [forward EXCEPT !.last = last, !.got = @ \union P,
                         !.twice = @ \union (forward.got \intersect P),
                         !.common = @ \intersect request.scope]
        /\ request' = NoRequest
        /\ UNCHANGED <<messages, drafts, nextId, address, newest, backward, changes>>
    BY <1>3 DEF AnswerForward
  <2>4. P \subseteq Row
    BY <2>1 DEF TypeOK
  <2> HIDE DEF P, last
  <2>5. /\ forward'.last = last /\ forward'.got = forward.got \union P
        /\ forward'.twice = forward.twice \union (forward.got \intersect P)
        /\ forward'.common = forward.common \intersect request.scope
        /\ forward'.late = forward.late
    BY <2>3 DEF TypeOK
  <2>6. TypeOK'
    <3>1. forward' \in [last : Nat, got : SUBSET Row, twice : SUBSET Row, late : SUBSET Row,
                        common : SUBSET Account]
      BY <2>1, <2>3, <2>4 DEF TypeOK
    <3>2. NoRequest \in [stage : {"none", "asked", "scoped"}, order : {"asc", "desc"},
             since : Nat, before : Nat, filter : SUBSET Account, scope : SUBSET Account]
      BY DEF NoRequest, None
    <3>3. QED BY <2>3, <3>1, <3>2 DEF TypeOK
  <2>7. RequestCurrent'
    BY <2>3 DEF RequestCurrent, NoRequest
  <2>8. \A m \in messages \union forward.got : m.id \in Nat
    BY DEF TypeOK, Row
  <2>9. forward.last \in Nat
    BY DEF TypeOK
  <2>10. GotBelow'
    BY <2>1, <2>2, <2>5, <2>8, <2>9 DEF GotBelow
  <2>11. NeverTwice'
    <3>1. \A m \in P : m \notin forward.got
      BY <2>1, <2>2, <2>8, <2>9 DEF GotBelow
    <3>2. QED BY <2>5, <3>1 DEF NeverTwice
  <2>12. SkipsOnlyLate'
    <3>1. ASSUME NEW m \in messages, m.id <= last, m.account \in forward.common,
                 m.account \in request.scope
          PROVE  m \in forward.got \union P \union forward.late
      <4>1. CASE m.id <= forward.last
        BY <3>1, <4>1 DEF SkipsOnlyLate
      <4>2. CASE forward.last < m.id
        BY <2>1, <2>2, <3>1, <4>2
      <4>3. QED BY <2>8, <2>9, <4>1, <4>2
    <3>2. QED BY <2>3, <2>5, <3>1 DEF SkipsOnlyLate
  <2>13. QED
    BY <2>3, <2>6, <2>7, <2>10, <2>11, <2>12 DEF KnownIds, DraftsApart, WalkCovers
<1>4. CASE AnswerBackward
  <2> DEFINE P == BackwardPage
             before == NextBefore(BackwardPage)
             more == HasMore(BackwardPage)
             got == Walk.got
             due == Walk.due
             common == Walk.common
  <2>1. /\ P \in SUBSET messages
        /\ before \in Nat
        /\ \A m \in messages :
             m.account \in request.scope /\ (request.before = None \/ m.id < request.before)
               => m \in P \/ (more /\ m.id < before)
    BY BackwardPageHolds
  <2>2. more \in BOOLEAN
    BY DEF HasMore
  <2>3. request.before = None \/ (backward.more /\ request.before = backward.before)
    BY <1>4 DEF AnswerBackward, RequestCurrent
  <2>5. got \subseteq Row /\ due \subseteq Row /\ common \subseteq Account
    <3>1. CASE request.before = None
      BY <3>1 DEF Walk, BackwardStart, TypeOK
    <3>2. CASE request.before # None
      BY <3>2 DEF Walk, TypeOK
    <3>3. QED BY <3>1, <3>2
  <2>6. ASSUME NEW m \in messages, m \in due, m.account \in common
        PROVE  m \in got \/ request.before = None \/ m.id < request.before
    <3>1. CASE request.before # None
      <4>1. Walk = backward
        BY <3>1 DEF Walk
      <4>2. QED BY <2>3, <2>6, <3>1, <4>1 DEF WalkCovers
    <3>2. QED BY <3>1
  <2>7. due = messages \/ due = backward.due
    BY DEF Walk, BackwardStart
  <2>8. /\ backward' = [before |-> before, got |-> got \union P, due |-> due,
                        common |-> common \intersect request.scope, more |-> more,
                        done |-> ~ more]
        /\ request' = NoRequest
        /\ UNCHANGED <<messages, drafts, nextId, address, newest, forward, changes>>
    BY <1>4 DEF AnswerBackward
  <2>9. P \subseteq Row
    BY <2>1 DEF TypeOK
  <2> HIDE DEF P, before, more, got, due, common
  <2>10. /\ backward'.before = before /\ backward'.got = got \union P /\ backward'.due = due
         /\ backward'.common = common \intersect request.scope
         /\ backward'.more = more /\ backward'.done = ~ more
    BY <2>8
  <2>11. TypeOK'
    <3>1. backward' \in [before : Nat, got : SUBSET Row, due : SUBSET Row,
                         common : SUBSET Account, more : BOOLEAN, done : BOOLEAN]
      BY <2>1, <2>2, <2>5, <2>8, <2>9
    <3>2. NoRequest \in [stage : {"none", "asked", "scoped"}, order : {"asc", "desc"},
             since : Nat, before : Nat, filter : SUBSET Account, scope : SUBSET Account]
      BY DEF NoRequest, None
    <3>3. QED BY <2>8, <3>1, <3>2 DEF TypeOK
  <2>12. RequestCurrent'
    BY <2>8 DEF RequestCurrent, NoRequest
  <2>13. DraftsApart'
    <3>1. \A m \in due : m.id < nextId
      BY <2>7 DEF DraftsApart, KnownIds
    <3>2. \A w \in Writer : \A m \in drafts[w] : m \notin messages /\ m \notin due
      BY <2>7 DEF DraftsApart
    <3>3. QED BY <2>8, <2>10, <3>1, <3>2 DEF DraftsApart
  <2>14. WalkCovers'
    <3>1. ASSUME NEW m \in messages, m \in due, m.account \in common,
                 m.account \in request.scope
          PROVE  m \in got \union P \/ (more /\ m.id < before)
      BY <2>1, <2>6, <3>1
    <3>2. QED BY <2>2, <2>8, <2>10, <3>1 DEF WalkCovers
  <2>15. QED
    BY <2>8, <2>11, <2>12, <2>13, <2>14 DEF KnownIds, GotBelow, NeverTwice, SkipsOnlyLate
<1>5. CASE AnswerLost
  <2>1. /\ request' = NoRequest
        /\ UNCHANGED <<messages, drafts, nextId, address, newest, forward, backward, changes>>
    BY <1>5 DEF AnswerLost
  <2>2. NoRequest \in [stage : {"none", "asked", "scoped"}, order : {"asc", "desc"},
          since : Nat, before : Nat, filter : SUBSET Account, scope : SUBSET Account]
    BY DEF NoRequest, None
  <2>3. TypeOK'
    BY <2>1, <2>2 DEF TypeOK
  <2>4. RequestCurrent'
    BY <2>1 DEF RequestCurrent, NoRequest
  <2>5. QED
    BY <2>1, <2>3, <2>4 DEF KnownIds, DraftsApart, GotBelow, NeverTwice, SkipsOnlyLate, WalkCovers
<1>6. QED BY <1>1, <1>2, <1>3, <1>4, <1>5

LEMMA NextIInv == IInv /\ [Next]_vars => IInv'
<1> SUFFICES ASSUME IInv, [Next]_vars PROVE IInv'
  OBVIOUS
<1>1. CASE \E w \in Writer : WriterStep(w)
  BY <1>1, WriterKeepsIInv
<1>2. CASE MailboxStep
  BY <1>2, MailboxKeepsIInv
<1>3. CASE ClientAsks \/ ResolveScope \/ AnswerForward \/ AnswerBackward \/ AnswerLost
  BY <1>3, ClientKeepsIInv
<1>4. CASE UNCHANGED vars
  BY <1>4 DEF vars, IInv, TypeOK, KnownIds, DraftsApart, RequestCurrent, GotBelow, NeverTwice,
              SkipsOnlyLate, WalkCovers
<1>5. QED BY <1>1, <1>2, <1>3, <1>4 DEF Next

LEMMA InductiveInvariant == Spec => []IInv
BY InitIInv, NextIInv, PTL DEF Spec

\* The state of the API, of its writers and of its client has its type.
THEOREM TypeCorrect == Spec => []TypeOK
<1>1. IInv => TypeOK
  BY DEF IInv
<1>2. QED BY <1>1, InductiveInvariant, PTL

\* list_since_id under any cursor of the client: no message is returned twice.
THEOREM NothingTwice == Spec => []NeverTwice
<1>1. IInv => NeverTwice
  BY DEF IInv
<1>2. QED BY <1>1, InductiveInvariant, PTL

\* list_since_id: what the forward walk leaves out was committed late.
THEOREM OnlyLateSkipped == Spec => []SkipsOnlyLate
<1>1. IInv => SkipsOnlyLate
  BY DEF IInv
<1>2. QED BY <1>1, InductiveInvariant, PTL

\* list_before_id and has_more: a finished backward walk left nothing out.
THEOREM BackwardWalkComplete == Spec => []HistoryComplete
<1>1. IInv => HistoryComplete
  BY DEF IInv, WalkCovers, HistoryComplete
<1>2. QED BY <1>1, InductiveInvariant, PTL
=============================================================================
