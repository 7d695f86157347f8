----------------------------- MODULE RedisQueue -----------------------------
(***************************************************************************)
(* The Redis lists crm_push_queue and crm_status_queue.  Writers LPUSH and *)
(* dispatchers LPOP with a count, both at the head: the list is a stack.   *)
(* Index 1 of the sequence is the head of the list.                        *)
(***************************************************************************)
EXTENDS IdOrder

\* LPUSH key e1 e2 ... en: each element in turn becomes the new head.
LPush(items, q) == Reverse(items) \o q

PopLen(q, count) == IF Len(q) < count THEN Len(q) ELSE count

\* LPOP key count: what it returns, and what it leaves.
LPopped(q, count) == SubSeq(q, 1, PopLen(q, count))
LPopRest(q, count) == SubSeq(q, PopLen(q, count) + 1, Len(q))
=============================================================================
