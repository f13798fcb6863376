------------------------------- MODULE ObjList -------------------------------
(***************************************************************************)
(* The doubly linked list libCacheSim threads through its cached objects   *)
(* (cacheObj.c): queue.prev and queue.next of every object, q_head and     *)
(* q_tail of the cache, the newest object at the head.                     *)
(***************************************************************************)
EXTENDS LinkedList

CONSTANT Objs            \* object ids

ASSUME ObjsAssumption == Objs \subseteq Nat /\ IsFiniteSet(Objs)

EmptyList == Unlinked(Objs)

remove_obj_from_list(q, o) ==
  [head |-> IF o = q.head THEN q.next[o] ELSE q.head,
   tail |-> IF o = q.tail THEN q.prev[o] ELSE q.tail,
   prev |-> [Link(q.prev, q.next[o], q.prev[o]) EXCEPT ![o] = NULL],
   next |-> [Link(q.next, q.prev[o], q.next[o]) EXCEPT ![o] = NULL]]

\* Mutant of move_obj_to_head: the tail's case is missing.
move_obj_to_head_not_tail(q, o) ==
  IF q.head = q.tail \/ o = q.head THEN q
  ELSE [head |-> o,
        tail |-> q.tail,
        prev |-> [Link(q.prev, q.next[o], q.prev[o]) EXCEPT ![q.head] = o, ![o] = NULL],
        next |-> [q.next EXCEPT ![q.prev[o]] = q.next[o], ![o] = q.head]]

move_obj_to_head(q, o) ==
  IF q.head = q.tail \/ o = q.head THEN q
  ELSE [head |-> o,
        tail |-> IF o = q.tail THEN q.prev[o] ELSE q.tail,
        prev |-> [Link(q.prev, q.next[o], q.prev[o]) EXCEPT ![q.head] = o, ![o] = NULL],
        next |-> [q.next EXCEPT ![q.prev[o]] = q.next[o], ![o] = q.head]]

prepend_obj_to_head(q, o) ==
  [head |-> o,
   tail |-> IF q.tail = NULL THEN o ELSE q.tail,
   prev |-> Link([q.prev EXCEPT ![o] = NULL], q.head, o),
   next |-> [q.next EXCEPT ![o] = q.head]]

\* The tail is cut off by hand (FIFO.c, LRU.c); its links are freed with it.
CutTail(q) ==
  LET p == q.prev[q.tail] IN
  [head |-> IF p = NULL THEN NULL ELSE q.head,
   tail |-> p,
   prev |-> [q.prev EXCEPT ![q.tail] = NULL],
   next |-> Link(q.next, p, NULL)]

\* No list is longer than the number of objects.
TowardsHead(q, o) == WalkFrom(q.prev, o, Cardinality(Objs))
TowardsTail(q, o) == WalkFrom(q.next, o, Cardinality(Objs))
===============================================================================
