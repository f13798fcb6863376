------------------------------ MODULE LinkedList ------------------------------
(***************************************************************************)
(* A doubly linked list, link by link: the pointers head and tail, and the *)
(* fields prev and next of every node, all set by hand.  The operations    *)
(* are those of lru.c; dl_remove and dl_push_front of arc.c are the same.  *)
(***************************************************************************)
EXTENDS Integers, Sequences, FiniteSets

NULL == -1

\* No node of S is on the list.
Unlinked(S) == [head |-> NULL, tail |-> NULL,
                prev |-> [n \in S |-> NULL], next |-> [n \in S |-> NULL]]

\* link[x] = y, when x is a node.
Link(link, x, y) == IF x = NULL THEN link ELSE [link EXCEPT ![x] = y]

\* Mutant of list_remove: the tail is not moved.
list_remove_not_tail(l, n) ==
  [head |-> IF l.prev[n] = NULL THEN l.next[n] ELSE l.head,
   tail |-> l.tail,
   prev |-> [Link(l.prev, l.next[n], l.prev[n]) EXCEPT ![n] = NULL],
   next |-> [Link(l.next, l.prev[n], l.next[n]) EXCEPT ![n] = NULL]]

list_remove(l, n) ==
  [head |-> IF l.prev[n] = NULL THEN l.next[n] ELSE l.head,
   tail |-> IF l.next[n] = NULL THEN l.prev[n] ELSE l.tail,
   prev |-> [Link(l.prev, l.next[n], l.prev[n]) EXCEPT ![n] = NULL],
   next |-> [Link(l.next, l.prev[n], l.next[n]) EXCEPT ![n] = NULL]]

list_push_front(l, n) ==
  [head |-> n,
   tail |-> IF l.tail = NULL THEN n ELSE l.tail,
   prev |-> Link([l.prev EXCEPT ![n] = NULL], l.head, n),
   next |-> [l.next EXCEPT ![n] = l.head]]

\* The nodes met from x on along link, max + 1 of them at most: a walk that does not
\* end is cut short, and is then too long or meets a node twice.
WalkFrom(link, x, max) ==
  LET at[k \in 0..max] ==
        IF k = 0 THEN x ELSE IF at[k - 1] = NULL THEN NULL ELSE link[at[k - 1]]
      met == Cardinality({k \in 0..max : at[k] # NULL})
  IN [k \in 1..met |-> at[k - 1]]
===============================================================================
