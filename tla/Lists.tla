-------------------------------- MODULE Lists --------------------------------
(***************************************************************************)
(* The doubly linked lists of lru.c and arc.c, as sequences of distinct    *)
(* pages with the head (most recently used end) first, and the recency     *)
(* order of a trace, kept the same way.                                    *)
(***************************************************************************)
EXTENDS Integers, Sequences

\* The pages on a list.
Members(s) == {s[i] : i \in DOMAIN s}
Distinct(s) == \A i, j \in DOMAIN s : s[i] = s[j] => i = j

Position(s, x) == CHOOSE i \in DOMAIN s : s[i] = x

\* The list without x, which is on it.
Remove(s, x) ==
  [j \in 1..(Len(s) - 1) |-> IF j < Position(s, x) THEN s[j] ELSE s[j + 1]]

PushFront(s, x) == [j \in 1..(Len(s) + 1) |-> IF j = 1 THEN x ELSE s[j - 1]]

\* The same list read from the other end.
Backwards(s) == [i \in DOMAIN s |-> s[Len(s) + 1 - i]]

Tip(s) == s[Len(s)]
PopTail(s) == [j \in 1..(Len(s) - 1) |-> s[j]]

\* The pages seen so far in order of last use, after one more use of x.
Used(s, x) == PushFront(IF x \in Members(s) THEN Remove(s, x) ELSE s, x)

Smaller(a, b) == IF a < b THEN a ELSE b
Prefix(s, n) == [j \in 1..Smaller(n, Len(s)) |-> s[j]]
===============================================================================
