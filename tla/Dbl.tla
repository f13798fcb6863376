--------------------------------- MODULE Dbl ---------------------------------
(***************************************************************************)
(* The directory ARC promises to keep: two lists of pages in order of last *)
(* use, L1 for the pages used once since they entered it and L2 for those  *)
(* used again, together at most 2*c pages.  It says nothing of residency.  *)
(* Module Arc is shown to implement it with L1 = T1 \o B1, L2 = T2 \o B2.  *)
(***************************************************************************)
EXTENDS Lists

CONSTANTS Pages, Capacities

VARIABLES L1, L2, c

vars == <<L1, L2, c>>

Init == L1 = <<>> /\ L2 = <<>> /\ c = 0

Configure(n) == L1' = <<>> /\ L2' = <<>> /\ c' = n

\* A page of the directory moves, or returns, to the head of L2.
Again(x) ==
  /\ \/ x \in Members(L1) /\ L1' = Remove(L1, x) /\ L2' = PushFront(L2, x)
     \/ x \in Members(L2) /\ L1' = L1 /\ L2' = PushFront(Remove(L2, x), x)
  /\ UNCHANGED c

\* A page enters at the head of L1.  L1 gives up its last page when it is full, else
\* L2 does when the directory is.
Enter(x) ==
  /\ c > 0 /\ x \notin Members(L1) \cup Members(L2)
  /\ \/ /\ Len(L1) = c
        /\ L1' = PushFront(PopTail(L1), x) /\ L2' = L2
     \/ /\ Len(L1) < c /\ Len(L1) + Len(L2) = 2 * c
        /\ L1' = PushFront(L1, x) /\ L2' = PopTail(L2)
     \/ /\ Len(L1) < c /\ Len(L1) + Len(L2) < 2 * c
        /\ L1' = PushFront(L1, x) /\ L2' = L2
  /\ UNCHANGED c

Next ==
  \/ \E n \in Capacities \cup {0} : Configure(n)
  \/ \E x \in Pages : Again(x) \/ Enter(x)

Spec == Init /\ [][Next]_vars
===============================================================================
