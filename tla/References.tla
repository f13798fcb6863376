------------------------------ MODULE References ------------------------------
(***************************************************************************)
(* References for the counts of the simulator, as functions of the trace s *)
(* a policy sees and the number m of its frames: what the optimum faults,  *)
(* what LRU does by stack distances, and the traces that are scans.        *)
(***************************************************************************)
EXTENDS Integers, Sequences, FiniteSets

\* The pages of accesses j to k.
PagesIn(s, j, k) == {s[l] : l \in j..k}

\* LRU by stack distances: an access faults when its page is new or m others
\* were used since its last use.
LastBefore(s, j) == {k \in 1..(j - 1) : s[k] = s[j] /\ s[j] \notin PagesIn(s, k + 1, j - 1)}
IsFar(m, s, j) == \A k \in LastBefore(s, j) : Cardinality(PagesIn(s, k + 1, j - 1)) >= m
StackDistanceFaults(m, s) == Cardinality({j \in DOMAIN s : IsFar(m, s, j)})

\* The optimum: on a fault without a free frame the page used again last is evicted.
NextUse(s, x, j) ==
  IF \E k \in (j + 1)..Len(s) : s[k] = x
  THEN CHOOSE k \in (j + 1)..Len(s) : s[k] = x /\ x \notin PagesIn(s, j + 1, k - 1)
  ELSE Len(s) + 1
Furthest(s, S, j) == CHOOSE x \in S : \A y \in S : NextUse(s, y, j) <= NextUse(s, x, j)
Served(m, s, o, j) ==
  IF s[j] \in o.resident THEN o
  ELSE [resident |-> {s[j]} \cup (IF Cardinality(o.resident) < m THEN o.resident
                                  ELSE o.resident \ {Furthest(s, o.resident, j)}),
        faults   |-> o.faults + 1]
Optimal(m, s) ==
  LET opt[j \in 0..Len(s)] ==
        IF j = 0 THEN [resident |-> {}, faults |-> 0] ELSE Served(m, s, opt[j - 1], j)
  IN opt

\* A scan: the same k pages in the same order, twice at least.
IsScan(s, k) ==
  /\ Len(s) >= 2 * k
  /\ Cardinality(PagesIn(s, 1, k)) = k
  /\ \A j \in (k + 1)..Len(s) : s[j] = s[j - k]
===============================================================================
