------------------------------ MODULE EdgeLists ------------------------------
(***************************************************************************)
(* The sparse adjacency lists of the TempoGraph policy, as tempograph.c    *)
(* keeps them and its port to libCacheSim (Tempograph.c) repeats them: how *)
(* the out-edges of a node grow, are looked up and decay.                  *)
(***************************************************************************)
EXTENDS Integers, Sequences

CONSTANTS
  MAX_EDGES_PER_NODE,
  DECAY_DIV,           \* 2^DECAY_SHIFT: w >> DECAY_SHIFT is w \div DECAY_DIV
  MAX_WEIGHT           \* largest value of the uint16_t weight of an edge

ASSUME GraphAssumption  ==
  /\ MAX_EDGES_PER_NODE \in Nat \ {0}
  /\ DECAY_DIV \in Nat /\ DECAY_DIV >= 2
  /\ MAX_WEIGHT \in Nat \ {0}

\* The first edge of the list with the lowest weight: the one overflow replaces.
WeakestEdge(list) ==
  CHOOSE i \in DOMAIN list : \A j \in DOMAIN list :
    list[i].w < list[j].w \/ (list[i].w = list[j].w /\ i <= j)

\* Mutants of adj_inc: the search for an existing edge is missing; overflow counts
\* on from the weight of the edge it replaces.
adj_inc_blind(list, v) ==
  IF Len(list) < MAX_EDGES_PER_NODE
  THEN Append(list, [dst |-> v, w |-> 1])
  ELSE [list EXCEPT ![WeakestEdge(list)] = [dst |-> v, w |-> 1]]
adj_inc_inherit(list, v) ==
  IF \E i \in DOMAIN list : list[i].dst = v
  THEN [i \in DOMAIN list |-> IF list[i].dst = v /\ list[i].w < MAX_WEIGHT
                             THEN [list[i] EXCEPT !.w = @ + 1] ELSE list[i]]
  ELSE IF Len(list) < MAX_EDGES_PER_NODE
       THEN Append(list, [dst |-> v, w |-> 1])
       ELSE [list EXCEPT ![WeakestEdge(list)] = [dst |-> v, w |-> @.w + 1]]

\* w(u -> v) + 1 in the out-edges of u, saturating, inserting or replacing.
adj_inc(list, v) ==
  IF \E i \in DOMAIN list : list[i].dst = v
  THEN LET i == CHOOSE k \in DOMAIN list :
                  list[k].dst = v /\ \A j \in 1..(k - 1) : list[j].dst # v
       IN [list EXCEPT ![i].w = IF @ < MAX_WEIGHT THEN @ + 1 ELSE @]
  ELSE IF Len(list) < MAX_EDGES_PER_NODE
       THEN Append(list, [dst |-> v, w |-> 1])
       ELSE [list EXCEPT ![WeakestEdge(list)] = [dst |-> v, w |-> 1]]

adj_weight(list, v) ==
  IF \E i \in DOMAIN list : list[i].dst = v
  THEN list[CHOOSE i \in DOMAIN list :
              list[i].dst = v /\ \A j \in 1..(i - 1) : list[j].dst # v].w
  ELSE 0

\* Mutant of Decayed: the decrement is rounded up, so light edges die.
DecayedRoundUp(w) == w - ((w + DECAY_DIV - 1) \div DECAY_DIV)

\* The weight one decay sweep leaves: w - (w >> DECAY_SHIFT).
Decayed(w) == w - (w \div DECAY_DIV)

\* One turn of the inner loop of apply_decay at position s.i of s.list.
DecayStep(s) ==
  LET w == Decayed(s.list[s.i].w)
      n == Len(s.list)
  IN IF w = 0
     THEN [list |-> SubSeq([s.list EXCEPT ![s.i] = s.list[n]], 1, n - 1), i |-> s.i]
     ELSE [list |-> [s.list EXCEPT ![s.i].w = w], i |-> s.i + 1]

\* The inner loop of apply_decay: every turn consumes one edge of the list.
DecayList(list) ==
  LET turn[k \in 0..Len(list)] ==
        IF k = 0 THEN [list |-> list, i |-> 1] ELSE DecayStep(turn[k - 1])
  IN turn[Len(list)].list
==============================================================================
