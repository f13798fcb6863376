--------------------------- MODULE TempoGraphProofs ---------------------------
(***************************************************************************)
(* Proofs that every behaviour of TempoGraph, for every value of its       *)
(* constants, keeps its types, its frame pool, its recency list, its graph *)
(* and its window consistent, and implements demand paging.                *)
(***************************************************************************)
EXTENDS TempoGraphProperties, ListProofs

USE DEF EMPTY, NIL

-------------------------------------------------------------------------------
(* The recency list.                                                       *)

ListType == [prev : [Slots -> Slots \cup {NIL}], next : [Slots -> Slots \cup {NIL}],
             head : Slots \cup {NIL}, tail : Slots \cup {NIL}]

\* lru_unlink (tempograph.c:142-147) yields pointers to slots or NIL.
LEMMA UnlinkType ==
  ASSUME NEW l \in ListType, NEW f \in Slots
  PROVE  lru_unlink(l, f) \in ListType
BY DEF ListType, lru_unlink, Slots

\* lru_push_head (tempograph.c:149-155) yields pointers to slots or NIL.
LEMMA PushType ==
  ASSUME NEW l \in ListType, NEW f \in Slots
  PROVE  lru_push_head(l, f) \in ListType
BY DEF ListType, lru_push_head, Slots

\* page_idx maps every page number to a node of the graph.
LEMMA PageIdxType ==
  ASSUME NEW p \in Nat
  PROVE  page_idx(p) \in Nodes
BY UniqueAssumption DEF page_idx, Nodes

\* Unlinking a frame leaves the others threaded in the same order.
LEMMA UnlinkThreads ==
  ASSUME NEW l \in ListType, NEW S \in SUBSET Slots, NEW t \in [Slots -> Nat],
         Threads(l, S, t), NEW f \in S
  PROVE  Threads(lru_unlink(l, f), S \ {f}, t)
<1> DEFINE m == lru_unlink(l, f)
           R == S \ {f}
<1>0. NIL \notin Slots /\ f \in Slots
  BY DEF Slots
<1>1. IsNewestOf(m.head, R, t)
  BY <1>0 DEF Threads, lru_unlink, IsNewestOf, IsOldestOf, ListType
<1>2. IsOldestOf(m.tail, R, t)
  BY <1>0 DEF Threads, lru_unlink, IsNewestOf, IsOldestOf, ListType
<1>3. ASSUME NEW g \in R PROVE IsNewestOf(m.next[g], {e \in R : t[e] < t[g]}, t)
  <2>1. IsNewestOf(l.next[g], {e \in S : t[e] < t[g]}, t)
    BY DEF Threads
  <2>2. IsNewestOf(l.next[f], {e \in S : t[e] < t[f]}, t)
    BY DEF Threads
  <2>3. IsOldestOf(l.prev[f], {e \in S : t[e] > t[f]}, t)
    BY DEF Threads
  <2>4. g \in Slots /\ g # f /\ t[g] # t[f] /\ (l.prev[f] # NIL => l.prev[f] \in Slots)
    BY DEF Threads, ListType
  <2>5. CASE l.prev[f] = g
    <3>1. m.next[g] = l.next[f]
      BY <1>0, <2>4, <2>5 DEF lru_unlink, ListType
    <3>2. {e \in R : t[e] < t[g]} = {e \in S : t[e] < t[f]}
      BY <1>0, <2>3, <2>4, <2>5 DEF IsOldestOf, Threads
    <3> QED BY <2>2, <3>1, <3>2
  <2>6. CASE l.prev[f] # g
    <3>1. m.next[g] = l.next[g]
      BY <1>0, <2>4, <2>6 DEF lru_unlink, ListType
    <3>2. l.next[g] # f
      BY <1>0, <2>1, <2>3, <2>4, <2>6 DEF IsOldestOf, IsNewestOf, Threads
    <3> QED BY <1>0, <2>1, <3>1, <3>2 DEF IsNewestOf
  <2> QED BY <2>5, <2>6
<1>4. ASSUME NEW g \in R PROVE IsOldestOf(m.prev[g], {e \in R : t[e] > t[g]}, t)
  <2>1. IsOldestOf(l.prev[g], {e \in S : t[e] > t[g]}, t)
    BY DEF Threads
  <2>2. IsOldestOf(l.prev[f], {e \in S : t[e] > t[f]}, t)
    BY DEF Threads
  <2>3. IsNewestOf(l.next[f], {e \in S : t[e] < t[f]}, t)
    BY DEF Threads
  <2>4. g \in Slots /\ g # f /\ t[g] # t[f] /\ (l.next[f] # NIL => l.next[f] \in Slots)
    BY DEF Threads, ListType
  <2>5. CASE l.next[f] = g
    <3>1. m.prev[g] = l.prev[f]
      BY <1>0, <2>4, <2>5 DEF lru_unlink, ListType
    <3>2. {e \in R : t[e] > t[g]} = {e \in S : t[e] > t[f]}
      BY <1>0, <2>3, <2>4, <2>5 DEF IsNewestOf, Threads
    <3> QED BY <2>2, <3>1, <3>2
  <2>6. CASE l.next[f] # g
    <3>1. m.prev[g] = l.prev[g]
      BY <1>0, <2>4, <2>6 DEF lru_unlink, ListType
    <3>2. l.prev[g] # f
      BY <1>0, <2>1, <2>3, <2>4, <2>6 DEF IsOldestOf, IsNewestOf, Threads
    <3> QED BY <1>0, <2>1, <3>1, <3>2 DEF IsOldestOf
  <2> QED BY <2>5, <2>6
<1>5. \A g, e \in R : t[g] = t[e] => g = e
  BY DEF Threads
<1> QED BY <1>1, <1>2, <1>3, <1>4, <1>5 DEF Threads

\* Pushing a frame stamped later than all the others puts it at the head.
LEMMA PushThreads ==
  ASSUME NEW l \in ListType, NEW S \in SUBSET Slots, NEW t \in [Slots -> Nat],
         Threads(l, S, t), NEW f \in Slots, f \notin S,
         NEW now \in Nat, \A g \in S : t[g] < now
  PROVE  Threads(lru_push_head(l, f), S \cup {f}, [t EXCEPT ![f] = now])
<1> DEFINE m == lru_push_head(l, f)
           R == S \cup {f}
           u == [t EXCEPT ![f] = now]
<1>0. NIL \notin Slots /\ u[f] = now /\ \A g \in S : u[g] = t[g] /\ u[g] < now
  BY DEF Slots
<1>1. IsNewestOf(m.head, R, u)
  BY <1>0 DEF Threads, lru_push_head, IsNewestOf, IsOldestOf, ListType
<1>2. IsOldestOf(m.tail, R, u)
  BY <1>0 DEF Threads, lru_push_head, IsNewestOf, IsOldestOf, ListType
<1>3. ASSUME NEW g \in R PROVE IsNewestOf(m.next[g], {e \in R : u[e] < u[g]}, u)
  BY <1>0 DEF Threads, lru_push_head, IsNewestOf, IsOldestOf, ListType
<1>4. ASSUME NEW g \in R PROVE IsOldestOf(m.prev[g], {e \in R : u[e] > u[g]}, u)
  BY <1>0 DEF Threads, lru_push_head, IsNewestOf, IsOldestOf, ListType
<1>5. \A g, e \in R : u[g] = u[e] => g = e
  BY <1>0 DEF Threads
<1> QED BY <1>1, <1>2, <1>3, <1>4, <1>5 DEF Threads

-------------------------------------------------------------------------------
(* The graph.                                                              *)

\* The indices update_graph visits, in its order.
Recent == [i \in 1..win.size |-> WindowAt(i - 1)]

\* update_graph ends where the loop over the window ends.
LEMMA UpdateGraphRun ==
  ASSUME NEW X, NEW g \in X, NEW idx \in Nodes,
         win.size \in Nat,
         \A i \in 0..(win.size - 1) : WindowAt(i) \in Nodes,
         \A h \in X : \A u \in Nodes \ {idx} : [h EXCEPT ![u] = adj_inc(@, idx)] \in X
  PROVE  /\ Recent \in [1..win.size -> Nodes]
         /\ \E f \in [0..win.size -> X] : /\ Run(f, g, Recent, win.size, idx, idx)
                                          /\ update_graph(g, idx) = f[win.size]
<1> DEFINE n == win.size
           Rec(f) == [i \in 0..n |-> IF i = 0 THEN g
                        ELSE IF WindowAt(i - 1) = idx THEN f[i - 1]
                        ELSE [f[i - 1] EXCEPT ![WindowAt(i - 1)] = adj_inc(@, idx)]]
           after == CHOOSE f : f = Rec(f)
<1>1. Recent \in [1..n -> Nodes] /\ \A i \in 1..n : Recent[i] = WindowAt(i - 1)
  BY DEF Recent
<1>2. PICK f \in [0..n -> X] : Run(f, g, Recent, n, idx, idx)
  BY <1>1, RunExists
<1>3. f = Rec(f)
  <2>1. ASSUME NEW k \in 0..n
        PROVE  f[k] = IF k = 0 THEN g
                      ELSE IF WindowAt(k - 1) = idx THEN f[k - 1]
                      ELSE [f[k - 1] EXCEPT ![WindowAt(k - 1)] = adj_inc(@, idx)]
    <3>1. CASE k = 0
      BY <1>2, <3>1 DEF Run
    <3>2. CASE k # 0
      <4>1. k \in 1..n /\ Recent[k] = WindowAt(k - 1)
        BY <1>1, <3>2
      <4>2. f[k] = IF Recent[k] = idx THEN f[k - 1]
                   ELSE [f[k - 1] EXCEPT ![Recent[k]] = adj_inc(@, idx)]
        BY <1>2, <4>1 DEF Run
      <4> QED BY <3>2, <4>1, <4>2
    <3> QED BY <3>1, <3>2
  <2>2. f = [k \in 0..n |-> f[k]]
    OBVIOUS
  <2> QED BY <2>1, <2>2
<1>4. after = Rec(after)
  <2> HIDE DEF Rec
  <2> QED BY <1>3
<1>5. Run(after, g, Recent, n, idx, idx)
  <2> HIDE DEF after
  <2>1. after[0] = g
    BY <1>4
  <2>2. ASSUME NEW k \in 1..n
        PROVE  after[k] = IF Recent[k] = idx THEN after[k - 1]
                          ELSE [after[k - 1] EXCEPT ![Recent[k]] = adj_inc(@, idx)]
    <3>1. Recent[k] = WindowAt(k - 1) /\ k \in 0..n /\ k # 0
      BY <1>1
    <3>2. after[k] = Rec(after)[k]
      <4> HIDE DEF Rec
      <4> QED BY <1>4
    <3> QED BY <3>1, <3>2
  <2> QED BY <2>1, <2>2 DEF Run
<1>6. update_graph(g, idx) = after[n]
  BY DEF update_graph
<1>7. after[n] = f[n]
  <2> HIDE DEF after
  <2> QED BY <1>2, <1>5, RunUnique
<1> QED BY <1>1, <1>2, <1>6, <1>7

\* What each increment of update_graph keeps true of the graph, update_graph keeps.
LEMMA UpdateGraphKeeps ==
  ASSUME NEW X, NEW g \in X, NEW idx \in Nodes,
         win.size \in Nat,
         \A i \in 0..(win.size - 1) : WindowAt(i) \in Nodes,
         \A h \in X : \A u \in Nodes \ {idx} : [h EXCEPT ![u] = adj_inc(@, idx)] \in X
  PROVE  update_graph(g, idx) \in X
<1>1. PICK f \in [0..win.size -> X] : update_graph(g, idx) = f[win.size]
  BY UpdateGraphRun
<1> QED BY <1>1

-------------------------------------------------------------------------------
(* The window.                                                             *)

WinType == [buf : [0..(MAX_WINDOW - 1) -> Nodes], head : 0..(W - 1), size : 0..W]

\* A remainder indexes an array of n entries, also for a negative argument.
LEMMA ModType ==
  ASSUME NEW a \in Int, NEW n \in Nat \ {0}
  PROVE  a % n \in 0..(n - 1)
OBVIOUS

\* Every read of win_buf at a position taken modulo W finds a page index.
LEMMA WindowAtType ==
  ASSUME W \in 1..MAX_WINDOW, win \in WinType, NEW i \in Int
  PROVE  WindowAt(i) \in Nodes
<1>1. MAX_WINDOW \in Nat /\ W \in Nat \ {0} /\ win.head \in Int
  BY WindowAssumption DEF WinType
<1> DEFINE sum == win.head - 1 - i + W + W
           pos == sum % W
<1>2. pos \in 0..(W - 1)
  <2>1. sum \in Int
    BY <1>1
  <2> HIDE DEF sum
  <2> QED BY <1>1, <2>1, ModType
<1>3. pos \in 0..(MAX_WINDOW - 1)
  <2> HIDE DEF pos
  <2> QED BY <1>1, <1>2
<1> HIDE DEF pos
<1>4. win.buf[pos] \in Nodes
  BY <1>3 DEF WinType
<1> QED BY <1>4 DEF WindowAt, pos

\* slide_window keeps the head below W and the size at most W.
LEMMA SlideType ==
  ASSUME W \in 1..MAX_WINDOW, win \in WinType, NEW idx \in Nodes
  PROVE  slide_window(idx) \in WinType
<1>1. W \in Nat \ {0} /\ win.head \in Int
  BY WindowAssumption DEF WinType
<1> DEFINE next == win.head + 1
           head == next % W
<1>2. head \in 0..(W - 1)
  <2>1. next \in Int
    BY <1>1
  <2> HIDE DEF next
  <2> QED BY <1>1, <2>1, ModType
<1> HIDE DEF head
<1>3. [win.buf EXCEPT ![win.head] = idx] \in [0..(MAX_WINDOW - 1) -> Nodes]
  BY DEF WinType
<1>4. (IF win.size < W THEN win.size + 1 ELSE win.size) \in 0..W
  BY <1>1 DEF WinType
<1> QED BY <1>2, <1>3, <1>4 DEF slide_window, WinType, head

\* The decay and the updates an access makes keep the graph well typed.
LEMMA GraphAfterType ==
  ASSUME W \in 1..MAX_WINDOW, win \in WinType, edges \in [Nodes -> Seq(Edge)],
         NEW idx \in Nodes
  PROVE  GraphAfter(idx) \in [Nodes -> Seq(Edge)]
<1> DEFINE X == [Nodes -> Seq(Edge)]
           g == IF (access_count + 1) % DECAY_INTERVAL = 0 THEN apply_decay(edges) ELSE edges
<1>1. g \in X
  <2>1. apply_decay(edges) \in X
    BY DecayListType DEF apply_decay, Edge, EdgeTo
  <2> QED BY <2>1
<1>2. win.size \in Nat /\ \A i \in 0..(win.size - 1) : WindowAt(i) \in Nodes
  BY WindowAtType, WindowAssumption DEF WinType
<1>3. ASSUME NEW h \in X, NEW u \in Nodes \ {idx}
      PROVE  [h EXCEPT ![u] = adj_inc(@, idx)] \in X
  <2>1. adj_inc(h[u], idx) \in Seq(Edge)
    BY AdjIncType DEF Edge, EdgeTo
  <2> QED BY <2>1
<1>4. update_graph(g, idx) \in X
  <2> HIDE DEF X, g
  <2>1. X \subseteq [Nodes -> Seq(Edge)]
    BY DEF X
  <2> QED BY <1>1, <1>2, <1>3, <2>1, UpdateGraphKeeps
<1> QED BY <1>4 DEF GraphAfter

-------------------------------------------------------------------------------
(* The victim.                                                             *)

\* The walk starts at the tail, takes a step towards the head at a time and meets only
\* occupied frames.
LEMMA WalkRun ==
  ASSUME Threads(lru, Occupied, mru_time), lru \in ListType
  PROVE  /\ Walk[0] = lru.tail
         /\ \A k \in 0..(SAMPLE_SIZE - 1) : Walk[k] \in Occupied \cup {NIL}
         /\ \A k \in 1..(SAMPLE_SIZE - 1) :
              Walk[k] = IF Walk[k - 1] = NIL THEN NIL ELSE lru.prev[Walk[k - 1]]
<1> DEFINE X == Occupied \cup {NIL}
           n == SAMPLE_SIZE - 1
           Rec(f) == [k \in 0..(SAMPLE_SIZE - 1) |-> IF k = 0 THEN lru.tail
                        ELSE IF f[k - 1] = NIL THEN NIL ELSE lru.prev[f[k - 1]]]
           at == CHOOSE f : f = Rec(f)
           step == [k \in 1..n |-> [x \in X |-> IF x = NIL THEN NIL ELSE lru.prev[x]]]
<1>1. n \in Nat /\ SAMPLE_SIZE - 1 = n
  BY SampleAssumption
<1>2. lru.tail \in X
  BY DEF Threads, IsOldestOf
<1>3. ASSUME NEW x \in X PROVE (IF x = NIL THEN NIL ELSE lru.prev[x]) \in X
  BY DEF Threads, IsOldestOf
<1>4. step \in [1..n -> [X -> X]]
  <2> HIDE DEF X, n
  <2> QED BY <1>3
<1>5. PICK f \in [0..n -> X] : f[0] = lru.tail /\ \A k \in 1..n : f[k] = step[k][f[k - 1]]
  <2> DEFINE x0 == lru.tail
  <2>1. x0 \in X
    BY <1>2
  <2>2. \E f \in [0..n -> X] : f[0] = x0 /\ \A k \in 1..n : f[k] = step[k][f[k - 1]]
    <3> HIDE DEF X, n, step, x0
    <3> QED BY ONLY <1>1, <2>1, <1>4, IterExists
  <2> QED BY <2>2
<1>6. f = Rec(f)
  <2> HIDE DEF X, n
  <2>1. ASSUME NEW k \in 0..n, k # 0
        PROVE  f[k] = IF f[k - 1] = NIL THEN NIL ELSE lru.prev[f[k - 1]]
    <3>1. k \in 1..n /\ k - 1 \in 0..n
      BY <1>1, <2>1
    <3>2. f[k - 1] \in X
      BY <1>5, <3>1
    <3> QED BY <1>5, <3>1, <3>2
  <2>2. f = [k \in 0..n |-> f[k]]
    OBVIOUS
  <2> HIDE DEF step
  <2> QED BY <1>1, <1>5, <2>1, <2>2
<1>7. at = Rec(at)
  <2> HIDE DEF Rec
  <2> QED BY <1>6
<1>8. \A k \in Nat : k \in 0..n => at[k] \in X
  <2> DEFINE S == {k \in Nat : k \in 0..n => at[k] \in X}
  <2> HIDE DEF at, X, n
  <2>1. 0 \in S
    BY <1>1, <1>2, <1>7
  <2>2. ASSUME NEW k \in Nat, k \in S PROVE k + 1 \in S
    <3>1. SUFFICES ASSUME k + 1 \in 0..n PROVE at[k + 1] \in X
      OBVIOUS
    <3>2. at[k] \in X /\ (k + 1) - 1 = k /\ k + 1 # 0
      BY <1>1, <2>2, <3>1
    <3>3. at[k + 1] = IF at[k] = NIL THEN NIL ELSE lru.prev[at[k]]
      BY <1>1, <1>7, <3>1, <3>2
    <3> QED BY <1>3, <3>2, <3>3
  <2>3. \A k \in Nat : k \in S
    <3> HIDE DEF S
    <3> QED BY <2>1, <2>2, SetInduction
  <2> QED BY <2>3
<1>9. Walk = at
  BY DEF Walk
<1> HIDE DEF at
<1>10. at[0] = lru.tail
  BY <1>1, <1>7
<1>11. ASSUME NEW k \in 1..n PROVE at[k] = IF at[k - 1] = NIL THEN NIL ELSE lru.prev[at[k - 1]]
  BY <1>1, <1>7, <1>11
<1> QED BY <1>8, <1>9, <1>10, <1>11

\* The frames sampled are occupied.
LEMMA SampledOccupied ==
  ASSUME Threads(lru, Occupied, mru_time), lru \in ListType
  PROVE  Sampled \subseteq Occupied
<1>1. NIL \notin Slots
  BY DEF Slots
<1> QED BY <1>1, WalkRun DEF Sampled

\* The victim is a free slot while there is one, and an occupied slot otherwise.
LEMMA VictimIsSound ==
  ASSUME TypeOk, SizeCountsOccupied, Threads(lru, Occupied, mru_time), cap > 0, NEW g
  PROVE  /\ choose_victim(g) \in 0..(cap - 1)
         /\ size < cap => frames[choose_victim(g)] = EMPTY
         /\ size = cap => frames[choose_victim(g)] # EMPTY
<1> DEFINE All == 0..(cap - 1)
           v == choose_victim(g)
<1>1. cap \in Nat \ {0} /\ size \in 0..cap /\ lru \in ListType
  BY DEF TypeOk, ListType
<1>2. IsFiniteSet(All) /\ Cardinality(All) = cap
  BY <1>1, FS_Interval
<1>3. Occupied \subseteq All
  BY DEF Occupied
<1>4. IsFiniteSet(Occupied)
  BY <1>2, <1>3, FS_Subset
<1>5. CASE size < cap
  <2>1. Occupied # All
    BY <1>1, <1>2, <1>5 DEF SizeCountsOccupied
  <2>2. FreeSlots # {} /\ FreeSlots \in SUBSET Nat
    BY <1>1, <1>3, <1>5, <2>1 DEF FreeSlots, Occupied
  <2>3. \E f \in FreeSlots : \A e \in FreeSlots : f <= e
    BY <2>2, LeastNumber
  <2>4. v \in FreeSlots
    BY <2>2, <2>3 DEF choose_victim
  <2> QED BY <1>1, <1>5, <2>4 DEF FreeSlots
<1>6. CASE size = cap
  <2>1. FreeSlots = {} /\ Occupied # {}
    <3>1. Cardinality(Occupied) # 0
      BY <1>1, <1>6 DEF SizeCountsOccupied
    <3>2. ~(size < cap)
      BY <1>1, <1>6
    <3> QED BY <1>4, <3>1, <3>2, FS_EmptySet DEF FreeSlots
  <2>2. lru.tail \in Occupied
    BY <2>1 DEF Threads, IsOldestOf
  <2>3. BestSampled(g) \subseteq Occupied
    BY <1>1, SampledOccupied DEF BestSampled
  <2>4. v \in Occupied
    <3> HIDE DEF v
    <3>1. v = IF BestSampled(g) # {} THEN CHOOSE f \in BestSampled(g) : TRUE ELSE lru.tail
      BY <2>1 DEF choose_victim, v
    <3> QED BY <2>2, <2>3, <3>1
  <2> QED BY <1>1, <1>6, <2>4 DEF Occupied
<1> QED BY <1>1, <1>5, <1>6

-------------------------------------------------------------------------------
(* The inductive invariant.                                                *)

IInv == TypeOk /\ ResidencyAgrees /\ ListIsRecencyOrder

\* Stamping a frame of the list with the latest time and touching it.
LEMMA TouchThreads ==
  ASSUME NEW l \in ListType, NEW S \in SUBSET Slots, NEW t \in [Slots -> Nat],
         Threads(l, S, t), NEW f \in S, NEW now \in Nat, \A g \in S : t[g] < now
  PROVE  /\ lru_touch(l, f) \in ListType
         /\ Threads(lru_touch(l, f), S, [t EXCEPT ![f] = now])
<1> DEFINE u == [t EXCEPT ![f] = now]
           R == S \ {f}
           k == lru_unlink(l, f)
<1>1. f \in Slots /\ R \cup {f} = S /\ f \notin R
  OBVIOUS
<1>2. CASE l.head = f
  <2>1. Threads(l, S, u)
    <3>1. u \in [Slots -> Nat] /\ u[f] = now /\ \A g \in S : g # f => u[g] = t[g] /\ u[g] < now
      OBVIOUS
    <3>2. \A g \in S : t[g] <= t[f]
      BY <1>2 DEF Threads, IsNewestOf
    <3>3. ASSUME NEW g \in S PROVE {e \in S : u[e] < u[g]} = {e \in S : t[e] < t[g]}
      BY <3>1, <3>2 DEF Threads
    <3>4. ASSUME NEW g \in S PROVE {e \in S : u[e] > u[g]} = {e \in S : t[e] > t[g]}
      BY <3>1, <3>2 DEF Threads
    <3>5. IsNewestOf(l.head, S, u) /\ IsOldestOf(l.tail, S, u)
      BY <1>2, <3>1, <3>2 DEF Threads, IsNewestOf, IsOldestOf
    <3>6. ASSUME NEW g \in S PROVE IsNewestOf(l.next[g], {e \in S : t[e] < t[g]}, u)
      <4>1. \A e \in {e \in S : t[e] < t[g]} : u[e] = t[e]
        BY <3>1, <3>2
      <4> QED BY <4>1 DEF Threads, IsNewestOf
    <3>7. ASSUME NEW g \in S PROVE IsOldestOf(l.prev[g], {e \in S : t[e] > t[g]}, u)
      <4>1. IsOldestOf(l.prev[g], {e \in S : t[e] > t[g]}, t)
        BY DEF Threads
      <4>2. \A e \in S : t[e] = t[f] => e = f
        BY DEF Threads
      <4>3. \A e \in S : u[e] >= t[e]
        BY <3>1
      <4> QED BY <3>1, <3>2, <4>1, <4>2, <4>3 DEF IsOldestOf
    <3>8. \A g, e \in S : u[g] = u[e] => g = e
      BY <3>1 DEF Threads
    <3> HIDE DEF u
    <3> QED BY <3>3, <3>4, <3>5, <3>6, <3>7, <3>8 DEF Threads
  <2> QED BY <1>2, <2>1 DEF lru_touch
<1>3. CASE l.head # f
  <2>1. k \in ListType /\ Threads(k, R, t)
    BY <1>1, UnlinkType, UnlinkThreads
  <2>2. lru_push_head(k, f) \in ListType
    BY <1>1, <2>1, PushType
  <2>3. Threads(lru_push_head(k, f), R \cup {f}, u)
    <3> HIDE DEF k, R, u
    <3>1. R \in SUBSET Slots /\ \A g \in R : t[g] < now
      BY DEF R
    <3> QED BY <1>1, <2>1, <3>1, PushThreads DEF u
  <2> QED BY <1>1, <1>3, <2>2, <2>3 DEF lru_touch
<1> QED BY <1>2, <1>3

\* Static storage satisfies the invariant: nothing is occupied.
LEMMA InitIInv == Init => IInv
<1> SUFFICES ASSUME Init PROVE IInv
  OBVIOUS
<1>1. Occupied = {}
  BY DEF Init, Occupied
<1>2. TypeOk
  <2>1. 0 \in Slots /\ 0 \in Nodes
    BY FramesAssumption, UniqueAssumption DEF Slots, Nodes
  <2>2. DEFAULT_WINDOW \in 1..MAX_WINDOW /\ 0 \in 0..(DEFAULT_WINDOW - 1) /\ 0 \in 0..DEFAULT_WINDOW
    BY WindowAssumption
  <2>3. cap \in 0..MAX_FRAMES /\ size \in 0..cap
    BY FramesAssumption DEF Init
  <2> QED BY <2>1, <2>2, <2>3 DEF Init, TypeOk
<1>3. ResidencyAgrees
  BY <1>1, FS_EmptySet DEF Init, ResidencyAgrees, IndexMatchesFrames, SizeCountsOccupied
<1>4. ListIsRecencyOrder
  BY <1>1 DEF Init, ListIsRecencyOrder, Threads, IsNewestOf, IsOldestOf
<1> QED BY <1>2, <1>3, <1>4 DEF IInv

\* tg_reset, and tg_init after it, establish the invariant.
LEMMA ResetIInv ==
  ASSUME ResetState, cap' \in 0..MAX_FRAMES, W' \in 1..MAX_WINDOW
  PROVE  IInv'
<1>0. MAX_FRAMES \in Nat /\ MAX_WINDOW \in Nat
  BY WindowAssumption, FramesAssumption
<1>1. Occupied' = {}
  <2>1. \A n \in 0..MAX_FRAMES : 0..(n - 1) \subseteq Slots
    BY <1>0 DEF Slots
  <2> QED BY <2>1 DEF ResetState, Occupied
<1>2. TypeOk'
  <2>1. 0 \in Nodes
    BY UniqueAssumption DEF Nodes
  <2>2. 0 \in 0..(W' - 1) /\ 0 \in 0..W' /\ 0 \in 0..cap'
    <3>1. \A n \in 1..MAX_WINDOW : 0 \in 0..(n - 1) /\ 0 \in 0..n
      BY <1>0
    <3>2. \A n \in 0..MAX_FRAMES : 0 \in 0..n
      BY <1>0
    <3> QED BY <3>1, <3>2
  <2>3. win' \in [buf : [0..(MAX_WINDOW - 1) -> Nodes], head : 0..(W' - 1), size : 0..W']
    BY <2>1, <2>2 DEF ResetState
  <2>4. lru' \in [prev : [Slots -> Slots \cup {NIL}], next : [Slots -> Slots \cup {NIL}],
                  head : Slots \cup {NIL}, tail : Slots \cup {NIL}]
    BY DEF ResetState
  <2>5. edges' \in [Nodes -> Seq(Edge)] /\ hist' \in Seq(Pages)
    BY DEF ResetState
  <2>6. size' \in 0..cap'
    BY <2>2 DEF ResetState
  <2> QED BY <2>3, <2>4, <2>5, <2>6 DEF ResetState, TypeOk
<1>3. ResidencyAgrees'
  BY <1>1, FS_EmptySet DEF ResetState, ResidencyAgrees, IndexMatchesFrames, SizeCountsOccupied
<1>4. ListIsRecencyOrder'
  BY <1>1 DEF ResetState, ListIsRecencyOrder, Threads, IsNewestOf, IsOldestOf
<1> QED BY <1>2, <1>3, <1>4 DEF IInv

\* What the part common to hits and faults does to the types.
LEMMA ObserveType ==
  ASSUME TypeOk, NEW page \in Pages, Observe(page)
  PROVE  /\ edges' \in [Nodes -> Seq(Edge)]
         /\ win' \in [buf : [0..(MAX_WINDOW - 1) -> Nodes], head : 0..(W' - 1), size : 0..W']
         /\ W' = W /\ cap' = cap /\ cap \in Nat /\ 0..(cap - 1) \subseteq Slots
         /\ global_time' = global_time + 1 /\ global_time \in Nat
         /\ access_count' \in Nat
         /\ hist' \in Seq(Pages)
         /\ page_idx(page) \in Nodes /\ page \in Nat
<1>1. page \in Nat /\ page_idx(page) \in Nodes
  BY PagesAssumption, PageIdxType
<1>2. W \in 1..MAX_WINDOW /\ win \in WinType /\ edges \in [Nodes -> Seq(Edge)]
  BY DEF TypeOk, WinType
<1>3. edges' \in [Nodes -> Seq(Edge)]
  BY <1>1, <1>2, GraphAfterType DEF Observe
<1>4. win' \in WinType
  BY <1>1, <1>2, SlideType DEF Observe
<1>5. W' = W /\ cap' = cap
  BY DEF Observe
<1>6. 0..(cap - 1) \subseteq Slots /\ cap \in Nat
  BY FramesAssumption DEF TypeOk, Slots
<1> QED BY <1>1, <1>3, <1>4, <1>5, <1>6 DEF Observe, TypeOk, WinType

\* The hit path (tempograph.c:314-321) keeps the invariant.
LEMMA HitIInv ==
  ASSUME IInv, NEW page \in Pages, Hit(page)
  PROVE  IInv'
<1> DEFINE idx == page_idx(page)
           f == frame_of[idx]
<1>1. Observe(page) /\ in_frames[idx] /\ TypeOk
  BY DEF Hit, IInv
<1>2. /\ edges' \in [Nodes -> Seq(Edge)]
      /\ win' \in [buf : [0..(MAX_WINDOW - 1) -> Nodes], head : 0..(W' - 1), size : 0..W']
      /\ W' = W /\ cap' = cap /\ cap \in Nat /\ 0..(cap - 1) \subseteq Slots
      /\ global_time' = global_time + 1 /\ global_time \in Nat
      /\ access_count' \in Nat
      /\ hist' \in Seq(Pages)
      /\ idx \in Nodes /\ page \in Nat
  BY <1>1, ObserveType
<1>3. f \in Occupied /\ f \in Slots
  BY <1>1, <1>2 DEF IInv, ResidencyAgrees, IndexMatchesFrames, Occupied
<1>4. lru \in ListType /\ mru_time \in [Slots -> Nat] /\ Occupied \in SUBSET Slots
  BY <1>1, <1>2 DEF TypeOk, ListType, Occupied
<1>5. Threads(lru, Occupied, mru_time) /\ \A g \in Occupied : mru_time[g] < global_time + 1
  BY <1>2, <1>4 DEF IInv, ListIsRecencyOrder
<1>6. /\ lru_touch(lru, f) \in ListType
      /\ Threads(lru_touch(lru, f), Occupied, [mru_time EXCEPT ![f] = global_time + 1])
  <2> HIDE DEF f
  <2>1. global_time + 1 \in Nat
    BY <1>2
  <2> QED BY <1>3, <1>4, <1>5, <2>1, TouchThreads
<1>7. /\ lru' = lru_touch(lru, f) /\ mru_time' = [mru_time EXCEPT ![f] = global_time + 1]
      /\ UNCHANGED <<frames, in_frames, frame_of, size>> /\ reply' = "HIT"
  BY DEF Hit
<1>8. Occupied' = Occupied
  BY <1>2, <1>7 DEF Occupied
<1> HIDE DEF f
<1>9. TypeOk'
  <2>1. mru_time' \in [Slots -> Nat]
    <3>1. global_time + 1 \in Nat
      BY <1>2
    <3> QED BY <1>4, <1>7, <3>1
  <2>2. global_time' \in Nat
    BY <1>2
  <2> QED BY <1>1, <1>2, <1>6, <1>7, <2>1, <2>2 DEF TypeOk, ListType
<1>10. ResidencyAgrees'
  BY <1>7, <1>8 DEF IInv, ResidencyAgrees, IndexMatchesFrames, SizeCountsOccupied
<1>11. ListIsRecencyOrder'
  <2>1. \A g \in Occupied : mru_time'[g] <= global_time'
    BY <1>2, <1>4, <1>5, <1>7
  <2> QED BY <1>6, <1>7, <1>8, <2>1 DEF ListIsRecencyOrder
<1> QED BY <1>9, <1>10, <1>11 DEF IInv

\* Loading idx into slot v, whose occupant, if any, is no longer indexed.
LEMMA LoadResidency ==
  ASSUME TypeOk, IndexMatchesFrames, SizeCountsOccupied, NEW page \in Nat, NEW v \in 0..(cap - 1),
         ~in_frames[page_idx(page)], LoadInto(v, page), cap' = cap,
         cap > 0, size < cap => frames[v] = EMPTY, size = cap => frames[v] # EMPTY
  PROVE  /\ Occupied' = Occupied \cup {v}
         /\ IndexMatchesFrames'
         /\ SizeCountsOccupied'
         /\ size' \in 0..cap
<1> DEFINE idx == page_idx(page)
           old == page_idx(frames[v])
<1>1. cap \in Nat /\ v \in Slots /\ size \in 0..cap /\ idx \in Nodes
  BY PageIdxType, FramesAssumption DEF TypeOk, Slots
<1>2. frames' = [frames EXCEPT ![v] = page] /\ page # EMPTY
  BY DEF LoadInto
<1>3. Occupied' = Occupied \cup {v}
  BY <1>1, <1>2 DEF Occupied, TypeOk
<1>4. \A g \in Occupied : g \in Slots /\ page_idx(frames[g]) \in Nodes
  <2> SUFFICES ASSUME NEW g \in Occupied PROVE g \in Slots /\ page_idx(frames[g]) \in Nodes
    OBVIOUS
  <2>1. g \in Slots
    <3>1. cap \in 0..MAX_FRAMES /\ MAX_FRAMES \in Nat /\ g \in 0..(cap - 1)
      BY FramesAssumption DEF TypeOk, Occupied
    <3> QED BY <3>1 DEF Slots
  <2>2. frames[g] \in Nat
    BY <2>1 DEF Occupied, TypeOk
  <2> QED BY <2>1, <2>2, PageIdxType
<1>5. IndexMatchesFrames'
  <2>1. v \in Occupied => old \in Nodes /\ old # idx /\ frame_of[old] = v
    BY <1>4 DEF IndexMatchesFrames
  <2>2. v \in Occupied <=> frames[v] # EMPTY
    BY DEF Occupied
  <2>3. /\ in_frames' = IF v \in Occupied
                        THEN [u \in Nodes |-> u = idx \/ (u # old /\ in_frames[u])]
                        ELSE [u \in Nodes |-> u = idx \/ in_frames[u]]
        /\ frame_of' = IF v \in Occupied
                       THEN [u \in Nodes |-> IF u = idx THEN v ELSE IF u = old THEN NIL ELSE frame_of[u]]
                       ELSE [u \in Nodes |-> IF u = idx THEN v ELSE frame_of[u]]
    BY <1>1, <2>1, <2>2 DEF LoadInto, Indexed, TypeOk
  <2>4. ASSUME NEW g \in Occupied \cup {v}
        PROVE  in_frames'[page_idx(frames'[g])] /\ frame_of'[page_idx(frames'[g])] = g
    <3>1. CASE g = v
      <4>1. frames'[g] = page
        BY <1>1, <1>2, <3>1 DEF TypeOk
      <4> QED BY <1>1, <2>3, <3>1, <4>1
    <3>2. CASE g # v
      <4> DEFINE u == page_idx(frames[g])
      <4>1. g \in Occupied /\ frames'[g] = frames[g] /\ u \in Nodes
        BY <1>2, <1>4, <3>2 DEF TypeOk
      <4>2. in_frames[u] /\ frame_of[u] = g
        BY <4>1 DEF IndexMatchesFrames
      <4>3. u # idx /\ (v \in Occupied => u # old)
        BY <2>1, <3>2, <4>2
      <4> HIDE DEF u, old, idx
      <4>4. in_frames'[u] /\ frame_of'[u] = g
        BY <2>3, <4>1, <4>2, <4>3
      <4> QED BY <4>1, <4>4 DEF u
    <3> QED BY <3>1, <3>2
  <2>5. ASSUME NEW u \in Nodes, in_frames'[u]
        PROVE  frame_of'[u] \in Occupied \cup {v} /\ page_idx(frames'[frame_of'[u]]) = u
    <3>1. CASE u = idx
      <4>1. frame_of'[u] = v
        BY <2>3, <3>1
      <4> QED BY <1>1, <1>2, <3>1, <4>1 DEF TypeOk
    <3>2. CASE u # idx
      <4>1. in_frames[u] /\ frame_of'[u] = frame_of[u] /\ (v \in Occupied => u # old)
        BY <2>3, <2>5, <3>2
      <4>2. frame_of[u] \in Occupied /\ page_idx(frames[frame_of[u]]) = u
        BY <4>1 DEF IndexMatchesFrames
      <4>3. frame_of[u] # v
        BY <4>1, <4>2
      <4> QED BY <1>2, <1>4, <4>1, <4>2, <4>3 DEF TypeOk
    <3> QED BY <3>1, <3>2
  <2> QED BY <1>3, <2>4, <2>5 DEF IndexMatchesFrames
<1>6. size' \in 0..cap /\ size' = Cardinality(Occupied \cup {v})
  <2>1. IsFiniteSet(Occupied)
    <3>1. IsFiniteSet(0..(cap - 1))
      <4>1. 0 \in Int /\ cap - 1 \in Int
        BY <1>1
      <4> QED BY <4>1, FS_Interval
    <3>2. Occupied \subseteq 0..(cap - 1)
      BY DEF Occupied
    <3> QED BY <3>1, <3>2, FS_Subset
  <2>2. v \in Occupied <=> frames[v] # EMPTY
    BY DEF Occupied
  <2>3. size' = IF size < cap THEN size + 1 ELSE size
    BY DEF LoadInto
  <2>4. CASE size < cap
    <3>1. Cardinality(Occupied \cup {v}) = Cardinality(Occupied) + 1
      BY <2>1, <2>2, <2>4, FS_AddElement
    <3> QED BY <1>1, <2>3, <2>4, <3>1 DEF SizeCountsOccupied
  <2>5. CASE size = cap
    <3>1. Occupied \cup {v} = Occupied
      BY <2>2, <2>5
    <3> QED BY <1>1, <2>3, <2>5, <3>1 DEF SizeCountsOccupied
  <2> QED BY <1>1, <2>4, <2>5
<1> QED BY <1>3, <1>5, <1>6 DEF SizeCountsOccupied

\* The fault path (tempograph.c:323-346) keeps the invariant, whichever frame is the
\* victim.
LEMMA FaultIInv ==
  ASSUME IInv, NEW page \in Pages, Fault(page)
  PROVE  IInv'
<1> DEFINE v == choose_victim(GraphAfter(page_idx(page)))
           idx == page_idx(page)
           l == IF frames[v] # EMPTY THEN lru_unlink(lru, v) ELSE lru
<1>1. Observe(page) /\ ~in_frames[idx] /\ TypeOk /\ LoadInto(v, page) /\ cap > 0
  BY DEF Fault, IInv, Observe
<1>2. /\ edges' \in [Nodes -> Seq(Edge)]
      /\ win' \in [buf : [0..(MAX_WINDOW - 1) -> Nodes], head : 0..(W' - 1), size : 0..W']
      /\ W' = W /\ cap' = cap /\ cap \in Nat /\ 0..(cap - 1) \subseteq Slots
      /\ global_time' = global_time + 1 /\ global_time \in Nat
      /\ access_count' \in Nat
      /\ hist' \in Seq(Pages)
      /\ idx \in Nodes /\ page \in Nat
  BY <1>1, ObserveType
<1>3. /\ v \in 0..(cap - 1)
      /\ size < cap => frames[v] = EMPTY
      /\ size = cap => frames[v] # EMPTY
  BY <1>1, VictimIsSound DEF IInv, ResidencyAgrees, ListIsRecencyOrder
<1> HIDE DEF v
<1>4. Occupied' = Occupied \cup {v} /\ IndexMatchesFrames' /\ SizeCountsOccupied' /\ size' \in 0..cap
  BY <1>1, <1>2, <1>3, LoadResidency DEF IInv, ResidencyAgrees
<1>5. v \in Slots /\ lru \in ListType /\ mru_time \in [Slots -> Nat] /\ Occupied \in SUBSET Slots
  BY <1>1, <1>2, <1>3 DEF TypeOk, ListType, Occupied
<1>6. Threads(lru, Occupied, mru_time) /\ \A g \in Occupied : mru_time[g] < global_time + 1
  BY <1>2, <1>5 DEF IInv, ListIsRecencyOrder
<1>7. l \in ListType /\ Threads(l, Occupied \ {v}, mru_time)
  <2>1. v \in Occupied <=> frames[v] # EMPTY
    BY <1>3 DEF Occupied
  <2>2. CASE v \in Occupied
    BY <1>5, <1>6, <2>1, <2>2, UnlinkType, UnlinkThreads
  <2>3. CASE v \notin Occupied
    <3>1. Occupied \ {v} = Occupied
      BY <2>3
    <3> QED BY <1>5, <1>6, <2>1, <2>3, <3>1
  <2> QED BY <2>2, <2>3
<1>8. /\ lru' = lru_push_head(l, v)
      /\ mru_time' = [mru_time EXCEPT ![v] = global_time + 1]
      /\ frames' = [frames EXCEPT ![v] = page]
      /\ in_frames' = Indexed(in_frames, FALSE, TRUE, v, idx)
      /\ frame_of' = Indexed(frame_of, NIL, v, v, idx)
      /\ reply' = "FAULT"
  BY <1>1 DEF LoadInto
<1> HIDE DEF l
<1>9. /\ lru' \in ListType
      /\ Threads(lru', (Occupied \ {v}) \cup {v}, mru_time')
  <2> DEFINE S == Occupied \ {v}
             now == global_time + 1
  <2>1. now \in Nat /\ S \in SUBSET Slots /\ v \notin S /\ \A g \in S : mru_time[g] < now
    BY <1>2, <1>5, <1>6
  <2> HIDE DEF S, now
  <2>2. Threads(lru_push_head(l, v), S \cup {v}, [mru_time EXCEPT ![v] = now])
    BY <1>5, <1>7, <2>1, PushThreads DEF S
  <2>3. lru_push_head(l, v) \in ListType
    BY <1>5, <1>7, PushType
  <2> QED BY <1>8, <2>2, <2>3 DEF S, now
<1>10. TypeOk'
  <2>1. global_time + 1 \in Nat
    BY <1>2
  <2>2. mru_time' \in [Slots -> Nat] /\ frames' \in [Slots -> Nat \cup {EMPTY}]
    BY <1>1, <1>2, <1>5, <1>8, <2>1 DEF TypeOk
  <2>3. in_frames' \in [Nodes -> BOOLEAN]
    BY <1>1, <1>8 DEF TypeOk, Indexed
  <2>4. frame_of' \in [Nodes -> Slots \cup {NIL}]
    BY <1>1, <1>5, <1>8 DEF TypeOk, Indexed
  <2> QED BY <1>1, <1>2, <1>4, <1>8, <1>9, <2>1, <2>2, <2>3, <2>4 DEF TypeOk, ListType
<1>11. ListIsRecencyOrder'
  <2>1. (Occupied \ {v}) \cup {v} = Occupied'
    BY <1>4
  <2>2. \A g \in Occupied' : mru_time'[g] <= global_time'
    BY <1>2, <1>4, <1>5, <1>6, <1>8
  <2> QED BY <1>9, <2>1, <2>2 DEF ListIsRecencyOrder
<1> QED BY <1>4, <1>10, <1>11 DEF IInv, ResidencyAgrees

\* The invariant depends on the variables of the module only.
LEMMA StutterIInv ==
  ASSUME IInv, UNCHANGED vars
  PROVE  IInv'
BY DEF IInv, vars, pool, TypeOk, ResidencyAgrees, IndexMatchesFrames, SizeCountsOccupied,
       Occupied, ListIsRecencyOrder

\* Every step of TempoGraph keeps the invariant.
LEMMA StepIInv == IInv /\ [Next]_vars => IInv'
<1> SUFFICES ASSUME IInv, [Next]_vars PROVE IInv'
  OBVIOUS
<1>1. ASSUME NEW n \in FrameCounts, NEW w \in WindowSizes, TgInit(n, w) PROVE IInv'
  <2>1. cap' \in 0..MAX_FRAMES
    BY <1>1, FramesAssumption DEF TgInit
  <2>2. W' \in 1..MAX_WINDOW
    BY <1>1, WindowAssumption DEF TgInit
  <2> QED BY <1>1, <2>1, <2>2, ResetIInv DEF TgInit
<1>2. ASSUME NEW page \in Pages, Hit(page) PROVE IInv'
  BY <1>2, HitIInv
<1>3. ASSUME NEW page \in Pages, Fault(page) PROVE IInv'
  BY <1>3, FaultIInv
<1>4. CASE TgReset
  <2>1. cap' \in 0..MAX_FRAMES
    BY <1>4, FramesAssumption DEF TgReset
  <2>2. W' \in 1..MAX_WINDOW
    BY <1>4, WindowAssumption DEF TgReset
  <2> QED BY <1>4, <2>1, <2>2, ResetIInv DEF TgReset
<1>5. CASE UNCHANGED vars
  BY <1>5, StutterIInv
<1> QED BY <1>1, <1>2, <1>3, <1>4, <1>5 DEF Next

\* The invariant holds in every reachable state.
THEOREM Invariance == Spec => []IInv
BY InitIInv, StepIInv, PTL DEF Spec

\* Every variable of tempograph.c keeps its type, so no array is indexed outside its
\* bounds (frames, lru_prev and lru_next by a slot, edges and in_frames by a node,
\* win_buf by a position below W).
THEOREM TypeCorrect == Spec => []TypeOk
BY Invariance, PTL DEF IInv

\* The frame pool's indices agree after every access, reset and initialisation.
THEOREM ResidencyCorrect == Spec => []ResidencyAgrees
BY Invariance, PTL DEF IInv

\* The recency list threads exactly the occupied frames, newest first.
THEOREM RecencyCorrect == Spec => []ListIsRecencyOrder
BY Invariance, PTL DEF IInv

-------------------------------------------------------------------------------
(* TempoGraph implements demand paging.                                    *)

ResidentSet == {u \in Nodes : in_frames[u]}

\* There are as many resident indices as occupied frames.
LEMMA ResidentCount ==
  ASSUME IInv
  PROVE  IsFiniteSet(ResidentSet) /\ Cardinality(ResidentSet) = size
<1> DEFINE b == [f \in Occupied |-> page_idx(frames[f])]
<1>1. cap \in Nat /\ 0..(cap - 1) \subseteq Slots
  BY FramesAssumption DEF IInv, TypeOk, Slots
<1>2. IsFiniteSet(Occupied)
  <2>1. IsFiniteSet(0..(cap - 1))
    <3>1. 0 \in Int /\ cap - 1 \in Int
      BY <1>1
    <3> QED BY <3>1, FS_Interval
  <2>2. Occupied \subseteq 0..(cap - 1)
    BY DEF Occupied
  <2> QED BY <2>1, <2>2, FS_Subset
<1>3. ASSUME NEW f \in Occupied PROVE page_idx(frames[f]) \in ResidentSet
  <2>1. frames[f] \in Nat
    BY <1>1 DEF IInv, TypeOk, Occupied
  <2> QED BY <2>1, PageIdxType DEF IInv, ResidencyAgrees, IndexMatchesFrames, ResidentSet
<1>4. b \in Bijection(Occupied, ResidentSet)
  <2>1. b \in [Occupied -> ResidentSet]
    BY <1>3
  <2>2. ASSUME NEW f \in Occupied, NEW g \in Occupied, b[f] = b[g] PROVE f = g
    BY <2>2 DEF IInv, ResidencyAgrees, IndexMatchesFrames
  <2>3. ASSUME NEW u \in ResidentSet PROVE \E f \in Occupied : b[f] = u
    <3>1. frame_of[u] \in Occupied /\ page_idx(frames[frame_of[u]]) = u
      BY DEF IInv, ResidencyAgrees, IndexMatchesFrames, ResidentSet
    <3> QED BY <3>1
  <2> HIDE DEF b
  <2> QED BY <2>1, <2>2, <2>3 DEF Bijection, Injection, Surjection, IsInjective
<1>5. Cardinality(Occupied) = Cardinality(ResidentSet) /\ IsFiniteSet(ResidentSet)
  <2> HIDE DEF b
  <2>1. ExistsBijection(Occupied, ResidentSet)
    BY <1>4 DEF ExistsBijection
  <2> QED BY <1>2, <2>1, FS_Bijection
<1> QED BY <1>5 DEF IInv, ResidencyAgrees, SizeCountsOccupied

\* The instance's Cardinality is the one of the library theorems.
LEMMA SameCardinality == \A S : Paging!Cardinality(S) = Cardinality(S)
BY DEF Paging!Cardinality, Cardinality, Paging!IsFiniteSet, IsFiniteSet

\* An access is the last entry of the history it leaves.
LEMMA LastAccess ==
  ASSUME TypeOk, NEW page \in Pages, Observe(page)
  PROVE  hist' # <<>> /\ hist'[Len(hist')] = page
<1>1. hist \in Seq(Pages) /\ hist' = Append(hist, page)
  BY DEF TypeOk, Observe
<1>2. Len(hist') = Len(hist) + 1 /\ Len(hist) \in Nat /\ hist'[Len(hist) + 1] = page
  BY <1>1, AppendProperties, LenProperties
<1> QED BY <1>2

\* A fault with a free frame loads the page; with none it replaces one page.
LEMMA FaultRefines ==
  ASSUME IInv, IInv', NEW page \in Pages, Fault(page)
  PROVE  Paging!Load(page_idx(page)) \/ Paging!Replace(page_idx(page))
<1> DEFINE v == choose_victim(GraphAfter(page_idx(page)))
           idx == page_idx(page)
           old == page_idx(frames[v])
<1>1. Observe(page) /\ ~in_frames[idx] /\ TypeOk /\ LoadInto(v, page) /\ cap > 0
  BY DEF Fault, IInv, Observe
<1>2. cap' = cap /\ cap \in Nat /\ 0..(cap - 1) \subseteq Slots /\ idx \in Nodes
  BY <1>1, ObserveType
<1>3. /\ v \in 0..(cap - 1)
      /\ size < cap => frames[v] = EMPTY
      /\ size = cap => frames[v] # EMPTY
  BY <1>1, VictimIsSound DEF IInv, ResidencyAgrees, ListIsRecencyOrder
<1> HIDE DEF v
<1>4. (IF hist = <<>> THEN "none" ELSE page_idx(hist[Len(hist)]))' = idx
  BY <1>1, LastAccess
<1>5. reply' = "FAULT" /\ in_frames' = Indexed(in_frames, FALSE, TRUE, v, idx)
  BY <1>1 DEF LoadInto
<1>6. Cardinality(ResidentSet) = size /\ size \in 0..cap
  BY <1>1, ResidentCount DEF TypeOk
<1>7. idx \notin ResidentSet
  BY <1>1 DEF ResidentSet
<1>8. CASE size < cap
  <2>1. in_frames' = [in_frames EXCEPT ![idx] = TRUE]
    BY <1>3, <1>5, <1>8 DEF Indexed
  <2>2. ResidentSet' = ResidentSet \cup {idx}
    BY <1>1, <1>2, <2>1 DEF ResidentSet, TypeOk
  <2> HIDE DEF idx
  <2>3. Paging!Load(idx)
    <3>1. Cardinality(ResidentSet) < cap
      BY <1>6, <1>8
    <3> QED BY <1>2, <1>4, <1>5, <1>7, <2>2, <3>1, SameCardinality DEF Paging!Load, ResidentSet
  <2> QED BY <2>3 DEF idx
<1>9. CASE size = cap
  <2>1. in_frames' = [in_frames EXCEPT ![old] = FALSE, ![idx] = TRUE]
    BY <1>3, <1>5, <1>9 DEF Indexed
  <2>2. v \in Occupied
    BY <1>3, <1>9 DEF Occupied
  <2>3. in_frames[old]
    BY <2>2 DEF IInv, ResidencyAgrees, IndexMatchesFrames
  <2>4. old \in Nodes
    <3>1. frames[v] \in Nat
      BY <1>1, <1>2, <1>3, <1>9 DEF TypeOk
    <3> QED BY <3>1, PageIdxType
  <2> HIDE DEF old, idx
  <2>5. old \in ResidentSet /\ ResidentSet' = (ResidentSet \ {old}) \cup {idx}
    BY <1>1, <1>2, <2>1, <2>3, <2>4 DEF ResidentSet, TypeOk
  <2>6. Paging!Replace(idx)
    <3>1. Cardinality(ResidentSet) = cap
      BY <1>6, <1>9
    <3> QED BY <1>2, <1>4, <1>5, <1>7, <2>5, <3>1, SameCardinality DEF Paging!Replace, ResidentSet
  <2> QED BY <2>6 DEF idx
<1> QED BY <1>6, <1>2, <1>8, <1>9

\* The hit path is a hit of demand paging.
LEMMA HitRefines ==
  ASSUME IInv, NEW page \in Pages, Hit(page)
  PROVE  Paging!Hit(page_idx(page))
<1>1. Observe(page) /\ TypeOk
  BY DEF Hit, IInv
<1>2. cap' = cap /\ page_idx(page) \in Nodes
  BY <1>1, ObserveType
<1>3. hist' # <<>> /\ hist'[Len(hist')] = page
  BY <1>1, LastAccess
<1> QED BY <1>2, <1>3 DEF Hit, Paging!Hit

\* The same in terms of the indices held.
LEMMA AccessServes ==
  ASSUME IInv, IInv', NEW page \in Pages, Hit(page) \/ Fault(page)
  PROVE  \/ page_idx(page) \in ResidentSet /\ reply' = "HIT" /\ ResidentSet' = ResidentSet
         \/ /\ page_idx(page) \notin ResidentSet /\ reply' = "FAULT"
            /\ \/ Cardinality(ResidentSet) < cap /\ ResidentSet' = ResidentSet \cup {page_idx(page)}
               \/ /\ Cardinality(ResidentSet) = cap
                  /\ \E v \in ResidentSet : ResidentSet' = (ResidentSet \ {v}) \cup {page_idx(page)}
<1>1. Paging!Hit(page_idx(page)) \/ Paging!Load(page_idx(page)) \/ Paging!Replace(page_idx(page))
  BY HitRefines, FaultRefines
<1> QED BY <1>1, SameCardinality DEF Paging!Hit, Paging!Load, Paging!Replace, ResidentSet

\* Every behaviour of TempoGraph is one of demand paging over page indices: HIT exactly
\* when the index is resident, no eviction while a frame is free, one eviction else.
THEOREM Refinement == Spec => RefinesDemandPaging
<1>1. Init => Paging!Init
  <2>1. Init => {u \in Nodes : in_frames[u]} = {}
    BY DEF Init
  <2> QED BY <2>1 DEF Init, Paging!Init
<1>2. IInv /\ IInv' /\ [Next]_vars => [Paging!Next]_(Paging!vars)
  <2> SUFFICES ASSUME IInv, IInv', [Next]_vars PROVE [Paging!Next]_(Paging!vars)
    OBVIOUS
  <2>1. ASSUME NEW n \in FrameCounts \cup {0}, ResetState, cap' = n PROVE Paging!Next
    <3>1. {u \in Nodes : in_frames[u]}' = {}
      BY <2>1 DEF ResetState
    <3>2. Paging!Configure(n)
      BY <2>1, <3>1 DEF ResetState, Paging!Configure
    <3> QED BY <2>1, <3>2 DEF Paging!Next
  <2>2. ASSUME NEW n \in FrameCounts, NEW w \in WindowSizes, TgInit(n, w) PROVE Paging!Next
    BY <2>1, <2>2 DEF TgInit
  <2>3. CASE TgReset
    BY <2>1, <2>3 DEF TgReset
  <2>4. ASSUME NEW page \in Pages, Hit(page) PROVE Paging!Next
    <3>1. page_idx(page) \in Nodes
      BY PagesAssumption, PageIdxType
    <3> QED BY <2>4, <3>1, HitRefines DEF Paging!Next
  <2>5. ASSUME NEW page \in Pages, Fault(page) PROVE Paging!Next
    <3>1. page_idx(page) \in Nodes
      BY PagesAssumption, PageIdxType
    <3> QED BY <2>5, <3>1, FaultRefines DEF Paging!Next
  <2>6. CASE UNCHANGED vars
    BY <2>6 DEF vars, pool, Paging!vars
  <2> QED BY <2>2, <2>3, <2>4, <2>5, <2>6 DEF Next
<1> QED BY <1>1, <1>2, Invariance, PTL DEF Spec, RefinesDemandPaging, Paging!Spec

-------------------------------------------------------------------------------
(* The graph stays well formed.                                            *)

\* A sweep neither duplicates nor kills an edge.
LEMMA DecayKeepsWellFormed ==
  ASSUME NEW list \in Seq(Edge), NEW u \in Nodes, WellFormedList(list, u)
  PROVE  WellFormedList(DecayList(list), u)
<1> DEFINE d == DecayList(list)
<1>1. d \in Seq(Edge) /\ Len(d) = Len(list) /\ \A i \in 1..Len(list) : d[i].dst = list[i].dst
  BY DecayListType DEF Edge, EdgeTo
<1>2. DOMAIN d = 1..Len(list) /\ DOMAIN list = 1..Len(list)
  BY <1>1
<1>3. \A i \in 1..Len(list) : d[i] \in Edge
  BY <1>1
<1> HIDE DEF d
<1>4. WellFormedList(d, u)
  BY <1>1, <1>2, <1>3 DEF WellFormedList, Edge
<1> QED BY <1>4 DEF d

\* A well-formed list of u names distinct nodes other than u.
LEMMA WellFormedIs ==
  ASSUME NEW list \in Seq(Edge), NEW u
  PROVE  WellFormedList(list, u) <=> /\ list \in Seq(EdgeTo(Nodes \ {u}))
                                     /\ DistinctDsts(list) /\ Len(list) <= MAX_EDGES_PER_NODE
<1>1. /\ Len(list) \in Nat /\ DOMAIN list = 1..Len(list) /\ \A i \in 1..Len(list) : list[i] \in Edge
      /\ list \in [1..Len(list) -> Edge]
  BY LenProperties
<1>2. ASSUME \A i \in DOMAIN list : list[i].dst # u PROVE list \in Seq(EdgeTo(Nodes \ {u}))
  <2>1. \A i \in 1..Len(list) : list[i] \in EdgeTo(Nodes \ {u})
    BY <1>1, <1>2 DEF Edge, EdgeTo
  <2>2. list \in [1..Len(list) -> EdgeTo(Nodes \ {u})]
    BY <1>1, <2>1
  <2>3. Len(list) \in Nat
    BY <1>1
  <2> QED BY <2>2, <2>3, IsSequence
<1>3. ASSUME list \in Seq(EdgeTo(Nodes \ {u})) PROVE \A i \in DOMAIN list : list[i].dst # u
  <2>1. \A i \in DOMAIN list : list[i] \in EdgeTo(Nodes \ {u})
    BY <1>3
  <2> QED BY <2>1 DEF EdgeTo
<1>4. \A i \in DOMAIN list : list[i].w \in 1..MAX_WEIGHT
  BY <1>1 DEF Edge
<1> QED BY <1>2, <1>3, <1>4 DEF WellFormedList, DistinctDsts

\* adj_inc keeps a list within its bound, free of duplicates and of self edges.
LEMMA AdjIncKeepsWellFormed ==
  ASSUME NEW list \in Seq(Edge), NEW u \in Nodes, NEW v \in Nodes, v # u, WellFormedList(list, u)
  PROVE  WellFormedList(adj_inc(list, v), u)
<1>1. /\ list \in Seq(EdgeTo(Nodes \ {u})) /\ DistinctDsts(list)
      /\ Len(list) <= MAX_EDGES_PER_NODE /\ v \in Nodes \ {u}
  BY WellFormedIs
<1>2. PICK r : r = adj_inc(list, v)
  OBVIOUS
<1>3. r \in Seq(EdgeTo(Nodes \ {u})) /\ DistinctDsts(r) /\ Len(r) <= MAX_EDGES_PER_NODE
  BY <1>1, <1>2, AdjIncBounded
<1>4. r \in Seq(Edge)
  BY <1>2, AdjIncType DEF Edge, EdgeTo
<1>5. WellFormedList(r, u)
  BY <1>3, <1>4, WellFormedIs
<1> QED BY <1>2, <1>5

\* The graph an access leaves is well formed: update_graph skips the accessed page.
LEMMA GraphAfterWellFormed ==
  ASSUME TypeOk, GraphWellFormed, NEW idx \in Nodes
  PROVE  \A u \in Nodes : WellFormedList(GraphAfter(idx)[u], u)
<1> DEFINE X == {h \in [Nodes -> Seq(Edge)] : \A u \in Nodes : WellFormedList(h[u], u)}
           g == IF (access_count + 1) % DECAY_INTERVAL = 0 THEN apply_decay(edges) ELSE edges
<1>1. W \in 1..MAX_WINDOW /\ win \in WinType /\ edges \in [Nodes -> Seq(Edge)]
  BY DEF TypeOk, WinType
<1>2. g \in X
  <2>1. edges \in X
    BY <1>1 DEF GraphWellFormed
  <2>2. apply_decay(edges) \in X
    <3>1. apply_decay(edges) = [u \in Nodes |-> DecayList(edges[u])]
      BY DEF apply_decay
    <3>2. \A u \in Nodes : /\ DecayList(edges[u]) \in Seq(Edge)
                           /\ WellFormedList(DecayList(edges[u]), u)
      BY <1>1, DecayListType, DecayKeepsWellFormed DEF GraphWellFormed, Edge, EdgeTo
    <3> QED BY <3>1, <3>2
  <2> QED BY <2>1, <2>2
<1>3. win.size \in Nat /\ \A i \in 0..(win.size - 1) : WindowAt(i) \in Nodes
  BY <1>1, WindowAtType, WindowAssumption DEF WinType
<1>4. ASSUME NEW h \in X, NEW u \in Nodes \ {idx}
      PROVE  [h EXCEPT ![u] = adj_inc(@, idx)] \in X
  <2>1. adj_inc(h[u], idx) \in Seq(Edge) /\ WellFormedList(adj_inc(h[u], idx), u)
    BY AdjIncType, AdjIncKeepsWellFormed DEF Edge, EdgeTo
  <2> QED BY <2>1
<1>5. update_graph(g, idx) \in X
  <2> HIDE DEF X, g
  <2>1. X \subseteq [Nodes -> Seq(Edge)]
    BY DEF X
  <2> QED BY <1>2, <1>3, <1>4, <2>1, UpdateGraphKeeps
<1> QED BY <1>5 DEF GraphAfter

\* Adjacency lists never exceed MAX_EDGES_PER_NODE, never name a destination twice, and
\* hold neither a self edge nor a dead or overflowed weight.
THEOREM GraphCorrect == Spec => []GraphWellFormed
<1>1. Init => GraphWellFormed
  BY GraphAssumption DEF Init, GraphWellFormed, WellFormedList
<1>2. IInv /\ GraphWellFormed /\ [Next]_vars => GraphWellFormed'
  <2> SUFFICES ASSUME IInv, GraphWellFormed, [Next]_vars PROVE GraphWellFormed'
    OBVIOUS
  <2>1. ASSUME ResetState PROVE GraphWellFormed'
    BY <2>1, GraphAssumption DEF ResetState, GraphWellFormed, WellFormedList
  <2>2. ASSUME NEW page \in Pages, Observe(page) PROVE GraphWellFormed'
    <3>1. page_idx(page) \in Nodes
      BY PagesAssumption, PageIdxType
    <3>2. edges' = GraphAfter(page_idx(page))
      BY <2>2 DEF Observe
    <3>3. \A u \in Nodes : WellFormedList(GraphAfter(page_idx(page))[u], u)
      BY <3>1, GraphAfterWellFormed DEF IInv
    <3> QED BY <3>2, <3>3 DEF GraphWellFormed, WellFormedList
  <2>3. CASE UNCHANGED vars
    BY <2>3 DEF vars, GraphWellFormed, WellFormedList
  <2> QED BY <2>1, <2>2, <2>3 DEF Next, TgInit, TgReset, Hit, Fault
<1> QED BY <1>1, <1>2, Invariance, PTL DEF Spec

-------------------------------------------------------------------------------
(* The window is the recent history.                                       *)

\* A remainder ignores whole turns.
LEMMA ModOneTurn ==
  ASSUME NEW n \in Nat, n > 0, NEW a \in 0..(n - 1)
  PROVE  a % n = a /\ (a + n) % n = a /\ (a + n + n) % n = a
OBVIOUS

\* The position update_graph reads for the i-th most recent entry.
LEMMA WindowPosition ==
  ASSUME NEW n \in Nat, n > 0, NEW h \in 0..(n - 1), NEW i \in 0..(n - 1)
  PROVE  (h - 1 - i + n + n) % n = IF h - 1 - i >= 0 THEN h - 1 - i ELSE h - 1 - i + n
<1>1. CASE h - 1 - i >= 0
  <2>1. h - 1 - i \in 0..(n - 1)
    BY <1>1
  <2> QED BY <1>1, <2>1, ModOneTurn
<1>2. CASE ~(h - 1 - i >= 0)
  <2> DEFINE a == h - 1 - i + n
  <2>1. a \in 0..(n - 1) /\ h - 1 - i + n + n = a + n
    BY <1>2
  <2> HIDE DEF a
  <2>2. (a + n) % n = a
    BY <2>1, ModOneTurn
  <2> QED BY <1>2, <2>1, <2>2 DEF a
<1> QED BY <1>1, <1>2

\* Advancing win_head wraps it to 0 exactly at the end of the window.
LEMMA NextHead ==
  ASSUME NEW n \in Nat, n > 0, NEW h \in 0..(n - 1)
  PROVE  (h + 1) % n = IF h + 1 = n THEN 0 ELSE h + 1
<1>1. CASE h + 1 = n
  <2>1. (0 + n) % n = 0
    BY ModOneTurn
  <2> QED BY <1>1, <2>1
<1>2. CASE h + 1 # n
  <2>1. h + 1 \in 0..(n - 1)
    BY <1>2
  <2> QED BY <1>2, <2>1, ModOneTurn
<1> QED BY <1>1, <1>2

\* slide_window shifts the view of the window by the page accessed.
LEMMA SlideWindow ==
  ASSUME TypeOk, WindowIsHistory, NEW page \in Pages, Observe(page)
  PROVE  WindowIsHistory'
<1> DEFINE idx == page_idx(page)
           n == Len(hist)
           k == win.size
           h == win.head
           At(j, i) == IF j - 1 - i >= 0 THEN j - 1 - i ELSE j - 1 - i + W
<1>1. /\ W \in Nat /\ W > 0 /\ W \in 1..MAX_WINDOW /\ MAX_WINDOW \in Nat /\ n \in Nat
      /\ h \in 0..(W - 1) /\ k \in 0..W
      /\ win.buf \in [0..(MAX_WINDOW - 1) -> Nodes]
  BY WindowAssumption DEF TypeOk
<1>2. /\ W' = W /\ win' = slide_window(idx)
      /\ hist' = Append(hist, page) /\ hist \in Seq(Pages)
  BY DEF Observe, TypeOk
<1>3. /\ Len(hist') = n + 1 /\ hist'[n + 1] = page
      /\ \A i \in 1..n : hist'[i] = hist[i]
  BY <1>2, AppendProperties, LenProperties
<1>4. win'.head = IF h + 1 = W THEN 0 ELSE h + 1
  BY <1>1, <1>2, NextHead DEF slide_window
<1>5. win'.size = (IF k < W THEN k + 1 ELSE k) /\ k = MinOf(W, n)
  BY <1>2 DEF slide_window, WindowIsHistory
<1>6. win'.size = MinOf(W, n + 1)
  BY <1>1, <1>5 DEF MinOf
<1>7. \A i \in 0..(W - 1) : win'.buf[i] = IF i = h THEN idx ELSE win.buf[i]
  BY <1>1, <1>2 DEF slide_window
<1>8. ASSUME NEW i \in 0..(win'.size - 1) PROVE WindowAt(i)' = page_idx(hist'[n + 1 - i])
  <2> DEFINE j == win'.head
  <2>1. i \in 0..(W - 1) /\ j \in 0..(W - 1) /\ i <= n
    BY <1>1, <1>4, <1>6, <1>8 DEF MinOf
  <2>2. WindowAt(i)' = win'.buf[At(j, i)] /\ At(j, i) \in 0..(W - 1)
    <3> HIDE DEF j
    <3>1. (j - 1 - i + W + W) % W = At(j, i)
      BY <1>1, <2>1, WindowPosition
    <3>2. At(j, i) \in 0..(W - 1)
      BY <1>1, <2>1
    <3> HIDE DEF At
    <3> QED BY <1>2, <3>1, <3>2 DEF WindowAt, j
  <2>3. CASE i = 0
    <3>1. At(j, i) = h
      BY <1>1, <1>4, <2>3
    <3>2. WindowAt(i)' = idx
      <4> HIDE DEF At
      <4> QED BY <1>7, <2>2, <3>1
    <3> QED BY <1>1, <1>3, <2>3, <3>2
  <2>4. CASE i # 0
    <3>1. i - 1 \in 0..(k - 1) /\ i - 1 \in 0..(W - 1) /\ i \in 1..n
      BY <1>1, <1>5, <1>6, <1>8, <2>1, <2>4 DEF MinOf
    <3>2. At(j, i) = At(h, i - 1) /\ At(h, i - 1) # h
      <4>1. j = IF h + 1 = W THEN 0 ELSE h + 1
        BY <1>4
      <4>2. ASSUME NEW a \in Int, NEW b \in 0..(W - 1), a = (IF b + 1 = W THEN 0 ELSE b + 1)
            PROVE  At(a, i) = At(b, i - 1) /\ At(b, i - 1) # b
        BY <1>1, <2>1, <2>4, <4>2
      <4> HIDE DEF At
      <4> QED BY <1>1, <2>1, <4>1, <4>2
    <3>3. WindowAt(i - 1) = win.buf[At(h, i - 1)]
      <4>1. (h - 1 - (i - 1) + W + W) % W = At(h, i - 1)
        BY <1>1, <3>1, WindowPosition
      <4> QED BY <4>1 DEF WindowAt
    <3>4. WindowAt(i - 1) = HistIdx(n - (i - 1))
      BY <3>1 DEF WindowIsHistory
    <3>5. n + 1 - i = n - (i - 1) /\ n + 1 - i \in 1..n
      BY <1>1, <3>1
    <3>6. WindowAt(i)' = WindowAt(i - 1)
      <4> HIDE DEF At
      <4> QED BY <1>7, <2>2, <3>2, <3>3
    <3>7. hist'[n + 1 - i] = hist[n - (i - 1)]
      BY <1>3, <3>5
    <3> QED BY <3>4, <3>6, <3>7 DEF HistIdx
  <2> QED BY <2>3, <2>4
<1>9. \A i \in 0..(win'.size - 1) : WindowAt(i)' = HistIdx(Len(hist) - i)'
  BY <1>3, <1>8 DEF HistIdx
<1> QED BY <1>2, <1>3, <1>6, <1>9 DEF WindowIsHistory, MinOf

\* The circular buffer always holds the last W page indices, newest first.
THEOREM WindowCorrect == Spec => []WindowIsHistory
<1>1. Init => WindowIsHistory
  BY WindowAssumption DEF Init, WindowIsHistory, MinOf
<1>2. IInv /\ WindowIsHistory /\ [Next]_vars => WindowIsHistory'
  <2> SUFFICES ASSUME IInv, WindowIsHistory, [Next]_vars PROVE WindowIsHistory'
    OBVIOUS
  <2>1. ASSUME ResetState, W' \in 1..MAX_WINDOW PROVE WindowIsHistory'
    BY <2>1, WindowAssumption DEF ResetState, WindowIsHistory, MinOf
  <2>2. ASSUME NEW page \in Pages, Observe(page) PROVE WindowIsHistory'
    BY <2>2, SlideWindow DEF IInv
  <2>3. CASE UNCHANGED vars
    BY <2>3 DEF vars, WindowIsHistory, WindowAt, HistIdx
  <2>4. ASSUME NEW n \in FrameCounts, NEW w \in WindowSizes, TgInit(n, w) PROVE WindowIsHistory'
    <3>1. W' \in 1..MAX_WINDOW
      BY <2>4, WindowAssumption DEF TgInit
    <3> QED BY <2>1, <2>4, <3>1 DEF TgInit
  <2>5. CASE TgReset
    <3>1. W' \in 1..MAX_WINDOW
      BY <2>5, WindowAssumption DEF TgReset
    <3> QED BY <2>1, <2>5, <3>1 DEF TgReset
  <2> QED BY <2>2, <2>3, <2>4, <2>5 DEF Next, Hit, Fault
<1> QED BY <1>1, <1>2, Invariance, PTL DEF Spec

-------------------------------------------------------------------------------
(* An access forgets at most the weakest edge of a full list.              *)

\* What accessing v leaves of the list a: the list itself, or a list b with an edge to v
\* that has all the other edges, or all but the weakest edge of a full list.
Loses(a, b, v) ==
  \/ b = a
  \/ v \in Dsts(b) /\ Dsts(b) = Dsts(a) \cup {v}
  \/ /\ Len(a) = MAX_EDGES_PER_NODE /\ v \notin Dsts(a)
     /\ \E m \in DOMAIN a : /\ \A j \in DOMAIN a : a[m].w <= a[j].w
                            /\ Dsts(b) = (Dsts(a) \ {a[m].dst}) \cup {v}

\* The destinations after one adj_inc.
LEMMA AdjIncDsts ==
  ASSUME NEW list \in Seq(Edge), NEW u, WellFormedList(list, u), NEW v \in Nodes
  PROVE  /\ v \in Dsts(list) => Dsts(adj_inc(list, v)) = Dsts(list)
         /\ v \notin Dsts(list) => Loses(list, adj_inc(list, v), v)
         /\ v \in Dsts(adj_inc(list, v))
<1> DEFINE n == Len(list)
           r == adj_inc(list, v)
           fresh == [dst |-> v, w |-> 1]
           first == CHOOSE k \in DOMAIN list : list[k].dst = v /\ \A j \in 1..(k - 1) : list[j].dst # v
<1>1. n \in Nat /\ DOMAIN list = 1..n /\ \A i \in 1..n : list[i] \in Edge
  OBVIOUS
<1>2. fresh \in Edge /\ fresh.dst = v
  BY GraphAssumption DEF Edge
<1>3. v \in Dsts(list) <=> \E i \in DOMAIN list : list[i].dst = v
  BY DEF Dsts
<1>4. CASE \E i \in DOMAIN list : list[i].dst = v
  <2> DEFINE e == [list[first] EXCEPT !.w = IF list[first].w < MAX_WEIGHT
                                            THEN list[first].w + 1 ELSE list[first].w]
  <2>1. r = [list EXCEPT ![first] = e]
    BY <1>4 DEF adj_inc
  <2>2. first \in 1..n => e.dst = list[first].dst
    BY <1>1 DEF Edge
  <2> HIDE DEF e, first, r
  <2>3. DOMAIN r = 1..n /\ \A i \in 1..n : r[i].dst = list[i].dst
    BY <1>1, <2>1, <2>2
  <2>4. Dsts(r) = Dsts(list)
    BY <1>1, <2>3 DEF Dsts
  <2> QED BY <1>3, <1>4, <2>4 DEF r
<1>5. CASE (\A i \in DOMAIN list : list[i].dst # v) /\ n < MAX_EDGES_PER_NODE
  <2>1. r = Append(list, fresh)
    BY <1>5 DEF adj_inc
  <2> HIDE DEF r, fresh
  <2>2. /\ DOMAIN r = 1..(n + 1) /\ r[n + 1] = fresh
        /\ \A i \in 1..n : r[i] = list[i]
    BY <1>1, <1>2, <2>1, AppendProperties
  <2>3. Dsts(r) = Dsts(list) \cup {v}
    <3>1. Dsts(r) = {r[i].dst : i \in 1..(n + 1)} /\ Dsts(list) = {list[i].dst : i \in 1..n}
      BY <1>1, <2>2 DEF Dsts
    <3>2. 1..(n + 1) = (1..n) \cup {n + 1}
      BY <1>1
    <3> QED BY <1>2, <2>2, <3>1, <3>2
  <2>4. Loses(list, r, v) /\ v \in Dsts(r)
    BY <2>3 DEF Loses
  <2> QED BY <1>3, <1>5, <2>4 DEF r
<1>6. CASE (\A i \in DOMAIN list : list[i].dst # v) /\ ~(n < MAX_EDGES_PER_NODE)
  <2> DEFINE m == WeakestEdge(list)
  <2>1. r = [list EXCEPT ![m] = fresh]
    BY <1>6 DEF adj_inc
  <2>2. n = MAX_EDGES_PER_NODE /\ n > 0
    <3>1. n <= MAX_EDGES_PER_NODE
      BY DEF WellFormedList
    <3>2. MAX_EDGES_PER_NODE \in Nat /\ MAX_EDGES_PER_NODE > 0
      BY GraphAssumption
    <3>3. ~(n < MAX_EDGES_PER_NODE)
      BY <1>6
    <3> HIDE DEF n
    <3> QED BY <1>1, <3>1, <3>2, <3>3
  <2>3. m \in 1..n /\ \A j \in DOMAIN list : list[m].w <= list[j].w
    BY <1>1, <2>2, WeakestExists DEF Edge, EdgeTo
  <2> HIDE DEF m, r, fresh
  <2>4. DOMAIN r = 1..n /\ \A i \in 1..n : r[i] = IF i = m THEN fresh ELSE list[i]
    BY <1>1, <2>1
  <2>5. \A i \in 1..n : list[i].dst = list[m].dst => i = m
    BY <1>1, <2>3 DEF WellFormedList
  <2>6. Dsts(r) = (Dsts(list) \ {list[m].dst}) \cup {v}
    <3>1. Dsts(r) = {r[i].dst : i \in 1..n} /\ Dsts(list) = {list[i].dst : i \in 1..n}
      BY <1>1, <2>4 DEF Dsts
    <3>2. \A i \in 1..n : r[i].dst = IF i = m THEN v ELSE list[i].dst
      BY <1>2, <2>4
    <3> QED BY <2>3, <2>5, <3>1, <3>2
  <2>7. Loses(list, r, v) /\ v \in Dsts(r)
    BY <1>1, <1>3, <1>6, <2>2, <2>3, <2>6 DEF Loses
  <2> QED BY <1>3, <1>6, <2>7 DEF r
<1> QED BY <1>4, <1>5, <1>6

\* A page that follows several times in one window is inserted once and counted after.
LEMMA AdjIncLoses ==
  ASSUME NEW a \in Seq(Edge), NEW b \in Seq(Edge), NEW u, WellFormedList(b, u),
         NEW v \in Nodes, Loses(a, b, v)
  PROVE  Loses(a, adj_inc(b, v), v)
<1> DEFINE r == adj_inc(b, v)
<1>1. /\ v \in Dsts(b) => Dsts(r) = Dsts(b)
      /\ v \notin Dsts(b) => Loses(b, r, v)
      /\ v \in Dsts(r)
  BY AdjIncDsts
<1> HIDE DEF r
<1>2. CASE v \in Dsts(b)
  <2>1. Dsts(r) = Dsts(b) /\ v \in Dsts(r)
    BY <1>1, <1>2
  <2>2. CASE b = a
    <3>1. Dsts(r) = Dsts(a) \cup {v}
      BY <1>2, <2>1, <2>2
    <3>2. Loses(a, r, v)
      BY <2>1, <3>1 DEF Loses
    <3> QED BY <3>2 DEF r
  <2>3. CASE v \in Dsts(b) /\ Dsts(b) = Dsts(a) \cup {v}
    <3>1. Dsts(r) = Dsts(a) \cup {v}
      BY <2>1, <2>3
    <3>2. Loses(a, r, v)
      BY <2>1, <3>1 DEF Loses
    <3> QED BY <3>2 DEF r
  <2>4. CASE /\ Len(a) = MAX_EDGES_PER_NODE /\ v \notin Dsts(a)
             /\ \E m \in DOMAIN a : /\ \A j \in DOMAIN a : a[m].w <= a[j].w
                                    /\ Dsts(b) = (Dsts(a) \ {a[m].dst}) \cup {v}
    <3>1. PICK m \in DOMAIN a : /\ \A j \in DOMAIN a : a[m].w <= a[j].w
                                /\ Dsts(b) = (Dsts(a) \ {a[m].dst}) \cup {v}
      BY <2>4
    <3>2. Dsts(r) = (Dsts(a) \ {a[m].dst}) \cup {v}
      BY <2>1, <3>1
    <3>3. Loses(a, r, v)
      BY <2>4, <3>1, <3>2 DEF Loses
    <3> QED BY <3>3 DEF r
  <2> QED BY <2>2, <2>3, <2>4 DEF Loses
<1>3. CASE v \notin Dsts(b)
  <2>1. b = a
    BY <1>3 DEF Loses
  <2> QED BY <1>1, <1>3, <2>1 DEF r
<1> QED BY <1>2, <1>3

\* The graph the edges of an access are added to.
Swept == IF (access_count + 1) % DECAY_INTERVAL = 0 THEN apply_decay(edges) ELSE edges

LEMMA GraphAfterLoses ==
  ASSUME TypeOk, GraphWellFormed, NEW idx \in Nodes
  PROVE  \A u \in Nodes : Loses(Swept[u], GraphAfter(idx)[u], idx)
<1> DEFINE g == Swept
           X == {h \in [Nodes -> Seq(Edge)] :
                   \A u \in Nodes : WellFormedList(h[u], u) /\ Loses(g[u], h[u], idx)}
<1>1. W \in 1..MAX_WINDOW /\ win \in WinType /\ edges \in [Nodes -> Seq(Edge)]
  BY DEF TypeOk, WinType
<1>2. g \in [Nodes -> Seq(Edge)] /\ \A u \in Nodes : WellFormedList(g[u], u)
  <2>1. apply_decay(edges) = [u \in Nodes |-> DecayList(edges[u])]
    BY DEF apply_decay
  <2>2. \A u \in Nodes : /\ DecayList(edges[u]) \in Seq(Edge)
                         /\ WellFormedList(DecayList(edges[u]), u)
    BY <1>1, DecayListType, DecayKeepsWellFormed DEF GraphWellFormed, Edge, EdgeTo
  <2> QED BY <1>1, <2>1, <2>2 DEF Swept, GraphWellFormed
<1> HIDE DEF g
<1>3. g \in X
  BY <1>2 DEF Loses
<1>4. win.size \in Nat /\ \A i \in 0..(win.size - 1) : WindowAt(i) \in Nodes
  BY <1>1, WindowAtType, WindowAssumption DEF WinType
<1>5. ASSUME NEW h \in X, NEW u \in Nodes \ {idx}
      PROVE  [h EXCEPT ![u] = adj_inc(@, idx)] \in X
  <2>1. g[u] \in Seq(Edge) /\ h[u] \in Seq(Edge) /\ WellFormedList(h[u], u) /\ Loses(g[u], h[u], idx)
    BY <1>2
  <2>2. adj_inc(h[u], idx) \in Seq(Edge) /\ WellFormedList(adj_inc(h[u], idx), u)
    BY <2>1, AdjIncType, AdjIncKeepsWellFormed DEF Edge, EdgeTo
  <2>3. Loses(g[u], adj_inc(h[u], idx), idx)
    BY <2>1, AdjIncLoses
  <2> QED BY <2>2, <2>3
<1>6. update_graph(g, idx) \in X
  <2> HIDE DEF X
  <2>1. X \subseteq [Nodes -> Seq(Edge)]
    BY DEF X
  <2> QED BY <1>3, <1>4, <1>5, <2>1, UpdateGraphKeeps
<1>7. GraphAfter(idx) = update_graph(g, idx)
  BY DEF GraphAfter, g, Swept
<1> QED BY <1>6, <1>7 DEF g

\* The weights of a well-formed list after a sweep.
LEMMA SweptWeights ==
  ASSUME NEW list \in Seq(Edge), NEW u \in Nodes, WellFormedList(list, u)
  PROVE  /\ Dsts(DecayList(list)) = Dsts(list) /\ Len(DecayList(list)) = Len(list)
         /\ \A i \in DOMAIN list :
              /\ i \in DOMAIN DecayList(list) /\ DecayList(list)[i].dst = list[i].dst
              /\ list[i].w \in Nat /\ DecayList(list)[i].w = Decayed(list[i].w)
              /\ adj_weight(DecayList(list), list[i].dst) = DecayList(list)[i].w
<1> DEFINE d == DecayList(list)
           n == Len(list)
<1>1. n \in Nat /\ DOMAIN list = 1..n /\ \A i \in 1..n : list[i] \in Edge
  OBVIOUS
<1>2. d \in Seq(Edge) /\ Len(d) = n /\ \A i \in 1..n : d[i].dst = list[i].dst
  BY DecayListType DEF Edge, EdgeTo
<1>3. WellFormedList(d, u)
  BY DecayKeepsWellFormed
<1>4. \A i \in 1..n : d[i].w = Decayed(list[i].w)
  <2>1. d = [i \in 1..n |-> [list[i] EXCEPT !.w = Decayed(@)]]
    BY DecayRemovesNoEdge DEF Edge, EdgeTo
  <2> HIDE DEF d
  <2> QED BY <1>1, <2>1 DEF Edge
<1> HIDE DEF d
<1>5. DOMAIN d = 1..n
  BY <1>1, <1>2
<1>6. Dsts(d) = Dsts(list)
  BY <1>1, <1>2, <1>5 DEF Dsts
<1>7. \A i \in 1..n : adj_weight(d, d[i].dst) = d[i].w
  <2>1. DistinctDsts(d)
    BY <1>3 DEF WellFormedList, DistinctDsts
  <2> QED BY <1>2, <1>5, <2>1, WeightNamed DEF Edge, EdgeTo
<1>8. \A i \in 1..n : list[i].w \in Nat
  BY <1>1, GraphAssumption DEF Edge
<1> QED BY <1>1, <1>2, <1>4, <1>5, <1>6, <1>7, <1>8 DEF d

\* What an access does to the edges of one node.
LEMMA ListForgets ==
  ASSUME TypeOk, GraphWellFormed, NEW u \in Nodes, NEW v \in Nodes, NEW b,
         Loses(Swept[u], b, v), Dsts(edges[u]) \ Dsts(b) # {}
  PROVE  /\ Len(edges[u]) = MAX_EDGES_PER_NODE
         /\ Cardinality(Dsts(edges[u]) \ Dsts(b)) = 1
         /\ \A x \in Dsts(edges[u]) \ Dsts(b) : \A y \in Dsts(edges[u]) :
              adj_weight(apply_decay(edges)[u], x) <= adj_weight(apply_decay(edges)[u], y)
         /\ Dsts(b) \ Dsts(edges[u]) = {v}
<1>1. PICK list : list = edges[u]
  OBVIOUS
<1>2. list \in Seq(Edge) /\ WellFormedList(list, u)
  BY <1>1 DEF TypeOk, GraphWellFormed
<1> DEFINE d == DecayList(list)
<1>3. apply_decay(edges)[u] = d
  BY <1>1 DEF apply_decay
<1>4. /\ Dsts(d) = Dsts(list) /\ Len(d) = Len(list)
      /\ \A i \in DOMAIN list : /\ i \in DOMAIN d /\ d[i].dst = list[i].dst
                                /\ list[i].w \in Nat /\ d[i].w = Decayed(list[i].w)
                                /\ adj_weight(d, list[i].dst) = d[i].w
  BY <1>2, SweptWeights
<1>5. DOMAIN d = DOMAIN list
  <2>1. d \in Seq(Edge)
    BY <1>2, DecayListType DEF Edge, EdgeTo
  <2> HIDE DEF d
  <2> QED BY <1>2, <1>4, <2>1
<1> HIDE DEF d
<1>6. PICK a : a = Swept[u]
  OBVIOUS
<1>7. a = list \/ a = d
  BY <1>1, <1>3, <1>6 DEF Swept
<1>8. Dsts(a) = Dsts(list) /\ Len(a) = Len(list) /\ DOMAIN a = DOMAIN list
  BY <1>4, <1>5, <1>7
<1>9. /\ Len(a) = MAX_EDGES_PER_NODE /\ v \notin Dsts(a)
      /\ \E m \in DOMAIN a : /\ \A j \in DOMAIN a : a[m].w <= a[j].w
                             /\ Dsts(b) = (Dsts(a) \ {a[m].dst}) \cup {v}
  BY <1>1, <1>6, <1>8 DEF Loses
<1>10. PICK m \in DOMAIN a : /\ \A j \in DOMAIN a : a[m].w <= a[j].w
                             /\ Dsts(b) = (Dsts(a) \ {a[m].dst}) \cup {v}
  BY <1>9
<1>11. a[m].dst = list[m].dst /\ list[m].dst \in Dsts(list)
  BY <1>4, <1>7, <1>8 DEF Dsts
<1>12. Dsts(list) \ Dsts(b) = {list[m].dst} /\ Dsts(b) \ Dsts(list) = {v}
  BY <1>1, <1>8, <1>9, <1>10, <1>11
<1>13. \A j \in DOMAIN list : d[m].w <= d[j].w
  <2> SUFFICES ASSUME NEW j \in DOMAIN list PROVE d[m].w <= d[j].w
    OBVIOUS
  <2>1. CASE a = list
    BY <1>4, <1>8, <1>10, <2>1, DecayedOrder
  <2>2. CASE a = d
    BY <1>8, <1>10, <2>2
  <2> QED BY <1>7, <2>1, <2>2
<1>14. ASSUME NEW y \in Dsts(list) PROVE adj_weight(d, list[m].dst) <= adj_weight(d, y)
  <2>1. PICK j \in DOMAIN list : y = list[j].dst
    BY DEF Dsts
  <2> QED BY <1>4, <1>8, <1>13, <2>1
<1>15. Cardinality({list[m].dst}) = 1
  BY FS_Singleton
<1> QED BY <1>1, <1>3, <1>8, <1>9, <1>12, <1>14, <1>15

\* An access forgets an edge only for a new one and only from a full list, and then the
\* weakest, for any list length, any trace and any decay: the sweep forgets none, and a
\* page that stands in the window several times costs its followers one edge, not several.
THEOREM EdgesCorrect == Spec => EdgesLeaveOnlyByOverflow
<1>1. IInv /\ GraphWellFormed /\ [Next]_vars =>
        [\A u \in Nodes :
           LET lost == Dsts(edges[u]) \ Dsts(edges'[u]) IN
           lost # {} /\ ~Reconfigured =>
             /\ Len(edges[u]) = MAX_EDGES_PER_NODE
             /\ Cardinality(lost) = 1
             /\ \A x \in lost : \A y \in Dsts(edges[u]) :
                  adj_weight(apply_decay(edges)[u], x) <= adj_weight(apply_decay(edges)[u], y)
             /\ Dsts(edges'[u]) \ Dsts(edges[u]) = {page_idx(hist'[Len(hist')])}]_vars
  <2> SUFFICES ASSUME IInv, GraphWellFormed, Next, ~Reconfigured, NEW u \in Nodes,
                      Dsts(edges[u]) \ Dsts(edges'[u]) # {}
               PROVE  /\ Len(edges[u]) = MAX_EDGES_PER_NODE
                      /\ Cardinality(Dsts(edges[u]) \ Dsts(edges'[u])) = 1
                      /\ \A x \in Dsts(edges[u]) \ Dsts(edges'[u]) : \A y \in Dsts(edges[u]) :
                           adj_weight(apply_decay(edges)[u], x) <= adj_weight(apply_decay(edges)[u], y)
                      /\ Dsts(edges'[u]) \ Dsts(edges[u]) = {page_idx(hist'[Len(hist')])}
    OBVIOUS
  <2>1. PICK page \in Pages : Observe(page)
    BY DEF Next, TgInit, TgReset, ResetState, Reconfigured, Hit, Fault
  <2>2. PICK v \in Nodes : v = page_idx(page)
    BY PagesAssumption, PageIdxType
  <2>3. edges' = GraphAfter(v) /\ hist' = Append(hist, page)
    BY <2>1, <2>2 DEF Observe
  <2>4. page_idx(hist'[Len(hist')]) = v
    <3>1. hist \in Seq(Pages)
      BY DEF IInv, TypeOk
    <3>2. hist'[Len(hist')] = page
      BY <2>3, <3>1
    <3> QED BY <2>2, <3>2
  <2>5. PICK b : b = edges'[u]
    OBVIOUS
  <2>6. TypeOk /\ Loses(Swept[u], b, v)
    BY <2>3, <2>5, GraphAfterLoses DEF IInv
  <2>7. /\ Len(edges[u]) = MAX_EDGES_PER_NODE
        /\ Cardinality(Dsts(edges[u]) \ Dsts(b)) = 1
        /\ \A x \in Dsts(edges[u]) \ Dsts(b) : \A y \in Dsts(edges[u]) :
             adj_weight(apply_decay(edges)[u], x) <= adj_weight(apply_decay(edges)[u], y)
        /\ Dsts(b) \ Dsts(edges[u]) = {v}
    BY <2>5, <2>6, ListForgets
  <2> QED BY <2>4, <2>5, <2>7
<1> QED BY <1>1, Invariance, GraphCorrect, PTL DEF Spec, EdgesLeaveOnlyByOverflow
-------------------------------------------------------------------------------
(* Weights count pairs of accesses.                                        *)

\* The positions of the history h at which u was accessed.
Positions(h, u) == {i \in DOMAIN h : page_idx(h[i]) = u}

LEMMA FollowingIsNear ==
  ASSUME hist \in Seq(Pages), NEW u, NEW v
  PROVE  Following(u, v) = Near(Len(hist), W, Positions(hist, u), Positions(hist, v))
<1>1. DOMAIN hist = 1..Len(hist)
  OBVIOUS
<1> QED BY <1>1 DEF Following, Near, Positions, HistIdx

\* An access is paired with every access of the window, and no other pair is new.
LEMMA FollowingGrows ==
  ASSUME TypeOk, WindowIsHistory, NEW page \in Pages, Observe(page), NEW u, NEW v
  PROVE  /\ Cardinality(Following(u, v)) \in Nat
         /\ v = page_idx(page) => Cardinality(Following(u, v)') =
              Cardinality(Following(u, v)) + Occurs(Recent, u, win.size)
         /\ v # page_idx(page) => Cardinality(Following(u, v)') = Cardinality(Following(u, v))
<1> DEFINE n == Len(hist)
           A == Positions(hist, u)
           B == Positions(hist, v)
           A2 == Positions(hist', u)
           B2 == Positions(hist', v)
<1>1. n \in Nat /\ W \in Nat /\ hist \in Seq(Pages) /\ DOMAIN hist = 1..n
  BY WindowAssumption DEF TypeOk
<1>2. /\ hist' = Append(hist, page) /\ W' = W
      /\ hist' \in Seq(Pages) /\ Len(hist') = n + 1 /\ DOMAIN hist' = 1..(n + 1)
      /\ hist'[n + 1] = page /\ \A i \in 1..n : hist'[i] = hist[i]
  BY <1>1 DEF Observe
<1>3. /\ \A i \in 1..n : (i \in A2 <=> i \in A) /\ (i \in B2 <=> i \in B)
      /\ n + 1 \in B2 <=> v = page_idx(page)
  BY <1>1, <1>2 DEF Positions
<1>4. Following(u, v) = Near(n, W, A, B) /\ Following(u, v)' = Near(n + 1, W, A2, B2)
  <2>1. Following(u, v) = Near(n, W, A, B)
    BY <1>1, FollowingIsNear
  <2>2. Following(u, v)' = Near(n + 1, W, A2, B2)
    BY <1>2 DEF Following, Near, Positions, HistIdx
  <2> QED BY <2>1, <2>2
<1>5. Near(n, W, A2, B2) = Near(n, W, A, B)
  <2> HIDE DEF n, A, B, A2, B2
  <2> QED BY <1>3 DEF Near
<1>6. Latest(n, W, A2) = {i \in 1..win.size : Recent[i] = u}
  <2>1. win.size = Smaller(W, n) /\ Smaller(W, n) \in Nat /\ Smaller(W, n) <= n
    BY <1>1 DEF WindowIsHistory, MinOf, Smaller
  <2>2. ASSUME NEW i \in 1..win.size PROVE n + 1 - i \in A2 <=> Recent[i] = u
    <3>1. i - 1 \in 0..(win.size - 1) /\ n + 1 - i \in 1..n /\ n - (i - 1) = n + 1 - i
      BY <1>1, <2>1
    <3>2. Recent[i] = HistIdx(n + 1 - i)
      BY <3>1 DEF Recent, WindowIsHistory
    <3>3. n + 1 - i \in A2 <=> n + 1 - i \in A
      BY <1>3, <3>1
    <3>4. n + 1 - i \in A <=> HistIdx(n + 1 - i) = u
      BY <1>1, <3>1 DEF Positions, HistIdx
    <3> QED BY <3>2, <3>3, <3>4
  <2> HIDE DEF A2
  <2> QED BY <2>1, <2>2 DEF Latest
<1>7. /\ Cardinality(Near(n, W, A2, B2)) \in Nat
      /\ n + 1 \in B2 => Cardinality(Near(n + 1, W, A2, B2)) =
           Cardinality(Near(n, W, A2, B2)) + Cardinality(Latest(n, W, A2))
      /\ n + 1 \notin B2 => Cardinality(Near(n + 1, W, A2, B2)) = Cardinality(Near(n, W, A2, B2))
  <2> HIDE DEF n, A2, B2
  <2> QED BY <1>1, NearGrows
<1> HIDE DEF n, A, B, A2, B2
<1> QED BY <1>3, <1>4, <1>5, <1>6, <1>7 DEF Occurs

\* The graph update_graph starts from names the same edges and weighs none more; before
\* the first sweep it is the graph itself, and no sweep weakens a light edge.
LEMMA SweptBounds ==
  ASSUME TypeOk, GraphWellFormed, NEW u \in Nodes, NEW x
  PROVE  /\ Swept \in [Nodes -> Seq(Edge)] /\ WellFormedList(Swept[u], u)
         /\ adj_weight(Swept[u], x) <= adj_weight(edges[u], x)
         /\ adj_weight(edges[u], x) \in Nat
         /\ access_count + 1 < DECAY_INTERVAL => Swept = edges
         /\ adj_weight(edges[u], x) < DECAY_DIV => adj_weight(Swept[u], x) = adj_weight(edges[u], x)
         /\ Names(Swept[u], x) => Names(edges[u], x)
<1>1. edges \in [Nodes -> Seq(Edge)] /\ access_count \in Nat /\ WellFormedList(edges[u], u)
  BY DEF TypeOk, GraphWellFormed
<1>2. edges[u] \in Seq(EdgeTo(Nodes)) /\ DistinctDsts(edges[u])
  BY <1>1 DEF Edge, EdgeTo, WellFormedList, DistinctDsts
<1>3. adj_weight(edges[u], x) \in Nat
  BY <1>2, WeightType, GraphAssumption
<1>4. apply_decay(edges) = [v \in Nodes |-> DecayList(edges[v])]
  BY DEF apply_decay
<1>5. apply_decay(edges) \in [Nodes -> Seq(Edge)]
  BY <1>1, <1>4, DecayListType DEF Edge, EdgeTo
<1>6. WellFormedList(apply_decay(edges)[u], u)
  BY <1>1, <1>4, DecayKeepsWellFormed
<1>7. /\ adj_weight(apply_decay(edges)[u], x) <= adj_weight(edges[u], x)
      /\ adj_weight(edges[u], x) < DECAY_DIV =>
           adj_weight(apply_decay(edges)[u], x) = adj_weight(edges[u], x)
  <2>1. adj_weight(DecayList(edges[u]), x) = Decayed(adj_weight(edges[u], x))
    BY <1>2, DecayWeight
  <2>2. /\ Decayed(adj_weight(edges[u], x)) <= adj_weight(edges[u], x)
        /\ adj_weight(edges[u], x) < DECAY_DIV =>
             Decayed(adj_weight(edges[u], x)) = adj_weight(edges[u], x)
    BY <1>3, DecayedBounds
  <2> QED BY <1>4, <2>1, <2>2
<1>9. Names(apply_decay(edges)[u], x) => Names(edges[u], x)
  <2>1. /\ DecayList(edges[u]) \in Seq(EdgeTo(Nodes)) /\ Len(DecayList(edges[u])) = Len(edges[u])
        /\ \A i \in 1..Len(edges[u]) : DecayList(edges[u])[i].dst = edges[u][i].dst
    BY <1>2, DecayListType
  <2>2. DOMAIN DecayList(edges[u]) = 1..Len(edges[u]) /\ DOMAIN edges[u] = 1..Len(edges[u])
    BY <1>2, <2>1
  <2> QED BY <1>4, <2>1, <2>2 DEF Names
<1>8. access_count + 1 < DECAY_INTERVAL => (access_count + 1) % DECAY_INTERVAL # 0
  <2>1. DECAY_INTERVAL \in Nat /\ DECAY_INTERVAL > 0
    BY DecayAssumption
  <2>2. SUFFICES ASSUME access_count + 1 \in 0..(DECAY_INTERVAL - 1)
                 PROVE  (access_count + 1) % DECAY_INTERVAL = access_count + 1
    BY <1>1, <2>1
  <2> QED BY <2>1, <2>2, ModOneTurn
<1> QED BY <1>1, <1>3, <1>5, <1>6, <1>7, <1>8, <1>9 DEF Swept

\* An edge is towards a follower, and followers stay followers.
LEMMA FollowersGrow ==
  ASSUME TypeOk, GraphWellFormed, WindowIsHistory, WeightsCountPairs,
         NEW page \in Pages, Observe(page), NEW u \in Nodes
  PROVE  /\ IsFiniteSet(Followers(u)')
         /\ \A x : Names(Swept[u], x) => x \in Followers(u)'
         /\ u # page_idx(page) /\ Occurs(Recent, u, win.size) # 0 =>
              page_idx(page) \in Followers(u)'
<1>1. IsFiniteSet(Followers(u)')
  <2>1. IsFiniteSet(Nodes)
    BY UniqueAssumption, FS_Interval DEF Nodes
  <2>2. Followers(u)' \subseteq Nodes
    BY DEF Followers
  <2> QED BY <2>1, <2>2, FS_Subset
<1>2. ASSUME NEW x, Names(Swept[u], x) PROVE x \in Followers(u)'
  <2>1. PICK list : list = edges[u]
    OBVIOUS
  <2>2. list \in Seq(EdgeTo(Nodes)) /\ DistinctDsts(list) /\ WellFormedList(list, u)
    BY <2>1 DEF TypeOk, GraphWellFormed, WellFormedList, DistinctDsts, Edge, EdgeTo
  <2>3. PICK i \in DOMAIN list : list[i].dst = x
    BY <1>2, <2>1, SweptBounds DEF Names
  <2>4. x \in Nodes /\ x # u /\ list[i].w >= 1
    <3>1. list[i] \in EdgeTo(Nodes)
      BY <2>2
    <3>2. list[i].dst # u
      BY <2>2 DEF WellFormedList
    <3> QED BY <2>3, <3>1, <3>2 DEF EdgeTo
  <2>5. adj_weight(edges[u], x) >= 1
    BY <2>1, <2>2, <2>3, <2>4, WeightNamed
  <2>6. adj_weight(edges[u], x) \in Nat
    BY <2>1, <2>2, WeightType, GraphAssumption
  <2>7. adj_weight(edges[u], x) <= Cardinality(Following(u, x))
    BY <2>4 DEF WeightsCountPairs, PairCount
  <2>8. /\ Cardinality(Following(u, x)) \in Nat
        /\ x = page_idx(page) => Cardinality(Following(u, x)') =
             Cardinality(Following(u, x)) + Occurs(Recent, u, win.size)
        /\ x # page_idx(page) => Cardinality(Following(u, x)') = Cardinality(Following(u, x))
    BY FollowingGrows
  <2>9. Occurs(Recent, u, win.size) \in Nat
    BY OccursCounts DEF TypeOk
  <2>10. Cardinality(Following(u, x)') > 0
    BY <2>5, <2>6, <2>7, <2>8, <2>9
  <2> QED BY <2>4, <2>10 DEF Followers, PairCount
<1>3. ASSUME u # page_idx(page), Occurs(Recent, u, win.size) # 0
      PROVE  page_idx(page) \in Followers(u)'
  <2>1. page_idx(page) \in Nodes
    BY PagesAssumption, PageIdxType
  <2>2. PICK x : x = page_idx(page)
    OBVIOUS
  <2>3. /\ Cardinality(Following(u, x)) \in Nat
        /\ Cardinality(Following(u, x)') =
             Cardinality(Following(u, x)) + Occurs(Recent, u, win.size)
    BY <2>2, FollowingGrows
  <2>4. Occurs(Recent, u, win.size) \in Nat
    BY OccursCounts DEF TypeOk
  <2>5. Cardinality(Following(u, x)') > 0
    BY <1>3, <2>3, <2>4
  <2>6. x \in Followers(u)'
    BY <1>3, <2>1, <2>2, <2>5 DEF Followers, PairCount
  <2> QED BY <2>2, <2>6
<1> QED BY <1>1, <1>2, <1>3

\* An access adds to the edges towards its page what it adds to the pairs.
LEMMA WeightsGrow ==
  ASSUME TypeOk, GraphWellFormed, WindowIsHistory, WeightsCountPairs,
         NEW page \in Pages, Observe(page), NEW u \in Nodes, NEW v \in Nodes, u # v
  PROVE  /\ adj_weight(edges'[u], v) <= Cardinality(Following(u, v)')
         /\ (/\ Cardinality(Followers(u)') <= MAX_EDGES_PER_NODE
             /\ access_count' < DECAY_INTERVAL \/ Cardinality(Following(u, v)') < DECAY_DIV
             /\ Cardinality(Following(u, v)') <= MAX_WEIGHT) =>
               adj_weight(edges'[u], v) = Cardinality(Following(u, v)')
<1>0. PICK idx, n, at, g : idx = page_idx(page) /\ n = win.size /\ at = Recent /\ g = Swept
  OBVIOUS
<1> DEFINE X == {h \in [Nodes -> Seq(Edge)] : \A m \in Nodes : WellFormedList(h[m], m)}
           c == Occurs(at, u, n)
           k == Cardinality(Following(u, v))
           w == adj_weight(edges[u], v)
           s == adj_weight(g[u], v)
           Fits == Cardinality(Followers(u)') <= MAX_EDGES_PER_NODE
<1>1. idx \in Nodes
  BY <1>0, PagesAssumption, PageIdxType
<1>2. W \in 1..MAX_WINDOW /\ win \in WinType /\ n \in Nat
  BY <1>0, WindowAssumption DEF TypeOk, WinType
<1>3. \A i \in 0..(n - 1) : WindowAt(i) \in Nodes
  BY <1>0, <1>2, WindowAtType
<1>4. /\ \A m \in Nodes : WellFormedList(g[m], m) /\ s <= w /\ w \in Nat
      /\ g \in X /\ (access_count + 1 < DECAY_INTERVAL => g = edges)
      /\ w < DECAY_DIV => s = w
  BY <1>0, SweptBounds
<1>5. ASSUME NEW h \in X, NEW m \in Nodes \ {idx}
      PROVE  [h EXCEPT ![m] = adj_inc(@, idx)] \in X
  <2>1. adj_inc(h[m], idx) \in Seq(Edge) /\ WellFormedList(adj_inc(h[m], idx), m)
    BY <1>1, AdjIncType, AdjIncKeepsWellFormed DEF Edge, EdgeTo
  <2> QED BY <2>1
<1>6. /\ Recent \in [1..win.size -> Nodes]
      /\ \E f \in [0..win.size -> X] :
           Run(f, Swept, Recent, win.size, idx, idx) /\ update_graph(Swept, idx) = f[win.size]
  <2>1. win.size \in Nat /\ \A i \in 0..(win.size - 1) : WindowAt(i) \in Nodes
    BY <1>0, <1>2, <1>3
  <2>2. Swept \in X
    BY <1>0, <1>4
  <2> HIDE DEF X
  <2> QED BY <1>1, <1>2, <1>5, <2>1, <2>2, UpdateGraphRun
<1>7. PICK f \in [0..n -> X] : Run(f, g, at, n, idx, idx) /\ update_graph(Swept, idx) = f[n]
  <2> HIDE DEF X
  <2> QED BY <1>0, <1>6
<1>22. at \in [1..n -> Nodes] /\ Run(f, g, at, n, idx, idx)
  BY <1>0, <1>6, <1>7
<1>8. edges' = f[n]
  BY <1>0, <1>7 DEF Observe, GraphAfter, Swept
<1>9. X \in SUBSET TidyGraphs(Nodes, Nodes)
  BY DEF TidyGraphs, WellFormedList, DistinctDsts, Edge, EdgeTo
<1>23. Loop(f, g, at, n, idx, idx, Nodes, Nodes, X)
  <2> HIDE DEF X
  <2> QED BY <1>1, <1>2, <1>7, <1>9, <1>22 DEF Loop
<1>24. Weight(f, 0, u, v) = s /\ Weight(f, n, u, v) = adj_weight(edges'[u], v)
  BY <1>8, <1>22 DEF Weight, Run
<1>10. Fits /\ u # idx => Roomy(f, at, n, u, idx)
  <2>1. PICK F : F = Followers(u)'
    OBVIOUS
  <2>2. /\ IsFiniteSet(F) /\ NamesWithin(g, u, F)
        /\ u # idx /\ Occurs(at, u, n) # 0 => idx \in F
    BY <1>0, <2>1, FollowersGrow DEF NamesWithin
  <2>3. Fits => Cardinality(F) <= MAX_EDGES_PER_NODE
    BY <2>1
  <2> HIDE DEF X, Fits
  <2> QED BY <1>23, <2>2, <2>3, RunRoom
<1>11. /\ u = idx => Weight(f, n, u, v) = s
       /\ u # idx /\ v = idx => Weight(f, n, u, v) <= s + c
       /\ u # idx /\ v # idx => Weight(f, n, u, v) <= s
       /\ u # idx /\ Roomy(f, at, n, u, idx) /\ v = idx =>
            Weight(f, n, u, v) = Smaller(s + c, MAX_WEIGHT)
       /\ u # idx /\ Roomy(f, at, n, u, idx) /\ v # idx => Weight(f, n, u, v) = s
  <2> HIDE DEF X, s
  <2> QED BY <1>23, <1>24, RunWeights
<1> DEFINE e == adj_weight(edges'[u], v)
           k2 == Cardinality(Following(u, v)')
<1>14. c \in Nat /\ MAX_WEIGHT \in Nat /\ DECAY_INTERVAL \in Nat /\ s \in Nat
  <2>1. Occurs(at, u, n) \in Nat
    BY <1>2, OccursCounts
  <2>2. s \in Nat
    <3>1. g[u] \in Seq(EdgeTo(Nodes)) /\ DistinctDsts(g[u])
      BY <1>4 DEF Edge, EdgeTo, WellFormedList, DistinctDsts
    <3> QED BY <3>1, WeightType, GraphAssumption
  <2> QED BY <2>1, <2>2, GraphAssumption, DecayAssumption
<1>12. /\ v = idx => e <= s + c
       /\ v # idx => e <= s
       /\ Fits => e = IF v = idx THEN Smaller(s + c, MAX_WEIGHT) ELSE s
  <2>0. e = Weight(f, n, u, v)
    BY <1>24
  <2> HIDE DEF X, s, c, Fits, e
  <2>1. CASE u = idx
    <3>1. v # idx /\ e = s
      BY <1>11, <2>0, <2>1
    <3>2. s <= s
      BY <1>14
    <3> QED BY <3>1, <3>2
  <2>2. CASE u # idx
    <3> QED BY <1>10, <1>11, <2>0, <2>2
  <2> QED BY <2>1, <2>2
<1>13. /\ k \in Nat
       /\ v = idx => k2 = k + c
       /\ v # idx => k2 = k
  <2>1. /\ Cardinality(Following(u, v)) \in Nat
        /\ v = page_idx(page) => Cardinality(Following(u, v)') =
             Cardinality(Following(u, v)) + Occurs(Recent, u, win.size)
        /\ v # page_idx(page) => Cardinality(Following(u, v)') = Cardinality(Following(u, v))
    BY FollowingGrows
  <2> QED BY <1>0, <2>1
<1>21. Fits => Cardinality(Followers(u)) <= MAX_EDGES_PER_NODE
  <2>1. Followers(u) \subseteq Followers(u)'
    <3>1. ASSUME NEW x \in Nodes, x # u, Cardinality(Following(u, x)) > 0
          PROVE  Cardinality(Following(u, x)') > 0
      <4>1. /\ Cardinality(Following(u, x)) \in Nat
            /\ x = page_idx(page) => Cardinality(Following(u, x)') =
                 Cardinality(Following(u, x)) + Occurs(Recent, u, win.size)
            /\ x # page_idx(page) => Cardinality(Following(u, x)') = Cardinality(Following(u, x))
        BY FollowingGrows
      <4> QED BY <1>0, <1>14, <3>1, <4>1
    <3> QED BY <3>1 DEF Followers, PairCount
  <2>2. IsFiniteSet(Followers(u)')
    BY FollowersGrow
  <2>3. Cardinality(Followers(u)) \in Nat /\ Cardinality(Followers(u)') \in Nat
        /\ Cardinality(Followers(u)) <= Cardinality(Followers(u)')
    BY <2>1, <2>2, FS_Subset, FS_CardinalityType
  <2> QED BY <2>3, GraphAssumption
<1>15. /\ w <= k
       /\ (/\ Fits
           /\ access_count < DECAY_INTERVAL \/ k < DECAY_DIV
           /\ k <= MAX_WEIGHT) => w = k
  <2>1. w <= k /\ (w < k => ~Remembered(u, v))
    BY DEF WeightsCountPairs, PairCount
  <2>2. (/\ Cardinality(Followers(u)) <= MAX_EDGES_PER_NODE
         /\ access_count < DECAY_INTERVAL \/ k < DECAY_DIV
         /\ k <= MAX_WEIGHT) => Remembered(u, v)
    BY DEF Remembered, PairCount
  <2>3. k \in Nat /\ w \in Nat /\ (Fits => Cardinality(Followers(u)) <= MAX_EDGES_PER_NODE)
    BY <1>4, <1>13, <1>21
  <2> HIDE DEF Fits, k, w
  <2>4. w <= k /\ ~(w < k) => w = k
    BY <2>3
  <2> QED BY <2>1, <2>2, <2>3, <2>4, Zenon
<1>16. access_count' = access_count + 1 /\ access_count \in Nat
  BY DEF Observe, TypeOk
<1>17. access_count + 1 < DECAY_INTERVAL => s = w
  BY <1>4
<1>20. e \in Nat
  <2>0. f[n] \in X
    <3> HIDE DEF X
    <3> QED BY <1>2, <1>7
  <2>1. edges'[u] \in Seq(EdgeTo(Nodes)) /\ DistinctDsts(edges'[u])
    BY <1>8, <2>0 DEF Edge, EdgeTo, WellFormedList, DistinctDsts
  <2> QED BY <2>1, WeightType, GraphAssumption
<1> HIDE DEF X, c, k, w, s, Fits, e, k2
<1>18. e <= k2
  BY <1>4, <1>20, <1>12, <1>13, <1>14, <1>15
<1>19. ASSUME Fits, access_count' < DECAY_INTERVAL \/ k2 < DECAY_DIV, k2 <= MAX_WEIGHT
       PROVE  e = k2
  <2>1. k <= k2 /\ k <= MAX_WEIGHT
    BY <1>13, <1>14, <1>19
  <2>2. access_count < DECAY_INTERVAL \/ k < DECAY_DIV
    BY <1>13, <1>14, <1>16, <1>19, <2>1, GraphAssumption
  <2>3. w = k
    BY <1>15, <1>19, <2>1, <2>2
  <2>4. s = w
    BY <1>4, <1>13, <1>14, <1>16, <1>17, <1>19, <2>1, <2>3, GraphAssumption
  <2> QED BY <1>12, <1>13, <1>14, <1>19, <2>3, <2>4 DEF Smaller
<1> QED BY <1>18, <1>19 DEF e, k2, Fits

LEMMA InitWeights ==
  ASSUME hist = <<>>, edges = [u \in Nodes |-> <<>>]
  PROVE  WeightsCountPairs
<1> SUFFICES ASSUME NEW u \in Nodes, NEW v \in Nodes
             PROVE  adj_weight(edges[u], v) = 0 /\ PairCount(u, v) = 0
  BY DEF WeightsCountPairs
<1>1. adj_weight(edges[u], v) = 0
  BY DEF adj_weight
<1>2. Following(u, v) = {}
  BY DEF Following
<1> QED BY <1>1, <1>2, FS_EmptySet DEF PairCount

\* The weight of an edge u -> v never exceeds the number of times v was accessed within W
\* accesses after u, whatever overflowed and decayed in between, and equals it as long as
\* no more pages followed u than its list holds, no sweep has run over a heavy edge and
\* the count fits the 16 bits.
THEOREM WeightsCorrect == Spec => []WeightsCountPairs
<1>1. Init => WeightsCountPairs
  BY InitWeights DEF Init
<1>2. IInv /\ GraphWellFormed /\ GraphWellFormed' /\ WindowIsHistory /\ WeightsCountPairs
        /\ [Next]_vars => WeightsCountPairs'
  <2> SUFFICES ASSUME IInv, GraphWellFormed, GraphWellFormed', WindowIsHistory, WeightsCountPairs,
                      [Next]_vars
               PROVE  WeightsCountPairs'
    OBVIOUS
  <2>1. ASSUME ResetState PROVE WeightsCountPairs'
    <3>1. hist' = <<>> /\ edges' = [u \in Nodes |-> <<>>]
      BY <2>1 DEF ResetState
    <3> SUFFICES ASSUME NEW u \in Nodes, NEW v \in Nodes
                 PROVE  adj_weight(edges'[u], v) = 0 /\ PairCount(u, v)' = 0
      BY DEF WeightsCountPairs
    <3>2. adj_weight(edges'[u], v) = 0
      BY <3>1 DEF adj_weight
    <3>3. Following(u, v)' = {}
      BY <3>1 DEF Following
    <3> QED BY <3>2, <3>3, FS_EmptySet DEF PairCount
  <2>2. ASSUME NEW page \in Pages, Observe(page) PROVE WeightsCountPairs'
    <3> SUFFICES ASSUME NEW u \in Nodes, NEW v \in Nodes
                 PROVE  LET w == adj_weight(edges'[u], v) IN
                        /\ w <= PairCount(u, v)'
                        /\ w < PairCount(u, v)' => ~Remembered(u, v)'
      BY DEF WeightsCountPairs
    <3>1. CASE u = v
      <4>1. ~Names(edges'[u], v)
        BY <3>1 DEF GraphWellFormed, WellFormedList, Names
      <4>2. adj_weight(edges'[u], v) = 0 /\ PairCount(u, v)' = 0
        BY <3>1, <4>1, WeightUnnamed DEF PairCount
      <4> QED BY <4>2
    <3>2. CASE u # v
      <4>1. /\ adj_weight(edges'[u], v) <= Cardinality(Following(u, v)')
            /\ (/\ Cardinality(Followers(u)') <= MAX_EDGES_PER_NODE
                /\ access_count' < DECAY_INTERVAL \/ Cardinality(Following(u, v)') < DECAY_DIV
                /\ Cardinality(Following(u, v)') <= MAX_WEIGHT) =>
                  adj_weight(edges'[u], v) = Cardinality(Following(u, v)')
        BY <2>2, <3>2, WeightsGrow DEF IInv
      <4>2. PairCount(u, v)' = Cardinality(Following(u, v)')
        BY <3>2 DEF PairCount
      <4>3. Remembered(u, v)' =>
              /\ Cardinality(Followers(u)') <= MAX_EDGES_PER_NODE
              /\ access_count' < DECAY_INTERVAL \/ PairCount(u, v)' < DECAY_DIV
              /\ PairCount(u, v)' <= MAX_WEIGHT
        BY DEF Remembered
      <4>4. adj_weight(edges'[u], v) \in Nat
        <5>1. edges'[u] \in Seq(EdgeTo(Nodes)) /\ DistinctDsts(edges'[u])
          BY StepIInv DEF IInv, TypeOk, GraphWellFormed, WellFormedList, DistinctDsts, Edge, EdgeTo
        <5> QED BY <5>1, WeightType, GraphAssumption
      <4>5. Cardinality(Following(u, v)') \in Nat
        <5>1. Occurs(Recent, u, win.size) \in Nat
          BY OccursCounts DEF IInv, TypeOk
        <5>2. /\ Cardinality(Following(u, v)) \in Nat
              /\ v = page_idx(page) => Cardinality(Following(u, v)') =
                   Cardinality(Following(u, v)) + Occurs(Recent, u, win.size)
              /\ v # page_idx(page) => Cardinality(Following(u, v)') = Cardinality(Following(u, v))
          BY <2>2, FollowingGrows DEF IInv
        <5> QED BY <5>1, <5>2
      <4> DEFINE w == adj_weight(edges'[u], v)
                 k == Cardinality(Following(u, v)')
      <4>6. w \in Nat /\ k \in Nat /\ w <= k
        BY <4>1, <4>4, <4>5
      <4> HIDE DEF w, k
      <4>7. w < k => w # k
        BY <4>6
      <4> QED BY <4>1, <4>2, <4>3, <4>6, <4>7 DEF w, k
    <3> QED BY <3>1, <3>2
  <2>3. CASE UNCHANGED vars
    <3>1. \A u, v \in Nodes : PairCount(u, v)' = PairCount(u, v)
      BY <2>3 DEF vars, PairCount, Following, HistIdx
    <3>2. \A u \in Nodes : Followers(u)' = Followers(u)
      BY <3>1 DEF Followers
    <3>3. \A u, v \in Nodes : Remembered(u, v)' => Remembered(u, v)
      BY <2>3, <3>1, <3>2 DEF vars, Remembered
    <3> QED BY <2>3, <3>1, <3>3 DEF vars, WeightsCountPairs
  <2> QED BY <2>1, <2>2, <2>3 DEF Next, TgInit, TgReset, Hit, Fault
<1> QED BY <1>1, <1>2, Invariance, GraphCorrect, WindowCorrect, PTL DEF Spec

-------------------------------------------------------------------------------
(* The victim is the best of the sampled pages.                            *)

\* The stamp of an occupied frame is the last position of the history at which its page
\* index was accessed.
Stamped(f) ==
  /\ mru_time[f] \in DOMAIN hist
  /\ HistIdx(mru_time[f]) = page_idx(frames[f])
  /\ \A j \in DOMAIN hist : HistIdx(j) = page_idx(frames[f]) => j <= mru_time[f]

StampsAreLastUses == global_time = Len(hist) /\ \A f \in Occupied : Stamped(f)

\* An access of another page leaves the stamp of a frame it does not load right.
LEMMA StillStamped ==
  ASSUME TypeOk, NEW page \in Pages, Observe(page), NEW f \in Slots, Stamped(f),
         frames'[f] = frames[f], mru_time'[f] = mru_time[f], page_idx(frames[f]) # page_idx(page)
  PROVE  Stamped(f)'
<1>1. /\ hist \in Seq(Pages) /\ hist' = Append(hist, page) /\ Len(hist) \in Nat
      /\ DOMAIN hist = 1..Len(hist)
  BY DEF TypeOk, Observe
<1>2. /\ DOMAIN hist' = 1..(Len(hist) + 1) /\ hist'[Len(hist) + 1] = page
      /\ \A i \in DOMAIN hist : hist'[i] = hist[i]
  BY <1>1, AppendProperties
<1> QED BY <1>1, <1>2 DEF Stamped, HistIdx

\* The accessed page is stamped with the new time.
LEMMA NowStamped ==
  ASSUME TypeOk, global_time = Len(hist), NEW page \in Pages, Observe(page), NEW f \in Slots,
         mru_time'[f] = global_time + 1, page_idx(frames'[f]) = page_idx(page)
  PROVE  Stamped(f)'
<1>1. /\ hist \in Seq(Pages) /\ hist' = Append(hist, page) /\ Len(hist) \in Nat
  BY DEF TypeOk, Observe
<1>2. DOMAIN hist' = 1..(Len(hist) + 1) /\ hist'[Len(hist) + 1] = page
  BY <1>1, AppendProperties
<1> QED BY <1>1, <1>2 DEF Stamped, HistIdx

LEMMA StampsInvariance == Spec => []StampsAreLastUses
<1>1. Init => StampsAreLastUses
  BY DEF Init, StampsAreLastUses, Occupied
<1>2. IInv /\ StampsAreLastUses /\ [Next]_vars => StampsAreLastUses'
  <2> SUFFICES ASSUME IInv, StampsAreLastUses, [Next]_vars PROVE StampsAreLastUses'
    OBVIOUS
  <2>0. TypeOk /\ IndexMatchesFrames /\ Occupied \subseteq Slots
    <3>1. cap \in 0..MAX_FRAMES /\ MAX_FRAMES \in Nat
      BY FramesAssumption DEF IInv, TypeOk
    <3> QED BY <3>1 DEF IInv, ResidencyAgrees, Occupied, Slots
  <2>1. ASSUME ResetState, cap' \in Nat, cap' <= MAX_FRAMES PROVE StampsAreLastUses'
    <3>1. hist' = <<>> /\ global_time' = 0 /\ frames' = [f \in Slots |-> EMPTY]
      BY <2>1 DEF ResetState
    <3>2. Occupied' = {}
      BY <2>1, <3>1, FramesAssumption DEF Occupied, Slots
    <3> QED BY <3>1, <3>2 DEF StampsAreLastUses
  <2>2. ASSUME NEW page \in Pages, Observe(page) PROVE global_time' = Len(hist')
    <3>1. Len(hist') = Len(hist) + 1
      BY <2>0, <2>2, AppendProperties DEF TypeOk, Observe
    <3> QED BY <2>2, <3>1 DEF Observe, StampsAreLastUses
  <2>3. ASSUME NEW page \in Pages, Hit(page) PROVE StampsAreLastUses'
    <3>1. PICK idx, f : idx = page_idx(page) /\ f = frame_of[idx]
      OBVIOUS
    <3>2. /\ Observe(page) /\ in_frames[idx] /\ idx \in Nodes
          /\ mru_time' = [mru_time EXCEPT ![f] = global_time + 1]
          /\ frames' = frames /\ cap' = cap
      BY <2>3, <3>1, PagesAssumption, PageIdxType DEF Hit, Observe
    <3>3. f \in Occupied /\ page_idx(frames[f]) = idx
      BY <2>0, <3>1, <3>2 DEF IndexMatchesFrames
    <3>4. Occupied' = Occupied
      BY <3>2 DEF Occupied
    <3>5. ASSUME NEW e \in Occupied PROVE Stamped(e)'
      <4>1. mru_time \in [Slots -> Nat] /\ e \in Slots
        BY <2>0 DEF TypeOk
      <4>2. CASE e = f
        <5>1. mru_time'[e] = global_time + 1 /\ page_idx(frames'[e]) = page_idx(page)
          BY <3>1, <3>2, <3>3, <4>1, <4>2
        <5> QED BY <2>0, <3>2, <4>1, <5>1, NowStamped DEF StampsAreLastUses
      <4>3. CASE e # f
        <5>1. page_idx(frames[e]) # page_idx(page)
          BY <2>0, <3>1, <4>3 DEF IndexMatchesFrames
        <5>2. mru_time'[e] = mru_time[e] /\ frames'[e] = frames[e] /\ Stamped(e)
          BY <3>2, <4>1, <4>3 DEF StampsAreLastUses
        <5> QED BY <2>0, <3>2, <4>1, <5>1, <5>2, StillStamped
      <4> QED BY <4>2, <4>3
    <3> QED BY <2>2, <3>2, <3>4, <3>5 DEF StampsAreLastUses
  <2>4. ASSUME NEW page \in Pages, Fault(page) PROVE StampsAreLastUses'
    <3>1. PICK idx, v : idx = page_idx(page) /\ v = choose_victim(GraphAfter(idx))
      OBVIOUS
    <3>2. /\ Observe(page) /\ ~in_frames[idx] /\ cap' = cap /\ cap > 0
          /\ mru_time' = [mru_time EXCEPT ![v] = global_time + 1]
          /\ frames' = [frames EXCEPT ![v] = page]
      BY <2>4, <3>1 DEF Fault, LoadInto, Observe
    <3>3. v \in 0..(cap - 1) /\ v \in Slots
      <4>1. v \in 0..(cap - 1)
        BY <3>1, <3>2, VictimIsSound DEF IInv, ResidencyAgrees, ListIsRecencyOrder
      <4> QED BY <2>0, <4>1, FramesAssumption DEF TypeOk, Slots
    <3>4. Occupied' \subseteq Occupied \cup {v}
      BY <2>0, <3>2, <3>3 DEF Occupied, TypeOk
    <3>5. ASSUME NEW e \in Occupied' PROVE Stamped(e)'
      <4>1. /\ mru_time \in [Slots -> Nat] /\ frames \in [Slots -> Nat \cup {EMPTY}]
            /\ e \in Slots
        BY <2>0, <3>3, <3>4 DEF TypeOk
      <4>2. CASE e = v
        <5>1. mru_time'[e] = global_time + 1 /\ page_idx(frames'[e]) = page_idx(page)
          BY <3>1, <3>2, <4>1, <4>2
        <5> QED BY <2>0, <3>2, <4>1, <5>1, NowStamped DEF StampsAreLastUses
      <4>3. CASE e # v
        <5>1. page_idx(frames[e]) # page_idx(page)
          BY <2>0, <3>1, <3>2, <3>4, <4>3 DEF IndexMatchesFrames
        <5>2. mru_time'[e] = mru_time[e] /\ frames'[e] = frames[e] /\ Stamped(e)
          BY <3>2, <3>4, <4>1, <4>3 DEF StampsAreLastUses
        <5> QED BY <2>0, <3>2, <4>1, <5>1, <5>2, StillStamped
      <4> QED BY <4>2, <4>3
    <3> QED BY <2>2, <3>2, <3>5 DEF StampsAreLastUses
  <2>5. CASE UNCHANGED vars
    BY <2>5 DEF vars, pool, StampsAreLastUses, Occupied, Stamped, HistIdx
  <2>6. ASSUME NEW n \in FrameCounts, NEW w \in WindowSizes, TgInit(n, w) PROVE StampsAreLastUses'
    BY <2>1, <2>6, FramesAssumption DEF TgInit
  <2>7. CASE TgReset
    BY <2>1, <2>7, FramesAssumption DEF TgReset
  <2> QED BY <2>3, <2>4, <2>5, <2>6, <2>7 DEF Next
<1> QED BY <1>1, <1>2, Invariance, PTL DEF Spec

\* The stamp is what LastUse finds in the history.
LEMMA LastUseIsStamp ==
  ASSUME TypeOk, NEW f \in Occupied, Stamped(f)
  PROVE  LastUse(page_idx(frames[f])) = mru_time[f] /\ mru_time[f] \in Nat
<1>1. PICK u, t : u = page_idx(frames[f]) /\ t = mru_time[f]
  OBVIOUS
<1>2. Len(hist) \in Nat /\ DOMAIN hist = 1..Len(hist)
  BY DEF TypeOk
<1>3. t \in 1..Len(hist) /\ HistIdx(t) = u /\ \A j \in 1..Len(hist) : HistIdx(j) = u => j <= t
  BY <1>1, <1>2 DEF Stamped
<1> DEFINE P(i) == HistIdx(i) = u /\ \A j \in (i + 1)..Len(hist) : HistIdx(j) # u
<1>4. P(t)
  BY <1>2, <1>3
<1>5. \A i \in 1..Len(hist) : P(i) => i = t
  BY <1>2, <1>3
<1>6. (CHOOSE i \in DOMAIN hist : P(i)) = t
  BY <1>2, <1>3, <1>4, <1>5
<1> QED BY <1>1, <1>2, <1>3, <1>6 DEF LastUse

\* The occupied frames used before f.
Older(f) == {g \in Occupied : mru_time[g] < mru_time[f]}

\* The k-th frame of the walk is the one with k older ones.
Ranked(k) ==
  /\ Walk[k] # NIL => Walk[k] \in Occupied /\ Cardinality(Older(Walk[k])) = k
  /\ \A f \in Occupied : Cardinality(Older(f)) = k => Walk[k] = f

LEMMA OccupiedFinite ==
  ASSUME TypeOk
  PROVE  /\ IsFiniteSet(Occupied) /\ Occupied \subseteq Slots
         /\ \A f \in Occupied : /\ IsFiniteSet(Older(f)) /\ Cardinality(Older(f)) \in Nat
                               /\ f # NIL /\ mru_time[f] \in Nat
         /\ NIL \notin Slots /\ lru \in ListType /\ mru_time \in [Slots -> Nat]
<1>1. cap \in 0..MAX_FRAMES /\ MAX_FRAMES \in Nat
  BY FramesAssumption DEF TypeOk
<1>2. IsFiniteSet(0..(cap - 1))
  BY <1>1, FS_Interval
<1>3. Occupied \subseteq 0..(cap - 1) /\ Occupied \subseteq Slots
  BY <1>1 DEF Occupied, Slots
<1>4. IsFiniteSet(Occupied)
  BY <1>2, <1>3, FS_Subset
<1>5. ASSUME NEW f \in Occupied PROVE IsFiniteSet(Older(f)) /\ Cardinality(Older(f)) \in Nat
  <2>1. Older(f) \subseteq Occupied
    BY DEF Older
  <2> QED BY <1>4, <2>1, FS_Subset, FS_CardinalityType
<1>6. NIL \notin Slots /\ lru \in ListType /\ mru_time \in [Slots -> Nat]
  <2>1. NIL \notin Slots
    BY DEF Slots
  <2>2. lru \in ListType /\ mru_time \in [Slots -> Nat]
    BY DEF TypeOk, ListType
  <2> QED BY <2>1, <2>2
<1>7. ASSUME NEW f \in Occupied PROVE f # NIL /\ mru_time[f] \in Nat
  <2>1. f \in Slots
    BY <1>3
  <2> QED BY <1>6, <2>1
<1> QED BY <1>3, <1>4, <1>5, <1>6, <1>7

\* Next to a frame of the walk towards the head stands the frame with one more older one.
LEMMA OneMoreOlder ==
  ASSUME TypeOk, Threads(lru, Occupied, mru_time), NEW e \in Occupied, NEW f \in Occupied
  PROVE  /\ f = lru.prev[e] => Cardinality(Older(f)) = Cardinality(Older(e)) + 1
         /\ e = lru.next[f] => Cardinality(Older(f)) = Cardinality(Older(e)) + 1 /\ lru.prev[e] = f
<1> DEFINE t == mru_time
<1>0. /\ Occupied \subseteq Slots /\ NIL \notin Slots /\ t \in [Slots -> Nat]
      /\ \A g \in Occupied : IsFiniteSet(Older(g)) /\ Cardinality(Older(g)) \in Nat
  BY OccupiedFinite
<1>1. ASSUME Older(f) = Older(e) \cup {e} PROVE Cardinality(Older(f)) = Cardinality(Older(e)) + 1
  <2>1. e \notin Older(e)
    BY <1>0 DEF Older
  <2>2. Cardinality(Older(e) \cup {e}) = Cardinality(Older(e)) + 1
    BY <1>0, <2>1, FS_AddElement
  <2> QED BY <1>1, <2>2
<1>2. ASSUME f = lru.prev[e] PROVE Older(f) = Older(e) \cup {e}
  <2>1. f # NIL /\ f \in {g \in Occupied : t[g] > t[e]}
        /\ \A g \in {g \in Occupied : t[g] > t[e]} : t[f] <= t[g]
    BY <1>0, <1>2 DEF Threads, IsOldestOf
  <2>2. ASSUME NEW g \in Occupied, t[g] < t[f] PROVE t[g] < t[e] \/ g = e
    <3>1. ~(t[g] > t[e]) /\ t[g] \in Nat /\ t[e] \in Nat /\ t[f] \in Nat
      BY <1>0, <2>1, <2>2
    <3> QED BY <3>1 DEF Threads
  <2>3. ASSUME NEW g \in Occupied, t[g] < t[e] \/ g = e PROVE t[g] < t[f]
    <3>1. t[g] \in Nat /\ t[e] \in Nat /\ t[f] \in Nat /\ t[e] < t[f]
      BY <1>0, <2>1
    <3> QED BY <2>3, <3>1
  <2> QED BY <2>2, <2>3 DEF Older
<1>3. ASSUME e = lru.next[f] PROVE Older(f) = Older(e) \cup {e} /\ lru.prev[e] = f
  <2>1. e # NIL /\ e \in {g \in Occupied : t[g] < t[f]}
        /\ \A g \in {g \in Occupied : t[g] < t[f]} : t[g] <= t[e]
    BY <1>0, <1>3 DEF Threads, IsNewestOf
  <2>2. ASSUME NEW g \in Occupied, t[g] < t[f] PROVE t[g] < t[e] \/ g = e
    <3>1. t[g] <= t[e] /\ t[g] \in Nat /\ t[e] \in Nat
      BY <1>0, <2>1, <2>2
    <3> QED BY <3>1 DEF Threads
  <2>3. ASSUME NEW g \in Occupied, t[g] < t[e] \/ g = e PROVE t[g] < t[f]
    <3>1. t[g] \in Nat /\ t[e] \in Nat /\ t[f] \in Nat /\ t[e] < t[f]
      BY <1>0, <2>1
    <3> QED BY <2>3, <3>1
  <2>4. Older(f) = Older(e) \cup {e}
    BY <2>2, <2>3 DEF Older
  <2>5. PICK p : p = lru.prev[e]
    OBVIOUS
  <2>6. f \in {g \in Occupied : t[g] > t[e]}
    BY <1>0, <2>1
  <2>7. p \in Occupied /\ t[p] > t[e] /\ t[p] <= t[f]
    BY <2>5, <2>6 DEF Threads, IsOldestOf
  <2>8. ~(t[p] < t[f])
    <3>1. t[p] < t[f] => t[p] <= t[e]
      BY <2>1, <2>7
    <3> QED BY <1>0, <2>7, <3>1
  <2>9. t[p] = t[f]
    BY <1>0, <2>7, <2>8
  <2> QED BY <2>4, <2>5, <2>7, <2>9 DEF Threads
<1> QED BY <1>1, <1>2, <1>3

LEMMA WalkRanks ==
  ASSUME TypeOk, Threads(lru, Occupied, mru_time)
  PROVE  \A k \in 0..(SAMPLE_SIZE - 1) : Ranked(k)
<1>0. /\ SAMPLE_SIZE \in Nat \ {0} /\ NIL \notin Occupied /\ lru \in ListType
      /\ \A f \in Occupied : IsFiniteSet(Older(f)) /\ Cardinality(Older(f)) \in Nat
      /\ \A f \in Occupied : mru_time[f] \in Nat
  BY SampleAssumption, OccupiedFinite
<1> DEFINE S == {k \in Nat : k <= SAMPLE_SIZE - 1 => Ranked(k)}
<1>1. 0 \in S
  <2>1. Walk[0] = lru.tail /\ IsOldestOf(lru.tail, Occupied, mru_time)
    BY <1>0, WalkRun DEF Threads
  <2>2. ASSUME NEW f \in Occupied, Cardinality(Older(f)) = 0 PROVE lru.tail = f
    <3>1. Older(f) = {}
      BY <1>0, <2>2, FS_EmptySet
    <3>2. lru.tail \in Occupied /\ mru_time[lru.tail] <= mru_time[f]
      BY <2>1, <2>2 DEF IsOldestOf
    <3>3. ~(mru_time[lru.tail] < mru_time[f])
      BY <3>1, <3>2 DEF Older
    <3>4. mru_time[lru.tail] = mru_time[f]
      BY <1>0, <3>2, <3>3
    <3> QED BY <2>2, <3>2, <3>4 DEF Threads
  <2>3. ASSUME lru.tail # NIL
        PROVE  lru.tail \in Occupied /\ Cardinality(Older(lru.tail)) = 0
    <3>1. lru.tail \in Occupied /\ \A g \in Occupied : mru_time[lru.tail] <= mru_time[g]
      BY <2>1, <2>3 DEF IsOldestOf
    <3>2. Older(lru.tail) = {}
      BY <1>0, <3>1 DEF Older
    <3> QED BY <3>1, <3>2, FS_EmptySet
  <2> QED BY <2>1, <2>2, <2>3 DEF Ranked
<1>2. ASSUME NEW k \in Nat, k \in S PROVE k + 1 \in S
  <2> SUFFICES ASSUME k + 1 <= SAMPLE_SIZE - 1 PROVE Ranked(k + 1)
    OBVIOUS
  <2>1. Ranked(k) /\ k + 1 \in 1..(SAMPLE_SIZE - 1) /\ (k + 1) - 1 = k /\ k \in 0..(SAMPLE_SIZE - 1)
    BY <1>0, <1>2
  <2>2. PICK e, f : e = Walk[k] /\ f = Walk[k + 1]
    OBVIOUS
  <2>3. f = (IF e = NIL THEN NIL ELSE lru.prev[e]) /\ f \in Occupied \cup {NIL}
    BY <1>0, <2>1, <2>2, WalkRun
  <2>4. ASSUME f # NIL PROVE f \in Occupied /\ Cardinality(Older(f)) = k + 1
    <3>1. e \in Occupied /\ f \in Occupied /\ Cardinality(Older(e)) = k /\ f = lru.prev[e]
      BY <2>1, <2>2, <2>3, <2>4 DEF Ranked
    <3> QED BY <3>1, OneMoreOlder
  <2>5. ASSUME NEW g \in Occupied, Cardinality(Older(g)) = k + 1 PROVE f = g
    <3>1. Older(g) # {}
      BY <2>5, FS_EmptySet
    <3>2. PICK p : p = lru.next[g]
      OBVIOUS
    <3>3. p \in Occupied
      BY <3>1, <3>2 DEF Threads, IsNewestOf, Older
    <3>4. Cardinality(Older(g)) = Cardinality(Older(p)) + 1 /\ lru.prev[p] = g
      BY <3>2, <3>3, OneMoreOlder
    <3>5. Cardinality(Older(p)) = k
      BY <1>0, <2>5, <3>3, <3>4
    <3>6. e = p /\ p # NIL
      BY <1>0, <2>1, <2>2, <3>3, <3>5 DEF Ranked
    <3> QED BY <2>3, <3>4, <3>6
  <2> QED BY <2>2, <2>4, <2>5 DEF Ranked
<1>3. \A k \in Nat : k \in S
  <2> HIDE DEF S
  <2> QED BY <1>1, <1>2, SetInduction
<1> QED BY <1>0, <1>3

\* The frames sampled are those with fewer than SAMPLE_SIZE older ones.
LEMMA SampledAreOldest ==
  ASSUME TypeOk, Threads(lru, Occupied, mru_time)
  PROVE  Sampled = {f \in Occupied : Cardinality(Older(f)) < SAMPLE_SIZE}
<1>0. /\ SAMPLE_SIZE \in Nat \ {0} /\ Occupied \subseteq Slots /\ NIL \notin Slots
      /\ \A f \in Occupied : Cardinality(Older(f)) \in Nat
  BY SampleAssumption, OccupiedFinite
<1>1. ASSUME NEW f \in Sampled PROVE f \in Occupied /\ Cardinality(Older(f)) < SAMPLE_SIZE
  <2>1. PICK k \in 0..(SAMPLE_SIZE - 1) : Walk[k] = f /\ f # NIL
    BY <1>0 DEF Sampled
  <2>2. f \in Occupied /\ Cardinality(Older(f)) = k
    BY <2>1, WalkRanks DEF Ranked
  <2> QED BY <1>0, <2>1, <2>2
<1>2. ASSUME NEW f \in Occupied, Cardinality(Older(f)) < SAMPLE_SIZE PROVE f \in Sampled
  <2>1. PICK k : k = Cardinality(Older(f))
    OBVIOUS
  <2>2. k \in 0..(SAMPLE_SIZE - 1)
    BY <1>0, <1>2, <2>1
  <2>3. Walk[k] = f
    BY <2>1, <2>2, WalkRanks DEF Ranked
  <2> QED BY <1>0, <2>2, <2>3 DEF Sampled
<1> QED BY <1>1, <1>2

\* Resident pages are sampled when their frames are.
LEMMA SampledPages ==
  ASSUME IInv, StampsAreLastUses, NEW f \in Occupied
  PROVE  /\ page_idx(frames[f]) \in Resident
         /\ SampledBy(page_idx(frames[f])) <=> f \in Sampled
<1> DEFINE u == page_idx(frames[f])
           B == {x \in Resident : LastUse(x) < LastUse(u)}
           b == [g \in Older(f) |-> page_idx(frames[g])]
<1>0. TypeOk /\ Threads(lru, Occupied, mru_time) /\ IndexMatchesFrames
  BY DEF IInv, ResidencyAgrees, ListIsRecencyOrder
<1>1. ASSUME NEW g \in Occupied PROVE LastUse(page_idx(frames[g])) = mru_time[g]
  BY <1>0, LastUseIsStamp DEF StampsAreLastUses
<1>2. b \in [Older(f) -> B]
  <2> SUFFICES ASSUME NEW g \in Older(f) PROVE page_idx(frames[g]) \in B
    OBVIOUS
  <2>1. g \in Occupied /\ mru_time[g] < mru_time[f]
    BY DEF Older
  <2>2. LastUse(page_idx(frames[g])) < LastUse(u)
    BY <1>1, <2>1
  <2> QED BY <2>1, <2>2 DEF Resident
<1>3. \A g, e \in Older(f) : b[g] = b[e] => g = e
  <2> SUFFICES ASSUME NEW g \in Older(f), NEW e \in Older(f),
                      page_idx(frames[g]) = page_idx(frames[e])
               PROVE  g = e
    OBVIOUS
  <2>1. g \in Occupied /\ e \in Occupied
    BY DEF Older
  <2> QED BY <1>0, <2>1 DEF IndexMatchesFrames
<1>4. \A x \in B : \E g \in Older(f) : b[g] = x
  <2> SUFFICES ASSUME NEW x \in B PROVE \E g \in Older(f) : b[g] = x
    OBVIOUS
  <2>1. PICK g \in Occupied : x = page_idx(frames[g])
    BY DEF Resident
  <2>2. mru_time[g] < mru_time[f]
    BY <1>1, <2>1
  <2>3. g \in Older(f)
    BY <2>1, <2>2 DEF Older
  <2> QED BY <2>1, <2>3
<1>5. IsFiniteSet(Older(f)) /\ Cardinality(Older(f)) \in Nat
  BY <1>0, OccupiedFinite
<1>6. Cardinality(B) = Cardinality(Older(f))
  <2> HIDE DEF b, B
  <2>1. SameCount(Older(f), B)
    BY <1>2, <1>3, <1>4, <1>5, Matched
  <2> QED BY <2>1 DEF SameCount
<1>7. f \in Sampled <=> Cardinality(Older(f)) < SAMPLE_SIZE
  BY <1>0, SampledAreOldest
<1>8. SampledBy(u) <=> Cardinality(B) < SAMPLE_SIZE
  BY DEF SampledBy
<1>9. u \in Resident
  BY DEF Resident
<1> HIDE DEF B, u
<1> QED BY <1>6, <1>7, <1>8, <1>9 DEF u

\* The pairs Following counts are finitely many.
LEMMA FollowingFinite ==
  ASSUME TypeOk, NEW x, NEW u
  PROVE  IsFiniteSet(Following(x, u)) /\ Cardinality(Following(x, u)) \in Nat
<1>1. IsFiniteSet(1..Len(hist)) /\ DOMAIN hist = 1..Len(hist)
  BY FS_Interval DEF TypeOk
<1>2. IsFiniteSet((DOMAIN hist) \X (DOMAIN hist))
  BY <1>1, FS_Product
<1>3. Following(x, u) \subseteq (DOMAIN hist) \X (DOMAIN hist)
  BY DEF Following
<1> QED BY <1>2, <1>3, FS_Subset, FS_CardinalityType

\* The position of the history the i-th entry of the window comes from.
Back(i) == HistIdx(Len(hist) - i)

\* The score the walk compares is the one the history shows, while all of it is remembered.
LEMMA ScoreIsHistory ==
  ASSUME TypeOk, WindowIsHistory, NEW u, NEW f \in [0..(win.size - 1) -> Nat],
         \A i \in 0..(win.size - 1) :
           f[i] = IF Back(i) = u THEN 0 ELSE Cardinality(Following(Back(i), u))
  PROVE  Total(f) = HistScore(u) /\ HistScore(u) \in Nat
<1> DEFINE I == 0..(win.size - 1)
           P == (DOMAIN hist) \X (DOMAIN hist)
           C == {q \in I \X P : Back(q[1]) # u /\ q[2] \in Following(Back(q[1]), u)}
           H == {p \in (WindowStart..Len(hist)) \X P :
                   HistIdx(p[1]) # u /\ p[2] \in Following(HistIdx(p[1]), u)}
           n == Len(hist)
<1>1. /\ n \in Nat /\ win.size \in Nat /\ win.size <= n
      /\ WindowStart = n - win.size + 1
  BY WindowAssumption DEF TypeOk, WindowIsHistory, WindowStart, MinOf
<1>2. IsFiniteSet(I) /\ IsFiniteSet(P) /\ IsFiniteSet(I \X P) /\ IsFiniteSet(C)
  <2>1. IsFiniteSet(I) /\ IsFiniteSet(1..n) /\ DOMAIN hist = 1..n
    BY <1>1, FS_Interval DEF TypeOk
  <2>2. IsFiniteSet(P)
    BY <2>1, FS_Product
  <2>3. IsFiniteSet(I \X P)
    <3> HIDE DEF I, P
    <3> QED BY <2>1, <2>2, FS_Product
  <2>4. C \subseteq I \X P
    OBVIOUS
  <2> HIDE DEF I, P, C
  <2> QED BY <2>1, <2>2, <2>3, <2>4, FS_Subset
<1>3. ASSUME NEW i \in I PROVE f[i] = Cardinality({q \in C : q[1] = i})
  <2> DEFINE F == Following(Back(i), u)
             Q == {q \in C : q[1] = i}
             b == [p \in F |-> <<i, p>>]
  <2>1. CASE Back(i) = u
    <3>1. Q = {}
      BY <2>1
    <3>2. Cardinality(Q) = 0
      BY <3>1, FS_EmptySet
    <3> QED BY <2>1, <3>2
  <2>2. CASE Back(i) # u
    <3>1. IsFiniteSet(F) /\ f[i] = Cardinality(F)
      BY <2>2, FollowingFinite
    <3>2. F \subseteq P
      BY DEF Following
    <3>3. b \in [F -> Q]
      <4> HIDE DEF P, F, I
      <4> SUFFICES ASSUME NEW p \in F PROVE <<i, p>> \in Q
        OBVIOUS
      <4>1. <<i, p>> \in I \X P /\ <<i, p>>[1] = i /\ <<i, p>>[2] = p
        BY <3>2
      <4> QED BY <2>2, <4>1 DEF F
    <3>4. \A x, y \in F : b[x] = b[y] => x = y
      <4> HIDE DEF F
      <4> QED OBVIOUS
    <3>5. \A q \in Q : \E p \in F : b[p] = q
      <4> SUFFICES ASSUME NEW q \in Q PROVE q[2] \in F /\ b[q[2]] = q
        OBVIOUS
      <4> HIDE DEF P, I
      <4>1. q \in I \X P /\ q[1] = i /\ q[2] \in F
        OBVIOUS
      <4>2. q = <<i, q[2]>>
        BY <4>1
      <4> HIDE DEF F
      <4> QED BY <4>1, <4>2
    <3>6. SameCount(F, Q)
      <4> HIDE DEF F, Q, b
      <4> QED BY <3>1, <3>3, <3>4, <3>5, Matched
    <3> QED BY <3>1, <3>6 DEF SameCount
  <2> QED BY <2>1, <2>2
<1>4. Tallies(f, I, C)
  <2>1. \A q \in C : q[1] \in I
    <3> HIDE DEF I, P
    <3> QED OBVIOUS
  <2> HIDE DEF C
  <2> QED BY <1>2, <1>3, <2>1 DEF Tallies
<1>5. Total(f) = Cardinality(C)
  <2> HIDE DEF C, I
  <2> QED BY <1>4, TotalCounts
<1>6. IsFiniteSet(H) /\ Cardinality(H) = Cardinality(C)
  <2> DEFINE b == [q \in C |-> <<n - q[1], q[2]>>]
  <2>1. ASSUME NEW q \in C PROVE b[q] \in H
    <3> HIDE DEF P
    <3>1. q[1] \in I /\ q[2] \in P /\ Back(q[1]) # u /\ q[2] \in Following(Back(q[1]), u)
      OBVIOUS
    <3>2. n - q[1] \in WindowStart..n /\ HistIdx(n - q[1]) = Back(q[1])
      BY <1>1, <3>1 DEF Back
    <3>3. b[q] = <<n - q[1], q[2]>>
      OBVIOUS
    <3> QED BY <3>1, <3>2, <3>3
  <2>2. ASSUME NEW q \in C, NEW r \in C, b[q] = b[r] PROVE q = r
    <3> HIDE DEF P
    <3>1. n - q[1] = n - r[1] /\ q[2] = r[2] /\ q \in I \X P /\ r \in I \X P
      BY <2>2
    <3>2. q[1] = r[1]
      BY <1>1, <3>1
    <3> HIDE DEF I
    <3> QED BY <3>1, <3>2
  <2>3. ASSUME NEW p \in H PROVE \E q \in C : b[q] = p
    <3> HIDE DEF P
    <3>1. p \in (WindowStart..n) \X P /\ p[1] \in WindowStart..n /\ p[2] \in P
      OBVIOUS
    <3>2. HistIdx(p[1]) # u /\ p[2] \in Following(HistIdx(p[1]), u)
      OBVIOUS
    <3>3. n - p[1] \in I /\ n - (n - p[1]) = p[1] /\ Back(n - p[1]) = HistIdx(p[1])
      BY <1>1, <3>1 DEF Back
    <3>4. PICK q : q = <<n - p[1], p[2]>>
      OBVIOUS
    <3>5. q \in C /\ q[1] = n - p[1] /\ q[2] = p[2]
      BY <3>1, <3>2, <3>3, <3>4
    <3>6. b[q] = p
      <4>1. b[q] = <<n - q[1], q[2]>>
        BY <3>5
      <4> HIDE DEF b
      <4> QED BY <3>1, <3>3, <3>5, <4>1
    <3> QED BY <3>5, <3>6
  <2>4. b \in [C -> H]
    <3> HIDE DEF H
    <3> QED BY <2>1
  <2>5. SameCount(C, H)
    <3> HIDE DEF C, H, b
    <3> QED BY <1>2, <2>2, <2>3, <2>4, Matched
  <2> QED BY <2>5 DEF SameCount
<1>7. HistScore(u) = Cardinality(H)
  BY DEF HistScore
<1>8. Cardinality(H) \in Nat
  <2> HIDE DEF H
  <2> QED BY <1>6, FS_CardinalityType
<1> QED BY <1>5, <1>6, <1>7, <1>8

\* The page of an access gets no score from it, and the others keep theirs.
LEMMA ScoreAfter ==
  ASSUME IInv, GraphWellFormed', WindowIsHistory, WeightsCountPairs', TypeOk',
         NEW page \in Pages, Observe(page), \A x, v \in Nodes : Remembered(x, v)',
         NEW u \in Nodes, u # page_idx(page)
  PROVE  /\ score_page(GraphAfter(page_idx(page)), u) = HistScore(u)
         /\ HistScore(u) \in Nat
<1> DEFINE f == [i \in 0..(win.size - 1) |-> adj_weight(edges'[WindowAt(i)], u)]
<1>1. TypeOk /\ edges' = GraphAfter(page_idx(page)) /\ edges' \in [Nodes -> Seq(Edge)]
  BY DEF IInv, Observe, TypeOk
<1>2. ASSUME NEW x \in Nodes
      PROVE  adj_weight(edges'[x], u) = IF x = u THEN 0 ELSE Cardinality(Following(x, u))
  <2>1. adj_weight(edges'[x], u) <= PairCount(x, u)' /\ ~(adj_weight(edges'[x], u) < PairCount(x, u)')
    BY DEF WeightsCountPairs
  <2>2. Cardinality(Following(x, u)') = Cardinality(Following(x, u))
        /\ Cardinality(Following(x, u)) \in Nat
    BY <1>1, FollowingGrows
  <2>3. PairCount(x, u)' = IF x = u THEN 0 ELSE Cardinality(Following(x, u))
    BY <2>2 DEF PairCount
  <2>4. adj_weight(edges'[x], u) \in Nat
    <3>1. edges'[x] \in Seq(EdgeTo(Nodes)) /\ DistinctDsts(edges'[x])
      BY <1>1 DEF GraphWellFormed, WellFormedList, DistinctDsts, Edge, EdgeTo
    <3> QED BY <3>1, WeightType, GraphAssumption
  <2> QED BY <2>1, <2>2, <2>3, <2>4
<1>3. ASSUME NEW i \in 0..(win.size - 1)
      PROVE  WindowAt(i) = Back(i) /\ WindowAt(i) \in Nodes
  <2>1. WindowAt(i) = Back(i)
    BY DEF WindowIsHistory, Back
  <2>2. WindowAt(i) \in Nodes
    <3>1. W \in 1..MAX_WINDOW /\ win \in WinType
      BY <1>1 DEF TypeOk, WinType
    <3> QED BY <3>1, WindowAtType
  <2> QED BY <2>1, <2>2
<1>4. ASSUME NEW i \in 0..(win.size - 1)
      PROVE  /\ f[i] \in Nat
             /\ f[i] = IF Back(i) = u THEN 0 ELSE Cardinality(Following(Back(i), u))
  <2>1. f[i] = adj_weight(edges'[Back(i)], u) /\ Back(i) \in Nodes
    BY <1>3
  <2>2. Cardinality(Following(Back(i), u)) \in Nat
    BY <1>1, FollowingFinite
  <2> HIDE DEF f
  <2> QED BY <1>2, <2>1, <2>2
<1>5. f \in [0..(win.size - 1) -> Nat]
  BY <1>4
<1>6. Total(f) = HistScore(u) /\ HistScore(u) \in Nat
  <2> HIDE DEF f
  <2> QED BY <1>1, <1>4, <1>5, ScoreIsHistory
<1>7. score_page(GraphAfter(page_idx(page)), u) = Total(f)
  BY <1>1 DEF score_page, Total
<1> QED BY <1>6, <1>7

\* A fault with every frame taken evicts a page no sampled page should go before.
LEMMA FaultEvictsBest ==
  ASSUME IInv, GraphWellFormed', WindowIsHistory, StampsAreLastUses, WeightsCountPairs', TypeOk',
         NEW page \in Pages, Fault(page), \A x, v \in Nodes : Remembered(x, v)',
         NEW u \in Resident \ Resident'
  PROVE  /\ size = cap /\ SampledBy(u)
         /\ \A x \in Resident : SampledBy(x) =>
              \/ HistScore(u) < HistScore(x)
              \/ HistScore(u) = HistScore(x) /\ LastUse(u) >= LastUse(x)
<1> DEFINE g == GraphAfter(page_idx(page))
           page_of == [f \in Sampled |-> page_idx(frames[f])]
           score == [f \in Sampled |-> score_page(g, page_idx(frames[f]))]
<1>0. PICK idx, v : idx = page_idx(page) /\ v = choose_victim(g)
  OBVIOUS
<1>1. /\ Observe(page) /\ ~in_frames[idx] /\ cap' = cap /\ cap > 0
      /\ frames' = [frames EXCEPT ![v] = page]
  BY <1>0 DEF Fault, LoadInto, Observe
<1>2. /\ TypeOk /\ Threads(lru, Occupied, mru_time) /\ IndexMatchesFrames /\ SizeCountsOccupied
      /\ \A f \in Occupied : mru_time[f] <= global_time
  BY DEF IInv, ResidencyAgrees, ListIsRecencyOrder
<1>3. /\ frames \in [Slots -> Nat \cup {EMPTY}] /\ size \in 0..cap /\ global_time \in Nat
      /\ cap \in Nat
  BY <1>2 DEF TypeOk
<1>4. v \in 0..(cap - 1) /\ (size < cap => frames[v] = EMPTY)
  BY <1>0, <1>1, <1>2, VictimIsSound
<1>5. /\ Occupied \subseteq Slots /\ mru_time \in [Slots -> Nat]
      /\ \A f \in Occupied : f # NIL
  BY <1>2, OccupiedFinite
<1>6. u = page_idx(frames[v]) /\ v \in Occupied
  <2>1. PICK f \in Occupied : u = page_idx(frames[f])
    BY DEF Resident
  <2>2. f = v
    <3>1. SUFFICES ASSUME f # v PROVE u \in Resident'
      OBVIOUS
    <3>2. frames'[f] = frames[f] /\ f \in 0..(cap - 1) /\ frames[f] # EMPTY
      BY <1>1, <1>3, <1>5, <2>1, <3>1 DEF Occupied
    <3>3. f \in Occupied'
      BY <1>1, <3>2 DEF Occupied
    <3> QED BY <2>1, <3>2, <3>3 DEF Resident
  <2> QED BY <2>1, <2>2
<1>7. size = cap /\ FreeSlots = {}
  <2>1. frames[v] # EMPTY
    BY <1>6 DEF Occupied
  <2>2. ~(size < cap)
    BY <1>4, <2>1
  <2> QED BY <1>3, <2>2 DEF FreeSlots
<1>8. Sampled \subseteq Occupied /\ Sampled # {}
  <2>1. Sampled \subseteq Occupied
    BY <1>2, SampledAreOldest
  <2>2. lru.tail \in Occupied
    BY <1>2, <1>6 DEF Threads, IsOldestOf
  <2>3. Walk[0] = lru.tail /\ 0 \in 0..(SAMPLE_SIZE - 1)
    BY <1>2, OccupiedFinite, WalkRun, SampleAssumption
  <2>4. lru.tail \in Sampled
    BY <1>5, <2>2, <2>3 DEF Sampled
  <2> QED BY <2>1, <2>4
<1>9. ASSUME NEW f \in Sampled
      PROVE  /\ score[f] = HistScore(page_idx(frames[f])) /\ score[f] \in Nat
             /\ LastUse(page_idx(frames[f])) = mru_time[f] /\ mru_time[f] \in Nat
             /\ mru_time[f] <= global_time
  <2>1. f \in Occupied /\ frames[f] \in Nat
    BY <1>3, <1>5, <1>8 DEF Occupied
  <2>2. page_idx(frames[f]) \in Nodes /\ page_idx(frames[f]) # idx
    BY <1>1, <1>2, <2>1, PageIdxType DEF IndexMatchesFrames
  <2>3. PICK x : x = page_idx(frames[f])
    OBVIOUS
  <2>4. score_page(g, x) = HistScore(x) /\ HistScore(x) \in Nat
    BY <1>0, <1>1, <2>2, <2>3, ScoreAfter
  <2>5. score[f] = score_page(g, x)
    BY <2>3
  <2>6. LastUse(x) = mru_time[f] /\ mru_time[f] \in Nat
    BY <1>2, <2>1, <2>3, LastUseIsStamp DEF StampsAreLastUses
  <2> HIDE DEF score, g
  <2> QED BY <1>2, <2>1, <2>3, <2>4, <2>5, <2>6
<1>10. v \in Sampled /\ \A e \in Sampled : ~Beats(score, e, v)
  <2>1. v = IF BestSampled(g) # {} THEN CHOOSE f \in BestSampled(g) : TRUE ELSE lru.tail
    BY <1>0, <1>7 DEF choose_victim
  <2>2. BestSampled(g) = {f \in Sampled : \A e \in Sampled : ~Beats(score, e, f)}
    BY DEF BestSampled
  <2>3. \E f \in Sampled : \A e \in Sampled : ~Beats(score, e, f)
    <3> DEFINE t == [f \in Sampled |-> mru_time[f]]
    <3>1. score \in [Sampled -> Nat] /\ t \in [Sampled -> Nat] /\ \A f \in Sampled : t[f] <= global_time
      <4>1. score = [f \in Sampled |-> score[f]]
        OBVIOUS
      <4> HIDE DEF score
      <4> QED BY <1>9, <4>1
    <3>2. PICK f \in Sampled : \A e \in Sampled :
            score[f] < score[e] \/ (score[f] = score[e] /\ t[f] >= t[e])
      <4> HIDE DEF score, t
      <4> QED BY <1>3, <1>8, <3>1, CheapestLatest
    <3>3. ASSUME NEW e \in Sampled PROVE ~Beats(score, e, f)
      <4> HIDE DEF score
      <4>1. score[e] \in Nat /\ score[f] \in Nat /\ mru_time[e] \in Nat /\ mru_time[f] \in Nat
        BY <1>9
      <4>2. score[f] < score[e] \/ (score[f] = score[e] /\ mru_time[f] >= mru_time[e])
        BY <3>2
      <4> QED BY <4>1, <4>2 DEF Beats
    <3> QED BY <3>3
  <2> HIDE DEF score
  <2>4. BestSampled(g) # {}
    BY <2>2, <2>3
  <2>5. v \in BestSampled(g)
    BY <2>1, <2>4
  <2> QED BY <2>2, <2>5
<1>11. SampledBy(u)
  BY <1>6, <1>10, SampledPages
<1>12. ASSUME NEW x \in Resident, SampledBy(x)
       PROVE  \/ HistScore(u) < HistScore(x)
              \/ HistScore(u) = HistScore(x) /\ LastUse(u) >= LastUse(x)
  <2>1. PICK e \in Occupied : x = page_idx(frames[e])
    BY DEF Resident
  <2>2. e \in Sampled
    BY <1>12, <2>1, SampledPages
  <2> HIDE DEF score
  <2>3. /\ score[e] = HistScore(x) /\ score[e] \in Nat /\ LastUse(x) = mru_time[e]
        /\ mru_time[e] \in Nat
    BY <1>9, <2>1, <2>2
  <2>4. /\ score[v] = HistScore(u) /\ score[v] \in Nat /\ LastUse(u) = mru_time[v]
        /\ mru_time[v] \in Nat
    BY <1>6, <1>9, <1>10
  <2>5. ~Beats(score, e, v)
    BY <1>10, <2>2
  <2> QED BY <2>3, <2>4, <2>5 DEF Beats
<1> QED BY <1>7, <1>11, <1>12

\* As long as the graph remembers the history in full, the page an access evicts is one of
\* the SAMPLE_SIZE least recently used residents, none of them follows the pages of the
\* window less often, and none that follows them equally often was used more recently.
THEOREM VictimCorrect == Spec => EvictsBestSampled
<1>1. IInv /\ IInv' /\ GraphWellFormed' /\ WindowIsHistory /\ StampsAreLastUses
        /\ WeightsCountPairs' /\ [Next]_vars =>
        [\A u \in Resident \ Resident' :
           ~Reconfigured /\ (\A x, v \in Nodes : Remembered(x, v)') =>
             /\ size = cap
             /\ SampledBy(u)
             /\ \A x \in Resident : SampledBy(x) =>
                  \/ HistScore(u) < HistScore(x)
                  \/ HistScore(u) = HistScore(x) /\ LastUse(u) >= LastUse(x)]_vars
  <2> SUFFICES ASSUME IInv, IInv', GraphWellFormed', WindowIsHistory, StampsAreLastUses,
                      WeightsCountPairs', Next, NEW u \in Resident \ Resident',
                      ~Reconfigured, \A x, v \in Nodes : Remembered(x, v)'
               PROVE  /\ size = cap
                      /\ SampledBy(u)
                      /\ \A x \in Resident : SampledBy(x) =>
                           \/ HistScore(u) < HistScore(x)
                           \/ HistScore(u) = HistScore(x) /\ LastUse(u) >= LastUse(x)
    OBVIOUS
  <2>1. ASSUME NEW page \in Pages, Hit(page) PROVE FALSE
    <3>1. frames' = frames /\ cap' = cap
      BY <2>1 DEF Hit, Observe
    <3>2. Resident' = Resident
      BY <3>1 DEF Resident, Occupied
    <3> QED BY <3>2
  <2>2. ~ResetState
    BY DEF ResetState, Reconfigured
  <2>3. PICK page \in Pages : Fault(page)
    BY <2>1, <2>2 DEF Next, TgInit, TgReset
  <2>4. TypeOk'
    BY DEF IInv
  <2> QED BY <2>3, <2>4, FaultEvictsBest
<1> QED BY <1>1, Invariance, GraphCorrect, WindowCorrect, WeightsCorrect, StampsInvariance, PTL
       DEF Spec, EvictsBestSampled
===============================================================================
