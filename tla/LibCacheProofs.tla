---------------------------- MODULE LibCacheProofs ----------------------------
(***************************************************************************)
(* Proofs about libCacheSim's cache with its five eviction algorithms:     *)
(* the linked queue, the hash table and the counters agree, the queue      *)
(* keeps its order, to_evict foretells evict, and the weights of           *)
(* Tempograph.c count what followed what.                                  *)
(***************************************************************************)
EXTENDS LibCache, ListProofs

USE DEF NULL

-------------------------------------------------------------------------------
(* The linked list of cacheObj.c holds a sequence of objects.              *)

LEMMA NotAnObject == NULL \notin Objs
BY ObjsAssumption

\* What walking the list from either end, or from its p-th object to the head, meets.
LEMMA ObjectWalks ==
  ASSUME NEW l, NEW s, Listed(Objs, l, s)
  PROVE  /\ TowardsTail(l, l.head) = s
         /\ TowardsHead(l, l.tail) = Backwards(s) /\ Backwards(s) = Reversed(s, Len(s))
         /\ \A p \in 1..Len(s) : TowardsHead(l, s[p]) = Reversed(s, p)
<1> DEFINE N == Cardinality(Objs)
<1>1. s \in Seq(Objs) /\ Distinct(s)
  BY DEF Listed
<1>2. N \in Nat /\ Len(s) <= N
  <2>1. Members(s) \subseteq Objs
    BY <1>1 DEF Members
  <2>2. Cardinality(Members(s)) = Len(s)
    BY <1>1, MembersCount
  <2> QED BY <2>1, <2>2, ObjsAssumption, FS_Subset, FS_CardinalityType
<1> HIDE DEF N
<1>3. /\ WalkFrom(l.next, l.head, N) = s
      /\ WalkFrom(l.prev, l.tail, N) = Backwards(s)
      /\ \A p \in 1..Len(s) : WalkFrom(l.prev, s[p], N) = Reversed(s, p)
  BY <1>2, NotAnObject, ListedWalks
<1>4. Backwards(s) = Reversed(s, Len(s))
  BY <1>1 DEF Backwards, Reversed
<1> QED BY <1>3, <1>4 DEF N, TowardsTail, TowardsHead

\* Taking an object out (cacheObj.c:57-76) does to the links what list_remove of lru.c does.
LEMMA ObjectRemoved ==
  ASSUME NEW l, NEW s, Listed(Objs, l, s), NEW o \in Members(s)
  PROVE  Listed(Objs, remove_obj_from_list(l, o), Remove(s, o))
<1> DEFINE n == Len(s)
           k == Position(s, o)
<1>1. /\ s \in Seq(Objs) /\ n \in Nat /\ Distinct(s) /\ k \in 1..n /\ s[k] = o /\ n >= 1
      /\ \A i \in 1..n : s[i] # NULL
  BY PositionType, RemoveType, NotAnObject DEF Listed
<1>2. /\ l.head = s[1] /\ l.tail = s[n]
      /\ l.next[o] = (IF k < n THEN s[k + 1] ELSE NULL)
      /\ l.prev[o] = (IF k > 1 THEN s[k - 1] ELSE NULL)
  BY <1>1 DEF Listed
<1>3. (s[1] = o <=> k = 1) /\ (s[n] = o <=> k = n)
  BY <1>1 DEF Distinct
<1>4. (o = l.head <=> l.prev[o] = NULL) /\ (o = l.tail <=> l.next[o] = NULL)
  BY <1>1, <1>2, <1>3
<1>5. remove_obj_from_list(l, o) = list_remove(l, o)
  BY <1>4 DEF remove_obj_from_list, list_remove
<1> QED BY <1>5, NotAnObject, ListedRemove

\* A new object goes in front (cacheObj.c:182-201).
LEMMA ObjectPrepended ==
  ASSUME NEW l, NEW s, Listed(Objs, l, s), NEW o \in Objs, o \notin Members(s)
  PROVE  Listed(Objs, prepend_obj_to_head(l, o), PushFront(s, o))
<1>1. prepend_obj_to_head(l, o) = list_push_front(l, o)
  BY DEF prepend_obj_to_head, list_push_front
<1> QED BY <1>1, NotAnObject, ListedPrepend

\* Moving an object to the head (cacheObj.c:130-173) makes it the first, the others
\* keeping their order.
LEMMA ObjectMoved ==
  ASSUME NEW l, NEW s, Listed(Objs, l, s), NEW o \in Members(s)
  PROVE  Listed(Objs, move_obj_to_head(l, o), PushFront(Remove(s, o), o))
<1> DEFINE n == Len(s)
           k == Position(s, o)
           r == Remove(s, o)
<1>1. /\ s \in Seq(Objs) /\ n \in Nat /\ Distinct(s) /\ k \in 1..n /\ s[k] = o /\ n >= 1
      /\ l \in LinkType(Objs) /\ NULL \notin Objs /\ \A i \in 1..n : s[i] \in Objs /\ s[i] # NULL
  BY PositionType, RemoveType, ObjsAssumption DEF Listed
<1>2. /\ l.head = s[1] /\ l.tail = s[n]
      /\ l.next[o] = (IF k < n THEN s[k + 1] ELSE NULL)
      /\ l.prev[o] = (IF k > 1 THEN s[k - 1] ELSE NULL)
  BY <1>1 DEF Listed
<1>3. r \in Seq(Objs) /\ Len(r) = n - 1 /\ Distinct(r) /\ o \notin Members(r)
  BY <1>1, RemoveType, RemoveMembers
<1>4. CASE l.head = l.tail \/ o = l.head
  <2>1. k = 1
    <3>0. 1 \in DOMAIN s /\ n \in DOMAIN s /\ k \in DOMAIN s
      BY <1>1
    <3>1. o = l.head => k = 1
      BY <1>1, <1>2, <3>0 DEF Distinct
    <3>2. l.head = l.tail => n = 1
      <4>1. s[1] = s[n] => 1 = n
        BY <1>1, <3>0 DEF Distinct
      <4> QED BY <1>2, <4>1
    <3> QED BY <1>1, <1>4, <3>1, <3>2
  <2>2. PushFront(r, o) = s
    <3>1. /\ PushFront(r, o) \in Seq(Objs) /\ Len(PushFront(r, o)) = n
          /\ \A j \in 1..n : PushFront(r, o)[j] = IF j = 1 THEN o ELSE r[j - 1]
      BY <1>1, <1>3, PushFrontList DEF PushFront
    <3>2. \A j \in 1..(n - 1) : r[j] = s[j + 1]
      BY <1>1, <2>1 DEF Remove
    <3>3. \A j \in 1..n : PushFront(r, o)[j] = s[j]
      BY <1>1, <2>1, <3>1, <3>2
    <3> HIDE DEF r
    <3> QED BY <1>1, <3>1, <3>3, SameLists
  <2>3. move_obj_to_head(l, o) = l
    BY <1>4 DEF move_obj_to_head
  <2> QED BY <2>2, <2>3
<1>5. CASE ~(l.head = l.tail \/ o = l.head)
  <2>1. k > 1 /\ l.prev[o] \in Objs /\ l.head \in Objs /\ l.head # o /\ l.tail # NULL
    BY <1>1, <1>2, <1>5
  <2> DEFINE m == remove_obj_from_list(l, o)
  <2>2. /\ m.head = l.head /\ m.tail = (IF o = l.tail THEN l.prev[o] ELSE l.tail)
        /\ m.prev = [Link(l.prev, l.next[o], l.prev[o]) EXCEPT ![o] = NULL]
        /\ m.next = [Link(l.next, l.prev[o], l.next[o]) EXCEPT ![o] = NULL]
        /\ m.tail # NULL
    BY <1>1, <2>1 DEF remove_obj_from_list
  <2>3. Listed(Objs, m, r)
    BY ObjectRemoved
  <2>4. Listed(Objs, prepend_obj_to_head(m, o), PushFront(r, o))
    <3> HIDE DEF m, r
    <3> QED BY <1>1, <1>3, <2>3, ObjectPrepended
  <2>5. l.prev \in LinkFields(Objs) /\ l.next \in LinkFields(Objs) /\ l.next[o] \in Objs \cup {NULL} /\ o \in Objs
    BY <1>1 DEF LinkType, LinkFields
  <2>6. Link(l.next, l.prev[o], l.next[o]) = [l.next EXCEPT ![l.prev[o]] = l.next[o]]
    BY <1>1, <2>1 DEF Link
  <2> DEFINE P == Link(l.prev, l.next[o], l.prev[o])
             Q == [l.next EXCEPT ![l.prev[o]] = l.next[o]]
  <2>7. P \in LinkFields(Objs) /\ Q \in LinkFields(Objs)
    BY <2>1, <2>5 DEF Link, LinkFields
  <2>8. prepend_obj_to_head(m, o) =
          [head |-> o, tail |-> m.tail,
           prev |-> [[m.prev EXCEPT ![o] = NULL] EXCEPT ![l.head] = o],
           next |-> [m.next EXCEPT ![o] = l.head]]
    <3> HIDE DEF m
    <3> QED BY <1>1, <2>1, <2>2 DEF prepend_obj_to_head, Link
  <2>9. move_obj_to_head(l, o) =
          [head |-> o, tail |-> m.tail,
           prev |-> [P EXCEPT ![l.head] = o, ![o] = NULL],
           next |-> [l.next EXCEPT ![l.prev[o]] = l.next[o], ![o] = l.head]]
    <3> HIDE DEF m
    <3> QED BY <1>5, <2>2 DEF move_obj_to_head
  <2>10. [[m.prev EXCEPT ![o] = NULL] EXCEPT ![l.head] = o] = [P EXCEPT ![l.head] = o, ![o] = NULL]
    <3> HIDE DEF m, P
    <3>1. m.prev = [P EXCEPT ![o] = NULL]
      BY <2>2 DEF P
    <3> QED BY <2>1, <2>5, <2>7, <3>1 DEF LinkFields
  <2>11. [m.next EXCEPT ![o] = l.head] = [l.next EXCEPT ![l.prev[o]] = l.next[o], ![o] = l.head]
    <3> HIDE DEF m, Q
    <3>1. m.next = [Q EXCEPT ![o] = NULL]
      BY <2>2, <2>6 DEF Q
    <3>2. [m.next EXCEPT ![o] = l.head] = [Q EXCEPT ![o] = l.head]
      BY <2>1, <2>5, <2>7, <3>1 DEF LinkFields
    <3> QED BY <3>2 DEF Q
  <2>12. move_obj_to_head(l, o) = prepend_obj_to_head(m, o)
    <3> HIDE DEF m, P
    <3> QED BY <2>8, <2>9, <2>10, <2>11
  <2> QED BY <2>4, <2>12
<1> QED BY <1>4, <1>5

\* Cutting the tail off by hand (FIFO.c, LRU.c) takes the last object out.
LEMMA TailCut ==
  ASSUME NEW l, NEW s, Listed(Objs, l, s), s # <<>>
  PROVE  l.tail \in Members(s) /\ CutTail(l) = remove_obj_from_list(l, l.tail)
<1>1. /\ s \in Seq(Objs) /\ Len(s) \in Nat /\ Len(s) >= 1 /\ l \in LinkType(Objs) /\ NULL \notin Objs
      /\ \A i \in 1..Len(s) : s[i] \in Objs /\ s[i] # NULL
      /\ l.head = s[1] /\ l.tail = s[Len(s)] /\ l.next[l.tail] = NULL
      /\ l.prev[l.tail] = (IF Len(s) > 1 THEN s[Len(s) - 1] ELSE NULL)
      /\ Len(s) > 1 => l.next[s[Len(s) - 1]] = l.tail
  BY ObjsAssumption DEF Listed
<1>2. l.tail = l.head <=> Len(s) = 1
  <2>1. Distinct(s) /\ 1 \in DOMAIN s /\ Len(s) \in DOMAIN s
    BY <1>1 DEF Listed
  <2>2. s[1] = s[Len(s)] => 1 = Len(s)
    BY <2>1 DEF Distinct
  <2> QED BY <1>1, <2>2
<1>3. l.prev \in LinkFields(Objs) /\ l.next \in LinkFields(Objs) /\ l.tail \in Objs /\ l.prev[l.tail] \in Objs \cup {NULL}
  BY <1>1 DEF LinkType, LinkFields
<1> DEFINE t == l.tail
           p == l.prev[t]
<1>4. Link(l.prev, NULL, p) = l.prev
  BY DEF Link
<1>5. [Link(l.next, p, NULL) EXCEPT ![t] = NULL] = Link(l.next, p, NULL)
  <2>1. Link(l.next, p, NULL) \in LinkFields(Objs)
    BY <1>3 DEF Link, LinkFields
  <2>2. Link(l.next, p, NULL)[t] = NULL
    BY <1>1, <1>3 DEF Link, LinkFields
  <2> QED BY <2>1, <2>2 DEF LinkFields
<1>6. (IF p = NULL THEN NULL ELSE l.head) = IF t = l.head THEN l.next[t] ELSE l.head
  BY <1>1, <1>2
<1>7. remove_obj_from_list(l, t) =
        [head |-> IF t = l.head THEN l.next[t] ELSE l.head, tail |-> p,
         prev |-> [l.prev EXCEPT ![t] = NULL], next |-> Link(l.next, p, NULL)]
  BY <1>1, <1>4, <1>5 DEF remove_obj_from_list
<1>8. CutTail(l) = remove_obj_from_list(l, t)
  BY <1>6, <1>7 DEF CutTail
<1>9. t \in Members(s)
  BY <1>1 DEF Members
<1> QED BY <1>8, <1>9

-------------------------------------------------------------------------------
(* The cache: the queue, the hash table and the counters.                  *)

\* Byte, object and list describe the same cached objects, and they fit.
CacheOk ==
  /\ Listed(Objs, q, Queue)
  /\ Members(Queue) = DOMAIN table
  /\ n_obj = Len(Queue)
  /\ table \in [DOMAIN table -> Nat]
  /\ cache_size \in Nat
  /\ occupied_byte = Total(table) /\ occupied_byte <= cache_size
  /\ pointer \in DOMAIN table \cup {NULL} /\ (algo # "Sieve" => pointer = NULL)
  /\ freq \in [Objs -> Nat]

LEMMA CacheType ==
  ASSUME CacheOk
  PROVE  /\ DOMAIN table \subseteq Objs /\ IsFiniteSet(DOMAIN table)
         /\ Queue \in Seq(Objs) /\ Distinct(Queue) /\ NULL \notin Objs
         /\ occupied_byte \in Nat /\ q \in LinkType(Objs)
<1>1. Queue \in Seq(Objs) /\ Distinct(Queue) /\ q \in LinkType(Objs)
  BY DEF CacheOk, Listed
<1>2. DOMAIN table \subseteq Objs
  BY <1>1 DEF CacheOk, Members
<1>3. IsFiniteSet(DOMAIN table)
  BY <1>2, FS_Subset, ObjsAssumption
<1>4. Total(table) \in Nat
  BY <1>3, TotalHeap DEF CacheOk
<1> QED BY <1>1, <1>2, <1>3, <1>4, ObjsAssumption DEF CacheOk

\* The neighbour of a cached object towards the head is another cached object.
LEMMA CachedPrev ==
  ASSUME CacheOk, NEW o \in DOMAIN table
  PROVE  q.prev[o] \in (DOMAIN table \ {o}) \cup {NULL}
<1>1. Queue \in Seq(Objs) /\ Distinct(Queue)
  BY CacheType
<1>2. PICK p \in 1..Len(Queue) : Queue[p] = o
  BY <1>1 DEF CacheOk, Members
<1>3. q.prev[o] = IF p > 1 THEN Queue[p - 1] ELSE NULL
  BY <1>2 DEF CacheOk, Listed
<1>4. CASE p > 1
  <2>1. p - 1 \in DOMAIN Queue /\ p \in DOMAIN Queue /\ p - 1 # p
    BY <1>1, <1>4
  <2>2. Queue[p - 1] # Queue[p]
    BY <1>1, <2>1 DEF Distinct
  <2>3. Queue[p - 1] \in Members(Queue)
    BY <2>1 DEF Members
  <2> QED BY <1>2, <1>3, <1>4, <2>2, <2>3 DEF CacheOk
<1>5. CASE ~(p > 1)
  BY <1>3, <1>5
<1> QED BY <1>4, <1>5

\* The tail of a queue that is not empty is cached; that of an empty one is not there.
LEMMA CachedTail ==
  ASSUME CacheOk
  PROVE  /\ DOMAIN table # {} => Queue # <<>> /\ q.tail \in DOMAIN table /\ q.tail = Queue[Len(Queue)]
         /\ DOMAIN table = {} => occupied_byte = 0
<1>1. Queue \in Seq(Objs) /\ table \in [DOMAIN table -> Nat] /\ Members(Queue) = DOMAIN table
  BY CacheType DEF CacheOk
<1>2. ASSUME DOMAIN table # {}
      PROVE  Queue # <<>> /\ q.tail \in DOMAIN table /\ q.tail = Queue[Len(Queue)]
  <2>1. Queue # <<>> /\ Len(Queue) \in 1..Len(Queue) /\ Len(Queue) # 0
    BY <1>1, <1>2 DEF Members
  <2>2. q.tail = Queue[Len(Queue)]
    BY <2>1 DEF CacheOk, Listed
  <2> QED BY <1>1, <2>1, <2>2 DEF Members
<1>3. ASSUME DOMAIN table = {} PROVE occupied_byte = 0
  <2>1. Total(table) = Cardinality(Heap(table, DOMAIN table))
    BY <1>1, CacheType, TotalHeap
  <2>2. Heap(table, DOMAIN table) = {}
    BY <1>3 DEF Heap
  <2> QED BY <2>1, <2>2, FS_EmptySet DEF CacheOk
<1> QED BY <1>2, <1>3

\* The same, of the state a step ends in.
LEMMA CachedTailNext ==
  ASSUME CacheOk'
  PROVE  DOMAIN table' # {} => q'.tail \in DOMAIN table'
<1>1. /\ Queue' \in Seq(Objs) /\ Members(Queue') = DOMAIN table'
      /\ q'.tail = IF Len(Queue') = 0 THEN NULL ELSE Queue'[Len(Queue')]
  BY DEF CacheOk, Listed
<1> QED BY <1>1 DEF Members

\* A queue that lists s is s.
LEMMA QueueIs ==
  ASSUME NEW s, Listed(Objs, q, s)
  PROVE  Queue = s /\ Listed(Objs, q, Queue)
<1>1. TowardsTail(q, q.head) = s
  BY ObjectWalks
<1> QED BY <1>1 DEF Queue

LEMMA QueueIsNext ==
  ASSUME NEW s, Listed(Objs, q', s)
  PROVE  Queue' = s /\ Listed(Objs, q', Queue')
<1>1. TowardsTail(q', q'.head) = s
  BY ObjectWalks
<1> QED BY <1>1 DEF Queue

\* cache_remove_obj_base and the unlinking before it (eviction or removal).
LEMMA DiscardOk ==
  ASSUME CacheOk, NEW o \in DOMAIN table, Discard(o), q' = remove_obj_from_list(q, o),
         pointer' \in (DOMAIN table \ {o}) \cup {NULL}, algo' # "Sieve" => pointer' = NULL,
         cache_size' = cache_size
  PROVE  CacheOk' /\ Queue' = Remove(Queue, o) /\ DOMAIN table' = DOMAIN table \ {o}
<1>1. /\ DOMAIN table \subseteq Objs /\ IsFiniteSet(DOMAIN table) /\ Queue \in Seq(Objs)
      /\ Distinct(Queue) /\ occupied_byte \in Nat
  BY CacheType
<1>2. o \in Members(Queue) /\ Listed(Objs, q, Queue)
  BY DEF CacheOk
<1>3. Listed(Objs, q', Remove(Queue, o))
  BY <1>2, ObjectRemoved
<1>4. Queue' = Remove(Queue, o) /\ Listed(Objs, q', Queue')
  BY <1>3, QueueIsNext
<1>5. table' = [x \in DOMAIN table \ {o} |-> table[x]] /\ DOMAIN table' = DOMAIN table \ {o}
  BY DEF Discard
<1>6. Members(Queue') = DOMAIN table' /\ Len(Queue') = Len(Queue) - 1
  BY <1>1, <1>2, <1>4, <1>5, RemoveType, RemoveMembers DEF CacheOk
<1>7. table' \in [DOMAIN table' -> Nat]
  BY <1>5 DEF CacheOk
<1>8. Total(table) = Total(table') + table[o] /\ Total(table') \in Nat /\ table[o] \in Nat
  <2> DEFINE S == DOMAIN table \ {o}
  <2>1. S \cup {o} = DOMAIN table /\ o \notin S /\ IsFiniteSet(S)
    BY <1>1, FS_Subset
  <2>2. table \in [S \cup {o} -> Nat] /\ table[o] \in Nat
    BY <2>1 DEF CacheOk
  <2>3. Total(table) = Total([s \in S |-> table[s]]) + table[o] /\ Total([s \in S |-> table[s]]) \in Nat
    <3> HIDE DEF S
    <3> QED BY <2>1, <2>2, TotalGrows
  <2> QED BY <1>5, <2>2, <2>3
<1>9. occupied_byte' = Total(table') /\ occupied_byte' <= cache_size
  BY <1>1, <1>8 DEF Discard, CacheOk
<1>10. freq' \in [Objs -> Nat] /\ n_obj' = n_obj - 1
  BY DEF Discard, CacheOk
<1> QED BY <1>4, <1>5, <1>6, <1>7, <1>9, <1>10 DEF CacheOk

-------------------------------------------------------------------------------
(* The graph of Tempograph.c.                                              *)

Dsts == 0..(DST_RANGE - 1)

PluginOk ==
  /\ edges \in TidyGraphs(Nodes, Dsts)
  /\ win \in Seq(Nodes)
  /\ access_count \in Nat
  /\ mru_time \in [Nodes -> 0..access_count]

LEMMA PluginTypes ==
  /\ \A o \in Objs : page_idx(o) \in Nodes
  /\ \A v \in Nodes : v \in Nat /\ Dst(v) \in Dsts
<1>1. ASSUME NEW o \in Objs PROVE page_idx(o) \in Nodes
  <2>1. o \in Nat /\ MAX_UNIQUE_NODES \in Nat \ {0}
    BY ObjsAssumption, PluginAssumption
  <2>2. o % MAX_UNIQUE_NODES \in 0..(MAX_UNIQUE_NODES - 1)
    BY <2>1
  <2> QED BY <2>2 DEF page_idx, Nodes
<1>2. ASSUME NEW v \in Nodes PROVE v \in Nat /\ Dst(v) \in Dsts
  <2>1. v \in Nat /\ DST_RANGE \in Nat \ {0}
    BY PluginAssumption DEF Nodes
  <2>2. v % DST_RANGE \in 0..(DST_RANGE - 1)
    BY <2>1
  <2> QED BY <2>1, <2>2 DEF Dst, Dsts
<1> QED BY <1>1, <1>2

LEMMA IncBounded ==
  ASSUME NEW g \in TidyGraphs(Nodes, Dsts), NEW u \in Nodes, NEW d \in Dsts
  PROVE  [g EXCEPT ![u] = adj_inc(@, d)] \in TidyGraphs(Nodes, Dsts)
<1>1. /\ g \in [Nodes -> Seq(EdgeTo(Dsts))] /\ g[u] \in Seq(EdgeTo(Dsts))
      /\ \A v \in Nodes : DistinctDsts(g[v]) /\ Len(g[v]) <= MAX_EDGES_PER_NODE
  BY DEF TidyGraphs
<1>2. /\ adj_inc(g[u], d) \in Seq(EdgeTo(Dsts)) /\ DistinctDsts(adj_inc(g[u], d))
      /\ Len(adj_inc(g[u], d)) <= MAX_EDGES_PER_NODE
  BY <1>1, AdjIncBounded
<1> QED BY <1>1, <1>2 DEF TidyGraphs

LEMMA DecayBounded ==
  ASSUME NEW g \in TidyGraphs(Nodes, Dsts)
  PROVE  Decay(g) \in TidyGraphs(Nodes, Dsts)
<1>1. ASSUME NEW u \in Nodes
      PROVE  /\ DecayList(g[u]) \in Seq(EdgeTo(Dsts)) /\ DistinctDsts(DecayList(g[u]))
             /\ Len(DecayList(g[u])) <= MAX_EDGES_PER_NODE
  <2>1. g[u] \in Seq(EdgeTo(Dsts)) /\ DistinctDsts(g[u]) /\ Len(g[u]) <= MAX_EDGES_PER_NODE
    BY DEF TidyGraphs
  <2> QED BY <2>1, DecayWeight
<1>2. [u \in Nodes |-> DecayList(g[u])] \in TidyGraphs(Nodes, Dsts)
  BY <1>1 DEF TidyGraphs
<1> QED BY <1>2 DEF Decay

\* update_graph ends where the loop over the window ends.
LEMMA UpdateGraphRun ==
  ASSUME win \in Seq(Nodes), NEW g \in TidyGraphs(Nodes, Dsts), NEW idx \in Nodes
  PROVE  \E f \in [0..Len(win) -> TidyGraphs(Nodes, Dsts)] :
           /\ Loop(f, g, win, Len(win), idx, Dst(idx), Nodes, Dsts, TidyGraphs(Nodes, Dsts))
           /\ update_graph(g, idx) = f[Len(win)]
<1> DEFINE X == TidyGraphs(Nodes, Dsts)
           n == Len(win)
           d == Dst(idx)
           Rec(f) == [i \in 0..n |-> IF i = 0 THEN g
                        ELSE IF win[i] = idx THEN f[i - 1]
                        ELSE [f[i - 1] EXCEPT ![win[i]] = adj_inc(@, d)]]
           after == CHOOSE f : f = Rec(f)
<1>1. n \in Nat /\ win \in [1..n -> Nodes] /\ d \in Dsts
  BY PluginTypes
<1>2. \A h \in X : \A u \in Nodes \ {idx} : [h EXCEPT ![u] = adj_inc(@, d)] \in X
  <2> HIDE DEF d
  <2> QED BY <1>1, IncBounded
<1>3. PICK f \in [0..n -> X] : Run(f, g, win, n, idx, d)
  <2> HIDE DEF X, d, n
  <2>1. g \in X
    BY DEF X
  <2> QED BY <1>1, <1>2, <2>1, RunExists
<1>4. f = Rec(f)
  <2>1. ASSUME NEW k \in 0..n
        PROVE  f[k] = IF k = 0 THEN g
                      ELSE IF win[k] = idx THEN f[k - 1]
                      ELSE [f[k - 1] EXCEPT ![win[k]] = adj_inc(@, d)]
    <3>1. CASE k = 0
      BY <1>3, <3>1 DEF Run
    <3>2. CASE k # 0
      <4>1. k \in 1..n
        BY <1>1, <3>2
      <4>2. f[k] = IF win[k] = idx THEN f[k - 1] ELSE [f[k - 1] EXCEPT ![win[k]] = adj_inc(@, d)]
        BY <1>3, <4>1 DEF Run
      <4> QED BY <3>2, <4>1, <4>2
    <3> QED BY <3>1, <3>2
  <2>2. f = [k \in 0..n |-> f[k]]
    OBVIOUS
  <2> QED BY <2>1, <2>2
<1>5. after = Rec(after)
  <2> HIDE DEF Rec
  <2> QED BY <1>4
<1>6. Run(after, g, win, n, idx, d)
  <2> HIDE DEF after
  <2>1. after[0] = g
    BY <1>1, <1>5
  <2>2. ASSUME NEW k \in 1..n
        PROVE  after[k] = IF win[k] = idx THEN after[k - 1]
                          ELSE [after[k - 1] EXCEPT ![win[k]] = adj_inc(@, d)]
    <3>1. k \in 0..n /\ k # 0
      BY <1>1
    <3>2. after[k] = Rec(after)[k]
      <4> HIDE DEF Rec
      <4> QED BY <1>5
    <3> QED BY <3>1, <3>2
  <2> QED BY <2>1, <2>2 DEF Run
<1>7. update_graph(g, idx) = after[n]
  BY DEF update_graph
<1>8. after[n] = f[n]
  <2> HIDE DEF after, n, d
  <2> QED BY <1>1, <1>3, <1>6, RunUnique
<1>9. Loop(f, g, win, n, idx, d, Nodes, Dsts, X)
  <2> HIDE DEF X, n, d
  <2>1. X \in SUBSET TidyGraphs(Nodes, Dsts)
    BY DEF X
  <2> QED BY <1>1, <1>3, <2>1 DEF Loop
<1> QED BY <1>7, <1>8, <1>9

\* What recording an access leaves.
LEMMA RecordOk ==
  ASSUME PluginOk, NEW g \in TidyGraphs(Nodes, Dsts), NEW o \in Objs, NEW t \in 0..access_count',
         Record(g, t, o), access_count' \in Nat, access_count <= access_count'
  PROVE  PluginOk'
<1> DEFINE idx == page_idx(o)
<1>1. idx \in Nodes
  BY PluginTypes
<1>2. edges' \in TidyGraphs(Nodes, Dsts)
  <2> HIDE DEF idx
  <2>1. PICK f \in [0..Len(win) -> TidyGraphs(Nodes, Dsts)] : update_graph(g, idx) = f[Len(win)]
    BY <1>1, UpdateGraphRun DEF PluginOk
  <2>2. Len(win) \in 0..Len(win)
    BY DEF PluginOk
  <2> QED BY <2>1, <2>2 DEF Record, idx
<1>3. win' \in Seq(Nodes)
  <2>1. PushFront(win, idx) \in Seq(Nodes)
    <3> HIDE DEF idx
    <3> QED BY <1>1, PushFrontType DEF PluginOk
  <2> DEFINE r == PushFront(win, idx)
             m == Smaller(DEFAULT_WINDOW, Len(r))
  <2> HIDE DEF r
  <2>2. r \in Seq(Nodes) /\ m \in Nat /\ m <= Len(r)
    BY <2>1, PluginAssumption DEF Smaller, r
  <2>3. Prefix(r, DEFAULT_WINDOW) \in [1..m -> Nodes]
    BY <2>2 DEF Prefix
  <2>4. Prefix(r, DEFAULT_WINDOW) \in Seq(Nodes)
    <3> HIDE DEF m
    <3> QED BY <2>2, <2>3, IsSequence
  <2> QED BY <2>4 DEF Record, slide_window, r
<1>4. mru_time' \in [Nodes -> 0..access_count']
  <2>1. mru_time' = [mru_time EXCEPT ![idx] = t]
    BY DEF Record
  <2>2. \A u \in Nodes : mru_time[u] \in 0..access_count'
    BY DEF PluginOk
  <2> HIDE DEF idx
  <2> QED BY <1>1, <2>1, <2>2 DEF PluginOk
<1> QED BY <1>2, <1>3, <1>4 DEF PluginOk

LEMMA ScoreType ==
  ASSUME PluginOk, NEW idx
  PROVE  score_page(idx) \in Nat
<1> DEFINE n == Len(win)
           c == [i \in DOMAIN win |-> adj_weight(edges[win[i]], Dst(idx))]
<1>1. n \in Nat /\ DOMAIN win = 1..n /\ \A i \in 1..n : win[i] \in Nodes
  BY DEF PluginOk
<1>2. ASSUME NEW i \in 1..n PROVE adj_weight(edges[win[i]], Dst(idx)) \in Nat
  <2>1. edges[win[i]] \in Seq(EdgeTo(Dsts)) /\ DistinctDsts(edges[win[i]])
    BY <1>1 DEF PluginOk, TidyGraphs
  <2>2. adj_weight(edges[win[i]], Dst(idx)) \in 0..MAX_WEIGHT
    BY <2>1, WeightType
  <2> QED BY <2>2, GraphAssumption
<1>3. c \in [1..n -> Nat]
  BY <1>1, <1>2
<1>4. IsFiniteSet(1..n)
  BY <1>1, FS_Interval
<1>5. Total(c) \in Nat
  <2> HIDE DEF c, n
  <2> QED BY <1>3, <1>4, TotalHeap
<1> QED BY <1>5 DEF score_page, Total

-------------------------------------------------------------------------------
(* to_evict.                                                               *)

\* There is a best object among those Tempograph_to_evict samples, and it is one of them.
LEMMA BestSampled ==
  ASSUME PluginOk, NEW s \in Seq(Objs), s # <<>>
  PROVE  FirstBest(s,
           LAMBDA a, b :
             \/ score_page(page_idx(a)) < score_page(page_idx(b))
             \/ /\ score_page(page_idx(a)) = score_page(page_idx(b))
                /\ mru_time[page_idx(a)] > mru_time[page_idx(b)]) \in Members(s)
<1> DEFINE n == Len(s)
           c == [i \in 1..n |-> score_page(page_idx(s[i]))]
           t == [i \in 1..n |-> mru_time[page_idx(s[i])]]
           Better(i, j) == c[i] < c[j] \/ (c[i] = c[j] /\ t[i] > t[j])
           T == {i \in 1..n : \A j \in 1..n : ~Better(j, i)}
           Q(i) == /\ \A j \in DOMAIN s :
                        ~(\/ score_page(page_idx(s[j])) < score_page(page_idx(s[i]))
                          \/ /\ score_page(page_idx(s[j])) = score_page(page_idx(s[i]))
                             /\ mru_time[page_idx(s[j])] > mru_time[page_idx(s[i])])
                   /\ \A j \in 1..(i - 1) : \E k \in DOMAIN s :
                          \/ score_page(page_idx(s[k])) < score_page(page_idx(s[j]))
                          \/ /\ score_page(page_idx(s[k])) = score_page(page_idx(s[j]))
                             /\ mru_time[page_idx(s[k])] > mru_time[page_idx(s[j])]
           i0 == CHOOSE i \in DOMAIN s : Q(i)
<1>1. n \in Nat /\ n >= 1 /\ DOMAIN s = 1..n /\ access_count \in Nat
  BY DEF PluginOk
<1>2. \A i \in 1..n : page_idx(s[i]) \in Nodes
  BY PluginTypes
<1>3. c \in [1..n -> Nat] /\ t \in [1..n -> Nat] /\ \A i \in 1..n : t[i] <= access_count
  <2>1. \A i \in 1..n : mru_time[page_idx(s[i])] \in 0..access_count
    BY <1>2 DEF PluginOk
  <2>2. c \in [1..n -> Nat]
    BY ScoreType
  <2> QED BY <1>1, <2>1, <2>2
<1>4. \E i \in 1..n : \A j \in 1..n : c[i] < c[j] \/ (c[i] = c[j] /\ t[i] >= t[j])
  <2> DEFINE S == 1..n
  <2>1. S # {} /\ c \in [S -> Nat] /\ t \in [S -> Nat] /\ \A i \in S : t[i] <= access_count
    BY <1>1, <1>3
  <2> HIDE DEF S, c, t, n
  <2>2. \E i \in S : \A j \in S : c[i] < c[j] \/ (c[i] = c[j] /\ t[i] >= t[j])
    BY <1>1, <2>1, CheapestLatest
  <2> QED BY <2>2 DEF S
<1>5. T \in SUBSET Nat /\ T # {}
  <2> HIDE DEF c, t, n
  <2>1. \A i, j \in 1..n : c[i] \in Nat /\ c[j] \in Nat /\ t[i] \in Nat /\ t[j] \in Nat
    BY <1>3
  <2>2. PICK i \in 1..n : \A j \in 1..n : c[i] < c[j] \/ (c[i] = c[j] /\ t[i] >= t[j])
    BY <1>4
  <2>3. \A j \in 1..n : ~Better(j, i)
    BY <2>1, <2>2
  <2>4. i \in T
    BY <2>3
  <2> QED BY <1>1, <2>4
<1>6. PICK m \in T : \A k \in T : m <= k
  <2> HIDE DEF T
  <2> QED BY <1>5, LeastNumber
<1>7. \A i \in 1..n : c[i] = score_page(page_idx(s[i])) /\ t[i] = mru_time[page_idx(s[i])]
  OBVIOUS
<1>8. Q(m)
  <2> HIDE DEF c, t
  <2>1. m \in 1..n /\ \A j \in 1..n : ~Better(j, m)
    BY <1>6
  <2>2. ASSUME NEW j \in 1..(m - 1) PROVE \E k \in 1..n : Better(k, j)
    <3>1. j \in 1..n /\ ~(m <= j)
      BY <1>1, <2>1
    <3>2. j \notin T
      BY <1>6, <3>1
    <3> QED BY <3>1, <3>2
  <2>3. \A j \in 1..(m - 1) : j \in 1..n
    BY <1>1, <2>1
  <2> QED BY <1>1, <1>7, <2>1, <2>2, <2>3
<1>9. i0 \in DOMAIN s
  <2>1. m \in DOMAIN s
    BY <1>1, <1>6
  <2> HIDE DEF Q
  <2> QED BY <1>8, <2>1
<1>10. s[i0] \in Members(s)
  <2> HIDE DEF i0
  <2> QED BY <1>9 DEF Members
<1> QED BY <1>10 DEF FirstBest

\* A prefix of the backward queue is a non-empty sequence of cached objects.
LEMMA SampledCached ==
  ASSUME CacheOk, DOMAIN table # {}
  PROVE  /\ Prefix(TowardsHead(q, q.tail), SAMPLE_SIZE) \in Seq(Objs)
         /\ Prefix(TowardsHead(q, q.tail), SAMPLE_SIZE) # <<>>
         /\ Members(Prefix(TowardsHead(q, q.tail), SAMPLE_SIZE)) \subseteq DOMAIN table
<1> DEFINE n == Len(Queue)
           b == Reversed(Queue, n)
           m == Smaller(SAMPLE_SIZE, n)
           r == Prefix(b, SAMPLE_SIZE)
<1>1. Queue \in Seq(Objs) /\ n \in Nat /\ n # 0 /\ Listed(Objs, q, Queue) /\ Distinct(Queue)
  BY CacheType, CachedTail DEF CacheOk
<1>2. TowardsHead(q, q.tail) = b
  BY <1>1, ObjectWalks
<1>3. b \in Seq(Objs) /\ Len(b) = n
  <2>1. n \in 0..Len(Queue)
    BY <1>1
  <2> QED BY <1>1, <2>1, ReversedList
<1>4. \A i \in 1..n : b[i] = Queue[n + 1 - i] /\ n + 1 - i \in DOMAIN Queue
  BY <1>1 DEF Reversed
<1>5. m \in Nat /\ m >= 1 /\ m <= n
  BY <1>1, PluginAssumption DEF Smaller
<1> HIDE DEF b
<1>6. r = [j \in 1..m |-> b[j]]
  BY <1>3 DEF Prefix
<1>7. r \in [1..m -> Objs]
  BY <1>3, <1>5, <1>6
<1>8. r \in Seq(Objs) /\ Len(r) = m
  <2> HIDE DEF r, m
  <2> QED BY <1>5, <1>7, IsSequence
<1>9. Members(r) \subseteq Members(Queue)
  <2> SUFFICES ASSUME NEW j \in 1..m PROVE r[j] \in Members(Queue)
    BY <1>6 DEF Members
  <2>1. j \in 1..n /\ r[j] = Queue[n + 1 - j]
    BY <1>1, <1>4, <1>5, <1>6
  <2> QED BY <1>4, <2>1 DEF Members
<1>10. r # <<>>
  BY <1>5, <1>8
<1> QED BY <1>2, <1>8, <1>9, <1>10 DEF CacheOk

-------------------------------------------------------------------------------
(* The inductive invariant.                                                *)

\* What the loops of cache_get_base and of evict may rely on.
ServingOk ==
  /\ algo \in {"FIFO", "LRU", "Clock", "Sieve", "Tempograph"}
  /\ pc \in {"idle", "evicting", "scanning"}
  /\ pc # "idle" => req.id \in Objs \ DOMAIN table /\ req.size \in Nat /\ req.size <= cache_size
  /\ pc = "scanning" => at \in DOMAIN table
  /\ pc = "scanning" /\ algo \in {"FIFO", "LRU", "Clock"} => at = q.tail

\* The queue of each algorithm is the order its definition promises.
IInv == CacheOk /\ PluginOk /\ ServingOk /\ QueueInOrder

LEMMA InitIInv == Init => IInv
<1> SUFFICES ASSUME Init PROVE IInv
  OBVIOUS
<1>1. Listed(Objs, q, <<>>)
  BY ListedNone DEF Init, EmptyList
<1>2. Queue = <<>> /\ Listed(Objs, q, Queue)
  BY <1>1, QueueIs
<1>3. CacheOk
  <2>1. /\ table = <<>> /\ n_obj = 0 /\ occupied_byte = 0 /\ pointer = NULL
        /\ cache_size \in Nat /\ freq \in [Objs -> Nat]
    BY SizesAssumption DEF Init
  <2>2. DOMAIN table = {} /\ table \in [DOMAIN table -> Nat]
    BY <2>1
  <2>3. Total(table) = Cardinality(Heap(table, DOMAIN table))
    BY <2>2, FS_EmptySet, TotalHeap
  <2>4. Heap(table, DOMAIN table) = {}
    BY <2>2 DEF Heap
  <2>5. Total(table) = 0
    BY <2>3, <2>4, FS_EmptySet
  <2>6. Members(Queue) = {} /\ Len(Queue) = 0
    BY <1>2 DEF Members
  <2> QED BY <1>2, <2>1, <2>2, <2>5, <2>6 DEF CacheOk
<1>4. PluginOk
  <2>1. edges = [u \in Nodes |-> <<>>] /\ win = <<>> /\ mru_time = [u \in Nodes |-> 0] /\ access_count = 0
    BY DEF Init
  <2>2. edges \in TidyGraphs(Nodes, Dsts)
    <3>1. <<>> \in Seq(EdgeTo(Dsts)) /\ Len(<<>>) <= MAX_EDGES_PER_NODE /\ DistinctDsts(<<>>)
      BY GraphAssumption DEF DistinctDsts
    <3> QED BY <2>1, <3>1 DEF TidyGraphs
  <2> QED BY <2>1, <2>2 DEF PluginOk
<1>5. ServingOk
  BY AlgosAssumption DEF Init, ServingOk
<1>6. QueueInOrder
  BY <1>2 DEF Init, QueueInOrder
<1> QED BY <1>3, <1>4, <1>5, <1>6 DEF IInv

\* Moving a cached object to the head keeps what is cached.
LEMMA MoveOk ==
  ASSUME CacheOk, NEW o \in DOMAIN table, q' = move_obj_to_head(q, o),
         UNCHANGED <<algo, contents, pointer, cache_size>>, freq' \in [Objs -> Nat]
  PROVE  CacheOk' /\ Queue' = Used(Queue, o)
<1>1. Queue \in Seq(Objs) /\ Distinct(Queue) /\ o \in Members(Queue) /\ Listed(Objs, q, Queue) /\ o \in Objs
  BY CacheType DEF CacheOk
<1>2. Listed(Objs, q', PushFront(Remove(Queue, o), o))
  BY <1>1, ObjectMoved
<1>3. PushFront(Remove(Queue, o), o) = Used(Queue, o)
  BY <1>1 DEF Used
<1>4. Queue' = Used(Queue, o) /\ Listed(Objs, q', Queue')
  BY <1>2, <1>3, QueueIsNext
<1>5. Members(Queue') = Members(Queue) /\ Len(Queue') = Len(Queue)
  <2>1. /\ Members(Used(Queue, o)) = Members(Queue) \cup {o}
        /\ o \in Members(Queue) => Len(Used(Queue, o)) = Len(Queue)
    BY <1>1, UsedPlaces
  <2>2. Members(Queue) \cup {o} = Members(Queue)
    BY <1>1
  <2> QED BY <1>1, <1>4, <2>1, <2>2
<1>6. /\ table' = table /\ n_obj' = n_obj /\ occupied_byte' = occupied_byte
      /\ pointer' = pointer /\ cache_size' = cache_size /\ algo' = algo
  BY DEF contents
<1>7. Members(Queue') = DOMAIN table' /\ n_obj' = Len(Queue')
  BY <1>5, <1>6 DEF CacheOk
<1> QED BY <1>4, <1>6, <1>7 DEF CacheOk

\* Leaving the queue alone keeps it too.
LEMMA StayOk ==
  ASSUME CacheOk, UNCHANGED <<algo, contents, pointer, cache_size, q>>, freq' \in [Objs -> Nat]
  PROVE  CacheOk' /\ Queue' = Queue
<1>1. Queue' = Queue
  BY DEF Queue
<1> QED BY <1>1 DEF CacheOk, contents

LEMMA TouchedType ==
  ASSUME freq \in [Objs -> Nat], NEW o \in Objs
  PROVE  Touched(o) \in [Objs -> Nat]
BY ClockAssumption DEF Touched

LEMMA CountRequestOk ==
  ASSUME PluginOk, CountRequest
  PROVE  /\ access_count' \in Nat /\ access_count <= access_count'
         /\ algo = "Tempograph" => access_count' = access_count + 1
         /\ algo # "Tempograph" => access_count' = access_count
BY DEF PluginOk, CountRequest

LEMMA HitIInv == ASSUME IInv, NEW o \in Objs, Hit(o) PROVE IInv'
<1>1. /\ CacheOk /\ PluginOk /\ ServingOk /\ QueueInOrder
      /\ pc = "idle" /\ o \in DOMAIN table /\ CountRequest /\ q' = Promoted(o)
      /\ freq' = Touched(o) /\ used' = Used(used, o)
      /\ algo = "Tempograph" => Record(Decay(edges), access_count + 1, o)
      /\ algo # "Tempograph" => UNCHANGED <<edges, win, mru_time, hist>>
      /\ UNCHANGED <<algo, cache_size, contents, pointer, pc, req, at, candidate, born>>
  BY DEF IInv, Hit, Cached
<1>2. freq' \in [Objs -> Nat]
  BY <1>1, TouchedType DEF CacheOk
<1>3. /\ CacheOk'
      /\ Queue' = IF algo \in {"LRU", "Tempograph"} THEN Used(Queue, o) ELSE Queue
  <2>1. CASE algo \in {"LRU", "Tempograph"}
    <3>1. q' = move_obj_to_head(q, o)
      BY <1>1, <2>1 DEF Promoted
    <3> QED BY <1>1, <1>2, <2>1, <3>1, MoveOk
  <2>2. CASE algo \notin {"LRU", "Tempograph"}
    <3>1. q' = q
      BY <1>1, <2>2 DEF Promoted
    <3> QED BY <1>1, <1>2, <2>2, <3>1, StayOk
  <2> QED BY <2>1, <2>2
<1>4. PluginOk'
  <2>0. /\ access_count' \in Nat /\ access_count <= access_count'
        /\ algo = "Tempograph" => access_count' = access_count + 1
        /\ algo # "Tempograph" => access_count' = access_count
    BY <1>1, CountRequestOk
  <2>1. CASE algo = "Tempograph"
    <3>1. Decay(edges) \in TidyGraphs(Nodes, Dsts)
      BY <1>1, DecayBounded DEF PluginOk
    <3>2. access_count + 1 \in 0..access_count'
      BY <2>0, <2>1
    <3> QED BY <1>1, <2>0, <2>1, <3>1, <3>2, RecordOk
  <2>2. CASE algo # "Tempograph"
    BY <1>1, <2>0, <2>2 DEF PluginOk
  <2> QED BY <2>1, <2>2
<1>5. ServingOk'
  BY <1>1 DEF ServingOk
<1>6. QueueInOrder'
  BY <1>1, <1>3 DEF QueueInOrder
<1> QED BY <1>3, <1>4, <1>5, <1>6 DEF IInv

LEMMA MissIInv == ASSUME IInv, NEW o \in Objs, NEW s \in Sizes, Miss(o, s) PROVE IInv'
<1>1. /\ CacheOk /\ PluginOk /\ ServingOk /\ QueueInOrder
      /\ pc = "idle" /\ o \notin DOMAIN table /\ CountRequest
      /\ edges' = IF algo = "Tempograph" THEN Decay(edges) ELSE edges
      /\ IF s > cache_size THEN UNCHANGED <<pc, req>>
                           ELSE pc' = "evicting" /\ req' = [id |-> o, size |-> s]
      /\ UNCHANGED <<algo, cache_size, contents, q, freq, pointer, win, mru_time, at,
                     candidate, born, used, hist>>
  BY DEF IInv, Miss, Cached
<1>2. CacheOk' /\ Queue' = Queue
  BY <1>1, StayOk DEF CacheOk
<1>3. PluginOk'
  <2>1. access_count' \in Nat /\ access_count <= access_count'
    BY <1>1, CountRequestOk
  <2>2. edges' \in TidyGraphs(Nodes, Dsts)
    BY <1>1, DecayBounded DEF PluginOk
  <2>3. \A u \in Nodes : mru_time[u] \in 0..access_count'
    BY <1>1, <2>1 DEF PluginOk
  <2>4. mru_time' \in [Nodes -> 0..access_count']
    BY <1>1, <2>3 DEF PluginOk
  <2> QED BY <1>1, <2>1, <2>2, <2>4 DEF PluginOk
<1>4. ServingOk'
  <2>1. s \in Nat /\ cache_size \in Nat /\ DOMAIN table' = DOMAIN table
    BY <1>1, SizesAssumption DEF CacheOk, contents
  <2> QED BY <1>1, <2>1 DEF ServingOk
<1>5. QueueInOrder'
  BY <1>1, <1>2 DEF QueueInOrder
<1> QED BY <1>2, <1>3, <1>4, <1>5 DEF IInv

LEMMA InsertIInv == ASSUME IInv, Insert PROVE IInv'
<1> DEFINE o == req.id
<1>1. /\ CacheOk /\ PluginOk /\ ServingOk /\ QueueInOrder /\ pc = "evicting" /\ Fits
      /\ table' = [x \in DOMAIN table \cup {o} |-> IF x = o THEN req.size ELSE table[x]]
      /\ occupied_byte' = occupied_byte + req.size /\ n_obj' = n_obj + 1
      /\ q' = prepend_obj_to_head(q, o) /\ freq' = [freq EXCEPT ![o] = 0]
      /\ algo = "Tempograph" => Record(edges, access_count, o)
      /\ algo # "Tempograph" => UNCHANGED <<edges, win, mru_time, hist>>
      /\ born' = Used(born, o) /\ used' = Used(used, o) /\ pc' = "idle"
      /\ UNCHANGED <<algo, cache_size, pointer, access_count, at, candidate>>
  BY DEF IInv, Insert
<1>2. /\ o \in Objs /\ o \notin DOMAIN table /\ req.size \in Nat
      /\ DOMAIN table \subseteq Objs /\ IsFiniteSet(DOMAIN table) /\ Queue \in Seq(Objs)
      /\ Distinct(Queue) /\ occupied_byte \in Nat /\ Listed(Objs, q, Queue) /\ Members(Queue) = DOMAIN table
  BY <1>1, CacheType DEF ServingOk, CacheOk
<1> HIDE DEF o
<1>3. Queue' = PushFront(Queue, o) /\ Listed(Objs, q', Queue')
  <2>1. Listed(Objs, q', PushFront(Queue, o))
    BY <1>1, <1>2, ObjectPrepended
  <2> QED BY <2>1, QueueIsNext
<1>4. PushFront(Queue, o) = Used(Queue, o)
  BY <1>2 DEF Used
<1>5. CacheOk'
  <2>1. Members(Queue') = DOMAIN table \cup {o} /\ Len(Queue') = Len(Queue) + 1
    BY <1>2, <1>3, PushFrontList
  <2>2. DOMAIN table' = DOMAIN table \cup {o} /\ table' \in [DOMAIN table \cup {o} -> Nat]
    BY <1>1, <1>2 DEF CacheOk
  <2>3. Total(table') = Total(table) + req.size
    <3>1. Total(table') = Total([x \in DOMAIN table |-> table'[x]]) + table'[o]
      BY <1>2, <2>2, TotalGrows
    <3>2. [x \in DOMAIN table |-> table'[x]] = table
      BY <1>1, <1>2 DEF CacheOk
    <3> QED BY <1>1, <3>1, <3>2
  <2>4. occupied_byte' = Total(table') /\ occupied_byte' <= cache_size
    BY <1>1, <2>3 DEF CacheOk, Fits
  <2>5. freq' \in [Objs -> Nat] /\ n_obj' = Len(Queue')
    BY <1>1, <2>1 DEF CacheOk
  <2> QED BY <1>1, <1>3, <2>1, <2>2, <2>4, <2>5 DEF CacheOk
<1>6. PluginOk'
  <2>1. CASE algo = "Tempograph"
    <3>1. access_count \in 0..access_count' /\ access_count' \in Nat /\ access_count <= access_count'
      BY <1>1 DEF PluginOk
    <3>2. edges \in TidyGraphs(Nodes, Dsts)
      BY <1>1 DEF PluginOk
    <3> QED BY <1>1, <1>2, <2>1, <3>1, <3>2, RecordOk
  <2>2. CASE algo # "Tempograph"
    BY <1>1, <2>2 DEF PluginOk
  <2> QED BY <2>1, <2>2
<1>7. ServingOk'
  BY <1>1 DEF ServingOk
<1>8. QueueInOrder'
  BY <1>1, <1>3, <1>4 DEF QueueInOrder
<1> QED BY <1>5, <1>6, <1>7, <1>8 DEF IInv

\* The hand of SIEVE, or the tail when it is nowhere, is on a cached object.
LEMMA HandCached ==
  ASSUME CacheOk, DOMAIN table # {}
  PROVE  HandFrom \in DOMAIN table
BY CachedTail DEF HandFrom, CacheOk

\* An eviction begins only when something is cached: otherwise the object would fit.
LEMMA CachedToEvict ==
  ASSUME CacheOk, ServingOk, pc = "evicting", ~Fits
  PROVE  DOMAIN table # {}
<1>1. req.size <= cache_size /\ req.size \in Nat
  BY DEF ServingOk
<1>2. DOMAIN table = {} => occupied_byte = 0
  BY CachedTail
<1>3. occupied_byte # 0
  BY <1>1 DEF Fits, CacheOk
<1> QED BY <1>2, <1>3

LEMMA BeginEvictIInv == ASSUME IInv, BeginEvict PROVE IInv'
<1>1. /\ CacheOk /\ PluginOk /\ ServingOk /\ QueueInOrder /\ pc = "evicting" /\ ~Fits
      /\ at' = CASE algo = "Sieve"      -> HandFrom
                 [] algo = "Tempograph" -> to_evict
                 [] OTHER               -> q.tail
      /\ pc' = "scanning"
      /\ UNCHANGED <<algo, cache_size, contents, q, freq, pointer, plugin, req, born, used>>
  BY DEF IInv, BeginEvict
<1>2. DOMAIN table # {}
  BY <1>1, CachedToEvict
<1>3. CacheOk' /\ Queue' = Queue
  BY <1>1, StayOk DEF CacheOk
<1>4. PluginOk'
  BY <1>1 DEF PluginOk, plugin
<1>5. algo = "Tempograph" => to_evict \in DOMAIN table
  <2> SUFFICES ASSUME algo = "Tempograph" PROVE to_evict \in DOMAIN table
    OBVIOUS
  <2> DEFINE s == Prefix(TowardsHead(q, q.tail), SAMPLE_SIZE)
  <2>1. s \in Seq(Objs) /\ s # <<>> /\ Members(s) \subseteq DOMAIN table
    BY <1>1, <1>2, SampledCached
  <2>2. to_evict = FirstBest(s,
           LAMBDA a, b :
             \/ score_page(page_idx(a)) < score_page(page_idx(b))
             \/ /\ score_page(page_idx(a)) = score_page(page_idx(b))
                /\ mru_time[page_idx(a)] > mru_time[page_idx(b)])
    BY DEF to_evict
  <2>3. to_evict \in Members(s)
    <3> HIDE DEF s
    <3> QED BY <1>1, <2>1, <2>2, BestSampled
  <2> QED BY <2>1, <2>3
<1>6. ServingOk'
  <2>1. HandFrom \in DOMAIN table /\ q.tail \in DOMAIN table
    BY <1>1, <1>2, HandCached, CachedTail
  <2>2. at' \in DOMAIN table
    <3>1. CASE algo = "Sieve"
      BY <1>1, <2>1, <3>1
    <3>2. CASE algo = "Tempograph"
      BY <1>1, <1>5, <3>2
    <3>3. CASE algo \notin {"Sieve", "Tempograph"}
      BY <1>1, <2>1, <3>3
    <3> QED BY <3>1, <3>2, <3>3
  <2>3. algo \in {"FIFO", "LRU", "Clock"} => at' = q'.tail
    BY <1>1
  <2>4. DOMAIN table' = DOMAIN table
    BY <1>1 DEF contents
  <2> QED BY <1>1, <2>2, <2>3, <2>4 DEF ServingOk
<1>7. QueueInOrder'
  BY <1>1, <1>3 DEF QueueInOrder
<1> QED BY <1>3, <1>4, <1>6, <1>7 DEF IInv

LEMMA SpareIInv == ASSUME IInv, Spare PROVE IInv'
<1>1. /\ CacheOk /\ PluginOk /\ ServingOk /\ QueueInOrder /\ pc = "scanning" /\ Spares
      /\ freq' = Worn(at)
      /\ q' = IF algo = "Clock" THEN move_obj_to_head(q, at) ELSE q
      /\ at' = IF algo = "Sieve" /\ q.prev[at] # NULL THEN q.prev[at] ELSE q'.tail
      /\ UNCHANGED <<algo, cache_size, contents, pointer, plugin, pc, req, candidate, born, used>>
  BY DEF IInv, Spare
<1>2. at \in DOMAIN table /\ at \in Objs /\ freq[at] >= 1 /\ algo \in {"Clock", "Sieve"}
  BY <1>1, CacheType DEF ServingOk, Spares
<1>3. freq' \in [Objs -> Nat]
  BY <1>1, <1>2 DEF Worn, CacheOk
<1>4. CacheOk' /\ (algo = "Sieve" => Queue' = Queue)
  <2>1. CASE algo = "Clock"
    BY <1>1, <1>2, <1>3, <2>1, MoveOk
  <2>2. CASE algo = "Sieve"
    BY <1>1, <1>3, <2>2, StayOk
  <2> QED BY <1>2, <2>1, <2>2
<1>5. PluginOk'
  BY <1>1 DEF PluginOk, plugin
<1>6. ServingOk'
  <2>1. DOMAIN table' = DOMAIN table
    BY <1>1 DEF contents
  <2>2. q'.tail \in DOMAIN table'
    <3>1. DOMAIN table' # {} => q'.tail \in DOMAIN table'
      BY <1>4, CachedTailNext
    <3> QED BY <1>2, <2>1, <3>1
  <2>3. q.prev[at] \in DOMAIN table \cup {NULL}
    BY <1>1, <1>2, CachedPrev
  <2> QED BY <1>1, <1>2, <2>1, <2>2, <2>3 DEF ServingOk
<1>7. QueueInOrder'
  BY <1>1, <1>2, <1>4 DEF QueueInOrder
<1> QED BY <1>4, <1>5, <1>6, <1>7 DEF IInv

LEMMA EvictIInv == ASSUME IInv, Evict PROVE IInv'
<1>1. /\ CacheOk /\ PluginOk /\ ServingOk /\ QueueInOrder /\ pc = "scanning" /\ ~Spares
      /\ q' = IF algo \in {"FIFO", "LRU"} THEN CutTail(q) ELSE remove_obj_from_list(q, at)
      /\ pointer' = IF algo = "Sieve" THEN q.prev[at] ELSE pointer
      /\ Discard(at) /\ pc' = "evicting"
      /\ UNCHANGED <<algo, cache_size, plugin, req>>
  BY DEF IInv, Evict
<1>2. at \in DOMAIN table /\ Listed(Objs, q, Queue) /\ Queue # <<>>
  BY <1>1, CachedTail DEF ServingOk, CacheOk
<1>3. q' = remove_obj_from_list(q, at)
  <2>1. algo \in {"FIFO", "LRU"} => at = q.tail
    BY <1>1 DEF ServingOk
  <2>2. CutTail(q) = remove_obj_from_list(q, q.tail)
    BY <1>2, TailCut
  <2> QED BY <1>1, <2>1, <2>2
<1>4. pointer' \in (DOMAIN table \ {at}) \cup {NULL} /\ (algo' # "Sieve" => pointer' = NULL)
  <2>1. q.prev[at] \in (DOMAIN table \ {at}) \cup {NULL}
    BY <1>1, <1>2, CachedPrev
  <2>2. algo # "Sieve" => pointer = NULL
    BY <1>1 DEF CacheOk
  <2> QED BY <1>1, <2>1, <2>2
<1>5. CacheOk' /\ Queue' = Remove(Queue, at) /\ DOMAIN table' = DOMAIN table \ {at}
  BY <1>1, <1>2, <1>3, <1>4, DiscardOk
<1>6. PluginOk'
  BY <1>1 DEF PluginOk, plugin
<1>7. ServingOk'
  BY <1>1, <1>5 DEF ServingOk
<1>8. QueueInOrder'
  BY <1>1, <1>5 DEF QueueInOrder, Discard
<1> QED BY <1>5, <1>6, <1>7, <1>8 DEF IInv

LEMMA RemoveObjIInv == ASSUME IInv, NEW o \in Objs, RemoveObj(o) PROVE IInv'
<1>1. /\ CacheOk /\ PluginOk /\ ServingOk /\ QueueInOrder /\ pc = "idle" /\ o \in DOMAIN table
      /\ pointer' = PointerPast(o) /\ q' = remove_obj_from_list(q, o) /\ Discard(o)
      /\ UNCHANGED <<algo, cache_size, plugin, pc, req, at, candidate>>
  BY DEF IInv, RemoveObj, Cached
<1>2. pointer' \in (DOMAIN table \ {o}) \cup {NULL} /\ (algo' # "Sieve" => pointer' = NULL)
  <2>1. q.prev[o] \in (DOMAIN table \ {o}) \cup {NULL}
    BY <1>1, CachedPrev
  <2>2. /\ algo # "Sieve" => pointer = NULL
        /\ pointer \in DOMAIN table \cup {NULL}
    BY <1>1 DEF CacheOk
  <2> QED BY <1>1, <2>1, <2>2 DEF PointerPast
<1>3. CacheOk' /\ Queue' = Remove(Queue, o) /\ DOMAIN table' = DOMAIN table \ {o}
  BY <1>1, <1>2, DiscardOk
<1>4. PluginOk'
  BY <1>1 DEF PluginOk, plugin
<1>5. ServingOk'
  BY <1>1 DEF ServingOk
<1>6. QueueInOrder'
  BY <1>1, <1>3 DEF QueueInOrder, Discard
<1> QED BY <1>3, <1>4, <1>5, <1>6 DEF IInv

LEMMA StutterIInv == ASSUME IInv, UNCHANGED vars PROVE IInv'
<1>1. Queue' = Queue
  BY DEF Queue, vars
<1>2. CacheOk'
  BY <1>1 DEF IInv, CacheOk, vars, contents
<1>3. PluginOk'
  BY DEF IInv, PluginOk, vars, plugin
<1>4. ServingOk'
  BY DEF IInv, ServingOk, vars, contents
<1>5. QueueInOrder'
  BY <1>1 DEF IInv, QueueInOrder, vars
<1> QED BY <1>2, <1>3, <1>4, <1>5 DEF IInv

LEMMA StepIInv == IInv /\ [Next]_vars => IInv'
<1> SUFFICES ASSUME IInv, [Next]_vars PROVE IInv'
  OBVIOUS
<1>1. ASSUME NEW o \in Objs, Hit(o) PROVE IInv'
  BY <1>1, HitIInv
<1>2. ASSUME NEW o \in Objs, RemoveObj(o) PROVE IInv'
  BY <1>2, RemoveObjIInv
<1>3. ASSUME NEW o \in Objs, RemoveNothing(o) PROVE IInv'
  BY <1>3, StutterIInv DEF RemoveNothing
<1>4. ASSUME NEW o \in Objs, NEW s \in Sizes, Miss(o, s) PROVE IInv'
  BY <1>4, MissIInv
<1>5. CASE Insert
  BY <1>5, InsertIInv
<1>6. CASE BeginEvict
  BY <1>6, BeginEvictIInv
<1>7. CASE Spare
  BY <1>7, SpareIInv
<1>8. CASE Evict
  BY <1>8, EvictIInv
<1>9. CASE UNCHANGED vars
  BY <1>9, StutterIInv
<1> QED BY <1>1, <1>2, <1>3, <1>4, <1>5, <1>6, <1>7, <1>8, <1>9 DEF Next, Serve

LEMMA Invariance == Spec => []IInv
<1>1. Init => IInv
  BY InitIInv
<1>2. IInv /\ [Next]_vars => IInv'
  BY StepIInv
<1> QED BY <1>1, <1>2, PTL DEF Spec

\* The queue read from either end, the hash table and the counters agree on what is
\* cached, which fits in the cache, and SIEVE's hand is on a cached object.
THEOREM QueueConsistent == Spec => []QueueMatchesTable
<1>1. IInv => QueueMatchesTable
  <2> SUFFICES ASSUME IInv PROVE QueueMatchesTable
    OBVIOUS
  <2>1. CacheOk /\ Listed(Objs, q, Queue) /\ Queue \in Seq(Objs)
    BY CacheType DEF IInv, CacheOk
  <2>2. TowardsHead(q, q.tail) = Backwards(Queue)
    BY <2>1, ObjectWalks
  <2>3. occupied_byte = FoldFunction(+, 0, table)
    BY <2>1 DEF CacheOk, Total
  <2> QED BY <2>1, <2>2, <2>3 DEF CacheOk, QueueMatchesTable, Cached
<1> QED BY <1>1, Invariance, PTL

\* FIFO and SIEVE keep the queue by insertion, LRU and TempoGraph by last use.
THEOREM OrderCorrect == Spec => []QueueInOrder
<1>1. IInv => QueueInOrder
  BY DEF IInv
<1> QED BY <1>1, Invariance, PTL

-------------------------------------------------------------------------------
(* to_evict foretells evict.                                               *)

\* How many turns after position p the scan of Clock or SIEVE is at position k of n: it
\* goes down to the first position and on from the last.
Met(n, p, k) == IF k <= p THEN p - k ELSE p + n - k

\* When the scan now at a meets each object of s.
Turns(s, a) == [x \in Members(s) |-> Met(Len(s), Position(s, a), Position(s, x))]

\* No object of S is used less than c, nor as little and met before it.
Foremost(S, f, m, c) ==
  /\ c \in S
  /\ \A x \in S : f[c] < f[x] \/ (f[c] = f[x] /\ m[c] <= m[x])

LEMMA TurnsType ==
  ASSUME NEW s \in Seq(Objs), Distinct(s), NEW a \in Members(s)
  PROVE  /\ Turns(s, a) \in [Members(s) -> Nat]
         /\ \A x \in Members(s) : /\ Turns(s, a)[x] = Met(Len(s), Position(s, a), Position(s, x))
                                  /\ Turns(s, a)[x] <= Len(s) - 1
                                  /\ Turns(s, a)[x] = 0 => x = a
         /\ Turns(s, a)[a] = 0
<1> DEFINE n == Len(s)
           p == Position(s, a)
<1>1. n \in Nat /\ p \in 1..n /\ s[p] = a
  BY PositionType
<1>2. ASSUME NEW x \in Members(s)
      PROVE  /\ Position(s, x) \in 1..n /\ s[Position(s, x)] = x
             /\ Met(n, p, Position(s, x)) \in Nat /\ Met(n, p, Position(s, x)) <= n - 1
             /\ Met(n, p, Position(s, x)) = 0 => x = a
  <2>1. Position(s, x) \in 1..n /\ s[Position(s, x)] = x
    BY PositionType
  <2> DEFINE k == Position(s, x)
  <2> HIDE DEF n, p, k
  <2>2. /\ k \in 1..n /\ s[k] = x
    BY <2>1 DEF k, n
  <2>3. Met(n, p, k) \in Nat /\ Met(n, p, k) <= n - 1 /\ (Met(n, p, k) = 0 => k = p)
    BY <1>1, <2>2 DEF Met
  <2>4. Met(n, p, k) = 0 => x = a
    BY <1>1, <2>2, <2>3
  <2> QED BY <2>2, <2>3, <2>4 DEF k
<1>3. Met(n, p, p) = 0
  <2> HIDE DEF n, p
  <2> QED BY <1>1 DEF Met
<1>4. Turns(s, a) = [x \in Members(s) |-> Met(n, p, Position(s, x))]
  BY DEF Turns
<1> HIDE DEF n, p
<1>5. Turns(s, a) \in [Members(s) -> Nat]
  BY <1>2, <1>4
<1>6. Turns(s, a)[a] = 0
  BY <1>3, <1>4 DEF p
<1> QED BY <1>2, <1>4, <1>5, <1>6 DEF n, p

\* One turn of the scan brings every other object a turn nearer.
Nearer(S, m, k, a) == \A x \in S \ {a} : k[x] = m[x] - 1 /\ k[x] <= k[a]

\* SIEVE's hand goes to the neighbour towards the head, or back to the tail.
LEMMA HandTurns ==
  ASSUME NEW s \in Seq(Objs), Distinct(s), NEW p \in 1..Len(s)
  PROVE  Nearer(Members(s), Turns(s, s[p]), Turns(s, IF p > 1 THEN s[p - 1] ELSE s[Len(s)]), s[p])
<1> DEFINE n == Len(s)
           r == IF p > 1 THEN p - 1 ELSE n
           a == s[p]
           b == s[r]
<1>1. n \in Nat /\ n >= 1 /\ r \in 1..n /\ a \in Members(s) /\ b \in Members(s)
  BY DEF Members
<1>2. Position(s, a) = p /\ Position(s, b) = r
  BY <1>1, PositionIs
<1>3. b = IF p > 1 THEN s[p - 1] ELSE s[n]
  OBVIOUS
<1>4. ASSUME NEW x \in Members(s) \ {a}
      PROVE  Turns(s, b)[x] = Turns(s, a)[x] - 1 /\ Turns(s, b)[x] <= Turns(s, b)[a]
  <2>1. PICK k \in 1..n : k = Position(s, x) /\ s[k] = x
    BY PositionType
  <2>2. k # p
    BY <2>1
  <2>3. /\ Turns(s, a)[x] = Met(n, p, k) /\ Turns(s, b)[x] = Met(n, r, k)
        /\ Turns(s, b)[a] = Met(n, r, p)
    BY <1>1, <1>2, <2>1, TurnsType
  <2>4. Met(n, r, k) = Met(n, p, k) - 1 /\ Met(n, r, k) <= Met(n, r, p)
    <3> HIDE DEF n, a, b
    <3> QED BY <1>1, <2>2 DEF Met
  <2> QED BY <2>3, <2>4
<1> QED BY <1>3, <1>4 DEF Nearer

\* Clock's scan stays at the tail and the object it spares goes to the head.
LEMMA TailTurns ==
  ASSUME NEW s \in Seq(Objs), Distinct(s), s # <<>>
  PROVE  Nearer(Members(s), Turns(s, s[Len(s)]),
                Turns(Used(s, s[Len(s)]), Used(s, s[Len(s)])[Len(s)]), s[Len(s)])
<1> DEFINE n == Len(s)
           a == s[n]
           r == Used(s, a)
           b == r[n]
<1>1. n \in Nat /\ n \in 1..n /\ n >= 1 /\ a \in Members(s) /\ a \in Objs
  BY DEF Members
<1>2. /\ r \in Seq(Objs) /\ Distinct(r) /\ Members(r) = Members(s) /\ Len(r) = n
  <2>1. /\ r \in Seq(Objs) /\ Distinct(r) /\ Members(r) = Members(s) \cup {a} /\ Len(r) = n
    BY <1>1, UsedPlaces
  <2> QED BY <1>1, <2>1
<1>3. Position(s, a) = n /\ Position(r, a) = 1
  BY <1>1, PositionIs, UsedPosition
<1>4. b \in Members(r) /\ Position(r, b) = n
  <2>1. n \in DOMAIN r
    BY <1>1, <1>2
  <2> HIDE DEF r
  <2> QED BY <1>2, <2>1, PositionIs DEF Members
<1>5. ASSUME NEW x \in Members(s) \ {a}
      PROVE  Turns(r, b)[x] = Turns(s, a)[x] - 1 /\ Turns(r, b)[x] <= Turns(r, b)[a]
  <2>1. PICK k \in 1..n : k = Position(s, x) /\ s[k] = x
    BY PositionType
  <2>2. k # n
    BY <2>1
  <2>3. Position(r, x) = k + 1
    <3>1. Position(r, x) = IF a \in Members(s) /\ Position(s, a) < Position(s, x)
                           THEN Position(s, x) ELSE Position(s, x) + 1
      <4> HIDE DEF a
      <4> QED BY <1>1, UsedPosition
    <3> QED BY <1>1, <1>3, <2>1, <2>2, <3>1
  <2>4. Turns(s, a)[x] = Met(n, n, k)
    BY <1>1, <1>3, <2>1, TurnsType
  <2>5. Turns(r, b)[x] = Met(n, n, k + 1) /\ Turns(r, b)[a] = Met(n, n, 1)
    <3> HIDE DEF r, b, a
    <3>1. x \in Members(r) /\ a \in Members(r)
      BY <1>1, <1>2
    <3> QED BY <1>2, <1>3, <1>4, <2>3, <3>1, TurnsType
  <2>6. Met(n, n, k + 1) = Met(n, n, k) - 1 /\ Met(n, n, k + 1) <= Met(n, n, 1)
    <3> HIDE DEF n, a, b, r
    <3> QED BY <1>1, <2>2 DEF Met
  <2> QED BY <2>4, <2>5, <2>6
<1> QED BY <1>5 DEF Nearer

\* A turn of the scan that is at a and spares it.
WearsDown(S, f, g, m, k, a) ==
  /\ f \in [S -> Nat] /\ g \in [S -> Nat] /\ m \in [S -> Nat] /\ k \in [S -> Nat]
  /\ a \in S /\ m[a] = 0 /\ (\A x \in S : m[x] = 0 => x = a) /\ Nearer(S, m, k, a)
  /\ f[a] >= 1 /\ g[a] = f[a] - 1 /\ \A x \in S \ {a} : g[x] = f[x]

\* The object the scan spares is worn down and met last; the choice stays the same.
LEMMA WornForemost ==
  ASSUME NEW S, NEW f, NEW g, NEW m, NEW k, NEW a, NEW c,
         Foremost(S, f, m, c), WearsDown(S, f, g, m, k, a)
  PROVE  Foremost(S, g, k, c)
<1>0. /\ f \in [S -> Nat] /\ g \in [S -> Nat] /\ m \in [S -> Nat] /\ k \in [S -> Nat]
      /\ a \in S /\ m[a] = 0 /\ (\A x \in S : m[x] = 0 => x = a) /\ Nearer(S, m, k, a)
      /\ f[a] >= 1 /\ g[a] = f[a] - 1 /\ \A x \in S \ {a} : g[x] = f[x]
  BY DEF WearsDown
<1>1. c \in S /\ \A x \in S : f[c] < f[x] \/ (f[c] = f[x] /\ m[c] <= m[x])
  BY DEF Foremost
<1>2. ASSUME NEW x \in S PROVE g[c] < g[x] \/ (g[c] = g[x] /\ k[c] <= k[x])
  <2>0. /\ f[c] \in Nat /\ f[x] \in Nat /\ f[a] \in Nat /\ m[c] \in Nat /\ m[x] \in Nat
        /\ k[c] \in Nat /\ k[x] \in Nat /\ k[a] \in Nat
    BY <1>0, <1>1
  <2>1. CASE c = a
    <3>1. CASE x = a
      BY <1>0, <2>0, <2>1, <3>1
    <3>2. CASE x # a
      BY <1>0, <1>1, <2>0, <2>1, <3>2
    <3> QED BY <3>1, <3>2
  <2>2. CASE c # a
    <3>1. f[c] < f[a] /\ m[c] # 0
      BY <1>0, <1>1, <2>0, <2>2
    <3>2. CASE x = a
      BY <1>0, <1>1, <2>0, <2>2, <3>1, <3>2 DEF Nearer
    <3>3. CASE x # a
      BY <1>0, <1>1, <2>0, <2>2, <3>3 DEF Nearer
    <3> QED BY <3>2, <3>3
  <2> QED BY <2>1, <2>2
<1> QED BY <1>1, <1>2 DEF Foremost

\* t meets every object of S, each for the first time after m[x] turns.
Meets(t, S, m) ==
  /\ t \in Seq(S)
  /\ \A x \in S : m[x] + 1 \in 1..Len(t) /\ t[m[x] + 1] = x
  /\ \A i \in 1..Len(t) : m[t[i]] + 1 <= i

\* The search of to_evict finds the object the scan prefers.
LEMMA LowestForemost ==
  ASSUME NEW S, S # {}, S \subseteq Objs, freq \in [Objs -> Nat], NEW m \in [S -> Nat], NEW t, Meets(t, S, m)
  PROVE  Foremost(S, freq, m, Lowest(t))
<1> DEFINE n == Len(t)
           c == [x \in S |-> freq[x]]
           l == [x \in S |-> n - m[x]]
           Q(i) == /\ \A j \in DOMAIN t : ~(freq[t[j]] < freq[t[i]])
                   /\ \A j \in 1..(i - 1) : \E k \in DOMAIN t : freq[t[k]] < freq[t[j]]
           i0 == CHOOSE i \in DOMAIN t : Q(i)
<1>1. /\ n \in Nat /\ DOMAIN t = 1..n /\ \A i \in 1..n : t[i] \in S /\ m[t[i]] + 1 <= i
      /\ \A x \in S : m[x] \in Nat /\ m[x] + 1 \in 1..n /\ t[m[x] + 1] = x
  <2>1. t \in Seq(S)
    BY DEF Meets
  <2>2. n \in Nat /\ DOMAIN t = 1..n /\ \A i \in 1..n : t[i] \in S
    BY <2>1
  <2>3. /\ \A i \in 1..n : m[t[i]] + 1 <= i
        /\ \A x \in S : m[x] \in Nat /\ m[x] + 1 \in 1..n /\ t[m[x] + 1] = x
    BY DEF Meets
  <2> QED BY <2>2, <2>3
<1>2. \A x \in S : freq[x] \in Nat
  OBVIOUS
<1>3. PICK x \in S : \A y \in S : freq[x] < freq[y] \/ (freq[x] = freq[y] /\ m[x] <= m[y])
  <2>1. c \in [S -> Nat] /\ l \in [S -> Nat] /\ \A y \in S : l[y] <= n
    BY <1>1, <1>2
  <2>2. \E x \in S : \A y \in S : c[x] < c[y] \/ (c[x] = c[y] /\ l[x] >= l[y])
    <3> HIDE DEF c, l, n
    <3> QED BY <1>1, <2>1, CheapestLatest
  <2>3. PICK x \in S : \A y \in S : c[x] < c[y] \/ (c[x] = c[y] /\ l[x] >= l[y])
    BY <2>2
  <2>4. \A y \in S : c[y] = freq[y] /\ l[y] = n - m[y]
    OBVIOUS
  <2> HIDE DEF c, l, n
  <2>5. \A y \in S : freq[x] < freq[y] \/ (freq[x] = freq[y] /\ m[x] <= m[y])
    BY <1>1, <2>3, <2>4
  <2> QED BY <2>5
<1>4. Q(m[x] + 1)
  <2>1. \A j \in 1..n : ~(freq[t[j]] < freq[t[m[x] + 1]])
    BY <1>1, <1>2, <1>3
  <2>2. ASSUME NEW j \in 1..((m[x] + 1) - 1) PROVE freq[x] < freq[t[j]]
    <3>1. j \in 1..n /\ m[t[j]] < m[x] /\ t[j] \in S
      BY <1>1
    <3> QED BY <1>1, <1>3, <3>1
  <2> QED BY <1>1, <2>1, <2>2
<1>5. i0 \in DOMAIN t /\ Q(i0)
  <2>1. m[x] + 1 \in DOMAIN t
    BY <1>1
  <2> HIDE DEF Q
  <2> QED BY <1>4, <2>1
<1>6. Lowest(t) = t[i0]
  BY DEF Lowest, FirstBest
<1> HIDE DEF i0, n
<1>7. t[i0] \in S
  BY <1>1, <1>5
<1>8. ASSUME NEW y \in S PROVE freq[t[i0]] < freq[y] \/ (freq[t[i0]] = freq[y] /\ m[t[i0]] <= m[y])
  <2>1. ~(freq[y] < freq[t[i0]])
    BY <1>1, <1>5
  <2>2. ASSUME freq[y] = freq[t[i0]], m[y] < m[t[i0]] PROVE FALSE
    <3>1. m[y] + 1 \in 1..(i0 - 1)
      BY <1>1, <1>5, <1>7, <2>2
    <3>2. \E k \in DOMAIN t : freq[t[k]] < freq[t[m[y] + 1]]
      <4>1. \A j \in 1..(i0 - 1) : \E k \in DOMAIN t : freq[t[k]] < freq[t[j]]
        BY <1>5
      <4> HIDE DEF Q
      <4> QED BY <3>1, <4>1
    <3>3. PICK k \in DOMAIN t : freq[t[k]] < freq[y]
      BY <1>1, <3>2
    <3>4. ~(freq[t[k]] < freq[t[i0]])
      BY <1>5
    <3>5. freq[t[k]] \in Nat /\ freq[t[i0]] \in Nat
      BY <1>1, <1>2, <1>7
    <3> HIDE DEF Q
    <3> QED BY <2>2, <3>3, <3>4, <3>5
  <2>3. freq[y] \in Nat /\ freq[t[i0]] \in Nat /\ m[y] \in Nat /\ m[t[i0]] \in Nat
    BY <1>1, <1>2, <1>7
  <2> QED BY <2>1, <2>2, <2>3
<1> QED BY <1>6, <1>7, <1>8 DEF Foremost

\* The walks of Clock_to_evict and Sieve_to_evict meet the objects as their evict's does.
LEMMA WalkMeets ==
  ASSUME NEW s \in Seq(Objs), Distinct(s), NEW p \in 1..Len(s)
  PROVE  /\ Meets(Reversed(s, p) \o Reversed(s, Len(s)), Members(s), Turns(s, s[p]))
         /\ p = Len(s) => Meets(Reversed(s, p), Members(s), Turns(s, s[p]))
<1> DEFINE n == Len(s)
           S == Members(s)
           m == Turns(s, s[p])
           u == Reversed(s, p)
           v == Reversed(s, n)
           t == u \o v
<1>1. n \in Nat /\ p \in 1..n /\ s[p] \in S /\ Position(s, s[p]) = p
  <2>1. p \in DOMAIN s
    OBVIOUS
  <2> QED BY <2>1, PositionIs DEF Members
<1>2. ASSUME NEW r \in 1..n
      PROVE  /\ Reversed(s, r) \in Seq(S) /\ Len(Reversed(s, r)) = r
             /\ \A j \in 1..r : Reversed(s, r)[j] = s[r + 1 - j] /\ r + 1 - j \in 1..n
  <2>1. \A j \in 1..r : r + 1 - j \in 1..n /\ s[r + 1 - j] \in S
    BY <1>1 DEF Members
  <2>2. Reversed(s, r) \in [1..r -> S] /\ r \in Nat
    BY <2>1 DEF Reversed
  <2>3. Reversed(s, r) \in Seq(S) /\ Len(Reversed(s, r)) = r
    <3> HIDE DEF S
    <3> QED BY <2>2, IsSequence
  <2> QED BY <2>1, <2>3 DEF Reversed
<1>3. /\ u \in Seq(S) /\ Len(u) = p /\ v \in Seq(S) /\ Len(v) = n
      /\ \A j \in 1..p : u[j] = s[p + 1 - j] /\ p + 1 - j \in 1..n
      /\ \A j \in 1..n : v[j] = s[n + 1 - j] /\ n + 1 - j \in 1..n
  <2>1. n \in 1..n
    BY <1>1
  <2>2. u \in Seq(S) /\ Len(u) = p /\ \A j \in 1..p : u[j] = s[p + 1 - j] /\ p + 1 - j \in 1..n
    BY <1>1, <1>2
  <2>3. v \in Seq(S) /\ Len(v) = n /\ \A j \in 1..n : v[j] = s[n + 1 - j] /\ n + 1 - j \in 1..n
    <3> HIDE DEF S
    <3> QED BY <1>2, <2>1
  <2> HIDE DEF u, v, S
  <2> QED BY <2>2, <2>3
<1>4. /\ t \in Seq(S) /\ Len(t) = p + n
      /\ \A j \in 1..(p + n) : t[j] = IF j <= p THEN u[j] ELSE v[j - p]
  <2>1. /\ t \in Seq(S) /\ Len(t) = Len(u) + Len(v)
        /\ \A j \in 1..(Len(u) + Len(v)) : t[j] = IF j <= Len(u) THEN u[j] ELSE v[j - Len(u)]
    <3>1. u \in Seq(S) /\ v \in Seq(S)
      BY <1>3
    <3> HIDE DEF u, v, S
    <3> QED BY <3>1, JoinType
  <2> HIDE DEF t, u, v, S, n
  <2> QED BY <1>3, <2>1
<1>5. ASSUME NEW k \in 1..n
      PROVE  m[s[k]] = Met(n, p, k) /\ s[k] \in S
  <2>1. k \in DOMAIN s /\ s[k] \in S
    BY <1>1 DEF Members
  <2>2. Position(s, s[k]) = k
    BY <2>1, PositionIs
  <2>3. m[s[k]] = Met(n, Position(s, s[p]), Position(s, s[k]))
    BY <1>1, <2>1, TurnsType
  <2> HIDE DEF m, n, S
  <2> QED BY <1>1, <2>1, <2>2, <2>3
<1>6. \A x \in S : \E k \in 1..n : x = s[k]
  BY <1>1 DEF Members
<1> HIDE DEF u, v, S, m, n, t
<1>7. ASSUME NEW x \in S PROVE m[x] + 1 \in 1..(p + n) /\ t[m[x] + 1] = x
  <2>1. PICK k \in 1..n : x = s[k]
    BY <1>6
  <2>2. m[x] = Met(n, p, k)
    BY <1>5, <2>1
  <2>3. CASE k <= p
    <3>1. m[x] + 1 = p - k + 1 /\ m[x] + 1 \in 1..p /\ p + 1 - (m[x] + 1) = k
      BY <1>1, <2>2, <2>3 DEF Met
    <3>2. PICK j \in 1..p : j = m[x] + 1 /\ p + 1 - j = k
      BY <3>1
    <3>3. t[j] = u[j] /\ u[j] = s[p + 1 - j] /\ j \in 1..(p + n)
      BY <1>1, <1>3, <1>4
    <3> QED BY <2>1, <3>2, <3>3
  <2>4. CASE ~(k <= p)
    <3>1. m[x] = p + n - k
      BY <2>2, <2>4 DEF Met
    <3>2. PICK j \in 1..(p + n) : j = m[x] + 1 /\ j = p + n - k + 1
      BY <1>1, <2>4, <3>1
    <3>3. PICK i \in 1..n : i = j - p /\ n + 1 - i = k /\ ~(j <= p)
      BY <1>1, <2>4, <3>2
    <3>4. t[j] = v[i] /\ v[i] = s[n + 1 - i]
      BY <1>3, <1>4, <3>3
    <3> QED BY <2>1, <3>2, <3>3, <3>4
  <2> QED BY <2>3, <2>4
<1>8. ASSUME NEW i \in 1..(p + n) PROVE m[t[i]] + 1 <= i
  <2>1. CASE i <= p
    <3>0. i \in 1..p
      BY <1>1, <2>1
    <3>1. p + 1 - i \in 1..n /\ t[i] = s[p + 1 - i]
      BY <1>3, <1>4, <2>1, <3>0
    <3>2. m[t[i]] = Met(n, p, p + 1 - i)
      BY <1>5, <3>1
    <3>3. Met(n, p, p + 1 - i) = i - 1
      BY <1>1, <2>1 DEF Met
    <3> QED BY <3>2, <3>3
  <2>2. CASE ~(i <= p)
    <3>0. i - p \in 1..n
      BY <1>1, <2>2
    <3>1. n + 1 - (i - p) \in 1..n /\ t[i] = s[n + 1 - (i - p)]
      BY <1>3, <1>4, <2>2, <3>0
    <3>2. m[t[i]] = Met(n, p, n + 1 - (i - p))
      BY <1>5, <3>1
    <3>3. Met(n, p, n + 1 - (i - p)) + 1 <= i
      BY <1>1, <2>2, <3>0 DEF Met
    <3> QED BY <3>2, <3>3
  <2> QED BY <2>1, <2>2
<1>9. Meets(t, S, m)
  BY <1>4, <1>7, <1>8 DEF Meets
<1>10. p = n => Meets(v, S, m)
  <2> SUFFICES ASSUME p = n PROVE Meets(v, S, m)
    OBVIOUS
  <2>1. \A x \in S : m[x] + 1 \in 1..n /\ v[m[x] + 1] = x
    <3> SUFFICES ASSUME NEW x \in S PROVE m[x] + 1 \in 1..n /\ v[m[x] + 1] = x
      OBVIOUS
    <3>1. PICK k \in 1..n : x = s[k]
      BY <1>6
    <3>2. m[x] = Met(n, p, k)
      BY <1>5, <3>1
    <3>3. m[x] + 1 \in 1..n /\ n + 1 - (m[x] + 1) = k
      BY <1>1, <3>2 DEF Met
    <3> QED BY <1>3, <3>1, <3>3
  <2>2. \A i \in 1..n : m[v[i]] + 1 <= i
    <3> SUFFICES ASSUME NEW i \in 1..n PROVE m[v[i]] + 1 <= i
      OBVIOUS
    <3>1. n + 1 - i \in 1..n /\ v[i] = s[n + 1 - i]
      BY <1>3
    <3>2. m[v[i]] = Met(n, p, n + 1 - i)
      BY <1>5, <3>1
    <3>3. Met(n, p, n + 1 - i) + 1 <= i
      BY <1>1 DEF Met
    <3> QED BY <3>2, <3>3
  <2> QED BY <1>3, <2>1, <2>2 DEF Meets
<1> QED BY <1>9, <1>10 DEF t, u, v, n, S, m

\* What to_evict answered is where the scan is, or what it will come to.
Foretold ==
  pc = "scanning" =>
    /\ algo \in {"FIFO", "LRU", "Tempograph"} => candidate = at
    /\ algo \in {"Clock", "Sieve"} => Foremost(DOMAIN table, freq, Turns(Queue, at), candidate)

LEMMA BeginForetold == ASSUME IInv, BeginEvict PROVE Foretold'
<1>1. /\ CacheOk /\ ServingOk /\ pc = "evicting" /\ ~Fits /\ candidate' = to_evict
      /\ at' = CASE algo = "Sieve"      -> HandFrom
                 [] algo = "Tempograph" -> to_evict
                 [] OTHER               -> q.tail
      /\ UNCHANGED <<algo, contents, q, freq>>
  BY DEF IInv, BeginEvict
<1>2. DOMAIN table # {} /\ Queue' = Queue /\ DOMAIN table' = DOMAIN table
  BY <1>1, CachedToEvict DEF Queue, contents
<1>3. ASSUME algo \in {"FIFO", "LRU", "Tempograph"} PROVE candidate' = at'
  BY <1>1, <1>3 DEF to_evict
<1>4. ASSUME algo \in {"Clock", "Sieve"}
      PROVE  Foremost(DOMAIN table, freq, Turns(Queue, at'), candidate')
  <2> DEFINE s == Queue
             n == Len(s)
             S == DOMAIN table
  <2>1. /\ s \in Seq(Objs) /\ Distinct(s) /\ Members(s) = S /\ Listed(Objs, q, s) /\ S \subseteq Objs
        /\ S # {} /\ freq \in [Objs -> Nat] /\ q.tail = s[n] /\ n \in 1..n
    BY <1>1, <1>2, CacheType, CachedTail DEF CacheOk
  <2>2. at' \in S /\ (algo = "Clock" => at' = q.tail) /\ (algo = "Sieve" => at' = HandFrom)
    <3>1. HandFrom \in S /\ q.tail \in S
      BY <1>1, <1>2, HandCached, CachedTail
    <3> QED BY <1>1, <1>4, <3>1
  <2>3. PICK p \in 1..n : s[p] = at' /\ (algo = "Clock" => p = n)
    <3>1. CASE algo = "Clock"
      BY <2>1, <2>2, <3>1
    <3>2. CASE algo = "Sieve"
      BY <2>1, <2>2, <3>2 DEF Members
    <3> QED BY <1>4, <3>1, <3>2
  <2>4. TowardsHead(q, s[p]) = Reversed(s, p) /\ TowardsHead(q, q.tail) = Reversed(s, n)
    BY <2>1, ObjectWalks
  <2>5. Turns(s, s[p]) \in [S -> Nat]
    <3>1. s[p] \in Members(s)
      BY <2>1 DEF Members
    <3> QED BY <2>1, <3>1, TurnsType
  <2>6. CASE algo = "Clock"
    <3>1. candidate' = Lowest(Reversed(s, p))
      BY <1>1, <2>3, <2>4, <2>6 DEF to_evict
    <3>2. Meets(Reversed(s, p), S, Turns(s, s[p]))
      BY <2>1, <2>3, <2>6, WalkMeets
    <3>3. Foremost(S, freq, Turns(s, s[p]), Lowest(Reversed(s, p)))
      <4> HIDE DEF s, S
      <4> QED BY <2>1, <2>5, <3>2, LowestForemost
    <3> QED BY <2>3, <3>1, <3>3
  <2>7. CASE algo = "Sieve"
    <3>1. candidate' = Lowest(Reversed(s, p) \o Reversed(s, n))
      BY <1>1, <2>2, <2>3, <2>4, <2>7 DEF to_evict
    <3>2. Meets(Reversed(s, p) \o Reversed(s, n), S, Turns(s, s[p]))
      BY <2>1, <2>3, <2>7, WalkMeets
    <3>3. Foremost(S, freq, Turns(s, s[p]), Lowest(Reversed(s, p) \o Reversed(s, n)))
      <4> HIDE DEF s, S
      <4> QED BY <2>1, <2>5, <3>2, LowestForemost
    <3> QED BY <2>3, <3>1, <3>3
  <2> QED BY <1>4, <2>6, <2>7
<1> QED BY <1>1, <1>2, <1>3, <1>4 DEF Foretold

LEMMA SpareForetold == ASSUME IInv, Foretold, Spare PROVE Foretold'
<1> DEFINE s == Queue
           n == Len(s)
           S == DOMAIN table
           m == Turns(Queue, at)
           k == Turns(Queue', at')
<1>1. /\ CacheOk /\ ServingOk /\ pc = "scanning" /\ Spares /\ freq' = Worn(at)
      /\ q' = IF algo = "Clock" THEN move_obj_to_head(q, at) ELSE q
      /\ at' = IF algo = "Sieve" /\ q.prev[at] # NULL THEN q.prev[at] ELSE q'.tail
      /\ UNCHANGED <<algo, cache_size, contents, pointer, candidate>> /\ IInv'
  BY SpareIInv DEF IInv, Spare
<1>2. /\ at \in S /\ S \subseteq Objs /\ freq[at] >= 1 /\ algo \in {"Clock", "Sieve"}
      /\ s \in Seq(Objs) /\ Distinct(s) /\ Members(s) = S /\ Listed(Objs, q, s) /\ S # {} /\ s # <<>>
      /\ freq \in [Objs -> Nat] /\ q.tail = s[n] /\ n \in 1..n /\ NULL \notin Objs
  BY <1>1, CacheType, CachedTail DEF ServingOk, Spares, CacheOk
<1>3. PICK p \in 1..n : s[p] = at
  BY <1>2 DEF Members
<1>4. CacheOk' /\ Members(Queue') = S /\ DOMAIN table' = S /\ at' \in S
  BY <1>1 DEF IInv, CacheOk, ServingOk, Spare, contents
<1>5. Nearer(S, m, k, at)
  <2>1. CASE algo = "Sieve"
    <3>1. Queue' = Queue /\ q' = q
      BY <1>1, <2>1 DEF Queue
    <3>2. q.prev[at] = (IF p > 1 THEN s[p - 1] ELSE NULL) /\ (p > 1 => s[p - 1] \in Objs)
      BY <1>2, <1>3 DEF Listed
    <3>3. at' = IF p > 1 THEN s[p - 1] ELSE s[n]
      BY <1>1, <1>2, <2>1, <3>1, <3>2
    <3>4. Nearer(Members(s), Turns(s, s[p]), Turns(s, IF p > 1 THEN s[p - 1] ELSE s[Len(s)]), s[p])
      BY <1>2, HandTurns
    <3> QED BY <1>2, <1>3, <3>1, <3>3, <3>4
  <2>2. CASE algo = "Clock"
    <3>1. at = s[n]
      BY <1>1, <1>2, <2>2 DEF ServingOk
    <3>2. freq' \in [Objs -> Nat] /\ q' = move_obj_to_head(q, at)
      BY <1>1, <1>4, <2>2 DEF CacheOk
    <3>3. Queue' = Used(s, at)
      BY <1>1, <1>2, <3>2, MoveOk
    <3>4. at' = Queue'[n]
      <4>1. Len(Used(s, at)) = n
        BY <1>2, UsedPlaces
      <4>2. q'.tail = IF Len(Queue') = 0 THEN NULL ELSE Queue'[Len(Queue')]
        BY <1>4 DEF CacheOk, Listed
      <4> QED BY <1>1, <1>2, <2>2, <3>3, <4>1, <4>2
    <3>5. Nearer(Members(s), Turns(s, s[Len(s)]),
                 Turns(Used(s, s[Len(s)]), Used(s, s[Len(s)])[Len(s)]), s[Len(s)])
      BY <1>2, TailTurns
    <3> QED BY <1>2, <3>1, <3>3, <3>4, <3>5
  <2> QED BY <1>2, <2>1, <2>2
<1>6. m \in [S -> Nat] /\ m[at] = 0 /\ \A x \in S : m[x] = 0 => x = at
  BY <1>2, TurnsType
<1>7. k \in [S -> Nat]
  <2>1. Queue' \in Seq(Objs) /\ Distinct(Queue')
    BY <1>4 DEF CacheOk, Listed
  <2> QED BY <1>4, <2>1, TurnsType
<1>8. Foremost(S, freq, m, candidate)
  BY <1>1, <1>2 DEF Foretold
<1>9. Foremost(S, freq', k, candidate)
  <2> DEFINE f == [x \in S |-> freq[x]]
             g == [x \in S |-> freq'[x]]
  <2>1. freq' \in [Objs -> Nat] /\ freq' = [freq EXCEPT ![at] = @ - 1]
    BY <1>1, <1>4 DEF CacheOk, Worn
  <2>2. /\ f \in [S -> Nat] /\ g \in [S -> Nat] /\ f[at] >= 1 /\ g[at] = f[at] - 1
        /\ \A x \in S \ {at} : g[x] = f[x]
    BY <1>2, <2>1
  <2>3. Foremost(S, f, m, candidate)
    BY <1>8 DEF Foremost
  <2>4. Foremost(S, g, k, candidate)
    <3> HIDE DEF f, g, S, m, k
    <3>1. at \in S
      BY <1>2
    <3>2. PICK T, F, G, M, K, a, c : /\ T = S /\ F = f /\ G = g /\ M = m /\ K = k
                                     /\ a = at /\ c = candidate
      OBVIOUS
    <3>3. Foremost(T, F, M, c)
      BY <2>3, <3>2
    <3>4. WearsDown(T, F, G, M, K, a)
      BY <1>5, <1>6, <1>7, <2>2, <3>1, <3>2 DEF WearsDown
    <3>5. Foremost(T, G, K, c)
      BY ONLY <3>3, <3>4, WornForemost
    <3> QED BY <3>2, <3>5
  <2> QED BY <2>4 DEF Foremost
<1> QED BY <1>1, <1>2, <1>4, <1>9 DEF Foretold

LEMMA StepForetold == IInv /\ Foretold /\ [Next]_vars => Foretold'
<1> SUFFICES ASSUME IInv, Foretold, [Next]_vars PROVE Foretold'
  OBVIOUS
<1>1. ASSUME NEW o \in Objs, Hit(o) PROVE Foretold'
  BY <1>1 DEF Hit, Foretold
<1>2. ASSUME NEW o \in Objs, RemoveObj(o) PROVE Foretold'
  BY <1>2 DEF RemoveObj, Foretold
<1>3. CASE UNCHANGED vars
  <2>1. Queue' = Queue
    BY <1>3 DEF Queue, vars
  <2> QED BY <1>3, <2>1 DEF vars, contents, Foretold
<1>4. ASSUME NEW o \in Objs, NEW s \in Sizes, Miss(o, s) PROVE Foretold'
  BY <1>4 DEF Miss, Foretold
<1>5. CASE Insert
  BY <1>5 DEF Insert, Foretold
<1>6. CASE BeginEvict
  BY <1>6, BeginForetold
<1>7. CASE Spare
  BY <1>7, SpareForetold
<1>8. CASE Evict
  BY <1>8 DEF Evict, Foretold
<1>9. ASSUME NEW o \in Objs, RemoveNothing(o) PROVE Foretold'
  BY <1>3, <1>9 DEF RemoveNothing
<1> QED BY <1>1, <1>2, <1>3, <1>4, <1>5, <1>6, <1>7, <1>8, <1>9 DEF Next, Serve

\* The scan ends at the object to_evict named.
LEMMA EvictsForetold ==
  IInv /\ Foretold /\ [Next]_vars =>
    (pc = "scanning" => DOMAIN table \ DOMAIN table' \subseteq {candidate})
<1> SUFFICES ASSUME IInv, Foretold, [Next]_vars, pc = "scanning"
             PROVE  DOMAIN table \ DOMAIN table' \subseteq {candidate}
  OBVIOUS
<1>1. CASE UNCHANGED contents
  BY <1>1 DEF contents
<1>2. CASE Evict
  <2>1. /\ CacheOk /\ ServingOk /\ ~Spares /\ DOMAIN table' = DOMAIN table \ {at}
        /\ at \in DOMAIN table
    BY <1>2 DEF Evict, Discard, IInv, ServingOk
  <2>2. CASE algo \in {"FIFO", "LRU", "Tempograph"}
    BY <2>1, <2>2 DEF Foretold
  <2>3. CASE algo \in {"Clock", "Sieve"}
    <3> DEFINE m == Turns(Queue, at)
    <3>1. Foremost(DOMAIN table, freq, m, candidate)
      BY <2>3 DEF Foretold
    <3>2. candidate \in DOMAIN table /\ (freq[candidate] < freq[at] \/ m[candidate] <= m[at])
      BY <2>1, <3>1 DEF Foremost
    <3>3. freq[at] = 0 /\ freq[candidate] \in Nat
      BY <2>1, <2>3, <3>2, CacheType DEF Spares, CacheOk
    <3>4. Queue \in Seq(Objs) /\ Distinct(Queue) /\ Members(Queue) = DOMAIN table
      BY <2>1, CacheType DEF CacheOk
    <3>5. /\ m \in [DOMAIN table -> Nat] /\ m[at] = 0
          /\ \A x \in DOMAIN table : m[x] = 0 => x = at
      BY <2>1, <3>4, TurnsType
    <3>6. m[candidate] = 0
      <4> HIDE DEF m
      <4> QED BY <3>2, <3>3, <3>5
    <3> QED BY <2>1, <3>2, <3>5, <3>6
  <2> QED BY <2>1, <2>2, <2>3 DEF ServingOk
<1> QED BY <1>1, <1>2 DEF Next, Serve, Hit, RemoveObj, RemoveNothing, Miss, Insert, BeginEvict,
                          Spare, vars

\* The object Clock and SIEVE evict is the one their to_evict names, whatever the scan
\* wears down on the way to it; FIFO, LRU and TempoGraph evict the one they name.
THEOREM CandidateCorrect == Spec => EvictsTheCandidate
<1>1. Init => Foretold
  BY DEF Init, Foretold
<1>2. IInv /\ Foretold /\ [Next]_vars => Foretold'
  BY StepForetold
<1>3. IInv /\ Foretold /\ [Next]_vars =>
        [pc = "scanning" => DOMAIN table \ DOMAIN table' \subseteq {candidate}]_vars
  BY EvictsForetold
<1> QED BY <1>1, <1>2, <1>3, Invariance, PTL DEF Spec, EvictsTheCandidate

-------------------------------------------------------------------------------
(* The weights of Tempograph.c.                                            *)

\* The window is the end of the history, newest first.
WindowOk ==
  /\ hist \in Seq(Nodes)
  /\ Len(win) = Smaller(DEFAULT_WINDOW, Len(hist))
  /\ \A i \in 1..Len(win) : win[i] = hist[Len(hist) + 1 - i]

LEMMA RecordWindow ==
  ASSUME WindowOk, win \in Seq(Nodes), NEW idx \in Nodes,
         hist' = Append(hist, idx), win' = slide_window(idx)
  PROVE  WindowOk'
<1> DEFINE n == Len(hist)
           r == PushFront(win, idx)
           m == Smaller(DEFAULT_WINDOW, Len(r))
<1>1. /\ hist \in Seq(Nodes) /\ n \in Nat /\ DEFAULT_WINDOW \in Nat \ {0}
      /\ Len(win) = Smaller(DEFAULT_WINDOW, n)
      /\ \A i \in 1..Len(win) : win[i] = hist[n + 1 - i]
  BY PluginAssumption DEF WindowOk
<1>2. /\ hist' \in Seq(Nodes) /\ Len(hist') = n + 1
      /\ hist'[n + 1] = idx /\ \A i \in 1..n : hist'[i] = hist[i]
  BY <1>1
<1>3. /\ r \in Seq(Nodes) /\ Len(r) = Len(win) + 1 /\ Len(win) \in Nat
      /\ r[1] = idx /\ \A j \in 2..(Len(win) + 1) : r[j] = win[j - 1]
  <2>1. Len(win) \in Nat
    OBVIOUS
  <2>2. /\ r \in Seq(Nodes) /\ Len(r) = Len(win) + 1 /\ r[1] = idx
        /\ \A j \in 2..(Len(win) + 1) : r[j] = win[j - 1]
    <3>1. PICK w : w = win
      OBVIOUS
    <3>2. w \in Seq(Nodes) /\ r = PushFront(w, idx)
      BY <3>1
    <3>3. /\ PushFront(w, idx) \in Seq(Nodes) /\ Len(PushFront(w, idx)) = Len(w) + 1
          /\ PushFront(w, idx)[1] = idx
          /\ \A j \in 2..(Len(w) + 1) : PushFront(w, idx)[j] = w[j - 1]
      BY <3>2, PushFrontType
    <3> HIDE DEF r
    <3> QED BY <3>1, <3>2, <3>3
  <2> QED BY <2>1, <2>2
<1> HIDE DEF r
<1>4. win' = [j \in 1..m |-> r[j]] /\ m \in Nat
  BY <1>1, <1>3 DEF slide_window, Prefix, r, Smaller
<1>5. m = Smaller(DEFAULT_WINDOW, n + 1) /\ m <= Len(win) + 1 /\ m <= n + 1
  BY <1>1, <1>3 DEF Smaller
<1>6. Len(win') = m
  BY <1>4
<1> HIDE DEF m
<1>7. ASSUME NEW i \in 1..m PROVE win'[i] = hist'[(n + 1) + 1 - i]
  <2>1. win'[i] = r[i]
    BY <1>4
  <2>2. CASE i = 1
    <3>1. (n + 1) + 1 - i = n + 1
      BY <1>1, <2>2
    <3> QED BY <1>2, <1>3, <2>1, <2>2, <3>1
  <2>3. CASE i # 1
    <3>0. i \in Nat /\ i >= 2 /\ i <= m /\ m <= Len(win) + 1 /\ m <= n + 1
      BY <1>4, <1>5, <2>3
    <3>1. i - 1 \in 1..Len(win) /\ i \in 2..(Len(win) + 1) /\ n + 1 - (i - 1) = (n + 1) + 1 - i
      <4> HIDE DEF n
      <4> QED BY <1>1, <1>3, <1>4, <3>0
    <3>2. r[i] = hist[n + 1 - (i - 1)]
      BY <1>1, <1>3, <3>1
    <3>3. (n + 1) + 1 - i \in 1..n
      BY <1>1, <1>4, <3>0
    <3> QED BY <1>2, <2>1, <3>1, <3>2, <3>3
  <2> QED BY <2>2, <2>3
<1> QED BY <1>2, <1>5, <1>6, <1>7 DEF WindowOk

\* The positions of u in the history h, and those of the accesses that count towards an
\* edge from u to d.
At(h, u) == {i \in DOMAIN h : h[i] = u}
To(h, u, d) == {i \in DOMAIN h : h[i] # u /\ Dst(h[i]) = d}

LEMMA PairsAreNear ==
  ASSUME hist \in Seq(Nodes), NEW u, NEW d
  PROVE  /\ Pairs(u, d) = Near(Len(hist), DEFAULT_WINDOW, At(hist, u), To(hist, u, d))
         /\ IsFiniteSet(Pairs(u, d)) /\ Cardinality(Pairs(u, d)) \in Nat
         /\ Pairs(u, d) = {} <=> Cardinality(Pairs(u, d)) = 0
<1>1. DOMAIN hist = 1..Len(hist) /\ Len(hist) \in Nat /\ DEFAULT_WINDOW \in Nat
  BY PluginAssumption
<1>2. Pairs(u, d) = Near(Len(hist), DEFAULT_WINDOW, At(hist, u), To(hist, u, d))
  BY <1>1 DEF Pairs, Near, At, To
<1>3. IsFiniteSet(Pairs(u, d)) /\ Cardinality(Pairs(u, d)) \in Nat
  BY <1>1, <1>2, NearGrows
<1>4. Pairs(u, d) = {} <=> Cardinality(Pairs(u, d)) = 0
  BY <1>3, FS_EmptySet
<1> QED BY <1>2, <1>3, <1>4

\* An access is paired with every other access of the window, and no other pair is new.
LEMMA PairsGrow ==
  ASSUME WindowOk, win \in Seq(Nodes), NEW idx \in Nodes, hist' = Append(hist, idx), NEW u, NEW d
  PROVE  /\ IsFiniteSet(Pairs(u, d)') /\ Cardinality(Pairs(u, d)') \in Nat
         /\ Pairs(u, d)' = {} <=> Cardinality(Pairs(u, d)') = 0
         /\ u # idx /\ d = Dst(idx) => Cardinality(Pairs(u, d)') =
              Cardinality(Pairs(u, d)) + Occurs(win, u, Len(win))
         /\ ~(u # idx /\ d = Dst(idx)) => Cardinality(Pairs(u, d)') = Cardinality(Pairs(u, d))
<1> DEFINE n == Len(hist)
           w == DEFAULT_WINDOW
           A == At(hist, u)
           B == To(hist, u, d)
           A2 == At(hist', u)
           B2 == To(hist', u, d)
<1>1. n \in Nat /\ w \in Nat /\ hist \in Seq(Nodes) /\ DOMAIN hist = 1..n
  BY PluginAssumption DEF WindowOk
<1>2. /\ hist' \in Seq(Nodes) /\ Len(hist') = n + 1 /\ DOMAIN hist' = 1..(n + 1)
      /\ hist'[n + 1] = idx /\ \A i \in 1..n : hist'[i] = hist[i]
  BY <1>1
<1>3. /\ \A i \in 1..n : (i \in A2 <=> i \in A) /\ (i \in B2 <=> i \in B)
      /\ n + 1 \in B2 <=> u # idx /\ d = Dst(idx)
  BY <1>1, <1>2 DEF At, To
<1>4. Pairs(u, d) = Near(n, w, A, B) /\ Pairs(u, d)' = Near(n + 1, w, A2, B2)
  <2>1. Pairs(u, d) = Near(n, w, A, B)
    BY <1>1, PairsAreNear
  <2>2. Pairs(u, d)' = Near(n + 1, w, A2, B2)
    BY <1>2 DEF Pairs, Near, At, To
  <2> QED BY <2>1, <2>2
<1>5. Near(n, w, A2, B2) = Near(n, w, A, B)
  <2> HIDE DEF n, A, B, A2, B2, w
  <2> QED BY <1>3 DEF Near
<1>6. Latest(n, w, A2) = {i \in 1..Len(win) : win[i] = u}
  <2>1. Len(win) = Smaller(w, n) /\ Smaller(w, n) \in Nat /\ Smaller(w, n) <= n
    BY <1>1 DEF WindowOk, Smaller
  <2>2. ASSUME NEW i \in 1..Len(win) PROVE n + 1 - i \in A2 <=> win[i] = u
    <3>1. n + 1 - i \in 1..n
      BY <1>1, <2>1
    <3>2. win[i] = hist[n + 1 - i]
      BY DEF WindowOk
    <3>3. n + 1 - i \in A2 <=> n + 1 - i \in A
      BY <1>3, <3>1
    <3>4. n + 1 - i \in A <=> hist[n + 1 - i] = u
      BY <1>1, <3>1 DEF At
    <3> QED BY <3>2, <3>3, <3>4
  <2> HIDE DEF A2
  <2> QED BY <2>1, <2>2 DEF Latest
<1>7. /\ Cardinality(Near(n, w, A2, B2)) \in Nat
      /\ IsFiniteSet(Near(n + 1, w, A2, B2)) /\ Cardinality(Near(n + 1, w, A2, B2)) \in Nat
      /\ n + 1 \in B2 => Cardinality(Near(n + 1, w, A2, B2)) =
           Cardinality(Near(n, w, A2, B2)) + Cardinality(Latest(n, w, A2))
      /\ n + 1 \notin B2 => Cardinality(Near(n + 1, w, A2, B2)) = Cardinality(Near(n, w, A2, B2))
  <2>1. n + 1 \in Nat
    BY <1>1
  <2> HIDE DEF n, A2, B2, w
  <2> QED BY <1>1, <2>1, NearGrows
<1>8. Pairs(u, d)' = {} <=> Cardinality(Pairs(u, d)') = 0
  <2> HIDE DEF n, A, B, A2, B2, w
  <2> QED BY <1>4, <1>7, FS_EmptySet
<1> HIDE DEF n, A, B, A2, B2, w
<1> QED BY <1>3, <1>4, <1>5, <1>6, <1>7, <1>8 DEF Occurs

\* What the weight of an edge of g says after c requests.
Weighs(g, c, u, d) ==
  /\ adj_weight(g[u], d) <= Cardinality(Pairs(u, d))
  /\ (/\ Cardinality(Successors(u)) <= MAX_EDGES_PER_NODE
      /\ c < DECAY_INTERVAL \/ Cardinality(Pairs(u, d)) < DECAY_DIV
      /\ Cardinality(Pairs(u, d)) <= MAX_WEIGHT) => adj_weight(g[u], d) = Cardinality(Pairs(u, d))

GraphOk == WindowOk /\ \A u \in Nodes, d \in Dsts : Weighs(edges, access_count, u, d)

LEMMA EdgeWeight ==
  ASSUME NEW g \in TidyGraphs(Nodes, Dsts), NEW u \in Nodes
  PROVE  /\ g[u] \in Seq(EdgeTo(Dsts)) /\ DistinctDsts(g[u]) /\ Len(g[u]) <= MAX_EDGES_PER_NODE
         /\ \A d : adj_weight(g[u], d) \in Nat
<1>1. g[u] \in Seq(EdgeTo(Dsts)) /\ DistinctDsts(g[u]) /\ Len(g[u]) <= MAX_EDGES_PER_NODE
  BY DEF TidyGraphs
<1>2. \A d : adj_weight(g[u], d) \in 0..MAX_WEIGHT
  BY <1>1, WeightType
<1> QED BY <1>1, <1>2, GraphAssumption

LEMMA SmallMod ==
  ASSUME NEW n \in Nat, n > 0, NEW a \in 0..(n - 1)
  PROVE  a % n = a
OBVIOUS

\* A sweep comes after DECAY_INTERVAL requests and leaves light edges alone.
LEMMA DecayWeighs ==
  ASSUME PluginOk, NEW u \in Nodes, NEW d \in Dsts, Weighs(edges, access_count, u, d), hist \in Seq(Nodes)
  PROVE  Weighs(Decay(edges), access_count + 1, u, d)
<1> DEFINE w == adj_weight(edges[u], d)
           s == adj_weight(Decay(edges)[u], d)
           k == Cardinality(Pairs(u, d))
           Ample == Cardinality(Successors(u)) <= MAX_EDGES_PER_NODE
<1>1. /\ edges[u] \in Seq(EdgeTo(Dsts)) /\ DistinctDsts(edges[u]) /\ w \in Nat
      /\ access_count \in Nat /\ DECAY_INTERVAL \in Nat \ {0} /\ k \in Nat
      /\ DECAY_DIV \in Nat
  BY EdgeWeight, PluginAssumption, GraphAssumption, PairsAreNear DEF PluginOk
<1>2. s \in Nat /\ s <= w /\ (w < DECAY_DIV => s = w)
      /\ (access_count + 1 < DECAY_INTERVAL => s = w)
  <2>1. CASE (access_count + 1) % DECAY_INTERVAL = 0
    <3>1. s = Decayed(w)
      BY <1>1, <2>1, DecayWeight DEF Decay
    <3>2. Decayed(w) \in 0..w /\ (w < DECAY_DIV => Decayed(w) = w)
      BY <1>1, DecayedBounds
    <3>3. ~(access_count + 1 < DECAY_INTERVAL)
      <4>1. ASSUME access_count + 1 < DECAY_INTERVAL PROVE FALSE
        <5>1. access_count + 1 \in 0..(DECAY_INTERVAL - 1)
          BY <1>1, <4>1
        <5>2. (access_count + 1) % DECAY_INTERVAL = access_count + 1
          BY <1>1, <5>1, SmallMod
        <5> QED BY <1>1, <2>1, <5>2
      <4> QED BY <4>1
    <3> HIDE DEF w, s
    <3> QED BY <1>1, <3>1, <3>2, <3>3
  <2>2. CASE (access_count + 1) % DECAY_INTERVAL # 0
    <3>1. s = w
      BY <2>2 DEF Decay
    <3> HIDE DEF w, s
    <3> QED BY <1>1, <3>1
  <2> QED BY <2>1, <2>2
<1>3. /\ w <= k
      /\ (Ample /\ (access_count < DECAY_INTERVAL \/ k < DECAY_DIV) /\ k <= MAX_WEIGHT) => w = k
  BY DEF Weighs
<1>4. s <= k
  <2> HIDE DEF s, w, k
  <2> QED BY <1>1, <1>2, <1>3
<1>5. ASSUME Ample, access_count + 1 < DECAY_INTERVAL \/ k < DECAY_DIV, k <= MAX_WEIGHT
      PROVE  s = k
  <2> HIDE DEF s, w, k, Ample
  <2>1. access_count < DECAY_INTERVAL \/ k < DECAY_DIV
    BY <1>1, <1>5
  <2>2. w = k
    BY <1>3, <1>5, <2>1
  <2> QED BY <1>1, <1>2, <1>5, <2>2
<1> QED BY <1>4, <1>5 DEF Weighs

\* Recording an access adds to the edges what it adds to the pairs.
LEMMA RecordWeighs ==
  ASSUME WindowOk, win \in Seq(Nodes), NEW g \in TidyGraphs(Nodes, Dsts), NEW c,
         NEW idx \in Nodes, hist' = Append(hist, idx), edges' = update_graph(g, idx),
         \A u \in Nodes, d \in Dsts : Weighs(g, c, u, d), NEW u \in Nodes, NEW d \in Dsts
  PROVE  Weighs(edges, c, u, d)'
<1> DEFINE n == Len(win)
           v == Dst(idx)
           X == TidyGraphs(Nodes, Dsts)
           k == Cardinality(Pairs(u, d))
           k2 == Cardinality(Pairs(u, d)')
           s == adj_weight(g[u], d)
           e == adj_weight(edges'[u], d)
           p == Occurs(win, u, n)
           Ample == Cardinality(Successors(u)') <= MAX_EDGES_PER_NODE
<1>1. n \in Nat /\ v \in Dsts /\ p \in Nat /\ hist \in Seq(Nodes) /\ MAX_WEIGHT \in Nat /\ DECAY_DIV \in Nat
  BY PluginTypes, OccursCounts, GraphAssumption DEF WindowOk
<1>2. PICK f \in [0..n -> X] : /\ Loop(f, g, win, n, idx, v, Nodes, Dsts, X)
                               /\ update_graph(g, idx) = f[n]
  BY UpdateGraphRun
<1>3. f[0] = g /\ edges' = f[n] /\ edges' \in X
  <2>1. f[0] = g
    BY <1>2 DEF Loop, Run
  <2> HIDE DEF X
  <2> QED BY <1>1, <1>2, <2>1
<1>4. Weight(f, 0, u, d) = s /\ Weight(f, n, u, d) = e
  BY <1>3 DEF Weight
<1>5. /\ k \in Nat /\ k2 \in Nat
      /\ u # idx /\ d = v => k2 = k + p
      /\ ~(u # idx /\ d = v) => k2 = k
  BY <1>1, PairsAreNear, PairsGrow
<1>6. s \in Nat /\ e \in Nat
  BY <1>3, EdgeWeight
<1>7. IsFiniteSet(Successors(u)') /\ Successors(u) \subseteq Successors(u)'
  <2>1. Successors(u)' \subseteq Dsts /\ IsFiniteSet(Dsts)
    BY PluginAssumption, FS_Interval DEF Successors, Dsts
  <2>2. ASSUME NEW x \in Successors(u) PROVE x \in Successors(u)'
    <3>1. x \in Dsts /\ Pairs(u, x) # {}
      BY DEF Successors, Dsts
    <3>2. Cardinality(Pairs(u, x)) \in Nat /\ Cardinality(Pairs(u, x)) # 0
      BY <1>1, <3>1, PairsAreNear
    <3>3. Cardinality(Pairs(u, x)') # 0
      <4>1. /\ u # idx /\ x = Dst(idx) => Cardinality(Pairs(u, x)') =
                 Cardinality(Pairs(u, x)) + Occurs(win, u, Len(win))
            /\ ~(u # idx /\ x = Dst(idx)) => Cardinality(Pairs(u, x)') = Cardinality(Pairs(u, x))
        BY PairsGrow
      <4> QED BY <1>1, <3>2, <4>1
    <3>4. Pairs(u, x)' # {}
      BY <3>3, PairsGrow
    <3> QED BY <3>1, <3>4 DEF Successors, Dsts
  <2> QED BY <2>1, <2>2, FS_Subset
<1>8. Ample => Cardinality(Successors(u)) <= MAX_EDGES_PER_NODE
  <2>1. /\ Cardinality(Successors(u)) \in Nat /\ Cardinality(Successors(u)') \in Nat
        /\ Cardinality(Successors(u)) <= Cardinality(Successors(u)')
    BY <1>7, FS_Subset, FS_CardinalityType
  <2> QED BY <2>1, GraphAssumption
<1>9. NamesWithin(g, u, Successors(u)')
  <2> SUFFICES ASSUME NEW x, Names(g[u], x) PROVE x \in Successors(u)'
    BY DEF NamesWithin
  <2>1. PICK list : list = g[u]
    OBVIOUS
  <2>2. list \in Seq(EdgeTo(Dsts)) /\ DistinctDsts(list)
    BY <2>1, EdgeWeight
  <2>3. PICK i \in DOMAIN list : list[i].dst = x
    BY <2>1 DEF Names
  <2>4. list[i] \in EdgeTo(Dsts)
    BY <2>2, <2>3
  <2>5. x \in Dsts /\ list[i].w \in 1..MAX_WEIGHT
    BY <2>3, <2>4 DEF EdgeTo
  <2>6. adj_weight(g[u], x) = list[i].w
    BY <2>1, <2>2, <2>3, WeightNamed
  <2>7. adj_weight(g[u], x) <= Cardinality(Pairs(u, x)) /\ Cardinality(Pairs(u, x)) \in Nat
    BY <1>1, <2>5, PairsAreNear DEF Weighs
  <2>8. Cardinality(Pairs(u, x)) # 0
    BY <1>1, <2>5, <2>6, <2>7
  <2>9. x \in Successors(u)
    BY <1>1, <2>5, <2>8, PairsAreNear DEF Successors, Dsts
  <2> QED BY <1>7, <2>9
<1>10. u # idx /\ p # 0 => v \in Successors(u)'
  <2> SUFFICES ASSUME u # idx, p # 0 PROVE v \in Successors(u)'
    OBVIOUS
  <2>1. Cardinality(Pairs(u, v)) \in Nat /\ Cardinality(Pairs(u, v)') = Cardinality(Pairs(u, v)) + p
    BY <1>1, PairsAreNear, PairsGrow
  <2>2. Cardinality(Pairs(u, v)') # 0
    <3> HIDE DEF p, v
    <3> QED BY <1>1, <2>1
  <2>3. Pairs(u, v)' # {}
    BY <2>2, PairsGrow
  <2> QED BY <1>1, <2>3 DEF Successors, Dsts
<1>11. Ample /\ u # idx => Roomy(f, win, n, u, v)
  <2>1. PICK F : F = Successors(u)'
    OBVIOUS
  <2>2. IsFiniteSet(F) /\ NamesWithin(g, u, F) /\ (u # idx /\ Occurs(win, u, n) # 0 => v \in F)
    BY <1>7, <1>9, <1>10, <2>1
  <2>3. Ample => Cardinality(F) <= MAX_EDGES_PER_NODE
    BY <2>1
  <2> HIDE DEF X, Ample, v, n
  <2> QED BY <1>2, <2>2, <2>3, RunRoom
<1>12. /\ u = idx => e = s
       /\ u # idx /\ d = v => e <= s + p
       /\ u # idx /\ d # v => e <= s
       /\ u # idx /\ Ample /\ d = v => e = Smaller(s + p, MAX_WEIGHT)
       /\ u # idx /\ Ample /\ d # v => e = s
  <2>1. /\ u = idx => Weight(f, n, u, d) = Weight(f, 0, u, d)
        /\ u # idx /\ d = v => Weight(f, n, u, d) <= Weight(f, 0, u, d) + Occurs(win, u, n)
        /\ u # idx /\ d # v => Weight(f, n, u, d) <= Weight(f, 0, u, d)
        /\ u # idx /\ Roomy(f, win, n, u, v) /\ d = v =>
             Weight(f, n, u, d) = Smaller(Weight(f, 0, u, d) + Occurs(win, u, n), MAX_WEIGHT)
        /\ u # idx /\ Roomy(f, win, n, u, v) /\ d # v => Weight(f, n, u, d) = Weight(f, 0, u, d)
    <3> HIDE DEF X, v, n
    <3> QED BY <1>2, RunWeights
  <2> HIDE DEF X, v, n, e, s, Ample
  <2> QED BY <1>4, <1>11, <2>1
<1>13. /\ s <= k
       /\ (Ample /\ (c < DECAY_INTERVAL \/ k < DECAY_DIV) /\ k <= MAX_WEIGHT) => s = k
  <2>1. Weighs(g, c, u, d)
    OBVIOUS
  <2> QED BY <1>8, <2>1 DEF Weighs
<1> HIDE DEF v, k, k2, s, e, p, Ample, X
<1>14. e <= k2
  BY <1>1, <1>5, <1>6, <1>12, <1>13
<1>15. ASSUME Ample, c < DECAY_INTERVAL \/ k2 < DECAY_DIV, k2 <= MAX_WEIGHT PROVE e = k2
  <2>1. k <= k2 /\ k <= MAX_WEIGHT
    BY <1>1, <1>5, <1>15
  <2>2. c < DECAY_INTERVAL \/ k < DECAY_DIV
    BY <1>1, <1>5, <1>15, <2>1
  <2>3. s = k
    BY <1>13, <1>15, <2>1, <2>2
  <2> QED BY <1>1, <1>5, <1>6, <1>12, <1>15, <2>3 DEF Smaller
<1> QED BY <1>14, <1>15 DEF Weighs, e, k2, Ample

LEMMA RecordGraph ==
  ASSUME PluginOk, WindowOk, NEW o \in Objs, NEW g \in TidyGraphs(Nodes, Dsts), NEW t, NEW c,
         Record(g, t, o), access_count' = c, \A u \in Nodes, d \in Dsts : Weighs(g, c, u, d)
  PROVE  GraphOk'
<1>1. PICK idx \in Nodes : idx = page_idx(o)
  BY PluginTypes
<1>2. /\ edges' = update_graph(g, idx) /\ hist' = Append(hist, idx) /\ win' = slide_window(idx)
      /\ win \in Seq(Nodes)
  BY <1>1 DEF Record, PluginOk
<1>3. WindowOk'
  BY <1>2, RecordWindow
<1>4. ASSUME NEW u \in Nodes, NEW d \in Dsts PROVE Weighs(edges, access_count, u, d)'
  <2>1. Weighs(edges, c, u, d)'
    BY <1>2, RecordWeighs
  <2> QED BY <2>1 DEF Weighs
<1> QED BY <1>3, <1>4 DEF GraphOk

\* A step that records nothing.
LEMMA QuietGraph ==
  ASSUME PluginOk, GraphOk, UNCHANGED <<win, hist>>,
         \/ edges' = edges /\ access_count' = access_count
         \/ edges' = Decay(edges) /\ access_count' = access_count + 1
  PROVE  GraphOk'
<1>1. WindowOk /\ hist \in Seq(Nodes)
  BY DEF GraphOk, WindowOk
<1>2. WindowOk'
  BY <1>1 DEF WindowOk
<1>3. ASSUME NEW u \in Nodes, NEW d \in Dsts PROVE Weighs(edges, access_count, u, d)'
  <2>1. Pairs(u, d)' = Pairs(u, d)
    BY DEF Pairs
  <2>2. Successors(u)' = Successors(u)
    BY DEF Successors, Pairs
  <2>3. Weighs(edges, access_count, u, d)
    BY DEF GraphOk
  <2>4. CASE edges' = edges /\ access_count' = access_count
    BY <2>1, <2>2, <2>3, <2>4 DEF Weighs
  <2>5. CASE edges' = Decay(edges) /\ access_count' = access_count + 1
    <3>1. Weighs(Decay(edges), access_count + 1, u, d)
      BY <1>1, <2>3, DecayWeighs
    <3> QED BY <2>1, <2>2, <2>5, <3>1 DEF Weighs
  <2> QED BY <2>4, <2>5
<1> QED BY <1>2, <1>3 DEF GraphOk

LEMMA StepGraph == IInv /\ GraphOk /\ [Next]_vars => GraphOk'
<1> SUFFICES ASSUME IInv, GraphOk, [Next]_vars PROVE GraphOk'
  OBVIOUS
<1>0. /\ PluginOk /\ ServingOk /\ WindowOk /\ hist \in Seq(Nodes) /\ edges \in TidyGraphs(Nodes, Dsts)
      /\ \A u \in Nodes, d \in Dsts : Weighs(edges, access_count, u, d)
  BY DEF IInv, GraphOk, WindowOk, PluginOk
<1>1. ASSUME NEW o \in Objs, Hit(o) PROVE GraphOk'
  <2>1. CountRequest
    BY <1>1 DEF Hit
  <2>2. /\ algo = "Tempograph" => access_count' = access_count + 1
        /\ algo # "Tempograph" => access_count' = access_count
    BY <1>0, <2>1, CountRequestOk
  <2>3. CASE algo = "Tempograph"
    <3>1. PICK g, c : g = Decay(edges) /\ c = access_count + 1
      OBVIOUS
    <3>2. Record(g, c, o) /\ access_count' = c
      BY <1>1, <2>2, <2>3, <3>1 DEF Hit
    <3>3. g \in TidyGraphs(Nodes, Dsts)
      BY <1>0, <3>1, DecayBounded
    <3>4. \A u \in Nodes, d \in Dsts : Weighs(g, c, u, d)
      BY <1>0, <3>1, DecayWeighs
    <3> QED BY <1>0, <3>2, <3>3, <3>4, RecordGraph
  <2>4. CASE algo # "Tempograph"
    <3>1. UNCHANGED <<edges, win, mru_time, hist>> /\ access_count' = access_count
      BY <1>1, <2>2, <2>4 DEF Hit
    <3> QED BY <1>0, <3>1, QuietGraph
  <2> QED BY <2>3, <2>4
<1>2. ASSUME NEW o \in Objs, NEW s \in Sizes, Miss(o, s) PROVE GraphOk'
  <2>1. /\ CountRequest /\ edges' = (IF algo = "Tempograph" THEN Decay(edges) ELSE edges)
        /\ UNCHANGED <<win, hist>>
    BY <1>2 DEF Miss
  <2>2. /\ algo = "Tempograph" => access_count' = access_count + 1
        /\ algo # "Tempograph" => access_count' = access_count
    BY <1>0, <2>1, CountRequestOk
  <2>3. \/ edges' = edges /\ access_count' = access_count
        \/ edges' = Decay(edges) /\ access_count' = access_count + 1
    BY <2>1, <2>2
  <2> QED BY <1>0, <2>1, <2>3, QuietGraph
<1>3. CASE Insert
  <2>1. req.id \in Objs /\ access_count' = access_count
    BY <1>0, <1>3 DEF Insert, ServingOk
  <2>2. CASE algo = "Tempograph"
    <3>1. PICK g, c, o : g = edges /\ c = access_count /\ o = req.id
      OBVIOUS
    <3>2. Record(g, c, o) /\ access_count' = c /\ o \in Objs
      BY <1>3, <2>1, <2>2, <3>1 DEF Insert
    <3>3. g \in TidyGraphs(Nodes, Dsts) /\ \A u \in Nodes, d \in Dsts : Weighs(g, c, u, d)
      BY <1>0, <3>1
    <3> QED BY <1>0, <3>2, <3>3, RecordGraph
  <2>3. CASE algo # "Tempograph"
    <3>1. UNCHANGED <<edges, win, mru_time, hist>>
      BY <1>3, <2>3 DEF Insert
    <3> QED BY <1>0, <2>1, <3>1, QuietGraph
  <2> QED BY <2>2, <2>3
<1>4. CASE UNCHANGED plugin
  BY <1>0, <1>4, QuietGraph DEF plugin
<1>5. Next \/ UNCHANGED vars
  OBVIOUS
<1> QED BY <1>1, <1>2, <1>3, <1>4, <1>5
    DEF Next, Serve, RemoveObj, RemoveNothing, BeginEvict, Spare, Evict, vars

\* The weights of Tempograph.c count the accesses that followed a page to any page of the
\* same 16 bits, and claim less only where something was forgotten.
THEOREM CongruentWeights == Spec => []WeightsCountCongruentPairs
<1>1. Init => GraphOk
  <2> SUFFICES ASSUME Init PROVE GraphOk
    OBVIOUS
  <2>1. hist = <<>> /\ win = <<>> /\ edges = [u \in Nodes |-> <<>>]
    BY DEF Init
  <2>2. WindowOk
    BY <2>1, PluginAssumption DEF WindowOk, Smaller
  <2>3. ASSUME NEW u \in Nodes, NEW d \in Dsts PROVE Weighs(edges, access_count, u, d)
    <3>1. adj_weight(edges[u], d) = 0
      BY <2>1 DEF adj_weight
    <3>2. Pairs(u, d) = {}
      BY <2>1 DEF Pairs
    <3> QED BY <3>1, <3>2, FS_EmptySet DEF Weighs
  <2> QED BY <2>2, <2>3 DEF GraphOk
<1>2. IInv /\ GraphOk /\ [Next]_vars => GraphOk'
  BY StepGraph
<1>3. IInv /\ GraphOk => WeightsCountCongruentPairs
  <2> SUFFICES ASSUME IInv, GraphOk, NEW u \in Nodes, NEW d \in Dsts
               PROVE  LET w == adj_weight(edges[u], d) IN
                      /\ w <= Cardinality(Pairs(u, d))
                      /\ w < Cardinality(Pairs(u, d)) => ~Remembered(u, d)
    BY DEF WeightsCountCongruentPairs, Dsts
  <2> DEFINE w == adj_weight(edges[u], d)
             k == Cardinality(Pairs(u, d))
  <2>1. Weighs(edges, access_count, u, d) /\ hist \in Seq(Nodes) /\ edges \in TidyGraphs(Nodes, Dsts)
    BY DEF GraphOk, WindowOk, IInv, PluginOk
  <2>2. w \in Nat /\ k \in Nat
    BY <2>1, EdgeWeight, PairsAreNear
  <2>3. w <= k /\ (Remembered(u, d) => w = k)
    BY <2>1 DEF Weighs, Remembered
  <2> HIDE DEF w, k
  <2>4. w < k => w # k
    BY <2>2
  <2> QED BY <2>3, <2>4 DEF w, k
<1> QED BY <1>1, <1>2, <1>3, Invariance, PTL DEF Spec
===============================================================================
