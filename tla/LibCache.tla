------------------------------- MODULE LibCache -------------------------------
(***************************************************************************)
(* libCacheSim's cache (cache.c) with five of its eviction algorithms:     *)
(* FIFO.c, LRU.c, Clock.c, Sieve.c and the port of TempoGraph,             *)
(* Tempograph.c.  A request of an object that is not cached evicts objects *)
(* until the new one fits and inserts it; the evictions, and the scans of  *)
(* Clock and SIEVE, are taken one turn of their loops at a time.           *)
(***************************************************************************)
EXTENDS ObjList, EdgeLists, Lists, Functions

CONSTANTS
  Algos,               \* the algorithms the cache may be created with
  Sizes,               \* obj_size of a request
  CacheSizes,          \* cache_size
  CLOCK_MAX_FREQ,      \* max_freq of Clock.c
  MAX_UNIQUE_NODES,
  DST_RANGE,           \* 2^16: the values of the uint16_t dst of an edge
  SAMPLE_SIZE, DEFAULT_WINDOW, DECAY_INTERVAL,
  MAX_REQ              \* bound on the requests served by Tempograph.c

ASSUME AlgosAssumption == Algos \subseteq {"FIFO", "LRU", "Clock", "Sieve", "Tempograph"}
ASSUME SizesAssumption == Sizes \subseteq Nat /\ CacheSizes \subseteq Nat
ASSUME ClockAssumption == CLOCK_MAX_FREQ \in Nat \ {0}
ASSUME PluginAssumption ==
  /\ MAX_UNIQUE_NODES \in Nat \ {0} /\ DST_RANGE \in Nat \ {0}
  /\ SAMPLE_SIZE \in Nat \ {0} /\ DEFAULT_WINDOW \in Nat \ {0}
  /\ DECAY_INTERVAL \in Nat \ {0} /\ MAX_REQ \in Nat

Nodes == 0..(MAX_UNIQUE_NODES - 1)
page_idx(o) == o % MAX_UNIQUE_NODES

VARIABLES
  algo, cache_size,    \* chosen when the cache is created
  table,               \* the hash table: cached object -> its size
  occupied_byte, n_obj,
  q,                   \* q_head, q_tail and the objects' links
  freq,                \* clock.freq or sieve.freq of each object
  pointer,             \* SIEVE's hand
  \* Tempograph.c: win is its window, newest index first; access_count and
  \* global_time always agree
  edges, win, mru_time, access_count,
  pc,                  \* "idle", "evicting" (the loop of cache_get_base), "scanning"
  req,                 \* the request being served
  at,                  \* the object the eviction's scan is at
  \* history variables
  candidate,           \* what to_evict answers when an eviction begins
  born, used,          \* the cached objects by insertion and by last use, newest first
  hist                 \* the indices Tempograph.c recorded

contents == <<table, occupied_byte, n_obj>>
plugin   == <<edges, win, mru_time, access_count, hist>>
vars     == <<algo, cache_size, contents, q, freq, pointer, plugin,
              pc, req, at, candidate, born, used>>

Init ==
  /\ algo \in Algos /\ cache_size \in CacheSizes
  /\ table = <<>> /\ occupied_byte = 0 /\ n_obj = 0
  /\ q = EmptyList /\ freq = [o \in Objs |-> 0] /\ pointer = NULL
  /\ edges = [u \in Nodes |-> <<>>] /\ win = <<>>
  /\ mru_time = [u \in Nodes |-> 0] /\ access_count = 0
  /\ pc = "idle" /\ req = [id |-> NULL, size |-> 0] /\ at = NULL
  /\ candidate = NULL /\ born = <<>> /\ used = <<>> /\ hist = <<>>

Cached(o) == o \in DOMAIN table

-------------------------------------------------------------------------------
(* The graph of Tempograph.c.                                              *)

\* dst is stored and compared in 16 bits.
Dst(v) == v % DST_RANGE

Decay(g) ==
  IF (access_count + 1) % DECAY_INTERVAL = 0 THEN [u \in Nodes |-> DecayList(g[u])] ELSE g

\* Mutant of update_graph: the self edge is recognised by its 16 bits.
update_graph_narrow(g, idx) ==
  LET after[i \in 0..Len(win)] ==
        IF i = 0 THEN g
        ELSE IF Dst(win[i]) = Dst(idx) THEN after[i - 1]
        ELSE [after[i - 1] EXCEPT ![win[i]] = adj_inc(@, Dst(idx))]
  IN after[Len(win)]

update_graph(g, idx) ==
  LET after[i \in 0..Len(win)] ==
        IF i = 0 THEN g
        ELSE IF win[i] = idx THEN after[i - 1]
        ELSE [after[i - 1] EXCEPT ![win[i]] = adj_inc(@, Dst(idx))]
  IN after[Len(win)]

slide_window(idx) == Prefix(PushFront(win, idx), DEFAULT_WINDOW)

score_page(idx) ==
  FoldFunction(+, 0, [i \in DOMAIN win |-> adj_weight(edges[win[i]], Dst(idx))])

\* An access of a cached or newly inserted object, over the graph g at time t.
Record(g, t, o) ==
  /\ edges' = update_graph(g, page_idx(o))
  /\ mru_time' = [mru_time EXCEPT ![page_idx(o)] = t]
  /\ win' = slide_window(page_idx(o))
  /\ hist' = Append(hist, page_idx(o))

-------------------------------------------------------------------------------
(* to_evict: the object an eviction would remove.                          *)

\* The first object of s for which no other is better.
FirstBest(s, Better(_, _)) ==
  s[CHOOSE i \in DOMAIN s :
      /\ \A j \in DOMAIN s : ~Better(s[j], s[i])
      /\ \A j \in 1..(i - 1) : \E k \in DOMAIN s : Better(s[k], s[j])]

Lowest(s) == FirstBest(s, LAMBDA a, b : freq[a] < freq[b])

\* SIEVE: from the hand to the head, then from the tail again; the objects before the
\* hand are met twice, which changes nothing.
HandFrom == IF pointer = NULL THEN q.tail ELSE pointer

to_evict ==
  CASE algo \in {"FIFO", "LRU"} -> q.tail
    [] algo = "Clock" -> Lowest(TowardsHead(q, q.tail))
    [] algo = "Sieve" -> Lowest(TowardsHead(q, HandFrom) \o TowardsHead(q, q.tail))
    [] algo = "Tempograph" ->
         FirstBest(Prefix(TowardsHead(q, q.tail), SAMPLE_SIZE),
           LAMBDA a, b :
             \/ score_page(page_idx(a)) < score_page(page_idx(b))
             \/ /\ score_page(page_idx(a)) = score_page(page_idx(b))
                /\ mru_time[page_idx(a)] > mru_time[page_idx(b)])

-------------------------------------------------------------------------------
(* cache->get.                                                             *)

\* Mutant of Promoted: a hit does not reorder the queue of LRU.
PromotedTempographOnly(o) == IF algo = "Tempograph" THEN move_obj_to_head(q, o) ELSE q
Promoted(o) == IF algo \in {"LRU", "Tempograph"} THEN move_obj_to_head(q, o) ELSE q

Touched(o) ==
  CASE algo = "Sieve" -> [freq EXCEPT ![o] = 1]
    [] algo = "Clock" -> [freq EXCEPT ![o] = IF @ < CLOCK_MAX_FREQ THEN @ + 1 ELSE @]
    [] OTHER          -> freq

\* What Tempograph_get does before anything else.
Counting     == algo = "Tempograph" => access_count < MAX_REQ
CountRequest == access_count' = IF algo = "Tempograph" THEN access_count + 1 ELSE access_count

Hit(o) ==
  /\ pc = "idle" /\ Cached(o) /\ Counting /\ CountRequest
  /\ q' = Promoted(o) /\ freq' = Touched(o)
  /\ IF algo = "Tempograph" THEN Record(Decay(edges), access_count + 1, o)
                            ELSE UNCHANGED <<edges, win, mru_time, hist>>
  /\ used' = Used(used, o)
  /\ UNCHANGED <<algo, cache_size, contents, pointer, pc, req, at, candidate, born>>

\* A miss: the request is refused when the object can never fit, else served.
Miss(o, s) ==
  /\ pc = "idle" /\ ~Cached(o) /\ Counting /\ CountRequest
  /\ edges' = IF algo = "Tempograph" THEN Decay(edges) ELSE edges
  /\ IF s > cache_size THEN UNCHANGED <<pc, req>>
                       ELSE pc' = "evicting" /\ req' = [id |-> o, size |-> s]
  /\ UNCHANGED <<algo, cache_size, contents, q, freq, pointer, win, mru_time, at,
                 candidate, born, used, hist>>

Fits == occupied_byte + req.size <= cache_size

Insert ==
  /\ pc = "evicting" /\ Fits
  /\ table' = [o \in DOMAIN table \cup {req.id} |-> IF o = req.id THEN req.size ELSE table[o]]
  /\ occupied_byte' = occupied_byte + req.size /\ n_obj' = n_obj + 1
  /\ q' = prepend_obj_to_head(q, req.id)
  /\ freq' = [freq EXCEPT ![req.id] = 0]
  /\ IF algo = "Tempograph" THEN Record(edges, access_count, req.id)
                            ELSE UNCHANGED <<edges, win, mru_time, hist>>
  /\ born' = Used(born, req.id) /\ used' = Used(used, req.id)
  /\ pc' = "idle" /\ req' = [id |-> NULL, size |-> 0]
  /\ UNCHANGED <<algo, cache_size, pointer, access_count, at, candidate>>

\* cache->evict is entered.
BeginEvict ==
  /\ pc = "evicting" /\ ~Fits
  /\ candidate' = to_evict
  /\ at' = CASE algo = "Sieve"      -> HandFrom
             [] algo = "Tempograph" -> to_evict
             [] OTHER               -> q.tail
  /\ pc' = "scanning"
  /\ UNCHANGED <<algo, cache_size, contents, q, freq, pointer, plugin, req, born, used>>

Spares == algo \in {"Clock", "Sieve"} /\ freq[at] >= 1

\* Mutants of Worn: the object keeps its frequency; it loses it at once.
WornNever(o) == freq
WornOut(o) == [freq EXCEPT ![o] = 0]
Worn(o) == [freq EXCEPT ![o] = @ - 1]

\* One turn of the scan of Clock or SIEVE.
Spare ==
  /\ pc = "scanning" /\ Spares
  /\ freq' = Worn(at)
  /\ q' = IF algo = "Clock" THEN move_obj_to_head(q, at) ELSE q
  /\ at' = IF algo = "Sieve" /\ q.prev[at] # NULL THEN q.prev[at] ELSE q'.tail
  /\ UNCHANGED <<algo, cache_size, contents, pointer, plugin, pc, req, candidate, born, used>>

\* cache_remove_obj_base; the object is freed.
Discard(o) ==
  /\ table' = [x \in DOMAIN table \ {o} |-> table[x]]
  /\ occupied_byte' = occupied_byte - table[o] /\ n_obj' = n_obj - 1
  /\ freq' = [freq EXCEPT ![o] = 0]
  /\ born' = Remove(born, o) /\ used' = Remove(used, o)

Evict ==
  /\ pc = "scanning" /\ ~Spares
  /\ q' = IF algo \in {"FIFO", "LRU"} THEN CutTail(q) ELSE remove_obj_from_list(q, at)
  /\ pointer' = IF algo = "Sieve" THEN q.prev[at] ELSE pointer
  /\ Discard(at)
  /\ pc' = "evicting" /\ at' = NULL /\ candidate' = NULL
  /\ UNCHANGED <<algo, cache_size, plugin, req>>

-------------------------------------------------------------------------------
(* cache->remove.                                                          *)

\* Mutant of PointerPast: SIEVE's hand is left on the object removed.
PointerLeft(o) == pointer
PointerPast(o) == IF algo = "Sieve" /\ o = pointer THEN q.prev[o] ELSE pointer

RemoveObj(o) ==
  /\ pc = "idle" /\ Cached(o)
  /\ pointer' = PointerPast(o)
  /\ q' = remove_obj_from_list(q, o)
  /\ Discard(o)
  /\ UNCHANGED <<algo, cache_size, plugin, pc, req, at, candidate>>

\* An object that is not cached is not removed.
RemoveNothing(o) == pc = "idle" /\ ~Cached(o) /\ UNCHANGED vars

Serve == Insert \/ BeginEvict \/ Spare \/ Evict

Next ==
  \/ \E o \in Objs : Hit(o) \/ RemoveObj(o) \/ RemoveNothing(o) \/ \E s \in Sizes : Miss(o, s)
  \/ Serve

\* A request once begun is served to its end: the cache runs in one thread.
Spec == Init /\ [][Next]_vars /\ WF_vars(Serve)
-------------------------------------------------------------------------------

Queue == TowardsTail(q, q.head)

\* The queue is one list whichever end it is read from, and the queue, the hash table
\* and the counters agree on what is cached (Sieve_verify, Sieve.c:268-282); it fits in
\* the cache, and SIEVE's hand is on a cached object, not on one that was freed.
QueueMatchesTable ==
  /\ TowardsHead(q, q.tail) = Backwards(Queue)
  /\ Members(Queue) = DOMAIN table
  /\ n_obj = Len(Queue)
  /\ occupied_byte = FoldFunction(+, 0, table)
  /\ occupied_byte <= cache_size
  /\ pointer = NULL \/ Cached(pointer)

\* What the order of the queue means: FIFO.c and Sieve.c never move an object, LRU.c and
\* Tempograph.c keep the last use first, whatever is removed or evicted in between.
QueueInOrder ==
  /\ algo \in {"FIFO", "Sieve"} => Queue = born
  /\ algo \in {"LRU", "Tempograph"} => Queue = used

\* to_evict foretells evict: the scan of Clock_to_evict and Sieve_to_evict, which wears
\* nothing down, ends at the object the scan of Clock_evict and Sieve_evict ends at.
EvictsTheCandidate ==
  [][pc = "scanning" => DOMAIN table \ DOMAIN table' \subseteq {candidate}]_vars

\* Every request is served: neither the loop of cache_get_base (cache.c:241-245) nor the
\* scans inside it run for ever, whatever the sizes and frequencies.
RequestsServed == pc # "idle" ~> pc = "idle"

Pairs(u, d) == {p \in (DOMAIN hist) \X (DOMAIN hist) :
                  /\ p[1] < p[2] /\ p[2] <= p[1] + DEFAULT_WINDOW
                  /\ hist[p[1]] = u /\ hist[p[2]] # u /\ Dst(hist[p[2]]) = d}

\* The 16-bit destinations of the accesses that followed u.
Successors(u) == {d \in 0..(DST_RANGE - 1) : Pairs(u, d) # {}}

\* Nothing of what followed u is forgotten: its list has room for every destination, no
\* sweep has weakened the edge to d, the count fits its weight.
Remembered(u, d) ==
  /\ Cardinality(Successors(u)) <= MAX_EDGES_PER_NODE
  /\ access_count < DECAY_INTERVAL \/ Cardinality(Pairs(u, d)) < DECAY_DIV
  /\ Cardinality(Pairs(u, d)) <= MAX_WEIGHT

\* The weight of an edge of Tempograph.c counts the accesses that followed its source
\* to any page of the same 16 bits (Tempograph.c:42,48,65), removed, evicted and refused
\* objects notwithstanding; it claims less only where something was forgotten.
WeightsCountCongruentPairs ==
  \A u \in Nodes, d \in 0..(DST_RANGE - 1) :
    LET w == adj_weight(edges[u], d) IN
    /\ w <= Cardinality(Pairs(u, d))
    /\ w < Cardinality(Pairs(u, d)) => ~Remembered(u, d)
===============================================================================
