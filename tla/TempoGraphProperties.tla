------------------------- MODULE TempoGraphProperties -------------------------
(***************************************************************************)
(* What is required of TempoGraph.  The requirements on the window, the    *)
(* graph and the victim are stated over hist, the sequence of pages        *)
(* accessed since tg_init, and not over the structures the code keeps.     *)
(***************************************************************************)
EXTENDS TempoGraph

\* Types of the C variables, with the ranges the code relies on for indexing.
TypeOk ==
  /\ edges \in [Nodes -> Seq(Edge)]
  /\ W \in 1..MAX_WINDOW
  /\ win \in [buf : [0..(MAX_WINDOW - 1) -> Nodes], head : 0..(W - 1), size : 0..W]
  /\ lru \in [prev : [Slots -> Slots \cup {NIL}], next : [Slots -> Slots \cup {NIL}],
              head : Slots \cup {NIL}, tail : Slots \cup {NIL}]
  /\ frames \in [Slots -> Nat \cup {EMPTY}]
  /\ in_frames \in [Nodes -> BOOLEAN]
  /\ frame_of \in [Nodes -> Slots \cup {NIL}]
  /\ mru_time \in [Slots -> Nat]
  /\ cap \in 0..MAX_FRAMES
  /\ size \in 0..cap
  /\ global_time \in Nat /\ access_count \in Nat
  /\ hist \in Seq(Pages)
  /\ reply \in {"HIT", "FAULT", "none"}

Occupied == {f \in 0..(cap - 1) : frames[f] # EMPTY}

-------------------------------------------------------------------------------
(* Residency: the three indices of the frame pool and its counter agree.   *)

\* A node is marked resident exactly when some frame holds a page with its index,
\* and then frame_of points at that frame; no two frames hold the same index.
IndexMatchesFrames ==
  /\ \A f \in Occupied : in_frames[page_idx(frames[f])] /\ frame_of[page_idx(frames[f])] = f
  /\ \A u \in Nodes : in_frames[u] => /\ frame_of[u] \in Occupied
                                      /\ page_idx(frames[frame_of[u]]) = u

\* size counts the occupied frames, so size < cap exactly when a slot is free.
SizeCountsOccupied == size = Cardinality(Occupied)

\* frames[], in_frames[], frame_of[] and size tell one story after every access
\* (tempograph.c:163-168): a stale frame_of or in_frames would answer HIT for an
\* evicted page or hand a frame to two pages.
ResidencyAgrees == IndexMatchesFrames /\ SizeCountsOccupied

-------------------------------------------------------------------------------
(* The recency list.                                                       *)

\* f is the frame of S with the latest (earliest) stamp in t, NIL when S is empty.
IsNewestOf(f, S, t) == IF S = {} THEN f = NIL ELSE f \in S /\ \A g \in S : t[g] <= t[f]
IsOldestOf(f, S, t) == IF S = {} THEN f = NIL ELSE f \in S /\ \A g \in S : t[f] <= t[g]

\* The pointers of l thread exactly the frames of S, in decreasing order of t.
Threads(l, S, t) ==
  /\ IsNewestOf(l.head, S, t)
  /\ IsOldestOf(l.tail, S, t)
  /\ \A f \in S : /\ IsNewestOf(l.next[f], {g \in S : t[g] < t[f]}, t)
                  /\ IsOldestOf(l.prev[f], {g \in S : t[g] > t[f]}, t)
  /\ \A f, g \in S : t[f] = t[g] => f = g

\* The list holds the occupied frames in order of last use, none used at the same
\* time or in the future (tempograph.c:122-161): lru_next[f] is the newest of the
\* frames older than f, lru_prev[f] the oldest of the newer ones.
ListIsRecencyOrder ==
  /\ Threads(lru, Occupied, mru_time)
  /\ \A f \in Occupied : mru_time[f] <= global_time

-------------------------------------------------------------------------------
(* The window and the graph, against the history.                          *)

HistIdx(i) == page_idx(hist[i])
MinOf(a, b) == IF a < b THEN a ELSE b
LastUse(u) == IF \E i \in DOMAIN hist : HistIdx(i) = u
              THEN CHOOSE i \in DOMAIN hist :
                     HistIdx(i) = u /\ \A j \in (i + 1)..Len(hist) : HistIdx(j) # u
              ELSE 0

\* The circular buffer holds the last W page indices, newest first when read the
\* way update_graph and score_page read it (tempograph.c:206-218).
WindowIsHistory ==
  /\ win.size = MinOf(W, Len(hist))
  /\ \A i \in 0..(win.size - 1) : WindowAt(i) = HistIdx(Len(hist) - i)

\* How often v was accessed within W accesses after u (tempograph.h:6-7).
Following(u, v) == {p \in (DOMAIN hist) \X (DOMAIN hist) :
                      /\ p[1] < p[2] /\ p[2] <= p[1] + W
                      /\ HistIdx(p[1]) = u /\ HistIdx(p[2]) = v}
PairCount(u, v) == IF u = v THEN 0 ELSE Cardinality(Following(u, v))

\* The pages that were accessed within W accesses after u.
Followers(u) == {v \in Nodes : PairCount(u, v) > 0}

\* Nothing of what followed u is forgotten: its list has room for every follower, no
\* sweep has weakened the edge to v, the count fits its weight.
Remembered(u, v) ==
  /\ Cardinality(Followers(u)) <= MAX_EDGES_PER_NODE
  /\ access_count < DECAY_INTERVAL \/ PairCount(u, v) < DECAY_DIV
  /\ PairCount(u, v) <= MAX_WEIGHT

\* An edge never claims more than the history shows, and claims less only where
\* something was forgotten (tempograph.c:64-92, 97-113).
WeightsCountPairs ==
  \A u, v \in Nodes :
    LET w == adj_weight(edges[u], v) IN
    /\ w <= PairCount(u, v)
    /\ w < PairCount(u, v) => ~Remembered(u, v)

\* Lists stay within MAX_EDGES_PER_NODE, name each destination once, hold no self
\* edge (update_graph runs before slide_window, tempograph.c:203-204) and no dead one.
WellFormedList(list, u) ==
  /\ Len(list) <= MAX_EDGES_PER_NODE
  /\ \A i, j \in DOMAIN list : list[i].dst = list[j].dst => i = j
  /\ \A i \in DOMAIN list : list[i].dst # u /\ list[i].w \in 1..MAX_WEIGHT

GraphWellFormed == \A u \in Nodes : WellFormedList(edges[u], u)

Dsts(list) == {list[i].dst : i \in DOMAIN list}
Reconfigured == hist' = <<>>

\* An access forgets an edge only by overflow (tempograph.c:48-51, 83-88): one edge of
\* a full list, of the lowest weight, for an edge to the accessed page.  The decay
\* sweep never removes one.
EdgesLeaveOnlyByOverflow ==
  [][\A u \in Nodes :
       LET lost == Dsts(edges[u]) \ Dsts(edges'[u]) IN
       lost # {} /\ ~Reconfigured =>
         /\ Len(edges[u]) = MAX_EDGES_PER_NODE
         /\ Cardinality(lost) = 1
         /\ \A x \in lost : \A y \in Dsts(edges[u]) :
              adj_weight(apply_decay(edges)[u], x) <= adj_weight(apply_decay(edges)[u], y)
         /\ Dsts(edges'[u]) \ Dsts(edges[u]) = {page_idx(hist'[Len(hist')])}]_vars

-------------------------------------------------------------------------------
(* The victim.                                                             *)

Resident == {page_idx(frames[f]) : f \in Occupied}

\* The window-inward score of u, from the history alone (tempograph.c:220-227).
WindowStart == Len(hist) - MinOf(W, Len(hist)) + 1
HistScore(u) ==
  Cardinality({p \in (WindowStart..Len(hist)) \X ((DOMAIN hist) \X (DOMAIN hist)) :
                 HistIdx(p[1]) # u /\ p[2] \in Following(HistIdx(p[1]), u)})

\* A frame is sampled when fewer than SAMPLE_SIZE residents were used before it.
SampledBy(u) == Cardinality({x \in Resident : LastUse(x) < LastUse(u)}) < SAMPLE_SIZE

\* The evicted page is one of the SAMPLE_SIZE least recently used residents, none of
\* which follows the window's pages less often, nor equally often and was used more
\* recently (tempograph.c:237-283), as long as the graph remembers the history in full.
EvictsBestSampled ==
  [][\A u \in Resident \ Resident' :
       ~Reconfigured /\ (\A x, v \in Nodes : Remembered(x, v)') =>
         /\ size = cap
         /\ SampledBy(u)
         /\ \A x \in Resident : SampledBy(x) =>
              \/ HistScore(u) < HistScore(x)
              \/ HistScore(u) = HistScore(x) /\ LastUse(u) >= LastUse(x)]_vars

\* TempoGraph implements demand paging of page indices.
Paging == INSTANCE DemandPaging WITH
  PageIds    <- Nodes,
  Capacities <- FrameCounts,
  NoPage     <- "none",
  resident   <- {u \in Nodes : in_frames[u]},
  capacity   <- cap,
  last       <- IF hist = <<>> THEN "none" ELSE page_idx(hist[Len(hist)])

RefinesDemandPaging == Paging!Spec

-------------------------------------------------------------------------------
(* What the documentation says and the code does not do.                   *)

\* A HIT means the accessed page is in a frame (common.h:40-42).  A trace holds any page
\* numbers (main.c:17-21, whose example has 7831): MAX_UNIQUE is said to bound the number
\* of distinct page indices (common.h:23), not the page numbers.
HitMeansPageResident ==
  reply = "HIT" => \E f \in Occupied : frames[f] = hist[Len(hist)]

\* The page evicted has the lowest sum of weights towards the resident pages: the rule of
\* tempograph.h:9-11.
HeaderScore(g, u) == FoldFunction(+, 0, [q \in Resident |-> adj_weight(g[u], q)])
EvictsLowestHeaderScore ==
  [][\A u \in Resident \ Resident' :
       ~Reconfigured =>
         \A x \in Resident : HeaderScore(edges', u) <= HeaderScore(edges', x)]_vars

\* A sweep weakens every edge it visits (tempograph.c:99, weight x 0.984).
SweepDue == (access_count + 1) % DECAY_INTERVAL = 0
SweepWeakensEdges ==
  [][SweepDue /\ ~Reconfigured =>
       \A u \in Nodes : \A v \in Dsts(edges[u]) :
         adj_weight(apply_decay(edges)[u], v) < adj_weight(edges[u], v)]_vars
===============================================================================
