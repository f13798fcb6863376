------------------------------ MODULE TempoGraph ------------------------------
(***************************************************************************)
(* The TempoGraph replacement policy (tempograph.c).  The policy keeps a   *)
(* directed weighted graph of which page follows which within a sliding    *)
(* window of accesses, threads the resident frames on a doubly linked      *)
(* recency list, and on a fault with no free frame evicts, among the       *)
(* SAMPLE_SIZE frames at the list's old end, the one the window predicts   *)
(* least.  One action per public entry point: tg_init, tg_reset, and       *)
(* tg_access split by outcome.                                             *)
(***************************************************************************)
EXTENDS Integers, Sequences, FiniteSets, Functions, EdgeLists

CONSTANTS
  Pages,               \* page numbers a trace may hold
  FrameCounts,         \* values of -f
  WindowSizes,         \* values of -w
  MAX_FRAMES, MAX_UNIQUE, SAMPLE_SIZE, MAX_WINDOW, DEFAULT_WINDOW, DECAY_INTERVAL,
  MAX_TRACE            \* bound on the accesses between two tg_init

ASSUME PagesAssumption  == Pages \subseteq Nat
ASSUME FramesAssumption == MAX_FRAMES \in Nat \ {0} /\ FrameCounts \subseteq 1..MAX_FRAMES
ASSUME UniqueAssumption == MAX_UNIQUE \in Nat \ {0}
ASSUME WindowAssumption ==
  /\ MAX_WINDOW \in Nat \ {0}
  /\ DEFAULT_WINDOW \in 1..MAX_WINDOW
  /\ WindowSizes \subseteq Int
ASSUME DecayAssumption  == DECAY_INTERVAL \in Nat \ {0}
ASSUME SampleAssumption == SAMPLE_SIZE \in Nat \ {0}
ASSUME TraceAssumption  == MAX_TRACE \in Nat

EMPTY == -1            \* frames[f] of a free slot
NIL   == -1            \* end of the recency list, or no frame
Slots == 0..(MAX_FRAMES - 1)
Nodes == 0..(MAX_UNIQUE - 1)

VARIABLES
  edges,               \* edges[u]: the out-edges of node u; edge_cnt[u] is its length
  win,                 \* win_buf, win_head, win_size
  W,
  lru,                 \* lru_prev, lru_next, lru_head, lru_tail
  frames, in_frames, frame_of, mru_time,
  cap, size, global_time, access_count,
  hist,                \* history variable: the pages accessed since tg_init
  reply                \* history variable: what the last tg_access returned

pool == <<frames, in_frames, frame_of, mru_time, size>>
vars == <<edges, win, W, lru, pool, cap, global_time, access_count, hist, reply>>

Edge == [dst : Nodes, w : 1..MAX_WEIGHT]

page_idx(page) == page % MAX_UNIQUE

-------------------------------------------------------------------------------
(* The graph: an adjacency list (EdgeLists) for every node.                *)

apply_decay(g) == [u \in Nodes |-> DecayList(g[u])]

-------------------------------------------------------------------------------
(* The sliding window.                                                     *)

\* Mutant of WindowAt: win_head taken for the newest entry.
WindowAtHead(i) == win.buf[(win.head - i + W + W) % W]

\* The i-th most recent page index in the window, i \in 0..win.size - 1.
WindowAt(i) == win.buf[(win.head - 1 - i + W + W) % W]

update_graph(g, idx) ==
  LET after[i \in 0..win.size] ==
        IF i = 0 THEN g
        ELSE IF WindowAt(i - 1) = idx THEN after[i - 1]
        ELSE [after[i - 1] EXCEPT ![WindowAt(i - 1)] = adj_inc(@, idx)]
  IN after[win.size]

\* Mutant of slide_window: the head is not wrapped.
slide_window_nowrap(idx) ==
  [buf  |-> [win.buf EXCEPT ![win.head] = idx],
   head |-> win.head + 1,
   size |-> IF win.size < W THEN win.size + 1 ELSE win.size]

slide_window(idx) ==
  [buf  |-> [win.buf EXCEPT ![win.head] = idx],
   head |-> (win.head + 1) % W,
   size |-> IF win.size < W THEN win.size + 1 ELSE win.size]

score_page(g, idx) ==
  FoldFunction(+, 0, [i \in 0..(win.size - 1) |-> adj_weight(g[WindowAt(i)], idx)])

-------------------------------------------------------------------------------
(* The recency list of occupied frames, most recently used at the head.    *)

\* Mutant of lru_unlink: unlinking the last frame leaves lru_tail on it.
lru_unlink_tail(l, f) ==
  LET p == l.prev[f]
      n == l.next[f]
  IN [next |-> [(IF p # NIL THEN [l.next EXCEPT ![p] = n] ELSE l.next) EXCEPT ![f] = NIL],
      prev |-> [(IF n # NIL THEN [l.prev EXCEPT ![n] = p] ELSE l.prev) EXCEPT ![f] = NIL],
      head |-> IF p # NIL THEN l.head ELSE n,
      tail |-> l.tail]

lru_unlink(l, f) ==
  LET p == l.prev[f]
      n == l.next[f]
  IN [next |-> [(IF p # NIL THEN [l.next EXCEPT ![p] = n] ELSE l.next) EXCEPT ![f] = NIL],
      prev |-> [(IF n # NIL THEN [l.prev EXCEPT ![n] = p] ELSE l.prev) EXCEPT ![f] = NIL],
      head |-> IF p # NIL THEN l.head ELSE n,
      tail |-> IF n # NIL THEN l.tail ELSE p]

lru_push_head(l, f) ==
  [prev |-> IF l.head # NIL THEN [l.prev EXCEPT ![f] = NIL, ![l.head] = f]
                            ELSE [l.prev EXCEPT ![f] = NIL],
   next |-> [l.next EXCEPT ![f] = l.head],
   head |-> f,
   tail |-> IF l.tail = NIL THEN f ELSE l.tail]

lru_touch(l, f) == IF l.head = f THEN l ELSE lru_push_head(lru_unlink(l, f), f)

-------------------------------------------------------------------------------
(* choose_victim.                                                          *)

\* The walk from lru_tail towards the head, SAMPLE_SIZE steps at most.
Walk ==
  LET at[k \in 0..(SAMPLE_SIZE - 1)] ==
        IF k = 0 THEN lru.tail
        ELSE IF at[k - 1] = NIL THEN NIL ELSE lru.prev[at[k - 1]]
  IN at

Sampled == {f \in Slots : \E k \in 0..(SAMPLE_SIZE - 1) : Walk[k] = f}

\* Mutant of Beats: ties go to the least recently used frame.
BeatsLru(score, f, e) ==
  score[f] < score[e] \/ (score[f] = score[e] /\ mru_time[f] < mru_time[e])

\* Frame f beats frame e when its score is lower, or equal with a later stamp.
Beats(score, f, e) ==
  score[f] < score[e] \/ (score[f] = score[e] /\ mru_time[f] > mru_time[e])

BestSampled(g) ==
  LET score == [f \in Sampled |-> score_page(g, page_idx(frames[f]))]
  IN {f \in Sampled : \A e \in Sampled : ~Beats(score, e, f)}

\* Mutant of FreeSlots: the last free slot is not used.
FreeSlotsButLast ==
  IF size + 1 < cap THEN {f \in 0..(cap - 1) : frames[f] = EMPTY} ELSE {}

\* A free slot is taken only while size < cap, the first one first.
FreeSlots == IF size < cap THEN {f \in 0..(cap - 1) : frames[f] = EMPTY} ELSE {}

choose_victim(g) ==
  IF FreeSlots # {} THEN CHOOSE f \in FreeSlots : \A e \in FreeSlots : f <= e
  ELSE IF BestSampled(g) # {} THEN CHOOSE f \in BestSampled(g) : TRUE
  ELSE lru.tail

-------------------------------------------------------------------------------
(* The public entry points.                                                *)

\* Static storage before the first tg_init.
Init ==
  /\ edges = [u \in Nodes |-> <<>>]
  /\ win = [buf |-> [i \in 0..(MAX_WINDOW - 1) |-> 0], head |-> 0, size |-> 0]
  /\ W = DEFAULT_WINDOW
  /\ lru = [prev |-> [f \in Slots |-> 0], next |-> [f \in Slots |-> 0],
            head |-> NIL, tail |-> NIL]
  /\ frames = [f \in Slots |-> 0]
  /\ in_frames = [u \in Nodes |-> FALSE]
  /\ frame_of = [u \in Nodes |-> 0]
  /\ mru_time = [f \in Slots |-> 0]
  /\ cap = 0 /\ size = 0 /\ global_time = 0 /\ access_count = 0
  /\ hist = <<>> /\ reply = "none"

\* tg_reset, all but the two variables tg_init sets afterwards.
ResetState ==
  /\ edges' = [u \in Nodes |-> <<>>]
  /\ win' = [buf |-> [i \in 0..(MAX_WINDOW - 1) |-> 0], head |-> 0, size |-> 0]
  /\ lru' = [prev |-> [f \in Slots |-> NIL], next |-> [f \in Slots |-> NIL],
             head |-> NIL, tail |-> NIL]
  /\ frames' = [f \in Slots |-> EMPTY]
  /\ in_frames' = [u \in Nodes |-> FALSE]
  /\ frame_of' = [u \in Nodes |-> NIL]
  /\ mru_time' = [f \in Slots |-> 0]
  /\ size' = 0 /\ global_time' = 0 /\ access_count' = 0
  /\ hist' = <<>> /\ reply' = "none"

TgReset == ResetState /\ cap' = 0 /\ W' = DEFAULT_WINDOW

TgInit(n_frames, window_size) ==
  /\ ResetState
  /\ cap' = n_frames
  /\ W' = IF window_size > 0 /\ window_size <= MAX_WINDOW
          THEN window_size ELSE DEFAULT_WINDOW

\* The graph an access leaves: decay if it is due, then the new edges.
GraphAfter(idx) ==
  update_graph(IF (access_count + 1) % DECAY_INTERVAL = 0 THEN apply_decay(edges) ELSE edges,
               idx)

\* What tg_access does whatever the outcome.
Observe(page) ==
  /\ cap > 0
  /\ access_count < MAX_TRACE
  /\ access_count' = access_count + 1
  /\ global_time' = global_time + 1
  /\ edges' = GraphAfter(page_idx(page))
  /\ win' = slide_window(page_idx(page))
  /\ hist' = Append(hist, page)
  /\ UNCHANGED <<cap, W>>

Hit(page) ==
  LET f == frame_of[page_idx(page)] IN
  /\ in_frames[page_idx(page)]
  /\ Observe(page)
  /\ mru_time' = [mru_time EXCEPT ![f] = global_time + 1]
  /\ lru' = lru_touch(lru, f)
  /\ reply' = "HIT"
  /\ UNCHANGED <<frames, in_frames, frame_of, size>>

\* Mutant of Indexed: the evicted page stays indexed.
IndexedStale(index, old, new, v, idx) == [index EXCEPT ![idx] = new]

\* in_frames and frame_of once slot v has lost its occupant and holds idx.
Indexed(index, old, new, v, idx) ==
  IF frames[v] # EMPTY THEN [index EXCEPT ![page_idx(frames[v])] = old, ![idx] = new]
                       ELSE [index EXCEPT ![idx] = new]

\* The fault path with victim slot v: evict its occupant, load the page.
LoadInto(v, page) ==
  LET idx == page_idx(page) IN
  /\ frames' = [frames EXCEPT ![v] = page]
  /\ in_frames' = Indexed(in_frames, FALSE, TRUE, v, idx)
  /\ frame_of' = Indexed(frame_of, NIL, v, v, idx)
  /\ mru_time' = [mru_time EXCEPT ![v] = global_time + 1]
  /\ size' = IF size < cap THEN size + 1 ELSE size
  /\ lru' = lru_push_head(IF frames[v] # EMPTY THEN lru_unlink(lru, v) ELSE lru, v)
  /\ reply' = "FAULT"

Fault(page) ==
  /\ ~in_frames[page_idx(page)]
  /\ Observe(page)
  /\ LoadInto(choose_victim(GraphAfter(page_idx(page))), page)

Next ==
  \/ \E n \in FrameCounts, w \in WindowSizes : TgInit(n, w)
  \/ \E page \in Pages : Hit(page) \/ Fault(page)
  \/ TgReset

Spec == Init /\ [][Next]_vars

===============================================================================
