--------------------------------- MODULE Lru ---------------------------------
(***************************************************************************)
(* The LRU policy (lru.c): a linked list of nodes in order of last use and *)
(* a hash map from pages to nodes.  A node goes by its page, of which      *)
(* there is one node at a time.  One action per entry point, lru_access    *)
(* split by outcome.                                                       *)
(***************************************************************************)
EXTENDS Lists, LinkedList

CONSTANTS Pages, FrameCounts

ASSUME FramesAssumption == FrameCounts \subseteq Nat \ {0}
ASSUME PagesAssumption  == NULL \notin Pages

VARIABLES
  links,       \* head, tail, and prev and next of the nodes
  hmap,        \* the pages that have an entry in the hash map
  size, capacity,
  recency,     \* history variable: all pages used since lru_init, last used first
  reply        \* history variable: what the last lru_access returned

vars == <<links, hmap, size, capacity, recency, reply>>

Init ==
  /\ links = Unlinked(Pages) /\ hmap = {} /\ size = 0 /\ capacity = 0
  /\ recency = <<>> /\ reply = "none"

ResetState ==
  /\ links' = Unlinked(Pages) /\ hmap' = {} /\ size' = 0
  /\ recency' = <<>> /\ reply' = "none"
LruReset == ResetState /\ capacity' = 0
LruInit(n_frames) == ResetState /\ capacity' = n_frames

\* Mutant of Promote: the node keeps its place.
PromoteNot(page) == links
Promote(page) == list_push_front(list_remove(links, page), page)

Hit(page) ==
  /\ page \in hmap
  /\ links' = Promote(page)
  /\ recency' = Used(recency, page) /\ reply' = "HIT"
  /\ UNCHANGED <<hmap, size, capacity>>

\* No frame is free.
Full == size = capacity

LoadFree(page) ==
  /\ page \notin hmap /\ ~Full
  /\ links' = list_push_front(links, page)
  /\ hmap' = hmap \cup {page}
  /\ size' = size + 1
  /\ recency' = Used(recency, page) /\ reply' = "FAULT"
  /\ UNCHANGED capacity

\* Mutant of MapAfterEvict: hm_del is not called.
MapWithoutDelete(page) == hmap \cup {page}
MapAfterEvict(page) == (hmap \ {links.tail}) \cup {page}

LoadEvict(page) ==
  /\ page \notin hmap /\ Full
  /\ links' = list_push_front(list_remove(links, links.tail), page)
  /\ hmap' = MapAfterEvict(page)
  /\ size' = (size - 1) + 1
  /\ recency' = Used(recency, page) /\ reply' = "FAULT"
  /\ UNCHANGED capacity

Next ==
  \/ \E n \in FrameCounts : LruInit(n)
  \/ LruReset
  \/ \E page \in Pages : capacity > 0 /\ (Hit(page) \/ LoadFree(page) \/ LoadEvict(page))

Spec == Init /\ [][Next]_vars

-------------------------------------------------------------------------------

\* The pages of the nodes from head to tail, and from tail to head.
list == WalkFrom(links.next, links.head, size)
listFromTail == WalkFrom(links.prev, links.tail, size)

\* Types, with size never above the capacity.
TypeOk ==
  /\ list \in Seq(Pages) /\ hmap \subseteq Pages
  /\ capacity \in FrameCounts \cup {0} /\ size \in 0..capacity
  /\ recency \in Seq(Pages) /\ reply \in {"HIT", "FAULT", "none"}

\* The links make one list whichever end it is read from (lru.c:53-66): the tail, which
\* is only read to evict, is the page a walk from the head meets last.  The hash map and
\* the list hold the same pages, each once, and size counts them: an entry left behind
\* would answer HIT with a freed node (lru.c:86-101).
MapMatchesList ==
  /\ listFromTail = Backwards(list)
  /\ hmap = Members(list) /\ Distinct(list)
  /\ size = Len(list)

\* The list is the most recently used pages of the whole trace, newest first: as many
\* as were seen, up to the capacity.  Hence LRU's inclusion property, and a hit exactly
\* when fewer than capacity distinct pages were used since the page's last use.
ListIsRecentPrefix == list = Prefix(recency, capacity)

\* LRU implements demand paging.
Paging == INSTANCE DemandPaging WITH
  PageIds    <- Pages,
  Capacities <- FrameCounts,
  NoPage     <- "none",
  resident   <- hmap,
  last       <- IF recency = <<>> THEN "none" ELSE recency[1]

RefinesDemandPaging == Paging!Spec
===============================================================================
