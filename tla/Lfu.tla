--------------------------------- MODULE Lfu ---------------------------------
(***************************************************************************)
(* The LFU policy (lfu.c): an array of slots, each with a page, the count  *)
(* of its accesses and the time of the last.  One action per entry point,  *)
(* lfu_access split by outcome.                                            *)
(***************************************************************************)
EXTENDS FrameArray, Sequences, FiniteSets

CONSTANT MAX_TRACE    \* bound on the accesses between two lfu_init

ASSUME TraceAssumption == MAX_TRACE \in Nat

VARIABLES
  slots, cap, size, lfu_clock,
  hist         \* history variable: the accesses since lfu_init and their outcomes

vars == <<slots, cap, size, lfu_clock, hist>>

EmptySlot == [page |-> EMPTY, freq |-> 0, last_time |-> 0]

\* Static storage before the first lfu_init.
Init ==
  /\ slots = [i \in Slots |-> [EmptySlot EXCEPT !.page = 0]]
  /\ cap = 0 /\ size = 0 /\ lfu_clock = 0
  /\ hist = <<>>

ResetState ==
  /\ slots' = [i \in Slots |-> EmptySlot]
  /\ size' = 0 /\ lfu_clock' = 0
  /\ hist' = <<>>
LfuReset == ResetState /\ cap' = 0
LfuInit(n_frames) == ResetState /\ cap' = n_frames

InUse == 0..(cap - 1)

\* Mutant of SlotsOf: the search stops one slot short.
SlotsOfButLast(page) == {i \in 0..(cap - 2) : slots[i].page = page}
SlotsOf(page) == {i \in InUse : slots[i].page = page}

Observe(page, outcome) ==
  /\ lfu_clock < MAX_TRACE
  /\ lfu_clock' = lfu_clock + 1
  /\ hist' = Append(hist, [page |-> page, outcome |-> outcome])
  /\ UNCHANGED cap

\* Mutant of Touched: the time of last access stays that of the load.
TouchedOnce(slot) == [slot EXCEPT !.freq = @ + 1]
Touched(slot) == [slot EXCEPT !.freq = @ + 1, !.last_time = lfu_clock + 1]

Hit(page) ==
  /\ SlotsOf(page) # {}
  /\ slots' = [slots EXCEPT ![CHOOSE i \in SlotsOf(page) : \A j \in SlotsOf(page) : i <= j] =
                 Touched(@)]
  /\ Observe(page, "HIT")
  /\ UNCHANGED size

Load(victim, page) ==
  slots' = [slots EXCEPT ![victim] = [page |-> page, freq |-> 1, last_time |-> lfu_clock + 1]]

\* Mutant of FirstFree: the last empty slot is taken.
LastFree(i) == slots[i].page = EMPTY /\ \A j \in (i + 1)..(cap - 1) : slots[j].page # EMPTY
FirstFree(i) == slots[i].page = EMPTY /\ \A j \in 0..(i - 1) : slots[j].page # EMPTY

LoadFree(page) ==
  /\ SlotsOf(page) = {} /\ size < cap
  /\ \E i \in InUse : FirstFree(i) /\ Load(i, page)
  /\ size' = size + 1
  /\ Observe(page, "FAULT")

\* Mutant of Better: ties go to the most recently used slot.
BetterMru(i, j) ==
  \/ slots[i].freq < slots[j].freq
  \/ slots[i].freq = slots[j].freq /\ slots[i].last_time > slots[j].last_time
\* Slot i replaces slot j as the candidate for eviction.
Better(i, j) ==
  \/ slots[i].freq < slots[j].freq
  \/ slots[i].freq = slots[j].freq /\ slots[i].last_time < slots[j].last_time

LoadEvict(page) ==
  /\ cap > 0 /\ SlotsOf(page) = {} /\ ~(size < cap)
  /\ \E i \in InUse :
       /\ \A j \in InUse : ~Better(j, i) /\ (j < i => Better(i, j))
       /\ Load(i, page)
  /\ Observe(page, "FAULT")
  /\ UNCHANGED size

Next ==
  \/ \E m \in FrameCounts : LfuInit(m)
  \/ LfuReset
  \/ \E page \in Pages : Hit(page) \/ LoadFree(page) \/ LoadEvict(page)

Spec == Init /\ [][Next]_vars

-------------------------------------------------------------------------------

\* Types of the C variables.
TypeOk ==
  /\ slots \in [Slots -> [page : Pages \cup {EMPTY, 0}, freq : Nat, last_time : Nat]]
  /\ cap \in 0..MAX_FRAMES /\ size \in 0..cap
  /\ lfu_clock \in 0..MAX_TRACE
  /\ hist \in Seq([page : Pages, outcome : {"HIT", "FAULT"}])

\* The occupied slots are the first size ones, and no page is in two of them: size
\* alone decides between the free-slot and the eviction branch (lfu.c:54), and the
\* search for a free slot must then find one (lfu.c:56-58, victim = -1 otherwise).
SlotsAgree ==
  /\ \A i \in InUse : slots[i].page # EMPTY <=> i < size
  /\ \A i, j \in 0..(size - 1) : slots[i].page = slots[j].page => i = j

\* The accesses of page since it was last loaded, as positions in the history.
UsesSinceLoad(page) ==
  {i \in DOMAIN hist :
     /\ hist[i].page = page
     /\ \A j \in (i + 1)..Len(hist) : ~(hist[j].page = page /\ hist[j].outcome = "FAULT")}
LastUse(page) == CHOOSE i \in UsesSinceLoad(page) : \A j \in UsesSinceLoad(page) : j <= i

\* A slot's count and time are those of its page's stay, not of the slot's earlier
\* tenants nor of the page's earlier stays.
CountsAreOfThisStay ==
  \A i \in 0..(size - 1) :
    /\ slots[i].freq = Cardinality(UsesSinceLoad(slots[i].page))
    /\ slots[i].last_time = LastUse(slots[i].page)

Resident == {slots[i].page : i \in 0..(size - 1)}

\* The page evicted was used least often since it was loaded, least recently of those
\* (lfu.c:5-8), all in terms of the trace.
EvictsLeastUsed ==
  [][\A u \in Resident \ Resident' :
       hist' # <<>> =>
         \A x \in Resident \ {u} :
           \/ Cardinality(UsesSinceLoad(u)) < Cardinality(UsesSinceLoad(x))
           \/ /\ Cardinality(UsesSinceLoad(u)) = Cardinality(UsesSinceLoad(x))
              /\ LastUse(u) < LastUse(x)]_vars

\* LFU implements demand paging.
Paging == INSTANCE DemandPaging WITH
  PageIds    <- Pages,
  Capacities <- FrameCounts,
  NoPage     <- "none",
  resident   <- Resident,
  capacity   <- cap,
  last       <- IF hist = <<>> THEN "none" ELSE hist[Len(hist)].page,
  reply      <- IF hist = <<>> THEN "none" ELSE hist[Len(hist)].outcome

RefinesDemandPaging == Paging!Spec
===============================================================================
