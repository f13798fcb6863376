-------------------------- MODULE SimulatorProofs --------------------------
(***************************************************************************)
(* Proofs about the rows of main.c, for any trace and any number of        *)
(* frames: that no policy beats the optimum, that LRU's row is the count   *)
(* of stack distances, what a scan costs, and which rows are printed.      *)
(***************************************************************************)
EXTENDS Simulator, FiniteSetTheorems, TLAPS

\* The policies with the proofs about them.
LP == INSTANCE LruProofs WITH
  links <- lru_links, hmap <- lru_hmap, size <- lru_size, capacity <- lru_capacity,
  recency <- lru_recency, reply <- lru_reply
FP == INSTANCE ArrayProofs WITH
  cap <- lfu_cap, size <- lfu_size, hist <- lfu_hist, last <- sieve_last, reply <- sieve_reply
AP == INSTANCE ArcProofs WITH recency <- arc_recency, reply <- arc_reply
TP == INSTANCE TempoGraphProofs

-------------------------------------------------------------------------------
(* What the modules of the instances share with this one.                  *)

\* What the modules of the policies assume of their constants follows from what the
\* simulator assumes.
LEMMA Assumed ==
  /\ Pages \subseteq Nat /\ MAX_TRACE \in Nat
  /\ MAX_FRAMES \in Nat \ {0} /\ FrameCounts \subseteq 1..MAX_FRAMES /\ FrameCounts \subseteq Nat \ {0}
  /\ MAX_UNIQUE \in Nat \ {0} /\ MAX_EDGES_PER_NODE \in Nat \ {0} /\ SAMPLE_SIZE \in Nat \ {0}
  /\ MAX_WINDOW \in Nat \ {0} /\ DEFAULT_WINDOW \in 1..MAX_WINDOW /\ WindowSizes \subseteq Int
  /\ DECAY_INTERVAL \in Nat \ {0} /\ DECAY_DIV \in Nat /\ DECAY_DIV >= 2
  /\ MAX_WEIGHT \in Nat \ {0}
  /\ LP!NULL \notin Pages
BY PagesAssumption, TraceAssumption, FramesAssumption, GraphAssumption DEF LP!NULL

\* The instances' Cardinality is the one of the library theorems.
LEMMA SameCardinality ==
  \A S : /\ LP!Cardinality(S) = Cardinality(S) /\ FP!Cardinality(S) = Cardinality(S)
         /\ AP!Cardinality(S) = Cardinality(S) /\ TP!Cardinality(S) = Cardinality(S)
BY DEF LP!Cardinality, FP!Cardinality, AP!Cardinality, TP!Cardinality, Cardinality,
       LP!IsFiniteSet, FP!IsFiniteSet, AP!IsFiniteSet, TP!IsFiniteSet, IsFiniteSet

\* So are the references.
LEMMA SameReferences ==
  /\ \A s, j, k : PagesIn(s, j, k) = LP!PagesIn(s, j, k)
  /\ \A m, s : Optimal(m, s) = LP!Optimal(m, s)
  /\ \A m, s : StackDistanceFaults(m, s) = LP!StackDistanceFaults(m, s)
  /\ \A s, k : IsScan(s, k) <=> LP!IsScan(s, k)
<1>1. ASSUME NEW s, NEW j, NEW k PROVE PagesIn(s, j, k) = LP!PagesIn(s, j, k)
  BY DEF PagesIn, LP!PagesIn
<1>2. ASSUME NEW m, NEW s PROVE Optimal(m, s) = LP!Optimal(m, s)
  BY DEF Optimal, LP!Optimal, Served, LP!Served, Furthest, LP!Furthest, NextUse, LP!NextUse,
         PagesIn, LP!PagesIn, Cardinality, LP!Cardinality, IsFiniteSet, LP!IsFiniteSet
<1>3. ASSUME NEW m, NEW s PROVE StackDistanceFaults(m, s) = LP!StackDistanceFaults(m, s)
  BY DEF StackDistanceFaults, LP!StackDistanceFaults, IsFar, LP!IsFar, LastBefore, LP!LastBefore,
         PagesIn, LP!PagesIn, Cardinality, LP!Cardinality, IsFiniteSet, LP!IsFiniteSet
<1>4. ASSUME NEW s, NEW k PROVE IsScan(s, k) <=> LP!IsScan(s, k)
  BY DEF IsScan, LP!IsScan, PagesIn, LP!PagesIn, Cardinality, LP!Cardinality, IsFiniteSet,
         LP!IsFiniteSet
<1> QED BY <1>1, <1>2, <1>3, <1>4


-------------------------------------------------------------------------------
(* The steps of a policy are those the proofs about it speak of: both      *)
(* instances have the same definitions over the same variables.            *)

LEMMA SameLru ==
  /\ (Lru!Init <=> LP!Init)
  /\ (\A x : Lru!LruInit(x) <=> LP!LruInit(x))
  /\ (Lru!LruReset <=> LP!LruReset)
  /\ (\A x : Lru!Hit(x) <=> LP!Hit(x))
  /\ (\A x : Lru!LoadFree(x) <=> LP!LoadFree(x))
  /\ (\A x : Lru!LoadEvict(x) <=> LP!LoadEvict(x))
<1>1. /\ Lru!Unlinked(Pages) = LP!Unlinked(Pages)
      /\ \A l, x : Lru!list_remove(l, x) = LP!list_remove(l, x)
      /\ \A l, x : Lru!list_push_front(l, x) = LP!list_push_front(l, x)
      /\ \A s, x : Lru!Used(s, x) = LP!Used(s, x)
  BY DEF Lru!Unlinked, LP!Unlinked, Lru!NULL, LP!NULL, Lru!Link, LP!Link,
      Lru!list_remove, LP!list_remove, Lru!list_push_front, LP!list_push_front,
      Lru!Members, LP!Members, Lru!Position, LP!Position, Lru!PushFront, LP!PushFront,
      Lru!Remove, LP!Remove, Lru!Used, LP!Used
<1>2. Lru!Init <=> LP!Init
  BY <1>1 DEF Lru!Init, LP!Init
<1>3. ASSUME NEW x PROVE Lru!LruInit(x) <=> LP!LruInit(x)
  BY <1>1 DEF Lru!LruInit, LP!LruInit, Lru!ResetState, LP!ResetState
<1>4. Lru!LruReset <=> LP!LruReset
  BY <1>1 DEF Lru!LruReset, LP!LruReset, Lru!ResetState, LP!ResetState
<1>5. ASSUME NEW x PROVE Lru!Hit(x) <=> LP!Hit(x)
  BY <1>1 DEF Lru!Hit, LP!Hit, Lru!Promote, LP!Promote
<1>6. ASSUME NEW x PROVE Lru!LoadFree(x) <=> LP!LoadFree(x)
  BY <1>1 DEF Lru!Full, LP!Full, Lru!LoadFree, LP!LoadFree
<1>7. ASSUME NEW x PROVE Lru!LoadEvict(x) <=> LP!LoadEvict(x)
  BY <1>1 DEF Lru!Full, LP!Full, Lru!LoadEvict, LP!LoadEvict, Lru!MapAfterEvict, LP!MapAfterEvict
<1> QED BY <1>2, <1>3, <1>4, <1>5, <1>6, <1>7

LEMMA SameLfu ==
  /\ (Lfu!Init <=> FP!Init)
  /\ (\A x : Lfu!LfuInit(x) <=> FP!LfuInit(x))
  /\ (Lfu!LfuReset <=> FP!LfuReset)
  /\ (\A x : Lfu!Hit(x) <=> FP!Hit(x))
  /\ (\A x : Lfu!LoadFree(x) <=> FP!LoadFree(x))
  /\ (\A x : Lfu!LoadEvict(x) <=> FP!LoadEvict(x))
<1>1. Lfu!Init <=> FP!Init
  BY DEF Lfu!EMPTY, FP!EMPTY, Lfu!EmptySlot, FP!EmptySlot, Lfu!Init, FP!Init, Lfu!Slots,
      FP!Slots
<1>2. ASSUME NEW x PROVE Lfu!LfuInit(x) <=> FP!LfuInit(x)
  BY DEF Lfu!EMPTY, FP!EMPTY, Lfu!EmptySlot, FP!EmptySlot, Lfu!LfuInit, FP!LfuInit,
      Lfu!ResetState, FP!ResetState, Lfu!Slots, FP!Slots
<1>3. Lfu!LfuReset <=> FP!LfuReset
  BY DEF Lfu!EMPTY, FP!EMPTY, Lfu!EmptySlot, FP!EmptySlot, Lfu!LfuReset, FP!LfuReset,
      Lfu!ResetState, FP!ResetState, Lfu!Slots, FP!Slots
<1>4. ASSUME NEW x PROVE Lfu!Hit(x) <=> FP!Hit(x)
  BY DEF Lfu!Hit, FP!Hit, Lfu!InUse, FP!InUse, Lfu!Observe, FP!Observe, Lfu!SlotsOf,
      FP!SlotsOf, Lfu!Touched, FP!Touched
<1>5. ASSUME NEW x PROVE Lfu!LoadFree(x) <=> FP!LoadFree(x)
  BY DEF Lfu!EMPTY, FP!EMPTY, Lfu!FirstFree, FP!FirstFree, Lfu!InUse, FP!InUse, Lfu!Load,
      FP!Load, Lfu!LoadFree, FP!LoadFree, Lfu!Observe, FP!Observe, Lfu!SlotsOf,
      FP!SlotsOf
<1>6. ASSUME NEW x PROVE Lfu!LoadEvict(x) <=> FP!LoadEvict(x)
  BY DEF Lfu!Better, FP!Better, Lfu!InUse, FP!InUse, Lfu!Load, FP!Load, Lfu!LoadEvict,
      FP!LoadEvict, Lfu!Observe, FP!Observe, Lfu!SlotsOf, FP!SlotsOf
<1> QED BY <1>1, <1>2, <1>3, <1>4, <1>5, <1>6

LEMMA SameArc ==
  /\ (Arc!Init <=> AP!Init)
  /\ (\A x : Arc!ArcInit(x) <=> AP!ArcInit(x))
  /\ (Arc!ArcReset <=> AP!ArcReset)
  /\ (\A x : Arc!Hit(x) <=> AP!Hit(x))
  /\ (\A x : Arc!GhostHitB1(x) <=> AP!GhostHitB1(x))
  /\ (\A x : Arc!GhostHitB2(x) <=> AP!GhostHitB2(x))
  /\ (\A x : Arc!Miss(x) <=> AP!Miss(x))
<1>1. Arc!Init <=> AP!Init
  BY DEF Arc!Init, AP!Init, Arc!ListNames, AP!ListNames
<1>2. ASSUME NEW x PROVE Arc!ArcInit(x) <=> AP!ArcInit(x)
  BY DEF Arc!ArcInit, AP!ArcInit, Arc!ListNames, AP!ListNames, Arc!ResetState, AP!ResetState
<1>3. Arc!ArcReset <=> AP!ArcReset
  BY DEF Arc!ArcReset, AP!ArcReset, Arc!ListNames, AP!ListNames, Arc!ResetState,
      AP!ResetState
<1>4. /\ \A s, x : Arc!PushFront(s, x) = AP!PushFront(s, x)
      /\ \A s, x : Arc!Remove(s, x) = AP!Remove(s, x)
      /\ \A s : Arc!Tip(s) = AP!Tip(s) /\ Arc!PopTail(s) = AP!PopTail(s)
  <2>1. \A s, x : Arc!PushFront(s, x) = AP!PushFront(s, x)
    BY DEF Arc!PushFront, AP!PushFront
  <2>2. \A s, x : Arc!Remove(s, x) = AP!Remove(s, x)
    BY DEF Arc!Remove, AP!Remove, Arc!Position, AP!Position
  <2>3. \A s : Arc!Tip(s) = AP!Tip(s)
    BY DEF Arc!Tip, AP!Tip
  <2>4. \A s : Arc!PopTail(s) = AP!PopTail(s)
    BY DEF Arc!PopTail, AP!PopTail
  <2> QED BY <2>1, <2>2, <2>3, <2>4
<1>5. \A x, d, answer : Arc!Access(x, d, answer) <=> AP!Access(x, d, answer)
  <2>1. \A s, x : Arc!Used(s, x) = AP!Used(s, x)
    BY <1>4 DEF Arc!Used, AP!Used, Arc!Members, AP!Members
  <2> QED BY <2>1 DEF Arc!Access, AP!Access
<1>6. Arc!Dir = AP!Dir /\ \A l : Arc!Size(l) = AP!Size(l)
  BY DEF Arc!Dir, AP!Dir, Arc!Size, AP!Size
<1>7. \A d, x, from : Arc!MoveToT2(d, x, from) = AP!MoveToT2(d, x, from)
  BY <1>4 DEF Arc!MoveToT2, AP!MoveToT2
<1>8. \A d, target, in_b2 : Arc!arc_replace(d, target, in_b2) = AP!arc_replace(d, target, in_b2)
  <2>1. \A d, from, to : Arc!Demote(d, from, to) = AP!Demote(d, from, to)
    BY <1>4 DEF Arc!Demote, AP!Demote
  <2>2. \A d, target, in_b2 : Arc!ReplacesT1(d, target, in_b2) <=> AP!ReplacesT1(d, target, in_b2)
    BY DEF Arc!ReplacesT1, AP!ReplacesT1
  <2> QED BY <2>1, <2>2 DEF Arc!arc_replace, AP!arc_replace
<1>9. Arc!Raised = AP!Raised /\ Arc!Lowered = AP!Lowered
  <2>1. \A l, m : Arc!Delta(l, m) = AP!Delta(l, m)
    BY <1>6 DEF Arc!Delta, AP!Delta
  <2> QED BY <2>1 DEF Arc!Raised, AP!Raised, Arc!Lowered, AP!Lowered
<1>10. Arc!MakeRoom = AP!MakeRoom
  <2>1. Arc!t1_len = AP!t1_len /\ Arc!total = AP!total
    BY <1>6 DEF Arc!t1_len, AP!t1_len, Arc!total, AP!total
  <2>2. (Arc!DropsGhost <=> AP!DropsGhost) /\ (Arc!FramesFull <=> AP!FramesFull)
    BY <1>6, <2>1 DEF Arc!DropsGhost, AP!DropsGhost, Arc!FramesFull, AP!FramesFull
  <2>3. \A d, l : Arc!Forget(d, l) = AP!Forget(d, l)
    BY <1>4 DEF Arc!Forget, AP!Forget
  <2> QED BY <1>6, <1>8, <2>1, <2>2, <2>3 DEF Arc!MakeRoom, AP!MakeRoom
<1>11. \A d, x : Arc!AddToT1(d, x) = AP!AddToT1(d, x)
  BY <1>4 DEF Arc!AddToT1, AP!AddToT1
<1>12. ASSUME NEW x PROVE Arc!Hit(x) <=> AP!Hit(x)
  BY <1>5, <1>6, <1>7 DEF Arc!Hit, AP!Hit
<1>13. ASSUME NEW x PROVE Arc!GhostHitB1(x) <=> AP!GhostHitB1(x)
  BY <1>5, <1>6, <1>7, <1>8, <1>9 DEF Arc!GhostHitB1, AP!GhostHitB1
<1>14. ASSUME NEW x PROVE Arc!GhostHitB2(x) <=> AP!GhostHitB2(x)
  BY <1>5, <1>6, <1>7, <1>8, <1>9 DEF Arc!GhostHitB2, AP!GhostHitB2
<1>15. ASSUME NEW x PROVE Arc!Miss(x) <=> AP!Miss(x)
  BY <1>5, <1>10, <1>11 DEF Arc!Miss, AP!Miss
<1> QED BY <1>1, <1>2, <1>3, <1>12, <1>13, <1>14, <1>15

LEMMA SameTg ==
  /\ (TG!Init <=> TP!Init)
  /\ (\A x, y : TG!TgInit(x, y) <=> TP!TgInit(x, y))
  /\ (TG!TgReset <=> TP!TgReset)
  /\ (\A x : TG!Observe(x) <=> TP!Observe(x))
  /\ (\A x : TG!Hit(x) <=> TP!Hit(x))
  /\ (\A x, y : TG!LoadInto(x, y) <=> TP!LoadInto(x, y))
  /\ (\A x : TG!Fault(x) <=> TP!Fault(x))
<1>1. TG!Init <=> TP!Init
  BY DEF TG!Init, TP!Init, TG!NIL, TP!NIL, TG!Nodes, TP!Nodes, TG!Slots, TP!Slots
<1>2. ASSUME NEW x, NEW y PROVE TG!TgInit(x, y) <=> TP!TgInit(x, y)
  BY DEF TG!EMPTY, TP!EMPTY, TG!NIL, TP!NIL, TG!Nodes, TP!Nodes, TG!ResetState,
      TP!ResetState, TG!Slots, TP!Slots, TG!TgInit, TP!TgInit
<1>3. TG!TgReset <=> TP!TgReset
  BY DEF TG!EMPTY, TP!EMPTY, TG!NIL, TP!NIL, TG!Nodes, TP!Nodes, TG!ResetState,
      TP!ResetState, TG!Slots, TP!Slots, TG!TgReset, TP!TgReset
<1>4. \A u : TG!page_idx(u) = TP!page_idx(u)
  BY DEF TG!page_idx, TP!page_idx
<1>5. \A u : TG!GraphAfter(u) = TP!GraphAfter(u)
  <2>1. \A l, v : TG!adj_inc(l, v) = TP!adj_inc(l, v)
    BY DEF TG!adj_inc, TP!adj_inc, TG!WeakestEdge, TP!WeakestEdge
  <2>2. \A e : TG!DecayStep(e) = TP!DecayStep(e)
    BY DEF TG!DecayStep, TP!DecayStep, TG!Decayed, TP!Decayed
  <2>3. \A l : TG!DecayList(l) = TP!DecayList(l)
    BY <2>2 DEF TG!DecayList, TP!DecayList
  <2>4. \A g : TG!apply_decay(g) = TP!apply_decay(g)
    BY <2>3 DEF TG!apply_decay, TP!apply_decay, TG!Nodes, TP!Nodes
  <2>5. \A k : TG!WindowAt(k) = TP!WindowAt(k)
    BY DEF TG!WindowAt, TP!WindowAt
  <2>6. \A g, u : TG!update_graph(g, u) = TP!update_graph(g, u)
    BY <2>1, <2>5 DEF TG!update_graph, TP!update_graph
  <2> QED BY <2>4, <2>6 DEF TG!GraphAfter, TP!GraphAfter
<1>6. \A u : TG!slide_window(u) = TP!slide_window(u)
  BY DEF TG!slide_window, TP!slide_window
<1>7. /\ \A l, f : TG!lru_unlink(l, f) = TP!lru_unlink(l, f)
      /\ \A l, f : TG!lru_push_head(l, f) = TP!lru_push_head(l, f)
      /\ \A l, f : TG!lru_touch(l, f) = TP!lru_touch(l, f)
  <2>1. \A l, f : TG!lru_unlink(l, f) = TP!lru_unlink(l, f)
    BY DEF TG!lru_unlink, TP!lru_unlink, TG!NIL, TP!NIL
  <2>2. \A l, f : TG!lru_push_head(l, f) = TP!lru_push_head(l, f)
    BY DEF TG!lru_push_head, TP!lru_push_head, TG!NIL, TP!NIL
  <2>3. \A l, f : TG!lru_touch(l, f) = TP!lru_touch(l, f)
    BY <2>1, <2>2 DEF TG!lru_touch, TP!lru_touch
  <2> QED BY <2>1, <2>2, <2>3
<1>8. ASSUME NEW x PROVE TG!Observe(x) <=> TP!Observe(x)
  BY <1>4, <1>5, <1>6 DEF TG!Observe, TP!Observe
<1>9. ASSUME NEW x PROVE TG!Hit(x) <=> TP!Hit(x)
  BY <1>4, <1>7, <1>8 DEF TG!Hit, TP!Hit
<1>10. ASSUME NEW x, NEW y PROVE TG!LoadInto(x, y) <=> TP!LoadInto(x, y)
  <2>1. \A index, old, new, v, u : TG!Indexed(index, old, new, v, u) = TP!Indexed(index, old, new, v, u)
    BY <1>4 DEF TG!Indexed, TP!Indexed, TG!EMPTY, TP!EMPTY
  <2> QED BY <1>4, <1>7, <2>1 DEF TG!LoadInto, TP!LoadInto, TG!EMPTY, TP!EMPTY, TG!NIL, TP!NIL
<1>11. ASSUME NEW x PROVE TG!Fault(x) <=> TP!Fault(x)
  <2> DEFINE g == TP!GraphAfter(TP!page_idx(x))
  <2>1. TG!choose_victim(g) = TP!choose_victim(g)
    <3> HIDE DEF g
    <3>1. TG!FreeSlots = TP!FreeSlots
      BY DEF TG!EMPTY, TP!EMPTY, TG!FreeSlots, TP!FreeSlots
    <3>2. TG!Sampled = TP!Sampled
      BY DEF TG!NIL, TP!NIL, TG!Sampled, TP!Sampled, TG!Slots, TP!Slots, TG!Walk, TP!Walk
    <3>3. \A h, u : TG!score_page(h, u) = TP!score_page(h, u)
      BY DEF TG!WindowAt, TP!WindowAt, TG!adj_weight, TP!adj_weight, TG!score_page,
         TP!score_page, TG!FoldFunction, TP!FoldFunction, TG!FoldFunctionOnSet,
         TP!FoldFunctionOnSet, TG!MapThenFoldSet, TP!MapThenFoldSet
    <3>4. TG!BestSampled(g) = TP!BestSampled(g)
      BY <1>4, <3>2, <3>3 DEF TG!BestSampled, TP!BestSampled, TG!Beats, TP!Beats
    <3> QED BY <3>1, <3>4 DEF TG!choose_victim, TP!choose_victim
  <2> QED BY <1>4, <1>5, <1>8, <1>10, <2>1 DEF TG!Fault, TP!Fault
<1> QED BY <1>1, <1>2, <1>3, <1>8, <1>9, <1>10, <1>11

LEMMA SameSieve ==
  /\ (Sv!SieveStart <=> FP!SieveStart)
  /\ (\A x : Sv!SieveInit(x) <=> FP!SieveInit(x))
  /\ (Sv!SieveReset <=> FP!SieveReset)
  /\ (\A x : Sv!SieveHit(x) <=> FP!SieveHit(x))
  /\ (\A x : Sv!Fault(x) <=> FP!Fault(x))
  /\ (Sv!Skip <=> FP!Skip)
  /\ (Sv!Replace <=> FP!Replace)
<1>1. Sv!SieveStart <=> FP!SieveStart
  BY DEF Sv!NoPage, FP!NoPage, Sv!SieveStart, FP!SieveStart, Sv!Slots, FP!Slots
<1>2. ASSUME NEW x PROVE Sv!SieveInit(x) <=> FP!SieveInit(x)
  BY DEF Sv!EMPTY, FP!EMPTY, Sv!NoPage, FP!NoPage, Sv!SieveInit, FP!SieveInit, Sv!Slots,
      FP!Slots
<1>3. Sv!SieveReset <=> FP!SieveReset
  BY DEF Sv!EMPTY, FP!EMPTY, Sv!NoPage, FP!NoPage, Sv!SieveInit, FP!SieveInit, Sv!SieveReset,
      FP!SieveReset, Sv!Slots, FP!Slots
<1>4. ASSUME NEW x PROVE Sv!SieveHit(x) <=> FP!SieveHit(x)
  BY DEF Sv!Frames, FP!Frames, Sv!NoPage, FP!NoPage, Sv!SieveHit, FP!SieveHit
<1>5. ASSUME NEW x PROVE Sv!Fault(x) <=> FP!Fault(x)
  BY DEF Sv!Fault, FP!Fault, Sv!Frames, FP!Frames, Sv!NoPage, FP!NoPage
<1>6. Sv!Skip <=> FP!Skip
  BY DEF Sv!Advanced, FP!Advanced, Sv!NoPage, FP!NoPage, Sv!Skip, FP!Skip, Sv!Spared,
      FP!Spared
<1>7. Sv!Replace <=> FP!Replace
  BY DEF Sv!Advanced, FP!Advanced, Sv!NoPage, FP!NoPage, Sv!Replace, FP!Replace
<1> QED BY <1>1, <1>2, <1>3, <1>4, <1>5, <1>6, <1>7

-------------------------------------------------------------------------------
(* main.c drives every policy through its interface only, so that what is  *)
(* proved of a policy holds throughout the program.                        *)

Stages == {"load", "start", "replay", "exit"}
Algos  == 0..(ALGO_COUNT - 1)

\* Types; a is beyond the last policy only once all have run.
RunType ==
  /\ pc \in Stages /\ trace \in Seq(Pages)
  /\ n_frames \in FrameCounts /\ window \in WindowSizes /\ algo \in {ALL} \cup Algos
  /\ a \in Nat /\ (pc \in {"start", "replay"} => a \in Algos)
  /\ i \in Nat /\ n_faults \in Nat

PoliciesOk ==
  /\ LP!IInv /\ FP!IInv /\ AP!IInv /\ TP!IInv
  /\ FP!SieveIInv /\ FP!ScansFrames

\* The frames a policy was started with.
Capacity(b) ==
  IF b = ALGO_LRU THEN lru_capacity
  ELSE IF b = ALGO_LFU THEN lfu_cap
  ELSE IF b = ALGO_ARC THEN c
  ELSE IF b = ALGO_TEMPOGRAPH THEN cap
  ELSE n

\* What the run of policy a has got to.
RunOk ==
  pc = "replay" =>
    /\ Capacity(a) = n_frames /\ i \in 1..(Len(trace) + 1)
    /\ a = ALGO_SIEVE /\ scanning # FP!NoPage => i <= Len(trace) /\ scanning = trace[i]

DInv == RunType /\ PoliciesOk /\ RunOk

\* What is proved of the steps of each policy.
LEMMA PoliciesKept ==
  /\ LP!IInv /\ [LP!Next]_(LP!vars) => LP!IInv'
  /\ FP!IInv /\ [FP!Next]_(FP!vars) => FP!IInv'
  /\ AP!IInv /\ [AP!Next]_(AP!vars) => AP!IInv'
  /\ TP!IInv /\ [TP!Next]_(TP!vars) => TP!IInv'
  /\ FP!SieveIInv /\ FP!ScansFrames /\ [FP!SieveNext]_(FP!sieve_vars) =>
       FP!SieveIInv' /\ FP!ScansFrames'
<1>1. LP!IInv /\ [LP!Next]_(LP!vars) => LP!IInv'
  BY LP!StepIInv, Assumed
<1>2. FP!IInv /\ [FP!Next]_(FP!vars) => FP!IInv'
  BY FP!StepIInv, Assumed
<1>3. AP!IInv /\ [AP!Next]_(AP!vars) => AP!IInv'
  BY AP!StepIInv, Assumed
<1>4. TP!IInv /\ [TP!Next]_(TP!vars) => TP!IInv'
  BY TP!StepIInv, Assumed
<1>5. FP!SieveIInv /\ FP!ScansFrames /\ [FP!SieveNext]_(FP!sieve_vars) =>
        FP!SieveIInv' /\ FP!ScansFrames'
  BY FP!SieveStepIInv, FP!StepScansFrames, Assumed
<1> QED BY <1>1, <1>2, <1>3, <1>4, <1>5

LEMMA PoliciesStart == Init => PoliciesOk
<1> SUFFICES ASSUME Init PROVE PoliciesOk
  OBVIOUS
<1>1. LP!Init /\ FP!Init /\ AP!Init /\ TP!Init /\ FP!SieveStart
  BY SameLru, SameLfu, SameArc, SameTg, SameSieve DEF Init
<1>2. LP!IInv
  BY <1>1, LP!InitIInv, Assumed
<1>3. FP!IInv
  BY <1>1, FP!InitIInv, Assumed
<1>4. AP!IInv
  BY <1>1, AP!InitIInv, Assumed
<1>5. TP!IInv
  BY <1>1, TP!InitIInv, Assumed
<1>6. FP!SieveIInv
  BY <1>1, FP!SieveStartIInv, Assumed
<1>7. FP!ScansFrames
  BY <1>1 DEF FP!SieveStart, FP!ScansFrames
<1> QED BY <1>2, <1>3, <1>4, <1>5, <1>6, <1>7 DEF PoliciesOk

\* The access a run has got to.
LEMMA Current ==
  ASSUME RunType, RunOk, Replaying
  PROVE  /\ i \in 1..Len(trace) /\ i \in DOMAIN trace /\ trace[i] \in Pages
         /\ a \in Algos /\ Capacity(a) = n_frames /\ n_frames > 0
BY Assumed DEF RunType, RunOk, Replaying

LEMMA OtherStages == SkipPiece \/ (\E page \in Pages : ReadPiece(page)) \/ EndLoad \/ Exited => UNCHANGED policies
BY DEF SkipPiece, ReadPiece, EndLoad, Exited, vars

LEMMA LruDriven == DInv /\ [Next]_vars => [LP!Next]_(LP!vars)
<1> SUFFICES ASSUME DInv, [Next]_vars PROVE [LP!Next]_(LP!vars)
  OBVIOUS
<1>1. UNCHANGED lruVars => UNCHANGED LP!vars
  BY DEF lruVars, LP!vars
<1>2. CASE UNCHANGED policies
  BY <1>1, <1>2 DEF policies
<1>3. a # ALGO_LRU /\ Untouched(a) => UNCHANGED lruVars
  BY DEF Untouched
<1>4. ASSUME a = ALGO_LRU, StartRun PROVE LP!Next
  <2>1. Lru!LruInit(n_frames)
    BY <1>4 DEF StartRun, ALGO_LRU, ALGO_LFU, ALGO_ARC, ALGO_TEMPOGRAPH, ALGO_SIEVE
  <2>2. n_frames \in FrameCounts
    BY DEF DInv, RunType
  <2> QED BY <2>1, <2>2, SameLru DEF LP!Next
<1>5. ASSUME a = ALGO_LRU, Replay PROVE LP!Next
  <2>1. /\ Lru!Hit(trace[i]) \/ Lru!LoadFree(trace[i]) \/ Lru!LoadEvict(trace[i])
        /\ Replaying
    BY <1>5 DEF Replay, Access, SieveScan, SieveReplace, ALGO_LRU, ALGO_LFU, ALGO_ARC, ALGO_TEMPOGRAPH, ALGO_SIEVE
  <2>2. trace[i] \in Pages /\ lru_capacity > 0
    BY <1>5, <2>1, Current DEF DInv, Capacity
  <2> QED BY <2>1, <2>2, SameLru DEF LP!Next
<1>6. ASSUME a = ALGO_LRU, EndRun PROVE LP!Next
  <2>1. Lru!LruReset
    BY <1>6 DEF EndRun, ALGO_LRU, ALGO_LFU, ALGO_ARC, ALGO_TEMPOGRAPH, ALGO_SIEVE
  <2> QED BY <2>1, SameLru DEF LP!Next
<1>7. ASSUME a # ALGO_LRU, StartRun \/ Replay \/ EndRun PROVE UNCHANGED lruVars
  <2>1. Untouched(a)
    BY <1>7 DEF StartRun, Replay, Access, SieveScan, SieveReplace, Answered, EndRun
  <2> QED BY <1>3, <1>7, <2>1
<1> QED BY <1>1, <1>2, <1>4, <1>5, <1>6, <1>7, OtherStages DEF Next, vars

LEMMA LfuDriven == DInv /\ [Next]_vars => [FP!Next]_(FP!vars)
<1> SUFFICES ASSUME DInv, [Next]_vars PROVE [FP!Next]_(FP!vars)
  OBVIOUS
<1>1. UNCHANGED lfuVars => UNCHANGED FP!vars
  BY DEF lfuVars, FP!vars
<1>2. CASE UNCHANGED policies
  BY <1>1, <1>2 DEF policies
<1>3. a # ALGO_LFU /\ Untouched(a) => UNCHANGED lfuVars
  BY DEF Untouched
<1>4. ASSUME a = ALGO_LFU, StartRun PROVE FP!Next
  <2>1. Lfu!LfuInit(n_frames)
    BY <1>4 DEF StartRun, ALGO_LRU, ALGO_LFU, ALGO_ARC, ALGO_TEMPOGRAPH, ALGO_SIEVE
  <2>2. n_frames \in FrameCounts /\ window \in WindowSizes
    BY DEF DInv, RunType
  <2> QED BY <2>1, <2>2, SameLfu DEF FP!Next
<1>5. ASSUME a = ALGO_LFU, Replay PROVE FP!Next
  <2>1. /\ Lfu!Hit(trace[i]) \/ Lfu!LoadFree(trace[i]) \/ Lfu!LoadEvict(trace[i])
        /\ Replaying
    BY <1>5 DEF Replay, Access, SieveScan, SieveReplace, ALGO_LRU, ALGO_LFU, ALGO_ARC,
                ALGO_TEMPOGRAPH, ALGO_SIEVE
  <2>2. trace[i] \in Pages
    BY <1>5, <2>1, Current DEF DInv
  <2> QED BY <2>1, <2>2, SameLfu DEF FP!Next
<1>6. ASSUME a = ALGO_LFU, EndRun PROVE FP!Next
  <2>1. Lfu!LfuReset
    BY <1>6 DEF EndRun, ALGO_LRU, ALGO_LFU, ALGO_ARC, ALGO_TEMPOGRAPH, ALGO_SIEVE
  <2> QED BY <2>1, SameLfu DEF FP!Next
<1>7. ASSUME a # ALGO_LFU, StartRun \/ Replay \/ EndRun PROVE UNCHANGED lfuVars
  <2>1. Untouched(a)
    BY <1>7 DEF StartRun, Replay, Access, SieveScan, SieveReplace, Answered, EndRun
  <2> QED BY <1>3, <1>7, <2>1
<1> QED BY <1>1, <1>2, <1>4, <1>5, <1>6, <1>7, OtherStages DEF Next, vars

LEMMA ArcDriven == DInv /\ [Next]_vars => [AP!Next]_(AP!vars)
<1> SUFFICES ASSUME DInv, [Next]_vars PROVE [AP!Next]_(AP!vars)
  OBVIOUS
<1>1. UNCHANGED arcVars => UNCHANGED AP!vars
  BY DEF arcVars, AP!vars
<1>2. CASE UNCHANGED policies
  BY <1>1, <1>2 DEF policies
<1>3. a # ALGO_ARC /\ Untouched(a) => UNCHANGED arcVars
  BY DEF Untouched
<1>4. ASSUME a = ALGO_ARC, StartRun PROVE AP!Next
  <2>1. Arc!ArcInit(n_frames)
    BY <1>4 DEF StartRun, ALGO_LRU, ALGO_LFU, ALGO_ARC, ALGO_TEMPOGRAPH, ALGO_SIEVE
  <2>2. n_frames \in FrameCounts /\ window \in WindowSizes
    BY DEF DInv, RunType
  <2> QED BY <2>1, <2>2, SameArc DEF AP!Next
<1>5. ASSUME a = ALGO_ARC, Replay PROVE AP!Next
  <2>1. /\ Arc!Hit(trace[i]) \/ Arc!GhostHitB1(trace[i]) \/ Arc!GhostHitB2(trace[i]) \/ Arc!Miss(trace[i])
        /\ Replaying
    BY <1>5 DEF Replay, Access, SieveScan, SieveReplace, ALGO_LRU, ALGO_LFU, ALGO_ARC,
                ALGO_TEMPOGRAPH, ALGO_SIEVE
  <2>2. trace[i] \in Pages
    BY <1>5, <2>1, Current DEF DInv
  <2> QED BY <2>1, <2>2, SameArc DEF AP!Next
<1>6. ASSUME a = ALGO_ARC, EndRun PROVE AP!Next
  <2>1. Arc!ArcReset
    BY <1>6 DEF EndRun, ALGO_LRU, ALGO_LFU, ALGO_ARC, ALGO_TEMPOGRAPH, ALGO_SIEVE
  <2> QED BY <2>1, SameArc DEF AP!Next
<1>7. ASSUME a # ALGO_ARC, StartRun \/ Replay \/ EndRun PROVE UNCHANGED arcVars
  <2>1. Untouched(a)
    BY <1>7 DEF StartRun, Replay, Access, SieveScan, SieveReplace, Answered, EndRun
  <2> QED BY <1>3, <1>7, <2>1
<1> QED BY <1>1, <1>2, <1>4, <1>5, <1>6, <1>7, OtherStages DEF Next, vars

LEMMA TgDriven == DInv /\ [Next]_vars => [TP!Next]_(TP!vars)
<1> SUFFICES ASSUME DInv, [Next]_vars PROVE [TP!Next]_(TP!vars)
  OBVIOUS
<1>1. UNCHANGED tgVars => UNCHANGED TP!vars
  BY DEF tgVars, TP!vars, TP!pool
<1>2. CASE UNCHANGED policies
  BY <1>1, <1>2 DEF policies
<1>3. a # ALGO_TEMPOGRAPH /\ Untouched(a) => UNCHANGED tgVars
  BY DEF Untouched
<1>4. ASSUME a = ALGO_TEMPOGRAPH, StartRun PROVE TP!Next
  <2>1. TG!TgInit(n_frames, window)
    BY <1>4 DEF StartRun, ALGO_LRU, ALGO_LFU, ALGO_ARC, ALGO_TEMPOGRAPH, ALGO_SIEVE
  <2>2. n_frames \in FrameCounts /\ window \in WindowSizes
    BY DEF DInv, RunType
  <2> QED BY <2>1, <2>2, SameTg DEF TP!Next
<1>5. ASSUME a = ALGO_TEMPOGRAPH, Replay PROVE TP!Next
  <2>1. /\ TG!Hit(trace[i]) \/ TG!Fault(trace[i])
        /\ Replaying
    BY <1>5 DEF Replay, Access, SieveScan, SieveReplace, ALGO_LRU, ALGO_LFU, ALGO_ARC,
                ALGO_TEMPOGRAPH, ALGO_SIEVE
  <2>2. trace[i] \in Pages
    BY <1>5, <2>1, Current DEF DInv
  <2> QED BY <2>1, <2>2, SameTg DEF TP!Next
<1>6. ASSUME a = ALGO_TEMPOGRAPH, EndRun PROVE TP!Next
  <2>1. TG!TgReset
    BY <1>6 DEF EndRun, ALGO_LRU, ALGO_LFU, ALGO_ARC, ALGO_TEMPOGRAPH, ALGO_SIEVE
  <2> QED BY <2>1, SameTg DEF TP!Next
<1>7. ASSUME a # ALGO_TEMPOGRAPH, StartRun \/ Replay \/ EndRun PROVE UNCHANGED tgVars
  <2>1. Untouched(a)
    BY <1>7 DEF StartRun, Replay, Access, SieveScan, SieveReplace, Answered, EndRun
  <2> QED BY <1>3, <1>7, <2>1
<1> QED BY <1>1, <1>2, <1>4, <1>5, <1>6, <1>7, OtherStages DEF Next, vars

LEMMA SieveDriven == DInv /\ [Next]_vars => [FP!SieveNext]_(FP!sieve_vars)
<1> SUFFICES ASSUME DInv, [Next]_vars PROVE [FP!SieveNext]_(FP!sieve_vars)
  OBVIOUS
<1>1. UNCHANGED sieveVars => UNCHANGED FP!sieve_vars
  BY DEF sieveVars, FP!sieve_vars
<1>2. CASE UNCHANGED policies
  BY <1>1, <1>2 DEF policies
<1>3. a # ALGO_SIEVE /\ Untouched(a) => UNCHANGED sieveVars
  BY DEF Untouched
<1>4. ASSUME a = ALGO_SIEVE, StartRun PROVE FP!SieveNext
  <2>1. Sv!SieveInit(n_frames)
    BY <1>4 DEF StartRun, ALGO_LRU, ALGO_LFU, ALGO_ARC, ALGO_TEMPOGRAPH, ALGO_SIEVE
  <2>2. n_frames \in FrameCounts /\ window \in WindowSizes
    BY DEF DInv, RunType
  <2> QED BY <2>1, <2>2, SameSieve DEF FP!SieveNext
<1>5. ASSUME a = ALGO_SIEVE, Replay PROVE FP!SieveNext
  <2>1. /\ Sv!SieveHit(trace[i]) \/ Sv!Fault(trace[i]) \/ Sv!Skip \/ Sv!Replace
        /\ Replaying
    BY <1>5 DEF Replay, Access, SieveScan, SieveReplace, ALGO_LRU, ALGO_LFU, ALGO_ARC,
                ALGO_TEMPOGRAPH, ALGO_SIEVE
  <2>2. trace[i] \in Pages
    BY <1>5, <2>1, Current DEF DInv
  <2> QED BY <2>1, <2>2, SameSieve DEF FP!SieveNext
<1>6. ASSUME a = ALGO_SIEVE, EndRun PROVE FP!SieveNext
  <2>1. Sv!SieveReset
    BY <1>6 DEF EndRun, ALGO_LRU, ALGO_LFU, ALGO_ARC, ALGO_TEMPOGRAPH, ALGO_SIEVE
  <2> QED BY <2>1, SameSieve DEF FP!SieveNext
<1>7. ASSUME a # ALGO_SIEVE, StartRun \/ Replay \/ EndRun PROVE UNCHANGED sieveVars
  <2>1. Untouched(a)
    BY <1>7 DEF StartRun, Replay, Access, SieveScan, SieveReplace, Answered, EndRun
  <2> QED BY <1>3, <1>7, <2>1
<1> QED BY <1>1, <1>2, <1>4, <1>5, <1>6, <1>7, OtherStages DEF Next, vars

\* The counter a of the loop over the policies.
LEMMA ChosenAlgo == \A choice \in Choices : Chosen(choice) \in {ALL} \cup Algos
<1> SUFFICES ASSUME NEW choice \in Choices PROVE Chosen(choice) \in {ALL} \cup Algos
  OBVIOUS
<1>1. CASE choice = "all"
  BY <1>1 DEF Chosen
<1>2. CASE choice # "all"
  <2>1. PICK k \in DOMAIN Names : choice = Names[k]
    BY <1>2, ChoicesAssumption
  <2>2. DOMAIN Names = 1..5
    BY DEF Names
  <2>3. k - 1 \in Algos /\ Names[(k - 1) + 1] = choice
    BY <2>1, <2>2 DEF Algos, ALGO_COUNT
  <2> QED BY <1>2, <2>3 DEF Chosen, Algos
<1> QED BY <1>1, <1>2

LEMMA DInvStart == Init => DInv
<1> SUFFICES ASSUME Init PROVE DInv
  OBVIOUS
<1>1. RunType
  BY ChosenAlgo DEF Init, RunType, Stages
<1>2. RunOk
  BY DEF Init, RunOk
<1> QED BY <1>1, <1>2, PoliciesStart DEF DInv

LEMMA RunTypeKept == RunType /\ RunOk /\ [Next]_vars => RunType'
<1> SUFFICES ASSUME RunType, RunOk, [Next]_vars PROVE RunType'
  OBVIOUS
<1>1. CASE UNCHANGED vars
  BY <1>1 DEF vars, options, RunType
<1>2. ASSUME NEW page \in Pages, ReadPiece(page) PROVE RunType'
  BY <1>2 DEF ReadPiece, options, RunType
<1>3. CASE EndLoad
  BY <1>3 DEF EndLoad, options, RunType, Stages, Algos, ALL, ALGO_COUNT
<1>4. CASE StartRun
  BY <1>4 DEF StartRun, options, RunType, Stages
<1>5. ASSUME NEW result, Answered(result) PROVE RunType'
  BY <1>5 DEF Answered, Counted, options, RunType
<1>6. ASSUME NEW page, SieveScan(page) PROVE RunType'
  BY <1>6 DEF SieveScan, options, RunType
<1>7. CASE Replay
  BY <1>5, <1>6, <1>7 DEF Replay, Access, SieveReplace
<1>8. CASE EndRun
  <2>1. a \in Algos
    BY <1>8 DEF EndRun, RunType
  <2>2. pc' = "start" => a + 1 < ALGO_COUNT
    BY <1>8 DEF EndRun, Following
  <2>3. pc' \in {"start", "exit"}
    BY <1>8 DEF EndRun, Following
  <2>4. a' = a + 1 /\ UNCHANGED <<trace, options, i, n_faults>>
    BY <1>8 DEF EndRun
  <2> QED BY <2>1, <2>2, <2>3, <2>4 DEF options, RunType, Stages, Algos, ALGO_COUNT
<1> QED BY <1>1, <1>2, <1>3, <1>4, <1>7, <1>8 DEF Next, SkipPiece, Exited

\* The frames of a policy stay its own; a scan of sieve.c is for the access being served.
LEMMA RunOkKept == DInv /\ [Next]_vars => RunOk'
<1> SUFFICES ASSUME DInv, [Next]_vars PROVE RunOk'
  OBVIOUS
<1>1. CASE UNCHANGED vars
  BY <1>1 DEF vars, options, policies, lruVars, lfuVars, arcVars, tgVars, sieveVars, DInv, RunOk,
              Capacity
<1>2. CASE (\E page \in Pages : ReadPiece(page)) \/ EndLoad \/ EndRun
  <2>1. pc' # "replay"
    BY <1>2 DEF ReadPiece, EndLoad, EndRun, Following
  <2> QED BY <2>1 DEF RunOk
<1>3. CASE StartRun
  <2>1. i' = 1 /\ a' = a /\ trace' = trace /\ n_frames' = n_frames
    BY <1>3 DEF StartRun, options
  <2>2. Capacity(a)' = n_frames
    BY <1>3, <2>1 DEF StartRun, Capacity, ALGO_LRU, ALGO_LFU, ALGO_ARC, ALGO_TEMPOGRAPH, ALGO_SIEVE,
       Lru!LruInit, Lfu!LfuInit, Arc!ArcInit, TG!TgInit, Sv!SieveInit
  <2>3. a = ALGO_SIEVE => scanning' = FP!NoPage
    BY <1>3 DEF StartRun, ALGO_LRU, ALGO_LFU, ALGO_ARC, ALGO_TEMPOGRAPH, ALGO_SIEVE,
       Sv!SieveInit, Sv!NoPage, FP!NoPage
  <2>4. 1 \in 1..(Len(trace) + 1)
    BY DEF DInv, RunType
  <2> QED BY <2>1, <2>2, <2>3, <2>4 DEF RunOk
<1>4. CASE Replay
  <2>1. i \in 1..Len(trace) /\ Capacity(a) = n_frames /\ a \in Algos
    BY <1>4, Current DEF Replay, DInv
  <2>2. a' = a /\ trace' = trace /\ n_frames' = n_frames
    BY <1>4 DEF Replay, Access, SieveScan, SieveReplace, Answered, options
  <2>3. Capacity(a)' = Capacity(a)
    <3>1. a = ALGO_LRU => lru_capacity' = lru_capacity
      BY <1>4 DEF Replay, Access, SieveScan, SieveReplace,
                  ALGO_LRU, ALGO_LFU, ALGO_ARC, ALGO_TEMPOGRAPH, ALGO_SIEVE,
                  Lru!Hit, Lru!LoadFree, Lru!LoadEvict
    <3>2. a = ALGO_LFU => lfu_cap' = lfu_cap
      BY <1>4 DEF Replay, Access, SieveScan, SieveReplace,
                  ALGO_LRU, ALGO_LFU, ALGO_ARC, ALGO_TEMPOGRAPH, ALGO_SIEVE,
                  Lfu!Hit, Lfu!LoadFree, Lfu!LoadEvict, Lfu!Observe
    <3>3. a = ALGO_ARC => c' = c
      <4>1. \A x, d, answer : Arc!Access(x, d, answer) => c' = c
        BY DEF Arc!Access
      <4>2. \A x : Arc!Hit(x) \/ Arc!GhostHitB1(x) \/ Arc!GhostHitB2(x) \/ Arc!Miss(x) => c' = c
        BY <4>1 DEF Arc!Hit, Arc!GhostHitB1, Arc!GhostHitB2, Arc!Miss
      <4> QED BY <1>4, <4>2 DEF Replay, Access, SieveScan, SieveReplace,
                  ALGO_LRU, ALGO_LFU, ALGO_ARC, ALGO_TEMPOGRAPH, ALGO_SIEVE
    <3>4. a = ALGO_TEMPOGRAPH => cap' = cap
      BY <1>4 DEF Replay, Access, SieveScan, SieveReplace,
                  ALGO_LRU, ALGO_LFU, ALGO_ARC, ALGO_TEMPOGRAPH, ALGO_SIEVE,
                  TG!Hit, TG!Fault, TG!Observe
    <3>5. a = ALGO_SIEVE => n' = n
      BY <1>4 DEF Replay, Access, SieveScan, SieveReplace,
                  ALGO_LRU, ALGO_LFU, ALGO_ARC, ALGO_TEMPOGRAPH, ALGO_SIEVE,
                  Sv!SieveHit, Sv!Fault, Sv!Skip, Sv!Replace
    <3> QED BY <2>1, <2>2, <3>1, <3>2, <3>3, <3>4, <3>5 DEF Capacity, Algos, ALGO_COUNT, ALGO_LRU, ALGO_LFU, ALGO_ARC, ALGO_TEMPOGRAPH, ALGO_SIEVE
  <2>4. \/ i' = i + 1 /\ (a = ALGO_SIEVE => scanning' = FP!NoPage)
        \/ i' = i /\ (scanning' # FP!NoPage => scanning' = scanning \/ scanning' = trace[i])
    BY <1>4 DEF Replay, Access, SieveScan, SieveReplace, Answered,
       ALGO_LRU, ALGO_LFU, ALGO_ARC, ALGO_TEMPOGRAPH, ALGO_SIEVE,
       Sv!SieveHit, Sv!Fault, Sv!Skip, Sv!Replace, Sv!NoPage, FP!NoPage
  <2>5. scanning # FP!NoPage /\ a = ALGO_SIEVE => scanning = trace[i]
    BY <1>4 DEF Replay, Replaying, DInv, RunOk
  <2>6. i' \in 1..(Len(trace) + 1) /\ (i' = i => i' <= Len(trace)) /\ i # i + 1
    BY <2>1, <2>4 DEF DInv, RunType
  <2>7. a = ALGO_SIEVE /\ scanning' # FP!NoPage => i' <= Len(trace) /\ scanning' = trace[i']
    BY <1>4, <2>4, <2>5, <2>6 DEF Replay, SieveScan
  <2> QED BY <2>1, <2>2, <2>3, <2>6, <2>7 DEF RunOk
<1> QED BY <1>1, <1>2, <1>3, <1>4 DEF Next, SkipPiece, Exited

LEMMA DInvKept == DInv /\ [Next]_vars => DInv'
<1> SUFFICES ASSUME DInv, [Next]_vars PROVE DInv'
  OBVIOUS
<1>1. PoliciesOk'
  BY PoliciesKept, LruDriven, LfuDriven, ArcDriven, TgDriven, SieveDriven DEF DInv, PoliciesOk
<1> QED BY <1>1, RunTypeKept, RunOkKept DEF DInv

LEMMA DInvariance == Spec => []DInv
BY DInvStart, DInvKept, PTL DEF Spec

-------------------------------------------------------------------------------
(* Every policy serves an access as demand paging does, and so keeps the   *)
(* account.                                                                *)

\* The pages policy b holds, as it tells them apart.
HeldBy(b) ==
  IF b = ALGO_LRU THEN lru_hmap
  ELSE IF b = ALGO_LFU THEN FP!Resident
  ELSE IF b = ALGO_ARC THEN AP!Held
  ELSE IF b = ALGO_TEMPOGRAPH THEN TP!ResidentSet
  ELSE FP!Held

\* An answered access, in the terms of the account.
LEMMA AnsweredServes ==
  ASSUME NEW R, NEW R2, NEW x, NEW m, NEW result, Answered(result),
         \/ x \in R /\ result = "HIT" /\ R2 = R
         \/ /\ x \notin R /\ result = "FAULT"
            /\ \/ Cardinality(R) < m /\ R2 = R \cup {x}
               \/ Cardinality(R) = m /\ \E v \in R : R2 = (R \ {v}) \cup {x}
  PROVE  LP!Serves(m, R, R2, x, n_faults, n_faults')
<1>1. n_faults' = IF result = "FAULT" THEN n_faults + 1 ELSE n_faults
  BY DEF Answered, Counted
<1>2. "HIT" # "FAULT"
  OBVIOUS
<1> QED BY <1>1, <1>2, SameCardinality DEF LP!Serves

\* The access that ends a turn of the loop of run_sim.
Serving(page) == Access(page) \/ SieveReplace

LEMMA LruServes ==
  ASSUME DInv, Replaying, a = ALGO_LRU, Serving(trace[i])
  PROVE  LP!Serves(n_frames, HeldBy(a), HeldBy(a)', Key(a, trace[i]), n_faults, n_faults')
<1> DEFINE x == trace[i]
<1>1. x \in Pages /\ lru_capacity = n_frames /\ n_frames > 0
  BY Current DEF DInv, Capacity
<1>2. /\ Lru!Hit(x) \/ Lru!LoadFree(x) \/ Lru!LoadEvict(x)
      /\ Answered(lru_reply')
  BY DEF Serving, Access, SieveReplace, ALGO_LRU, ALGO_LFU, ALGO_ARC, ALGO_TEMPOGRAPH, ALGO_SIEVE
<1>3. LP!Hit(x) \/ LP!LoadFree(x) \/ LP!LoadEvict(x)
  BY <1>2, SameLru
<1> HIDE DEF x
<1>4. \/ x \in lru_hmap /\ lru_reply' = "HIT" /\ lru_hmap' = lru_hmap
      \/ /\ x \notin lru_hmap /\ lru_reply' = "FAULT"
         /\ \/ LP!Cardinality(lru_hmap) < lru_capacity /\ lru_hmap' = lru_hmap \cup {x}
            \/ /\ LP!Cardinality(lru_hmap) = lru_capacity
               /\ \E v \in lru_hmap : lru_hmap' = (lru_hmap \ {v}) \cup {x}
  BY <1>1, <1>3, LP!AccessServes, Assumed DEF DInv, PoliciesOk
<1>5. LP!Serves(n_frames, lru_hmap, lru_hmap', x, n_faults, n_faults')
  BY <1>1, <1>2, <1>4, SameCardinality, AnsweredServes
<1>6. a' = a
  BY <1>2 DEF Answered
<1> QED BY <1>5, <1>6 DEF HeldBy, Key, ALGO_LRU, ALGO_TEMPOGRAPH, x

LEMMA LfuServes ==
  ASSUME DInv, Replaying, a = ALGO_LFU, Serving(trace[i])
  PROVE  LP!Serves(n_frames, HeldBy(a), HeldBy(a)', Key(a, trace[i]), n_faults, n_faults')
<1> DEFINE x == trace[i]
           R == FP!Resident
           outcome == lfu_hist'[Len(lfu_hist')].outcome
<1>1. x \in Pages /\ lfu_cap = n_frames
  BY Current DEF DInv, Capacity, ALGO_LRU, ALGO_LFU
<1>2. /\ Lfu!Hit(x) \/ Lfu!LoadFree(x) \/ Lfu!LoadEvict(x)
      /\ Answered(lfu_hist'[Len(lfu_hist')].outcome)
  BY DEF Serving, Access, SieveReplace, ALGO_LRU, ALGO_LFU, ALGO_ARC, ALGO_TEMPOGRAPH, ALGO_SIEVE
<1>3. FP!Hit(x) \/ FP!LoadFree(x) \/ FP!LoadEvict(x)
  BY <1>2, SameLfu
<1>4. \/ x \in R /\ outcome = "HIT" /\ R' = R
      \/ /\ x \notin R /\ outcome = "FAULT"
         /\ \/ FP!Cardinality(R) < lfu_cap /\ R' = R \cup {x}
            \/ /\ FP!Cardinality(R) = lfu_cap
               /\ \E v \in R : R' = (R \ {v}) \cup {x}
  <2> HIDE DEF x
  <2> QED BY <1>1, <1>3, FP!AccessServes, Assumed DEF DInv, PoliciesOk
<1> HIDE DEF x, R, outcome
<1>5. Answered(outcome)
  BY <1>2 DEF outcome
<1>6. LP!Serves(n_frames, R, R', x, n_faults, n_faults')
  BY <1>1, <1>4, <1>5, SameCardinality, AnsweredServes
<1>7. a' = a
  BY <1>2 DEF Answered
<1> QED BY <1>6, <1>7 DEF HeldBy, Key, ALGO_LRU, ALGO_LFU, ALGO_TEMPOGRAPH, x, R

LEMMA ArcServes ==
  ASSUME DInv, Replaying, a = ALGO_ARC, Serving(trace[i])
  PROVE  LP!Serves(n_frames, HeldBy(a), HeldBy(a)', Key(a, trace[i]), n_faults, n_faults')
<1> DEFINE x == trace[i]
           R == AP!Held
<1>1. x \in Pages /\ c = n_frames
  BY Current DEF DInv, Capacity, ALGO_LRU, ALGO_LFU, ALGO_ARC
<1>2. /\ Arc!Hit(x) \/ Arc!GhostHitB1(x) \/ Arc!GhostHitB2(x) \/ Arc!Miss(x)
      /\ Answered(arc_reply')
  BY DEF Serving, Access, SieveReplace, ALGO_LRU, ALGO_LFU, ALGO_ARC, ALGO_TEMPOGRAPH, ALGO_SIEVE
<1>3. AP!Hit(x) \/ AP!GhostHitB1(x) \/ AP!GhostHitB2(x) \/ AP!Miss(x)
  BY <1>2, SameArc
<1>4. \/ x \in R /\ arc_reply' = "HIT" /\ R' = R
      \/ /\ x \notin R /\ arc_reply' = "FAULT"
         /\ \/ AP!Cardinality(R) < c /\ R' = R \cup {x}
            \/ /\ AP!Cardinality(R) = c
               /\ \E v \in R : R' = (R \ {v}) \cup {x}
  <2> HIDE DEF x
  <2> QED BY <1>1, <1>3, AP!AccessServes, Assumed DEF DInv, PoliciesOk
<1> HIDE DEF x, R
<1>5. LP!Serves(n_frames, R, R', x, n_faults, n_faults')
  BY <1>1, <1>2, <1>4, SameCardinality, AnsweredServes
<1>6. a' = a
  BY <1>2 DEF Answered
<1> QED BY <1>5, <1>6 DEF HeldBy, Key, ALGO_LRU, ALGO_LFU, ALGO_ARC, ALGO_TEMPOGRAPH, x, R

LEMMA TgServes ==
  ASSUME DInv, DInv', Replaying, a = ALGO_TEMPOGRAPH, Serving(trace[i])
  PROVE  LP!Serves(n_frames, HeldBy(a), HeldBy(a)', Key(a, trace[i]), n_faults, n_faults')
<1> DEFINE page == trace[i]
           x == TP!page_idx(page)
           R == TP!ResidentSet
<1>1. page \in Pages /\ cap = n_frames
  BY Current DEF DInv, Capacity, ALGO_LRU, ALGO_LFU, ALGO_ARC, ALGO_TEMPOGRAPH
<1>2. TG!Hit(page) \/ TG!Fault(page)
  BY DEF Serving, Access, SieveReplace, ALGO_LRU, ALGO_LFU, ALGO_ARC, ALGO_TEMPOGRAPH, ALGO_SIEVE
<1>3. Answered(reply')
  BY DEF Serving, Access, SieveReplace, ALGO_LRU, ALGO_LFU, ALGO_ARC, ALGO_TEMPOGRAPH, ALGO_SIEVE
<1>4. TP!Hit(page) \/ TP!Fault(page)
  BY <1>2, SameTg
<1>5. \/ x \in R /\ reply' = "HIT" /\ R' = R
      \/ /\ x \notin R /\ reply' = "FAULT"
         /\ \/ TP!Cardinality(R) < cap /\ R' = R \cup {x}
            \/ /\ TP!Cardinality(R) = cap
               /\ \E v \in R : R' = (R \ {v}) \cup {x}
  <2> HIDE DEF page
  <2> QED BY <1>1, <1>4, TP!AccessServes, Assumed DEF DInv, PoliciesOk
<1> HIDE DEF x, R
<1>6. LP!Serves(n_frames, R, R', x, n_faults, n_faults')
  BY <1>1, <1>3, <1>5, SameCardinality, AnsweredServes
<1>7. a' = a
  BY <1>3 DEF Answered
<1>8. Key(a, page) = x
  BY DEF Key, TG!page_idx, TP!page_idx, x
<1> QED BY <1>6, <1>7, <1>8 DEF HeldBy, ALGO_LRU, ALGO_LFU, ALGO_ARC, ALGO_TEMPOGRAPH, R

LEMMA SieveServes ==
  ASSUME DInv, Replaying, a = ALGO_SIEVE, Serving(trace[i])
  PROVE  LP!Serves(n_frames, HeldBy(a), HeldBy(a)', Key(a, trace[i]), n_faults, n_faults')
<1> DEFINE x == trace[i]
           R == FP!Held
<1>1. x \in Pages /\ n = n_frames /\ n > 0
  BY Current DEF DInv, Capacity, ALGO_LRU, ALGO_LFU, ALGO_ARC, ALGO_TEMPOGRAPH, ALGO_SIEVE
<1>2. /\ Sv!SieveHit(x) \/ Sv!Replace
      /\ Answered(sieve_reply')
  BY DEF Serving, Access, SieveReplace, ALGO_LRU, ALGO_LFU, ALGO_ARC, ALGO_TEMPOGRAPH, ALGO_SIEVE
<1>3. FP!SieveHit(x) \/ FP!Replace
  BY <1>2, SameSieve
<1>4. FP!Replace => x = scanning
  BY Current DEF DInv, RunOk, Replaying, FP!Replace
<1>5. \/ x \in R /\ sieve_reply' = "HIT" /\ R' = R
      \/ /\ x \notin R /\ sieve_reply' = "FAULT"
         /\ \/ FP!Cardinality(R) < n /\ R' = R \cup {x}
            \/ /\ FP!Cardinality(R) = n
               /\ \E v \in R : R' = (R \ {v}) \cup {x}
  <2> HIDE DEF x
  <2> QED BY <1>1, <1>3, <1>4, FP!SieveHitServes, FP!SieveReplaceServes, Assumed DEF DInv, PoliciesOk
<1> HIDE DEF x, R
<1>6. LP!Serves(n_frames, R, R', x, n_faults, n_faults')
  BY <1>1, <1>2, <1>5, SameCardinality, AnsweredServes
<1>7. a' = a
  BY <1>2 DEF Answered
<1> QED BY <1>6, <1>7 DEF HeldBy, Key, ALGO_LRU, ALGO_LFU, ALGO_ARC, ALGO_TEMPOGRAPH, ALGO_SIEVE, x, R

LEMMA EveryPolicyServes ==
  ASSUME DInv, DInv', Replaying, Serving(trace[i])
  PROVE  LP!Serves(n_frames, HeldBy(a), HeldBy(a)', Key(a, trace[i]), n_faults, n_faults')
<1>1. a \in {ALGO_LRU, ALGO_LFU, ALGO_ARC, ALGO_TEMPOGRAPH, ALGO_SIEVE}
  BY Current DEF DInv, Algos, ALGO_COUNT, ALGO_LRU, ALGO_LFU, ALGO_ARC, ALGO_TEMPOGRAPH, ALGO_SIEVE
<1> QED BY <1>1, LruServes, LfuServes, ArcServes, TgServes, SieveServes

\* A turn of a scan changes nothing the account speaks of.
LEMMA ScanKeeps ==
  ASSUME NEW page, SieveScan(page)
  PROVE  HeldBy(a)' = HeldBy(a) /\ UNCHANGED <<pc, trace, n_frames, a, i, n_faults, rows>>
<1>1. a = ALGO_SIEVE /\ UNCHANGED <<pc, trace, n_frames, a, i, n_faults, rows>>
  BY DEF SieveScan, options
<1>2. UNCHANGED <<pages, n>>
  BY DEF SieveScan, Sv!Fault, Sv!Skip
<1>3. FP!Held' = FP!Held
  BY <1>2 DEF FP!Held, FP!Occupied, FP!EMPTY
<1> QED BY <1>1, <1>3 DEF HeldBy, ALGO_LRU, ALGO_LFU, ALGO_ARC, ALGO_TEMPOGRAPH, ALGO_SIEVE

\* A policy starts with nothing held.
LEMMA StartHolds ==
  ASSUME RunType, StartRun
  PROVE  HeldBy(a)' = {}
<1> USE DEF ALGO_LRU, ALGO_LFU, ALGO_ARC, ALGO_TEMPOGRAPH, ALGO_SIEVE
<1>1. a' = a /\ n_frames \in FrameCounts
  BY DEF StartRun, RunType
<1>2. a = ALGO_LRU => lru_hmap' = {}
  BY DEF StartRun, Lru!LruInit, Lru!ResetState
<1>3. a = ALGO_LFU => FP!Resident' = {}
  BY DEF StartRun, Lfu!LfuInit, Lfu!ResetState, FP!Resident
<1>4. a = ALGO_ARC => AP!Held' = {}
  BY DEF StartRun, Arc!ArcInit, Arc!ResetState, AP!Held
<1>5. a = ALGO_TEMPOGRAPH => TP!ResidentSet' = {}
  BY DEF StartRun, TG!TgInit, TG!ResetState, TG!Nodes, TP!ResidentSet, TP!Nodes
<1>6. a = ALGO_SIEVE => FP!Held' = {}
  <2> SUFFICES ASSUME a = ALGO_SIEVE PROVE FP!Held' = {}
    OBVIOUS
  <2>1. Sv!SieveInit(n_frames)
    BY DEF StartRun
  <2>2. n' = n_frames /\ pages' = [q \in Sv!Slots |-> IF q < n_frames THEN Sv!EMPTY ELSE pages[q]]
    BY <2>1 DEF Sv!SieveInit
  <2>3. \A q \in 0..(n_frames - 1) : q \in Sv!Slots /\ q < n_frames
    BY <1>1, Assumed DEF Sv!Slots
  <2>4. \A q \in 0..(n_frames - 1) : pages'[q] = FP!EMPTY
    BY <2>2, <2>3 DEF Sv!EMPTY, FP!EMPTY
  <2>5. FP!Occupied' = {}
    BY <2>2, <2>4 DEF FP!Occupied
  <2> QED BY <2>5 DEF FP!Held
<1>7. a \in {ALGO_LRU, ALGO_LFU, ALGO_ARC, ALGO_TEMPOGRAPH, ALGO_SIEVE}
  BY DEF StartRun
<1> QED BY <1>1, <1>2, <1>3, <1>4, <1>5, <1>6, <1>7 DEF HeldBy

-------------------------------------------------------------------------------
(* The rows.                                                               *)

\* The account of the policy being run.
Account == pc = "replay" => LP!Tally(n_frames, Seen(a), i - 1, HeldBy(a), n_faults)

\* What a row says, of the references for its policy.
RowOk(row) ==
  LET s == Seen(row.algo) IN
  /\ row.algo \in Algos
  /\ row.faults \in 0..Len(trace)
  /\ LP!Optimal(n_frames, s)[Len(trace)].faults <= row.faults
  /\ LP!Cardinality(LP!PagesIn(s, 1, Len(trace))) <= n_frames =>
       row.faults = LP!Cardinality(LP!PagesIn(s, 1, Len(trace)))

RowsOk ==
  /\ rows \in Seq([algo : Nat, accesses : Nat, faults : Nat])
  /\ pc = "load" => rows = <<>>
  /\ \A k \in DOMAIN rows : RowOk(rows[k])

\* The trace as policy b sees it.
LEMMA SeenType ==
  ASSUME NEW b, trace \in Seq(Pages)
  PROVE  /\ Seen(b) \in Seq({Key(b, page) : page \in Pages})
         /\ Len(Seen(b)) = Len(trace)
         /\ \A j \in 1..Len(trace) : Seen(b)[j] = Key(b, trace[j])
<1>1. DOMAIN trace = 1..Len(trace) /\ Len(trace) \in Nat /\ \A j \in 1..Len(trace) : trace[j] \in Pages
  OBVIOUS
<1>2. Seen(b) = [j \in 1..Len(trace) |-> Key(b, trace[j])]
  BY <1>1 DEF Seen
<1>3. Seen(b) \in [1..Len(trace) -> {Key(b, page) : page \in Pages}]
  BY <1>1, <1>2
<1>4. Seen(b) \in Seq({Key(b, page) : page \in Pages}) /\ Len(Seen(b)) = Len(trace)
  <2> DEFINE K == {Key(b, page) : page \in Pages}
             m == Len(trace)
             f == Seen(b)
  <2>1. m \in Nat /\ f \in [1..m -> K]
    BY <1>1, <1>3
  <2> HIDE DEF K, m, f
  <2>2. f \in Seq(K) /\ Len(f) = m
    BY <2>1
  <2> QED BY <2>2 DEF K, m, f
<1> QED BY <1>1, <1>2, <1>4

LEMMA SeenKept ==
  ASSUME NEW b, trace' = trace
  PROVE  Seen(b)' = Seen(b)
BY DEF Seen, Key, TG!page_idx

LEMMA AccountStart == DInv /\ StartRun => Account'
<1> SUFFICES ASSUME DInv, StartRun PROVE Account'
  OBVIOUS
<1>1. a' = a /\ trace' = trace /\ n_frames' = n_frames /\ i' = 1 /\ n_faults' = 0
  BY DEF StartRun, options
<1>2. HeldBy(a)' = {}
  BY StartHolds DEF DInv
<1>3. n_frames \in Nat \ {0} /\ trace \in Seq(Pages)
  BY Assumed DEF DInv, RunType
<1> DEFINE s == Seen(a)
<1>4. s \in Seq({Key(a, page) : page \in Pages})
  BY <1>3, SeenType
<1>5. LP!Tally(n_frames, s, 0, {}, 0)
  BY <1>3, <1>4, LP!TallyStart, Assumed
<1>6. Seen(a)' = s
  BY <1>1, SeenKept
<1>7. (i - 1)' = 0
  BY <1>1
<1> HIDE DEF s
<1>8. LP!Tally(n_frames, Seen(a), i - 1, HeldBy(a), n_faults)'
  BY <1>1, <1>2, <1>5, <1>6, <1>7
<1> QED BY <1>8 DEF Account

LEMMA AccountServed == DInv /\ DInv' /\ Account /\ Replaying /\ Serving(trace[i]) => Account'
<1> SUFFICES ASSUME DInv, DInv', Account, Replaying, Serving(trace[i]) PROVE Account'
  OBVIOUS
<1>1. /\ a' = a /\ trace' = trace /\ n_frames' = n_frames /\ i' = i + 1
  BY DEF Serving, Access, SieveReplace, Answered, options
<1>2. n_frames \in Nat \ {0} /\ trace \in Seq(Pages) /\ i \in 1..Len(trace) /\ i \in Nat
  BY Current, Assumed DEF DInv, RunType
<1> DEFINE s == Seen(a)
           S == {Key(a, page) : page \in Pages}
           R == HeldBy(a)
           R2 == HeldBy(a)'
           F == n_faults
           F2 == n_faults'
<1>3. s \in Seq(S) /\ Len(s) = Len(trace) /\ s[i] = Key(a, trace[i])
  BY <1>2, SeenType
<1>4. LP!Serves(n_frames, R, R2, s[i], F, F2)
  BY <1>3, EveryPolicyServes
<1>5. LP!Tally(n_frames, s, i - 1, R, F)
  BY DEF Account, Replaying
<1> HIDE DEF s, S, R, R2, F, F2
<1>6. LP!Tally(n_frames, s, i, R2, F2)
  BY <1>2, <1>3, <1>4, <1>5, LP!TallyStep, Assumed
<1>7. Seen(a)' = s
  BY <1>1, SeenKept DEF s
<1>8. (i - 1)' = i
  BY <1>1, <1>2
<1>9. LP!Tally(n_frames, Seen(a), i - 1, HeldBy(a), n_faults)'
  BY <1>1, <1>6, <1>7, <1>8 DEF R2, F2
<1> QED BY <1>9 DEF Account

LEMMA AccountKept == DInv /\ DInv' /\ Account /\ [Next]_vars => Account'
<1> SUFFICES ASSUME DInv, DInv', Account, [Next]_vars PROVE Account'
  OBVIOUS
<1>1. CASE UNCHANGED vars
  <2>1. UNCHANGED <<pc, trace, n_frames, a, i, n_faults>> /\ UNCHANGED policies
    BY <1>1 DEF vars, options
  <2>2. HeldBy(a)' = HeldBy(a)
    BY <2>1 DEF HeldBy, policies, lruVars, lfuVars, arcVars, tgVars, sieveVars, FP!Resident,
                AP!Held, TP!ResidentSet, FP!Held, FP!Occupied, FP!EMPTY, TP!Nodes
  <2>3. Seen(a)' = Seen(a)
    BY <2>1, SeenKept
  <2> QED BY <2>1, <2>2, <2>3 DEF Account
<1>2. CASE (\E page \in Pages : ReadPiece(page)) \/ EndLoad \/ EndRun
  <2>1. pc' # "replay"
    BY <1>2 DEF ReadPiece, EndLoad, EndRun, Following
  <2> QED BY <2>1 DEF Account
<1>3. CASE StartRun
  BY <1>3, AccountStart
<1>4. ASSUME SieveScan(trace[i]) PROVE Account'
  <2>1. HeldBy(a)' = HeldBy(a) /\ UNCHANGED <<pc, trace, n_frames, a, i, n_faults>>
    BY <1>4, ScanKeeps
  <2>2. Seen(a)' = Seen(a)
    BY <2>1, SeenKept
  <2> QED BY <2>1, <2>2 DEF Account
<1>5. CASE Replay
  BY <1>4, <1>5, AccountServed DEF Replay, Serving
<1> QED BY <1>1, <1>2, <1>3, <1>5 DEF Next, SkipPiece, Exited

\* The row that ends a run.
LEMMA RowPrinted ==
  ASSUME DInv, Account, EndRun, NEW row, row = [algo |-> a, accesses |-> Len(trace), faults |-> n_faults]
  PROVE  RowOk(row) /\ row \in [algo : Nat, accesses : Nat, faults : Nat]
<1> DEFINE s == Seen(a)
<1>1. n_frames \in Nat \ {0} /\ trace \in Seq(Pages) /\ a \in Algos /\ n_faults \in Nat
  BY Assumed DEF DInv, RunType, EndRun
<1>2. i - 1 = Len(trace) /\ pc = "replay" /\ Len(trace) \in Nat
  BY <1>1 DEF DInv, RunType, RunOk, EndRun
<1>3. s \in Seq({Key(a, page) : page \in Pages}) /\ Len(s) = Len(trace)
  BY <1>1, SeenType
<1>4. LP!Tally(n_frames, s, Len(s), HeldBy(a), n_faults)
  BY <1>2, <1>3 DEF Account
<1> HIDE DEF s
<1>5. /\ n_faults >= LP!Optimal(n_frames, s)[Len(s)].faults /\ n_faults <= Len(s)
      /\ LP!Cardinality(LP!PagesIn(s, 1, Len(s))) <= n_frames => n_faults = LP!Cardinality(LP!PagesIn(s, 1, Len(s)))
  BY <1>1, <1>3, <1>4, LP!TallyEnd, Assumed
<1>6. LP!Optimal(n_frames, s)[Len(s)].faults \in Nat
  BY <1>1, <1>3, LP!OptimalType, Assumed
<1>7. /\ n_faults \in 0..Len(trace)
      /\ LP!Optimal(n_frames, s)[Len(trace)].faults <= n_faults
  BY <1>1, <1>2, <1>3, <1>5, <1>6
<1>8. RowOk(row)
  BY <1>1, <1>3, <1>5, <1>7 DEF RowOk, s
<1> QED BY <1>1, <1>2, <1>8 DEF Algos, ALGO_COUNT

LEMMA RowsKept == DInv /\ Account /\ RowsOk /\ [Next]_vars => RowsOk'
<1> SUFFICES ASSUME DInv, Account, RowsOk, [Next]_vars PROVE RowsOk'
  OBVIOUS
<1>1. ASSUME UNCHANGED <<trace, n_frames>>, NEW row, RowOk(row) PROVE RowOk(row)'
  <2>1. Seen(row.algo)' = Seen(row.algo)
    BY <1>1, SeenKept
  <2> QED BY <1>1, <2>1 DEF RowOk
<1>2. CASE UNCHANGED vars
  BY <1>1, <1>2 DEF vars, options, RowsOk
<1>3. CASE \E page \in Pages : ReadPiece(page)
  BY <1>3 DEF ReadPiece, RowsOk
<1>4. CASE EndLoad
  BY <1>4 DEF EndLoad, RowsOk
<1>5. CASE StartRun
  BY <1>1, <1>5 DEF StartRun, options, RowsOk
<1>6. CASE Replay
  <2>1. UNCHANGED <<pc, trace, n_frames, rows>>
    BY <1>6 DEF Replay, Access, SieveScan, SieveReplace, Answered, options
  <2> QED BY <1>1, <2>1 DEF RowsOk
<1>7. CASE EndRun
  <2> DEFINE row == [algo |-> a, accesses |-> Len(trace), faults |-> n_faults]
             Rows == [algo : Nat, accesses : Nat, faults : Nat]
  <2>1. RowOk(row) /\ row \in Rows
    BY <1>7, RowPrinted
  <2>2. UNCHANGED <<trace, n_frames>> /\ rows' = Append(rows, row)
    BY <1>7 DEF EndRun, options
  <2> HIDE DEF row
  <2>3. rows \in Seq(Rows) /\ \A k \in 1..Len(rows) : RowOk(rows[k])
    BY DEF RowsOk
  <2> HIDE DEF Rows
  <2>4. /\ rows' \in Seq(Rows) /\ Len(rows') = Len(rows) + 1 /\ Len(rows) \in Nat
        /\ \A k \in 1..Len(rows) : rows'[k] = rows[k]
        /\ rows'[Len(rows) + 1] = row
    BY <2>1, <2>2, <2>3
  <2>5. \A k \in 1..Len(rows') : RowOk(rows'[k])
    <3>1. SUFFICES ASSUME NEW k \in 1..Len(rows') PROVE RowOk(rows'[k])
      OBVIOUS
    <3>2. k \in 1..Len(rows) \/ k = Len(rows) + 1
      BY <2>4
    <3> QED BY <2>1, <2>3, <2>4, <3>2
  <2>6. \A k \in DOMAIN rows' : RowOk(rows'[k])
    BY <2>4, <2>5
  <2>7. \A k \in DOMAIN rows' : RowOk(rows[k])'
    BY <1>1, <2>2, <2>6
  <2>8. pc' # "load"
    BY <1>7 DEF EndRun, Following
  <2> QED BY <2>4, <2>7, <2>8 DEF RowsOk, Rows
<1> QED BY <1>2, <1>3, <1>4, <1>5, <1>6, <1>7 DEF Next, SkipPiece, Exited

\* What the rows say is what RowsWithinReferences asks of them: the policies that know
\* pages by their number all see the trace itself.
LEMMA RowsOkSuffices == DInv /\ RowsOk => RowsWithinReferences
<1> SUFFICES ASSUME DInv, RowsOk, rows # <<>> PROVE RowsWithinReferences
  BY DEF RowsWithinReferences
<1> DEFINE optimum == [b \in {ALGO_LRU, ALGO_TEMPOGRAPH} |-> Optimal(n_frames, Seen(b))[Len(trace)].faults]
           cold    == [b \in {ALGO_LRU, ALGO_TEMPOGRAPH} |-> Cardinality(PagesIn(Seen(b), 1, Len(trace)))]
<1>1. SUFFICES ASSUME NEW k \in DOMAIN rows,
                      NEW b \in {ALGO_LRU, ALGO_TEMPOGRAPH},
                      b = IF rows[k].algo = ALGO_TEMPOGRAPH THEN ALGO_TEMPOGRAPH ELSE ALGO_LRU
               PROVE  /\ rows[k].faults >= optimum[b] /\ rows[k].faults <= Len(trace)
                      /\ cold[b] <= n_frames => rows[k].faults = cold[b]
  BY DEF RowsWithinReferences
<1>2. Seen(b) = Seen(rows[k].algo)
  BY <1>1 DEF Seen, Key, ALGO_LRU, ALGO_TEMPOGRAPH
<1>3. RowOk(rows[k])
  BY DEF RowsOk
<1>4. trace \in Seq(Pages) /\ n_frames \in Nat \ {0} /\ Len(trace) \in Nat
  BY Assumed DEF DInv, RunType
<1> DEFINE s == Seen(b)
<1>5. s \in Seq({Key(b, page) : page \in Pages}) /\ Len(s) = Len(trace)
  BY <1>4, SeenType
<1>6. optimum[b] = Optimal(n_frames, s)[Len(trace)].faults /\ cold[b] = Cardinality(PagesIn(s, 1, Len(trace)))
  OBVIOUS
<1> HIDE DEF s, optimum, cold
<1>7. /\ optimum[b] = LP!Optimal(n_frames, s)[Len(trace)].faults
      /\ cold[b] = LP!Cardinality(LP!PagesIn(s, 1, Len(trace)))
  BY <1>6, SameReferences, SameCardinality
<1>8. LP!Optimal(n_frames, s)[Len(trace)].faults \in Nat
  BY <1>4, <1>5, LP!OptimalType, Assumed
<1>9. /\ rows[k].faults \in 0..Len(trace)
      /\ LP!Optimal(n_frames, s)[Len(trace)].faults <= rows[k].faults
      /\ LP!Cardinality(LP!PagesIn(s, 1, Len(trace))) <= n_frames =>
           rows[k].faults = LP!Cardinality(LP!PagesIn(s, 1, Len(trace)))
  BY <1>2, <1>3 DEF RowOk, s
<1> QED BY <1>4, <1>7, <1>8, <1>9

LEMMA RowsInvariance == Spec => [](DInv /\ Account /\ RowsOk)
<1>1. Init => DInv /\ Account /\ RowsOk
  <2> SUFFICES ASSUME Init PROVE DInv /\ Account /\ RowsOk
    OBVIOUS
  <2>1. Account
    BY DEF Init, Account
  <2>2. RowsOk
    BY DEF Init, RowsOk
  <2> QED BY <2>1, <2>2, DInvStart
<1>2. DInv /\ Account /\ RowsOk /\ [Next]_vars => (DInv /\ Account /\ RowsOk)'
  BY DInvKept, AccountKept, RowsKept
<1> QED BY <1>1, <1>2, PTL DEF Spec

-------------------------------------------------------------------------------
(* LRU and stack distances.                                                *)

LruCount ==
  pc = "replay" /\ a = ALGO_LRU =>
    /\ LP!Recent(trace, i - 1, lru_recency)
    /\ n_faults = LP!Cardinality(LP!FarSet(n_frames, trace, i - 1))

LruRowsOk ==
  \A k \in DOMAIN rows : rows[k].algo = ALGO_LRU => rows[k].faults = LP!StackDistanceFaults(n_frames, trace)

LEMMA LruCountStart == RunType /\ StartRun => LruCount'
<1> SUFFICES ASSUME RunType, StartRun, a' = ALGO_LRU
             PROVE  LP!Recent(trace, i - 1, lru_recency)' /\ (n_faults = LP!Cardinality(LP!FarSet(n_frames, trace, i - 1)))'
  BY DEF LruCount
<1>1. a = ALGO_LRU /\ trace' = trace /\ (i - 1)' = 0 /\ n_faults' = 0
  BY DEF StartRun
<1>2. lru_recency' = <<>>
  BY <1>1 DEF StartRun, Lru!LruInit, Lru!ResetState, ALGO_LRU, ALGO_LFU, ALGO_ARC, ALGO_TEMPOGRAPH, ALGO_SIEVE
<1>3. LP!Recent(trace, 0, <<>>)
  BY LP!RecentStart, Assumed
<1>4. LP!FarSet(n_frames, trace, i - 1)' = {}
  BY <1>1 DEF LP!FarSet
<1>5. LP!Cardinality({}) = 0
  BY SameCardinality, FS_EmptySet
<1> QED BY <1>1, <1>2, <1>3, <1>4, <1>5

LEMMA LruCountServed ==
  ASSUME DInv, LruCount, Replaying, a = ALGO_LRU, Serving(trace[i])
  PROVE  LruCount'
<1> DEFINE x == trace[i]
<1>1. /\ Lru!Hit(x) \/ Lru!LoadFree(x) \/ Lru!LoadEvict(x)
      /\ Answered(lru_reply')
  BY DEF Serving, Access, SieveReplace, ALGO_LRU, ALGO_LFU, ALGO_ARC, ALGO_TEMPOGRAPH, ALGO_SIEVE
<1>2. LP!Hit(x) \/ LP!LoadFree(x) \/ LP!LoadEvict(x)
  BY <1>1, SameLru
<1>3. /\ lru_recency' = LP!Used(lru_recency, x)
      /\ x \in lru_hmap => lru_reply' = "HIT"
      /\ x \notin lru_hmap => lru_reply' = "FAULT"
  BY <1>2 DEF LP!Hit, LP!LoadFree, LP!LoadEvict
<1>4. /\ trace \in Seq(Pages) /\ i \in 1..Len(trace) /\ lru_capacity = n_frames
      /\ n_frames \in Nat \ {0} /\ n_faults \in Nat /\ i \in Nat
  BY Current, Assumed DEF DInv, RunType, Capacity
<1>5. /\ lru_hmap = LP!Members(LP!Prefix(lru_recency, n_frames)) /\ lru_recency \in Seq(Pages)
  BY <1>4 DEF DInv, PoliciesOk, LP!IInv, LP!TypeOk, LP!MapMatchesList, LP!ListIsRecentPrefix
<1>6. LP!Recent(trace, i - 1, lru_recency) /\ n_faults = LP!Cardinality(LP!FarSet(n_frames, trace, i - 1))
  BY DEF LruCount, Replaying
<1>7. LP!Recent(trace, i, LP!Used(lru_recency, x))
  BY <1>4, <1>5, <1>6, LP!RecentStep, Assumed
<1>8. x \notin lru_hmap <=> LP!IsFar(n_frames, trace, i)
  BY <1>4, <1>5, <1>6, LP!RecentHit, Assumed
<1>9. /\ a' = a /\ trace' = trace /\ n_frames' = n_frames /\ i' = i + 1
      /\ n_faults' = IF lru_reply' = "FAULT" THEN n_faults + 1 ELSE n_faults
  BY <1>1 DEF Answered, Counted, options
<1>10. n_faults' = LP!Cardinality(LP!FarSet(n_frames, trace, i))
  <2>1. /\ LP!IsFar(n_frames, trace, i) =>
             LP!Cardinality(LP!FarSet(n_frames, trace, i)) = LP!Cardinality(LP!FarSet(n_frames, trace, i - 1)) + 1
        /\ ~LP!IsFar(n_frames, trace, i) => LP!FarSet(n_frames, trace, i) = LP!FarSet(n_frames, trace, i - 1)
    BY <1>4, LP!FarCount, Assumed
  <2>2. "HIT" # "FAULT"
    OBVIOUS
  <2> HIDE DEF x
  <2> QED BY <1>3, <1>6, <1>8, <1>9, <2>1, <2>2
<1>11. (i - 1)' = i
  BY <1>4, <1>9
<1>12. LP!FarSet(n_frames, trace, i - 1)' = LP!FarSet(n_frames, trace, i)
  BY <1>9, <1>11
<1>13. LP!Recent(trace, i - 1, lru_recency)'
  BY <1>3, <1>7, <1>9, <1>11
<1> QED BY <1>10, <1>12, <1>13 DEF LruCount

LEMMA LruCountKept == DInv /\ LruCount /\ [Next]_vars => LruCount'
<1> SUFFICES ASSUME DInv, LruCount, [Next]_vars PROVE LruCount'
  OBVIOUS
<1>1. ASSUME UNCHANGED <<pc, trace, n_frames, a, i, n_faults, lru_recency>> PROVE LruCount'
  <2>1. LP!FarSet(n_frames, trace, i - 1)' = LP!FarSet(n_frames, trace, i - 1)
    BY <1>1
  <2>2. LP!Recent(trace, i - 1, lru_recency) => LP!Recent(trace, i - 1, lru_recency)'
    BY <1>1
  <2> QED BY <1>1, <2>1, <2>2 DEF LruCount
<1>2. CASE UNCHANGED vars
  BY <1>1, <1>2 DEF vars, options, policies, lruVars
<1>3. CASE (\E page \in Pages : ReadPiece(page)) \/ EndLoad \/ EndRun
  <2>1. pc' # "replay"
    BY <1>3 DEF ReadPiece, EndLoad, EndRun, Following
  <2> QED BY <2>1 DEF LruCount
<1>4. CASE StartRun
  BY <1>4, LruCountStart DEF DInv
<1>5. CASE Replay /\ a = ALGO_LRU
  <2>1. Replaying /\ Serving(trace[i])
    BY <1>5 DEF Replay, SieveScan, SieveReplace, Serving, ALGO_LRU, ALGO_SIEVE
  <2> QED BY <1>5, <2>1, LruCountServed
<1>6. CASE Replay /\ a # ALGO_LRU
  <2>1. a' = a
    BY <1>6 DEF Replay, Access, SieveScan, SieveReplace, Answered
  <2> QED BY <1>6, <2>1 DEF LruCount
<1> QED BY <1>2, <1>3, <1>4, <1>5, <1>6 DEF Next, SkipPiece, Exited

LEMMA LruRowsKept == DInv /\ RowsOk /\ LruCount /\ LruRowsOk /\ [Next]_vars => LruRowsOk'
<1> SUFFICES ASSUME DInv, RowsOk, LruCount, LruRowsOk, [Next]_vars PROVE LruRowsOk'
  OBVIOUS
<1>1. ASSUME UNCHANGED <<trace, n_frames>>
      PROVE  LP!StackDistanceFaults(n_frames, trace)' = LP!StackDistanceFaults(n_frames, trace)
  BY <1>1
<1>2. ASSUME UNCHANGED <<trace, n_frames, rows>> PROVE LruRowsOk'
  BY <1>1, <1>2 DEF LruRowsOk
<1>3. CASE UNCHANGED vars
  BY <1>2, <1>3 DEF vars, options
<1>4. CASE \E page \in Pages : ReadPiece(page)
  <2>1. rows' = <<>>
    BY <1>4 DEF ReadPiece, RowsOk
  <2> QED BY <2>1 DEF LruRowsOk
<1>5. CASE EndLoad \/ StartRun \/ Replay
  <2>1. UNCHANGED <<trace, n_frames, rows>>
    BY <1>5 DEF EndLoad, StartRun, Replay, Access, SieveScan, SieveReplace, Answered, options
  <2> QED BY <1>2, <2>1
<1>6. CASE EndRun
  <2>1. /\ rows \in Seq([algo : Nat, accesses : Nat, faults : Nat])
        /\ UNCHANGED <<trace, n_frames>>
        /\ rows' = Append(rows, [algo |-> a, accesses |-> Len(trace), faults |-> n_faults])
    BY <1>6 DEF RowsOk, EndRun, options
  <2>2. \A k \in DOMAIN rows' :
          \/ k \in DOMAIN rows /\ rows'[k] = rows[k]
          \/ rows'[k].algo = a /\ rows'[k].faults = n_faults
    BY <2>1
  <2>3. a = ALGO_LRU => n_faults = LP!StackDistanceFaults(n_frames, trace)
    <3>1. trace \in Seq(Pages) /\ i - 1 = Len(trace) /\ pc = "replay"
      BY <1>6 DEF DInv, RunType, RunOk, EndRun
    <3>2. DOMAIN trace = 1..Len(trace)
      BY <3>1
    <3>3. LP!FarSet(n_frames, trace, i - 1) = {j \in DOMAIN trace : LP!IsFar(n_frames, trace, j)}
      BY <3>1, <3>2 DEF LP!FarSet
    <3> QED BY <3>1, <3>3 DEF LruCount, LP!StackDistanceFaults
  <2> QED BY <1>1, <2>1, <2>2, <2>3 DEF LruRowsOk
<1> QED BY <1>3, <1>4, <1>5, <1>6 DEF Next, SkipPiece, Exited

LEMMA LruCorrect == Spec => []LruCountsStackDistances
<1>1. Init => LruCount /\ LruRowsOk
  BY DEF Init, LruCount, LruRowsOk
<1>2. DInv /\ RowsOk /\ LruCount /\ LruRowsOk /\ [Next]_vars => (LruCount /\ LruRowsOk)'
  BY LruCountKept, LruRowsKept
<1>3. LruRowsOk => LruCountsStackDistances
  BY SameReferences DEF LruRowsOk, LruCountsStackDistances
<1> QED BY <1>1, <1>2, <1>3, RowsInvariance, PTL DEF Spec

\* main.c: no policy's row is below the optimum's faults (Belady), none is above the
\* number of accesses, each is the number of pages while these fit in the frames, and
\* LRU's is the number of accesses to a new page or to one since whose last use at least
\* as many others were used as there are frames, for every trace, number of frames and
\* window.
THEOREM RowsCorrect == Spec => []RowsMatchReferences
BY RowsInvariance, RowsOkSuffices, LruCorrect, PTL DEF RowsMatchReferences

-------------------------------------------------------------------------------
(* What a scan of more pages than there are frames costs.                  *)

\* Before access i of a scan, lfu.c, arc.c and sieve.c hold the pages of the accesses
\* just before it, and have faulted on all of them.
Scanned ==
  pc = "replay" /\ ScanExceedsFrames /\ a \in {ALGO_LFU, ALGO_ARC, ALGO_SIEVE} =>
    /\ n_faults = i - 1
    /\ a = ALGO_LFU => FP!LfuScanned(slots, lfu_size, lfu_clock, lfu_cap, trace, i - 1)
    /\ a = ALGO_ARC => AP!ArcScanned(lists, c, trace, i - 1)
    /\ a = ALGO_SIEVE => FP!SieveScanned(pages, visited, hand, n, trace, i - 1)

LEMMA ScanIs ==
  ASSUME RunType, ScanExceedsFrames
  PROVE  /\ n_frames \in Nat \ {0} /\ trace \in Seq(Pages)
         /\ \E k \in Nat : n_frames < k /\ LP!IsScan(trace, k)
<1>1. n_frames \in Nat \ {0} /\ trace \in Seq(Pages)
  BY Assumed DEF RunType
<1>2. PICK k \in (n_frames + 1)..Len(trace) : IsScan(trace, k)
  BY DEF ScanExceedsFrames
<1>3. k \in Nat /\ n_frames < k /\ LP!IsScan(trace, k)
  BY <1>1, <1>2, SameReferences
<1> QED BY <1>1, <1>3

\* The page of access i is none of the n_frames before it.
LEMMA ScanUnseen ==
  ASSUME DInv, Replaying, ScanExceedsFrames, NEW j, j = i - 1
  PROVE  /\ FP!Unseen(n_frames, trace, j) /\ AP!Unseen(n_frames, trace, j)
         /\ j \in Nat /\ j + 1 = i /\ trace[j + 1] \in Pages
<1>1. i \in 1..Len(trace) /\ trace[i] \in Pages /\ n_frames \in Nat \ {0} /\ trace \in Seq(Pages)
  BY Current, ScanIs DEF DInv
<1>2. j \in Nat /\ j + 1 = i
  BY <1>1
<1>3. PICK k \in Nat : n_frames < k /\ LP!IsScan(trace, k)
  BY ScanIs DEF DInv
<1>4. ASSUME NEW t \in 1..j, j - t < n_frames PROVE trace[t] # trace[j + 1]
  <2>1. t \in 1..Len(trace) /\ t < i /\ i - t <= n_frames
    BY <1>1, <1>2, <1>4
  <2>2. trace[t] # trace[i]
    BY <1>1, <1>3, <2>1, LP!NotRecent, Assumed
  <2> QED BY <1>2, <2>2
<1> QED BY <1>1, <1>2, <1>4 DEF FP!Unseen, AP!Unseen

LEMMA ScannedStart == DInv /\ StartRun => Scanned'
<1> SUFFICES ASSUME DInv, StartRun PROVE Scanned'
  OBVIOUS
<1> USE DEF ALGO_LRU, ALGO_LFU, ALGO_ARC, ALGO_TEMPOGRAPH, ALGO_SIEVE
<1>1. a' = a /\ i' = 1 /\ n_faults' = 0 /\ trace' = trace /\ n_frames \in FrameCounts /\ n_frames \in Nat \ {0}
  BY Assumed DEF StartRun, options, DInv, RunType
<1>2. a = ALGO_LFU => FP!LfuScanned(slots', lfu_size', lfu_clock', lfu_cap', trace, 0)
  <2>1. a = ALGO_LFU => lfu_size' = 0 /\ lfu_clock' = 0
    BY DEF StartRun, Lfu!LfuInit, Lfu!ResetState
  <2> QED BY <2>1, FP!LfuScanStart, Assumed
<1>3. a = ALGO_ARC => AP!ArcScanned(lists', c', trace, 0)
  <2>1. a = ALGO_ARC => lists' = [l \in {"T1", "T2", "B1", "B2"} |-> <<>>] /\ c' = n_frames
    BY DEF StartRun, Arc!ArcInit, Arc!ResetState, Arc!ListNames
  <2>2. AP!ArcScanned([l \in {"T1", "T2", "B1", "B2"} |-> <<>>], n_frames, trace, 0)
    BY <1>1, AP!ArcScanStart, Assumed
  <2> QED BY <2>1, <2>2
<1>4. a = ALGO_SIEVE => FP!SieveScanned(pages', visited', hand', n', trace, 0)
  <2>1. a = ALGO_SIEVE => FP!SieveInit(n_frames)
    BY SameSieve DEF StartRun
  <2> QED BY <1>1, <2>1, FP!SieveScanStart, Assumed
<1>5. i' - 1 = 0
  BY <1>1
<1> QED BY <1>1, <1>2, <1>3, <1>4, <1>5 DEF Scanned

LEMMA LfuScannedServed ==
  ASSUME DInv, Replaying, ScanExceedsFrames, Scanned, a = ALGO_LFU, Serving(trace[i])
  PROVE  /\ trace[i] \notin FP!Resident
         /\ FP!LfuScanned(slots', lfu_size', lfu_clock', lfu_cap', trace, i)
<1> DEFINE j == i - 1
<1>1. /\ FP!Unseen(n_frames, trace, j) /\ j \in Nat /\ j + 1 = i /\ trace[j + 1] \in Pages
      /\ lfu_cap = n_frames
  BY ScanUnseen, Current DEF DInv, Capacity, ALGO_LRU, ALGO_LFU
<1>2. FP!LfuScanned(slots, lfu_size, lfu_clock, lfu_cap, trace, j)
  BY DEF Scanned, Replaying
<1> HIDE DEF j
<1>3. FP!Hit(trace[j + 1]) \/ FP!LoadFree(trace[j + 1]) \/ FP!LoadEvict(trace[j + 1])
  BY <1>1, SameLfu DEF Serving, Access, SieveReplace, ALGO_LRU, ALGO_LFU, ALGO_ARC,
                       ALGO_TEMPOGRAPH, ALGO_SIEVE
<1>4. FP!IInv
  BY DEF DInv, PoliciesOk
<1>5. trace[j + 1] \notin FP!Resident
  BY <1>1, <1>2, <1>4, FP!LfuScanMisses, Assumed
<1>6. FP!LfuScanned(slots', lfu_size', lfu_clock', lfu_cap, trace, j + 1)
  BY <1>1, <1>2, <1>3, <1>4, FP!LfuScanStep, Assumed
<1>7. lfu_cap' = lfu_cap
  BY <1>3 DEF FP!Hit, FP!LoadFree, FP!LoadEvict, FP!Observe
<1> QED BY <1>1, <1>5, <1>6, <1>7

LEMMA ArcScannedServed ==
  ASSUME DInv, Replaying, ScanExceedsFrames, Scanned, a = ALGO_ARC, Serving(trace[i])
  PROVE  /\ trace[i] \notin AP!Held
         /\ AP!ArcScanned(lists', c', trace, i)
<1> DEFINE j == i - 1
<1>1. /\ AP!Unseen(n_frames, trace, j) /\ j \in Nat /\ j + 1 = i /\ trace[j + 1] \in Pages
      /\ c = n_frames /\ c > 0
  BY ScanUnseen, Current DEF DInv, Capacity, ALGO_LRU, ALGO_LFU, ALGO_ARC
<1>2. AP!ArcScanned(lists, c, trace, j)
  BY DEF Scanned, Replaying
<1> HIDE DEF j
<1>3. /\ AP!Hit(trace[j + 1]) \/ AP!GhostHitB1(trace[j + 1]) \/ AP!GhostHitB2(trace[j + 1])
           \/ AP!Miss(trace[j + 1])
  BY <1>1, SameArc DEF Serving, Access, SieveReplace, ALGO_LRU, ALGO_LFU, ALGO_ARC,
                       ALGO_TEMPOGRAPH, ALGO_SIEVE
<1>4. AP!IInv
  BY DEF DInv, PoliciesOk
<1>5. ahmap[trace[j + 1]] = "none"
  BY <1>1, <1>2, <1>4, AP!ArcScanMisses, Assumed
<1>6. AP!ArcScanned(lists', c, trace, j + 1)
  BY <1>1, <1>2, <1>3, <1>4, AP!ArcScanStep, Assumed
<1>7. c' = c
  BY <1>3 DEF AP!Hit, AP!GhostHitB1, AP!GhostHitB2, AP!Miss, AP!Access
<1> QED BY <1>1, <1>5, <1>6, <1>7 DEF AP!Held

LEMMA SieveScannedServed ==
  ASSUME DInv, Replaying, ScanExceedsFrames, Scanned, a = ALGO_SIEVE, Serving(trace[i])
  PROVE  /\ trace[i] \notin FP!Held
         /\ FP!SieveScanned(pages', visited', hand', n', trace, i)
<1> DEFINE j == i - 1
<1>1. /\ FP!Unseen(n_frames, trace, j) /\ j \in Nat /\ j + 1 = i /\ trace[j + 1] \in Pages
      /\ n = n_frames /\ n > 0
  BY ScanUnseen, Current DEF DInv, Capacity, ALGO_LRU, ALGO_LFU, ALGO_ARC, ALGO_TEMPOGRAPH, ALGO_SIEVE
<1>2. FP!SieveScanned(pages, visited, hand, n, trace, j)
  BY DEF Scanned, Replaying
<1> HIDE DEF j
<1>3. FP!SieveHit(trace[j + 1]) \/ FP!Replace
  BY <1>1, SameSieve DEF Serving, Access, SieveReplace, ALGO_LRU, ALGO_LFU, ALGO_ARC,
                         ALGO_TEMPOGRAPH, ALGO_SIEVE
<1>4. FP!SieveIInv
  BY DEF DInv, PoliciesOk
<1>5. trace[j + 1] \notin FP!Held /\ ~FP!SieveHit(trace[j + 1])
  BY <1>1, <1>2, <1>4, FP!SieveScanMisses, Assumed
<1>6. FP!Replace /\ scanning = trace[j + 1]
  BY <1>1, <1>3, <1>5 DEF FP!Replace, DInv, RunOk, Replaying
<1>7. FP!SieveScanned(pages', visited', hand', n', trace, j + 1)
  BY <1>1, <1>2, <1>4, <1>6, FP!SieveScanStep, Assumed
<1> QED BY <1>1, <1>5, <1>7

LEMMA ScannedServed ==
  ASSUME DInv, DInv', Scanned, Replaying, Serving(trace[i])
  PROVE  Scanned'
<1>1. a' = a /\ trace' = trace /\ n_frames' = n_frames /\ i' = i + 1
  BY DEF Serving, Access, SieveReplace, Answered, options
<1>2. ScanExceedsFrames' <=> ScanExceedsFrames
  BY <1>1 DEF ScanExceedsFrames
<1>3. SUFFICES ASSUME ScanExceedsFrames, a \in {ALGO_LFU, ALGO_ARC, ALGO_SIEVE} PROVE Scanned'
  BY <1>1, <1>2 DEF Scanned
<1>4. /\ a = ALGO_LFU => /\ trace[i] \notin FP!Resident
                         /\ FP!LfuScanned(slots', lfu_size', lfu_clock', lfu_cap', trace, i)
      /\ a = ALGO_ARC => /\ trace[i] \notin AP!Held
                         /\ AP!ArcScanned(lists', c', trace, i)
      /\ a = ALGO_SIEVE => /\ trace[i] \notin FP!Held
                           /\ FP!SieveScanned(pages', visited', hand', n', trace, i)
  BY <1>3, LfuScannedServed, ArcScannedServed, SieveScannedServed
<1>5. Key(a, trace[i]) \notin HeldBy(a)
  BY <1>3, <1>4 DEF Key, HeldBy, ALGO_LRU, ALGO_LFU, ALGO_ARC, ALGO_TEMPOGRAPH, ALGO_SIEVE
<1>6. n_faults' = n_faults + 1
  <2>1. LP!Serves(n_frames, HeldBy(a), HeldBy(a)', Key(a, trace[i]), n_faults, n_faults')
    BY EveryPolicyServes
  <2> QED BY <1>5, <2>1 DEF LP!Serves
<1>7. n_faults = i - 1 /\ i \in Nat
  BY <1>3 DEF Scanned, Replaying, DInv, RunType
<1>8. i' - 1 = i /\ n_faults' = i' - 1
  BY <1>1, <1>6, <1>7
<1> QED BY <1>1, <1>4, <1>8 DEF Scanned

LEMMA ScannedKept == DInv /\ DInv' /\ Scanned /\ [Next]_vars => Scanned'
<1> SUFFICES ASSUME DInv, DInv', Scanned, [Next]_vars PROVE Scanned'
  OBVIOUS
<1>1. ASSUME UNCHANGED <<trace, n_frames>> PROVE ScanExceedsFrames' <=> ScanExceedsFrames
  BY <1>1 DEF ScanExceedsFrames
<1>2. CASE UNCHANGED vars
  BY <1>1, <1>2 DEF vars, options, policies, lfuVars, arcVars, sieveVars, Scanned
<1>3. CASE (\E page \in Pages : ReadPiece(page)) \/ EndLoad \/ EndRun
  <2>1. pc' # "replay"
    BY <1>3 DEF ReadPiece, EndLoad, EndRun, Following
  <2> QED BY <2>1 DEF Scanned
<1>4. CASE StartRun
  BY <1>4, ScannedStart
<1>5. ASSUME Replaying, SieveScan(trace[i]) PROVE Scanned'
  <2>1. a = ALGO_SIEVE /\ UNCHANGED <<pc, trace, n_frames, a, i, n_faults>>
    BY <1>5 DEF SieveScan, options
  <2>2. FP!Fault(trace[i]) \/ FP!Skip
    BY <1>5, SameSieve DEF SieveScan
  <2>3. FP!SieveIInv /\ n > 0
    BY <1>5, <2>1, Current DEF DInv, PoliciesOk, Capacity, ALGO_LRU, ALGO_LFU, ALGO_ARC,
                               ALGO_TEMPOGRAPH, ALGO_SIEVE
  <2>4. SUFFICES ASSUME ScanExceedsFrames PROVE Scanned'
    BY <1>1, <2>1 DEF Scanned
  <2>5. n_faults = i - 1 /\ FP!SieveScanned(pages, visited, hand, n, trace, i - 1)
    BY <1>5, <2>1, <2>4 DEF Scanned, Replaying
  <2>6. UNCHANGED <<pages, visited, hand, n>>
    BY <2>2, <2>3, <2>5, FP!SieveScanStays, Assumed
  <2> QED BY <2>1, <2>5, <2>6 DEF Scanned, ALGO_LFU, ALGO_ARC, ALGO_SIEVE
<1>6. CASE Replay
  BY <1>5, <1>6, ScannedServed DEF Replay, Serving
<1> QED BY <1>2, <1>3, <1>4, <1>6 DEF Next, SkipPiece, Exited


ScanRowsOk ==
  ScanExceedsFrames =>
    \A k \in DOMAIN rows : rows[k].algo \in {ALGO_LFU, ALGO_ARC, ALGO_SIEVE} => rows[k].faults = Len(trace)

LEMMA ScanRowsKept == DInv /\ RowsOk /\ Scanned /\ ScanRowsOk /\ [Next]_vars => ScanRowsOk'
<1> SUFFICES ASSUME DInv, RowsOk, Scanned, ScanRowsOk, [Next]_vars PROVE ScanRowsOk'
  OBVIOUS
<1>1. ASSUME UNCHANGED <<trace, n_frames>> PROVE ScanExceedsFrames' <=> ScanExceedsFrames
  BY <1>1 DEF ScanExceedsFrames
<1>2. ASSUME UNCHANGED <<trace, n_frames, rows>> PROVE ScanRowsOk'
  BY <1>1, <1>2 DEF ScanRowsOk
<1>3. CASE UNCHANGED vars
  BY <1>2, <1>3 DEF vars, options
<1>4. CASE \E page \in Pages : ReadPiece(page)
  <2>1. rows' = <<>>
    BY <1>4 DEF ReadPiece, RowsOk
  <2> QED BY <2>1 DEF ScanRowsOk
<1>5. CASE EndLoad \/ StartRun \/ Replay
  <2>1. UNCHANGED <<trace, n_frames, rows>>
    BY <1>5 DEF EndLoad, StartRun, Replay, Access, SieveScan, SieveReplace, Answered, options
  <2> QED BY <1>2, <2>1
<1>6. CASE EndRun
  <2>1. /\ rows \in Seq([algo : Nat, accesses : Nat, faults : Nat])
        /\ UNCHANGED <<trace, n_frames>>
        /\ rows' = Append(rows, [algo |-> a, accesses |-> Len(trace), faults |-> n_faults])
    BY <1>6 DEF RowsOk, EndRun, options
  <2>2. \A k \in DOMAIN rows' :
          \/ k \in DOMAIN rows /\ rows'[k] = rows[k]
          \/ rows'[k].algo = a /\ rows'[k].faults = n_faults
    BY <2>1
  <2>3. ScanExceedsFrames /\ a \in {ALGO_LFU, ALGO_ARC, ALGO_SIEVE} => n_faults = Len(trace)
    <3>1. i - 1 = Len(trace) /\ pc = "replay"
      BY <1>6 DEF DInv, RunType, RunOk, EndRun
    <3> QED BY <3>1 DEF Scanned
  <2> QED BY <1>1, <2>1, <2>2, <2>3 DEF ScanRowsOk
<1> QED BY <1>3, <1>4, <1>5, <1>6 DEF Next, SkipPiece, Exited

LEMMA ScanRowsSuffice == DInv /\ RowsOk /\ LruRowsOk /\ ScanRowsOk => ScanDefeatsTheOthers
<1> SUFFICES ASSUME DInv, RowsOk, LruRowsOk, ScanRowsOk, ScanExceedsFrames,
                    NEW k \in DOMAIN rows, rows[k].algo # ALGO_TEMPOGRAPH
             PROVE  rows[k].faults = Len(trace)
  BY DEF ScanDefeatsTheOthers
<1>1. rows[k].algo \in {ALGO_LRU, ALGO_LFU, ALGO_ARC, ALGO_SIEVE}
  BY DEF RowsOk, RowOk, Algos, ALGO_COUNT, ALGO_LRU, ALGO_LFU, ALGO_ARC, ALGO_TEMPOGRAPH, ALGO_SIEVE
<1>2. CASE rows[k].algo = ALGO_LRU
  <2>1. n_frames \in Nat \ {0} /\ trace \in Seq(Pages)
    BY ScanIs DEF DInv
  <2>2. PICK q \in Nat : n_frames < q /\ LP!IsScan(trace, q)
    BY ScanIs DEF DInv
  <2>3. LP!StackDistanceFaults(n_frames, trace) = Len(trace)
    BY <2>1, <2>2, LP!ScanCountsAll, Assumed
  <2> QED BY <1>2, <2>3 DEF LruRowsOk
<1>3. CASE rows[k].algo \in {ALGO_LFU, ALGO_ARC, ALGO_SIEVE}
  BY <1>3 DEF ScanRowsOk
<1> QED BY <1>1, <1>2, <1>3

\* DEMO.md:66: a trace that repeats more pages than there are frames in the same order
\* makes LRU, LFU, ARC and SIEVE fault on every access, for every trace of that kind and
\* number of frames.
THEOREM ScanCorrect == Spec => []ScanDefeatsTheOthers
<1>1. Init => LruCount /\ LruRowsOk /\ Scanned /\ ScanRowsOk
  BY DEF Init, LruCount, LruRowsOk, Scanned, ScanRowsOk
<1>2. DInv /\ DInv' /\ RowsOk /\ LruCount /\ LruRowsOk /\ Scanned /\ ScanRowsOk /\ [Next]_vars =>
        (LruCount /\ LruRowsOk /\ Scanned /\ ScanRowsOk)'
  BY LruCountKept, LruRowsKept, ScannedKept, ScanRowsKept
<1> QED BY <1>1, <1>2, RowsInvariance, ScanRowsSuffice, PTL DEF Spec

-------------------------------------------------------------------------------
(* Which rows are printed.                                                 *)

\* The policy main began with.
FirstAlgo == IF algo = ALL THEN 0 ELSE algo

RowOrder ==
  /\ \A k \in DOMAIN rows : rows[k].algo = FirstAlgo + (k - 1)
  /\ pc \in {"start", "replay"} =>
       trace # <<>> /\ a = FirstAlgo + Len(rows) /\ (algo # ALL => rows = <<>>)
  /\ pc = "exit" =>
       Len(rows) = IF trace = <<>> THEN 0 ELSE IF algo = ALL THEN ALGO_COUNT ELSE 1

LEMMA RowOrderKept == RunType /\ RowsOk /\ RowOrder /\ [Next]_vars => RowOrder'
<1> SUFFICES ASSUME RunType, RowsOk, RowOrder, [Next]_vars PROVE RowOrder'
  OBVIOUS
<1> DEFINE Rows == [algo : Nat, accesses : Nat, faults : Nat]
<1>1. rows \in Seq(Rows) /\ (pc = "load" => rows = <<>>) /\ FirstAlgo \in Nat /\ algo \in {ALL} \cup Algos
  BY DEF RowsOk, RunType, FirstAlgo, Algos, ALGO_COUNT
<1> HIDE DEF Rows
<1>2. CASE UNCHANGED vars
  BY <1>2 DEF vars, options, RowOrder, FirstAlgo
<1>3. ASSUME NEW page, ReadPiece(page) PROVE RowOrder'
  BY <1>1, <1>3 DEF ReadPiece, options, RowOrder, FirstAlgo
<1>4. CASE EndLoad
  <2>1. rows' = <<>> /\ UNCHANGED <<trace, algo>> /\ pc' = (IF trace = <<>> THEN "exit" ELSE "start")
        /\ a' = FirstAlgo
    BY <1>1, <1>4 DEF EndLoad, options, FirstAlgo
  <2>2. FirstAlgo' = FirstAlgo
    BY <2>1 DEF FirstAlgo
  <2> QED BY <1>1, <2>1, <2>2 DEF RowOrder
<1>5. CASE StartRun
  BY <1>5 DEF StartRun, options, RowOrder, FirstAlgo
<1>6. CASE Replay
  <2>1. UNCHANGED <<pc, trace, algo, a, rows>>
    BY <1>6 DEF Replay, Access, SieveScan, SieveReplace, Answered, options
  <2> QED BY <2>1 DEF RowOrder, FirstAlgo
<1>7. CASE EndRun
  <2> DEFINE row == [algo |-> a, accesses |-> Len(trace), faults |-> n_faults]
  <2>1. /\ UNCHANGED <<trace, algo>> /\ rows' = Append(rows, row) /\ row.algo = a
        /\ pc = "replay" /\ pc' = Following /\ a' = a + 1
    BY <1>7 DEF EndRun, options
  <2>2. FirstAlgo' = FirstAlgo /\ a \in 0..4 /\ trace # <<>> /\ a = FirstAlgo + Len(rows)
        /\ (algo # ALL => rows = <<>>)
    BY <2>1 DEF FirstAlgo, RowOrder, RunType, Algos, ALGO_COUNT
  <2> HIDE DEF row
  <2>3. /\ Len(rows) \in Nat /\ Len(rows') = Len(rows) + 1 /\ DOMAIN rows' = 1..(Len(rows) + 1)
        /\ \A k \in 1..Len(rows) : rows'[k] = rows[k]
        /\ rows'[Len(rows) + 1] = row
    BY <1>1, <2>1
  <2>4. \A k \in DOMAIN rows' : rows'[k].algo = FirstAlgo + (k - 1)
    <3> SUFFICES ASSUME NEW k \in 1..(Len(rows) + 1) PROVE rows'[k].algo = FirstAlgo + (k - 1)
      BY <2>3
    <3>1. CASE k \in 1..Len(rows)
      <4>1. k \in DOMAIN rows /\ rows'[k] = rows[k]
        BY <1>1, <2>3, <3>1
      <4>2. rows[k].algo = FirstAlgo + (k - 1)
        BY <4>1 DEF RowOrder
      <4> QED BY <4>1, <4>2
    <3>2. CASE k = Len(rows) + 1
      BY <2>1, <2>2, <2>3, <3>2
    <3> QED BY <2>3, <3>1, <3>2
  <2>5. pc' \in {"start", "replay"} => algo = ALL /\ a' = FirstAlgo + Len(rows')
    BY <1>1, <2>1, <2>2, <2>3 DEF Following
  <2>6. pc' = "exit" => Len(rows') = IF algo = ALL THEN ALGO_COUNT ELSE 1
    <3>1. CASE algo = ALL
      BY <2>1, <2>2, <2>3, <3>1 DEF Following, FirstAlgo, ALGO_COUNT
    <3>2. CASE algo # ALL
      <4>1. Len(rows) = 0
        BY <2>2, <3>2
      <4> QED BY <2>3, <3>2, <4>1
    <3> QED BY <3>1, <3>2
  <2> QED BY <2>1, <2>2, <2>4, <2>5, <2>6 DEF RowOrder
<1> QED BY <1>2, <1>3, <1>4, <1>5, <1>6, <1>7 DEF Next, SkipPiece, Exited

LEMMA RowOrderSuffices == RunType /\ RowsOk /\ RowOrder => (pc = "exit" => RowsAskedFor)
<1> SUFFICES ASSUME RunType, RowsOk, RowOrder, pc = "exit" PROVE RowsAskedFor
  OBVIOUS
<1>1. /\ rows \in Seq([algo : Nat, accesses : Nat, faults : Nat])
      /\ DOMAIN rows = 1..Len(rows) /\ algo \in {ALL} \cup Algos
  BY DEF RowsOk, RunType
<1> DEFINE printed == [k \in DOMAIN rows |-> rows[k].algo]
<1>2. /\ \A k \in DOMAIN rows : rows[k].algo = FirstAlgo + (k - 1)
      /\ Len(rows) = IF trace = <<>> THEN 0 ELSE IF algo = ALL THEN ALGO_COUNT ELSE 1
  BY DEF RowOrder
<1>3. CASE trace = <<>>
  <2>1. DOMAIN rows = {}
    BY <1>1, <1>2, <1>3
  <2>2. printed = <<>>
    BY <2>1
  <2> QED BY <1>3, <2>2 DEF RowsAskedFor
<1>4. CASE trace # <<>> /\ algo = ALL
  <2>1. DOMAIN rows = 1..ALGO_COUNT /\ \A k \in 1..ALGO_COUNT : rows[k].algo = k - 1
    BY <1>1, <1>2, <1>4 DEF FirstAlgo, ALGO_COUNT
  <2>2. printed = [k \in 1..ALGO_COUNT |-> k - 1]
    BY <2>1
  <2> QED BY <1>4, <2>2 DEF RowsAskedFor
<1>5. CASE trace # <<>> /\ algo # ALL
  <2>1. DOMAIN rows = 1..1 /\ rows[1].algo = algo
    BY <1>1, <1>2, <1>5 DEF FirstAlgo, Algos, ALGO_COUNT
  <2>2. printed = <<algo>>
    BY <2>1
  <2> QED BY <1>5, <2>2 DEF RowsAskedFor
<1> QED BY <1>3, <1>4, <1>5

\* main.c: when the program exits it has printed one row for each policy asked for, in
\* the order of ALGO_NAMES, or none for an empty trace; that it does exit is not proved.
THEOREM ExitRows == Spec => [](pc = "exit" => RowsAskedFor)
<1>1. Init => RowOrder
  BY DEF Init, RowOrder
<1>2. RunType /\ RowsOk /\ RowOrder /\ [Next]_vars => RowOrder'
  BY RowOrderKept
<1>3. DInv => RunType
  BY DEF DInv
<1> QED BY <1>1, <1>2, <1>3, RowsInvariance, RowOrderSuffices, PTL DEF Spec

===============================================================================
