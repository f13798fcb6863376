--------------------------------- MODULE Arc ---------------------------------
(***************************************************************************)
(* The ARC policy (arc.c).  T1 and T2 hold the resident pages, B1 and B2   *)
(* the ghosts of pages evicted from them; p is the adaptive target for T1. *)
(* ahmap maps a page to its node: here, to the list the node is tagged     *)
(* with, or "none".  One action per case of arc_access.                    *)
(***************************************************************************)
EXTENDS Lists, FiniteSets

CONSTANTS Pages, FrameCounts

ASSUME FramesAssumption == FrameCounts \subseteq Nat \ {0}

VARIABLES
  lists,       \* [T1, T2, B1, B2 |-> the pages of the nodes from head to tail]
  ahmap,
  c, p,
  recency,     \* history variable: all pages used since arc_init, last used first
  reply        \* history variable: what the last arc_access returned

vars == <<lists, ahmap, c, p, recency, reply>>

ListNames == {"T1", "T2", "B1", "B2"}

Init ==
  /\ lists = [l \in ListNames |-> <<>>] /\ ahmap = [x \in Pages |-> "none"]
  /\ c = 0 /\ p = 0
  /\ recency = <<>> /\ reply = "none"

ResetState ==
  /\ lists' = [l \in ListNames |-> <<>>] /\ ahmap' = [x \in Pages |-> "none"]
  /\ p' = 0
  /\ recency' = <<>> /\ reply' = "none"
ArcReset == ResetState /\ c' = 0
ArcInit(n_frames) == ResetState /\ c' = n_frames

Size(l) == Len(lists[l])

-------------------------------------------------------------------------------
(* The directory as a pair of fields, moved through the steps of a case.   *)

Dir == [lists |-> lists, ahmap |-> ahmap]

\* dl_pop_tail, ahm_del and free.
Forget(d, l) ==
  [lists |-> [d.lists EXCEPT ![l] = PopTail(@)],
   ahmap |-> [d.ahmap EXCEPT ![Tip(d.lists[l])] = "none"]]

\* Mutant of Demote: the ghost enters its list at the old end.
DemoteToTail(d, from, to) ==
  LET victim == Tip(d.lists[from]) IN
  [lists |-> [d.lists EXCEPT ![from] = PopTail(@), ![to] = Append(@, victim)],
   ahmap |-> [d.ahmap EXCEPT ![victim] = to]]

\* dl_pop_tail from one list, dl_push_front on another.
Demote(d, from, to) ==
  LET victim == Tip(d.lists[from]) IN
  [lists |-> [d.lists EXCEPT ![from] = PopTail(@), ![to] = PushFront(@, victim)],
   ahmap |-> [d.ahmap EXCEPT ![victim] = to]]

\* Mutant of ReplacesT1: the test that T1 holds a page is missing.
ReplacesT1Untested(d, target, in_b2) ==
  LET t1_size == Len(d.lists["T1"]) IN t1_size > target \/ (in_b2 /\ t1_size = target)

\* The choice of arc_replace between T1 and T2.
ReplacesT1(d, target, in_b2) ==
  LET t1_size == Len(d.lists["T1"]) IN
  t1_size > 0 /\ (t1_size > target \/ (in_b2 /\ t1_size = target))

arc_replace(d, target, in_b2) ==
  IF ReplacesT1(d, target, in_b2) THEN Demote(d, "T1", "B1") ELSE Demote(d, "T2", "B2")

\* Mutant of MoveToT2: the tag of the node is not updated.
MoveToT2Untagged(d, x, from) ==
  LET without == [d.lists EXCEPT ![from] = Remove(@, x)] IN
  [d EXCEPT !.lists = [without EXCEPT !["T2"] = PushFront(@, x)]]

\* dl_remove from the page's list, tag T2, dl_push_front on T2.
MoveToT2(d, x, from) ==
  LET without == [d.lists EXCEPT ![from] = Remove(@, x)] IN
  [lists |-> [without EXCEPT !["T2"] = PushFront(@, x)],
   ahmap |-> [d.ahmap EXCEPT ![x] = "T2"]]

Access(x, d, answer) ==
  /\ c > 0
  /\ lists' = d.lists /\ ahmap' = d.ahmap
  /\ recency' = Used(recency, x) /\ reply' = answer
  /\ UNCHANGED c

-------------------------------------------------------------------------------
(* The cases of arc_access.                                                *)

Hit(x) ==
  /\ ahmap[x] \in {"T1", "T2"}
  /\ Access(x, MoveToT2(Dir, x, ahmap[x]), "HIT")
  /\ UNCHANGED p

\* By how much a hit in ghost list `hit` moves the target.
Delta(hit, other) == IF Size(hit) >= Size(other) THEN 1 ELSE Size(other) \div Size(hit)

\* Mutant of Raised: the target is not clamped.
RaisedUnclamped == p + Delta("B1", "B2")
Raised == IF p + Delta("B1", "B2") < c THEN p + Delta("B1", "B2") ELSE c
Lowered == IF p - Delta("B2", "B1") > 0 THEN p - Delta("B2", "B1") ELSE 0

GhostHitB1(x) ==
  /\ ahmap[x] = "B1"
  /\ p' = Raised
  /\ Access(x, MoveToT2(arc_replace(Dir, Raised, FALSE), x, "B1"), "FAULT")

GhostHitB2(x) ==
  /\ ahmap[x] = "B2"
  /\ p' = Lowered
  /\ Access(x, MoveToT2(arc_replace(Dir, Lowered, TRUE), x, "B2"), "FAULT")

t1_len == Size("T1") + Size("B1")
total  == t1_len + Size("T2") + Size("B2")

\* Mutants: B2 never drops a ghost; it drops one as soon as the frames are full.
DropsNoGhost == FALSE
DropsGhostEarly == Size("B2") > 0
DropsGhost == total >= 2 * c /\ Size("B2") > 0

\* Mutant of FramesFull: the replacement waits for a full directory.
DirectoryFull == total >= 2 * c
FramesFull == total >= c

\* What case 4 does before the new page is added.
MakeRoom ==
  IF t1_len = c
  THEN IF Size("T1") < c THEN arc_replace(Forget(Dir, "B1"), p, FALSE) ELSE Forget(Dir, "T1")
  ELSE IF t1_len < c /\ FramesFull
  THEN arc_replace(IF DropsGhost THEN Forget(Dir, "B2") ELSE Dir, p, FALSE)
  ELSE Dir

AddToT1(d, x) ==
  [lists |-> [d.lists EXCEPT !["T1"] = PushFront(@, x)], ahmap |-> [d.ahmap EXCEPT ![x] = "T1"]]

Miss(x) ==
  /\ ahmap[x] = "none"
  /\ Access(x, AddToT1(MakeRoom, x), "FAULT")
  /\ UNCHANGED p

Next ==
  \/ \E n \in FrameCounts : ArcInit(n)
  \/ ArcReset
  \/ \E x \in Pages : Hit(x) \/ GhostHitB1(x) \/ GhostHitB2(x) \/ Miss(x)

Spec == Init /\ [][Next]_vars
===============================================================================
