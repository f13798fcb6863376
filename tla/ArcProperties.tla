---------------------------- MODULE ArcProperties ----------------------------
(***************************************************************************)
(* What is required of ARC.                                                *)
(***************************************************************************)
EXTENDS Arc, TLC

\* Types, with the range of the adaptive target (arc.c:127, 141).
TypeOk ==
  /\ lists \in [ListNames -> Seq(Pages)]
  /\ ahmap \in [Pages -> ListNames \cup {"none"}]
  /\ c \in FrameCounts \cup {0}
  /\ p \in 0..c
  /\ recency \in Seq(Pages)
  /\ reply \in {"HIT", "FAULT", "none"}

\* The tag of a node names the list it is linked on, a page is on one list at most,
\* and pages on no list are not in the map: a stale tag would unlink a node from the
\* wrong list (arc.c:116, 130, 144).
TagsMatchLists ==
  /\ \A l \in ListNames : Distinct(lists[l])
  /\ \A x \in Pages, l \in ListNames : x \in Members(lists[l]) <=> ahmap[x] = l

\* The sizes ARC's case analysis relies on: T1 and T2 fill the frames, T1 and B1
\* never outgrow c nor the directory 2*c, ghosts exist only once the frames are full.
SizesWithinBounds ==
  /\ Size("T1") + Size("T2") <= c
  /\ t1_len <= c /\ total <= 2 * c
  /\ Size("B1") + Size("B2") > 0 => Size("T1") + Size("T2") = c

\* The list each call of arc_replace takes its victim from holds one (arc.c:90-91 and
\* 96-97 use the result of dl_pop_tail without a test), whatever page comes next.
HasVictim(d, target, in_b2) ==
  d.lists[IF ReplacesT1(d, target, in_b2) THEN "T1" ELSE "T2"] # <<>>
ReplaceFindsVictim ==
  /\ \A x \in Pages :
       /\ ahmap[x] = "B1" => HasVictim(Dir, Raised, FALSE)
       /\ ahmap[x] = "B2" => HasVictim(Dir, Lowered, TRUE)
  /\ c > 0 /\ t1_len = c /\ Size("T1") < c =>
       /\ Size("B1") > 0
       /\ HasVictim(Forget(Dir, "B1"), p, FALSE)
  /\ t1_len < c /\ total >= c => HasVictim(Dir, p, FALSE)

\* recency has the pages of s in the order of s.
InRecencyOrder(s) ==
  \A i, j \in DOMAIN s : i < j => Position(recency, s[i]) < Position(recency, s[j])

\* T1 followed by its ghosts, and T2 followed by its ghosts, are in order of last use,
\* so eviction and the dropping of ghosts always take the least recently used page.
ListsAreRecencyOrdered ==
  InRecencyOrder(lists["T1"] \o lists["B1"]) /\ InRecencyOrder(lists["T2"] \o lists["B2"])

\* The directory remembers the c most recently used pages, resident or not.
RemembersRecentPages == \A i \in DOMAIN Prefix(recency, c) : ahmap[recency[i]] # "none"

\* ARC implements demand paging with the pages of T1 and T2 resident.
Paging == INSTANCE DemandPaging WITH
  PageIds    <- Pages,
  Capacities <- FrameCounts,
  NoPage     <- "none",
  resident   <- {x \in Pages : ahmap[x] \in {"T1", "T2"}},
  capacity   <- c,
  last       <- IF recency = <<>> THEN "none" ELSE recency[1]

RefinesDemandPaging == Paging!Spec

\* ARC implements the two-list directory: residency decisions never disturb it.
Directory == INSTANCE Dbl WITH
  Capacities <- FrameCounts,
  L1         <- lists["T1"] \o lists["B1"],
  L2         <- lists["T2"] \o lists["B2"]

RefinesDirectory == Directory!Spec

Symmetry == Permutations(Pages)
===============================================================================
