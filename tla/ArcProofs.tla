------------------------------- MODULE ArcProofs -------------------------------
(***************************************************************************)
(* Proofs that arc.c keeps its map and its four lists together, that the   *)
(* lists stay within the sizes ARC's case analysis relies on, that         *)
(* arc_replace always finds a victim, and that ARC implements demand       *)
(* paging, for any pages, any number of frames and any trace; and what a   *)
(* scan leaves in its lists.                                               *)
(***************************************************************************)
EXTENDS ArcProperties, ListProofs

-------------------------------------------------------------------------------
(* The steps of a case, on a directory of lists and tags.                  *)

\* A directory whose tags name the lists its pages are on.
Tagged(d) ==
  /\ d.lists \in [ListNames -> Seq(Pages)]
  /\ d.ahmap \in [Pages -> ListNames \cup {"none"}]
  /\ \A l \in ListNames : Distinct(d.lists[l])
  /\ \A x \in Pages, l \in ListNames : x \in Members(d.lists[l]) <=> d.ahmap[x] = l

LEMMA TaggedList ==
  ASSUME NEW d, Tagged(d), NEW l \in ListNames
  PROVE  /\ d.lists[l] \in Seq(Pages) /\ Distinct(d.lists[l])
         /\ Len(d.lists[l]) \in Nat
         /\ l # "none"
BY DEF Tagged, ListNames

\* The oldest page of a list leaves the directory.
LEMMA ForgetTagged ==
  ASSUME NEW d, Tagged(d), NEW l \in ListNames, d.lists[l] # <<>>
  PROVE  /\ Tagged(Forget(d, l))
         /\ Len(Forget(d, l).lists[l]) = Len(d.lists[l]) - 1
         /\ \A k \in ListNames : k # l => Forget(d, l).lists[k] = d.lists[k]
         /\ Tip(d.lists[l]) \in Pages /\ d.ahmap[Tip(d.lists[l])] = l
         /\ Forget(d, l).ahmap = [d.ahmap EXCEPT ![Tip(d.lists[l])] = "none"]
<1> DEFINE s == d.lists[l]
           v == Tip(s)
           r == PopTail(s)
           e == Forget(d, l)
<1>1. s \in Seq(Pages) /\ Distinct(s) /\ l # "none"
  BY TaggedList
<1>2. /\ r \in Seq(Pages) /\ Len(r) = Len(s) - 1
      /\ v \in Pages /\ v \in Members(s)
  BY <1>1, PopTailType
<1>3. Members(r) = Members(s) \ {v} /\ Distinct(r)
  BY <1>1, PopTailMembers
<1>4. d.ahmap[v] = l
  BY <1>2 DEF Tagged
<1> HIDE DEF r, v
<1>5. e.lists = [d.lists EXCEPT ![l] = r] /\ e.ahmap = [d.ahmap EXCEPT ![v] = "none"]
  BY DEF Forget, r, v
<1>6. d.lists \in [ListNames -> Seq(Pages)] /\ d.ahmap \in [Pages -> ListNames \cup {"none"}]
  BY DEF Tagged
<1> HIDE DEF e
<1>7. \A k \in ListNames : e.lists[k] = IF k = l THEN r ELSE d.lists[k]
  BY <1>5, <1>6
<1>8. \A x \in Pages : e.ahmap[x] = IF x = v THEN "none" ELSE d.ahmap[x]
  BY <1>5, <1>6
<1>9. e.lists \in [ListNames -> Seq(Pages)] /\ e.ahmap \in [Pages -> ListNames \cup {"none"}]
  BY <1>2, <1>5, <1>6
<1>10. \A k \in ListNames : Distinct(e.lists[k])
  BY <1>3, <1>7, TaggedList
<1>11. ASSUME NEW x \in Pages, NEW k \in ListNames
       PROVE  x \in Members(e.lists[k]) <=> e.ahmap[x] = k
  <2>1. x \in Members(d.lists[k]) <=> d.ahmap[x] = k
    BY DEF Tagged
  <2>2. k # "none"
    BY DEF ListNames
  <2>3. CASE k = l
    BY <1>3, <1>4, <1>7, <1>8, <2>1, <2>2, <2>3
  <2>4. CASE k # l
    BY <1>4, <1>7, <1>8, <2>1, <2>2, <2>4
  <2> QED BY <2>3, <2>4
<1>12. Tagged(e)
  BY <1>9, <1>10, <1>11 DEF Tagged
<1> QED BY <1>2, <1>4, <1>5, <1>7, <1>12 DEF e, v

\* The oldest page of one list becomes the newest of another.
LEMMA DemoteTagged ==
  ASSUME NEW d, Tagged(d), NEW from \in ListNames, NEW to \in ListNames, from # to,
         d.lists[from] # <<>>
  PROVE  /\ Tagged(Demote(d, from, to))
         /\ Len(Demote(d, from, to).lists[from]) = Len(d.lists[from]) - 1
         /\ Len(Demote(d, from, to).lists[to]) = Len(d.lists[to]) + 1
         /\ \A k \in ListNames \ {from, to} : Demote(d, from, to).lists[k] = d.lists[k]
         /\ Tip(d.lists[from]) \in Pages /\ d.ahmap[Tip(d.lists[from])] = from
         /\ Demote(d, from, to).ahmap = [d.ahmap EXCEPT ![Tip(d.lists[from])] = to]
<1> DEFINE s == d.lists[from]
           v == Tip(s)
           r == PopTail(s)
           t == PushFront(d.lists[to], v)
           e == Demote(d, from, to)
<1>1. s \in Seq(Pages) /\ Distinct(s) /\ d.lists[to] \in Seq(Pages) /\ Distinct(d.lists[to])
  BY TaggedList
<1>2. /\ r \in Seq(Pages) /\ Len(r) = Len(s) - 1
      /\ v \in Pages /\ v \in Members(s)
  BY <1>1, PopTailType
<1>3. Members(r) = Members(s) \ {v} /\ Distinct(r)
  BY <1>1, PopTailMembers
<1>4. d.ahmap[v] = from /\ v \notin Members(d.lists[to])
  BY <1>2 DEF Tagged
<1> HIDE DEF r, v
<1>5. /\ t \in Seq(Pages) /\ Len(t) = Len(d.lists[to]) + 1
      /\ Members(t) = Members(d.lists[to]) \cup {v} /\ Distinct(t)
  BY <1>1, <1>2, <1>4, PushFrontList
<1> HIDE DEF t
<1>6. /\ e.lists = [d.lists EXCEPT ![from] = r, ![to] = t]
      /\ e.ahmap = [d.ahmap EXCEPT ![v] = to]
  <2>1. d.lists \in [ListNames -> Seq(Pages)]
    BY DEF Tagged
  <2> QED BY <2>1 DEF Demote, r, v, t
<1>7. d.lists \in [ListNames -> Seq(Pages)] /\ d.ahmap \in [Pages -> ListNames \cup {"none"}]
  BY DEF Tagged
<1> HIDE DEF e
<1>8. \A k \in ListNames :
        e.lists[k] = IF k = to THEN t ELSE IF k = from THEN r ELSE d.lists[k]
  BY <1>6, <1>7
<1>9. \A x \in Pages : e.ahmap[x] = IF x = v THEN to ELSE d.ahmap[x]
  BY <1>6, <1>7
<1>10. e.lists \in [ListNames -> Seq(Pages)] /\ e.ahmap \in [Pages -> ListNames \cup {"none"}]
  BY <1>2, <1>5, <1>6, <1>7
<1>11. \A k \in ListNames : Distinct(e.lists[k])
  BY <1>3, <1>5, <1>8, TaggedList
<1>12. ASSUME NEW x \in Pages, NEW k \in ListNames
       PROVE  x \in Members(e.lists[k]) <=> e.ahmap[x] = k
  <2>1. x \in Members(d.lists[k]) <=> d.ahmap[x] = k
    BY DEF Tagged
  <2>2. CASE k = to
    BY <1>5, <1>8, <1>9, <2>1, <2>2
  <2>3. CASE k = from
    BY <1>3, <1>8, <1>9, <2>1, <2>3
  <2>4. CASE k # to /\ k # from
    BY <1>4, <1>8, <1>9, <2>1, <2>4
  <2> QED BY <2>2, <2>3, <2>4
<1>13. Tagged(e)
  BY <1>10, <1>11, <1>12 DEF Tagged
<1> QED BY <1>2, <1>4, <1>5, <1>6, <1>8, <1>13 DEF e, v

\* The page used goes to T2, wherever it was.
Moved(d, x, from, e) ==
  /\ from # "T2" => /\ Len(e.lists[from]) = Len(d.lists[from]) - 1
                    /\ Len(e.lists["T2"]) = Len(d.lists["T2"]) + 1
  /\ from = "T2" => Len(e.lists["T2"]) = Len(d.lists["T2"])
  /\ \A k \in ListNames \ {from, "T2"} : e.lists[k] = d.lists[k]
  /\ e.ahmap = [d.ahmap EXCEPT ![x] = "T2"]

LEMMA MoveTagged ==
  ASSUME NEW d, Tagged(d), NEW x \in Pages, NEW from \in ListNames, d.ahmap[x] = from,
         NEW e, e = MoveToT2(d, x, from)
  PROVE  Tagged(e) /\ Moved(d, x, from, e)
<1> DEFINE s == d.lists[from]
           r == Remove(s, x)
           u == IF from = "T2" THEN r ELSE d.lists["T2"]
           t == PushFront(u, x)
<1>1. s \in Seq(Pages) /\ Distinct(s) /\ d.lists["T2"] \in Seq(Pages) /\ Distinct(d.lists["T2"])
  BY TaggedList DEF ListNames
<1>2. x \in Members(s)
  BY DEF Tagged
<1>3. r \in Seq(Pages) /\ Len(r) = Len(s) - 1 /\ Len(s) >= 1
  BY <1>1, <1>2, RemoveType
<1>4. Members(r) = Members(s) \ {x} /\ Distinct(r)
  BY <1>1, <1>2, RemoveMembers
<1> HIDE DEF r
<1>5. x \notin Members(u) /\ u \in Seq(Pages) /\ Distinct(u)
  <2>1. from # "T2" => x \notin Members(d.lists["T2"])
    BY DEF Tagged, ListNames
  <2> QED BY <1>1, <1>3, <1>4, <2>1
<1> HIDE DEF u
<1>6. /\ t \in Seq(Pages) /\ Len(t) = Len(u) + 1
      /\ Members(t) = Members(u) \cup {x} /\ Distinct(t)
  BY <1>5, PushFrontList
<1> HIDE DEF t
<1>7. d.lists \in [ListNames -> Seq(Pages)] /\ d.ahmap \in [Pages -> ListNames \cup {"none"}]
  BY DEF Tagged
<1>8. /\ e.lists = [[d.lists EXCEPT ![from] = r] EXCEPT !["T2"] = t]
      /\ e.ahmap = [d.ahmap EXCEPT ![x] = "T2"]
  <2>1. [d.lists EXCEPT ![from] = r]["T2"] = u
    BY <1>7 DEF u, ListNames
  <2>2. e.lists = [[d.lists EXCEPT ![from] = r] EXCEPT
                     !["T2"] = PushFront([d.lists EXCEPT ![from] = r]["T2"], x)]
    BY DEF MoveToT2, r
  <2>3. e.ahmap = [d.ahmap EXCEPT ![x] = "T2"]
    BY DEF MoveToT2
  <2> QED BY <2>1, <2>2, <2>3 DEF t
<1>9. \A k \in ListNames :
        e.lists[k] = IF k = "T2" THEN t ELSE IF k = from THEN r ELSE d.lists[k]
  BY <1>7, <1>8
<1>10. \A y \in Pages : e.ahmap[y] = IF y = x THEN "T2" ELSE d.ahmap[y]
  BY <1>7, <1>8
<1>11. e.lists \in [ListNames -> Seq(Pages)] /\ e.ahmap \in [Pages -> ListNames \cup {"none"}]
  <2>1. "T2" \in ListNames
    BY DEF ListNames
  <2> DEFINE w == [d.lists EXCEPT ![from] = r]
  <2>2. w \in [ListNames -> Seq(Pages)]
    BY <1>3, <1>7
  <2> HIDE DEF w
  <2>3. [w EXCEPT !["T2"] = t] \in [ListNames -> Seq(Pages)]
    BY <1>6, <2>1, <2>2
  <2>4. e.lists \in [ListNames -> Seq(Pages)]
    BY <1>8, <2>3 DEF w
  <2>5. [d.ahmap EXCEPT ![x] = "T2"] \in [Pages -> ListNames \cup {"none"}]
    BY <1>7, <2>1
  <2> QED BY <1>8, <2>4, <2>5
<1>12. \A k \in ListNames : Distinct(e.lists[k])
  BY <1>4, <1>6, <1>9, TaggedList
<1>13. ASSUME NEW y \in Pages, NEW k \in ListNames
       PROVE  y \in Members(e.lists[k]) <=> e.ahmap[y] = k
  <2>1. y \in Members(d.lists[k]) <=> d.ahmap[y] = k
    BY DEF Tagged
  <2>2. Members(u) = Members(d.lists["T2"]) \ {x}
    BY <1>4, <1>5 DEF u
  <2>3. CASE k = "T2"
    BY <1>6, <1>9, <1>10, <2>1, <2>2, <2>3
  <2>4. CASE k = from /\ from # "T2"
    BY <1>4, <1>9, <1>10, <2>1, <2>4
  <2>5. CASE k # "T2" /\ k # from
    BY <1>9, <1>10, <2>1, <2>5
  <2> QED BY <2>3, <2>4, <2>5
<1>14. Tagged(e)
  BY <1>11, <1>12, <1>13 DEF Tagged
<1>15. /\ from # "T2" => Len(e.lists[from]) = Len(s) - 1 /\ Len(e.lists["T2"]) = Len(d.lists["T2"]) + 1
       /\ from = "T2" => Len(e.lists["T2"]) = Len(s)
  <2>1. "T2" \in ListNames /\ Len(s) \in Nat
    BY <1>1 DEF ListNames
  <2>2. e.lists["T2"] = t
    BY <1>9, <2>1
  <2>3. CASE from # "T2"
    <3>1. e.lists[from] = r /\ u = d.lists["T2"]
      BY <1>9, <2>3 DEF u
    <3> QED BY <1>3, <1>6, <2>2, <2>3, <3>1
  <2>4. CASE from = "T2"
    <3>1. u = r
      BY <2>4 DEF u
    <3> QED BY <1>3, <1>6, <2>1, <2>2, <2>4, <3>1
  <2> QED BY <2>3, <2>4
<1> QED BY <1>8, <1>9, <1>14, <1>15 DEF Moved

LEMMA AddTagged ==
  ASSUME NEW d, Tagged(d), NEW x \in Pages, d.ahmap[x] = "none",
         NEW e, e = AddToT1(d, x)
  PROVE  /\ Tagged(e)
         /\ Len(e.lists["T1"]) = Len(d.lists["T1"]) + 1
         /\ \A k \in ListNames \ {"T1"} : e.lists[k] = d.lists[k]
         /\ e.ahmap = [d.ahmap EXCEPT ![x] = "T1"]
<1> DEFINE s == d.lists["T1"]
           t == PushFront(s, x)
<1>1. "T1" \in ListNames /\ s \in Seq(Pages) /\ Distinct(s)
  BY TaggedList DEF ListNames
<1>2. \A k \in ListNames : x \notin Members(d.lists[k])
  BY TaggedList DEF Tagged
<1>3. /\ t \in Seq(Pages) /\ Len(t) = Len(s) + 1
      /\ Members(t) = Members(s) \cup {x} /\ Distinct(t)
  BY <1>1, <1>2, PushFrontList
<1> HIDE DEF t
<1>4. d.lists \in [ListNames -> Seq(Pages)] /\ d.ahmap \in [Pages -> ListNames \cup {"none"}]
  BY DEF Tagged
<1>5. e.lists = [d.lists EXCEPT !["T1"] = t] /\ e.ahmap = [d.ahmap EXCEPT ![x] = "T1"]
  BY DEF AddToT1, t
<1>6. \A k \in ListNames : e.lists[k] = IF k = "T1" THEN t ELSE d.lists[k]
  BY <1>4, <1>5
<1>7. \A y \in Pages : e.ahmap[y] = IF y = x THEN "T1" ELSE d.ahmap[y]
  BY <1>4, <1>5
<1>8. e.lists \in [ListNames -> Seq(Pages)] /\ e.ahmap \in [Pages -> ListNames \cup {"none"}]
  BY <1>1, <1>3, <1>4, <1>5
<1>9. \A k \in ListNames : Distinct(e.lists[k])
  BY <1>3, <1>6, TaggedList
<1>10. ASSUME NEW y \in Pages, NEW k \in ListNames
       PROVE  y \in Members(e.lists[k]) <=> e.ahmap[y] = k
  <2>1. y \in Members(d.lists[k]) <=> d.ahmap[y] = k
    BY DEF Tagged
  <2> QED BY <1>2, <1>3, <1>6, <1>7, <2>1
<1>11. Tagged(e)
  BY <1>8, <1>9, <1>10 DEF Tagged
<1> QED BY <1>1, <1>3, <1>5, <1>6, <1>11

-------------------------------------------------------------------------------
(* Replacing.                                                              *)

ResidentIn(d) == {x \in Pages : d.ahmap[x] \in {"T1", "T2"}}

\* The directory e has the pages of d, but one more is a ghost.
OneDemoted(d, e) ==
  \E v \in ResidentIn(d) :
    e.ahmap[v] \in {"B1", "B2"} /\ \A y \in Pages \ {v} : e.ahmap[y] = d.ahmap[y]

Count(d, l) == Len(d.lists[l])

LEMMA Counts ==
  ASSUME NEW d, Tagged(d)
  PROVE  /\ \A l \in ListNames : Count(d, l) \in Nat
         /\ \A l \in ListNames : Count(d, l) > 0 => d.lists[l] # <<>>
         /\ \A l \in ListNames : d.lists[l] # <<>> => Count(d, l) > 0
<1> SUFFICES ASSUME NEW l \in ListNames
             PROVE  Count(d, l) \in Nat /\ (Count(d, l) > 0 <=> d.lists[l] # <<>>)
  OBVIOUS
<1>1. d.lists[l] \in Seq(Pages)
  BY TaggedList
<1> QED BY <1>1 DEF Count

\* arc_replace makes a ghost of a page of T1 or of T2, if that list holds one.
LEMMA ReplaceTagged ==
  ASSUME NEW d, Tagged(d), NEW target, NEW in_b2, HasVictim(d, target, in_b2),
         NEW e, e = arc_replace(d, target, in_b2)
  PROVE  /\ Tagged(e) /\ OneDemoted(d, e)
         /\ \/ /\ Count(e, "T1") = Count(d, "T1") - 1 /\ Count(e, "B1") = Count(d, "B1") + 1
               /\ Count(e, "T2") = Count(d, "T2") /\ Count(e, "B2") = Count(d, "B2")
            \/ /\ Count(e, "T2") = Count(d, "T2") - 1 /\ Count(e, "B2") = Count(d, "B2") + 1
               /\ Count(e, "T1") = Count(d, "T1") /\ Count(e, "B1") = Count(d, "B1")
<1>1. ASSUME NEW from \in ListNames, NEW to \in ListNames, from \in {"T1", "T2"},
             to \in {"B1", "B2"}, d.lists[from] # <<>>, e = Demote(d, from, to)
      PROVE  /\ Tagged(e) /\ OneDemoted(d, e)
             /\ Count(e, from) = Count(d, from) - 1 /\ Count(e, to) = Count(d, to) + 1
             /\ \A k \in ListNames \ {from, to} : Count(e, k) = Count(d, k)
  <2> DEFINE v == Tip(d.lists[from])
  <2>1. /\ Tagged(e)
        /\ Len(e.lists[from]) = Len(d.lists[from]) - 1
        /\ Len(e.lists[to]) = Len(d.lists[to]) + 1
        /\ \A k \in ListNames \ {from, to} : e.lists[k] = d.lists[k]
        /\ v \in Pages /\ d.ahmap[v] = from /\ e.ahmap = [d.ahmap EXCEPT ![v] = to]
    BY <1>1, DemoteTagged
  <2> HIDE DEF v
  <2>2. OneDemoted(d, e)
    <3>1. v \in ResidentIn(d)
      BY <1>1, <2>1 DEF ResidentIn
    <3>2. e.ahmap[v] = to /\ \A y \in Pages \ {v} : e.ahmap[y] = d.ahmap[y]
      BY <2>1 DEF Tagged
    <3> QED BY <1>1, <3>1, <3>2 DEF OneDemoted
  <2> QED BY <2>1, <2>2 DEF Count
<1>2. {"T1", "T2", "B1", "B2"} \subseteq ListNames
  BY DEF ListNames
<1>3. CASE ReplacesT1(d, target, in_b2)
  <2>1. d.lists["T1"] # <<>> /\ e = Demote(d, "T1", "B1")
    BY <1>3 DEF HasVictim, arc_replace
  <2> QED BY <1>1, <1>2, <2>1
<1>4. CASE ~ReplacesT1(d, target, in_b2)
  <2>1. d.lists["T2"] # <<>> /\ e = Demote(d, "T2", "B2")
    BY <1>4 DEF HasVictim, arc_replace
  <2> QED BY <1>1, <1>2, <2>1
<1> QED BY <1>3, <1>4

\* A frame is freed; what T1 and its ghosts take, and the directory, stay as large.
FrameFreed(d, e) ==
  /\ \A l \in ListNames : Count(e, l) \in Nat
  /\ Count(e, "T1") + Count(e, "T2") = Count(d, "T1") + Count(d, "T2") - 1
  /\ Count(e, "T1") + Count(e, "B1") = Count(d, "T1") + Count(d, "B1")
  /\ Count(e, "B1") + Count(e, "B2") = Count(d, "B1") + Count(d, "B2") + 1
  /\ Count(e, "B1") >= Count(d, "B1") /\ Count(e, "B2") >= Count(d, "B2")

LEMMA ReplaceCounts ==
  ASSUME NEW d, Tagged(d), NEW target, NEW in_b2, HasVictim(d, target, in_b2),
         NEW e, e = arc_replace(d, target, in_b2)
  PROVE  Tagged(e) /\ OneDemoted(d, e) /\ FrameFreed(d, e)
<1>1. /\ Count(d, "T1") \in Nat /\ Count(d, "T2") \in Nat
      /\ Count(d, "B1") \in Nat /\ Count(d, "B2") \in Nat
  BY Counts DEF ListNames
<1>2. /\ Tagged(e) /\ OneDemoted(d, e)
      /\ \/ /\ Count(e, "T1") = Count(d, "T1") - 1 /\ Count(e, "B1") = Count(d, "B1") + 1
            /\ Count(e, "T2") = Count(d, "T2") /\ Count(e, "B2") = Count(d, "B2")
         \/ /\ Count(e, "T2") = Count(d, "T2") - 1 /\ Count(e, "B2") = Count(d, "B2") + 1
            /\ Count(e, "T1") = Count(d, "T1") /\ Count(e, "B1") = Count(d, "B1")
  BY ReplaceTagged
<1>3. /\ Count(e, "T1") \in Nat /\ Count(e, "T2") \in Nat
      /\ Count(e, "B1") \in Nat /\ Count(e, "B2") \in Nat
  BY <1>2, Counts DEF ListNames
<1>4. \A l \in ListNames : Count(e, l) \in Nat
  BY <1>2, Counts
<1>5. CASE /\ Count(e, "T1") = Count(d, "T1") - 1 /\ Count(e, "B1") = Count(d, "B1") + 1
           /\ Count(e, "T2") = Count(d, "T2") /\ Count(e, "B2") = Count(d, "B2")
  <2>1. Count(e, "T1") + Count(e, "T2") = Count(d, "T1") + Count(d, "T2") - 1
    BY <1>1, <1>5
  <2>2. Count(e, "T1") + Count(e, "B1") = Count(d, "T1") + Count(d, "B1")
    BY <1>1, <1>5
  <2>3. Count(e, "B1") + Count(e, "B2") = Count(d, "B1") + Count(d, "B2") + 1
    BY <1>1, <1>5
  <2>4. Count(e, "B1") >= Count(d, "B1") /\ Count(e, "B2") >= Count(d, "B2")
    BY <1>1, <1>5
  <2> QED BY <1>2, <1>4, <2>1, <2>2, <2>3, <2>4 DEF FrameFreed
<1>6. CASE /\ Count(e, "T2") = Count(d, "T2") - 1 /\ Count(e, "B2") = Count(d, "B2") + 1
           /\ Count(e, "T1") = Count(d, "T1") /\ Count(e, "B1") = Count(d, "B1")
  <2>1. Count(e, "T1") + Count(e, "T2") = Count(d, "T1") + Count(d, "T2") - 1
    BY <1>1, <1>6
  <2>2. Count(e, "T1") + Count(e, "B1") = Count(d, "T1") + Count(d, "B1")
    BY <1>1, <1>6
  <2>3. Count(e, "B1") + Count(e, "B2") = Count(d, "B1") + Count(d, "B2") + 1
    BY <1>1, <1>6
  <2>4. Count(e, "B1") >= Count(d, "B1") /\ Count(e, "B2") >= Count(d, "B2")
    BY <1>1, <1>6
  <2> QED BY <1>2, <1>4, <2>1, <2>2, <2>3, <2>4 DEF FrameFreed
<1> QED BY <1>2, <1>5, <1>6

-------------------------------------------------------------------------------
(* The invariant.                                                          *)

\* The bounds of a directory, as ARC states them.
Bounded(d) ==
  /\ Count(d, "T1") + Count(d, "T2") <= c
  /\ Count(d, "T1") + Count(d, "B1") <= c
  /\ Count(d, "T1") + Count(d, "B1") + Count(d, "T2") + Count(d, "B2") <= 2 * c
  /\ Count(d, "B1") + Count(d, "B2") > 0 => Count(d, "T1") + Count(d, "T2") = c

IInv == TypeOk /\ TagsMatchLists /\ SizesWithinBounds /\ Distinct(recency)

\* The same of the directory as a value.
LEMMA DirIs ==
  /\ Dir.lists = lists /\ Dir.ahmap = ahmap
  /\ \A l \in ListNames : Count(Dir, l) = Size(l)
  /\ TypeOk /\ TagsMatchLists => Tagged(Dir)
  /\ SizesWithinBounds <=> Bounded(Dir)
BY DEF Dir, Count, Size, TypeOk, TagsMatchLists, Tagged, SizesWithinBounds, Bounded,
       t1_len, total

LEMMA Sizes ==
  ASSUME IInv
  PROVE  /\ Tagged(Dir) /\ c \in Nat /\ p \in Nat /\ p <= c
         /\ Size("T1") \in Nat /\ Size("T2") \in Nat /\ Size("B1") \in Nat /\ Size("B2") \in Nat
         /\ Size("T1") + Size("T2") <= c
         /\ Size("T1") + Size("B1") <= c
         /\ Size("T1") + Size("B1") + Size("T2") + Size("B2") <= 2 * c
         /\ Size("B1") + Size("B2") > 0 => Size("T1") + Size("T2") = c
<1>1. Tagged(Dir) /\ Bounded(Dir)
  BY DirIs DEF IInv
<1>2. {"T1", "T2", "B1", "B2"} \subseteq ListNames
  BY DEF ListNames
<1>3. c \in Nat /\ p \in Nat /\ p <= c
  BY FramesAssumption DEF IInv, TypeOk
<1>4. \A l \in ListNames : Size(l) \in Nat
  BY <1>1, Counts, DirIs
<1> QED BY <1>1, <1>2, <1>3, <1>4, DirIs DEF Bounded

\* The adaptive target stays within the frames (arc.c:127, 141).
LEMMA TargetType ==
  ASSUME IInv
  PROVE  /\ Size("B1") > 0 => Raised \in 0..c
         /\ Size("B2") > 0 => Lowered \in 0..c
<1>1. \A a, b \in Nat : a > 0 => b \div a \in Nat
  OBVIOUS
<1>2. /\ c \in Nat /\ p \in Nat /\ p <= c
      /\ Size("B1") \in Nat /\ Size("B2") \in Nat
  BY Sizes
<1>3. Size("B1") > 0 => Delta("B1", "B2") \in Nat
  BY <1>1, <1>2 DEF Delta
<1>4. Size("B2") > 0 => Delta("B2", "B1") \in Nat
  BY <1>1, <1>2 DEF Delta
<1>5. Size("B1") > 0 => Raised \in 0..c
  BY <1>2, <1>3 DEF Raised
<1>6. Size("B2") > 0 => Lowered \in 0..c
  BY <1>2, <1>4 DEF Lowered
<1> QED BY <1>5, <1>6

\* A page with the tag of a list is on it.
LEMMA TaggedPage ==
  ASSUME IInv, NEW x \in Pages, NEW l \in ListNames, ahmap[x] = l
  PROVE  Size(l) > 0
<1>1. x \in Members(lists[l])
  BY DEF IInv, TagsMatchLists
<1>2. lists[l] \in Seq(Pages)
  BY DEF IInv, TypeOk
<1> QED BY <1>1, <1>2 DEF Members, Size

\* Whether T1 or T2 gives the page up, the list holds one, if T2 does whenever the choice
\* falls on it.
LEMMA VictimFound ==
  ASSUME NEW d, Tagged(d), NEW target, NEW in_b2,
         ~ReplacesT1(d, target, in_b2) => Count(d, "T2") > 0
  PROVE  HasVictim(d, target, in_b2)
<1>1. {"T1", "T2", "B1", "B2"} \subseteq ListNames
  BY DEF ListNames
<1>2. ReplacesT1(d, target, in_b2) => Count(d, "T1") > 0
  BY DEF ReplacesT1, Count
<1> QED BY <1>1, <1>2, Counts DEF HasVictim

LEMMA GhostVictims ==
  ASSUME IInv
  PROVE  /\ Size("B1") > 0 => HasVictim(Dir, Raised, FALSE)
         /\ Size("B2") > 0 => HasVictim(Dir, Lowered, TRUE)
<1>1. /\ Tagged(Dir) /\ c \in Nat
      /\ Size("T1") \in Nat /\ Size("T2") \in Nat /\ Size("B1") \in Nat /\ Size("B2") \in Nat
      /\ Size("T1") + Size("B1") <= c
      /\ Size("B1") + Size("B2") > 0 => Size("T1") + Size("T2") = c
  BY Sizes
<1>2. /\ Size("B1") > 0 => Raised \in 0..c
      /\ Size("B2") > 0 => Lowered \in 0..c
  BY TargetType
<1>3. Count(Dir, "T1") = Size("T1") /\ Count(Dir, "T2") = Size("T2")
  BY DirIs DEF ListNames
<1>4. ASSUME Size("B1") > 0 PROVE HasVictim(Dir, Raised, FALSE)
  <2>1. ~ReplacesT1(Dir, Raised, FALSE) => Size("T1") = 0 \/ Size("T1") <= Raised
    BY <1>1, <1>2, <1>3, <1>4 DEF ReplacesT1, Count
  <2>2. Size("T1") < c
    BY <1>1, <1>4
  <2>3. Size("T2") > 0
    BY <1>1, <1>4, <2>2
  <2> QED BY <1>1, <1>3, <2>3, VictimFound
<1>5. ASSUME Size("B2") > 0 PROVE HasVictim(Dir, Lowered, TRUE)
  <2>1. ~ReplacesT1(Dir, Lowered, TRUE) => Size("T1") = 0 \/ Size("T1") < Lowered
    BY <1>1, <1>2, <1>3, <1>5 DEF ReplacesT1, Count
  <2>2. ~ReplacesT1(Dir, Lowered, TRUE) => Size("T2") > 0
    <3>1. c > 0
      <4>1. Size("T1") + Size("B1") + Size("T2") + Size("B2") <= 2 * c
        BY Sizes
      <4> QED BY <1>1, <1>5, <4>1
    <3> QED BY <1>1, <1>2, <1>5, <2>1, <3>1
  <2> QED BY <1>1, <1>3, <2>2, VictimFound
<1> QED BY <1>4, <1>5

\* The directory without its oldest ghost of a list.
LEMMA GhostForgotten ==
  ASSUME IInv, NEW l \in {"B1", "B2"}, Size(l) > 0, NEW d, d = Forget(Dir, l)
  PROVE  /\ Tagged(d) /\ Count(d, l) = Size(l) - 1
         /\ \A k \in ListNames \ {l} : Count(d, k) = Size(k)
         /\ \A x \in Pages : ahmap[x] = "none" => d.ahmap[x] = "none"
         /\ ResidentIn(d) = ResidentIn(Dir)
<1>1. Tagged(Dir) /\ l \in ListNames /\ Dir.ahmap = ahmap /\ \A k \in ListNames : Count(Dir, k) = Size(k)
  BY Sizes, DirIs DEF ListNames
<1>2. Dir.lists[l] # <<>>
  BY <1>1, Counts
<1> DEFINE v == Tip(Dir.lists[l])
<1>3. /\ Tagged(d)
      /\ Len(d.lists[l]) = Len(Dir.lists[l]) - 1
      /\ \A k \in ListNames : k # l => d.lists[k] = Dir.lists[k]
      /\ v \in Pages /\ Dir.ahmap[v] = l
      /\ d.ahmap = [Dir.ahmap EXCEPT ![v] = "none"]
  BY <1>1, <1>2, ForgetTagged
<1> HIDE DEF v
<1>4. Count(d, l) = Size(l) - 1 /\ \A k \in ListNames \ {l} : Count(d, k) = Size(k)
  BY <1>1, <1>3 DEF Count
<1>5. \A x \in Pages : d.ahmap[x] = IF x = v THEN "none" ELSE ahmap[x]
  BY <1>1, <1>3 DEF Tagged
<1>6. ResidentIn(d) = ResidentIn(Dir)
  BY <1>1, <1>3, <1>5 DEF ResidentIn
<1> QED BY <1>3, <1>4, <1>5, <1>6

\* With T1 and B1 full and a ghost among them, forgetting the ghost leaves a victim.
LEMMA WithoutB1 ==
  ASSUME IInv, c > 0, t1_len = c, Size("T1") < c, NEW d, d = Forget(Dir, "B1")
  PROVE  Size("B1") > 0 /\ HasVictim(d, p, FALSE)
<1>1. /\ c \in Nat
      /\ Size("T1") \in Nat /\ Size("T2") \in Nat /\ Size("B1") \in Nat /\ Size("B2") \in Nat
      /\ Size("B1") + Size("B2") > 0 => Size("T1") + Size("T2") = c
  BY Sizes
<1>2. Size("B1") > 0 /\ Size("T2") > 0
  BY <1>1 DEF t1_len
<1>3. Tagged(d) /\ Count(d, "T2") = Size("T2")
  BY <1>2, GhostForgotten DEF ListNames
<1> QED BY <1>2, <1>3, VictimFound

LEMMA RoomVictim ==
  ASSUME IInv, t1_len < c, total >= c
  PROVE  HasVictim(Dir, p, FALSE) /\ Size("T1") + Size("T2") = c
<1>1. /\ Tagged(Dir) /\ c \in Nat
      /\ Size("T1") \in Nat /\ Size("T2") \in Nat /\ Size("B1") \in Nat /\ Size("B2") \in Nat
      /\ Size("T1") + Size("T2") <= c
      /\ Size("B1") + Size("B2") > 0 => Size("T1") + Size("T2") = c
  BY Sizes
<1>2. Size("T1") + Size("T2") = c /\ Size("T2") > 0
  <2>1. Size("T1") + Size("B1") < c /\ Size("T1") + Size("B1") + Size("T2") + Size("B2") >= c
    BY DEF t1_len, total
  <2>2. CASE Size("B1") + Size("B2") > 0
    BY <1>1, <2>1, <2>2
  <2>3. CASE Size("B1") = 0 /\ Size("B2") = 0
    BY <1>1, <2>1, <2>3
  <2> QED BY <1>1, <2>2, <2>3
<1>3. Count(Dir, "T2") > 0
  BY <1>2, DirIs DEF ListNames
<1> QED BY <1>1, <1>2, <1>3, VictimFound

LEMMA VictimsHold == IInv => ReplaceFindsVictim
<1> SUFFICES ASSUME IInv PROVE ReplaceFindsVictim
  OBVIOUS
<1>1. ASSUME NEW x \in Pages
      PROVE  /\ ahmap[x] = "B1" => HasVictim(Dir, Raised, FALSE)
             /\ ahmap[x] = "B2" => HasVictim(Dir, Lowered, TRUE)
  BY TaggedPage, GhostVictims DEF ListNames
<1>2. c > 0 /\ t1_len = c /\ Size("T1") < c =>
        Size("B1") > 0 /\ HasVictim(Forget(Dir, "B1"), p, FALSE)
  BY WithoutB1
<1>3. t1_len < c /\ total >= c => HasVictim(Dir, p, FALSE)
  BY RoomVictim
<1> QED BY <1>1, <1>2, <1>3 DEF ReplaceFindsVictim

-------------------------------------------------------------------------------
(* The cases of arc_access preserve the invariant.                         *)

LEMMA DemotedResidents ==
  ASSUME NEW d, NEW e, Tagged(d), OneDemoted(d, e)
  PROVE  /\ \E v \in ResidentIn(d) : ResidentIn(e) = ResidentIn(d) \ {v}
         /\ \A x \in Pages : d.ahmap[x] \notin {"T1", "T2"} => e.ahmap[x] = d.ahmap[x]
<1>1. PICK v \in ResidentIn(d) :
        e.ahmap[v] \in {"B1", "B2"} /\ \A y \in Pages \ {v} : e.ahmap[y] = d.ahmap[y]
  BY DEF OneDemoted
<1>2. ResidentIn(e) = ResidentIn(d) \ {v}
  BY <1>1 DEF ResidentIn
<1>3. \A x \in Pages : d.ahmap[x] \notin {"T1", "T2"} => e.ahmap[x] = d.ahmap[x]
  BY <1>1 DEF ResidentIn
<1> QED BY <1>2, <1>3

\* Room for one more page in T1: in the frames and in the directory.
HasRoom(d) ==
  /\ Count(d, "T1") + Count(d, "T2") < c
  /\ Count(d, "T1") + Count(d, "B1") < c
  /\ Count(d, "T1") + Count(d, "B1") + Count(d, "T2") + Count(d, "B2") < 2 * c
  /\ Count(d, "B1") + Count(d, "B2") > 0 => Count(d, "T1") + Count(d, "T2") = c - 1

\* A page leaves the frames exactly when they are full.
MakesRoom(d) ==
  \/ Size("T1") + Size("T2") < c /\ ResidentIn(d) = ResidentIn(Dir)
  \/ /\ Size("T1") + Size("T2") = c
     /\ \E v \in ResidentIn(Dir) : ResidentIn(d) = ResidentIn(Dir) \ {v}

LEMMA RoomMade ==
  ASSUME IInv, c > 0, NEW x \in Pages, ahmap[x] = "none", NEW d, d = MakeRoom
  PROVE  Tagged(d) /\ d.ahmap[x] = "none" /\ HasRoom(d) /\ MakesRoom(d)
<1>1. /\ Tagged(Dir) /\ c \in Nat
      /\ Size("T1") \in Nat /\ Size("T2") \in Nat /\ Size("B1") \in Nat /\ Size("B2") \in Nat
      /\ Size("T1") + Size("T2") <= c
      /\ Size("T1") + Size("B1") <= c
      /\ Size("T1") + Size("B1") + Size("T2") + Size("B2") <= 2 * c
      /\ Size("B1") + Size("B2") > 0 => Size("T1") + Size("T2") = c
  BY Sizes
<1>2. /\ Count(Dir, "T1") = Size("T1") /\ Count(Dir, "T2") = Size("T2")
      /\ Count(Dir, "B1") = Size("B1") /\ Count(Dir, "B2") = Size("B2")
      /\ Dir.ahmap = ahmap /\ Dir.lists = lists
  BY DirIs DEF ListNames
<1>3. t1_len = Size("T1") + Size("B1") /\ total = Size("T1") + Size("B1") + Size("T2") + Size("B2")
  BY DEF t1_len, total
<1>4. ASSUME t1_len = c, Size("T1") < c
      PROVE  Tagged(d) /\ d.ahmap[x] = "none" /\ HasRoom(d) /\ MakesRoom(d)
  <2> DEFINE b == Forget(Dir, "B1")
  <2>1. Size("B1") > 0 /\ HasVictim(b, p, FALSE)
    BY <1>4, WithoutB1
  <2>2. /\ Tagged(b) /\ b.ahmap[x] = "none" /\ ResidentIn(b) = ResidentIn(Dir)
        /\ Count(b, "B1") = Size("B1") - 1 /\ Count(b, "T1") = Size("T1")
        /\ Count(b, "T2") = Size("T2") /\ Count(b, "B2") = Size("B2")
    BY <2>1, GhostForgotten DEF ListNames
  <2>3. d = arc_replace(b, p, FALSE)
    BY <1>4 DEF MakeRoom
  <2> HIDE DEF b
  <2>4. Tagged(d) /\ OneDemoted(b, d) /\ FrameFreed(b, d)
    BY <2>1, <2>2, <2>3, ReplaceCounts
  <2>5. HasRoom(d)
    BY <1>1, <1>3, <1>4, <2>1, <2>2, <2>4 DEF HasRoom, FrameFreed, ListNames
  <2>6. d.ahmap[x] = "none" /\ \E v \in ResidentIn(b) : ResidentIn(d) = ResidentIn(b) \ {v}
    BY <2>2, <2>4, DemotedResidents
  <2>7. Size("T1") + Size("T2") = c
    BY <1>1, <2>1
  <2> QED BY <2>2, <2>4, <2>5, <2>6, <2>7 DEF MakesRoom
<1>5. ASSUME t1_len = c, ~(Size("T1") < c)
      PROVE  Tagged(d) /\ d.ahmap[x] = "none" /\ HasRoom(d) /\ MakesRoom(d)
  <2> DEFINE v == Tip(Dir.lists["T1"])
  <2>1. Size("T1") = c /\ Size("B1") = 0 /\ Size("T2") = 0
    BY <1>1, <1>3, <1>5
  <2>2. Dir.lists["T1"] # <<>>
    BY <1>1, <1>2, <2>1, Counts DEF ListNames
  <2>3. d = Forget(Dir, "T1")
    BY <1>5 DEF MakeRoom
  <2>4. /\ Tagged(d)
        /\ Len(d.lists["T1"]) = Len(Dir.lists["T1"]) - 1
        /\ \A k \in ListNames : k # "T1" => d.lists[k] = Dir.lists[k]
        /\ v \in Pages /\ Dir.ahmap[v] = "T1"
        /\ d.ahmap = [Dir.ahmap EXCEPT ![v] = "none"]
    <3>1. "T1" \in ListNames
      BY DEF ListNames
    <3> QED BY <1>1, <2>2, <2>3, <3>1, ForgetTagged
  <2> HIDE DEF v
  <2>5. /\ Count(d, "T1") = Size("T1") - 1 /\ Count(d, "T2") = Size("T2")
        /\ Count(d, "B1") = Size("B1") /\ Count(d, "B2") = Size("B2")
    BY <1>2, <2>4 DEF Count, ListNames
  <2>6. \A y \in Pages : d.ahmap[y] = IF y = v THEN "none" ELSE ahmap[y]
    BY <1>1, <1>2, <2>4 DEF Tagged
  <2>7. v \in ResidentIn(Dir) /\ ResidentIn(d) = ResidentIn(Dir) \ {v}
    BY <1>2, <2>4, <2>6 DEF ResidentIn
  <2>8. HasRoom(d)
    BY <1>1, <2>1, <2>5 DEF HasRoom
  <2>9. Size("T1") + Size("T2") = c /\ d.ahmap[x] = "none"
    BY <1>1, <2>1, <2>6
  <2> QED BY <2>4, <2>7, <2>8, <2>9 DEF MakesRoom
<1>6. ASSUME t1_len < c, FramesFull, DropsGhost
      PROVE  Tagged(d) /\ d.ahmap[x] = "none" /\ HasRoom(d) /\ MakesRoom(d)
  <2> DEFINE b == Forget(Dir, "B2")
  <2>1. Size("B2") > 0 /\ Size("T1") + Size("T2") = c /\ Size("T2") > 0
    BY <1>1, <1>3, <1>6 DEF DropsGhost
  <2>2. /\ Tagged(b) /\ b.ahmap[x] = "none" /\ ResidentIn(b) = ResidentIn(Dir)
        /\ Count(b, "B2") = Size("B2") - 1 /\ Count(b, "T1") = Size("T1")
        /\ Count(b, "T2") = Size("T2") /\ Count(b, "B1") = Size("B1")
    BY <2>1, GhostForgotten DEF ListNames
  <2>3. d = arc_replace(b, p, FALSE)
    <3>1. (IF DropsGhost THEN Forget(Dir, "B2") ELSE Dir) = b
      BY <1>6
    <3>2. ~(t1_len = c)
      BY <1>1, <1>3, <1>6
    <3>3. MakeRoom = arc_replace(IF DropsGhost THEN Forget(Dir, "B2") ELSE Dir, p, FALSE)
      BY <1>6, <3>2 DEF MakeRoom
    <3> QED BY <3>1, <3>3
  <2>4. HasVictim(b, p, FALSE)
    BY <2>1, <2>2, VictimFound
  <2> HIDE DEF b
  <2>5. Tagged(d) /\ OneDemoted(b, d) /\ FrameFreed(b, d)
    BY <2>2, <2>3, <2>4, ReplaceCounts
  <2>6. HasRoom(d)
    BY <1>1, <1>3, <1>6, <2>1, <2>2, <2>5 DEF HasRoom, FrameFreed, ListNames
  <2>7. d.ahmap[x] = "none" /\ \E v \in ResidentIn(b) : ResidentIn(d) = ResidentIn(b) \ {v}
    BY <2>2, <2>5, DemotedResidents
  <2> QED BY <2>1, <2>2, <2>5, <2>6, <2>7 DEF MakesRoom
<1>7. ASSUME t1_len < c, FramesFull, ~DropsGhost
      PROVE  Tagged(d) /\ d.ahmap[x] = "none" /\ HasRoom(d) /\ MakesRoom(d)
  <2>1. HasVictim(Dir, p, FALSE) /\ Size("T1") + Size("T2") = c
    BY <1>7, RoomVictim DEF FramesFull
  <2>2. Size("T1") + Size("B1") + Size("T2") + Size("B2") < 2 * c
    BY <1>1, <1>3, <1>7 DEF DropsGhost
  <2>3. d = arc_replace(Dir, p, FALSE)
    <3>1. (IF DropsGhost THEN Forget(Dir, "B2") ELSE Dir) = Dir
      BY <1>7
    <3>2. ~(t1_len = c)
      BY <1>1, <1>3, <1>7
    <3>3. MakeRoom = arc_replace(IF DropsGhost THEN Forget(Dir, "B2") ELSE Dir, p, FALSE)
      BY <1>7, <3>2 DEF MakeRoom
    <3> QED BY <3>1, <3>3
  <2>4. Tagged(d) /\ OneDemoted(Dir, d) /\ FrameFreed(Dir, d)
    BY <1>1, <2>1, <2>3, ReplaceCounts
  <2>5. HasRoom(d)
    BY <1>1, <1>2, <1>3, <1>7, <2>1, <2>2, <2>4 DEF HasRoom, FrameFreed, ListNames
  <2>6. d.ahmap[x] = "none" /\ \E v \in ResidentIn(Dir) : ResidentIn(d) = ResidentIn(Dir) \ {v}
    BY <1>1, <1>2, <2>4, DemotedResidents
  <2> QED BY <2>1, <2>4, <2>5, <2>6 DEF MakesRoom
<1>8. ASSUME t1_len < c, ~FramesFull
      PROVE  Tagged(d) /\ d.ahmap[x] = "none" /\ HasRoom(d) /\ MakesRoom(d)
  <2>1. total < c
    BY <1>1, <1>3, <1>8 DEF FramesFull
  <2>2. d = Dir
    <3>1. ~(t1_len = c)
      BY <1>1, <1>3, <1>8
    <3> QED BY <1>8, <3>1 DEF MakeRoom
  <2>3. Size("B1") + Size("B2") = 0 /\ Size("T1") + Size("T2") < c
    BY <1>1, <1>3, <2>1
  <2>4. HasRoom(d)
    BY <1>1, <1>2, <1>3, <1>8, <2>1, <2>2, <2>3 DEF HasRoom
  <2> QED BY <1>1, <1>2, <2>2, <2>3, <2>4 DEF MakesRoom
<1> QED BY <1>1, <1>3, <1>4, <1>5, <1>6, <1>7, <1>8

LEMMA InitIInv == Init => IInv
<1> SUFFICES ASSUME Init PROVE IInv
  OBVIOUS
<1>1. lists = [l \in ListNames |-> <<>>] /\ ahmap = [x \in Pages |-> "none"]
  BY DEF Init
<1>2. TypeOk
  BY <1>1 DEF Init, TypeOk
<1>3. TagsMatchLists
  <2>1. \A l \in ListNames : lists[l] = <<>> /\ l # "none"
    BY <1>1 DEF ListNames
  <2> QED BY <1>1, <2>1 DEF TagsMatchLists, Distinct, Members
<1>4. SizesWithinBounds
  <2>1. Size("T1") = 0 /\ Size("T2") = 0 /\ Size("B1") = 0 /\ Size("B2") = 0
    BY <1>1 DEF Size, ListNames
  <2> QED BY <2>1 DEF Init, SizesWithinBounds, t1_len, total
<1>5. Distinct(recency)
  BY DEF Init, Distinct
<1> QED BY <1>2, <1>3, <1>4, <1>5 DEF IInv

LEMMA ResetIInv ==
  ASSUME ResetState, NEW n \in FrameCounts \cup {0}, c' = n
  PROVE  IInv'
<1>1. lists' = [l \in ListNames |-> <<>>] /\ ahmap' = [x \in Pages |-> "none"] /\ n \in Nat
  BY FramesAssumption DEF ResetState
<1>2. TypeOk'
  BY <1>1 DEF ResetState, TypeOk
<1>3. TagsMatchLists'
  <2>1. \A l \in ListNames : lists'[l] = <<>> /\ l # "none"
    BY <1>1 DEF ListNames
  <2> QED BY <1>1, <2>1 DEF TagsMatchLists, Distinct, Members
<1>4. SizesWithinBounds'
  <2>1. Size("T1")' = 0 /\ Size("T2")' = 0 /\ Size("B1")' = 0 /\ Size("B2")' = 0
    BY <1>1 DEF Size, ListNames
  <2> QED BY <1>1, <2>1 DEF SizesWithinBounds, t1_len, total
<1>5. Distinct(recency)'
  BY DEF ResetState, Distinct
<1> QED BY <1>2, <1>3, <1>4, <1>5 DEF IInv

\* An access that leaves a tagged directory within the bounds.
LEMMA AccessIInv ==
  ASSUME IInv, NEW x \in Pages, NEW e, Tagged(e), Bounded(e),
         NEW answer \in {"HIT", "FAULT"}, Access(x, e, answer), p' \in 0..c
  PROVE  IInv'
<1>1. lists' = e.lists /\ ahmap' = e.ahmap /\ c' = c /\ recency' = Used(recency, x) /\ reply' = answer
  BY DEF Access
<1>2. recency' \in Seq(Pages) /\ Distinct(recency')
  BY <1>1, UsedType DEF IInv, TypeOk
<1>3. TypeOk'
  BY <1>1, <1>2 DEF IInv, TypeOk, Tagged
<1>4. TagsMatchLists'
  BY <1>1 DEF TagsMatchLists, Tagged
<1>5. SizesWithinBounds'
  <2>1. \A l \in ListNames : Size(l)' = Count(e, l)
    BY <1>1 DEF Size, Count
  <2>2. /\ Size("T1")' = Count(e, "T1") /\ Size("T2")' = Count(e, "T2")
        /\ Size("B1")' = Count(e, "B1") /\ Size("B2")' = Count(e, "B2")
    BY <2>1 DEF ListNames
  <2> QED BY <1>1, <2>2 DEF SizesWithinBounds, t1_len, total, Bounded
<1> QED BY <1>2, <1>3, <1>4, <1>5 DEF IInv

\* What a case does to the pages in the frames.
FaultServed(x, e) ==
  \/ Size("T1") + Size("T2") < c /\ ResidentIn(e) = ResidentIn(Dir) \cup {x}
  \/ /\ Size("T1") + Size("T2") = c
     /\ \E v \in ResidentIn(Dir) : ResidentIn(e) = (ResidentIn(Dir) \ {v}) \cup {x}

LEMMA HitServed ==
  ASSUME IInv, NEW x \in Pages, Hit(x)
  PROVE  IInv' /\ ResidentIn(Dir)' = ResidentIn(Dir) /\ x \in ResidentIn(Dir)
<1>1. /\ Tagged(Dir) /\ c \in Nat /\ p \in 0..c
      /\ Size("T1") \in Nat /\ Size("T2") \in Nat /\ Size("B1") \in Nat /\ Size("B2") \in Nat
  BY Sizes
<1>2. Dir.ahmap = ahmap /\ Bounded(Dir)
  BY DirIs DEF IInv
<1>3. PICK from \in {"T1", "T2"} : ahmap[x] = from
  BY DEF Hit
<1>4. PICK e : e = MoveToT2(Dir, x, from)
  OBVIOUS
<1>5. from \in ListNames
  BY DEF ListNames
<1>6. Tagged(e) /\ Moved(Dir, x, from, e)
  BY <1>1, <1>2, <1>3, <1>4, <1>5, MoveTagged
<1>7. Bounded(e)
  <2>1. /\ Count(Dir, "T1") \in Nat /\ Count(Dir, "T2") \in Nat
        /\ Count(e, "B1") = Count(Dir, "B1") /\ Count(e, "B2") = Count(Dir, "B2")
    BY <1>1, <1>3, <1>6, Counts DEF Count, Moved, ListNames
  <2>2. CASE from = "T1"
    <3>1. Count(e, "T1") = Count(Dir, "T1") - 1 /\ Count(e, "T2") = Count(Dir, "T2") + 1
      BY <1>6, <2>2 DEF Count, Moved
    <3>2. /\ Count(Dir, "B1") \in Nat /\ Count(Dir, "B2") \in Nat
      BY <1>1, Counts DEF ListNames
    <3>3. Count(e, "T1") + Count(e, "T2") = Count(Dir, "T1") + Count(Dir, "T2")
      BY <2>1, <3>1
    <3>4. Count(e, "T1") + Count(e, "B1") <= c
      BY <1>1, <1>2, <2>1, <3>1, <3>2 DEF Bounded
    <3>5. Count(e, "T1") + Count(e, "B1") + Count(e, "T2") + Count(e, "B2") =
            Count(Dir, "T1") + Count(Dir, "B1") + Count(Dir, "T2") + Count(Dir, "B2")
      BY <2>1, <3>1, <3>2
    <3> QED BY <1>2, <2>1, <3>3, <3>4, <3>5 DEF Bounded
  <2>3. CASE from = "T2"
    <3>1. Count(e, "T1") = Count(Dir, "T1") /\ Count(e, "T2") = Count(Dir, "T2")
      BY <1>6, <2>3 DEF Count, Moved, ListNames
    <3> QED BY <1>2, <2>1, <3>1 DEF Bounded
  <2> QED BY <1>3, <2>2, <2>3
<1>8. Access(x, e, "HIT") /\ p' = p
  BY <1>3, <1>4 DEF Hit, Access
<1>9. IInv'
  BY <1>1, <1>6, <1>7, <1>8, AccessIInv
<1>10. ResidentIn(Dir)' = ResidentIn(Dir) /\ x \in ResidentIn(Dir)
  <2>1. ahmap' = [ahmap EXCEPT ![x] = "T2"]
    BY <1>2, <1>6, <1>8 DEF Access, Moved
  <2>2. \A y \in Pages : ahmap'[y] = IF y = x THEN "T2" ELSE ahmap[y]
    BY <2>1 DEF IInv, TypeOk
  <2> QED BY <1>3, <2>2 DEF ResidentIn, Dir
<1> QED BY <1>9, <1>10

\* A hit in a ghost list: a page becomes a ghost, the ghost comes back to T2.
LEMMA GhostServed ==
  ASSUME IInv, NEW x \in Pages, NEW l \in {"B1", "B2"}, ahmap[x] = l,
         NEW target, NEW in_b2, HasVictim(Dir, target, in_b2),
         NEW d, d = arc_replace(Dir, target, in_b2), NEW e, e = MoveToT2(d, x, l)
  PROVE  Tagged(e) /\ Bounded(e) /\ FaultServed(x, e)
<1>1. /\ Tagged(Dir) /\ c \in Nat
      /\ Size("T1") \in Nat /\ Size("T2") \in Nat /\ Size("B1") \in Nat /\ Size("B2") \in Nat
      /\ Size("T1") + Size("B1") <= c
      /\ Size("T1") + Size("B1") + Size("T2") + Size("B2") <= 2 * c
      /\ Size("B1") + Size("B2") > 0 => Size("T1") + Size("T2") = c
  BY Sizes
<1>2. /\ Count(Dir, "T1") = Size("T1") /\ Count(Dir, "T2") = Size("T2")
      /\ Count(Dir, "B1") = Size("B1") /\ Count(Dir, "B2") = Size("B2")
      /\ Dir.ahmap = ahmap
  BY DirIs DEF ListNames
<1>3. l \in ListNames /\ Size(l) > 0
  BY TaggedPage DEF ListNames
<1>4. Size("T1") + Size("T2") = c
  BY <1>1, <1>3
<1>5. Tagged(d) /\ OneDemoted(Dir, d) /\ FrameFreed(Dir, d)
  BY <1>1, ReplaceCounts
<1>6. /\ d.ahmap[x] = l
      /\ \E v \in ResidentIn(Dir) : ResidentIn(d) = ResidentIn(Dir) \ {v}
  BY <1>1, <1>2, <1>5, DemotedResidents
<1>7. Tagged(e) /\ Moved(d, x, l, e)
  BY <1>3, <1>5, <1>6, MoveTagged
<1>8. ResidentIn(e) = ResidentIn(d) \cup {x}
  <2>1. \A y \in Pages : e.ahmap[y] = IF y = x THEN "T2" ELSE d.ahmap[y]
    BY <1>5, <1>7 DEF Tagged, Moved
  <2> QED BY <2>1 DEF ResidentIn
<1>9. FaultServed(x, e)
  BY <1>4, <1>6, <1>8 DEF FaultServed
<1>10. /\ Count(d, "T1") \in Nat /\ Count(d, "T2") \in Nat
       /\ Count(d, "B1") \in Nat /\ Count(d, "B2") \in Nat
       /\ Count(d, "T1") + Count(d, "T2") = c - 1
       /\ Count(d, "T1") + Count(d, "B1") = Size("T1") + Size("B1")
       /\ Count(d, "B1") + Count(d, "B2") = Size("B1") + Size("B2") + 1
  <2>1. {"T1", "T2", "B1", "B2"} \subseteq ListNames
    BY DEF ListNames
  <2>2. /\ Count(d, "T1") \in Nat /\ Count(d, "T2") \in Nat
        /\ Count(d, "B1") \in Nat /\ Count(d, "B2") \in Nat
    BY <1>5, <2>1 DEF FrameFreed
  <2>3. Count(d, "T1") + Count(d, "T2") = Count(Dir, "T1") + Count(Dir, "T2") - 1
    BY <1>5 DEF FrameFreed
  <2>4. Count(d, "T1") + Count(d, "T2") = c - 1
    BY <1>1, <1>2, <1>4, <2>3
  <2>5. Count(d, "T1") + Count(d, "B1") = Size("T1") + Size("B1")
    BY <1>2, <1>5 DEF FrameFreed
  <2>6. Count(d, "B1") + Count(d, "B2") = Size("B1") + Size("B2") + 1
    BY <1>2, <1>5 DEF FrameFreed
  <2> QED BY <2>2, <2>4, <2>5, <2>6
<1>11. /\ Count(e, l) = Count(d, l) - 1 /\ Count(e, "T2") = Count(d, "T2") + 1
       /\ Count(e, "T1") = Count(d, "T1")
       /\ \A k \in {"B1", "B2"} \ {l} : Count(e, k) = Count(d, k)
  <2>1. l # "T2" /\ {"T1", "B1", "B2"} \ {l} \subseteq ListNames \ {l, "T2"}
    BY DEF ListNames
  <2> QED BY <1>7, <2>1 DEF Count, Moved
<1>12. Count(e, "T1") + Count(e, "T2") = c
  <2>1. c \in Nat /\ Count(d, "T1") \in Nat /\ Count(d, "T2") \in Nat
    BY <1>1, <1>10
  <2>2. Count(e, "T1") + Count(e, "T2") = Count(d, "T1") + (Count(d, "T2") + 1)
    BY <1>11
  <2>3. Count(d, "T1") + Count(d, "T2") = c - 1
    BY <1>10
  <2> QED BY <2>1, <2>2, <2>3
<1>13. /\ Count(e, "T1") + Count(e, "B1") <= c
       /\ Count(e, "B1") + Count(e, "B2") = Size("B1") + Size("B2")
       /\ Count(e, "B1") \in Int /\ Count(e, "B2") \in Int /\ Count(e, "T1") \in Nat
       /\ Count(e, "T2") \in Nat
  <2>1. CASE l = "B1"
    <3>1. Count(e, "B1") = Count(d, "B1") - 1 /\ Count(e, "B2") = Count(d, "B2")
      BY <1>11, <2>1
    <3> QED BY <1>1, <1>10, <1>11, <3>1
  <2>2. CASE l = "B2"
    <3>1. Count(e, "B2") = Count(d, "B2") - 1 /\ Count(e, "B1") = Count(d, "B1")
      BY <1>11, <2>2
    <3> QED BY <1>1, <1>10, <1>11, <3>1
  <2> QED BY <2>1, <2>2
<1>14. Count(e, "T1") + Count(e, "B1") + Count(e, "T2") + Count(e, "B2") <= 2 * c
  <2>1. Size("B1") + Size("B2") <= c
    BY <1>1, <1>4
  <2> QED BY <1>1, <1>12, <1>13, <2>1
<1>15. Bounded(e)
  BY <1>1, <1>12, <1>13, <1>14 DEF Bounded
<1> QED BY <1>7, <1>9, <1>15

LEMMA MissServed ==
  ASSUME IInv, c > 0, NEW x \in Pages, ahmap[x] = "none",
         NEW d, d = MakeRoom, NEW e, e = AddToT1(d, x)
  PROVE  Tagged(e) /\ Bounded(e) /\ FaultServed(x, e)
<1>1. Tagged(d) /\ d.ahmap[x] = "none" /\ HasRoom(d) /\ MakesRoom(d)
  BY RoomMade
<1>2. /\ Tagged(e)
      /\ Len(e.lists["T1"]) = Len(d.lists["T1"]) + 1
      /\ \A k \in ListNames \ {"T1"} : e.lists[k] = d.lists[k]
      /\ e.ahmap = [d.ahmap EXCEPT ![x] = "T1"]
  BY <1>1, AddTagged
<1>3. ResidentIn(e) = ResidentIn(d) \cup {x}
  <2>1. \A y \in Pages : e.ahmap[y] = IF y = x THEN "T1" ELSE d.ahmap[y]
    BY <1>1, <1>2 DEF Tagged
  <2> QED BY <2>1 DEF ResidentIn
<1>4. FaultServed(x, e)
  BY <1>1, <1>3 DEF FaultServed, MakesRoom
<1>5. /\ Count(d, "T1") \in Nat /\ Count(d, "T2") \in Nat
      /\ Count(d, "B1") \in Nat /\ Count(d, "B2") \in Nat /\ c \in Nat
  BY <1>1, Counts, Sizes DEF ListNames
<1>6. /\ Count(e, "T1") = Count(d, "T1") + 1 /\ Count(e, "T2") = Count(d, "T2")
      /\ Count(e, "B1") = Count(d, "B1") /\ Count(e, "B2") = Count(d, "B2")
  BY <1>2 DEF Count, ListNames
<1>7. Bounded(e)
  <2>1. Count(e, "T1") + Count(e, "T2") <= c
    BY <1>1, <1>5, <1>6 DEF HasRoom
  <2>2. Count(e, "T1") + Count(e, "B1") <= c
    BY <1>1, <1>5, <1>6 DEF HasRoom
  <2>3. Count(e, "T1") + Count(e, "B1") + Count(e, "T2") + Count(e, "B2") <= 2 * c
    BY <1>1, <1>5, <1>6 DEF HasRoom
  <2>4. Count(e, "B1") + Count(e, "B2") > 0 => Count(e, "T1") + Count(e, "T2") = c
    BY <1>1, <1>5, <1>6 DEF HasRoom
  <2> QED BY <2>1, <2>2, <2>3, <2>4 DEF Bounded
<1> QED BY <1>2, <1>4, <1>7

\* The three cases of a fault.
LEMMA FaultIInv ==
  ASSUME IInv, NEW x \in Pages, GhostHitB1(x) \/ GhostHitB2(x) \/ Miss(x)
  PROVE  /\ IInv' /\ ahmap[x] \notin {"T1", "T2"}
         /\ \E e : Access(x, e, "FAULT") /\ FaultServed(x, e)
<1>1. ASSUME NEW e, Tagged(e), Bounded(e), FaultServed(x, e), Access(x, e, "FAULT"), p' \in 0..c,
             ahmap[x] \notin {"T1", "T2"}
      PROVE  /\ IInv' /\ ahmap[x] \notin {"T1", "T2"}
             /\ \E f : Access(x, f, "FAULT") /\ FaultServed(x, f)
  BY <1>1, AccessIInv
<1>2. CASE GhostHitB1(x)
  <2>1. PICK target : target = Raised
    OBVIOUS
  <2>2. PICK d : d = arc_replace(Dir, target, FALSE)
    OBVIOUS
  <2>3. PICK e : e = MoveToT2(d, x, "B1")
    OBVIOUS
  <2>4. ahmap[x] = "B1" /\ Size("B1") > 0
    BY <1>2, TaggedPage DEF GhostHitB1, ListNames
  <2>5. HasVictim(Dir, target, FALSE) /\ target \in 0..c
    BY <2>1, <2>4, GhostVictims, TargetType
  <2>6. Access(x, e, "FAULT") /\ p' = target
    BY <1>2, <2>1, <2>2, <2>3 DEF GhostHitB1, Access
  <2>7. Tagged(e) /\ Bounded(e) /\ FaultServed(x, e)
    BY <2>2, <2>3, <2>4, <2>5, GhostServed
  <2> QED BY <1>1, <2>4, <2>5, <2>6, <2>7
<1>3. CASE GhostHitB2(x)
  <2>1. PICK target : target = Lowered
    OBVIOUS
  <2>2. PICK d : d = arc_replace(Dir, target, TRUE)
    OBVIOUS
  <2>3. PICK e : e = MoveToT2(d, x, "B2")
    OBVIOUS
  <2>4. ahmap[x] = "B2" /\ Size("B2") > 0
    BY <1>3, TaggedPage DEF GhostHitB2, ListNames
  <2>5. HasVictim(Dir, target, TRUE) /\ target \in 0..c
    BY <2>1, <2>4, GhostVictims, TargetType
  <2>6. Access(x, e, "FAULT") /\ p' = target
    BY <1>3, <2>1, <2>2, <2>3 DEF GhostHitB2, Access
  <2>7. Tagged(e) /\ Bounded(e) /\ FaultServed(x, e)
    BY <2>2, <2>3, <2>4, <2>5, GhostServed
  <2> QED BY <1>1, <2>4, <2>5, <2>6, <2>7
<1>4. CASE Miss(x)
  <2>1. PICK d : d = MakeRoom
    OBVIOUS
  <2>2. PICK e : e = AddToT1(d, x)
    OBVIOUS
  <2>3. ahmap[x] = "none" /\ Access(x, e, "FAULT") /\ p' = p /\ c > 0
    BY <1>4, <2>1, <2>2 DEF Miss, Access
  <2>4. Tagged(e) /\ Bounded(e) /\ FaultServed(x, e)
    BY <2>1, <2>2, <2>3, MissServed
  <2>5. p \in 0..c
    BY DEF IInv, TypeOk
  <2> QED BY <1>1, <2>3, <2>4, <2>5
<1> QED BY <1>2, <1>3, <1>4

LEMMA StepIInv == IInv /\ [Next]_vars => IInv'
<1> SUFFICES ASSUME IInv, [Next]_vars PROVE IInv'
  OBVIOUS
<1>1. ASSUME NEW n \in FrameCounts, ArcInit(n) PROVE IInv'
  BY <1>1, ResetIInv DEF ArcInit
<1>2. CASE ArcReset
  BY <1>2, ResetIInv DEF ArcReset
<1>3. ASSUME NEW x \in Pages, Hit(x) \/ GhostHitB1(x) \/ GhostHitB2(x) \/ Miss(x) PROVE IInv'
  BY <1>3, HitServed, FaultIInv
<1>4. CASE UNCHANGED vars
  BY <1>4 DEF vars, IInv, TypeOk, TagsMatchLists, SizesWithinBounds, Size, t1_len, total
<1> QED BY <1>1, <1>2, <1>3, <1>4 DEF Next

LEMMA Invariance == Spec => []IInv
BY InitIInv, StepIInv, PTL DEF Spec

\* Types, with the range of the adaptive target (arc.c:127, 141), for any pages, any
\* number of frames and any trace.
THEOREM TypeCorrect == Spec => []TypeOk
<1>1. IInv => TypeOk
  BY DEF IInv
<1> QED BY <1>1, Invariance, PTL

\* No case of arc_access leaves a node on another list than its tag says, nor a freed
\* node in the map (arc.c:116, 130, 144).
THEOREM TagsCorrect == Spec => []TagsMatchLists
<1>1. IInv => TagsMatchLists
  BY DEF IInv
<1> QED BY <1>1, Invariance, PTL

\* T1 and T2 never outgrow the frames, T1 and B1 never outgrow c, the directory never
\* outgrows 2 * c, and there are ghosts only when the frames are full.
THEOREM SizesCorrect == Spec => []SizesWithinBounds
<1>1. IInv => SizesWithinBounds
  BY DEF IInv
<1> QED BY <1>1, Invariance, PTL

\* arc_replace never pops an empty list, whatever the target has become and whatever page
\* comes next: the null pointer that dl_pop_tail would return is never used
\* (arc.c:90-91, 96-97).
THEOREM VictimsExist == Spec => []ReplaceFindsVictim
BY VictimsHold, Invariance, PTL

-------------------------------------------------------------------------------
(* ARC implements demand paging.                                           *)

\* The instance's Cardinality is the one of the library theorems.
LEMMA SameCardinality == \A S : Paging!Cardinality(S) = Cardinality(S)
BY DEF Paging!Cardinality, Cardinality, Paging!IsFiniteSet, IsFiniteSet

LEMMA ResidentIs == ResidentIn(Dir) = {x \in Pages : ahmap[x] \in {"T1", "T2"}}
BY DEF ResidentIn, Dir

\* T1 and T2 hold the resident pages, each page once.
LEMMA ResidentCount ==
  ASSUME IInv
  PROVE  Paging!Cardinality(ResidentIn(Dir)) = Size("T1") + Size("T2")
<1>1. /\ lists["T1"] \in Seq(Pages) /\ Distinct(lists["T1"])
      /\ lists["T2"] \in Seq(Pages) /\ Distinct(lists["T2"])
  BY DEF IInv, TypeOk, TagsMatchLists, ListNames
<1> DEFINE A == Members(lists["T1"])
           B == Members(lists["T2"])
<1>2. /\ IsFiniteSet(A) /\ Cardinality(A) = Size("T1")
      /\ IsFiniteSet(B) /\ Cardinality(B) = Size("T2")
  BY <1>1, MembersCount DEF Size
<1>3. A \subseteq Pages /\ B \subseteq Pages
  BY <1>1 DEF Members
<1>4. \A x \in Pages : (x \in A <=> ahmap[x] = "T1") /\ (x \in B <=> ahmap[x] = "T2")
  BY DEF IInv, TagsMatchLists, ListNames
<1> HIDE DEF A, B
<1>5. ResidentIn(Dir) = A \cup B /\ A \cap B = {}
  BY <1>3, <1>4, ResidentIs
<1>6. Cardinality(A \cup B) = Cardinality(A) + Cardinality(B) - Cardinality(A \cap B)
  BY <1>2, FS_Union
<1>7. Cardinality(A \cap B) = 0
  BY <1>5, FS_EmptySet
<1>8. Size("T1") \in Nat /\ Size("T2") \in Nat
  BY Sizes
<1>9. Cardinality(A \cup B) = Size("T1") + Size("T2")
  BY <1>2, <1>6, <1>7, <1>8
<1> QED BY <1>5, <1>9, SameCardinality

\* The first page of the recency order after an access is the page accessed.
LEMMA LastUsed ==
  ASSUME IInv, NEW x \in Pages, recency' = Used(recency, x)
  PROVE  (IF recency = <<>> THEN "none" ELSE recency[1])' = x
<1>1. recency \in Seq(Pages) /\ Distinct(recency)
  BY DEF IInv, TypeOk
<1>2. Used(recency, x)[1] = x /\ Used(recency, x) # <<>>
  BY <1>1, UsedType
<1> QED BY <1>2

LEMMA AccessRefines ==
  ASSUME IInv, NEW x \in Pages, Hit(x) \/ GhostHitB1(x) \/ GhostHitB2(x) \/ Miss(x)
  PROVE  Paging!Hit(x) \/ Paging!Load(x) \/ Paging!Replace(x)
<1>1. c' = c /\ recency' = Used(recency, x)
  BY DEF Hit, GhostHitB1, GhostHitB2, Miss, Access
<1>2. (IF recency = <<>> THEN "none" ELSE recency[1])' = x
  BY <1>1, LastUsed
<1>3. CASE Hit(x)
  <2>1. reply' = "HIT"
    BY <1>3 DEF Hit, Access
  <2>2. ResidentIn(Dir)' = ResidentIn(Dir) /\ x \in ResidentIn(Dir)
    BY <1>3, HitServed
  <2>3. Paging!Hit(x)
    BY <1>1, <1>2, <2>1, <2>2, ResidentIs DEF Paging!Hit, ResidentIn, Dir
  <2> QED BY <2>3
<1>4. CASE GhostHitB1(x) \/ GhostHitB2(x) \/ Miss(x)
  <2>1. ahmap[x] \notin {"T1", "T2"}
    BY <1>4, FaultIInv
  <2>2. PICK e : Access(x, e, "FAULT") /\ FaultServed(x, e)
    BY <1>4, FaultIInv
  <2>3. reply' = "FAULT" /\ ahmap' = e.ahmap
    BY <2>2 DEF Access
  <2>4. ResidentIn(Dir)' = ResidentIn(e)
    BY <2>3 DEF ResidentIn, Dir
  <2>5. x \notin ResidentIn(Dir)
    BY <2>1, ResidentIs
  <2>6. Paging!Cardinality(ResidentIn(Dir)) = Size("T1") + Size("T2")
    BY ResidentCount
  <2>7. CASE Size("T1") + Size("T2") < c /\ ResidentIn(e) = ResidentIn(Dir) \cup {x}
    <3>1. Paging!Load(x)
      BY <1>1, <1>2, <2>3, <2>4, <2>5, <2>6, <2>7 DEF Paging!Load, ResidentIn, Dir
    <3> QED BY <3>1
  <2>8. CASE /\ Size("T1") + Size("T2") = c
             /\ \E v \in ResidentIn(Dir) : ResidentIn(e) = (ResidentIn(Dir) \ {v}) \cup {x}
    <3>1. Paging!Replace(x)
      BY <1>1, <1>2, <2>3, <2>4, <2>5, <2>6, <2>8 DEF Paging!Replace, ResidentIn, Dir
    <3> QED BY <3>1
  <2> QED BY <2>2, <2>7, <2>8 DEF FaultServed
<1> QED BY <1>3, <1>4

\* The same in terms of the pages held.
Held == {x \in Pages : ahmap[x] \in {"T1", "T2"}}

LEMMA AccessServes ==
  ASSUME IInv, NEW x \in Pages, Hit(x) \/ GhostHitB1(x) \/ GhostHitB2(x) \/ Miss(x)
  PROVE  \/ x \in Held /\ reply' = "HIT" /\ Held' = Held
         \/ /\ x \notin Held /\ reply' = "FAULT"
            /\ \/ Cardinality(Held) < c /\ Held' = Held \cup {x}
               \/ /\ Cardinality(Held) = c
                  /\ \E v \in Held : Held' = (Held \ {v}) \cup {x}
BY AccessRefines, SameCardinality DEF Paging!Hit, Paging!Load, Paging!Replace, Held

\* arc_access answers HIT exactly for a page in T1 or T2, and evicts one page, and only
\* when no frame is free, for any pages, any number of frames and any trace.
THEOREM Refinement == Spec => RefinesDemandPaging
<1>1. Init => Paging!Init
  BY DEF Init, Paging!Init
<1>2. IInv /\ [Next]_vars => [Paging!Next]_(Paging!vars)
  <2> SUFFICES ASSUME IInv, [Next]_vars PROVE [Paging!Next]_(Paging!vars)
    OBVIOUS
  <2>1. ASSUME NEW n \in FrameCounts \cup {0}, ResetState, c' = n PROVE Paging!Next
    <3>1. Paging!Configure(n)
      BY <2>1 DEF ResetState, Paging!Configure
    <3> QED BY <3>1 DEF Paging!Next
  <2>2. ASSUME NEW n \in FrameCounts, ArcInit(n) PROVE Paging!Next
    BY <2>1, <2>2 DEF ArcInit
  <2>3. CASE ArcReset
    BY <2>1, <2>3 DEF ArcReset
  <2>4. ASSUME NEW x \in Pages, Hit(x) \/ GhostHitB1(x) \/ GhostHitB2(x) \/ Miss(x)
        PROVE  Paging!Next
    BY <2>4, AccessRefines DEF Paging!Next
  <2>5. ASSUME UNCHANGED vars PROVE UNCHANGED Paging!vars
    BY <2>5 DEF vars, Paging!vars
  <2> QED BY <2>2, <2>3, <2>4, <2>5 DEF Next
<1> QED BY <1>1, <1>2, Invariance, PTL DEF Spec, RefinesDemandPaging, Paging!Spec

-------------------------------------------------------------------------------
(* ARC implements the directory of two lists: the steps of a case, on T1   *)
(* followed by B1 and on T2 followed by B2.                                *)

Once(d)  == d.lists["T1"] \o d.lists["B1"]
Twice(d) == d.lists["T2"] \o d.lists["B2"]

LEMMA JoinedType ==
  ASSUME NEW d, Tagged(d)
  PROVE  /\ Once(d) \in Seq(Pages) /\ Distinct(Once(d))
         /\ Twice(d) \in Seq(Pages) /\ Distinct(Twice(d))
         /\ Len(Once(d)) = Count(d, "T1") + Count(d, "B1")
         /\ Len(Twice(d)) = Count(d, "T2") + Count(d, "B2")
         /\ \A x \in Pages : x \in Members(Once(d)) <=> d.ahmap[x] \in {"T1", "B1"}
         /\ \A x \in Pages : x \in Members(Twice(d)) <=> d.ahmap[x] \in {"T2", "B2"}
<1>1. ASSUME NEW l \in ListNames, NEW g \in ListNames, l # g
      PROVE  /\ d.lists[l] \o d.lists[g] \in Seq(Pages) /\ Distinct(d.lists[l] \o d.lists[g])
             /\ Len(d.lists[l] \o d.lists[g]) = Count(d, l) + Count(d, g)
             /\ \A x \in Pages :
                  x \in Members(d.lists[l] \o d.lists[g]) <=> d.ahmap[x] \in {l, g}
  <2>1. /\ d.lists[l] \in Seq(Pages) /\ Distinct(d.lists[l])
        /\ d.lists[g] \in Seq(Pages) /\ Distinct(d.lists[g])
    BY TaggedList
  <2>2. \A x \in Pages : (x \in Members(d.lists[l]) <=> d.ahmap[x] = l)
                         /\ (x \in Members(d.lists[g]) <=> d.ahmap[x] = g)
    BY DEF Tagged
  <2>3. Members(d.lists[l]) \subseteq Pages
    BY <2>1 DEF Members
  <2>4. Members(d.lists[l]) \cap Members(d.lists[g]) = {}
    BY <1>1, <2>2, <2>3
  <2>5. /\ Members(d.lists[l] \o d.lists[g]) = Members(d.lists[l]) \cup Members(d.lists[g])
        /\ Distinct(d.lists[l] \o d.lists[g])
    BY <2>1, <2>4, JoinMembers
  <2>6. /\ d.lists[l] \o d.lists[g] \in Seq(Pages)
        /\ Len(d.lists[l] \o d.lists[g]) = Count(d, l) + Count(d, g)
    BY <2>1, JoinType DEF Count
  <2> QED BY <2>2, <2>5, <2>6
<1>2. {"T1", "T2", "B1", "B2"} \subseteq ListNames
  BY DEF ListNames
<1>3. /\ Once(d) \in Seq(Pages) /\ Distinct(Once(d))
      /\ Len(Once(d)) = Count(d, "T1") + Count(d, "B1")
      /\ \A x \in Pages : x \in Members(Once(d)) <=> d.ahmap[x] \in {"T1", "B1"}
  BY <1>1, <1>2 DEF Once
<1>4. /\ Twice(d) \in Seq(Pages) /\ Distinct(Twice(d))
      /\ Len(Twice(d)) = Count(d, "T2") + Count(d, "B2")
      /\ \A x \in Pages : x \in Members(Twice(d)) <=> d.ahmap[x] \in {"T2", "B2"}
  BY <1>1, <1>2 DEF Twice
<1> QED BY <1>3, <1>4

\* Turning a page into a ghost moves the border between the two lists, and nothing else.
SameJoined(d, e) == Once(e) = Once(d) /\ Twice(e) = Twice(d)

LEMMA ReplaceJoined ==
  ASSUME NEW d, Tagged(d), NEW target, NEW in_b2, HasVictim(d, target, in_b2),
         NEW e, e = arc_replace(d, target, in_b2)
  PROVE  SameJoined(d, e)
<1>1. ASSUME NEW from \in ListNames, NEW to \in ListNames, from # to,
             d.lists[from] # <<>>, e = Demote(d, from, to)
      PROVE  /\ e.lists[from] \o e.lists[to] = d.lists[from] \o d.lists[to]
             /\ \A k \in ListNames \ {from, to} : e.lists[k] = d.lists[k]
  <2> DEFINE r == PopTail(d.lists[from])
             t == PushFront(d.lists[to], Tip(d.lists[from]))
  <2>1. d.lists \in [ListNames -> Seq(Pages)]
    BY DEF Tagged
  <2>2. r \o t = d.lists[from] \o d.lists[to]
    BY <1>1, <2>1, JoinDemote
  <2>3. e.lists = [d.lists EXCEPT ![from] = r, ![to] = t]
    BY <1>1, <2>1 DEF Demote
  <2> HIDE DEF r, t
  <2>4. e.lists[from] = r /\ e.lists[to] = t
    BY <1>1, <2>1, <2>3
  <2>5. \A k \in ListNames \ {from, to} : e.lists[k] = d.lists[k]
    BY <2>1, <2>3
  <2> QED BY <2>2, <2>4, <2>5
<1>2. {"T1", "T2", "B1", "B2"} \subseteq ListNames
  BY DEF ListNames
<1>3. CASE ReplacesT1(d, target, in_b2)
  <2>1. d.lists["T1"] # <<>> /\ e = Demote(d, "T1", "B1")
    BY <1>3 DEF HasVictim, arc_replace
  <2>2. /\ e.lists["T1"] \o e.lists["B1"] = d.lists["T1"] \o d.lists["B1"]
        /\ \A k \in ListNames \ {"T1", "B1"} : e.lists[k] = d.lists[k]
    BY <1>1, <1>2, <2>1
  <2> QED BY <1>2, <2>2 DEF SameJoined, Once, Twice
<1>4. CASE ~ReplacesT1(d, target, in_b2)
  <2>1. d.lists["T2"] # <<>> /\ e = Demote(d, "T2", "B2")
    BY <1>4 DEF HasVictim, arc_replace
  <2>2. /\ e.lists["T2"] \o e.lists["B2"] = d.lists["T2"] \o d.lists["B2"]
        /\ \A k \in ListNames \ {"T2", "B2"} : e.lists[k] = d.lists[k]
    BY <1>1, <1>2, <2>1
  <2> QED BY <1>2, <2>2 DEF SameJoined, Once, Twice
<1> QED BY <1>3, <1>4

\* Forgetting the last page of a ghost list, or of T1 when it has no ghosts.
LEMMA ForgetJoined ==
  ASSUME NEW d, Tagged(d), NEW l \in {"B1", "B2", "T1"}, d.lists[l] # <<>>,
         l = "T1" => d.lists["B1"] = <<>>, NEW e, e = Forget(d, l)
  PROVE  /\ l = "B2" => Once(e) = Once(d) /\ Twice(e) = PopTail(Twice(d))
         /\ l # "B2" => Once(e) = PopTail(Once(d)) /\ Twice(e) = Twice(d)
<1> DEFINE r == PopTail(d.lists[l])
<1>1. d.lists \in [ListNames -> Seq(Pages)]
  BY DEF Tagged
<1>2. {"T1", "T2", "B1", "B2"} \subseteq ListNames /\ l \in ListNames
  BY DEF ListNames
<1>3. e.lists = [d.lists EXCEPT ![l] = r]
  BY DEF Forget
<1>4. \A s \in Seq(Pages) : s \o r = PopTail(s \o d.lists[l])
  BY <1>1, <1>2, JoinPopTail
<1>5. r \in Seq(Pages)
  BY <1>1, <1>2, PopTailType
<1> HIDE DEF r
<1>6. \A k \in ListNames : e.lists[k] = IF k = l THEN r ELSE d.lists[k]
  BY <1>1, <1>3
<1>7. CASE l = "B1"
  BY <1>1, <1>2, <1>4, <1>6, <1>7 DEF Once, Twice
<1>8. CASE l = "B2"
  BY <1>1, <1>2, <1>4, <1>6, <1>8 DEF Once, Twice
<1>9. CASE l = "T1"
  <2>1. d.lists["B1"] = <<>> /\ e.lists["B1"] = <<>> /\ e.lists["T1"] = r
    BY <1>2, <1>6, <1>9
  <2>2. Once(e) = r
    BY <1>5, <2>1 DEF Once
  <2>3. Once(d) = d.lists[l]
    BY <1>1, <1>2, <1>9, <2>1 DEF Once
  <2>4. Twice(e) = Twice(d)
    BY <1>2, <1>6, <1>9 DEF Twice
  <2> QED BY <1>9, <2>2, <2>3, <2>4 DEF r
<1> QED BY <1>7, <1>8, <1>9

\* The page used goes to the head of T2 \o B2, wherever it was.
LEMMA MoveJoined ==
  ASSUME NEW d, Tagged(d), NEW x \in Pages, NEW from \in ListNames, d.ahmap[x] = from,
         NEW e, e = MoveToT2(d, x, from)
  PROVE  /\ from \in {"T1", "B1"} => /\ Once(e) = Remove(Once(d), x)
                                     /\ Twice(e) = PushFront(Twice(d), x)
         /\ from \in {"T2", "B2"} => /\ Once(e) = Once(d)
                                     /\ Twice(e) = PushFront(Remove(Twice(d), x), x)
<1> DEFINE r == Remove(d.lists[from], x)
           u == IF from = "T2" THEN r ELSE d.lists["T2"]
           t == PushFront(u, x)
<1>1. d.lists \in [ListNames -> Seq(Pages)]
  BY DEF Tagged
<1>2. {"T1", "T2", "B1", "B2"} \subseteq ListNames
  BY DEF ListNames
<1>3. x \in Members(d.lists[from])
  BY DEF Tagged
<1>4. r \in Seq(Pages)
  BY <1>1, <1>3, RemoveType
<1>5. \A k \in ListNames :
        e.lists[k] = IF k = "T2" THEN t ELSE IF k = from THEN r ELSE d.lists[k]
  <2> DEFINE w == [d.lists EXCEPT ![from] = r]
  <2>1. e.lists = [w EXCEPT !["T2"] = PushFront(w["T2"], x)]
    BY DEF MoveToT2
  <2> HIDE DEF r
  <2>2. w \in [ListNames -> Seq(Pages)] /\ w["T2"] = u
    BY <1>1, <1>2, <1>4
  <2>3. \A k \in ListNames : w[k] = IF k = from THEN r ELSE d.lists[k]
    BY <1>1
  <2> HIDE DEF w, u
  <2> QED BY <2>1, <2>2, <2>3
<1>6. /\ Distinct(Once(d)) /\ Distinct(Twice(d))
  BY JoinedType
<1>7. \A g \in ListNames : d.lists[g] \in Seq(Pages)
  BY <1>1
<1>8. \A v, w \in Seq(Pages) : PushFront(v, x) \o w = PushFront(v \o w, x)
  BY JoinPushFront
<1>9. \A v, w \in Seq(Pages) : Distinct(v \o w) =>
         /\ x \in Members(v) => Remove(v, x) \o w = Remove(v \o w, x)
         /\ x \in Members(w) => v \o Remove(w, x) = Remove(v \o w, x)
  BY JoinRemove
<1>10. from # "T2" => t = PushFront(d.lists["T2"], x)
  OBVIOUS
<1>11. from = "T2" => t = PushFront(r, x)
  OBVIOUS
<1>12. r = Remove(d.lists[from], x)
  OBVIOUS
<1> HIDE DEF t, u, r
<1>13. CASE from = "T1"
  <2>1. e.lists["T1"] = r /\ e.lists["B1"] = d.lists["B1"] /\ e.lists["B2"] = d.lists["B2"]
        /\ e.lists["T2"] = PushFront(d.lists["T2"], x)
    BY <1>2, <1>5, <1>13, <1>10
  <2>2. r \o d.lists["B1"] = Remove(Once(d), x)
    BY <1>2, <1>3, <1>6, <1>7, <1>13, <1>9, <1>12 DEF Once
  <2>3. PushFront(d.lists["T2"], x) \o d.lists["B2"] = PushFront(Twice(d), x)
    BY <1>2, <1>7, <1>8 DEF Twice
  <2> QED BY <1>13, <2>1, <2>2, <2>3 DEF Once, Twice
<1>14. CASE from = "B1"
  <2>1. e.lists["B1"] = r /\ e.lists["T1"] = d.lists["T1"] /\ e.lists["B2"] = d.lists["B2"]
        /\ e.lists["T2"] = PushFront(d.lists["T2"], x)
    BY <1>2, <1>5, <1>14, <1>10
  <2>2. d.lists["T1"] \o r = Remove(Once(d), x)
    BY <1>2, <1>3, <1>6, <1>7, <1>14, <1>9, <1>12 DEF Once
  <2>3. PushFront(d.lists["T2"], x) \o d.lists["B2"] = PushFront(Twice(d), x)
    BY <1>2, <1>7, <1>8 DEF Twice
  <2> QED BY <1>14, <2>1, <2>2, <2>3 DEF Once, Twice
<1>15. CASE from = "T2"
  <2>1. e.lists["T2"] = PushFront(r, x) /\ e.lists["B2"] = d.lists["B2"]
        /\ e.lists["T1"] = d.lists["T1"] /\ e.lists["B1"] = d.lists["B1"]
    BY <1>2, <1>5, <1>15, <1>11
  <2>2. r \o d.lists["B2"] = Remove(Twice(d), x)
    BY <1>2, <1>3, <1>6, <1>7, <1>15, <1>9, <1>12 DEF Twice
  <2>3. PushFront(r, x) \o d.lists["B2"] = PushFront(r \o d.lists["B2"], x)
    <3>1. d.lists["B2"] \in Seq(Pages)
      BY <1>2, <1>7
    <3> QED BY <1>4, <1>8, <3>1
  <2> QED BY <1>15, <2>1, <2>2, <2>3 DEF Once, Twice
<1>16. CASE from = "B2"
  <2>1. e.lists["T2"] = PushFront(d.lists["T2"], x) /\ e.lists["B2"] = r
        /\ e.lists["T1"] = d.lists["T1"] /\ e.lists["B1"] = d.lists["B1"]
    BY <1>2, <1>5, <1>16, <1>10
  <2>2. d.lists["T2"] \o r = Remove(Twice(d), x)
    BY <1>2, <1>3, <1>6, <1>7, <1>16, <1>9, <1>12 DEF Twice
  <2>3. PushFront(d.lists["T2"], x) \o r = PushFront(d.lists["T2"] \o r, x)
    <3>1. d.lists["T2"] \in Seq(Pages)
      BY <1>2, <1>7
    <3> QED BY <1>4, <1>8, <3>1
  <2> QED BY <1>16, <2>1, <2>2, <2>3 DEF Once, Twice
<1> QED BY <1>13, <1>14, <1>15, <1>16 DEF ListNames

LEMMA AddJoined ==
  ASSUME NEW d, Tagged(d), NEW x \in Pages, NEW e, e = AddToT1(d, x)
  PROVE  Once(e) = PushFront(Once(d), x) /\ Twice(e) = Twice(d)
<1> DEFINE t == PushFront(d.lists["T1"], x)
<1>1. d.lists \in [ListNames -> Seq(Pages)] /\ {"T1", "T2", "B1", "B2"} \subseteq ListNames
  BY DEF Tagged, ListNames
<1>2. e.lists = [d.lists EXCEPT !["T1"] = t]
  BY DEF AddToT1
<1>3. t \o d.lists["B1"] = PushFront(Once(d), x)
  <2>1. d.lists["T1"] \in Seq(Pages) /\ d.lists["B1"] \in Seq(Pages)
    BY <1>1
  <2>2. \A v, w \in Seq(Pages) : PushFront(v, x) \o w = PushFront(v \o w, x)
    BY JoinPushFront
  <2> QED BY <2>1, <2>2 DEF Once
<1> HIDE DEF t
<1>4. \A k \in ListNames : e.lists[k] = IF k = "T1" THEN t ELSE d.lists[k]
  BY <1>1, <1>2
<1> QED BY <1>1, <1>3, <1>4 DEF Once, Twice

\* Which of the two lists gives a page up before a new page enters.
Dropped(d) ==
  \/ /\ Len(Once(Dir)) = c
     /\ Once(d) = PopTail(Once(Dir)) /\ Twice(d) = Twice(Dir)
  \/ /\ Len(Once(Dir)) < c /\ Len(Once(Dir)) + Len(Twice(Dir)) = 2 * c
     /\ Once(d) = Once(Dir) /\ Twice(d) = PopTail(Twice(Dir))
  \/ /\ Len(Once(Dir)) < c /\ Len(Once(Dir)) + Len(Twice(Dir)) < 2 * c
     /\ Once(d) = Once(Dir) /\ Twice(d) = Twice(Dir)

LEMMA RoomJoined ==
  ASSUME IInv, c > 0, NEW d, d = MakeRoom
  PROVE  Dropped(d)
<1>1. /\ Tagged(Dir) /\ c \in Nat
      /\ Size("T1") \in Nat /\ Size("T2") \in Nat /\ Size("B1") \in Nat /\ Size("B2") \in Nat
      /\ Size("T1") + Size("B1") <= c
      /\ Size("T1") + Size("B1") + Size("T2") + Size("B2") <= 2 * c
  BY Sizes
<1>2. /\ Count(Dir, "T1") = Size("T1") /\ Count(Dir, "T2") = Size("T2")
      /\ Count(Dir, "B1") = Size("B1") /\ Count(Dir, "B2") = Size("B2")
  BY DirIs DEF ListNames
<1>3. t1_len = Size("T1") + Size("B1") /\ total = Size("T1") + Size("B1") + Size("T2") + Size("B2")
  BY DEF t1_len, total
<1>4. Len(Once(Dir)) = t1_len /\ Len(Once(Dir)) + Len(Twice(Dir)) = total
  <2>1. Len(Once(Dir)) = Size("T1") + Size("B1") /\ Len(Twice(Dir)) = Size("T2") + Size("B2")
    BY <1>1, <1>2, JoinedType
  <2> QED BY <1>1, <1>3, <2>1
<1>5. \A l \in ListNames : Size(l) > 0 => Dir.lists[l] # <<>>
  BY <1>1, Counts, DirIs
<1>6. ASSUME t1_len = c, Size("T1") < c PROVE Dropped(d)
  <2> DEFINE b == Forget(Dir, "B1")
  <2>1. Size("B1") > 0 /\ HasVictim(b, p, FALSE)
    BY <1>6, WithoutB1
  <2>2. Tagged(b)
    BY <2>1, GhostForgotten
  <2>3. Once(b) = PopTail(Once(Dir)) /\ Twice(b) = Twice(Dir)
    BY <1>1, <1>5, <2>1, ForgetJoined DEF ListNames
  <2>4. d = arc_replace(b, p, FALSE)
    BY <1>6 DEF MakeRoom
  <2> HIDE DEF b
  <2>5. SameJoined(b, d)
    BY <2>1, <2>2, <2>4, ReplaceJoined
  <2> QED BY <1>4, <1>6, <2>3, <2>5 DEF Dropped, SameJoined
<1>7. ASSUME t1_len = c, ~(Size("T1") < c) PROVE Dropped(d)
  <2>1. Size("T1") > 0 /\ Size("B1") = 0
    BY <1>1, <1>3, <1>7
  <2>2. Dir.lists["T1"] # <<>> /\ Dir.lists["B1"] = <<>>
    <3>1. {"T1", "B1"} \subseteq ListNames
      BY DEF ListNames
    <3>2. ~(Count(Dir, "B1") > 0)
      BY <1>2, <2>1
    <3> QED BY <1>1, <1>5, <2>1, <3>1, <3>2, Counts
  <2>3. d = Forget(Dir, "T1")
    BY <1>7 DEF MakeRoom
  <2>4. Once(d) = PopTail(Once(Dir)) /\ Twice(d) = Twice(Dir)
    BY <1>1, <2>2, <2>3, ForgetJoined
  <2> QED BY <1>4, <1>7, <2>4 DEF Dropped
<1>8. ASSUME t1_len < c, FramesFull, DropsGhost PROVE Dropped(d)
  <2> DEFINE b == Forget(Dir, "B2")
  <2>1. Size("B2") > 0 /\ total = 2 * c
    BY <1>1, <1>3, <1>8 DEF DropsGhost
  <2>2. Tagged(b) /\ Count(b, "T2") = Size("T2")
    BY <2>1, GhostForgotten DEF ListNames
  <2>3. Size("T2") > 0
    <3>1. Size("T1") + Size("T2") = c
      BY <1>8, RoomVictim DEF FramesFull
    <3> QED BY <1>1, <1>3, <1>8, <3>1
  <2>4. HasVictim(b, p, FALSE)
    BY <2>2, <2>3, VictimFound
  <2>5. Once(b) = Once(Dir) /\ Twice(b) = PopTail(Twice(Dir))
    BY <1>1, <1>5, <2>1, ForgetJoined DEF ListNames
  <2>6. d = arc_replace(b, p, FALSE)
    <3>1. (IF DropsGhost THEN Forget(Dir, "B2") ELSE Dir) = b
      BY <1>8
    <3>2. ~(t1_len = c)
      BY <1>1, <1>3, <1>8
    <3>3. MakeRoom = arc_replace(IF DropsGhost THEN Forget(Dir, "B2") ELSE Dir, p, FALSE)
      BY <1>8, <3>2 DEF MakeRoom
    <3> QED BY <3>1, <3>3
  <2> HIDE DEF b
  <2>7. SameJoined(b, d)
    BY <2>2, <2>4, <2>6, ReplaceJoined
  <2> QED BY <1>4, <1>8, <2>1, <2>5, <2>7 DEF Dropped, SameJoined
<1>9. ASSUME t1_len < c, FramesFull, ~DropsGhost PROVE Dropped(d)
  <2>1. HasVictim(Dir, p, FALSE) /\ Size("T1") + Size("T2") = c
    BY <1>9, RoomVictim DEF FramesFull
  <2>2. total < 2 * c
    BY <1>1, <1>3, <1>9, <2>1 DEF DropsGhost
  <2>3. d = arc_replace(Dir, p, FALSE)
    <3>1. (IF DropsGhost THEN Forget(Dir, "B2") ELSE Dir) = Dir
      BY <1>9
    <3>2. ~(t1_len = c)
      BY <1>1, <1>3, <1>9
    <3>3. MakeRoom = arc_replace(IF DropsGhost THEN Forget(Dir, "B2") ELSE Dir, p, FALSE)
      BY <1>9, <3>2 DEF MakeRoom
    <3> QED BY <3>1, <3>3
  <2>4. SameJoined(Dir, d)
    <3>1. Tagged(Dir) /\ HasVictim(Dir, p, FALSE)
      BY <1>1, <2>1
    <3> QED BY <2>3, <3>1, ReplaceJoined
  <2> QED BY <1>4, <1>9, <2>2, <2>4 DEF Dropped, SameJoined
<1>10. ASSUME t1_len < c, ~FramesFull PROVE Dropped(d)
  <2>1. total < 2 * c
    BY <1>1, <1>3, <1>10 DEF FramesFull
  <2>2. d = Dir
    <3>1. ~(t1_len = c)
      BY <1>1, <1>3, <1>10
    <3> QED BY <1>10, <3>1 DEF MakeRoom
  <2> QED BY <1>4, <1>10, <2>1, <2>2 DEF Dropped
<1> QED BY <1>1, <1>3, <1>6, <1>7, <1>8, <1>9, <1>10

\* A step of the directory: a page of it is used again, or a new page enters.
Again(x, e) ==
  \/ /\ ahmap[x] \in {"T1", "B1"}
     /\ Once(e) = Remove(Once(Dir), x) /\ Twice(e) = PushFront(Twice(Dir), x)
  \/ /\ ahmap[x] \in {"T2", "B2"}
     /\ Once(e) = Once(Dir) /\ Twice(e) = PushFront(Remove(Twice(Dir), x), x)
Enters(x, e) ==
  /\ c > 0 /\ ahmap[x] = "none"
  /\ \E d : /\ Dropped(d)
            /\ Once(e) = PushFront(Once(d), x) /\ Twice(e) = Twice(d)

LEMMA AccessJoined ==
  ASSUME IInv, NEW x \in Pages, Hit(x) \/ GhostHitB1(x) \/ GhostHitB2(x) \/ Miss(x)
  PROVE  \E e : lists' = e.lists /\ (Again(x, e) \/ Enters(x, e))
<1>1. Tagged(Dir) /\ Dir.ahmap = ahmap
  BY Sizes, DirIs
<1>2. {"T1", "T2", "B1", "B2"} \subseteq ListNames
  BY DEF ListNames
<1>3. CASE Hit(x)
  <2>1. PICK from \in {"T1", "T2"} : ahmap[x] = from
    BY <1>3 DEF Hit
  <2>2. PICK e : e = MoveToT2(Dir, x, from)
    OBVIOUS
  <2>3. lists' = e.lists
    BY <1>3, <2>1, <2>2 DEF Hit, Access
  <2>4. /\ from = "T1" => /\ Once(e) = Remove(Once(Dir), x)
                          /\ Twice(e) = PushFront(Twice(Dir), x)
        /\ from = "T2" => /\ Once(e) = Once(Dir)
                          /\ Twice(e) = PushFront(Remove(Twice(Dir), x), x)
    BY <1>1, <1>2, <2>1, <2>2, MoveJoined
  <2>5. Again(x, e)
    BY <2>1, <2>4 DEF Again
  <2> QED BY <2>3, <2>5
<1>4. CASE GhostHitB1(x)
  <2>1. PICK target : target = Raised
    OBVIOUS
  <2>2. PICK d : d = arc_replace(Dir, target, FALSE)
    OBVIOUS
  <2>3. PICK e : e = MoveToT2(d, x, "B1")
    OBVIOUS
  <2>4. ahmap[x] = "B1" /\ Size("B1") > 0 /\ lists' = e.lists
    BY <1>4, <2>1, <2>2, <2>3, TaggedPage DEF GhostHitB1, Access, ListNames
  <2>5. HasVictim(Dir, target, FALSE)
    BY <2>1, <2>4, GhostVictims
  <2>6. Tagged(d) /\ OneDemoted(Dir, d)
    BY <1>1, <2>2, <2>5, ReplaceCounts
  <2>7. d.ahmap[x] = "B1"
    BY <1>1, <2>4, <2>6, DemotedResidents
  <2>8. SameJoined(Dir, d)
    BY <1>1, <2>2, <2>5, ReplaceJoined
  <2>9. Once(e) = Remove(Once(d), x) /\ Twice(e) = PushFront(Twice(d), x)
    BY <1>2, <2>3, <2>6, <2>7, MoveJoined
  <2>10. Again(x, e)
    BY <2>4, <2>8, <2>9 DEF Again, SameJoined
  <2> QED BY <2>4, <2>10
<1>5. CASE GhostHitB2(x)
  <2>1. PICK target : target = Lowered
    OBVIOUS
  <2>2. PICK d : d = arc_replace(Dir, target, TRUE)
    OBVIOUS
  <2>3. PICK e : e = MoveToT2(d, x, "B2")
    OBVIOUS
  <2>4. ahmap[x] = "B2" /\ Size("B2") > 0 /\ lists' = e.lists
    BY <1>5, <2>1, <2>2, <2>3, TaggedPage DEF GhostHitB2, Access, ListNames
  <2>5. HasVictim(Dir, target, TRUE)
    BY <2>1, <2>4, GhostVictims
  <2>6. Tagged(d) /\ OneDemoted(Dir, d)
    BY <1>1, <2>2, <2>5, ReplaceCounts
  <2>7. d.ahmap[x] = "B2"
    BY <1>1, <2>4, <2>6, DemotedResidents
  <2>8. SameJoined(Dir, d)
    BY <1>1, <2>2, <2>5, ReplaceJoined
  <2>9. Once(e) = Once(d) /\ Twice(e) = PushFront(Remove(Twice(d), x), x)
    BY <1>2, <2>3, <2>6, <2>7, MoveJoined
  <2>10. Again(x, e)
    BY <2>4, <2>8, <2>9 DEF Again, SameJoined
  <2> QED BY <2>4, <2>10
<1>6. CASE Miss(x)
  <2>1. PICK d : d = MakeRoom
    OBVIOUS
  <2>2. PICK e : e = AddToT1(d, x)
    OBVIOUS
  <2>3. ahmap[x] = "none" /\ lists' = e.lists /\ c > 0
    BY <1>6, <2>1, <2>2 DEF Miss, Access
  <2>4. Tagged(d)
    BY <2>1, <2>3, RoomMade
  <2>5. Dropped(d)
    BY <2>1, <2>3, RoomJoined
  <2>6. Once(e) = PushFront(Once(d), x) /\ Twice(e) = Twice(d)
    BY <2>2, <2>4, AddJoined
  <2>7. Enters(x, e)
    BY <2>3, <2>5, <2>6 DEF Enters
  <2> QED BY <2>3, <2>7
<1> QED BY <1>3, <1>4, <1>5, <1>6

\* The operators of the instance are those of module Lists.
LEMMA SameOperators ==
  ASSUME NEW s, NEW x
  PROVE  /\ Directory!Members(s) = Members(s)
         /\ Directory!Remove(s, x) = Remove(s, x)
         /\ Directory!PushFront(s, x) = PushFront(s, x)
         /\ Directory!PopTail(s) = PopTail(s)
<1>1. Directory!Members(s) = Members(s)
  BY DEF Directory!Members, Members
<1>2. Directory!Position(s, x) = Position(s, x)
  BY DEF Directory!Position, Position
<1>3. Directory!Remove(s, x) = Remove(s, x)
  BY <1>2 DEF Directory!Remove, Remove
<1>4. Directory!PushFront(s, x) = PushFront(s, x) /\ Directory!PopTail(s) = PopTail(s)
  BY DEF Directory!PushFront, PushFront, Directory!PopTail, PopTail
<1> QED BY <1>1, <1>3, <1>4

LEMMA AccessDirectory ==
  ASSUME IInv, NEW x \in Pages, Hit(x) \/ GhostHitB1(x) \/ GhostHitB2(x) \/ Miss(x)
  PROVE  Directory!Next
<1>1. c' = c
  BY DEF Hit, GhostHitB1, GhostHitB2, Miss, Access
<1>2. PICK e : lists' = e.lists /\ (Again(x, e) \/ Enters(x, e))
  BY AccessJoined
<1>3. /\ lists["T1"] \o lists["B1"] = Once(Dir) /\ lists["T2"] \o lists["B2"] = Twice(Dir)
      /\ (lists["T1"] \o lists["B1"])' = Once(e) /\ (lists["T2"] \o lists["B2"])' = Twice(e)
  BY <1>2, DirIs DEF Once, Twice
<1>4. /\ x \in Members(Once(Dir)) <=> ahmap[x] \in {"T1", "B1"}
      /\ x \in Members(Twice(Dir)) <=> ahmap[x] \in {"T2", "B2"}
  BY Sizes, JoinedType, DirIs
<1>5. CASE Again(x, e)
  <2>1. Directory!Again(x)
    BY <1>1, <1>3, <1>4, <1>5, SameOperators DEF Again, Directory!Again
  <2> QED BY <2>1 DEF Directory!Next
<1>6. CASE Enters(x, e)
  <2>1. PICK d : Dropped(d) /\ Once(e) = PushFront(Once(d), x) /\ Twice(e) = Twice(d)
    BY <1>6 DEF Enters
  <2>2. c > 0 /\ x \notin Members(Once(Dir)) \cup Members(Twice(Dir))
    BY <1>4, <1>6 DEF Enters
  <2>3. Directory!Enter(x)
    BY <1>1, <1>3, <2>1, <2>2, SameOperators DEF Dropped, Directory!Enter
  <2> QED BY <2>3 DEF Directory!Next
<1> QED BY <1>2, <1>5, <1>6

\* Whatever is resident, T1 followed by B1 and T2 followed by B2 are the two lists of ARC's
\* directory: what leaves the directory does not depend on the adaptive target, for any
\* pages, any number of frames and any trace.
THEOREM DirectoryRefinement == Spec => RefinesDirectory
<1>1. Init => Directory!Init
  <2> SUFFICES ASSUME Init PROVE Directory!Init
    OBVIOUS
  <2>1. lists["T1"] = <<>> /\ lists["T2"] = <<>> /\ lists["B1"] = <<>> /\ lists["B2"] = <<>>
    BY DEF Init, ListNames
  <2> QED BY <2>1 DEF Init, Directory!Init
<1>2. IInv /\ [Next]_vars => [Directory!Next]_(Directory!vars)
  <2> SUFFICES ASSUME IInv, [Next]_vars PROVE [Directory!Next]_(Directory!vars)
    OBVIOUS
  <2>1. ASSUME NEW n \in FrameCounts \cup {0}, ResetState, c' = n PROVE Directory!Next
    <3>1. /\ lists'["T1"] = <<>> /\ lists'["T2"] = <<>>
          /\ lists'["B1"] = <<>> /\ lists'["B2"] = <<>>
      BY <2>1 DEF ResetState, ListNames
    <3>2. Directory!Configure(n)
      BY <2>1, <3>1 DEF Directory!Configure
    <3> QED BY <3>2 DEF Directory!Next
  <2>2. ASSUME NEW n \in FrameCounts, ArcInit(n) PROVE Directory!Next
    BY <2>1, <2>2 DEF ArcInit
  <2>3. CASE ArcReset
    BY <2>1, <2>3 DEF ArcReset
  <2>4. ASSUME NEW x \in Pages, Hit(x) \/ GhostHitB1(x) \/ GhostHitB2(x) \/ Miss(x)
        PROVE  Directory!Next
    BY <2>4, AccessDirectory
  <2>5. ASSUME UNCHANGED vars PROVE UNCHANGED Directory!vars
    BY <2>5 DEF vars, Directory!vars
  <2> QED BY <2>2, <2>3, <2>4, <2>5 DEF Next
<1> QED BY <1>1, <1>2, Invariance, PTL DEF Spec, RefinesDirectory, Directory!Spec

-------------------------------------------------------------------------------
(* The two lists are in the order of last use, and hold the pages used     *)
(* last.                                                                   *)

\* A page that left the directory has been followed by c others since its last use.
Outlived(r, tags) ==
  \A y \in Pages : y \in Members(r) /\ tags[y] = "none" => Position(r, y) > c

OInv ==
  /\ IInv
  /\ Follows(recency, Once(Dir)) /\ Follows(recency, Twice(Dir))
  /\ Outlived(recency, ahmap)

\* The facts about the state before a step, with the joined lists as constants.
LEMMA OrderFacts ==
  ASSUME OInv
  PROVE  /\ IInv /\ recency \in Seq(Pages) /\ Distinct(recency) /\ c \in Nat
         /\ Once(Dir) \in Seq(Pages) /\ Distinct(Once(Dir)) /\ Follows(recency, Once(Dir))
         /\ Twice(Dir) \in Seq(Pages) /\ Distinct(Twice(Dir)) /\ Follows(recency, Twice(Dir))
         /\ \A x \in Pages : x \in Members(Once(Dir)) <=> ahmap[x] \in {"T1", "B1"}
         /\ \A x \in Pages : x \in Members(Twice(Dir)) <=> ahmap[x] \in {"T2", "B2"}
<1>1. IInv /\ Follows(recency, Once(Dir)) /\ Follows(recency, Twice(Dir))
  BY DEF OInv
<1>2. recency \in Seq(Pages) /\ Distinct(recency)
  BY <1>1 DEF IInv, TypeOk
<1>3. Tagged(Dir) /\ Dir.ahmap = ahmap /\ c \in Nat
  BY <1>1, Sizes, DirIs
<1> QED BY <1>1, <1>2, <1>3, JoinedType

LEMMA AgainOrder ==
  ASSUME OInv, NEW x \in Pages, NEW e, Again(x, e)
  PROVE  Follows(Used(recency, x), Once(e)) /\ Follows(Used(recency, x), Twice(e))
<1>1. PICK r : r = recency
  OBVIOUS
<1>2. PICK s : s = Once(Dir)
  OBVIOUS
<1>3. PICK t : t = Twice(Dir)
  OBVIOUS
<1>4. /\ r \in Seq(Pages) /\ Distinct(r)
      /\ s \in Seq(Pages) /\ Distinct(s) /\ Follows(r, s)
      /\ t \in Seq(Pages) /\ Distinct(t) /\ Follows(r, t)
      /\ x \in Members(s) <=> ahmap[x] \in {"T1", "B1"}
      /\ x \in Members(t) <=> ahmap[x] \in {"T2", "B2"}
  BY <1>1, <1>2, <1>3, OrderFacts
<1>5. \A u \in Seq(Pages) : x \in Members(u) /\ Distinct(u) /\ Follows(r, u) =>
        Remove(u, x) \in Seq(Pages) /\ x \notin Members(Remove(u, x)) /\ Follows(r, Remove(u, x))
  BY RemoveType, RemoveMembers, FollowsRemove
<1>6. \A u \in Seq(Pages) : x \notin Members(u) /\ Follows(r, u) =>
        Follows(Used(r, x), u) /\ Follows(Used(r, x), PushFront(u, x))
  BY <1>4, FollowsUsed
<1>7. CASE /\ ahmap[x] \in {"T1", "B1"}
           /\ Once(e) = Remove(s, x) /\ Twice(e) = PushFront(t, x)
  <2>1. x \in Members(s) /\ x \notin Members(t)
    BY <1>4, <1>7
  <2> QED BY <1>1, <1>4, <1>5, <1>6, <1>7, <2>1
<1>8. CASE /\ ahmap[x] \in {"T2", "B2"}
           /\ Once(e) = s /\ Twice(e) = PushFront(Remove(t, x), x)
  <2>1. x \in Members(t) /\ x \notin Members(s)
    BY <1>4, <1>8
  <2> QED BY <1>1, <1>4, <1>5, <1>6, <1>8, <2>1
<1> QED BY <1>2, <1>3, <1>7, <1>8 DEF Again

LEMMA EnterOrder ==
  ASSUME OInv, NEW x \in Pages, NEW e, Enters(x, e)
  PROVE  Follows(Used(recency, x), Once(e)) /\ Follows(Used(recency, x), Twice(e))
<1>1. PICK r : r = recency
  OBVIOUS
<1>2. PICK s : s = Once(Dir)
  OBVIOUS
<1>3. PICK t : t = Twice(Dir)
  OBVIOUS
<1>4. /\ r \in Seq(Pages) /\ Distinct(r) /\ c \in Nat
      /\ s \in Seq(Pages) /\ Distinct(s) /\ Follows(r, s)
      /\ t \in Seq(Pages) /\ Distinct(t) /\ Follows(r, t)
      /\ x \in Members(s) <=> ahmap[x] \in {"T1", "B1"}
      /\ x \in Members(t) <=> ahmap[x] \in {"T2", "B2"}
  BY <1>1, <1>2, <1>3, OrderFacts
<1>5. x \notin Members(s) /\ x \notin Members(t) /\ c > 0
  BY <1>4 DEF Enters
<1>6. \A u \in Seq(Pages) : x \notin Members(u) /\ Follows(r, u) =>
        Follows(Used(r, x), u) /\ Follows(Used(r, x), PushFront(u, x))
  BY <1>4, FollowsUsed
<1>7. \A u \in Seq(Pages) : u # <<>> /\ Distinct(u) /\ Follows(r, u) /\ x \notin Members(u) =>
        PopTail(u) \in Seq(Pages) /\ x \notin Members(PopTail(u)) /\ Follows(r, PopTail(u))
  BY PopTailType, PopTailMembers, FollowsPopTail
<1>8. PICK d : Dropped(d) /\ Once(e) = PushFront(Once(d), x) /\ Twice(e) = Twice(d)
  BY DEF Enters
<1>9. /\ Once(d) \in Seq(Pages) /\ x \notin Members(Once(d)) /\ Follows(r, Once(d))
      /\ Twice(d) \in Seq(Pages) /\ x \notin Members(Twice(d)) /\ Follows(r, Twice(d))
  <2>1. CASE Len(s) = c /\ Once(d) = PopTail(s) /\ Twice(d) = t
    <3>1. s # <<>>
      BY <1>4, <1>5, <2>1
    <3> QED BY <1>4, <1>5, <1>7, <2>1, <3>1
  <2>2. CASE Len(s) < c /\ Len(s) + Len(t) = 2 * c /\ Once(d) = s /\ Twice(d) = PopTail(t)
    <3>1. Len(t) > 0
      <4>1. Len(s) \in Nat /\ Len(t) \in Nat
        BY <1>4
      <4> QED BY <1>4, <2>2, <4>1
    <3>2. t # <<>>
      BY <3>1
    <3> QED BY <1>4, <1>5, <1>7, <2>2, <3>2
  <2>3. CASE Once(d) = s /\ Twice(d) = t
    BY <1>4, <1>5, <2>3
  <2> QED BY <1>2, <1>3, <1>8, <2>1, <2>2, <2>3 DEF Dropped
<1> QED BY <1>1, <1>6, <1>8, <1>9

\* A page that leaves the directory has c others in front of it, or c - 1 and the page
\* entering, which is not one of them.
LEMMA DroppedOutlived ==
  ASSUME OInv, NEW x \in Pages, NEW e, Enters(x, e), NEW y \in Pages \ {x},
         ahmap[y] # "none", y \notin Members(Once(e)) \cup Members(Twice(e))
  PROVE  y \in Members(recency) /\ Position(Used(recency, x), y) > c
<1>1. PICK r : r = recency
  OBVIOUS
<1>2. PICK s : s = Once(Dir)
  OBVIOUS
<1>3. PICK t : t = Twice(Dir)
  OBVIOUS
<1>4. /\ r \in Seq(Pages) /\ Distinct(r) /\ c \in Nat
      /\ s \in Seq(Pages) /\ Distinct(s) /\ Follows(r, s)
      /\ t \in Seq(Pages) /\ Distinct(t) /\ Follows(r, t)
      /\ y \in Members(s) <=> ahmap[y] \in {"T1", "B1"}
      /\ y \in Members(t) <=> ahmap[y] \in {"T2", "B2"}
  BY <1>1, <1>2, <1>3, OrderFacts
<1>5. y \in Members(s) \cup Members(t)
  <2>1. ahmap[y] \in ListNames \cup {"none"}
    BY DEF OInv, IInv, TypeOk
  <2> QED BY <1>4, <2>1 DEF ListNames
<1>6. y \in Members(r)
  BY <1>4, <1>5 DEF Follows
<1>7. x \in Members(r) => Position(r, x) > c
  BY <1>1 DEF OInv, Outlived, Enters
<1>8. /\ Position(r, y) \in 1..Len(r)
      /\ Position(Used(r, x), y) = IF x \in Members(r) /\ Position(r, x) < Position(r, y)
                                   THEN Position(r, y) ELSE Position(r, y) + 1
  BY <1>4, <1>6, UsedPosition
<1>9. PICK d : Dropped(d) /\ Once(e) = PushFront(Once(d), x) /\ Twice(e) = Twice(d)
  BY DEF Enters
<1>10. \A u \in Seq(Pages) : Members(PushFront(u, x)) = Members(u) \cup {x}
  BY PushFrontMembers
<1>11. \A u \in Seq(Pages) : u # <<>> /\ Distinct(u) /\ Follows(r, u) =>
         /\ PopTail(u) \in Seq(Pages) /\ Members(PopTail(u)) = Members(u) \ {Tip(u)}
         /\ Position(r, Tip(u)) >= Len(u)
  BY <1>4, PopTailType, PopTailMembers, FollowsTip
<1>12. Len(s) \in Nat /\ Len(t) \in Nat /\ Len(r) \in Nat
  BY <1>4
<1>13. Position(r, y) >= c
  <2>1. CASE Len(s) = c /\ Once(d) = PopTail(s) /\ Twice(d) = t
    <3>1. s # <<>>
      <4>1. c > 0
        BY DEF Enters
      <4> QED BY <2>1, <4>1
    <3>2. y = Tip(s)
      BY <1>4, <1>5, <1>9, <1>10, <1>11, <2>1, <3>1
    <3> QED BY <1>4, <1>11, <2>1, <3>1, <3>2
  <2>2. CASE Len(s) < c /\ Len(s) + Len(t) = 2 * c /\ Once(d) = s /\ Twice(d) = PopTail(t)
    <3>1. Len(t) > c
      BY <1>4, <1>12, <2>2
    <3>2. t # <<>>
      BY <1>4, <3>1
    <3>3. y = Tip(t)
      BY <1>4, <1>5, <1>9, <1>10, <1>11, <2>2, <3>2
    <3>4. Position(r, y) >= Len(t)
      BY <1>4, <1>11, <3>2, <3>3
    <3> QED BY <1>4, <1>8, <1>12, <3>1, <3>4
  <2>3. CASE Once(d) = s /\ Twice(d) = t
    BY <1>4, <1>5, <1>9, <1>10, <2>3
  <2> QED BY <1>2, <1>3, <1>9, <2>1, <2>2, <2>3 DEF Dropped
<1>14. Position(Used(r, x), y) > c
  <2>1. x \in Members(r) => Position(r, x) \in Nat
    <3>1. DOMAIN r = 1..Len(r)
      BY <1>4
    <3> QED BY <3>1, PositionType
  <2>2. CASE x \in Members(r) /\ Position(r, x) < Position(r, y)
    BY <1>4, <1>7, <1>8, <1>12, <2>1, <2>2
  <2>3. CASE ~(x \in Members(r) /\ Position(r, x) < Position(r, y))
    BY <1>4, <1>8, <1>12, <1>13, <2>3
  <2> QED BY <2>2, <2>3
<1> QED BY <1>1, <1>6, <1>14

LEMMA AgainMembers ==
  ASSUME OInv, NEW x \in Pages, NEW e, Again(x, e), NEW y \in Pages, ahmap[y] # "none"
  PROVE  y \in Members(Once(e)) \cup Members(Twice(e))
<1>1. PICK s : s = Once(Dir)
  OBVIOUS
<1>2. PICK t : t = Twice(Dir)
  OBVIOUS
<1>3. /\ s \in Seq(Pages) /\ Distinct(s) /\ t \in Seq(Pages) /\ Distinct(t)
      /\ \A z \in Pages : z \in Members(s) <=> ahmap[z] \in {"T1", "B1"}
      /\ \A z \in Pages : z \in Members(t) <=> ahmap[z] \in {"T2", "B2"}
  BY <1>1, <1>2, OrderFacts
<1>4. y \in Members(s) \cup Members(t)
  <2>1. ahmap[y] \in ListNames \cup {"none"}
    BY DEF OInv, IInv, TypeOk
  <2> QED BY <1>3, <2>1 DEF ListNames
<1>5. \A u \in Seq(Pages) : Members(PushFront(u, x)) = Members(u) \cup {x}
  BY PushFrontMembers
<1>6. \A u \in Seq(Pages) : x \in Members(u) /\ Distinct(u) =>
        Remove(u, x) \in Seq(Pages) /\ Members(Remove(u, x)) = Members(u) \ {x}
  BY RemoveType, RemoveMembers
<1>7. CASE /\ ahmap[x] \in {"T1", "B1"}
           /\ Once(e) = Remove(s, x) /\ Twice(e) = PushFront(t, x)
  BY <1>3, <1>4, <1>5, <1>6, <1>7
<1>8. CASE /\ ahmap[x] \in {"T2", "B2"}
           /\ Once(e) = s /\ Twice(e) = PushFront(Remove(t, x), x)
  BY <1>3, <1>4, <1>5, <1>6, <1>8
<1> QED BY <1>1, <1>2, <1>7, <1>8 DEF Again

LEMMA AccessOInv ==
  ASSUME OInv, NEW x \in Pages, Hit(x) \/ GhostHitB1(x) \/ GhostHitB2(x) \/ Miss(x)
  PROVE  OInv'
<1>1. IInv /\ IInv'
  BY HitServed, FaultIInv DEF OInv
<1>2. c' = c /\ recency' = Used(recency, x)
  BY DEF Hit, GhostHitB1, GhostHitB2, Miss, Access
<1>3. PICK e : lists' = e.lists /\ (Again(x, e) \/ Enters(x, e))
  BY <1>1, AccessJoined
<1>4. Once(Dir)' = Once(e) /\ Twice(Dir)' = Twice(e)
  BY <1>3 DEF Dir, Once, Twice
<1>5. Follows(Used(recency, x), Once(e)) /\ Follows(Used(recency, x), Twice(e))
  BY <1>3, AgainOrder, EnterOrder
<1>6. \A y \in Pages : /\ y \in Members(Once(e)) => ahmap'[y] # "none"
                       /\ y \in Members(Twice(e)) => ahmap'[y] # "none"
                       /\ ahmap'[y] # "none" => y \in Members(Once(e)) \cup Members(Twice(e))
  <2>1. Tagged(Dir)'
    BY <1>1 DEF IInv, TypeOk, TagsMatchLists, Tagged, Dir
  <2>2. Dir'.ahmap = ahmap' /\ ahmap' \in [Pages -> ListNames \cup {"none"}]
    BY <1>1 DEF Dir, IInv, TypeOk
  <2>3. \A y \in Pages : /\ y \in Members(Once(Dir)') <=> ahmap'[y] \in {"T1", "B1"}
                         /\ y \in Members(Twice(Dir)') <=> ahmap'[y] \in {"T2", "B2"}
    BY <2>1, <2>2, JoinedType
  <2> QED BY <1>4, <2>2, <2>3 DEF ListNames
<1>7. x \in Members(Once(e)) \cup Members(Twice(e))
  <2>1. CASE Again(x, e)
    <3>1. ahmap[x] # "none"
      BY <2>1 DEF Again
    <3> QED BY <2>1, <3>1, AgainMembers
  <2>2. CASE Enters(x, e)
    <3>1. ahmap'[x] # "none"
      <4>1. ahmap[x] = "none"
        BY <2>2 DEF Enters
      <4>2. Miss(x)
        BY <4>1 DEF Hit, GhostHitB1, GhostHitB2
      <4>3. PICK d : d = MakeRoom
        OBVIOUS
      <4>4. ahmap' = [d.ahmap EXCEPT ![x] = "T1"] /\ c > 0
        BY <4>2, <4>3 DEF Miss, Access, AddToT1
      <4>5. Tagged(d)
        BY <1>1, <4>1, <4>3, <4>4, RoomMade
      <4> QED BY <4>4, <4>5 DEF Tagged
    <3> QED BY <1>6, <3>1
  <2> QED BY <1>3, <2>1, <2>2
<1>8. Outlived(recency', ahmap')
  <2> SUFFICES ASSUME NEW y \in Pages, y \in Members(Used(recency, x)), ahmap'[y] = "none"
               PROVE  Position(Used(recency, x), y) > c
    BY <1>2 DEF Outlived
  <2>1. recency \in Seq(Pages) /\ Distinct(recency) /\ c \in Nat
    BY OrderFacts
  <2>2. y # x /\ y \notin Members(Once(e)) \cup Members(Twice(e))
    BY <1>6, <1>7
  <2>3. y \in Members(recency)
    <3>1. Members(Used(recency, x)) = Members(recency) \cup {x}
      BY <2>1, UsedType
    <3> QED BY <2>2, <3>1
  <2>4. CASE ahmap[y] # "none"
    <3>1. Enters(x, e)
      BY <1>3, <2>2, <2>4, AgainMembers
    <3> QED BY <2>2, <2>4, <3>1, DroppedOutlived
  <2>5. CASE ahmap[y] = "none"
    <3>1. Position(recency, y) > c
      BY <2>3, <2>5 DEF OInv, Outlived
    <3>2. /\ Position(recency, y) \in Nat
          /\ \/ Position(Used(recency, x), y) = Position(recency, y)
             \/ Position(Used(recency, x), y) = Position(recency, y) + 1
      <4>1. PICK r : r = recency
        OBVIOUS
      <4>2. /\ Position(r, y) \in 1..Len(r)
            /\ Position(Used(r, x), y) = IF x \in Members(r) /\ Position(r, x) < Position(r, y)
                                         THEN Position(r, y) ELSE Position(r, y) + 1
        BY <2>1, <2>2, <2>3, <4>1, UsedPosition
      <4> QED BY <4>1, <4>2
    <3> QED BY <2>1, <3>1, <3>2
  <2> QED BY <2>4, <2>5
<1>9. Outlived(recency, ahmap)'
  <2>1. \A y \in Pages : y \in Members(recency') /\ ahmap'[y] = "none" => Position(recency', y) > c'
    BY <1>2, <1>8 DEF Outlived
  <2> QED BY <2>1 DEF Outlived
<1>10. Follows(recency', Once(Dir)') /\ Follows(recency', Twice(Dir)')
  BY <1>2, <1>4, <1>5
<1> QED BY <1>1, <1>9, <1>10 DEF OInv

LEMMA EmptyOInv ==
  /\ Init => OInv
  /\ \A n \in FrameCounts \cup {0} : ResetState /\ c' = n => OInv'
<1>1. ASSUME NEW ls, ls = [l \in ListNames |-> <<>>]
      PROVE  ls["T1"] \o ls["B1"] = <<>> /\ ls["T2"] \o ls["B2"] = <<>>
  <2>1. ls["T1"] = <<>> /\ ls["B1"] = <<>> /\ ls["T2"] = <<>> /\ ls["B2"] = <<>>
    BY <1>1 DEF ListNames
  <2> QED BY <2>1
<1>2. Follows(<<>>, <<>>) /\ Members(<<>>) = {}
  BY DEF Follows, Members
<1>3. Init => OInv
  <2> SUFFICES ASSUME Init PROVE OInv
    OBVIOUS
  <2>1. Once(Dir) = <<>> /\ Twice(Dir) = <<>> /\ recency = <<>>
    BY <1>1 DEF Init, Dir, Once, Twice
  <2> QED BY <1>2, <2>1, InitIInv DEF OInv, Outlived
<1>4. ASSUME NEW n \in FrameCounts \cup {0}, ResetState, c' = n PROVE OInv'
  <2>1. Once(Dir)' = <<>> /\ Twice(Dir)' = <<>> /\ recency' = <<>>
    BY <1>1, <1>4 DEF ResetState, Dir, Once, Twice
  <2>2. IInv'
    BY <1>4, ResetIInv
  <2> QED BY <1>2, <2>1, <2>2 DEF OInv, Outlived
<1> QED BY <1>3, <1>4

LEMMA StepOInv == OInv /\ [Next]_vars => OInv'
<1> SUFFICES ASSUME OInv, [Next]_vars PROVE OInv'
  OBVIOUS
<1>1. ASSUME NEW n \in FrameCounts, ArcInit(n) PROVE OInv'
  BY <1>1, EmptyOInv DEF ArcInit
<1>2. CASE ArcReset
  BY <1>2, EmptyOInv DEF ArcReset
<1>3. ASSUME NEW x \in Pages, Hit(x) \/ GhostHitB1(x) \/ GhostHitB2(x) \/ Miss(x) PROVE OInv'
  BY <1>3, AccessOInv
<1>4. CASE UNCHANGED vars
  <2>1. IInv'
    BY <1>4, StepIInv DEF OInv
  <2>2. Once(Dir)' = Once(Dir) /\ Twice(Dir)' = Twice(Dir) /\ recency' = recency /\ ahmap' = ahmap
        /\ c' = c
    BY <1>4 DEF vars, Dir, Once, Twice
  <2> QED BY <2>1, <2>2 DEF OInv, Outlived
<1> QED BY <1>1, <1>2, <1>3, <1>4 DEF Next

LEMMA OrderInvariance == Spec => []OInv
BY EmptyOInv, StepOInv, PTL DEF Spec

\* T1 followed by its ghosts, and T2 followed by its ghosts, are in the order of last use,
\* so eviction and the dropping of ghosts take the least recently used page, for any pages,
\* any number of frames and any trace.
THEOREM OrderCorrect == Spec => []ListsAreRecencyOrdered
<1>1. OInv => ListsAreRecencyOrdered
  <2> SUFFICES ASSUME OInv PROVE ListsAreRecencyOrdered
    OBVIOUS
  <2>1. Once(Dir) = lists["T1"] \o lists["B1"] /\ Twice(Dir) = lists["T2"] \o lists["B2"]
    BY DEF Dir, Once, Twice
  <2>2. Follows(recency, Once(Dir)) /\ Follows(recency, Twice(Dir))
    BY DEF OInv
  <2> QED BY <2>1, <2>2 DEF ListsAreRecencyOrdered, InRecencyOrder, Follows
<1> QED BY <1>1, OrderInvariance, PTL

\* The c pages used last are all in the directory, resident or ghosts: a page used again
\* within c pages is never taken for a new one.
THEOREM RecentRemembered == Spec => []RemembersRecentPages
<1>1. OInv => RemembersRecentPages
  <2> SUFFICES ASSUME OInv, NEW i \in DOMAIN Prefix(recency, c) PROVE ahmap[recency[i]] # "none"
    BY DEF RemembersRecentPages
  <2>1. recency \in Seq(Pages) /\ Distinct(recency) /\ c \in Nat
    BY OrderFacts
  <2>2. i \in DOMAIN recency /\ i \in Nat /\ i <= c /\ recency[i] \in Pages
    BY <2>1 DEF Prefix, Smaller
  <2>3. recency[i] \in Members(recency) /\ Position(recency, recency[i]) = i
    BY <2>1, <2>2, PositionIs DEF Members
  <2>4. ~(i > c)
    BY <2>1, <2>2
  <2> QED BY <2>2, <2>3, <2>4 DEF OInv, Outlived
<1> QED BY <1>1, OrderInvariance, PTL

-------------------------------------------------------------------------------
(* arc.c in a scan: no page is met again while T1 or a ghost list has it.  *)

\* After j accesses of s, T1 is the queue of the last m of them and the other lists are
\* empty.
ArcScanned(d, m, s, j) ==
  /\ \A l \in {"T2", "B1", "B2"} : d[l] = <<>>
  /\ Len(d["T1"]) = IF j < m THEN j ELSE m
  /\ \A q \in 1..Len(d["T1"]) : d["T1"][q] = s[(j + 1) - q]

\* The page of the next access is none of the last m.
Unseen(m, s, j) == \A t \in 1..j : j - t < m => s[t] # s[j + 1]

LEMMA ArcScanStart ==
  ASSUME NEW m \in Nat \ {0}, NEW s
  PROVE  ArcScanned([l \in {"T1", "T2", "B1", "B2"} |-> <<>>], m, s, 0)
BY DEF ArcScanned

LEMMA ArcScanMisses ==
  ASSUME IInv, c > 0, NEW s, NEW j \in Nat, ArcScanned(lists, c, s, j), Unseen(c, s, j), s[j + 1] \in Pages
  PROVE  ahmap[s[j + 1]] = "none"
<1> DEFINE x == s[j + 1]
<1>1. TypeOk /\ TagsMatchLists /\ c \in Nat
  BY FramesAssumption DEF IInv, TypeOk
<1>2. ahmap[x] \in {"T1", "T2", "B1", "B2", "none"}
  BY <1>1 DEF TypeOk, ListNames
<1>3. \A l \in {"T1", "T2", "B1", "B2"} : ahmap[x] = l => x \in Members(lists[l])
  BY <1>1 DEF TagsMatchLists, ListNames
<1>4. \A l \in {"T2", "B1", "B2"} : x \notin Members(lists[l])
  BY DEF ArcScanned, Members
<1>5. x \notin Members(lists["T1"])
  <2> SUFFICES ASSUME NEW q \in DOMAIN lists["T1"], lists["T1"][q] = x PROVE FALSE
    BY DEF Members
  <2>1. lists["T1"] \in Seq(Pages)
    BY <1>1 DEF TypeOk, ListNames
  <2>2. q \in 1..Len(lists["T1"]) /\ Len(lists["T1"]) \in Nat
    BY <2>1
  <2>3. s[(j + 1) - q] = x
    BY <2>2 DEF ArcScanned
  <2>4. q <= c /\ q <= j
    BY <1>1, <2>2 DEF ArcScanned
  <2>5. (j + 1) - q \in 1..j /\ j - ((j + 1) - q) < c
    BY <1>1, <2>2, <2>4
  <2> QED BY <2>3, <2>5 DEF Unseen
<1> QED BY <1>2, <1>3, <1>4, <1>5

LEMMA ArcScanStep ==
  ASSUME IInv, c > 0, NEW s, NEW j \in Nat, ArcScanned(lists, c, s, j), Unseen(c, s, j), s[j + 1] \in Pages,
         Hit(s[j + 1]) \/ GhostHitB1(s[j + 1]) \/ GhostHitB2(s[j + 1]) \/ Miss(s[j + 1])
  PROVE  ArcScanned(lists', c, s, j + 1)
<1> DEFINE x == s[j + 1]
           t1 == lists["T1"]
<1>1. c \in Nat \ {0} /\ x \in Pages /\ (j + 1) + 1 = j + 2
  BY FramesAssumption DEF IInv, TypeOk
<1>2. Miss(x)
  <2>1. ahmap[x] = "none"
    BY ArcScanMisses
  <2> QED BY <2>1 DEF Hit, GhostHitB1, GhostHitB2
<1>3. lists \in [{"T1", "T2", "B1", "B2"} -> Seq(Pages)] /\ t1 \in Seq(Pages)
  BY DEF IInv, TypeOk, ListNames
<1>4. /\ lists["T2"] = <<>> /\ lists["B1"] = <<>> /\ lists["B2"] = <<>>
      /\ Len(t1) = IF j < c THEN j ELSE c
      /\ \A q \in 1..Len(t1) : t1[q] = s[(j + 1) - q]
  BY DEF ArcScanned
<1>5. t1_len = Len(t1) /\ total = Len(t1) /\ Size("T1") = Len(t1) /\ Len(t1) \in Nat
  BY <1>3, <1>4 DEF t1_len, total, Size
<1> DEFINE room == IF Len(t1) = c THEN PopTail(t1) ELSE t1
<1>6. MakeRoom.lists = [lists EXCEPT !["T1"] = room]
  <2>1. CASE Len(t1) = c
    <3>1. t1_len = c /\ ~(Size("T1") < c)
      BY <1>1, <1>5, <2>1
    <3>2. MakeRoom = Forget(Dir, "T1")
      BY <3>1 DEF MakeRoom
    <3> QED BY <2>1, <3>2 DEF Forget, Dir
  <2>2. CASE Len(t1) # c
    <3>1. Len(t1) < c
      BY <1>1, <1>4, <2>2
    <3>2. ~FramesFull /\ t1_len # c
      BY <1>1, <1>5, <3>1 DEF FramesFull
    <3>3. MakeRoom = Dir
      BY <3>2 DEF MakeRoom
    <3> QED BY <1>3, <2>2, <3>3 DEF Dir
  <2> QED BY <2>1, <2>2
<1> HIDE DEF room
<1>7. lists' = [lists EXCEPT !["T1"] = PushFront(room, x)]
  <2>1. lists' = AddToT1(MakeRoom, x).lists
    BY <1>2 DEF Miss, Access
  <2>2. AddToT1(MakeRoom, x).lists = [MakeRoom.lists EXCEPT !["T1"] = PushFront(MakeRoom.lists["T1"], x)]
    BY DEF AddToT1
  <2> QED BY <1>3, <1>6, <2>1, <2>2
<1>8. /\ room \in Seq(Pages) /\ Len(room) = IF Len(t1) = c THEN c - 1 ELSE Len(t1)
      /\ \A q \in 1..Len(room) : room[q] = t1[q]
  <2>1. CASE Len(t1) = c
    <3> DEFINE m == Len(t1) - 1
    <3>1. room = [q \in 1..m |-> t1[q]]
      BY <2>1 DEF room, PopTail
    <3>2. m \in Nat /\ m = c - 1 /\ \A q \in 1..m : t1[q] \in Pages
      BY <1>1, <1>3, <2>1
    <3> HIDE DEF m
    <3>3. room \in [1..m -> Pages]
      BY <3>1, <3>2
    <3>4. room \in Seq(Pages) /\ Len(room) = m
      BY <3>2, <3>3, IsSequence
    <3> QED BY <2>1, <3>1, <3>2, <3>4
  <2>2. CASE Len(t1) # c
    BY <1>3, <2>2 DEF room
  <2> QED BY <2>1, <2>2
<1> DEFINE new == PushFront(room, x)
<1>9. Len(new) = Len(room) + 1 /\ \A q \in 1..(Len(room) + 1) : new[q] = IF q = 1 THEN x ELSE room[q - 1]
  <2>1. new = [q \in 1..(Len(room) + 1) |-> IF q = 1 THEN x ELSE room[q - 1]]
    BY DEF PushFront
  <2>2. Len(room) + 1 \in Nat
    BY <1>8
  <2>3. \A q \in 1..(Len(room) + 1) : q # 1 => q - 1 \in 1..Len(room)
    BY <2>2
  <2>4. new \in [1..(Len(room) + 1) -> Pages]
    BY <1>1, <1>8, <2>1, <2>3
  <2>5. Len(new) = Len(room) + 1
    BY <2>2, <2>4, IsSequence
  <2> QED BY <2>1, <2>5
<1>10. lists'["T1"] = new /\ \A l \in {"T2", "B1", "B2"} : lists'[l] = lists[l]
  BY <1>3, <1>7
<1> HIDE DEF new
<1>11. Len(new) = IF j + 1 < c THEN j + 1 ELSE c
  BY <1>1, <1>4, <1>8, <1>9
<1>12. \A q \in 1..Len(new) : new[q] = s[((j + 1) + 1) - q]
  <2> SUFFICES ASSUME NEW q \in 1..Len(new) PROVE new[q] = s[((j + 1) + 1) - q]
    OBVIOUS
  <2>1. Len(room) \in Nat /\ q \in Nat /\ q <= Len(room) + 1
    BY <1>8, <1>9
  <2>2. CASE q = 1
    <3>1. ((j + 1) + 1) - q = j + 1
      BY <2>2
    <3> QED BY <1>9, <2>2, <3>1
  <2>3. CASE q # 1
    <3>1. q - 1 \in 1..Len(room) /\ q - 1 \in 1..Len(t1) /\ (j + 1) - (q - 1) = ((j + 1) + 1) - q
      BY <1>1, <1>5, <1>8, <2>1, <2>3
    <3>2. new[q] = t1[q - 1]
      BY <1>8, <1>9, <2>3, <3>1
    <3> QED BY <1>4, <3>1, <3>2
  <2> QED BY <2>2, <2>3
<1> QED BY <1>4, <1>10, <1>11, <1>12 DEF ArcScanned
===============================================================================
