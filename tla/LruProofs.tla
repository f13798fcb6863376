------------------------------- MODULE LruProofs -------------------------------
(***************************************************************************)
(* Proofs that lru.c keeps its map and its list together, that its list is *)
(* the recent part of the whole trace, and that it implements demand       *)
(* paging, for any pages and any number of frames.  Then what the proofs   *)
(* about main.c need of the references: that nothing that serves accesses  *)
(* on demand beats the optimum, and that an LRU list misses exactly the    *)
(* accesses at a far stack distance.                                       *)
(***************************************************************************)
EXTENDS Lru, References, ListProofs

-------------------------------------------------------------------------------
(* The first n pages of a recency order.                                   *)

LEMMA PrefixType ==
  ASSUME NEW S, NEW r \in Seq(S), NEW n \in Nat
  PROVE  /\ Prefix(r, n) \in Seq(S)
         /\ Len(Prefix(r, n)) = Smaller(n, Len(r))
         /\ \A j \in 1..Smaller(n, Len(r)) : Prefix(r, n)[j] = r[j]
<1> DEFINE l == Prefix(r, n)
           m == Smaller(n, Len(r))
<1>1. m \in Nat /\ m <= Len(r)
  BY DEF Smaller
<1>2. l = [j \in 1..m |-> r[j]]
  BY DEF Prefix
<1> HIDE DEF l, m
<1>3. l \in [1..m -> S]
  BY <1>1, <1>2
<1>4. l \in Seq(S) /\ Len(l) = m
  BY <1>1, <1>3
<1>5. \A j \in 1..m : l[j] = r[j]
  BY <1>2
<1> QED BY <1>4, <1>5 DEF l, m

\* A use of a page of the prefix moves it to the front.
LEMMA PrefixHit ==
  ASSUME NEW S, NEW r \in Seq(S), NEW n \in Nat, NEW x \in S,
         Distinct(r), x \in Members(Prefix(r, n)), Distinct(Prefix(r, n))
  PROVE  PushFront(Remove(Prefix(r, n), x), x) = Prefix(Used(r, x), n)
<1> DEFINE l == Prefix(r, n)
           m == Smaller(n, Len(r))
           u == Used(r, x)
           k == Position(l, x)
           rest == Remove(l, x)
           left == PushFront(rest, x)
           right == Prefix(u, n)
<1>1. l \in Seq(S) /\ Len(l) = m /\ (\A j \in 1..m : l[j] = r[j])
  BY PrefixType
<1>2. m \in Nat /\ m <= n /\ m <= Len(r) /\ DOMAIN l = 1..m /\ DOMAIN r = 1..Len(r) /\ Len(r) \in Nat
  BY <1>1 DEF Smaller
<1>3. k \in 1..m /\ l[k] = x
  BY <1>2, PositionType
<1>4. k \in DOMAIN r /\ r[k] = x
  BY <1>1, <1>2, <1>3
<1>5. x \in Members(r) /\ Position(r, x) = k
  <2>1. x \in Members(r)
    BY <1>4 DEF Members
  <2>2. Position(r, x) \in DOMAIN r /\ r[Position(r, x)] = x
    BY <2>1, PositionType
  <2> QED BY <1>4, <2>1, <2>2 DEF Distinct
<1>6. /\ u \in Seq(S) /\ u[1] = x /\ Len(u) = Len(r)
      /\ \A j \in 2..Len(u) : u[j] = IF k < j THEN r[j] ELSE r[j - 1]
  BY <1>5, UsedPlaces
<1>7. /\ rest \in Seq(S) /\ Len(rest) = m - 1
      /\ \A j \in 1..(m - 1) : rest[j] = IF j < k THEN l[j] ELSE l[j + 1]
  BY <1>1, RemoveType
<1> HIDE DEF rest, u, l, k
<1>8. /\ left \in Seq(S) /\ Len(left) = (m - 1) + 1 /\ left[1] = x
      /\ \A j \in 2..((m - 1) + 1) : left[j] = rest[j - 1]
  <2>1. rest \in Seq(S)
    BY <1>7
  <2>2. /\ left \in Seq(S) /\ Len(left) = Len(rest) + 1 /\ left[1] = x
        /\ \A j \in 2..(Len(rest) + 1) : left[j] = rest[j - 1]
    BY <2>1, PushFrontType, SMTT(30)
  <2> QED BY <1>7, <2>2
<1>9. /\ right \in Seq(S) /\ Len(right) = m /\ \A j \in 1..m : right[j] = u[j]
  BY <1>6, PrefixType
<1> HIDE DEF left, right, m
<1>10. \A j \in 1..m : left[j] = right[j]
  <2> SUFFICES ASSUME NEW j \in 1..m PROVE left[j] = right[j]
    OBVIOUS
  <2>1. CASE j = 1
    BY <1>6, <1>8, <1>9, <2>1
  <2>2. CASE j # 1
    <3>1. j \in 2..((m - 1) + 1) /\ j - 1 \in 1..(m - 1) /\ j \in 2..Len(u)
      BY <1>2, <1>6, <2>2
    <3>2. left[j] = IF j - 1 < k THEN l[j - 1] ELSE l[(j - 1) + 1]
      BY <1>7, <1>8, <3>1
    <3>3. right[j] = IF k < j THEN r[j] ELSE r[j - 1]
      BY <1>6, <1>9, <3>1
    <3>4. l[j - 1] = r[j - 1] /\ l[j] = r[j]
      BY <1>1, <1>2, <3>1
    <3> QED BY <1>2, <1>3, <3>2, <3>3, <3>4
  <2> QED BY <2>1, <2>2
<1>11. Len(left) = Len(right) /\ Len(left) = m
  BY <1>2, <1>8, <1>9
<1>12. left = right
  BY <1>8, <1>9, <1>10, <1>11, SameLists
<1> QED BY <1>12 DEF left, right, rest, u, l

\* A new page in front of a prefix shorter than n, which is the whole order.
LEMMA PrefixLoad ==
  ASSUME NEW S, NEW r \in Seq(S), NEW n \in Nat, NEW x \in S,
         Distinct(r), x \notin Members(Prefix(r, n)), Len(Prefix(r, n)) < n
  PROVE  PushFront(Prefix(r, n), x) = Prefix(Used(r, x), n)
<1> DEFINE l == Prefix(r, n)
           u == Used(r, x)
<1>1. l \in Seq(S) /\ Len(l) = Smaller(n, Len(r)) /\ (\A j \in 1..Smaller(n, Len(r)) : l[j] = r[j])
  BY PrefixType
<1>2. Len(r) \in Nat /\ Len(r) < n /\ Len(l) = Len(r)
  BY <1>1 DEF Smaller
<1>3. l = r
  <2>1. \A j \in 1..Len(l) : l[j] = r[j]
    BY <1>1, <1>2
  <2> QED BY <1>1, <1>2, <2>1, SameLists
<1>4. u = PushFront(r, x)
  BY <1>3 DEF Used
<1>5. u \in Seq(S) /\ Len(u) = Len(r) + 1
  BY <1>4, PushFrontType
<1> HIDE DEF u, l
<1>6. /\ Prefix(u, n) \in Seq(S) /\ Len(Prefix(u, n)) = Smaller(n, Len(u))
      /\ \A j \in 1..Smaller(n, Len(u)) : Prefix(u, n)[j] = u[j]
  BY <1>5, PrefixType
<1>7. Smaller(n, Len(u)) = Len(u)
  BY <1>2, <1>5 DEF Smaller
<1>8. Prefix(u, n) = u
  BY <1>5, <1>6, <1>7, SameLists
<1> QED BY <1>3, <1>4, <1>8 DEF u, l

\* A new page in front of a prefix of n pages pushes the last one out.
LEMMA PrefixEvict ==
  ASSUME NEW S, NEW r \in Seq(S), NEW n \in Nat \ {0}, NEW x \in S,
         Distinct(r), x \notin Members(Prefix(r, n)), Len(Prefix(r, n)) = n
  PROVE  PushFront(PopTail(Prefix(r, n)), x) = Prefix(Used(r, x), n)
<1> DEFINE l == Prefix(r, n)
           u == Used(r, x)
           rest == PopTail(l)
           left == PushFront(rest, x)
           right == Prefix(u, n)
<1>1. l \in Seq(S) /\ Len(l) = n /\ (\A j \in 1..n : l[j] = r[j])
  BY PrefixType
<1>2. Len(r) \in Nat /\ n <= Len(r) /\ DOMAIN l = 1..n /\ DOMAIN r = 1..Len(r) /\ l # <<>>
  <2>1. n = Smaller(n, Len(r))
    BY <1>1, PrefixType
  <2> QED BY <1>1, <2>1 DEF Smaller
<1>3. x \in Members(r) => Position(r, x) > n
  <2> SUFFICES ASSUME x \in Members(r) PROVE Position(r, x) > n
    OBVIOUS
  <2> DEFINE k == Position(r, x)
  <2>1. k \in DOMAIN r /\ r[k] = x
    BY PositionType
  <2> HIDE DEF k
  <2>2. k \notin 1..n
    BY <1>1, <1>2, <2>1 DEF Members
  <2>3. k > n
    BY <1>2, <2>1, <2>2
  <2> QED BY <2>3 DEF k
<1>4. /\ u \in Seq(S) /\ u[1] = x /\ Len(u) = (IF x \in Members(r) THEN Len(r) ELSE Len(r) + 1)
      /\ \A j \in 2..Len(u) :
           u[j] = IF x \in Members(r) /\ Position(r, x) < j THEN r[j] ELSE r[j - 1]
  BY UsedPlaces
<1>5. /\ rest \in Seq(S) /\ Len(rest) = n - 1 /\ \A j \in 1..(n - 1) : rest[j] = l[j]
  BY <1>1, <1>2, PopTailType
<1> HIDE DEF rest, u, l
<1>6. /\ left \in Seq(S) /\ Len(left) = (n - 1) + 1 /\ left[1] = x
      /\ \A j \in 2..((n - 1) + 1) : left[j] = rest[j - 1]
  <2>1. /\ left \in Seq(S) /\ Len(left) = Len(rest) + 1 /\ left[1] = x
        /\ \A j \in 2..(Len(rest) + 1) : left[j] = rest[j - 1]
    <3>1. rest \in Seq(S)
      BY <1>5
    <3>2. /\ PushFront(rest, x) \in Seq(S)
          /\ Len(PushFront(rest, x)) = Len(rest) + 1
          /\ PushFront(rest, x)[1] = x
          /\ \A j \in 2..(Len(rest) + 1) : PushFront(rest, x)[j] = rest[j - 1]
      BY <3>1, PushFrontType
    <3> QED BY <3>2
  <2> QED BY <1>5, <2>1
<1>7. Len(u) \in Nat /\ n <= Len(u)
  BY <1>2, <1>4
<1>8. /\ right \in Seq(S) /\ Len(right) = n /\ \A j \in 1..n : right[j] = u[j]
  <2>1. Smaller(n, Len(u)) = n
    BY <1>7 DEF Smaller
  <2> QED BY <1>4, <2>1, PrefixType
<1> HIDE DEF left, right
<1>9. \A j \in 1..n : left[j] = right[j]
  <2> SUFFICES ASSUME NEW j \in 1..n PROVE left[j] = right[j]
    OBVIOUS
  <2>1. CASE j = 1
    BY <1>4, <1>6, <1>8, <2>1
  <2>2. CASE j # 1
    <3>1. j \in 2..((n - 1) + 1) /\ j - 1 \in 1..(n - 1) /\ j \in 2..Len(u) /\ j - 1 \in 1..n
      BY <1>7, <2>2
    <3>2. ~(x \in Members(r) /\ Position(r, x) < j)
      <4>1. CASE x \in Members(r)
        <5>1. Position(r, x) \in Nat
          BY <1>2, <4>1, PositionType
        <5> QED BY <1>3, <4>1, <5>1
      <4> QED BY <4>1
    <3>3. left[j] = r[j - 1]
      BY <1>1, <1>5, <1>6, <3>1
    <3>4. right[j] = r[j - 1]
      BY <1>4, <1>8, <3>1, <3>2
    <3> QED BY <3>3, <3>4
  <2> QED BY <2>1, <2>2
<1>10. left = right
  BY <1>6, <1>8, <1>9, SameLists
<1> QED BY <1>10 DEF left, right, rest, u, l

-------------------------------------------------------------------------------
(* The invariant.                                                          *)

\* Listed says of every link what MapMatchesList says of the walks along them, which is
\* what a step preserves; and the recency order is itself a list of distinct pages, or a
\* prefix would not be.
IInv ==
  /\ Listed(Pages, links, list)
  /\ TypeOk /\ MapMatchesList /\ ListIsRecentPrefix /\ Distinct(recency)

\* Links that hold the pages of s, size of them, are walked along s.
LEMMA ListIs ==
  ASSUME NEW s, Listed(Pages, links, s), size = Len(s)
  PROVE  list = s /\ listFromTail = Backwards(s)
<1>1. Len(s) \in Nat
  BY DEF Listed
<1> QED BY <1>1, PagesAssumption, ListedWalks DEF list, listFromTail

\* The same after a step.
LEMMA ListIsNext ==
  ASSUME NEW s, Listed(Pages, links', s), size' = Len(s)
  PROVE  list' = s /\ listFromTail' = Backwards(s)
<1>1. Len(s) \in Nat
  BY DEF Listed
<1> QED BY <1>1, PagesAssumption, ListedWalks DEF list, listFromTail

\* A full list is not empty, and its tail is the page used least recently.
LEMMA TailIsTip ==
  ASSUME IInv, capacity > 0, Full
  PROVE  list # <<>> /\ links.tail = Tip(list) /\ Tip(list) \in Members(list)
<1>1. list \in Seq(Pages) /\ Len(list) = capacity /\ capacity \in Nat
  BY FramesAssumption DEF IInv, TypeOk, MapMatchesList, Full
<1>2. list # <<>> /\ Len(list) # 0
  BY <1>1
<1>3. links.tail = list[Len(list)]
  BY <1>2 DEF IInv, Listed
<1> QED BY <1>1, <1>2, <1>3, PopTailType DEF Tip

LEMMA NoneRecent == Prefix(<<>>, 0) = <<>> /\ \A n \in Nat : Prefix(<<>>, n) = <<>>
<1> SUFFICES ASSUME NEW n \in Nat PROVE Prefix(<<>>, n) = <<>>
  OBVIOUS
<1>1. Smaller(n, Len(<<>>)) = 0
  BY DEF Smaller
<1> QED BY <1>1 DEF Prefix

LEMMA InitIInv == Init => IInv
<1> SUFFICES ASSUME Init PROVE IInv
  OBVIOUS
<1>0. Listed(Pages, links, <<>>) /\ list = <<>> /\ listFromTail = Backwards(<<>>)
  BY ListedNone, ListIs DEF Init
<1>1. TypeOk
  BY <1>0 DEF Init, TypeOk
<1>2. MapMatchesList /\ Distinct(recency)
  BY <1>0 DEF Init, MapMatchesList, Members, Distinct
<1>3. ListIsRecentPrefix
  BY <1>0, NoneRecent DEF Init, ListIsRecentPrefix
<1> QED BY <1>0, <1>1, <1>2, <1>3 DEF IInv

LEMMA ResetIInv ==
  ASSUME ResetState, NEW n \in FrameCounts \cup {0}, capacity' = n
  PROVE  IInv'
<1>0. Listed(Pages, links', <<>>) /\ list' = <<>> /\ listFromTail' = Backwards(<<>>)
  BY ListedNone, ListIsNext DEF ResetState
<1>1. n \in Nat
  BY FramesAssumption
<1>2. TypeOk'
  BY <1>0, <1>1 DEF ResetState, TypeOk
<1>3. MapMatchesList' /\ Distinct(recency)'
  BY <1>0 DEF ResetState, MapMatchesList, Members, Distinct
<1>4. ListIsRecentPrefix'
  BY <1>0, <1>1, NoneRecent DEF ResetState, ListIsRecentPrefix
<1> QED BY <1>0, <1>2, <1>3, <1>4 DEF IInv

\* What every access does to the recency order.
LEMMA RecencyIInv ==
  ASSUME IInv, NEW page \in Pages, recency' = Used(recency, page)
  PROVE  recency' \in Seq(Pages) /\ Distinct(recency')
BY UsedType DEF IInv, TypeOk

\* What the links become is what the list becomes.
LEMMA HitList ==
  ASSUME IInv, NEW page \in Pages, Hit(page)
  PROVE  /\ list' = PushFront(Remove(list, page), page)
         /\ Listed(Pages, links', list') /\ listFromTail' = Backwards(list')
<1> DEFINE rest == Remove(list, page)
           m == list_remove(links, page)
<1>1. /\ list \in Seq(Pages) /\ Distinct(list) /\ page \in Members(list) /\ size = Len(list)
      /\ Listed(Pages, links, list)
  BY DEF IInv, TypeOk, MapMatchesList, Hit
<1>2. Listed(Pages, m, rest)
  BY <1>1, PagesAssumption, ListedRemove
<1>3. rest \in Seq(Pages) /\ Len(rest) = Len(list) - 1 /\ page \notin Members(rest)
  BY <1>1, RemoveType, RemoveMembers
<1> HIDE DEF rest, m
<1>4. Listed(Pages, list_push_front(m, page), PushFront(rest, page))
  BY <1>2, <1>3, PagesAssumption, ListedPrepend
<1>5. Len(PushFront(rest, page)) = Len(rest) + 1
  BY <1>3, PushFrontType
<1>6. links' = list_push_front(m, page) /\ size' = Len(PushFront(rest, page))
  BY <1>1, <1>3, <1>5 DEF Hit, Promote, m
<1>7. list' = PushFront(rest, page) /\ listFromTail' = Backwards(PushFront(rest, page))
  BY <1>4, <1>6, ListIsNext
<1> QED BY <1>4, <1>6, <1>7 DEF rest

LEMMA LoadFreeList ==
  ASSUME IInv, NEW page \in Pages, LoadFree(page)
  PROVE  /\ list' = PushFront(list, page)
         /\ Listed(Pages, links', list') /\ listFromTail' = Backwards(list')
<1>1. /\ list \in Seq(Pages) /\ page \notin Members(list) /\ size = Len(list)
      /\ Listed(Pages, links, list)
  BY DEF IInv, TypeOk, MapMatchesList, LoadFree
<1>2. Listed(Pages, list_push_front(links, page), PushFront(list, page))
  BY <1>1, PagesAssumption, ListedPrepend
<1>3. Len(PushFront(list, page)) = Len(list) + 1
  BY <1>1, PushFrontType
<1>4. links' = list_push_front(links, page) /\ size' = Len(PushFront(list, page))
  BY <1>1, <1>3 DEF LoadFree
<1>5. list' = PushFront(list, page) /\ listFromTail' = Backwards(PushFront(list, page))
  BY <1>2, <1>4, ListIsNext
<1> QED BY <1>2, <1>4, <1>5

LEMMA LoadEvictList ==
  ASSUME IInv, NEW page \in Pages, capacity > 0, LoadEvict(page)
  PROVE  /\ list' = PushFront(PopTail(list), page)
         /\ Listed(Pages, links', list') /\ listFromTail' = Backwards(list')
<1> DEFINE rest == PopTail(list)
           m == list_remove(links, links.tail)
<1>1. /\ list \in Seq(Pages) /\ Distinct(list) /\ page \notin Members(list) /\ size = Len(list)
      /\ Listed(Pages, links, list)
  BY DEF IInv, TypeOk, MapMatchesList, LoadEvict
<1>2. list # <<>> /\ links.tail = Tip(list) /\ Tip(list) \in Members(list)
  BY TailIsTip DEF LoadEvict
<1>3. Listed(Pages, m, rest)
  <2>1. Listed(Pages, list_remove(links, Tip(list)), Remove(list, Tip(list)))
    BY <1>1, <1>2, PagesAssumption, ListedRemove
  <2>2. Remove(list, Tip(list)) = rest
    BY <1>1, <1>2, RemoveTip
  <2> QED BY <1>2, <2>1, <2>2
<1>4. rest \in Seq(Pages) /\ Len(rest) = Len(list) - 1 /\ page \notin Members(rest)
  BY <1>1, <1>2, PopTailType, PopTailMembers
<1> HIDE DEF rest, m
<1>5. Listed(Pages, list_push_front(m, page), PushFront(rest, page))
  BY <1>3, <1>4, PagesAssumption, ListedPrepend
<1>6. Len(PushFront(rest, page)) = Len(rest) + 1
  BY <1>4, PushFrontType
<1>7. links' = list_push_front(m, page) /\ size' = Len(PushFront(rest, page))
  BY <1>1, <1>4, <1>6 DEF LoadEvict, m
<1>8. list' = PushFront(rest, page) /\ listFromTail' = Backwards(PushFront(rest, page))
  BY <1>5, <1>7, ListIsNext
<1> QED BY <1>5, <1>7, <1>8 DEF rest

LEMMA HitIInv ==
  ASSUME IInv, NEW page \in Pages, Hit(page)
  PROVE  IInv'
<1>1. recency' \in Seq(Pages) /\ Distinct(recency')
  BY RecencyIInv DEF Hit
<1>2. /\ list \in Seq(Pages) /\ Distinct(list) /\ page \in Members(list)
      /\ hmap = Members(list) /\ size = Len(list)
  BY DEF IInv, TypeOk, MapMatchesList, Hit
<1> DEFINE rest == Remove(list, page)
<1>3. /\ rest \in Seq(Pages) /\ Len(rest) = Len(list) - 1 /\ Distinct(rest)
      /\ Members(rest) = Members(list) \ {page}
  BY <1>2, RemoveType, RemoveMembers
<1> HIDE DEF rest
<1>4. list' = PushFront(rest, page) /\ Listed(Pages, links', list') /\ listFromTail' = Backwards(list')
  BY HitList DEF rest
<1>5. /\ list' \in Seq(Pages) /\ Len(list') = Len(rest) + 1
      /\ Members(list') = Members(rest) \cup {page} /\ Distinct(list')
  <2>1. page \notin Members(rest)
    BY <1>3
  <2> QED BY <1>3, <1>4, <2>1, PushFrontList
<1>6. TypeOk'
  BY <1>1, <1>5 DEF IInv, TypeOk, Hit
<1>7. MapMatchesList'
  <2>1. hmap' = Members(list') /\ Distinct(list')
    BY <1>2, <1>3, <1>5 DEF Hit
  <2>2. size' = Len(list')
    BY <1>2, <1>3, <1>5 DEF Hit
  <2> QED BY <1>4, <2>1, <2>2 DEF MapMatchesList
<1>8. ListIsRecentPrefix'
  <2>1. capacity \in Nat /\ recency \in Seq(Pages) /\ Distinct(recency) /\ list = Prefix(recency, capacity)
    BY FramesAssumption DEF IInv, TypeOk, ListIsRecentPrefix
  <2>2. PushFront(Remove(Prefix(recency, capacity), page), page) = Prefix(Used(recency, page), capacity)
    BY <1>2, <2>1, PrefixHit
  <2> QED BY <1>4, <2>1, <2>2 DEF ListIsRecentPrefix, Hit, rest
<1> QED BY <1>1, <1>4, <1>6, <1>7, <1>8 DEF IInv

LEMMA LoadFreeIInv ==
  ASSUME IInv, NEW page \in Pages, capacity > 0, LoadFree(page)
  PROVE  IInv'
<1>1. recency' \in Seq(Pages) /\ Distinct(recency')
  BY RecencyIInv DEF LoadFree
<1>2. /\ list \in Seq(Pages) /\ Distinct(list) /\ page \notin Members(list)
      /\ hmap = Members(list) /\ size = Len(list)
  BY DEF IInv, TypeOk, MapMatchesList, LoadFree
<1>3. capacity \in Nat /\ size \in 0..capacity /\ size < capacity
  BY FramesAssumption DEF IInv, TypeOk, LoadFree, Full
<1>4. /\ list' = PushFront(list, page) /\ Listed(Pages, links', list')
      /\ listFromTail' = Backwards(list')
  BY LoadFreeList
<1>5. /\ list' \in Seq(Pages) /\ Len(list') = Len(list) + 1
       /\ Members(list') = Members(list) \cup {page} /\ Distinct(list')
  BY <1>2, <1>4, PushFrontList
<1>6. TypeOk'
  <2>1. hmap' \subseteq Pages /\ capacity' \in FrameCounts \cup {0} /\ reply' \in {"HIT", "FAULT", "none"}
    BY DEF IInv, TypeOk, LoadFree
  <2>2. size' \in 0..capacity'
    BY <1>3 DEF LoadFree
  <2> QED BY <1>1, <1>5, <2>1, <2>2 DEF TypeOk
<1>7. MapMatchesList'
  <2>1. hmap' = Members(list') /\ Distinct(list')
    BY <1>2, <1>5 DEF LoadFree
  <2>2. size' = Len(list')
    BY <1>2, <1>5 DEF LoadFree
  <2> QED BY <1>4, <2>1, <2>2 DEF MapMatchesList
<1>8. ListIsRecentPrefix'
  <2>1. recency \in Seq(Pages) /\ Distinct(recency) /\ list = Prefix(recency, capacity)
    BY DEF IInv, TypeOk, ListIsRecentPrefix
  <2>2. PushFront(Prefix(recency, capacity), page) = Prefix(Used(recency, page), capacity)
    BY <1>2, <1>3, <2>1, PrefixLoad
  <2> QED BY <1>4, <2>1, <2>2 DEF ListIsRecentPrefix, LoadFree
<1> QED BY <1>1, <1>4, <1>6, <1>7, <1>8 DEF IInv

\* The last page of a full list leaves the list and the map.
LEMMA LoadEvictIInv ==
  ASSUME IInv, NEW page \in Pages, capacity > 0, LoadEvict(page)
  PROVE  IInv'
<1>1. recency' \in Seq(Pages) /\ Distinct(recency')
  BY RecencyIInv DEF LoadEvict
<1>2. /\ list \in Seq(Pages) /\ Distinct(list) /\ page \notin Members(list)
      /\ hmap = Members(list) /\ size = Len(list)
  BY DEF IInv, TypeOk, MapMatchesList, LoadEvict
<1>3. capacity \in Nat \ {0} /\ size = capacity /\ list # <<>>
  BY <1>2, FramesAssumption DEF IInv, TypeOk, LoadEvict, Full
<1> DEFINE rest == PopTail(list)
<1>4. /\ rest \in Seq(Pages) /\ Len(rest) = Len(list) - 1 /\ Distinct(rest)
      /\ Members(rest) = Members(list) \ {Tip(list)}
  BY <1>2, <1>3, PopTailType, PopTailMembers
<1>5. /\ page \notin Members(rest) /\ list' = PushFront(rest, page)
      /\ Listed(Pages, links', list') /\ listFromTail' = Backwards(list')
  BY <1>2, <1>4, LoadEvictList
<1> HIDE DEF rest
<1>6. /\ list' \in Seq(Pages) /\ Len(list') = Len(rest) + 1
      /\ Members(list') = Members(rest) \cup {page} /\ Distinct(list')
  BY <1>4, <1>5, PushFrontList
<1>7. TypeOk'
  <2>1. hmap' \subseteq Pages /\ capacity' \in FrameCounts \cup {0} /\ reply' \in {"HIT", "FAULT", "none"}
    BY DEF IInv, TypeOk, LoadEvict, MapAfterEvict
  <2>2. size' \in 0..capacity'
    BY <1>3 DEF LoadEvict
  <2> QED BY <1>1, <1>6, <2>1, <2>2 DEF TypeOk
<1>8. MapMatchesList'
  <2>1. hmap' = Members(list') /\ Distinct(list')
    <3>1. links.tail = Tip(list)
      BY TailIsTip DEF LoadEvict
    <3> QED BY <1>2, <1>4, <1>6, <3>1 DEF LoadEvict, MapAfterEvict
  <2>2. size' = Len(list')
    BY <1>2, <1>3, <1>4, <1>6 DEF LoadEvict
  <2> QED BY <1>5, <2>1, <2>2 DEF MapMatchesList
<1>9. ListIsRecentPrefix'
  <2>1. recency \in Seq(Pages) /\ Distinct(recency) /\ list = Prefix(recency, capacity)
    BY DEF IInv, TypeOk, ListIsRecentPrefix
  <2>2. PushFront(PopTail(Prefix(recency, capacity)), page) = Prefix(Used(recency, page), capacity)
    BY <1>2, <1>3, <2>1, PrefixEvict
  <2> QED BY <1>5, <2>1, <2>2 DEF ListIsRecentPrefix, LoadEvict, rest
<1> QED BY <1>1, <1>5, <1>7, <1>8, <1>9 DEF IInv

LEMMA StepIInv == IInv /\ [Next]_vars => IInv'
<1> SUFFICES ASSUME IInv, [Next]_vars PROVE IInv'
  OBVIOUS
<1>1. ASSUME NEW n \in FrameCounts, LruInit(n) PROVE IInv'
  BY <1>1, ResetIInv DEF LruInit
<1>2. CASE LruReset
  BY <1>2, ResetIInv DEF LruReset
<1>3. ASSUME NEW page \in Pages, capacity > 0, Hit(page) \/ LoadFree(page) \/ LoadEvict(page)
      PROVE  IInv'
  BY <1>3, HitIInv, LoadFreeIInv, LoadEvictIInv
<1>4. CASE UNCHANGED vars
  BY <1>4 DEF vars, IInv, list, listFromTail, TypeOk, MapMatchesList, ListIsRecentPrefix
<1> QED BY <1>1, <1>2, <1>3, <1>4 DEF Next

LEMMA Invariance == Spec => []IInv
<1> QED BY InitIInv, StepIInv, PTL DEF Spec

\* The hash map never keeps a page the list has given up, nor loses one it holds
\* (lru.c:75-103), for any trace and any number of frames.
THEOREM MapCorrect == Spec => []MapMatchesList
<1>1. IInv => MapMatchesList
  BY DEF IInv
<1> QED BY <1>1, Invariance, PTL

\* The resident pages are at every moment the capacity most recently used ones, in
\* order: the list of n frames is a prefix of the list of n + 1, so more frames never
\* turn a hit into a fault.
THEOREM RecencyCorrect == Spec => []ListIsRecentPrefix
<1>1. IInv => ListIsRecentPrefix
  BY DEF IInv
<1> QED BY <1>1, Invariance, PTL

-------------------------------------------------------------------------------
(* LRU implements demand paging.                                           *)

\* The instance's Cardinality is the one of the library theorems.
LEMMA SameCardinality == \A S : Paging!Cardinality(S) = Cardinality(S)
BY DEF Paging!Cardinality, Cardinality, Paging!IsFiniteSet, IsFiniteSet

LEMMA ResidentCount ==
  ASSUME IInv
  PROVE  Paging!Cardinality(hmap) = size
BY MembersCount, SameCardinality DEF IInv, TypeOk, MapMatchesList

\* The first page of the recency order after an access is the page accessed.
LEMMA LastUsed ==
  ASSUME IInv, NEW page \in Pages, recency' = Used(recency, page)
  PROVE  (IF recency = <<>> THEN "none" ELSE recency[1])' = page
<1> recency \in Seq(Pages) /\ Distinct(recency)
  BY DEF IInv, TypeOk
<1>1. Used(recency, page)[1] = page /\ Used(recency, page) # <<>>
  BY UsedType
<1> QED BY <1>1

LEMMA AccessRefines ==
  ASSUME IInv, NEW page \in Pages, capacity > 0, Hit(page) \/ LoadFree(page) \/ LoadEvict(page)
  PROVE  Paging!Hit(page) \/ Paging!Load(page) \/ Paging!Replace(page)
<1>1. size \in 0..capacity /\ capacity \in Nat /\ Paging!Cardinality(hmap) = size
  BY FramesAssumption, ResidentCount DEF IInv, TypeOk
<1>2. CASE Hit(page)
  <2>1. (IF recency = <<>> THEN "none" ELSE recency[1])' = page
    BY <1>2, LastUsed DEF Hit
  <2>2. Paging!Hit(page)
    BY <1>2, <2>1 DEF Hit, Paging!Hit
  <2> QED BY <2>2
<1>3. CASE LoadFree(page)
  <2>1. (IF recency = <<>> THEN "none" ELSE recency[1])' = page
    BY <1>3, LastUsed DEF LoadFree
  <2>2. Paging!Cardinality(hmap) < capacity
    BY <1>1, <1>3 DEF LoadFree, Full
  <2>3. Paging!Load(page)
    BY <1>3, <2>1, <2>2 DEF LoadFree, Paging!Load
  <2> QED BY <2>3
<1>4. CASE LoadEvict(page)
  <2>1. (IF recency = <<>> THEN "none" ELSE recency[1])' = page
    BY <1>4, LastUsed DEF LoadEvict
  <2>2. Paging!Cardinality(hmap) = capacity
    BY <1>1, <1>4 DEF LoadEvict, Full
  <2>3. links.tail \in hmap
    <3>1. links.tail \in Members(list)
      BY <1>4, TailIsTip DEF LoadEvict
    <3> QED BY <3>1 DEF IInv, MapMatchesList
  <2>4. Paging!Replace(page)
    BY <1>4, <2>1, <2>2, <2>3 DEF LoadEvict, MapAfterEvict, Paging!Replace
  <2> QED BY <2>4
<1> QED BY <1>2, <1>3, <1>4

\* The same in terms of the pages held.
LEMMA AccessServes ==
  ASSUME IInv, NEW page \in Pages, capacity > 0, Hit(page) \/ LoadFree(page) \/ LoadEvict(page)
  PROVE  \/ page \in hmap /\ reply' = "HIT" /\ hmap' = hmap
         \/ /\ page \notin hmap /\ reply' = "FAULT"
            /\ \/ Cardinality(hmap) < capacity /\ hmap' = hmap \cup {page}
               \/ /\ Cardinality(hmap) = capacity
                  /\ \E v \in hmap : hmap' = (hmap \ {v}) \cup {page}
BY AccessRefines, SameCardinality DEF Paging!Hit, Paging!Load, Paging!Replace

\* lru_access answers HIT exactly for a resident page, and evicts one page, and only
\* when no frame is free, for any pages and any number of frames.
THEOREM Refinement == Spec => RefinesDemandPaging
<1>1. Init => Paging!Init
  BY DEF Init, Paging!Init
<1>2. IInv /\ [Next]_vars => [Paging!Next]_(Paging!vars)
  <2> SUFFICES ASSUME IInv, [Next]_vars PROVE [Paging!Next]_(Paging!vars)
    OBVIOUS
  <2>1. ASSUME NEW n \in FrameCounts \cup {0}, ResetState, capacity' = n PROVE Paging!Next
    <3>1. Paging!Configure(n)
      BY <2>1 DEF ResetState, Paging!Configure
    <3> QED BY <3>1 DEF Paging!Next
  <2>2. ASSUME NEW n \in FrameCounts, LruInit(n) PROVE Paging!Next
    BY <2>1, <2>2 DEF LruInit
  <2>3. CASE LruReset
    BY <2>1, <2>3 DEF LruReset
  <2>4. ASSUME NEW page \in Pages, capacity > 0, Hit(page) \/ LoadFree(page) \/ LoadEvict(page)
        PROVE  Paging!Next
    BY <2>4, AccessRefines DEF Paging!Next
  <2>5. CASE UNCHANGED vars
    BY <2>5 DEF vars, Paging!vars
  <2> QED BY <2>2, <2>3, <2>4, <2>5 DEF Next
<1> QED BY <1>1, <1>2, Invariance, PTL DEF Spec, RefinesDemandPaging, Paging!Spec

-------------------------------------------------------------------------------
(* Greatest numbers.                                                       *)

\* A set of numbers with an upper bound has a greatest.
LEMMA GreatestNumber ==
  ASSUME NEW T, NEW b \in Nat, T \subseteq 0..b, T # {}
  PROVE  \E k \in T : \A m \in T : m <= k
<1> DEFINE U == {b - t : t \in T}
<1>1. U \in SUBSET Nat /\ U # {}
  <2>1. \A t \in T : b - t \in Nat
    OBVIOUS
  <2> QED BY <2>1
<1>2. PICK u \in U : \A v \in U : u <= v
  BY <1>1, LeastNumber
<1>3. PICK t \in T : u = b - t
  OBVIOUS
<1>4. \A m \in T : m <= t
  <2> SUFFICES ASSUME NEW m \in T PROVE m <= t
    OBVIOUS
  <2>1. b - m \in U
    OBVIOUS
  <2> HIDE DEF U
  <2>2. b - t <= b - m
    BY <1>2, <1>3, <2>1
  <2>3. m \in Nat /\ t \in Nat
    BY <1>3
  <2> QED BY <2>2, <2>3
<1> QED BY <1>4

-------------------------------------------------------------------------------
(* The references.                                                         *)

\* The next use of x after access j: the first access that is one, if any.
LEMMA NextUseType ==
  ASSUME NEW S, NEW s \in Seq(S), NEW x, NEW j \in 0..Len(s)
  PROVE  /\ NextUse(s, x, j) \in (j + 1)..(Len(s) + 1)
         /\ NextUse(s, x, j) <= Len(s) => s[NextUse(s, x, j)] = x
         /\ \A k \in (j + 1)..Len(s) : s[k] = x => NextUse(s, x, j) <= k
<1> DEFINE T == {k \in (j + 1)..Len(s) : s[k] = x}
<1>0. Len(s) \in Nat /\ j \in Nat /\ T \in SUBSET Nat
  OBVIOUS
<1>1. CASE T = {}
  <2>1. NextUse(s, x, j) = Len(s) + 1
    BY <1>1 DEF NextUse
  <2> QED BY <1>0, <1>1, <2>1
<1>2. CASE T # {}
  <2> DEFINE P(k) == s[k] = x /\ x \notin PagesIn(s, j + 1, k - 1)
  <2>1. PICK t \in T : \A m \in T : t <= m
    BY <1>0, <1>2, LeastNumber
  <2>2. t \in (j + 1)..Len(s) /\ P(t)
    <3>1. ASSUME NEW l \in (j + 1)..(t - 1) PROVE s[l] # x
      BY <1>0, <2>1
    <3> QED BY <3>1, <2>1 DEF PagesIn
  <2>3. NextUse(s, x, j) = CHOOSE k \in (j + 1)..Len(s) : P(k)
    BY <1>2 DEF NextUse
  <2> DEFINE w == CHOOSE k \in (j + 1)..Len(s) : P(k)
  <2>4. w \in (j + 1)..Len(s) /\ P(w)
    BY <2>2
  <2> HIDE DEF w
  <2>5. w \in T /\ t <= w
    BY <2>1, <2>4
  <2>6. ~(t < w)
    <3>1. t < w => t \in (j + 1)..(w - 1)
      BY <1>0, <2>1, <2>4
    <3>2. t < w => s[t] \in PagesIn(s, j + 1, w - 1)
      BY <3>1 DEF PagesIn
    <3> QED BY <2>2, <2>4, <3>2
  <2>7. w = t
    BY <1>0, <2>1, <2>4, <2>5, <2>6
  <2>8. NextUse(s, x, j) = t
    BY <2>3, <2>7 DEF w
  <2> QED BY <1>0, <2>1, <2>8
<1> QED BY <1>1, <1>2

\* An access changes the next use of its own page only, which was due then.
LEMMA NextUseStep ==
  ASSUME NEW S, NEW s \in Seq(S), NEW x, NEW j \in 1..Len(s)
  PROVE  /\ s[j] = x => NextUse(s, x, j - 1) = j
         /\ s[j] # x => NextUse(s, x, j) = NextUse(s, x, j - 1)
<1> DEFINE before == NextUse(s, x, j - 1)
           after == NextUse(s, x, j)
<1>1. Len(s) \in Nat /\ j - 1 \in 0..Len(s) /\ j \in 0..Len(s) /\ (j - 1) + 1 = j
  OBVIOUS
<1>2. /\ before \in j..(Len(s) + 1) /\ (before <= Len(s) => s[before] = x)
      /\ \A k \in j..Len(s) : s[k] = x => before <= k
  BY <1>1, NextUseType
<1>3. /\ after \in (j + 1)..(Len(s) + 1) /\ (after <= Len(s) => s[after] = x)
      /\ \A k \in (j + 1)..Len(s) : s[k] = x => after <= k
  BY <1>1, NextUseType
<1> HIDE DEF before, after
<1>4. s[j] = x => before = j
  BY <1>1, <1>2
<1>5. s[j] # x => after = before
  <2> SUFFICES ASSUME s[j] # x PROVE after = before
    OBVIOUS
  <2>1. before # j
    BY <1>1, <1>2
  <2>2. before \in (j + 1)..(Len(s) + 1)
    BY <1>1, <1>2, <2>1
  <2>3. after <= before
    BY <1>1, <1>3, <1>2, <2>2
  <2>4. before <= after
    BY <1>1, <1>2, <1>3
  <2> QED BY <1>1, <1>2, <1>3, <2>3, <2>4
<1> QED BY <1>4, <1>5 DEF before, after

LEMMA FurthestType ==
  ASSUME NEW S, NEW s \in Seq(S), NEW R, R # {}, NEW j \in 0..Len(s)
  PROVE  /\ Furthest(s, R, j) \in R
         /\ \A y \in R : NextUse(s, y, j) <= NextUse(s, Furthest(s, R, j), j)
<1> DEFINE T == {NextUse(s, y, j) : y \in R}
<1>1. T \subseteq 0..(Len(s) + 1) /\ T # {} /\ Len(s) + 1 \in Nat
  BY NextUseType
<1>2. PICK t \in T : \A u \in T : u <= t
  BY <1>1, GreatestNumber
<1>3. PICK x \in R : t = NextUse(s, x, j)
  OBVIOUS
<1>4. \A y \in R : NextUse(s, y, j) <= NextUse(s, x, j)
  BY <1>2, <1>3
<1> QED BY <1>4 DEF Furthest

\* The optimum obeys its recursive definition.
LEMMA OptimalIs ==
  ASSUME NEW m \in Nat, NEW S, NEW s \in Seq(S)
  PROVE  /\ Optimal(m, s)[0] = [resident |-> {}, faults |-> 0]
         /\ \A j \in 1..Len(s) : Optimal(m, s)[j] = Served(m, s, Optimal(m, s)[j - 1], j)
<1> DEFINE start == [resident |-> {}, faults |-> 0]
           IsRun(f, l) == f = [j \in 0..l |-> IF j = 0 THEN start ELSE Served(m, s, f[j - 1], j)]
           T == {l \in Nat : \E f : IsRun(f, l)}
<1>1. 0 \in T
  <2> DEFINE f == [j \in 0..0 |-> start]
  <2>1. IsRun(f, 0)
    OBVIOUS
  <2> QED BY <2>1
<1>2. ASSUME NEW l \in Nat, l \in T PROVE l + 1 \in T
  <2>1. PICK f : IsRun(f, l)
    BY <1>2
  <2> DEFINE g == [j \in 0..(l + 1) |-> IF j <= l THEN f[j] ELSE Served(m, s, f[l], l + 1)]
  <2>2. ASSUME NEW j \in 0..(l + 1)
        PROVE  g[j] = IF j = 0 THEN start ELSE Served(m, s, g[j - 1], j)
    <3>1. CASE j <= l
      <4>1. j \in 0..l
        BY <3>1
      <4>2. f[j] = IF j = 0 THEN start ELSE Served(m, s, f[j - 1], j)
        BY <2>1, <4>1
      <4>3. g[j] = f[j] /\ (j # 0 => g[j - 1] = f[j - 1])
        BY <4>1
      <4> QED BY <4>2, <4>3
    <3>2. CASE ~(j <= l)
      <4>1. j = l + 1 /\ j - 1 = l
        BY <3>2
      <4>2. g[j] = Served(m, s, f[l], l + 1) /\ g[l] = f[l]
        BY <4>1
      <4> QED BY <4>1, <4>2
    <3> QED BY <3>1, <3>2
  <2>3. g = [j \in 0..(l + 1) |-> g[j]]
    OBVIOUS
  <2> HIDE DEF g
  <2>4. IsRun(g, l + 1)
    BY <2>2, <2>3
  <2> HIDE DEF IsRun
  <2> QED BY <2>4
<1>3. Len(s) \in T
  <2> HIDE DEF T
  <2> QED BY <1>1, <1>2, SetInduction
<1>4. \E f : IsRun(f, Len(s))
  BY <1>3
<1>5. Optimal(m, s) = CHOOSE f : IsRun(f, Len(s))
  BY DEF Optimal
<1>6. IsRun(Optimal(m, s), Len(s))
  <2> HIDE DEF IsRun
  <2> QED BY <1>4, <1>5
<1> DEFINE o == Optimal(m, s)
<1> HIDE DEF o
<1>7. o = [j \in 0..Len(s) |-> IF j = 0 THEN start ELSE Served(m, s, o[j - 1], j)]
  BY <1>6 DEF o
<1>8. Len(s) \in Nat
  OBVIOUS
<1>9. o[0] = start /\ \A j \in 1..Len(s) : o[j] = Served(m, s, o[j - 1], j)
  <2>1. ASSUME NEW j \in 0..Len(s)
        PROVE  o[j] = IF j = 0 THEN start ELSE Served(m, s, o[j - 1], j)
    <3> DEFINE F(k) == IF k = 0 THEN start ELSE Served(m, s, o[k - 1], k)
    <3>1. o = [k \in 0..Len(s) |-> F(k)]
      BY <1>7
    <3> HIDE DEF F
    <3>2. o[j] = F(j)
      BY <3>1
    <3> QED BY <3>2 DEF F
  <2> QED BY <2>1, <1>8
<1> QED BY <1>9 DEF o

-------------------------------------------------------------------------------
(* Why nothing beats the optimum: for every distance, a policy's lead in   *)
(* pages used again within that distance is paid for in faults.            *)

\* The pages of R used again within d, seen after access j.
DueBy(s, R, j, d) == {x \in R : NextUse(s, x, j) <= d}

\* What an access to x does to the pages held and the faults of any demand paging policy.
Serves(m, R, R2, x, F, F2) ==
  \/ x \in R /\ R2 = R /\ F2 = F
  \/ /\ x \notin R /\ Cardinality(R) < m
     /\ R2 = R \cup {x} /\ F2 = F + 1
  \/ /\ x \notin R /\ Cardinality(R) = m
     /\ \E v \in R : R2 = (R \ {v}) \cup {x}
     /\ F2 = F + 1

\* The account of a policy with m frames that holds R after F faults on the first j
\* accesses of s.
Tally(m, s, j, R, F) ==
  /\ IsFiniteSet(R) /\ Cardinality(R) <= m /\ R \subseteq PagesIn(s, 1, j)
  /\ F \in 0..j
  /\ Cardinality(PagesIn(s, 1, j)) <= m => R = PagesIn(s, 1, j) /\ F = Cardinality(R)
  /\ \A d \in j..Len(s) :
       Optimal(m, s)[j].faults + Cardinality(DueBy(s, R, j, d))
         <= F + Cardinality(DueBy(s, Optimal(m, s)[j].resident, j, d))

LEMMA PagesInGrow ==
  ASSUME NEW S, NEW s \in Seq(S), NEW j \in 1..Len(s)
  PROVE  PagesIn(s, 1, j) = PagesIn(s, 1, j - 1) \cup {s[j]}
<1>1. 1..j = (1..(j - 1)) \cup {j}
  OBVIOUS
<1> QED BY <1>1 DEF PagesIn

LEMMA PagesInFinite ==
  ASSUME NEW s, NEW j \in Int, NEW k \in Int
  PROVE  IsFiniteSet(PagesIn(s, j, k)) /\ Cardinality(PagesIn(s, j, k)) \in Nat
<1>1. IsFiniteSet(j..k)
  BY FS_Interval
<1> DEFINE f == [l \in j..k |-> s[l]]
<1>2. f \in Surjection(j..k, PagesIn(s, j, k))
  BY DEF Surjection, PagesIn
<1>3. IsFiniteSet(PagesIn(s, j, k))
  BY <1>1, <1>2, FS_Surjection
<1> QED BY <1>3, FS_CardinalityType

\* A fault of the optimum, at access j.
ServesBest(m, s, j, R, R2, F, F2) ==
  \/ /\ s[j] \notin R /\ Cardinality(R) < m
     /\ R2 = R \cup {s[j]} /\ F2 = F + 1
  \/ /\ s[j] \notin R /\ Cardinality(R) = m
     /\ \E w \in R : /\ R2 = (R \ {w}) \cup {s[j]}
                     /\ \A y \in R : NextUse(s, y, j) <= NextUse(s, w, j)
     /\ F2 = F + 1

\* The optimum is itself demand paging; on a fault on full frames it evicts a page no
\* other page held is used after.
LEMMA OptimumServes ==
  ASSUME NEW m \in Nat \ {0}, NEW S, NEW s \in Seq(S), NEW j \in 1..Len(s), NEW o, NEW o2,
         o = Optimal(m, s)[j - 1], o2 = Optimal(m, s)[j],
         IsFiniteSet(o.resident), Cardinality(o.resident) <= m
  PROVE  \/ s[j] \in o.resident /\ o2 = o
         \/ ServesBest(m, s, j, o.resident, o2.resident, o.faults, o2.faults)
<1> DEFINE R == o.resident
<1>1. Cardinality(R) \in Nat
  BY FS_CardinalityType
<1>2. o2 = Served(m, s, o, j)
  BY OptimalIs
<1>3. CASE s[j] \in R
  BY <1>2, <1>3 DEF Served
<1>4. CASE s[j] \notin R /\ Cardinality(R) < m
  BY <1>2, <1>4 DEF Served, ServesBest
<1>5. CASE s[j] \notin R /\ ~(Cardinality(R) < m)
  <2>1. Cardinality(R) = m
    BY <1>1, <1>5
  <2>2. R # {}
    BY <1>1, <2>1, FS_EmptySet
  <2>3. j \in 0..Len(s)
    OBVIOUS
  <2> DEFINE w == Furthest(s, R, j)
  <2>4. w \in R /\ \A y \in R : NextUse(s, y, j) <= NextUse(s, w, j)
    BY <2>2, <2>3, FurthestType
  <2>5. o2 = [resident |-> {s[j]} \cup (R \ {w}), faults |-> o.faults + 1]
    BY <1>2, <1>5 DEF Served
  <2> HIDE DEF w
  <2>6. o2.resident = (R \ {w}) \cup {s[j]} /\ o2.faults = o.faults + 1
    BY <2>5
  <2> QED BY <1>5, <2>1, <2>4, <2>6 DEF ServesBest
<1> QED BY <1>3, <1>4, <1>5

\* What serving an access leaves of finite sets of at most m pages.
LEMMA ServesType ==
  ASSUME NEW m \in Nat \ {0}, NEW R, NEW R2, NEW x, NEW F, NEW F2,
         IsFiniteSet(R), Cardinality(R) <= m, Serves(m, R, R2, x, F, F2)
  PROVE  /\ IsFiniteSet(R2) /\ Cardinality(R2) <= m /\ Cardinality(R2) \in Nat
         /\ x \in R2 /\ R2 \ {x} \subseteq R \ {x}
         /\ (x \in R => F2 = F) /\ (x \notin R => F2 = F + 1)
<1>1. Cardinality(R) \in Nat
  BY FS_CardinalityType
<1>2. CASE x \in R /\ R2 = R /\ F2 = F
  BY <1>1, <1>2
<1>3. CASE x \notin R /\ Cardinality(R) < m /\ R2 = R \cup {x} /\ F2 = F + 1
  <2>1. IsFiniteSet(R2) /\ Cardinality(R2) = Cardinality(R) + 1
    BY <1>3, FS_AddElement
  <2> QED BY <1>1, <1>3, <2>1
<1>4. ASSUME x \notin R, Cardinality(R) = m, NEW v \in R, R2 = (R \ {v}) \cup {x}, F2 = F + 1
      PROVE  /\ IsFiniteSet(R2) /\ Cardinality(R2) <= m /\ Cardinality(R2) \in Nat
             /\ x \in R2 /\ R2 \ {x} \subseteq R \ {x}
             /\ (x \in R => F2 = F) /\ (x \notin R => F2 = F + 1)
  <2>1. IsFiniteSet(R \ {v}) /\ Cardinality(R \ {v}) = Cardinality(R) - 1
    BY FS_RemoveElement
  <2>2. IsFiniteSet(R2) /\ Cardinality(R2) = Cardinality(R \ {v}) + 1
    BY <1>4, <2>1, FS_AddElement
  <2> QED BY <1>1, <1>4, <2>1, <2>2
<1> QED BY <1>2, <1>3, <1>4 DEF Serves

LEMMA OptimalType ==
  ASSUME NEW m \in Nat \ {0}, NEW S, NEW s \in Seq(S), NEW j \in 0..Len(s)
  PROVE  /\ IsFiniteSet(Optimal(m, s)[j].resident)
         /\ Cardinality(Optimal(m, s)[j].resident) <= m
         /\ Optimal(m, s)[j].faults \in Nat
<1> DEFINE Good(o) == IsFiniteSet(o.resident) /\ Cardinality(o.resident) <= m /\ o.faults \in Nat
           T == {k \in Nat : k <= Len(s) => Good(Optimal(m, s)[k])}
<1>1. 0 \in T
  <2>1. Optimal(m, s)[0].resident = {} /\ Optimal(m, s)[0].faults = 0
    BY OptimalIs
  <2>2. Good(Optimal(m, s)[0])
    BY <2>1, FS_EmptySet
  <2> HIDE DEF Good
  <2> QED BY <2>2
<1>2. ASSUME NEW k \in Nat, k \in T PROVE k + 1 \in T
  <2> SUFFICES ASSUME k + 1 <= Len(s) PROVE Good(Optimal(m, s)[k + 1])
    OBVIOUS
  <2>1. PICK l \in 1..Len(s) : l = k + 1 /\ l - 1 = k
    OBVIOUS
  <2>2. PICK o, o2 : o = Optimal(m, s)[l - 1] /\ o2 = Optimal(m, s)[l] /\ Good(o)
    BY <1>2, <2>1
  <2>3. o2 = o \/ Serves(m, o.resident, o2.resident, s[l], o.faults, o2.faults)
    <3>1. IsFiniteSet(o.resident) /\ Cardinality(o.resident) <= m
      BY <2>2
    <3>2. \/ s[l] \in o.resident /\ o2 = o
          \/ ServesBest(m, s, l, o.resident, o2.resident, o.faults, o2.faults)
      BY <2>2, <3>1, OptimumServes
    <3> QED BY <3>2 DEF Serves, ServesBest
  <2>4. CASE Serves(m, o.resident, o2.resident, s[l], o.faults, o2.faults)
    <3> DEFINE R == o.resident
               R2 == o2.resident
               F == o.faults
               F2 == o2.faults
    <3>1. IsFiniteSet(R) /\ Cardinality(R) <= m /\ F \in Nat /\ Serves(m, R, R2, s[l], F, F2)
      BY <2>2, <2>4
    <3> HIDE DEF R, R2, F, F2
    <3>2. IsFiniteSet(R2) /\ Cardinality(R2) <= m /\ (F2 = F \/ F2 = F + 1)
      BY <3>1, ServesType
    <3>3. F2 \in Nat
      BY <3>1, <3>2
    <3> QED BY <2>1, <2>2, <3>2, <3>3 DEF R2, F2
  <2> QED BY <2>1, <2>2, <2>3, <2>4
<1>3. \A k \in Nat : k \in T
  <2> HIDE DEF T
  <2> QED BY <1>1, <1>2, SetInduction
<1> QED BY <1>3

\* The pages of R used again soon, but for the page of access j.
LEMMA DueStep ==
  ASSUME NEW S, NEW s \in Seq(S), NEW R, IsFiniteSet(R), NEW j \in 1..Len(s), NEW d \in j..Len(s)
  PROVE  LET rest == DueBy(s, R \ {s[j]}, j - 1, d) IN
         /\ IsFiniteSet(rest) /\ Cardinality(rest) \in Nat
         /\ rest \subseteq R \ {s[j]}
         /\ s[j] \in R => Cardinality(DueBy(s, R, j - 1, d)) = Cardinality(rest) + 1
         /\ s[j] \notin R => Cardinality(DueBy(s, R, j - 1, d)) = Cardinality(rest)
         /\ s[j] \in R =>
              Cardinality(DueBy(s, R, j, d)) =
                Cardinality(rest) + (IF NextUse(s, s[j], j) <= d THEN 1 ELSE 0)
<1> DEFINE x == s[j]
           rest == DueBy(s, R \ {x}, j - 1, d)
<1>0. j - 1 \in 0..Len(s) /\ j \in 0..Len(s) /\ d \in Nat /\ j <= d
  OBVIOUS
<1>1. IsFiniteSet(rest) /\ Cardinality(rest) \in Nat /\ rest \subseteq R \ {x}
  <2>1. rest \subseteq R
    BY DEF DueBy
  <2> QED BY <2>1, FS_Subset, FS_CardinalityType DEF DueBy
<1>2. NextUse(s, x, j - 1) = j /\ \A y : y # x => NextUse(s, y, j) = NextUse(s, y, j - 1)
  BY NextUseStep
<1>3. x \in R => DueBy(s, R, j - 1, d) = rest \cup {x}
  BY <1>0, <1>2 DEF DueBy
<1>4. x \notin R => DueBy(s, R, j - 1, d) = rest
  BY DEF DueBy
<1>7. Cardinality(rest \cup {x}) = Cardinality(rest) + 1
  BY <1>1, FS_AddElement
<1> HIDE DEF rest
<1>5. CASE NextUse(s, x, j) <= d
  <2>1. x \in R => DueBy(s, R, j, d) = rest \cup {x}
    BY <1>2, <1>5 DEF DueBy, rest
  <2> QED BY <1>1, <1>3, <1>4, <1>5, <1>7, <2>1 DEF rest
<1>6. CASE ~(NextUse(s, x, j) <= d)
  <2>1. DueBy(s, R, j, d) = rest
    BY <1>2, <1>6 DEF DueBy, rest
  <2>2. Cardinality(rest) + 0 = Cardinality(rest)
    BY <1>1
  <2> QED BY <1>1, <1>3, <1>4, <1>6, <1>7, <2>1, <2>2 DEF rest
<1> QED BY <1>5, <1>6

\* Only the page of access j is due at access j.
LEMMA DueNow ==
  ASSUME NEW S, NEW s \in Seq(S), NEW R, NEW j \in 1..Len(s)
  PROVE  Cardinality(DueBy(s, R, j - 1, j)) = IF s[j] \in R THEN 1 ELSE 0
<1>0. j - 1 \in 0..Len(s)
  OBVIOUS
<1>1. \A y : NextUse(s, y, j - 1) <= j <=> y = s[j]
  <2> SUFFICES ASSUME NEW y PROVE NextUse(s, y, j - 1) <= j <=> y = s[j]
    OBVIOUS
  <2>1. /\ NextUse(s, y, j - 1) \in ((j - 1) + 1)..(Len(s) + 1)
        /\ NextUse(s, y, j - 1) <= Len(s) => s[NextUse(s, y, j - 1)] = y
    BY <1>0, NextUseType
  <2>2. y = s[j] => NextUse(s, y, j - 1) = j
    BY NextUseStep
  <2> DEFINE k == NextUse(s, y, j - 1)
  <2>3. k \in j..(Len(s) + 1) /\ (k <= Len(s) => s[k] = y) /\ (y = s[j] => k = j)
    BY <2>1, <2>2
  <2> HIDE DEF k
  <2>4. k <= j <=> y = s[j]
    BY <2>3
  <2> QED BY <2>4 DEF k
<1>2. DueBy(s, R, j - 1, j) = R \cap {s[j]}
  <2>1. DueBy(s, R, j - 1, j) = {y \in R : NextUse(s, y, j - 1) <= j}
    BY DEF DueBy
  <2>2. {y \in R : NextUse(s, y, j - 1) <= j} = {y \in R : y = s[j]}
    BY <1>1, Zenon
  <2> QED BY <2>1, <2>2
<1>3. CASE s[j] \in R
  <2>1. DueBy(s, R, j - 1, j) = {s[j]}
    BY <1>2, <1>3
  <2>2. Cardinality({s[j]}) = 1
    BY FS_Singleton
  <2> QED BY <1>3, <2>1, <2>2
<1>4. CASE s[j] \notin R
  <2>1. DueBy(s, R, j - 1, j) = {}
    BY <1>2, <1>4
  <2> QED BY <1>4, <2>1, FS_EmptySet
<1> QED BY <1>3, <1>4

\* A fault of the optimum costs it no page due soon, or leaves it with m - 1 of them.
LEMMA OptimumKeepsDue ==
  ASSUME NEW m \in Nat \ {0}, NEW S, NEW s \in Seq(S), NEW j \in 1..Len(s), NEW d \in j..Len(s),
         NEW R, NEW R2, NEW F, NEW F2, IsFiniteSet(R),
         ServesBest(m, s, j, R, R2, F, F2)
  PROVE  \/ DueBy(s, R2 \ {s[j]}, j - 1, d) = DueBy(s, R \ {s[j]}, j - 1, d)
         \/ Cardinality(DueBy(s, R2 \ {s[j]}, j - 1, d)) = m - 1
<1> DEFINE x == s[j]
<1>1. CASE x \notin R /\ R2 = R \cup {x}
  BY <1>1
<1>2. ASSUME x \notin R, Cardinality(R) = m, NEW w \in R, R2 = (R \ {w}) \cup {x},
             \A y \in R : NextUse(s, y, j) <= NextUse(s, w, j)
      PROVE  \/ DueBy(s, R2 \ {x}, j - 1, d) = DueBy(s, R \ {x}, j - 1, d)
             \/ Cardinality(DueBy(s, R2 \ {x}, j - 1, d)) = m - 1
  <2>1. R \ {x} = R /\ R2 \ {x} = R \ {w}
    BY <1>2
  <2>2. \A y \in R : NextUse(s, y, j) = NextUse(s, y, j - 1)
    BY <1>2, NextUseStep
  <2>3. CASE ~(NextUse(s, w, j - 1) <= d)
    BY <2>1, <2>3 DEF DueBy
  <2>4. CASE NextUse(s, w, j - 1) <= d
    <3>1. \A y \in R : NextUse(s, y, j - 1) <= NextUse(s, w, j - 1)
      BY <1>2, <2>2
    <3>2. \A y \in R : NextUse(s, y, j - 1) <= d
      <4> SUFFICES ASSUME NEW y \in R PROVE NextUse(s, y, j - 1) <= d
        OBVIOUS
      <4>1. j - 1 \in 0..Len(s)
        OBVIOUS
      <4>2. NextUse(s, y, j - 1) \in Int /\ NextUse(s, w, j - 1) \in Int
        BY <4>1, NextUseType
      <4> QED BY <2>4, <3>1, <4>2
    <3>3. DueBy(s, R \ {w}, j - 1, d) = R \ {w}
      BY <3>2 DEF DueBy
    <3>4. Cardinality(R \ {w}) = m - 1
      BY <1>2, FS_RemoveElement
    <3> QED BY <2>1, <3>3, <3>4
  <2> QED BY <2>3, <2>4
<1> QED BY <1>1, <1>2 DEF ServesBest

\* The account is kept by every access.
LEMMA TallyStep ==
  ASSUME NEW m \in Nat \ {0}, NEW S, NEW s \in Seq(S), NEW j \in 1..Len(s),
         NEW R, NEW R2, NEW F, NEW F2,
         Tally(m, s, j - 1, R, F), Serves(m, R, R2, s[j], F, F2)
  PROVE  Tally(m, s, j, R2, F2)
<1> DEFINE x == s[j]
           O == Optimal(m, s)[j - 1].resident
           O2 == Optimal(m, s)[j].resident
           OF == Optimal(m, s)[j - 1].faults
           OF2 == Optimal(m, s)[j].faults
<1>0. j - 1 \in 0..Len(s) /\ j \in 0..Len(s) /\ Len(s) \in Nat
  OBVIOUS
<1>1. /\ IsFiniteSet(R) /\ Cardinality(R) <= m /\ Cardinality(R) \in Nat
      /\ R \subseteq PagesIn(s, 1, j - 1) /\ F \in 0..(j - 1) /\ F \in Nat
  BY FS_CardinalityType DEF Tally
<1>2. /\ IsFiniteSet(R2) /\ Cardinality(R2) <= m /\ Cardinality(R2) \in Nat
      /\ x \in R2 /\ R2 \ {x} \subseteq R \ {x}
      /\ (x \in R => F2 = F) /\ (x \notin R => F2 = F + 1)
  BY <1>1, ServesType
<1>3. PagesIn(s, 1, j) = PagesIn(s, 1, j - 1) \cup {x}
  BY PagesInGrow
<1>4. R2 \subseteq PagesIn(s, 1, j)
  BY <1>1, <1>2, <1>3
<1>5. F2 \in 0..j
  BY <1>1, <1>2
<1>6. ASSUME Cardinality(PagesIn(s, 1, j)) <= m
      PROVE  R2 = PagesIn(s, 1, j) /\ F2 = Cardinality(R2)
  <2> DEFINE P == PagesIn(s, 1, j - 1)
  <2>1. IsFiniteSet(P) /\ Cardinality(P) \in Nat
    BY PagesInFinite
  <2>2. x \notin P => Cardinality(P \cup {x}) = Cardinality(P) + 1
    BY <2>1, FS_AddElement
  <2>3. Cardinality(P) <= m /\ (x \notin P => Cardinality(P) < m)
    <3>1. CASE x \in P
      <4>1. PagesIn(s, 1, j) = P
        BY <1>3, <3>1
      <4> QED BY <1>6, <3>1, <4>1
    <3>2. CASE x \notin P
      <4>1. Cardinality(P) + 1 <= m
        BY <1>3, <1>6, <2>2, <3>2
      <4> QED BY <2>1, <3>2, <4>1
    <3> QED BY <3>1, <3>2
  <2>4. R = P /\ F = Cardinality(R)
    BY <2>3 DEF Tally
  <2> HIDE DEF P
  <2>5. \/ x \in R /\ R2 = R /\ F2 = F
        \/ x \notin R /\ R2 = R \cup {x} /\ F2 = F + 1
    <3>1. x \notin R => Cardinality(R) # m
      BY <1>1, <2>3, <2>4
    <3> QED BY <3>1 DEF Serves
  <2> QED BY <1>3, <2>2, <2>4, <2>5 DEF P
<1>7. /\ IsFiniteSet(O) /\ Cardinality(O) <= m /\ Cardinality(O) \in Nat /\ OF \in Nat
      /\ IsFiniteSet(O2) /\ Cardinality(O2) \in Nat /\ OF2 \in Nat
  BY <1>0, OptimalType, FS_CardinalityType
<1>8. \/ x \in O /\ O2 = O /\ OF2 = OF
      \/ ServesBest(m, s, j, O, O2, OF, OF2)
  <2> DEFINE o == Optimal(m, s)[j - 1]
             o2 == Optimal(m, s)[j]
  <2>1. IsFiniteSet(o.resident) /\ Cardinality(o.resident) <= m
    BY <1>7
  <2>2. \/ s[j] \in o.resident /\ o2 = o
        \/ ServesBest(m, s, j, o.resident, o2.resident, o.faults, o2.faults)
    BY <2>1, OptimumServes
  <2> QED BY <2>2
<1>9. x \in O2 /\ (x \in O => OF2 = OF) /\ (x \notin O => OF2 = OF + 1)
  BY <1>8 DEF ServesBest
<1>10. ASSUME NEW d \in (j - 1)..Len(s)
       PROVE  OF + Cardinality(DueBy(s, R, j - 1, d)) <= F + Cardinality(DueBy(s, O, j - 1, d))
  BY DEF Tally
<1> HIDE DEF O, O2, OF, OF2
<1>11. (IF x \in R THEN 1 ELSE 0) + OF <= F + (IF x \in O THEN 1 ELSE 0)
  <2>1. j \in (j - 1)..Len(s)
    BY <1>0
  <2>2. OF + Cardinality(DueBy(s, R, j - 1, j)) <= F + Cardinality(DueBy(s, O, j - 1, j))
    BY <1>10, <2>1
  <2>3. Cardinality(DueBy(s, R, j - 1, j)) = IF x \in R THEN 1 ELSE 0
    BY DueNow
  <2>4. Cardinality(DueBy(s, O, j - 1, j)) = IF x \in O THEN 1 ELSE 0
    BY DueNow
  <2> QED BY <1>1, <1>7, <2>2, <2>3, <2>4
<1>12. ASSUME NEW d \in j..Len(s)
       PROVE  OF2 + Cardinality(DueBy(s, R2, j, d)) <= F2 + Cardinality(DueBy(s, O2, j, d))
  <2> DEFINE A == DueBy(s, R \ {x}, j - 1, d)
             A2 == DueBy(s, R2 \ {x}, j - 1, d)
             B == DueBy(s, O \ {x}, j - 1, d)
             B2 == DueBy(s, O2 \ {x}, j - 1, d)
             due == IF NextUse(s, x, j) <= d THEN 1 ELSE 0
  <2>0. ASSUME NEW Q, IsFiniteSet(Q)
        PROVE  LET rest == DueBy(s, Q \ {x}, j - 1, d) IN
               /\ IsFiniteSet(rest) /\ Cardinality(rest) \in Nat /\ rest \subseteq Q \ {x}
               /\ x \in Q => Cardinality(DueBy(s, Q, j - 1, d)) = Cardinality(rest) + 1
               /\ x \notin Q => Cardinality(DueBy(s, Q, j - 1, d)) = Cardinality(rest)
               /\ x \in Q => Cardinality(DueBy(s, Q, j, d)) = Cardinality(rest) + due
    BY <2>0, DueStep, SMTT(30)
  <2> HIDE DEF due
  <2>1. /\ IsFiniteSet(A) /\ Cardinality(A) \in Nat
        /\ x \in R => Cardinality(DueBy(s, R, j - 1, d)) = Cardinality(A) + 1
        /\ x \notin R => Cardinality(DueBy(s, R, j - 1, d)) = Cardinality(A)
    BY <1>1, <2>0
  <2>2. /\ Cardinality(B) \in Nat
        /\ x \in O => Cardinality(DueBy(s, O, j - 1, d)) = Cardinality(B) + 1
        /\ x \notin O => Cardinality(DueBy(s, O, j - 1, d)) = Cardinality(B)
    BY <1>7, <2>0
  <2>3. /\ IsFiniteSet(A2) /\ Cardinality(A2) \in Nat /\ A2 \subseteq R2 \ {x}
        /\ Cardinality(DueBy(s, R2, j, d)) = Cardinality(A2) + due
    BY <1>2, <2>0
  <2>4. /\ Cardinality(B2) \in Nat
        /\ Cardinality(DueBy(s, O2, j, d)) = Cardinality(B2) + due
    BY <1>7, <1>9, <2>0
  <2>5. due \in {0, 1}
    BY DEF due
  <2>6. B2 = B \/ (x \notin O /\ Cardinality(B2) = m - 1)
    <3>1. x \notin O => B2 = B \/ Cardinality(B2) = m - 1
      <4>1. x \notin O => ServesBest(m, s, j, O, O2, OF, OF2)
        BY <1>8 DEF O, O2, OF, OF2
      <4> QED BY <1>7, <4>1, OptimumKeepsDue
    <3>2. x \in O => O2 = O
      BY <1>8 DEF ServesBest, O, O2, OF, OF2
    <3> QED BY <3>1, <3>2
  <2>7. Cardinality(A2) <= Cardinality(A)
    <3>1. A2 \subseteq A
      BY <1>2 DEF DueBy
    <3> QED BY <2>1, <3>1, FS_Subset
  <2>8. Cardinality(A2) <= m - 1
    <3>1. IsFiniteSet(R2 \ {x}) /\ Cardinality(R2 \ {x}) = Cardinality(R2) - 1
      BY <1>2, FS_RemoveElement
    <3>2. Cardinality(A2) <= Cardinality(R2 \ {x})
      BY <2>3, <3>1, FS_Subset
    <3> QED BY <1>2, <2>3, <3>1, <3>2
  <2>9. d \in (j - 1)..Len(s)
    BY <1>0
  <2>10. OF + Cardinality(DueBy(s, R, j - 1, d)) <= F + Cardinality(DueBy(s, O, j - 1, d))
    BY <1>10, <2>9
  <2> HIDE DEF A, A2, B, B2
  <2> DEFINE ca == Cardinality(A)
             ca2 == Cardinality(A2)
             cb == Cardinality(B)
             cb2 == Cardinality(B2)
  <2>11. ca \in Nat /\ ca2 \in Nat /\ cb \in Nat /\ cb2 \in Nat /\ ca2 <= ca /\ ca2 <= m - 1
    BY <2>1, <2>2, <2>3, <2>4, <2>7, <2>8
  <2>12. /\ x \in R => /\ OF + (ca + 1) <= F + (IF x \in O THEN cb + 1 ELSE cb)
                       /\ F2 = F /\ OF + 1 <= F + (IF x \in O THEN 1 ELSE 0)
         /\ x \notin R => /\ OF + ca <= F + (IF x \in O THEN cb + 1 ELSE cb)
                          /\ F2 = F + 1 /\ OF <= F + (IF x \in O THEN 1 ELSE 0)
    <3> DEFINE dr == Cardinality(DueBy(s, R, j - 1, d))
               do == Cardinality(DueBy(s, O, j - 1, d))
    <3>1. dr = IF x \in R THEN ca + 1 ELSE ca
      BY <2>1
    <3>2. do = IF x \in O THEN cb + 1 ELSE cb
      BY <2>2
    <3>3. OF + dr <= F + do
      BY <2>10
    <3> HIDE DEF dr, do, ca, cb
    <3>4. x \in R => OF + (ca + 1) <= F + (IF x \in O THEN cb + 1 ELSE cb)
      BY <3>1, <3>2, <3>3
    <3>5. x \notin R => OF + ca <= F + (IF x \in O THEN cb + 1 ELSE cb)
      BY <3>1, <3>2, <3>3
    <3>6. x \in R => OF + 1 <= F + (IF x \in O THEN 1 ELSE 0)
      BY <1>7, <1>11
    <3>7. x \notin R => OF <= F + (IF x \in O THEN 1 ELSE 0)
      BY <1>7, <1>11
    <3> QED BY <1>2, <3>4, <3>5, <3>6, <3>7
  <2>13. cb2 = cb \/ (x \notin O /\ cb2 = m - 1)
    BY <2>6
  <2> HIDE DEF ca, ca2, cb, cb2
  <2>14. OF2 + (ca2 + due) <= F2 + (cb2 + due)
    <3>1. OF2 + ca2 <= F2 + cb2
      BY <1>1, <1>7, <1>9, <2>11, <2>12, <2>13
    <3>2. F2 \in Nat
      BY <1>1, <1>2
    <3> QED BY <1>7, <2>5, <2>11, <3>1, <3>2 DEF due
  <2> QED BY <2>3, <2>4, <2>14 DEF ca2, cb2
<1> QED BY <1>2, <1>4, <1>5, <1>6, <1>12 DEF Tally, O2, OF2

LEMMA TallyStart ==
  ASSUME NEW m \in Nat \ {0}, NEW S, NEW s \in Seq(S)
  PROVE  Tally(m, s, 0, {}, 0)
<1>0. Optimal(m, s)[0] = [resident |-> {}, faults |-> 0]
  BY OptimalIs
<1>1. Optimal(m, s)[0].resident = {} /\ Optimal(m, s)[0].faults = 0
  BY <1>0
<1>2. PagesIn(s, 1, 0) = {} /\ IsFiniteSet({}) /\ Cardinality({}) = 0
  BY FS_EmptySet DEF PagesIn
<1>3. \A d : DueBy(s, {}, 0, d) = {}
  BY DEF DueBy
<1>4. \A d \in 0..Len(s) :
        Optimal(m, s)[0].faults + Cardinality(DueBy(s, {}, 0, d))
          <= 0 + Cardinality(DueBy(s, Optimal(m, s)[0].resident, 0, d))
  <2> SUFFICES ASSUME NEW d \in 0..Len(s)
               PROVE  0 + Cardinality(DueBy(s, {}, 0, d)) <= 0 + Cardinality(DueBy(s, {}, 0, d))
    BY <1>1
  <2>1. Cardinality(DueBy(s, {}, 0, d)) = 0
    BY <1>2, <1>3
  <2> QED BY <2>1
<1>5. 0 \in 0..0 /\ 0 <= m /\ {} \subseteq PagesIn(s, 1, 0)
  OBVIOUS
<1> QED BY <1>2, <1>4, <1>5 DEF Tally

\* At the end nothing is used again.
LEMMA TallyEnd ==
  ASSUME NEW m \in Nat \ {0}, NEW S, NEW s \in Seq(S), NEW R, NEW F,
         Tally(m, s, Len(s), R, F)
  PROVE  /\ F >= Optimal(m, s)[Len(s)].faults /\ F <= Len(s)
         /\ Cardinality(PagesIn(s, 1, Len(s))) <= m => F = Cardinality(PagesIn(s, 1, Len(s)))
<1>0. Len(s) \in Nat /\ Len(s) \in 0..Len(s) /\ Len(s) \in Len(s)..Len(s)
  OBVIOUS
<1>1. \A x : NextUse(s, x, Len(s)) = Len(s) + 1
  BY <1>0, NextUseType
<1>2. \A T : DueBy(s, T, Len(s), Len(s)) = {}
  <2>1. ~(Len(s) + 1 <= Len(s))
    BY <1>0
  <2> QED BY <1>1, <2>1 DEF DueBy
<1> DEFINE O == Optimal(m, s)[Len(s)]
<1>3. O.faults \in Nat
  BY <1>0, OptimalType
<1>4. O.faults + Cardinality(DueBy(s, R, Len(s), Len(s)))
        <= F + Cardinality(DueBy(s, O.resident, Len(s), Len(s)))
  BY <1>0 DEF Tally
<1>5. F \in 0..Len(s)
  BY DEF Tally
<1> HIDE DEF O
<1>6. O.faults + 0 <= F + 0
  BY <1>2, <1>4, FS_EmptySet
<1>7. F >= O.faults /\ F <= Len(s)
  BY <1>0, <1>3, <1>5, <1>6
<1> QED BY <1>7 DEF Tally, O

-------------------------------------------------------------------------------
(* Lists of accesses: LRU and stack distances.                             *)

\* r lists the pages of the first j accesses of s, last used first: the pages before
\* one on the list are those used since its last use.
Recent(s, j, r) ==
  /\ Members(r) = PagesIn(s, 1, j) /\ Distinct(r)
  /\ \A q \in DOMAIN r : \A k \in 1..j :
       s[k] = r[q] /\ r[q] \notin PagesIn(s, k + 1, j) =>
         PagesIn(s, k + 1, j) = PagesIn(r, 1, q - 1)

LEMMA RecentStart ==
  ASSUME NEW s
  PROVE  Recent(s, 0, <<>>)
BY DEF Recent, Members, Distinct, PagesIn

\* The pages before page q on the list, after x was used.
LEMMA UsedBefore ==
  ASSUME NEW S, NEW r \in Seq(S), NEW x \in S, Distinct(r), NEW q \in 2..Len(Used(r, x))
  PROVE  \E q2 \in DOMAIN r :
           /\ Used(r, x)[q] = r[q2] /\ Used(r, x)[q] # x
           /\ PagesIn(Used(r, x), 1, q - 1) = PagesIn(r, 1, q2 - 1) \cup {x}
<1> DEFINE u == Used(r, x)
<1> SUFFICES \E q2 \in DOMAIN r :
               /\ u[q] = r[q2] /\ u[q] # x
               /\ PagesIn(u, 1, q - 1) = PagesIn(r, 1, q2 - 1) \cup {x}
  OBVIOUS
<1>0. q \in 2..Len(u)
  OBVIOUS
<1> DEFINE Old == x \in Members(r)
           k == Position(r, x)
<1>1. /\ u \in Seq(S) /\ Distinct(u) /\ u[1] = x /\ Len(u) >= 1
      /\ \A j \in 2..Len(u) : u[j] = IF Old /\ k < j THEN r[j] ELSE r[j - 1]
      /\ Len(u) = IF Old THEN Len(r) ELSE Len(r) + 1
  <2>1. /\ Used(r, x) \in Seq(S) /\ Distinct(Used(r, x))
        /\ Members(Used(r, x)) = Members(r) \cup {x}
        /\ Used(r, x)[1] = x /\ Len(Used(r, x)) >= 1
        /\ \A j \in 2..Len(Used(r, x)) :
             Used(r, x)[j] = IF x \in Members(r) /\ Position(r, x) < j THEN r[j] ELSE r[j - 1]
        /\ Len(Used(r, x)) = IF x \in Members(r) THEN Len(r) ELSE Len(r) + 1
    BY UsedPlaces
  <2> QED BY <2>1
<1> HIDE DEF u
<1>2. Old => k \in 1..Len(r) /\ r[k] = x
  BY PositionType
<1> HIDE DEF Old, k
<1>3. /\ Len(r) \in Nat /\ Len(u) \in Nat /\ DOMAIN u = 1..Len(u) /\ DOMAIN r = 1..Len(r)
      /\ q \in Nat /\ q \in 2..Len(u)
  BY <1>0, <1>1
<1>4. u[q] # x
  BY <1>1, <1>3 DEF Distinct
<1>5. CASE Old /\ k < q
  <2>1. q \in DOMAIN r /\ u[q] = r[q]
    BY <1>1, <1>3, <1>5
  <2>2. \A t \in 1..(q - 1) : u[t] \in PagesIn(r, 1, q - 1)
    <3> SUFFICES ASSUME NEW t \in 1..(q - 1) PROVE \E v \in 1..(q - 1) : u[t] = r[v]
      BY DEF PagesIn
    <3>1. CASE t = 1
      BY <1>1, <1>2, <1>3, <1>5, <3>1
    <3>2. CASE t # 1 /\ k < t
      BY <1>1, <1>3, <1>5, <3>2
    <3>3. CASE t # 1 /\ ~(k < t)
      <4>1. t \in 2..Len(u) /\ t - 1 \in 1..(q - 1)
        BY <1>3, <3>3
      <4>2. u[t] = r[t - 1]
        BY <1>1, <3>3, <4>1
      <4> QED BY <4>1, <4>2
    <3> QED BY <3>1, <3>2, <3>3
  <2>3. \A v \in 1..(q - 1) : r[v] \in PagesIn(u, 1, q - 1)
    <3> SUFFICES ASSUME NEW v \in 1..(q - 1) PROVE \E t \in 1..(q - 1) : r[v] = u[t]
      BY DEF PagesIn
    <3>1. CASE v = k
      BY <1>1, <1>2, <1>3, <1>5, <3>1
    <3>2. CASE k < v
      BY <1>1, <1>2, <1>3, <1>5, <3>2
    <3>3. CASE v < k
      <4>1. v + 1 \in 2..Len(u) /\ v + 1 \in 1..(q - 1) /\ ~(k < v + 1) /\ (v + 1) - 1 = v
        BY <1>2, <1>3, <1>5, <3>3
      <4>2. u[v + 1] = r[v]
        BY <1>1, <4>1
      <4> QED BY <4>1, <4>2
    <3>4. k \in Nat
      BY <1>2, <1>5
    <3> QED BY <3>1, <3>2, <3>3, <3>4
  <2>4. x \in PagesIn(r, 1, q - 1)
    BY <1>2, <1>3, <1>5 DEF PagesIn
  <2>5. PagesIn(u, 1, q - 1) = PagesIn(r, 1, q - 1) \cup {x}
    BY <2>2, <2>3, <2>4 DEF PagesIn
  <2> QED BY <1>4, <2>1, <2>5
<1>6. CASE ~(Old /\ k < q)
  <2>1. q - 1 \in DOMAIN r /\ u[q] = r[q - 1]
    <3>1. q - 1 \in 1..Len(r)
      BY <1>1, <1>3
    <3> QED BY <1>1, <1>3, <1>6, <3>1
  <2>2. \A t \in 2..(q - 1) : u[t] = r[t - 1]
    <3> SUFFICES ASSUME NEW t \in 2..(q - 1) PROVE u[t] = r[t - 1]
      OBVIOUS
    <3>1. t \in 2..Len(u) /\ t < q
      BY <1>3
    <3>2. ~(Old /\ k < t)
      BY <1>2, <1>3, <1>6, <3>1
    <3> QED BY <1>1, <3>1, <3>2
  <2>3. \A t \in 1..(q - 1) : u[t] = x \/ u[t] \in PagesIn(r, 1, (q - 1) - 1)
    <3> SUFFICES ASSUME NEW t \in 1..(q - 1), t # 1 PROVE u[t] \in PagesIn(r, 1, (q - 1) - 1)
      BY <1>1
    <3>1. t - 1 \in 1..((q - 1) - 1) /\ u[t] = r[t - 1]
      BY <1>3, <2>2
    <3> QED BY <3>1 DEF PagesIn
  <2>4. \A v \in 1..((q - 1) - 1) : r[v] \in PagesIn(u, 1, q - 1)
    <3> SUFFICES ASSUME NEW v \in 1..((q - 1) - 1) PROVE \E t \in 1..(q - 1) : r[v] = u[t]
      BY DEF PagesIn
    <3>1. v + 1 \in 2..(q - 1) /\ (v + 1) - 1 = v
      BY <1>3
    <3>2. u[v + 1] = r[v]
      BY <2>2, <3>1
    <3> QED BY <3>1, <3>2
  <2>5. x \in PagesIn(u, 1, q - 1)
    BY <1>1, <1>3 DEF PagesIn
  <2>6. PagesIn(u, 1, q - 1) = PagesIn(r, 1, (q - 1) - 1) \cup {x}
    BY <2>3, <2>4, <2>5 DEF PagesIn
  <2> QED BY <1>4, <2>1, <2>6
<1> QED BY <1>5, <1>6

LEMMA RecentStep ==
  ASSUME NEW S, NEW s \in Seq(S), NEW j \in 1..Len(s), NEW r \in Seq(S), Recent(s, j - 1, r)
  PROVE  Recent(s, j, Used(r, s[j]))
<1> DEFINE x == s[j]
           u == Used(r, x)
<1>1. x \in S /\ Distinct(r) /\ Members(r) = PagesIn(s, 1, j - 1)
  BY DEF Recent
<1>2. /\ u \in Seq(S) /\ Distinct(u) /\ Members(u) = Members(r) \cup {x}
      /\ u[1] = x /\ Len(u) >= 1
  <2>1. u = Used(r, x)
    OBVIOUS
  <2> HIDE DEF x
  <2>2. /\ Used(r, x) \in Seq(S) /\ Distinct(Used(r, x))
        /\ Members(Used(r, x)) = Members(r) \cup {x}
        /\ Used(r, x)[1] = x /\ Len(Used(r, x)) >= 1
    BY <1>1, UsedPlaces
  <2> HIDE DEF u
  <2> QED BY <2>1, <2>2
<1>3. Members(u) = PagesIn(s, 1, j)
  BY <1>1, <1>2, PagesInGrow
<1>4. \A q \in 2..Len(u) : \E q2 \in DOMAIN r :
        /\ u[q] = r[q2] /\ u[q] # x
        /\ PagesIn(u, 1, q - 1) = PagesIn(r, 1, q2 - 1) \cup {x}
  <2> HIDE DEF x
  <2> SUFFICES ASSUME NEW q \in 2..Len(Used(r, x))
               PROVE  \E q2 \in DOMAIN r :
                        /\ Used(r, x)[q] = r[q2] /\ Used(r, x)[q] # x
                        /\ PagesIn(Used(r, x), 1, q - 1) = PagesIn(r, 1, q2 - 1) \cup {x}
    BY DEF u
  <2> QED BY <1>1, UsedBefore
<1> HIDE DEF u
<1>5. ASSUME NEW q \in DOMAIN u, NEW k \in 1..j, s[k] = u[q], u[q] \notin PagesIn(s, k + 1, j)
      PROVE  PagesIn(s, k + 1, j) = PagesIn(u, 1, q - 1)
  <2>1. CASE q = 1
    <3>1. ~(k < j)
      <4> SUFFICES ASSUME k < j PROVE FALSE
        OBVIOUS
      <4>1. j \in (k + 1)..j
        OBVIOUS
      <4>2. s[j] \in PagesIn(s, k + 1, j)
        BY <4>1 DEF PagesIn
      <4> QED BY <1>2, <1>5, <2>1, <4>2
    <3>2. (k + 1)..j = {} /\ 1..(q - 1) = {}
      BY <2>1, <3>1
    <3> QED BY <3>2 DEF PagesIn
  <2>2. CASE q # 1
    <3>1. q \in 2..Len(u)
      BY <1>2, <2>2
    <3>2. PICK q2 \in DOMAIN r :
            /\ u[q] = r[q2] /\ u[q] # x
            /\ PagesIn(u, 1, q - 1) = PagesIn(r, 1, q2 - 1) \cup {x}
      BY <1>4, <3>1
    <3>3. k # j
      BY <1>5, <3>2
    <3>4. k \in 1..(j - 1)
      BY <3>3
    <3>5. PagesIn(s, k + 1, j) = PagesIn(s, k + 1, j - 1) \cup {x}
      <4>1. (k + 1)..j = ((k + 1)..(j - 1)) \cup {j}
        BY <3>4
      <4> QED BY <4>1 DEF PagesIn
    <3>6. s[k] = r[q2] /\ r[q2] \notin PagesIn(s, k + 1, j - 1)
      BY <1>5, <3>2, <3>5
    <3>7. PagesIn(s, k + 1, j - 1) = PagesIn(r, 1, q2 - 1)
      BY <3>4, <3>6 DEF Recent
    <3> QED BY <3>2, <3>5, <3>7
  <2> QED BY <2>1, <2>2
<1>6. Recent(s, j, u)
  BY <1>2, <1>3, <1>5 DEF Recent
<1> QED BY <1>6 DEF u

\* The first q pages of a list of distinct pages are q.
LEMMA BeforeCount ==
  ASSUME NEW S, NEW r \in Seq(S), Distinct(r), NEW q \in 0..Len(r)
  PROVE  Cardinality(PagesIn(r, 1, q)) = q
<1> DEFINE l == [t \in 1..q |-> r[t]]
<1>1. Len(r) \in Nat /\ DOMAIN r = 1..Len(r) /\ q \in Nat
  OBVIOUS
<1>2. l \in Seq(S) /\ Len(l) = q /\ DOMAIN l = 1..q
  <2>1. \A t \in 1..q : r[t] \in S
    BY <1>1
  <2>2. l \in [1..q -> S]
    BY <2>1
  <2> QED BY <1>1, <2>2, IsSequence
<1>3. Distinct(l) /\ Members(l) = PagesIn(r, 1, q)
  BY <1>1, <1>2 DEF Distinct, Members, PagesIn
<1> HIDE DEF l
<1>4. Cardinality(Members(l)) = Len(l)
  BY <1>2, <1>3, MembersCount
<1> QED BY <1>2, <1>3, <1>4

\* An access hits the first m pages of the list exactly when it is not far.
LEMMA RecentHit ==
  ASSUME NEW m \in Nat \ {0}, NEW S, NEW s \in Seq(S), NEW j \in 1..Len(s), NEW r \in Seq(S),
         Recent(s, j - 1, r)
  PROVE  s[j] \notin Members(Prefix(r, m)) <=> IsFar(m, s, j)
<1> DEFINE x == s[j]
<1>1. /\ Distinct(r) /\ Members(r) = PagesIn(s, 1, j - 1)
      /\ Len(r) \in Nat /\ DOMAIN r = 1..Len(r)
  BY DEF Recent
<1>2. Members(Prefix(r, m)) = {r[t] : t \in 1..Smaller(m, Len(r))}
  BY DEF Members, Prefix
<1>3. Smaller(m, Len(r)) \in Nat /\ Smaller(m, Len(r)) <= Len(r) /\ Smaller(m, Len(r)) <= m
      /\ \A q \in 1..Len(r) : q <= m => q <= Smaller(m, Len(r))
  BY <1>1 DEF Smaller
<1>4. CASE x \notin Members(r)
  <2>1. x \notin PagesIn(s, 1, j - 1)
    BY <1>1, <1>4
  <2>2. LastBefore(s, j) = {}
    BY <2>1 DEF LastBefore, PagesIn
  <2>3. IsFar(m, s, j)
    BY <2>2 DEF IsFar
  <2>4. x \notin Members(Prefix(r, m))
    <3>1. \A t \in 1..Smaller(m, Len(r)) : t \in DOMAIN r
      BY <1>1, <1>3
    <3> QED BY <1>2, <1>4, <3>1 DEF Members
  <2> QED BY <2>3, <2>4
<1>5. CASE x \in Members(r)
  <2>1. PICK q \in 1..Len(r) : r[q] = x
    BY <1>1, <1>5 DEF Members
  <2>2. \A k \in LastBefore(s, j) : Cardinality(PagesIn(s, k + 1, j - 1)) = q - 1
    <3> SUFFICES ASSUME NEW k \in LastBefore(s, j)
                 PROVE  Cardinality(PagesIn(s, k + 1, j - 1)) = q - 1
      OBVIOUS
    <3>1. k \in 1..(j - 1) /\ s[k] = r[q] /\ r[q] \notin PagesIn(s, k + 1, j - 1)
      BY <2>1 DEF LastBefore
    <3>2. PagesIn(s, k + 1, j - 1) = PagesIn(r, 1, q - 1)
      BY <1>1, <3>1 DEF Recent
    <3>3. q - 1 \in 0..Len(r)
      BY <1>1
    <3> QED BY <1>1, <3>2, <3>3, BeforeCount
  <2>3. LastBefore(s, j) # {}
    <3> DEFINE T == {k \in 1..(j - 1) : s[k] = x}
    <3>1. T \subseteq 0..(j - 1) /\ j - 1 \in Nat
      OBVIOUS
    <3>2. T # {}
      BY <1>1, <1>5 DEF PagesIn
    <3>3. PICK k \in T : \A k2 \in T : k2 <= k
      BY <3>1, <3>2, GreatestNumber
    <3>4. x \notin PagesIn(s, k + 1, j - 1)
      <4> SUFFICES ASSUME NEW k2 \in (k + 1)..(j - 1), s[k2] = x PROVE FALSE
        BY DEF PagesIn
      <4>1. k2 \in T
        OBVIOUS
      <4> QED BY <3>3, <4>1
    <3> QED BY <3>4 DEF LastBefore
  <2>4. IsFar(m, s, j) <=> q - 1 >= m
    BY <2>2, <2>3 DEF IsFar
  <2>5. x \in Members(Prefix(r, m)) <=> q <= m
    <3>1. ASSUME q <= m PROVE x \in Members(Prefix(r, m))
      BY <1>2, <1>3, <2>1, <3>1
    <3>2. ASSUME x \in Members(Prefix(r, m)) PROVE q <= m
      <4>1. PICK t \in 1..Smaller(m, Len(r)) : r[t] = x
        BY <1>2, <3>2
      <4>2. t = q
        BY <1>1, <1>3, <2>1, <4>1 DEF Distinct
      <4> QED BY <1>3, <4>2
    <3> QED BY <3>1, <3>2
  <2>6. q \in Nat /\ m \in Nat
    OBVIOUS
  <2> QED BY <2>4, <2>5, <2>6
<1> QED BY <1>4, <1>5

\* The faults among the first j accesses, by stack distances.
FarSet(m, s, j) == {t \in 1..j : IsFar(m, s, t)}

LEMMA FarCount ==
  ASSUME NEW m, NEW s, NEW j \in Nat \ {0}
  PROVE  /\ IsFar(m, s, j) => Cardinality(FarSet(m, s, j)) = Cardinality(FarSet(m, s, j - 1)) + 1
         /\ ~IsFar(m, s, j) => FarSet(m, s, j) = FarSet(m, s, j - 1)
<1> DEFINE A == FarSet(m, s, j - 1)
           B == FarSet(m, s, j)
<1>1. 1..j = (1..(j - 1)) \cup {j} /\ j \notin 1..(j - 1)
  OBVIOUS
<1>2. IsFiniteSet(A)
  <2>1. IsFiniteSet(1..(j - 1)) /\ A \subseteq 1..(j - 1)
    BY FS_Interval DEF FarSet
  <2> QED BY <2>1, FS_Subset
<1>3. j \notin A
  BY <1>1 DEF FarSet
<1>4. IsFar(m, s, j) => B = A \cup {j}
  BY <1>1 DEF FarSet
<1>5. ~IsFar(m, s, j) => B = A
  BY <1>1 DEF FarSet
<1> HIDE DEF A, B
<1>6. Cardinality(A \cup {j}) = Cardinality(A) + 1
  BY <1>2, <1>3, FS_AddElement
<1> QED BY <1>4, <1>5, <1>6 DEF A, B

\* The pages of a stretch of accesses are as many as the accesses exactly when none is
\* used twice.
LEMMA DistinctPages ==
  ASSUME NEW s, NEW j \in Nat, NEW k \in Nat, j <= k + 1
  PROVE  Cardinality(PagesIn(s, j, k)) = (k - j) + 1 <=> \A l, l2 \in j..k : l # l2 => s[l] # s[l2]
<1> DEFINE f == [l \in j..k |-> s[l]]
           T == PagesIn(s, j, k)
<1>1. IsFiniteSet(j..k) /\ Cardinality(j..k) = (k - j) + 1
  <2>1. IsFiniteSet(j..k) /\ Cardinality(j..k) = IF j > k THEN 0 ELSE k - j + 1
    BY FS_Interval
  <2> QED BY <2>1
<1>2. f \in Surjection(j..k, T)
  BY DEF Surjection, PagesIn
<1>3. f \in Injection(j..k, T) <=> \A l, l2 \in j..k : l # l2 => s[l] # s[l2]
  BY <1>2 DEF Injection, IsInjective, Surjection
<1> HIDE DEF f, T
<1>4. Cardinality(T) = Cardinality(j..k) <=> f \in Injection(j..k, T)
  BY <1>1, <1>2, FS_Surjection
<1> QED BY <1>1, <1>3, <1>4 DEF T

\* A page comes back after no fewer accesses than the scan has pages.
LEMMA Spread ==
  ASSUME NEW S, NEW s \in Seq(S), NEW k \in Nat \ {0}, IsScan(s, k),
         NEW j \in 1..Len(s), NEW j2 \in 1..Len(s), j < j2, j2 - j < k
  PROVE  s[j] # s[j2]
<1> DEFINE Apart(b) == \A l, l2 \in 1..Len(s) :
             l2 <= b /\ l < l2 /\ l2 - l < k => s[l] # s[l2]
           T == {b \in Nat : Apart(b)}
<1>0. Len(s) \in Nat /\ k <= Len(s) /\ \A l \in (k + 1)..Len(s) : s[l] = s[l - k]
  BY DEF IsScan
<1>1. \A l, l2 \in 1..k : l # l2 => s[l] # s[l2]
  <2>1. Cardinality(PagesIn(s, 1, k)) = (k - 1) + 1
    BY DEF IsScan
  <2> QED BY <2>1, DistinctPages
<1>2. 0 \in T
  OBVIOUS
<1>3. ASSUME NEW b \in Nat, b \in T PROVE b + 1 \in T
  <2>1. SUFFICES ASSUME NEW l \in 1..Len(s), NEW l2 \in 1..Len(s),
                        l2 <= b + 1, l < l2, l2 - l < k
                 PROVE  s[l] # s[l2]
    BY <1>3
  <2>2. CASE l2 <= k
    BY <1>1, <2>1, <2>2
  <2>3. CASE l2 > k /\ l <= k
    <3>1. l \in 1..k /\ l2 - k \in 1..k /\ l # l2 - k /\ l2 \in (k + 1)..Len(s)
      BY <1>0, <2>1, <2>3
    <3>2. s[l2] = s[l2 - k]
      BY <1>0, <3>1
    <3> QED BY <1>1, <3>1, <3>2
  <2>4. CASE l2 > k /\ l > k
    <3>1. /\ l \in (k + 1)..Len(s) /\ l2 \in (k + 1)..Len(s)
          /\ l - k \in 1..Len(s) /\ l2 - k \in 1..Len(s)
          /\ l2 - k <= b /\ l - k < l2 - k /\ (l2 - k) - (l - k) < k
      BY <1>0, <2>1, <2>4
    <3>2. s[l] = s[l - k] /\ s[l2] = s[l2 - k]
      BY <1>0, <3>1
    <3>3. Apart(b)
      BY <1>3
    <3>4. s[l - k] # s[l2 - k]
      BY <3>1, <3>3
    <3> QED BY <3>2, <3>4
  <2> QED BY <2>2, <2>3, <2>4
<1> HIDE DEF T
<1>4. \A b \in Nat : b \in T
  BY <1>2, <1>3, SetInduction
<1>5. Apart(Len(s))
  BY <1>0, <1>4 DEF T
<1> QED BY <1>5

\* In terms of the frames: of the last m accesses none is to the page of access j.
LEMMA NotRecent ==
  ASSUME NEW S, NEW s \in Seq(S), NEW m \in Nat \ {0}, NEW k \in Nat, m < k, IsScan(s, k),
         NEW j \in 1..Len(s), NEW j2 \in 1..Len(s), j < j2, j2 - j <= m
  PROVE  s[j] # s[j2]
<1>1. k \in Nat \ {0} /\ j2 - j < k
  OBVIOUS
<1> QED BY <1>1, Spread

\* Every access of a scan is far, hence a fault of LRU.
LEMMA ScanIsFar ==
  ASSUME NEW S, NEW s \in Seq(S), NEW m \in Nat \ {0}, NEW k \in Nat, m < k, IsScan(s, k), NEW j \in 1..Len(s)
  PROVE  IsFar(m, s, j)
<1>1. Len(s) \in Nat
  OBVIOUS
<1>2. SUFFICES ASSUME NEW q \in LastBefore(s, j)
               PROVE  Cardinality(PagesIn(s, q + 1, j - 1)) >= m
  BY DEF IsFar
<1>3. q \in 1..(j - 1) /\ s[q] = s[j]
  BY DEF LastBefore
<1>4. j - q > m
  <2> SUFFICES ASSUME j - q <= m PROVE FALSE
    BY <1>3
  <2>1. q \in 1..Len(s) /\ q < j
    BY <1>1, <1>3
  <2>2. s[q] # s[j]
    BY <2>1, NotRecent
  <2> QED BY <1>3, <2>2
<1> DEFINE e == q + m
           near == PagesIn(s, q + 1, e)
           all == PagesIn(s, q + 1, j - 1)
<1>5. e \in Nat /\ e < j /\ q + 1 \in Nat /\ q + 1 <= e + 1 /\ (e - (q + 1)) + 1 = m /\ j - 1 \in Int
  BY <1>1, <1>3, <1>4
<1>6. \A l, l2 \in (q + 1)..e : l # l2 => s[l] # s[l2]
  <2>1. SUFFICES ASSUME NEW l \in (q + 1)..e, NEW l2 \in (q + 1)..e, l < l2
                 PROVE  s[l] # s[l2]
    OBVIOUS
  <2>2. l \in 1..Len(s) /\ l2 \in 1..Len(s) /\ l2 - l <= m
    BY <1>1, <1>3, <1>5, <2>1
  <2> QED BY <2>1, <2>2, NotRecent
<1>7. Cardinality(near) = m
  <2> HIDE DEF e
  <2>1. Cardinality(near) = (e - (q + 1)) + 1
    BY <1>5, <1>6, DistinctPages
  <2> QED BY <1>5, <2>1
<1>8. near \subseteq all
  <2>1. (q + 1)..e \subseteq (q + 1)..(j - 1)
    BY <1>5
  <2> QED BY <2>1 DEF PagesIn
<1>9. IsFiniteSet(all) /\ Cardinality(all) \in Nat
  BY <1>5, PagesInFinite
<1> HIDE DEF near, all
<1>10. Cardinality(near) <= Cardinality(all)
  BY <1>8, <1>9, FS_Subset
<1> QED BY <1>1, <1>7, <1>9, <1>10 DEF all

LEMMA ScanCountsAll ==
  ASSUME NEW S, NEW s \in Seq(S), NEW m \in Nat \ {0}, NEW k \in Nat, m < k, IsScan(s, k)
  PROVE  StackDistanceFaults(m, s) = Len(s)
<1>1. DOMAIN s = 1..Len(s) /\ Len(s) \in Nat
  OBVIOUS
<1>2. ASSUME NEW j \in 1..Len(s) PROVE IsFar(m, s, j)
  BY ScanIsFar
<1>3. {j \in DOMAIN s : IsFar(m, s, j)} = 1..Len(s)
  BY <1>1, <1>2
<1>4. Cardinality(1..Len(s)) = Len(s)
  <2> DEFINE e == Len(s)
  <2>1. e \in Int /\ e \in Nat
    BY <1>1
  <2> HIDE DEF e
  <2>2. Cardinality(1..e) = IF 1 > e THEN 0 ELSE e - 1 + 1
    BY <2>1, FS_Interval
  <2>3. Cardinality(1..e) = e
    BY <2>1, <2>2
  <2> QED BY <2>3 DEF e
<1> QED BY <1>3, <1>4 DEF StackDistanceFaults

===============================================================================
