------------------------------ MODULE ArrayProofs ------------------------------
(***************************************************************************)
(* Proofs about the two policies that keep their frames in an array.       *)
(* lfu.c: the counts and times of its slots are those of the trace, the    *)
(* victim is the least used page, and it implements demand paging.         *)
(* sieve.c: no page is ever held twice, whatever an earlier configuration  *)
(* left in its arrays, it implements demand paging, and its array behaves  *)
(* as a FIFO queue with second chances.  For any pages and frames; and     *)
(* what a scan leaves in the two arrays.                                   *)
(***************************************************************************)
EXTENDS Lfu, Sieve, FiniteSetTheorems, FunctionTheorems, TLAPS

-------------------------------------------------------------------------------
(* The uses of a page, as the history grows by one access.                 *)

LEMMA UsesType ==
  ASSUME hist \in Seq([page : Pages, outcome : {"HIT", "FAULT"}]), NEW x
  PROVE  /\ UsesSinceLoad(x) \subseteq 1..Len(hist) /\ Len(hist) \in Nat
         /\ IsFiniteSet(UsesSinceLoad(x))
         /\ \A i \in UsesSinceLoad(x) : hist[i].page = x
<1>1. Len(hist) \in Nat /\ DOMAIN hist = 1..Len(hist)
  OBVIOUS
<1>2. UsesSinceLoad(x) \in SUBSET (1..Len(hist))
  BY <1>1 DEF UsesSinceLoad
<1>3. IsFiniteSet(1..Len(hist))
  BY <1>1, FS_Interval
<1>4. IsFiniteSet(UsesSinceLoad(x))
  BY <1>2, <1>3, FS_Subset
<1> QED BY <1>1, <1>2, <1>4 DEF UsesSinceLoad

LEMMA HistoryGrows ==
  ASSUME hist \in Seq([page : Pages, outcome : {"HIT", "FAULT"}]),
         NEW page \in Pages, NEW outcome \in {"HIT", "FAULT"},
         hist' = Append(hist, [page |-> page, outcome |-> outcome])
  PROVE  /\ hist' \in Seq([page : Pages, outcome : {"HIT", "FAULT"}])
         /\ Len(hist') = Len(hist) + 1 /\ hist' # <<>>
         /\ hist'[Len(hist')] = [page |-> page, outcome |-> outcome]
         /\ \A i \in 1..Len(hist) : hist'[i] = hist[i]
OBVIOUS

\* An access to another page is no use of x.
LEMMA OtherUsed ==
  ASSUME hist \in Seq([page : Pages, outcome : {"HIT", "FAULT"}]),
         NEW page \in Pages, NEW outcome \in {"HIT", "FAULT"},
         hist' = Append(hist, [page |-> page, outcome |-> outcome]),
         NEW x, x # page
  PROVE  UsesSinceLoad(x)' = UsesSinceLoad(x)
<1>1. /\ hist' \in Seq([page : Pages, outcome : {"HIT", "FAULT"}])
      /\ Len(hist') = Len(hist) + 1
      /\ hist'[Len(hist')].page = page
      /\ \A i \in 1..Len(hist) : hist'[i] = hist[i]
  BY HistoryGrows
<1>2. Len(hist) \in Nat /\ DOMAIN hist = 1..Len(hist) /\ DOMAIN hist' = 1..(Len(hist) + 1)
  BY <1>1
<1>3. ASSUME NEW i \in 1..(Len(hist) + 1)
      PROVE  i \in UsesSinceLoad(x)' <=> i \in UsesSinceLoad(x)
  <2>1. CASE i = Len(hist) + 1
    <3>1. hist'[i].page # x /\ i \notin DOMAIN hist
      BY <1>1, <1>2, <2>1
    <3> QED BY <3>1 DEF UsesSinceLoad
  <2>2. CASE i \in 1..Len(hist)
    <3>1. (i + 1)..Len(hist') = ((i + 1)..Len(hist)) \cup {Len(hist) + 1}
      BY <1>1, <1>2, <2>2
    <3>2. \A j \in (i + 1)..Len(hist) : hist'[j] = hist[j]
      BY <1>1, <1>2, <2>2
    <3>3. hist'[Len(hist) + 1].page # x /\ hist'[i] = hist[i]
      BY <1>1, <2>2
    <3> QED BY <1>2, <2>2, <3>1, <3>2, <3>3 DEF UsesSinceLoad
  <2> QED BY <1>2, <2>1, <2>2
<1>4. UsesSinceLoad(x)' \subseteq 1..(Len(hist) + 1) /\ UsesSinceLoad(x) \subseteq 1..(Len(hist) + 1)
  BY <1>2 DEF UsesSinceLoad
<1> QED BY <1>3, <1>4

\* A hit is one more use of the page, a fault starts its uses anew.
LEMMA PageUsed ==
  ASSUME hist \in Seq([page : Pages, outcome : {"HIT", "FAULT"}]),
         NEW page \in Pages, NEW outcome \in {"HIT", "FAULT"},
         hist' = Append(hist, [page |-> page, outcome |-> outcome])
  PROVE  UsesSinceLoad(page)' =
           (IF outcome = "HIT" THEN UsesSinceLoad(page) ELSE {}) \cup {Len(hist) + 1}
<1>1. /\ hist' \in Seq([page : Pages, outcome : {"HIT", "FAULT"}])
      /\ Len(hist') = Len(hist) + 1
      /\ hist'[Len(hist')] = [page |-> page, outcome |-> outcome]
      /\ \A i \in 1..Len(hist) : hist'[i] = hist[i]
  BY HistoryGrows
<1>2. Len(hist) \in Nat /\ DOMAIN hist = 1..Len(hist) /\ DOMAIN hist' = 1..(Len(hist) + 1)
  BY <1>1
<1>3. Len(hist) + 1 \in UsesSinceLoad(page)'
  <2>1. ((Len(hist) + 1) + 1)..Len(hist') = {}
    BY <1>1, <1>2
  <2> QED BY <1>1, <1>2, <2>1 DEF UsesSinceLoad
<1>4. ASSUME NEW i \in 1..Len(hist)
      PROVE  i \in UsesSinceLoad(page)' <=> outcome = "HIT" /\ i \in UsesSinceLoad(page)
  <2>1. (i + 1)..Len(hist') = ((i + 1)..Len(hist)) \cup {Len(hist) + 1}
    BY <1>1, <1>2
  <2>2. \A j \in (i + 1)..Len(hist) : hist'[j] = hist[j]
    BY <1>1, <1>2
  <2>3. /\ hist'[Len(hist) + 1].page = page /\ hist'[Len(hist) + 1].outcome = outcome
        /\ hist'[i] = hist[i]
    BY <1>1
  <2> QED BY <1>2, <2>1, <2>2, <2>3 DEF UsesSinceLoad
<1>5. UsesSinceLoad(page)' \subseteq 1..(Len(hist) + 1) /\ UsesSinceLoad(page) \subseteq 1..Len(hist)
  BY <1>2 DEF UsesSinceLoad
<1> QED BY <1>2, <1>3, <1>4, <1>5

-------------------------------------------------------------------------------
(* The invariant.                                                          *)

\* The count and time of slot i are those of page x's stay.
Accounts(i, x) ==
  /\ slots[i].freq = Cardinality(UsesSinceLoad(x))
  /\ slots[i].last_time \in UsesSinceLoad(x)
  /\ \A j \in UsesSinceLoad(x) : j <= slots[i].last_time

\* The clock counts the accesses, or the times in the slots would not be places of the
\* history.
IInv ==
  /\ TypeOk /\ cap \in FrameCounts \cup {0} /\ lfu_clock = Len(hist)
  /\ SlotsAgree
  /\ \A i \in 0..(size - 1) : \A x : slots[i].page = x => Accounts(i, x)

LEMMA Numbers ==
  ASSUME TypeOk
  PROVE  /\ cap \in Nat /\ size \in Nat /\ size <= cap /\ cap <= MAX_FRAMES
         /\ InUse \subseteq Slots /\ InUse = 0..(cap - 1) /\ 0..(size - 1) \subseteq InUse
         /\ lfu_clock \in Nat
BY FramesAssumption, TraceAssumption DEF TypeOk, InUse, Slots

\* No page is the mark of an empty slot.
LEMMA PagesAreNotEmpty == \A x \in Pages : x # EMPTY
BY PagesAssumption DEF EMPTY

LEMMA LastUseIs ==
  ASSUME IInv, NEW i \in 0..(size - 1)
  PROVE  LastUse(slots[i].page) = slots[i].last_time
<1> DEFINE U == UsesSinceLoad(slots[i].page)
           t == slots[i].last_time
<1>1. t \in U /\ \A j \in U : j <= t
  BY DEF IInv, Accounts
<1>2. U \subseteq Nat
  <2>1. U \subseteq 1..Len(hist) /\ Len(hist) \in Nat
    BY UsesType DEF IInv, TypeOk
  <2> QED BY <2>1
<1> HIDE DEF U, t
<1>3. \A k \in U : (\A j \in U : j <= k) => k = t
  BY <1>1, <1>2
<1>4. (CHOOSE k \in U : \A j \in U : j <= k) = t
  BY <1>1, <1>3
<1> QED BY <1>4 DEF LastUse, U, t

LEMMA CountsHold == IInv => CountsAreOfThisStay
BY LastUseIs DEF IInv, Accounts, CountsAreOfThisStay

LEMMA InitIInv == Init => IInv
<1> SUFFICES ASSUME Init PROVE IInv
  OBVIOUS
<1>1. TypeOk /\ cap = 0 /\ size = 0 /\ lfu_clock = Len(hist)
  BY FramesAssumption, TraceAssumption DEF Init, TypeOk, EmptySlot
<1>2. InUse = {} /\ 0..(size - 1) = {}
  BY <1>1 DEF InUse
<1> QED BY <1>1, <1>2 DEF IInv, SlotsAgree

LEMMA ResetIInv ==
  ASSUME ResetState, NEW m \in FrameCounts \cup {0}, cap' = m
  PROVE  IInv'
<1>1. m \in 0..MAX_FRAMES /\ m \in Nat
  BY FramesAssumption
<1>2. TypeOk'
  <2>1. slots' \in [Slots -> [page : Pages \cup {EMPTY, 0}, freq : Nat, last_time : Nat]]
    BY DEF ResetState, EmptySlot
  <2> QED BY <1>1, <2>1, TraceAssumption DEF ResetState, TypeOk
<1>3. \A i \in 0..(m - 1) : slots'[i].page = EMPTY
  <2>1. 0..(m - 1) \subseteq Slots
    BY <1>1, FramesAssumption DEF Slots
  <2> QED BY <2>1 DEF ResetState, EmptySlot
<1>4. 0..(size' - 1) = {} /\ size' = 0 /\ \A i \in 0..(m - 1) : ~(i < 0)
  BY <1>1 DEF ResetState
<1>5. SlotsAgree'
  BY <1>3, <1>4 DEF SlotsAgree, InUse
<1> QED BY <1>2, <1>4, <1>5 DEF IInv, ResetState

\* What an access does to the clock and the history.
LEMMA ObserveIInv ==
  ASSUME IInv, NEW page \in Pages, NEW outcome \in {"HIT", "FAULT"}, Observe(page, outcome)
  PROVE  /\ hist' = Append(hist, [page |-> page, outcome |-> outcome])
         /\ hist' \in Seq([page : Pages, outcome : {"HIT", "FAULT"}])
         /\ lfu_clock' \in 0..MAX_TRACE /\ lfu_clock' = Len(hist') /\ cap' = cap
         /\ lfu_clock + 1 = Len(hist) + 1 /\ Len(hist) \in Nat
<1>1. hist' = Append(hist, [page |-> page, outcome |-> outcome]) /\ cap' = cap
  BY DEF Observe
<1>2. hist' \in Seq([page : Pages, outcome : {"HIT", "FAULT"}]) /\ Len(hist') = Len(hist) + 1
  BY <1>1, HistoryGrows DEF IInv, TypeOk
<1>3. lfu_clock' \in 0..MAX_TRACE
  BY TraceAssumption DEF IInv, TypeOk, Observe
<1> QED BY <1>1, <1>2, <1>3 DEF IInv, Observe, TypeOk

\* Slots that keep their page keep their account when another page is used.
LEMMA AccountsKept ==
  ASSUME IInv, NEW page \in Pages, NEW outcome \in {"HIT", "FAULT"}, Observe(page, outcome),
         NEW i \in 0..(size - 1), slots'[i] = slots[i],
         NEW x, slots[i].page = x, x # page
  PROVE  Accounts(i, x)'
<1>1. hist' = Append(hist, [page |-> page, outcome |-> outcome])
  BY ObserveIInv
<1>2. UsesSinceLoad(x)' = UsesSinceLoad(x)
  BY <1>1, OtherUsed DEF IInv, TypeOk
<1>3. Accounts(i, x)
  BY DEF IInv
<1> QED BY <1>2, <1>3 DEF Accounts

\* The slot of a hit.
LEMMA HitSlot ==
  ASSUME IInv, NEW page \in Pages, Hit(page)
  PROVE  \E h \in 0..(size - 1) :
           slots[h].page = page /\ slots' = [slots EXCEPT ![h] = Touched(slots[h])]
<1>1. PICK h \in SlotsOf(page) : TRUE
  BY DEF Hit
<1>2. ASSUME NEW i \in SlotsOf(page) PROVE i \in 0..(size - 1) /\ slots[i].page = page
  <2>1. i \in InUse /\ slots[i].page = page /\ slots[i].page # EMPTY
    BY <1>2, PagesAreNotEmpty DEF SlotsOf
  <2>2. i < size
    BY <2>1 DEF IInv, SlotsAgree
  <2> QED BY <2>1, <2>2, Numbers DEF IInv
<1>3. \A i \in SlotsOf(page) : i = h
  BY <1>2 DEF IInv, SlotsAgree
<1>4. h <= h
  BY <1>2, Numbers DEF IInv
<1>5. (CHOOSE i \in SlotsOf(page) : \A j \in SlotsOf(page) : i <= j) = h
  BY <1>3, <1>4
<1> QED BY <1>2, <1>5 DEF Hit

LEMMA HitIInv ==
  ASSUME IInv, NEW page \in Pages, Hit(page)
  PROVE  IInv'
<1>1. PICK h \in 0..(size - 1) :
        slots[h].page = page /\ slots' = [slots EXCEPT ![h] = Touched(slots[h])]
  BY HitSlot
<1>2. /\ hist' = Append(hist, [page |-> page, outcome |-> "HIT"])
      /\ hist' \in Seq([page : Pages, outcome : {"HIT", "FAULT"}])
      /\ lfu_clock' \in 0..MAX_TRACE /\ lfu_clock' = Len(hist') /\ cap' = cap
      /\ lfu_clock + 1 = Len(hist) + 1 /\ Len(hist) \in Nat
  BY ObserveIInv DEF Hit
<1>3. size' = size
  BY DEF Hit
<1>4. /\ cap \in Nat /\ size \in Nat /\ size <= cap
      /\ InUse \subseteq Slots /\ InUse = 0..(cap - 1) /\ 0..(size - 1) \subseteq InUse
      /\ lfu_clock \in Nat
  BY Numbers DEF IInv
<1>5. slots \in [Slots -> [page : Pages \cup {EMPTY, 0}, freq : Nat, last_time : Nat]]
  BY DEF IInv, TypeOk
<1>6. /\ Touched(slots[h]) \in [page : Pages \cup {EMPTY, 0}, freq : Nat, last_time : Nat]
      /\ Touched(slots[h]).page = slots[h].page
      /\ Touched(slots[h]).freq = slots[h].freq + 1
      /\ Touched(slots[h]).last_time = Len(hist) + 1
  <2>1. h \in Slots
    BY <1>4
  <2>2. slots[h] \in [page : Pages \cup {EMPTY, 0}, freq : Nat, last_time : Nat]
    BY <1>5, <2>1
  <2>3. ASSUME NEW s \in [page : Pages \cup {EMPTY, 0}, freq : Nat, last_time : Nat]
        PROVE  /\ Touched(s) \in [page : Pages \cup {EMPTY, 0}, freq : Nat, last_time : Nat]
               /\ Touched(s).page = s.page /\ Touched(s).freq = s.freq + 1
               /\ Touched(s).last_time = Len(hist) + 1
    <3> DEFINE t == lfu_clock + 1
    <3>1. t \in Nat /\ t = Len(hist) + 1
      BY <1>2, <1>4
    <3>2. Touched(s) = [s EXCEPT !.freq = s.freq + 1, !.last_time = t]
      BY DEF Touched
    <3> HIDE DEF t
    <3>3. s.freq + 1 \in Nat
      OBVIOUS
    <3>4. PICK f \in Nat : f = s.freq + 1
      BY <3>3
    <3>5. Touched(s) = [page |-> s.page, freq |-> f, last_time |-> t]
      BY <3>2, <3>4
    <3> QED BY <3>1, <3>4, <3>5
  <2> QED BY <2>2, <2>3
<1>7. TypeOk'
  <2>1. slots' \in [Slots -> [page : Pages \cup {EMPTY, 0}, freq : Nat, last_time : Nat]]
    BY <1>1, <1>5, <1>6
  <2> QED BY <1>2, <1>3, <2>1 DEF IInv, TypeOk
<1>8. \A i \in Slots : slots'[i] = IF i = h THEN Touched(slots[h]) ELSE slots[i]
  BY <1>1, <1>4, <1>5
<1>9. \A i \in Slots : slots'[i].page = slots[i].page
  BY <1>6, <1>8
<1>10. SlotsAgree'
  <2>1. InUse' = InUse
    BY <1>2 DEF InUse
  <2>2. \A i \in InUse : slots'[i].page # EMPTY <=> i < size
    BY <1>4, <1>9 DEF IInv, SlotsAgree
  <2>3. \A i, j \in 0..(size - 1) : slots'[i].page = slots'[j].page => i = j
    BY <1>4, <1>9 DEF IInv, SlotsAgree
  <2> QED BY <1>3, <2>1, <2>2, <2>3 DEF SlotsAgree
<1>11. ASSUME NEW i \in 0..(size - 1), i # h, NEW x, slots[i].page = x
       PROVE  Accounts(i, x)'
  <2>1. slots'[i] = slots[i] /\ x # page
    BY <1>1, <1>4, <1>8, <1>11 DEF IInv, SlotsAgree
  <2> QED BY <1>11, <2>1, AccountsKept DEF Hit
<1>12. Accounts(h, page)'
  <2> DEFINE U == UsesSinceLoad(page)
  <2>1. UsesSinceLoad(page)' = U \cup {Len(hist) + 1}
    BY <1>2, PageUsed DEF IInv, TypeOk
  <2>2. U \subseteq 1..Len(hist) /\ IsFiniteSet(U)
    BY UsesType DEF IInv, TypeOk
  <2>3. slots[h].freq = Cardinality(U)
    BY <1>1 DEF IInv, Accounts
  <2>4. Len(hist) + 1 \notin U
    BY <1>2, <2>2
  <2> HIDE DEF U
  <2>5. Cardinality(U \cup {Len(hist) + 1}) = Cardinality(U) + 1
    BY <2>2, <2>4, FS_AddElement
  <2>6. slots'[h] = Touched(slots[h])
    BY <1>4, <1>8
  <2>7. slots'[h].freq = Cardinality(UsesSinceLoad(page)')
    BY <1>6, <2>1, <2>3, <2>5, <2>6
  <2>8. \A j \in U \cup {Len(hist) + 1} : j <= Len(hist) + 1
    BY <1>2, <2>2
  <2>9. slots'[h].last_time = Len(hist) + 1
    BY <1>6, <2>6
  <2> QED BY <2>1, <2>7, <2>8, <2>9 DEF Accounts
<1>13. \A i \in 0..(size' - 1) : \A x : slots'[i].page = x => Accounts(i, x)'
  BY <1>1, <1>3, <1>4, <1>9, <1>11, <1>12
<1> QED BY <1>2, <1>7, <1>10, <1>13 DEF IInv

\* Both branches of a fault: the page takes slot v, which is free or its page's last;
\* m slots are occupied afterwards.
LEMMA LoadIInv ==
  ASSUME IInv, NEW page \in Pages, SlotsOf(page) = {}, NEW v \in InUse, NEW m \in 0..cap,
         Load(v, page), Observe(page, "FAULT"), size' = m,
         0..(m - 1) = (0..(size - 1)) \cup {v}
  PROVE  IInv'
<1>1. /\ hist' = Append(hist, [page |-> page, outcome |-> "FAULT"])
      /\ hist' \in Seq([page : Pages, outcome : {"HIT", "FAULT"}])
      /\ lfu_clock' \in 0..MAX_TRACE /\ lfu_clock' = Len(hist') /\ cap' = cap
      /\ lfu_clock + 1 = Len(hist) + 1 /\ Len(hist) \in Nat
  BY ObserveIInv
<1>2. /\ cap \in Nat /\ size \in Nat /\ size <= cap
      /\ InUse \subseteq Slots /\ InUse = 0..(cap - 1) /\ 0..(size - 1) \subseteq InUse
      /\ lfu_clock \in Nat
  BY Numbers DEF IInv
<1>3. slots \in [Slots -> [page : Pages \cup {EMPTY, 0}, freq : Nat, last_time : Nat]]
  BY DEF IInv, TypeOk
<1> DEFINE s == [page |-> page, freq |-> 1, last_time |-> lfu_clock + 1]
<1>4. /\ s \in [page : Pages \cup {EMPTY, 0}, freq : Nat, last_time : Nat]
      /\ s.page = page /\ s.freq = 1 /\ s.last_time = Len(hist) + 1
  BY <1>1, <1>2
<1>5. slots' = [slots EXCEPT ![v] = s]
  BY DEF Load
<1> HIDE DEF s
<1>6. TypeOk'
  <2>1. slots' \in [Slots -> [page : Pages \cup {EMPTY, 0}, freq : Nat, last_time : Nat]]
    BY <1>3, <1>4, <1>5
  <2> QED BY <1>1, <2>1 DEF IInv, TypeOk
<1>7. \A i \in Slots : slots'[i] = IF i = v THEN s ELSE slots[i]
  BY <1>2, <1>3, <1>5
<1>8. \A i \in InUse : slots[i].page # page
  BY DEF SlotsOf
<1>9. page # EMPTY
  BY PagesAreNotEmpty
<1>10. \A i \in InUse : i < m <=> (i < size \/ i = v)
  <2> SUFFICES ASSUME NEW i \in InUse PROVE i < m <=> (i < size \/ i = v)
    OBVIOUS
  <2>1. i \in Nat /\ m \in Nat
    BY <1>2
  <2>2. (i < m <=> i \in 0..(m - 1)) /\ (i < size <=> i \in 0..(size - 1))
    BY <1>2, <2>1
  <2> QED BY <2>2
<1>11. SlotsAgree'
  <2>1. InUse' = InUse
    BY <1>1 DEF InUse
  <2>2. \A i \in InUse : slots'[i].page # EMPTY <=> i < m
    BY <1>2, <1>4, <1>7, <1>9, <1>10 DEF IInv, SlotsAgree
  <2>3. \A i, j \in 0..(m - 1) : slots'[i].page = slots'[j].page => i = j
    BY <1>2, <1>4, <1>7, <1>8 DEF IInv, SlotsAgree
  <2> QED BY <2>1, <2>2, <2>3 DEF SlotsAgree
<1>12. ASSUME NEW i \in 0..(size - 1), i # v, NEW x, slots[i].page = x
       PROVE  Accounts(i, x)'
  <2>1. slots'[i] = slots[i] /\ x # page
    BY <1>2, <1>7, <1>8, <1>12
  <2> QED BY <1>12, <2>1, AccountsKept
<1>13. Accounts(v, page)'
  <2>1. UsesSinceLoad(page)' = {Len(hist) + 1}
    BY <1>1, PageUsed DEF IInv, TypeOk
  <2>2. Cardinality({Len(hist) + 1}) = 1
    BY FS_Singleton
  <2>3. slots'[v].freq = 1 /\ slots'[v].last_time = Len(hist) + 1
    BY <1>2, <1>4, <1>7
  <2>4. Len(hist) + 1 <= Len(hist) + 1
    BY <1>1
  <2> QED BY <2>1, <2>2, <2>3, <2>4 DEF Accounts
<1>14. ASSUME NEW i \in 0..(m - 1), NEW x, slots'[i].page = x PROVE Accounts(i, x)'
  <2>1. CASE i = v
    <3>1. x = page
      BY <1>2, <1>4, <1>7, <1>14, <2>1
    <3> QED BY <1>13, <2>1, <3>1
  <2>2. CASE i # v
    <3>1. i \in 0..(size - 1) /\ slots[i].page = x
      BY <1>2, <1>7, <1>14, <2>2
    <3> QED BY <1>12, <2>2, <3>1
  <2> QED BY <2>1, <2>2
<1> QED BY <1>1, <1>6, <1>11, <1>14 DEF IInv

\* The first free slot is the one behind the occupied ones.
LEMMA LoadFreeIInv ==
  ASSUME IInv, NEW page \in Pages, LoadFree(page)
  PROVE  IInv' /\ size < cap /\ Load(size, page) /\ size \in InUse
<1>1. /\ cap \in Nat /\ size \in Nat /\ size < cap
      /\ InUse = 0..(cap - 1) /\ 0..(size - 1) \subseteq InUse
  BY Numbers DEF IInv, LoadFree
<1>2. PICK i \in InUse : FirstFree(i) /\ Load(i, page)
  BY DEF LoadFree
<1>3. i >= size
  BY <1>1, <1>2 DEF FirstFree, IInv, SlotsAgree
<1>4. ~(i > size)
  <2> SUFFICES ASSUME i > size PROVE FALSE
    OBVIOUS
  <2>1. size \in 0..(i - 1) /\ size \in InUse
    BY <1>1, <1>2
  <2>2. slots[size].page # EMPTY
    BY <1>2, <2>1 DEF FirstFree
  <2>3. size < size
    BY <2>1, <2>2 DEF IInv, SlotsAgree
  <2> QED BY <1>1, <2>3
<1>5. i = size
  BY <1>1, <1>2, <1>3, <1>4
<1>6. /\ size' = size + 1 /\ size + 1 \in 0..cap
      /\ 0..((size + 1) - 1) = (0..(size - 1)) \cup {i}
  BY <1>1, <1>5 DEF LoadFree
<1>7. PICK m \in 0..cap : m = size + 1
  BY <1>6
<1>8. size' = m /\ 0..(m - 1) = (0..(size - 1)) \cup {i}
  BY <1>6, <1>7
<1>9. IInv'
  BY <1>2, <1>8, LoadIInv DEF LoadFree
<1> QED BY <1>1, <1>2, <1>5, <1>9

LEMMA LoadEvictIInv ==
  ASSUME IInv, NEW page \in Pages, LoadEvict(page)
  PROVE  IInv' /\ size = cap
<1>1. /\ cap \in Nat \ {0} /\ size \in Nat /\ size = cap
      /\ InUse = 0..(cap - 1)
  BY Numbers DEF IInv, LoadEvict
<1>2. PICK i \in InUse : Load(i, page)
  BY DEF LoadEvict
<1>3. PICK m \in 0..cap : m = size
  BY <1>1
<1>4. size' = m /\ 0..(m - 1) = (0..(size - 1)) \cup {i}
  BY <1>1, <1>3 DEF LoadEvict
<1>5. IInv'
  BY <1>2, <1>4, LoadIInv DEF LoadEvict
<1> QED BY <1>1, <1>5

LEMMA StepIInv == IInv /\ [Next]_vars => IInv'
<1> SUFFICES ASSUME IInv, [Next]_vars PROVE IInv'
  OBVIOUS
<1>1. ASSUME NEW m \in FrameCounts, LfuInit(m) PROVE IInv'
  BY <1>1, ResetIInv DEF LfuInit
<1>2. CASE LfuReset
  BY <1>2, ResetIInv DEF LfuReset
<1>3. ASSUME NEW page \in Pages, Hit(page) \/ LoadFree(page) \/ LoadEvict(page) PROVE IInv'
  BY <1>3, HitIInv, LoadFreeIInv, LoadEvictIInv
<1>4. CASE UNCHANGED vars
  <2>1. TypeOk' /\ SlotsAgree'
    BY <1>4 DEF vars, IInv, TypeOk, SlotsAgree, InUse
  <2>2. ASSUME NEW i, NEW x PROVE Accounts(i, x)' <=> Accounts(i, x)
    BY <1>4 DEF vars, Accounts, UsesSinceLoad
  <2> QED BY <1>4, <2>1, <2>2 DEF vars, IInv
<1> QED BY <1>1, <1>2, <1>3, <1>4 DEF Next

LEMMA Invariance == Spec => []IInv
BY InitIInv, StepIInv, PTL DEF Spec

\* size alone tells a free slot from a full array, whatever lfu_access has done so far
\* (lfu.c:54-58), and no page is in two slots, for any trace and any number of frames.
THEOREM SlotsCorrect == Spec => []SlotsAgree
<1>1. IInv => SlotsAgree
  BY DEF IInv
<1> QED BY <1>1, Invariance, PTL

\* A page's count and time are those of its present stay, never an earlier tenant's nor
\* an earlier stay's (lfu.c:46-48, 61-63, 78-80), for any trace and any number of frames.
THEOREM CountsCorrect == Spec => []CountsAreOfThisStay
BY CountsHold, Invariance, PTL

-------------------------------------------------------------------------------
(* The victim.                                                             *)

\* The slot of a resident page.
LEMMA ResidentSlot ==
  ASSUME IInv, NEW x \in Resident
  PROVE  \E i \in 0..(size - 1) :
           /\ slots[i].page = x /\ i \in InUse
           /\ slots[i].freq = Cardinality(UsesSinceLoad(x)) /\ slots[i].last_time = LastUse(x)
           /\ slots[i].last_time \in UsesSinceLoad(x)
           /\ slots[i].freq \in Nat /\ slots[i].last_time \in Nat
<1>1. PICK i \in 0..(size - 1) : slots[i].page = x
  BY DEF Resident
<1>2. Accounts(i, x) /\ LastUse(x) = slots[i].last_time
  BY <1>1, LastUseIs DEF IInv
<1>3. i \in InUse /\ i \in Slots
  BY Numbers DEF IInv
<1>4. slots[i] \in [page : Pages \cup {EMPTY, 0}, freq : Nat, last_time : Nat]
  BY <1>3 DEF IInv, TypeOk
<1> QED BY <1>1, <1>2, <1>3, <1>4 DEF Accounts

\* Only an eviction takes a page away, and it takes only the page of its slot.
LEMMA OnlyVictimLeaves ==
  ASSUME IInv, NEW page \in Pages, LoadEvict(page), NEW i \in InUse, Load(i, page)
  PROVE  Resident \ Resident' \subseteq {slots[i].page}
<1>1. /\ cap \in Nat \ {0} /\ size \in Nat /\ size = cap
      /\ InUse \subseteq Slots /\ InUse = 0..(cap - 1)
  BY Numbers DEF IInv, LoadEvict
<1>2. size' = size /\ \A j \in InUse : j # i => slots'[j] = slots[j]
  BY <1>1 DEF LoadEvict, Load, IInv, TypeOk
<1> QED BY <1>1, <1>2 DEF Resident

LEMMA HitKeepsResident ==
  ASSUME IInv, NEW page \in Pages, Hit(page)
  PROVE  Resident' = Resident /\ page \in Resident
<1>1. PICK h \in 0..(size - 1) :
        slots[h].page = page /\ slots' = [slots EXCEPT ![h] = Touched(slots[h])]
  BY HitSlot
<1>2. 0..(size - 1) \subseteq Slots /\ DOMAIN slots = Slots
  BY Numbers DEF IInv, TypeOk
<1>3. slots[h] \in [page : Pages \cup {EMPTY, 0}, freq : Nat, last_time : Nat]
  BY <1>2 DEF IInv, TypeOk
<1>4. Touched(slots[h]).page = slots[h].page
  <2>1. ASSUME NEW s \in [page : Pages \cup {EMPTY, 0}, freq : Nat, last_time : Nat]
        PROVE  Touched(s).page = s.page
    BY DEF Touched
  <2> QED BY <1>3, <2>1
<1>5. \A i \in 0..(size - 1) : slots'[i].page = slots[i].page
  BY <1>1, <1>2, <1>4
<1>6. size' = size
  BY DEF Hit
<1> QED BY <1>1, <1>5, <1>6 DEF Resident

LEMMA LoadFreeResident ==
  ASSUME IInv, NEW page \in Pages, LoadFree(page)
  PROVE  Resident' = Resident \cup {page}
<1>1. size < cap /\ Load(size, page) /\ size \in InUse
  BY LoadFreeIInv
<1>2. /\ size \in Nat /\ InUse \subseteq Slots /\ 0..(size - 1) \subseteq InUse
      /\ DOMAIN slots = Slots
  BY Numbers DEF IInv, TypeOk
<1>3. slots'[size].page = page /\ \A i \in 0..(size - 1) : slots'[i] = slots[i]
  BY <1>1, <1>2 DEF Load
<1>4. 0..(size' - 1) = (0..(size - 1)) \cup {size}
  BY <1>2 DEF LoadFree
<1> QED BY <1>3, <1>4 DEF Resident

\* The slot compared with every other in turn belongs to the page used least often since
\* it was loaded, least recently of those: the slots' counts are the trace's.
LEMMA VictimIsLeastUsed ==
  ASSUME IInv, NEW page \in Pages, LoadEvict(page),
         NEW u \in Resident \ Resident', NEW x \in Resident \ {u}
  PROVE  \/ Cardinality(UsesSinceLoad(u)) < Cardinality(UsesSinceLoad(x))
         \/ /\ Cardinality(UsesSinceLoad(u)) = Cardinality(UsesSinceLoad(x))
            /\ LastUse(u) < LastUse(x)
<1>1. PICK i \in InUse : (\A j \in InUse : ~Better(j, i)) /\ Load(i, page)
  BY DEF LoadEvict
<1>2. u = slots[i].page
  BY <1>1, OnlyVictimLeaves
<1>3. PICK k \in 0..(size - 1) :
        /\ slots[k].page = u /\ k \in InUse
        /\ slots[k].freq = Cardinality(UsesSinceLoad(u)) /\ slots[k].last_time = LastUse(u)
        /\ slots[k].last_time \in UsesSinceLoad(u)
        /\ slots[k].freq \in Nat /\ slots[k].last_time \in Nat
  BY ResidentSlot
<1>4. PICK j \in 0..(size - 1) :
        /\ slots[j].page = x /\ j \in InUse
        /\ slots[j].freq = Cardinality(UsesSinceLoad(x)) /\ slots[j].last_time = LastUse(x)
        /\ slots[j].last_time \in UsesSinceLoad(x)
        /\ slots[j].freq \in Nat /\ slots[j].last_time \in Nat
  BY ResidentSlot
<1>5. i = k
  <2>1. i \in 0..(size - 1)
    BY Numbers DEF IInv, LoadEvict
  <2> QED BY <1>2, <1>3, <2>1 DEF IInv, SlotsAgree
<1>6. slots[k].last_time # slots[j].last_time
  <2>1. hist[slots[k].last_time].page = u /\ hist[slots[j].last_time].page = x
    BY <1>3, <1>4, UsesType DEF IInv, TypeOk
  <2> QED BY <2>1
<1>7. ~Better(j, k)
  BY <1>1, <1>4, <1>5
<1>8. \/ slots[k].freq < slots[j].freq
      \/ slots[k].freq = slots[j].freq /\ slots[k].last_time < slots[j].last_time
  BY <1>3, <1>4, <1>6, <1>7 DEF Better
<1> QED BY <1>3, <1>4, <1>8

\* lfu_access evicts the page used least often since it was loaded, least recently of
\* those (lfu.c:5-8), in terms of the trace, for any trace and any number of frames.
THEOREM VictimCorrect == Spec => EvictsLeastUsed
<1>1. IInv /\ [Next]_vars =>
        [\A u \in Resident \ Resident' :
           hist' # <<>> =>
             \A x \in Resident \ {u} :
               \/ Cardinality(UsesSinceLoad(u)) < Cardinality(UsesSinceLoad(x))
               \/ /\ Cardinality(UsesSinceLoad(u)) = Cardinality(UsesSinceLoad(x))
                  /\ LastUse(u) < LastUse(x)]_vars
  <2> SUFFICES ASSUME IInv, Next, NEW u \in Resident \ Resident', hist' # <<>>,
                      NEW x \in Resident \ {u}
               PROVE  \/ Cardinality(UsesSinceLoad(u)) < Cardinality(UsesSinceLoad(x))
                      \/ /\ Cardinality(UsesSinceLoad(u)) = Cardinality(UsesSinceLoad(x))
                         /\ LastUse(u) < LastUse(x)
    OBVIOUS
  <2>1. ~(\E m \in FrameCounts : LfuInit(m)) /\ ~LfuReset
    BY DEF LfuInit, LfuReset, ResetState
  <2>2. PICK page \in Pages : Hit(page) \/ LoadFree(page) \/ LoadEvict(page)
    BY <2>1 DEF Next
  <2>3. ~Hit(page) /\ ~LoadFree(page)
    BY HitKeepsResident, LoadFreeResident
  <2> QED BY <2>2, <2>3, VictimIsLeastUsed
<1> QED BY <1>1, Invariance, PTL DEF Spec, EvictsLeastUsed

-------------------------------------------------------------------------------
(* LFU implements demand paging.                                           *)

\* The instance's Cardinality is the one of the library theorems.
LEMMA SameCardinality == \A S : Paging!Cardinality(S) = Cardinality(S)
BY DEF Paging!Cardinality, Cardinality, Paging!IsFiniteSet, IsFiniteSet

LEMMA ResidentCount ==
  ASSUME IInv
  PROVE  Paging!Cardinality(Resident) = size
<1>1. size \in Nat
  BY Numbers DEF IInv
<1>2. IsFiniteSet(0..(size - 1)) /\ Cardinality(0..(size - 1)) = size
  BY <1>1, FS_Interval
<1> DEFINE f == [i \in 0..(size - 1) |-> slots[i].page]
<1>3. f \in [0..(size - 1) -> Resident]
  BY DEF Resident
<1>4. \A i, j \in 0..(size - 1) : f[i] = f[j] => i = j
  BY DEF IInv, SlotsAgree
<1>5. \A x \in Resident : \E i \in 0..(size - 1) : f[i] = x
  BY DEF Resident
<1> HIDE DEF f
<1>6. f \in Bijection(0..(size - 1), Resident)
  BY <1>3, <1>4, <1>5 DEF Bijection, Injection, Surjection, IsInjective
<1>7. ExistsBijection(0..(size - 1), Resident)
  BY <1>6 DEF ExistsBijection
<1>8. Cardinality(Resident) = size
  BY <1>2, <1>7, FS_Bijection
<1> QED BY <1>8, SameCardinality

\* The reply and the page of an access, as DemandPaging sees them.
LEMMA LastIs ==
  ASSUME IInv, NEW page \in Pages, NEW outcome \in {"HIT", "FAULT"}, Observe(page, outcome)
  PROVE  /\ (IF hist = <<>> THEN "none" ELSE hist[Len(hist)].page)' = page
         /\ (IF hist = <<>> THEN "none" ELSE hist[Len(hist)].outcome)' = outcome
<1>1. hist' # <<>> /\ hist'[Len(hist')] = [page |-> page, outcome |-> outcome]
  BY HistoryGrows DEF IInv, TypeOk, Observe
<1> QED BY <1>1

LEMMA AccessRefines ==
  ASSUME IInv, NEW page \in Pages, Hit(page) \/ LoadFree(page) \/ LoadEvict(page)
  PROVE  Paging!Hit(page) \/ Paging!Load(page) \/ Paging!Replace(page)
<1>1. size \in Nat /\ cap \in Nat /\ Paging!Cardinality(Resident) = size
  BY Numbers, ResidentCount DEF IInv
<1>2. cap' = cap
  BY DEF Hit, LoadFree, LoadEvict, Observe
<1>3. SlotsOf(page) = {} => page \notin Resident
  <2>1. 0..(size - 1) \subseteq InUse
    BY Numbers DEF IInv
  <2> QED BY <2>1 DEF SlotsOf, Resident
<1>4. CASE Hit(page)
  <2>1. Observe(page, "HIT")
    BY <1>4 DEF Hit
  <2>2. Paging!Hit(page)
    BY <1>2, <1>4, <2>1, HitKeepsResident, LastIs DEF Paging!Hit
  <2> QED BY <2>2
<1>5. CASE LoadFree(page)
  <2>1. Observe(page, "FAULT") /\ size < cap /\ page \notin Resident
    BY <1>3, <1>5 DEF LoadFree
  <2>2. Resident' = Resident \cup {page}
    BY <1>5, LoadFreeResident
  <2>3. Paging!Load(page)
    BY <1>1, <1>2, <2>1, <2>2, LastIs DEF Paging!Load
  <2> QED BY <2>3
<1>6. CASE LoadEvict(page)
  <2>1. Observe(page, "FAULT") /\ page \notin Resident /\ size = cap
    BY <1>3, <1>6, LoadEvictIInv DEF LoadEvict
  <2>2. PICK i \in InUse : Load(i, page)
    BY <1>6 DEF LoadEvict
  <2>3. /\ InUse \subseteq Slots /\ InUse = 0..(size - 1) /\ DOMAIN slots = Slots /\ size' = size
    BY <1>6, <2>1, Numbers DEF IInv, TypeOk, InUse, LoadEvict
  <2>4. slots'[i].page = page /\ \A j \in InUse : j # i => slots'[j] = slots[j]
    BY <2>2, <2>3 DEF Load
  <2>5. \A j \in InUse : slots[j].page = slots[i].page => j = i
    BY <2>3 DEF IInv, SlotsAgree
  <2>6. slots[i].page \in Resident
    BY <2>3 DEF Resident
  <2>7. Resident' = (Resident \ {slots[i].page}) \cup {page}
    BY <2>3, <2>4, <2>5 DEF Resident
  <2>8. Paging!Replace(page)
    BY <1>1, <1>2, <2>1, <2>6, <2>7, LastIs DEF Paging!Replace
  <2> QED BY <2>8
<1> QED BY <1>4, <1>5, <1>6

\* The same in terms of the pages held.
LEMMA AccessServes ==
  ASSUME IInv, NEW page \in Pages, Hit(page) \/ LoadFree(page) \/ LoadEvict(page)
  PROVE  LET outcome == hist'[Len(hist')].outcome IN
         \/ page \in Resident /\ outcome = "HIT" /\ Resident' = Resident
         \/ /\ page \notin Resident /\ outcome = "FAULT"
            /\ \/ Cardinality(Resident) < cap /\ Resident' = Resident \cup {page}
               \/ /\ Cardinality(Resident) = cap
                  /\ \E v \in Resident : Resident' = (Resident \ {v}) \cup {page}
<1>1. hist' # <<>>
  <2>1. PICK outcome \in {"HIT", "FAULT"} : Observe(page, outcome)
    BY DEF Hit, LoadFree, LoadEvict
  <2> QED BY <2>1, HistoryGrows DEF IInv, TypeOk, Observe
<1> QED BY <1>1, AccessRefines, SameCardinality DEF Paging!Hit, Paging!Load, Paging!Replace

\* lfu_access answers HIT exactly for a resident page, and evicts one page, and only
\* when no frame is free, for any pages, any number of frames and any trace.
THEOREM Refinement == Spec => RefinesDemandPaging
<1>1. Init => Paging!Init
  <2> SUFFICES ASSUME Init PROVE Paging!Init
    OBVIOUS
  <2>1. Resident = {}
    BY DEF Init, Resident
  <2> QED BY <2>1 DEF Init, Paging!Init
<1>2. IInv /\ [Next]_vars => [Paging!Next]_(Paging!vars)
  <2> SUFFICES ASSUME IInv, [Next]_vars PROVE [Paging!Next]_(Paging!vars)
    OBVIOUS
  <2>1. ASSUME NEW m \in FrameCounts \cup {0}, ResetState, cap' = m PROVE Paging!Next
    <3>1. Resident' = {}
      BY <2>1 DEF ResetState, Resident
    <3>2. Paging!Configure(m)
      BY <2>1, <3>1 DEF ResetState, Paging!Configure
    <3> QED BY <3>2 DEF Paging!Next
  <2>2. ASSUME NEW m \in FrameCounts, LfuInit(m) PROVE Paging!Next
    BY <2>1, <2>2 DEF LfuInit
  <2>3. CASE LfuReset
    BY <2>1, <2>3 DEF LfuReset
  <2>4. ASSUME NEW page \in Pages, Hit(page) \/ LoadFree(page) \/ LoadEvict(page)
        PROVE  Paging!Next
    BY <2>4, AccessRefines DEF Paging!Next
  <2>5. ASSUME UNCHANGED vars PROVE UNCHANGED Paging!vars
    BY <2>5 DEF vars, Resident, Paging!vars
  <2> QED BY <2>2, <2>3, <2>4, <2>5 DEF Next
<1> QED BY <1>1, <1>2, Invariance, PTL DEF Spec, RefinesDemandPaging, Paging!Spec

-------------------------------------------------------------------------------
(* sieve.c: the invariant, after how its frames fill up.                   *)

\* The frames fill in the order of the hand: while one is free, those before the hand
\* are the occupied ones, so the hand never replaces a page while a frame is free.
FillsInOrder ==
  \/ \A i \in Frames : pages[i] # EMPTY
  \/ \A i \in Frames : pages[i] # EMPTY <=> i < hand

SieveIInv == SieveTypeOk /\ n \in FrameCounts \cup {0} /\ FramesAgree /\ FillsInOrder

-------------------------------------------------------------------------------
(* The hand.                                                               *)

LEMMA HandType ==
  ASSUME SieveTypeOk, n > 0
  PROVE  /\ n \in Nat \ {0} /\ hand \in 0..(n - 1) /\ hand \in Slots
         /\ Frames \subseteq Slots /\ Frames = 0..(n - 1)
BY FramesAssumption DEF SieveTypeOk, Slots, Frames

LEMMA AdvancedType ==
  ASSUME SieveTypeOk, n > 0
  PROVE  /\ Advanced \in 0..(n - 1)
         /\ hand < n - 1 => Advanced = hand + 1
         /\ hand = n - 1 => Advanced = 0
<1>1. n \in Nat \ {0} /\ hand \in 0..(n - 1)
  BY HandType
<1>2. CASE hand < n - 1
  <2>1. hand + 1 \in 0..(n - 1)
    BY <1>1, <1>2
  <2>2. (hand + 1) % n = hand + 1
    BY <1>1, <2>1
  <2> QED BY <1>1, <1>2, <2>1, <2>2 DEF Advanced
<1>3. CASE hand = n - 1
  <2>1. hand + 1 = n
    BY <1>1, <1>3
  <2>2. n % n = 0
    BY <1>1
  <2> QED BY <1>1, <1>3, <2>1, <2>2 DEF Advanced
<1> QED BY <1>1, <1>2, <1>3

\* An access is served only with frames configured.
LEMMA ScanningFrames ==
  ASSUME SieveIInv, NEW page \in Pages
  PROVE  page # EMPTY /\ page # NoPage
BY PagesAssumption DEF EMPTY, NoPage

-------------------------------------------------------------------------------
(* The invariant.                                                          *)

LEMMA SieveStartIInv == SieveStart => SieveIInv
<1> SUFFICES ASSUME SieveStart PROVE SieveIInv
  OBVIOUS
<1>1. SieveTypeOk /\ n = 0
  BY FramesAssumption DEF SieveStart, SieveTypeOk, Slots
<1>2. Frames = {} /\ Occupied = {} /\ 0..(n - 1) = {}
  BY <1>1 DEF Frames, Occupied
<1>3. FramesAgree /\ FillsInOrder
  BY <1>2 DEF FramesAgree, FillsInOrder
<1> QED BY <1>1, <1>3 DEF SieveIInv

LEMMA ConfigureIInv ==
  ASSUME SieveIInv, NEW m \in FrameCounts \cup {0}, SieveInit(m)
  PROVE  SieveIInv'
<1>1. m \in 0..MAX_FRAMES
  BY FramesAssumption
<1>2. SieveTypeOk'
  <2>1. pages' \in [Slots -> Pages \cup {EMPTY, 0}] /\ visited' \in [Slots -> {0, 1}]
    BY DEF SieveIInv, SieveTypeOk, SieveInit
  <2>2. n' \in 0..MAX_FRAMES /\ hand' \in 0..(IF n' = 0 THEN 0 ELSE n' - 1)
    BY <1>1, FramesAssumption DEF SieveInit
  <2> QED BY <2>1, <2>2 DEF SieveIInv, SieveTypeOk, SieveInit
<1>3. \A i \in 0..(m - 1) : pages'[i] = EMPTY /\ visited'[i] = 0
  <2> SUFFICES ASSUME NEW i \in 0..(m - 1) PROVE pages'[i] = EMPTY /\ visited'[i] = 0
    OBVIOUS
  <2>1. i \in Slots /\ i < m
    BY <1>1, FramesAssumption DEF Slots
  <2> QED BY <2>1 DEF SieveInit
<1>4. n' = m /\ hand' = 0 /\ scanning' = NoPage
  BY DEF SieveInit
<1>5. Occupied' = {}
  BY <1>3, <1>4 DEF Occupied
<1>6. FramesAgree'
  BY <1>3, <1>4, <1>5 DEF FramesAgree
<1>7. FillsInOrder'
  <2>1. \A i \in 0..(m - 1) : ~(i < 0)
    BY <1>1
  <2> QED BY <1>3, <1>4, <2>1 DEF FillsInOrder, Frames
<1> QED BY <1>2, <1>4, <1>6, <1>7 DEF SieveIInv

LEMMA SieveHitIInv ==
  ASSUME SieveIInv, NEW page \in Pages, SieveHit(page)
  PROVE  SieveIInv'
<1>1. PICK i \in Frames : pages[i] = page /\ visited' = [visited EXCEPT ![i] = 1]
  BY DEF SieveHit
<1>2. i \in Slots /\ pages[i] # EMPTY
  BY <1>1, HandType, ScanningFrames DEF SieveHit, SieveIInv
<1>3. SieveTypeOk'
  <2>1. visited' \in [Slots -> {0, 1}]
    BY <1>1 DEF SieveIInv, SieveTypeOk
  <2> QED BY <2>1 DEF SieveIInv, SieveTypeOk, SieveHit
<1>4. \A j \in 0..(n - 1) : pages[j] = EMPTY => visited'[j] = 0
  <2> SUFFICES ASSUME NEW j \in 0..(n - 1), pages[j] = EMPTY PROVE visited'[j] = 0
    OBVIOUS
  <2>1. j # i /\ j \in Slots
    BY <1>2, HandType DEF SieveIInv, SieveHit
  <2> QED BY <1>1, <2>1 DEF SieveIInv, SieveTypeOk, FramesAgree
<1>5. FramesAgree'
  BY <1>4 DEF SieveIInv, FramesAgree, Occupied, SieveHit
<1>6. FillsInOrder'
  BY DEF SieveIInv, FillsInOrder, Frames, SieveHit
<1> QED BY <1>3, <1>5, <1>6 DEF SieveIInv, SieveHit

LEMMA FaultIInv ==
  ASSUME SieveIInv, NEW page \in Pages, Fault(page)
  PROVE  SieveIInv'
<1>1. SieveTypeOk'
  BY DEF SieveIInv, SieveTypeOk, Fault
<1>2. FramesAgree'
  BY DEF SieveIInv, FramesAgree, Occupied, Fault, Frames
<1>3. FillsInOrder'
  BY DEF SieveIInv, FillsInOrder, Frames, Fault
<1> QED BY <1>1, <1>2, <1>3 DEF SieveIInv, Fault

\* A scan runs only over configured frames.
ScansFrames == scanning # NoPage => n > 0

\* A frame is spared only when its bit is set, hence occupied, and then all are.
LEMMA SkipIInv ==
  ASSUME SieveIInv, n > 0, Skip
  PROVE  SieveIInv'
<1>1. /\ n \in Nat \ {0} /\ hand \in 0..(n - 1) /\ hand \in Slots
      /\ Frames \subseteq Slots /\ Frames = 0..(n - 1)
  BY HandType DEF SieveIInv
<1>2. pages[hand] # EMPTY
  BY <1>1 DEF SieveIInv, FramesAgree, Skip
<1>3. \A i \in Frames : pages[i] # EMPTY
  BY <1>1, <1>2 DEF SieveIInv, FillsInOrder
<1>4. visited' = [visited EXCEPT ![hand] = 0] /\ hand' \in 0..(n - 1)
  BY AdvancedType DEF Skip, Spared, SieveIInv
<1>5. visited' \in [Slots -> {0, 1}]
  BY <1>4 DEF SieveIInv, SieveTypeOk
<1>6. SieveTypeOk'
  BY <1>1, <1>4, <1>5 DEF SieveIInv, SieveTypeOk, Skip
<1>7. FramesAgree'
  BY <1>1, <1>3 DEF SieveIInv, FramesAgree, Occupied, Skip
<1>8. FillsInOrder'
  BY <1>3 DEF FillsInOrder, Frames, Skip
<1> QED BY <1>6, <1>7, <1>8 DEF SieveIInv, Skip

LEMMA ReplaceIInv ==
  ASSUME SieveIInv, n > 0, Replace
  PROVE  SieveIInv'
<1>1. /\ n \in Nat \ {0} /\ hand \in 0..(n - 1) /\ hand \in Slots
      /\ Frames \subseteq Slots /\ Frames = 0..(n - 1)
  BY HandType DEF SieveIInv
<1>2. scanning \in Pages /\ scanning # EMPTY
  BY ScanningFrames DEF SieveIInv, SieveTypeOk, Replace
<1>3. pages' = [pages EXCEPT ![hand] = scanning] /\ visited' = [visited EXCEPT ![hand] = 0]
  BY DEF Replace
<1>4. pages \in [Slots -> Pages \cup {EMPTY, 0}] /\ visited \in [Slots -> {0, 1}]
  BY DEF SieveIInv, SieveTypeOk
<1>5. /\ hand' \in 0..(n - 1)
      /\ hand < n - 1 => hand' = hand + 1
      /\ hand = n - 1 => hand' = 0
  BY AdvancedType DEF Replace, SieveIInv
<1>6. SieveTypeOk'
  <2>1. pages' \in [Slots -> Pages \cup {EMPTY, 0}] /\ visited' \in [Slots -> {0, 1}]
    BY <1>1, <1>2, <1>3, <1>4
  <2>2. last' \in Pages \cup {NoPage}
    BY <1>2 DEF Replace
  <2> QED BY <1>1, <1>5, <2>1, <2>2 DEF SieveIInv, SieveTypeOk, Replace
<1>7. \A i \in Frames : pages'[i] = IF i = hand THEN scanning ELSE pages[i]
  BY <1>1, <1>3, <1>4
<1>8. \A i \in Frames : visited'[i] = IF i = hand THEN 0 ELSE visited[i]
  BY <1>1, <1>3, <1>4
<1>9. n' = n /\ scanning' = NoPage /\ Frames' = Frames
  BY DEF Replace, Frames
<1>10. \A i \in Frames : pages[i] # scanning
  BY <1>1, <1>2 DEF SieveIInv, FramesAgree, Occupied, Replace
<1>11. FramesAgree'
  <2>1. \A i, j \in Frames : pages'[i] # EMPTY /\ pages'[j] # EMPTY /\ pages'[i] = pages'[j] => i = j
    BY <1>1, <1>7, <1>10 DEF SieveIInv, FramesAgree, Occupied
  <2>2. \A i \in Frames : pages'[i] = EMPTY => visited'[i] = 0
    BY <1>1, <1>2, <1>7, <1>8 DEF SieveIInv, FramesAgree
  <2> QED BY <1>1, <1>9, <2>1, <2>2 DEF FramesAgree, Occupied
<1>12. FillsInOrder'
  <2>1. CASE \A i \in Frames : pages[i] # EMPTY
    BY <1>2, <1>7, <1>9, <2>1 DEF FillsInOrder
  <2>2. CASE (\A i \in Frames : pages[i] # EMPTY <=> i < hand) /\ hand < n - 1
    <3>1. \A i \in Frames : pages'[i] # EMPTY <=> i < hand'
      BY <1>1, <1>2, <1>5, <1>7, <2>2
    <3> QED BY <1>9, <3>1 DEF FillsInOrder
  <2>3. CASE (\A i \in Frames : pages[i] # EMPTY <=> i < hand) /\ hand = n - 1
    <3>1. \A i \in Frames : pages'[i] # EMPTY
      BY <1>1, <1>2, <1>7, <2>3
    <3> QED BY <1>9, <3>1 DEF FillsInOrder
  <2>4. hand < n - 1 \/ hand = n - 1
    BY <1>1
  <2> QED BY <2>1, <2>2, <2>3, <2>4 DEF SieveIInv, FillsInOrder
<1> QED BY <1>6, <1>9, <1>11, <1>12 DEF SieveIInv

LEMMA StepScansFrames == ScansFrames /\ [SieveNext]_sieve_vars => ScansFrames'
<1> SUFFICES ASSUME ScansFrames, [SieveNext]_sieve_vars PROVE ScansFrames'
  OBVIOUS
<1>1. ASSUME NEW m, SieveInit(m) PROVE ScansFrames'
  BY <1>1 DEF SieveInit, ScansFrames
<1>2. CASE SieveReset
  BY <1>1, <1>2 DEF SieveReset
<1>3. ASSUME NEW page \in Pages, SieveHit(page) \/ Fault(page) PROVE ScansFrames'
  BY <1>3 DEF SieveHit, Fault, ScansFrames
<1>4. CASE Skip \/ Replace \/ UNCHANGED sieve_vars
  BY <1>4 DEF Skip, Replace, sieve_vars, ScansFrames
<1> QED BY <1>1, <1>2, <1>3, <1>4 DEF SieveNext

LEMMA SieveStepIInv == SieveIInv /\ ScansFrames /\ [SieveNext]_sieve_vars => SieveIInv'
<1> SUFFICES ASSUME SieveIInv, ScansFrames, [SieveNext]_sieve_vars PROVE SieveIInv'
  OBVIOUS
<1>1. ASSUME NEW m \in FrameCounts, SieveInit(m) PROVE SieveIInv'
  BY <1>1, ConfigureIInv
<1>2. CASE SieveReset
  BY <1>2, ConfigureIInv DEF SieveReset, SieveIInv
<1>3. ASSUME NEW page \in Pages, SieveHit(page) \/ Fault(page) PROVE SieveIInv'
  BY <1>3, SieveHitIInv, FaultIInv
<1>4. CASE Skip
  BY <1>4, SkipIInv DEF ScansFrames, Skip
<1>5. CASE Replace
  BY <1>5, ReplaceIInv DEF ScansFrames, Replace
<1>6. CASE UNCHANGED sieve_vars
  BY <1>6 DEF sieve_vars, SieveIInv, SieveTypeOk, FramesAgree, FillsInOrder, Occupied, Frames
<1> QED BY <1>1, <1>2, <1>3, <1>4, <1>5, <1>6 DEF SieveNext

LEMMA SieveInvariance == SieveSpec => [](SieveIInv /\ ScansFrames)
<1>1. SieveStart => SieveIInv /\ ScansFrames
  BY SieveStartIInv DEF SieveStart, ScansFrames
<1>2. (SieveIInv /\ ScansFrames) /\ [SieveNext]_sieve_vars => (SieveIInv /\ ScansFrames)'
  BY SieveStepIInv, StepScansFrames
<1> QED BY <1>1, <1>2, PTL DEF SieveSpec

\* No page is ever in two frames, and no frame awaits its first page with its bit set,
\* for any sequence of configurations, accesses and resets (sieve.c:36-81).
THEOREM FramesCorrect == SieveSpec => []FramesAgree
<1>1. SieveIInv => FramesAgree
  BY DEF SieveIInv
<1> QED BY <1>1, SieveInvariance, PTL

-------------------------------------------------------------------------------
(* SIEVE implements demand paging.                                         *)

Held == {pages[i] : i \in Occupied}

\* The instance's Cardinality is the one of the library theorems.
LEMMA SieveSameCardinality == \A S : SievePaging!Cardinality(S) = Cardinality(S)
BY DEF SievePaging!Cardinality, Cardinality, SievePaging!IsFiniteSet, IsFiniteSet

\* As many pages are held as frames are occupied.
LEMMA HeldCount ==
  ASSUME SieveIInv, n > 0
  PROVE  /\ (\A i \in Frames : pages[i] # EMPTY) => SievePaging!Cardinality(Held) = n
         /\ (\E i \in Frames : pages[i] = EMPTY) => SievePaging!Cardinality(Held) < n
<1>1. n \in Nat \ {0} /\ Frames = 0..(n - 1)
  BY HandType DEF SieveIInv
<1>2. IsFiniteSet(0..(n - 1)) /\ Cardinality(0..(n - 1)) = n
  BY <1>1, FS_Interval
<1>3. Occupied \in SUBSET (0..(n - 1))
  BY DEF Occupied
<1>4. /\ IsFiniteSet(Occupied) /\ Cardinality(Occupied) <= n
      /\ Cardinality(Occupied) = n => Occupied = 0..(n - 1)
  BY <1>2, <1>3, FS_Subset
<1>5. Cardinality(Occupied) \in Nat
  BY <1>4, FS_CardinalityType
<1>6. Cardinality(Held) = Cardinality(Occupied)
  <2> DEFINE f == [i \in Occupied |-> pages[i]]
  <2>1. f \in [Occupied -> Held]
    BY DEF Held
  <2>2. \A i, j \in Occupied : f[i] = f[j] => i = j
    BY DEF SieveIInv, FramesAgree
  <2>3. \A x \in Held : \E i \in Occupied : f[i] = x
    BY DEF Held
  <2> HIDE DEF f
  <2>4. f \in Bijection(Occupied, Held)
    BY <2>1, <2>2, <2>3 DEF Bijection, Injection, Surjection, IsInjective
  <2>5. ExistsBijection(Occupied, Held)
    BY <2>4 DEF ExistsBijection
  <2> QED BY <1>4, <2>5, FS_Bijection
<1>7. SievePaging!Cardinality(Held) = Cardinality(Occupied)
  BY <1>6, SieveSameCardinality
<1>8. ASSUME \A i \in Frames : pages[i] # EMPTY PROVE Cardinality(Occupied) = n
  <2>1. Occupied = 0..(n - 1)
    BY <1>1, <1>8 DEF Occupied
  <2> QED BY <1>2, <2>1
<1>9. ASSUME NEW i \in Frames, pages[i] = EMPTY PROVE Cardinality(Occupied) < n
  <2>1. Occupied # 0..(n - 1)
    BY <1>1, <1>9 DEF Occupied
  <2> QED BY <1>1, <1>4, <1>5, <2>1
<1> QED BY <1>7, <1>8, <1>9

\* What leaves the frames alone leaves the pages held alone.
LEMMA SameHeld == UNCHANGED <<pages, n>> => Held' = Held
BY DEF Held, Occupied

LEMMA ConfigureRefines ==
  ASSUME NEW m \in FrameCounts \cup {0}, SieveInit(m)
  PROVE  SievePaging!Configure(m)
<1>1. m \in 0..MAX_FRAMES
  BY FramesAssumption
<1>2. \A i \in 0..(m - 1) : pages'[i] = EMPTY
  <2> SUFFICES ASSUME NEW i \in 0..(m - 1) PROVE pages'[i] = EMPTY
    OBVIOUS
  <2>1. i \in Slots /\ i < m
    BY <1>1, FramesAssumption DEF Slots
  <2> QED BY <2>1 DEF SieveInit
<1>3. n' = m
  BY DEF SieveInit
<1>4. Occupied' = {}
  BY <1>2, <1>3 DEF Occupied
<1> QED BY <1>3, <1>4 DEF SieveInit, SievePaging!Configure

LEMMA HitRefines ==
  ASSUME SieveIInv, NEW page \in Pages, SieveHit(page)
  PROVE  SievePaging!Hit(page)
<1>1. PICK i \in Frames : pages[i] = page
  BY DEF SieveHit
<1>2. i \in Occupied
  BY <1>1, ScanningFrames DEF Occupied, Frames
<1>3. page \in Held
  BY <1>1, <1>2 DEF Held
<1>4. Held' = Held
  BY SameHeld DEF SieveHit
<1> QED BY <1>3, <1>4 DEF SieveHit, Held, SievePaging!Hit

\* The frame the hand has stopped at loses its page, if it had one.
LEMMA ReplaceRefines ==
  ASSUME SieveIInv, n > 0, Replace, NEW page \in Pages, page = scanning
  PROVE  SievePaging!Load(page) \/ SievePaging!Replace(page)
<1>1. /\ n \in Nat \ {0} /\ hand \in 0..(n - 1) /\ hand \in Slots
      /\ Frames \subseteq Slots /\ Frames = 0..(n - 1)
  BY HandType DEF SieveIInv
<1>2. scanning \in Pages /\ scanning # EMPTY
  BY ScanningFrames DEF SieveIInv, SieveTypeOk, Replace
<1>3. pages' = [pages EXCEPT ![hand] = scanning] /\ n' = n
  BY DEF Replace
<1>4. \A i \in Frames : pages'[i] = IF i = hand THEN scanning ELSE pages[i]
  BY <1>1, <1>3 DEF SieveIInv, SieveTypeOk
<1>5. scanning \notin Held
  BY <1>1 DEF SieveIInv, FramesAgree, Replace, Held
<1>6. Occupied' = Occupied \cup {hand}
  BY <1>1, <1>2, <1>3, <1>4 DEF Occupied
<1>7. hand \notin Occupied => Held' = Held \cup {scanning}
  BY <1>1, <1>4, <1>6 DEF Held, Occupied
<1>8. hand \in Occupied => Held' = (Held \ {pages[hand]}) \cup {scanning}
  <2> SUFFICES ASSUME hand \in Occupied PROVE Held' = (Held \ {pages[hand]}) \cup {scanning}
    OBVIOUS
  <2>1. Occupied' = Occupied
    BY <1>6
  <2>2. Occupied \subseteq Frames
    BY DEF Occupied, Frames
  <2>3. Held \ {pages[hand]} = {pages[i] : i \in Occupied \ {hand}}
    BY DEF SieveIInv, FramesAgree, Held
  <2>4. Held' = {pages'[i] : i \in Occupied}
    BY <2>1 DEF Held
  <2> QED BY <1>4, <2>2, <2>3, <2>4
<1>9. CASE pages[hand] = EMPTY
  <2>1. SievePaging!Cardinality(Held) < n
    BY <1>1, <1>9, HeldCount
  <2>2. Held' = Held \cup {scanning}
    BY <1>7, <1>9 DEF Occupied
  <2>3. SievePaging!Load(page)
    BY <1>5, <2>1, <2>2 DEF Replace, Held, SievePaging!Load
  <2> QED BY <2>3
<1>10. CASE pages[hand] # EMPTY
  <2>1. hand \in Occupied
    BY <1>1, <1>10 DEF Occupied
  <2>2. \A i \in Frames : pages[i] # EMPTY
    BY <1>1, <1>10 DEF SieveIInv, FillsInOrder
  <2>3. SievePaging!Cardinality(Held) = n
    BY <2>2, HeldCount
  <2>4. pages[hand] \in Held
    BY <2>1 DEF Held
  <2>5. Held' = (Held \ {pages[hand]}) \cup {scanning}
    BY <1>8, <2>1
  <2>6. SievePaging!Replace(page)
    BY <1>5, <2>3, <2>4, <2>5 DEF Replace, Held, SievePaging!Replace
  <2> QED BY <2>6
<1> QED BY <1>9, <1>10

\* The same in terms of the pages held.
LEMMA SieveHitServes ==
  ASSUME SieveIInv, NEW page \in Pages, SieveHit(page)
  PROVE  page \in Held /\ reply' = "HIT" /\ Held' = Held
BY HitRefines DEF SievePaging!Hit, Held

LEMMA SieveReplaceServes ==
  ASSUME SieveIInv, n > 0, Replace, NEW page \in Pages, page = scanning
  PROVE  /\ page \notin Held /\ reply' = "FAULT"
         /\ \/ Cardinality(Held) < n /\ Held' = Held \cup {page}
            \/ /\ Cardinality(Held) = n
               /\ \E v \in Held : Held' = (Held \ {v}) \cup {page}
BY ReplaceRefines, SieveSameCardinality DEF SievePaging!Load, SievePaging!Replace, Held

\* sieve_access answers HIT exactly for a page in a frame, and evicts one page, and only
\* when no frame is free, for any pages and any number of frames; the turns of the scan
\* change nothing an observer of the policy sees.
THEOREM SieveRefinement == SieveSpec => SieveRefinesDemandPaging
<1>1. SieveStart => SievePaging!Init
  <2> SUFFICES ASSUME SieveStart PROVE SievePaging!Init
    OBVIOUS
  <2>1. Occupied = {}
    BY DEF SieveStart, Occupied
  <2> QED BY <2>1 DEF SieveStart, SievePaging!Init
<1>2. (SieveIInv /\ ScansFrames) /\ [SieveNext]_sieve_vars => [SievePaging!Next]_(SievePaging!vars)
  <2> SUFFICES ASSUME SieveIInv, ScansFrames, [SieveNext]_sieve_vars PROVE [SievePaging!Next]_(SievePaging!vars)
    OBVIOUS
  <2>1. ASSUME NEW m \in FrameCounts, SieveInit(m) PROVE SievePaging!Next
    <3>1. SievePaging!Configure(m)
      BY <2>1, ConfigureRefines
    <3> QED BY <3>1 DEF SievePaging!Next
  <2>2. ASSUME SieveReset PROVE SievePaging!Next
    <3>1. PICK m \in FrameCounts \cup {0} : SieveInit(m)
      BY <2>2 DEF SieveReset, SieveIInv
    <3>2. SievePaging!Configure(m)
      BY <3>1, ConfigureRefines
    <3> QED BY <3>2 DEF SievePaging!Next
  <2>3. ASSUME NEW page \in Pages, SieveHit(page) PROVE SievePaging!Next
    <3>1. SievePaging!Hit(page)
      BY <2>3, HitRefines
    <3> QED BY <3>1 DEF SievePaging!Next
  <2>4. ASSUME UNCHANGED <<pages, n, last, reply>> PROVE UNCHANGED SievePaging!vars
    <3>1. Held' = Held
      BY <2>4, SameHeld
    <3> QED BY <2>4, <3>1 DEF Held, SievePaging!vars
  <2>5. ASSUME NEW page \in Pages, Fault(page) PROVE UNCHANGED SievePaging!vars
    BY <2>4, <2>5 DEF Fault
  <2>6. ASSUME Skip PROVE UNCHANGED SievePaging!vars
    BY <2>4, <2>6 DEF Skip
  <2>7. ASSUME Replace PROVE SievePaging!Next
    <3>1. n > 0
      BY <2>7 DEF ScansFrames, Replace
    <3>2. PICK page \in Pages : page = scanning
      BY <2>7 DEF SieveIInv, SieveTypeOk, Replace
    <3>3. SievePaging!Load(page) \/ SievePaging!Replace(page)
      BY <2>7, <3>1, <3>2, ReplaceRefines
    <3> QED BY <3>3 DEF SievePaging!Next
  <2>8. ASSUME UNCHANGED sieve_vars PROVE UNCHANGED SievePaging!vars
    BY <2>4, <2>8 DEF sieve_vars
  <2> QED BY <2>1, <2>2, <2>3, <2>5, <2>6, <2>7, <2>8 DEF SieveNext
<1> QED BY <1>1, <1>2, SieveInvariance, PTL DEF SieveSpec, SieveRefinesDemandPaging, SievePaging!Spec
-------------------------------------------------------------------------------
(* The array as a FIFO queue with second chances.                          *)

\* The frame a turns after the first, on an array of m frames.
Wrap(m, a) == IF a < m THEN a ELSE a - m

LEMMA WrapIs ==
  ASSUME NEW m \in Nat \ {0}, NEW a \in 0..(2 * m - 1)
  PROVE  a % m = Wrap(m, a) /\ Wrap(m, a) \in 0..(m - 1)
<1>1. CASE a < m
  <2>1. a % m = a
    BY <1>1
  <2> QED BY <1>1, <2>1 DEF Wrap
<1>2. CASE ~(a < m)
  <2>1. PICK b \in 0..(m - 1) : b = a - m
    BY <1>2
  <2>2. b % m = b
    OBVIOUS
  <2>3. (b + m) % m = b % m
    OBVIOUS
  <2>4. a = b + m
    BY <2>1
  <2> QED BY <1>2, <2>1, <2>2, <2>3, <2>4 DEF Wrap
<1> QED BY <1>1, <1>2

\* The frame whose page is the k-th of the queue, the hand being at h.
Place(full, h, m, k) == IF full THEN Wrap(m, h + (k - 1)) ELSE k - 1
Filled == \A i \in Frames : pages[i] # EMPTY

\* The queue holds the pages of the first m places.
QueueIs(m) ==
  /\ m \in Nat /\ Queue = [k \in 1..m |-> [page |-> pages[Place(Filled, hand, n, k)],
                                           bit  |-> visited[Place(Filled, hand, n, k)]]]
  /\ \A k \in 1..m : Place(Filled, hand, n, k) \in Occupied
  /\ \A i \in Occupied : \E k \in 1..m : Place(Filled, hand, n, k) = i
  /\ \A j, k \in 1..m : Place(Filled, hand, n, j) = Place(Filled, hand, n, k) => j = k

\* All frames are read from the hand on when they are filled, and those before the hand
\* when they are not.
LEMMA QueuePlaces ==
  ASSUME SieveIInv, n > 0
  PROVE  QueueIs(IF Filled THEN n ELSE hand)
<1>1. /\ n \in Nat \ {0} /\ hand \in 0..(n - 1) /\ hand \in Nat
      /\ Frames = 0..(n - 1)
  BY HandType DEF SieveIInv
<1>2. Queue = [k \in 1..Cardinality(Occupied) |->
                 [page |-> pages[(hand + ((n - Cardinality(Occupied)) + (k - 1))) % n],
                  bit  |-> visited[(hand + ((n - Cardinality(Occupied)) + (k - 1))) % n]]]
  BY DEF Queue, AtTurn
<1>3. CASE Filled
  <2>1. Occupied = 0..(n - 1)
    BY <1>1, <1>3 DEF Filled, Occupied
  <2>2. Cardinality(Occupied) = n
    <3>1. Cardinality(0..(n - 1)) = n
      BY <1>1, FS_Interval
    <3> QED BY <2>1, <3>1
  <2>3. ASSUME NEW k \in 1..n
        PROVE  /\ (hand + ((n - n) + (k - 1))) % n = Wrap(n, hand + (k - 1))
               /\ Wrap(n, hand + (k - 1)) \in 0..(n - 1)
    <3>1. hand + (k - 1) \in 0..(2 * n - 1) /\ (n - n) + (k - 1) = k - 1
      BY <1>1
    <3>2. /\ (hand + (k - 1)) % n = Wrap(n, hand + (k - 1))
          /\ Wrap(n, hand + (k - 1)) \in 0..(n - 1)
      BY <1>1, <3>1, WrapIs
    <3> QED BY <3>1, <3>2
  <2>4. Queue = [k \in 1..n |-> [page |-> pages[Wrap(n, hand + (k - 1))],
                                 bit  |-> visited[Wrap(n, hand + (k - 1))]]]
    BY <1>2, <2>2, <2>3
  <2>5. \A k \in 1..n : Place(Filled, hand, n, k) = Wrap(n, hand + (k - 1))
    BY <1>3 DEF Place
  <2>6. ASSUME NEW i \in 0..(n - 1) PROVE \E k \in 1..n : Wrap(n, hand + (k - 1)) = i
    <3>1. CASE i >= hand
      <4>1. PICK k \in 1..n : k = (i - hand) + 1
        BY <1>1, <3>1
      <4>2. hand + (k - 1) = i /\ i < n
        BY <1>1, <4>1
      <4> QED BY <4>2 DEF Wrap
    <3>2. CASE ~(i >= hand)
      <4>1. PICK k \in 1..n : k = ((i - hand) + n) + 1
        BY <1>1, <3>2
      <4>2. hand + (k - 1) = i + n /\ ~(i + n < n) /\ (i + n) - n = i
        BY <1>1, <4>1
      <4> QED BY <4>2 DEF Wrap
    <3> QED BY <3>1, <3>2
  <2>7. ASSUME NEW j \in 1..n, NEW k \in 1..n,
               Wrap(n, hand + (j - 1)) = Wrap(n, hand + (k - 1))
        PROVE  j = k
    BY <1>1, <2>7 DEF Wrap
  <2>8. Queue = [k \in 1..n |-> [page |-> pages[Place(Filled, hand, n, k)],
                                 bit  |-> visited[Place(Filled, hand, n, k)]]]
    BY <2>4, <2>5
  <2>9. /\ \A k \in 1..n : Place(Filled, hand, n, k) \in Occupied
        /\ \A i \in Occupied : \E k \in 1..n : Place(Filled, hand, n, k) = i
        /\ \A j, k \in 1..n : Place(Filled, hand, n, j) = Place(Filled, hand, n, k) => j = k
    BY <2>1, <2>3, <2>5, <2>6, <2>7
  <2>10. QueueIs(n)
    BY <1>1, <2>8, <2>9 DEF QueueIs
  <2> QED BY <1>3, <2>10
<1>4. CASE ~Filled
  <2>1. \A i \in Frames : pages[i] # EMPTY <=> i < hand
    BY <1>4 DEF SieveIInv, FillsInOrder, Filled
  <2>2. Occupied = 0..(hand - 1)
    BY <1>1, <2>1 DEF Occupied
  <2>3. Cardinality(Occupied) = hand
    <3>1. Cardinality(0..(hand - 1)) = hand
      BY <1>1, FS_Interval
    <3> QED BY <2>2, <3>1
  <2>4. ASSUME NEW k \in 1..hand
        PROVE  (hand + ((n - hand) + (k - 1))) % n = k - 1
    <3>1. hand + ((n - hand) + (k - 1)) = n + (k - 1) /\ k - 1 \in 0..(n - 1)
      BY <1>1
    <3>2. n + (k - 1) \in 0..(2 * n - 1) /\ ~(n + (k - 1) < n) /\ (n + (k - 1)) - n = k - 1
      BY <1>1, <3>1
    <3>3. (n + (k - 1)) % n = Wrap(n, n + (k - 1))
      BY <1>1, <3>2, WrapIs
    <3> QED BY <3>1, <3>2, <3>3 DEF Wrap
  <2>5. Queue = [k \in 1..hand |-> [page |-> pages[k - 1], bit |-> visited[k - 1]]]
    BY <1>2, <2>3, <2>4
  <2>6. \A k \in 1..hand : Place(Filled, hand, n, k) = k - 1
    BY <1>4 DEF Place
  <2>7. \A i \in 0..(hand - 1) : i + 1 \in 1..hand /\ (i + 1) - 1 = i
    BY <1>1
  <2>8. \A k \in 1..hand : k - 1 \in 0..(hand - 1)
    BY <1>1
  <2>9. Queue = [k \in 1..hand |-> [page |-> pages[Place(Filled, hand, n, k)],
                                    bit  |-> visited[Place(Filled, hand, n, k)]]]
    BY <2>5, <2>6
  <2>10. /\ \A k \in 1..hand : Place(Filled, hand, n, k) \in Occupied
         /\ \A i \in Occupied : \E k \in 1..hand : Place(Filled, hand, n, k) = i
    BY <2>2, <2>6, <2>7, <2>8
  <2>11. \A j, k \in 1..hand : j - 1 = k - 1 => j = k
    BY <1>1
  <2>12. \A j, k \in 1..hand : Place(Filled, hand, n, j) = Place(Filled, hand, n, k) => j = k
    BY <2>6, <2>11
  <2>13. QueueIs(hand)
    BY <1>1, <2>9, <2>10, <2>12 DEF QueueIs
  <2> QED BY <1>4, <2>13
<1> QED BY <1>3, <1>4

\* An entry of the queue, and the one read at the k-th place.
Entry == [page : Pages \cup {EMPTY, 0}, bit : {0, 1}]
Read(k) == [page |-> pages[Place(Filled, hand, n, k)], bit |-> visited[Place(Filled, hand, n, k)]]
\* How many places are read: all frames, or those the hand has filled.
QueueRead == n > 0 => QueueIs(IF Filled THEN n ELSE hand)

LEMMA QueueType ==
  ASSUME SieveIInv, n > 0, NEW m, QueueIs(m)
  PROVE  /\ m \in Nat /\ Queue \in Seq(Entry) /\ Len(Queue) = m /\ DOMAIN Queue = 1..m
         /\ \A k \in 1..m : Queue[k] = Read(k) /\ Read(k) \in Entry
<1>1. m \in Nat /\ Queue = [k \in 1..m |-> Read(k)]
  BY DEF QueueIs, Read
<1>2. \A k \in 1..m : Place(Filled, hand, n, k) \in Slots
  BY HandType DEF QueueIs, Occupied, SieveIInv, Frames
<1>3. \A k \in 1..m : Read(k) \in Entry
  BY <1>2 DEF SieveIInv, SieveTypeOk, Entry, Read
<1>4. Queue \in [1..m -> Entry]
  BY <1>1, <1>3
<1>5. Queue \in Seq(Entry) /\ Len(Queue) = m
  <2> HIDE DEF Queue, Entry
  <2> QED BY <1>1, <1>4
<1> QED BY <1>1, <1>3, <1>5

\* What leaves at the front and what enters at the back.
LEMMA Rotated ==
  ASSUME NEW S, NEW s \in Seq(S), NEW m \in Nat \ {0}, Len(s) = m, NEW e \in S
  PROVE  [k \in 1..m |-> IF k < m THEN s[k + 1] ELSE e] = Append(Tail(s), e)
<1> DEFINE r == [k \in 1..m |-> IF k < m THEN s[k + 1] ELSE e]
           t == Tail(s)
           u == Append(t, e)
<1>1. t \in Seq(S) /\ Len(t) = m - 1 /\ \A k \in 1..(m - 1) : t[k] = s[k + 1]
  OBVIOUS
<1>2. /\ u \in Seq(S) /\ Len(u) = (m - 1) + 1
      /\ \A k \in 1..((m - 1) + 1) : u[k] = IF k <= m - 1 THEN t[k] ELSE e
  <2> HIDE DEF t
  <2> QED BY <1>1
<1>3. u = [k \in 1..m |-> u[k]]
  <2> HIDE DEF u, t
  <2> QED BY <1>2
<1>4. \A k \in 1..m : u[k] = IF k < m THEN s[k + 1] ELSE e
  <2> HIDE DEF u, t
  <2> QED BY <1>1, <1>2
<1> HIDE DEF u, t
<1>5. u = r
  BY <1>3, <1>4
<1> QED BY <1>5 DEF u, t

LEMMA Grown ==
  ASSUME NEW S, NEW s \in Seq(S), NEW m \in Nat, Len(s) = m, NEW e \in S
  PROVE  [k \in 1..(m + 1) |-> IF k <= m THEN s[k] ELSE e] = Append(s, e)
<1> DEFINE r == [k \in 1..(m + 1) |-> IF k <= m THEN s[k] ELSE e]
           u == Append(s, e)
<1>1. /\ u \in Seq(S) /\ Len(u) = m + 1
      /\ \A k \in 1..(m + 1) : u[k] = IF k <= m THEN s[k] ELSE e
  OBVIOUS
<1>2. u = [k \in 1..(m + 1) |-> u[k]]
  <2> HIDE DEF u
  <2> QED BY <1>1
<1> HIDE DEF u
<1>3. u = r
  BY <1>1, <1>2
<1> QED BY <1>3 DEF u

\* The hand leaves a frame of a filled array: its entry goes to the back as it then is.
LEMMA TurnQueue ==
  ASSUME SieveIInv, n > 0, Filled, Filled', QueueRead, QueueRead',
         n' = n, hand' = Advanced,
         \A i \in Frames : i # hand => pages'[i] = pages[i] /\ visited'[i] = visited[i],
         NEW e \in Entry, e = [page |-> pages'[hand], bit |-> visited'[hand]]
  PROVE  /\ Queue' = Append(Tail(Queue), e)
         /\ Queue \in Seq(Entry) /\ Len(Queue) = n
         /\ Queue[1] = [page |-> pages[hand], bit |-> visited[hand]]
<1>1. n \in Nat \ {0} /\ hand \in 0..(n - 1) /\ Frames = 0..(n - 1)
  BY HandType DEF SieveIInv
<1>2. Advanced = IF hand < n - 1 THEN hand + 1 ELSE 0
  BY <1>1, AdvancedType DEF SieveIInv
<1>3. QueueIs(n)
  BY DEF QueueRead
<1>4. /\ Queue \in Seq(Entry) /\ Len(Queue) = n
      /\ \A k \in 1..n : Queue[k] = Read(k)
  BY <1>3, QueueType
<1>5. \A k \in 1..n : Read(k) = [page |-> pages[Wrap(n, hand + (k - 1))],
                                 bit  |-> visited[Wrap(n, hand + (k - 1))]]
  BY DEF Read, Place
<1>6. Queue' = [k \in 1..n |-> [page |-> pages'[Wrap(n, Advanced + (k - 1))],
                                bit  |-> visited'[Wrap(n, Advanced + (k - 1))]]]
  BY DEF QueueRead, QueueIs, Place
<1>7. Wrap(n, hand + (1 - 1)) = hand /\ 1 \in 1..n
  BY <1>1 DEF Wrap
<1>8. ASSUME NEW k \in 1..n, k < n
      PROVE  /\ Wrap(n, Advanced + (k - 1)) = Wrap(n, hand + ((k + 1) - 1)) /\ k + 1 \in 1..n
             /\ Wrap(n, hand + ((k + 1) - 1)) # hand /\ Wrap(n, hand + ((k + 1) - 1)) \in Frames
  BY <1>1, <1>2, <1>8 DEF Wrap
<1>9. Wrap(n, Advanced + (n - 1)) = hand
  BY <1>1, <1>2 DEF Wrap
<1>10. \A k \in 1..n : [page |-> pages'[Wrap(n, Advanced + (k - 1))],
                        bit  |-> visited'[Wrap(n, Advanced + (k - 1))]] =
                       IF k < n THEN Queue[k + 1] ELSE e
  <2> SUFFICES ASSUME NEW k \in 1..n
               PROVE  [page |-> pages'[Wrap(n, Advanced + (k - 1))],
                       bit  |-> visited'[Wrap(n, Advanced + (k - 1))]] =
                      IF k < n THEN Queue[k + 1] ELSE e
    OBVIOUS
  <2>1. CASE k < n
    <3>1. PICK i \in Frames : i = Wrap(n, hand + ((k + 1) - 1)) /\ i # hand
      BY <1>8, <2>1
    <3>2. Queue[k + 1] = [page |-> pages[i], bit |-> visited[i]]
      BY <1>4, <1>5, <1>8, <2>1, <3>1
    <3>3. pages'[i] = pages[i] /\ visited'[i] = visited[i]
      BY <3>1
    <3>4. Wrap(n, Advanced + (k - 1)) = i
      BY <1>8, <2>1, <3>1
    <3> QED BY <2>1, <3>2, <3>3, <3>4
  <2>2. CASE k = n
    BY <1>1, <1>9, <2>2
  <2> QED BY <1>1, <2>1, <2>2
<1>11. Queue' = [k \in 1..n |-> IF k < n THEN Queue[k + 1] ELSE e]
  BY <1>6, <1>10
<1>12. [k \in 1..n |-> IF k < n THEN Queue[k + 1] ELSE e] = Append(Tail(Queue), e)
  <2> HIDE DEF Queue, Entry
  <2> QED BY <1>1, <1>4, Rotated
<1> QED BY <1>4, <1>5, <1>7, <1>11, <1>12

\* A set bit is cleared and its page goes to the back of the queue.
LEMMA SkipSpares ==
  ASSUME SieveIInv, SieveIInv', n > 0, QueueRead, QueueRead', Skip
  PROVE  Fifo!Spare
<1>1. /\ n \in Nat \ {0} /\ hand \in Frames /\ hand \in Slots /\ Frames \subseteq Slots
      /\ ~(hand < hand)
  BY HandType DEF SieveIInv
<1>2. pages[hand] # EMPTY
  BY <1>1 DEF SieveIInv, FramesAgree, Skip, Frames
<1>3. Filled
  BY <1>1, <1>2 DEF SieveIInv, FillsInOrder, Filled
<1>4. Filled'
  BY <1>3 DEF Filled, Frames, Skip
<1>5. /\ visited' = [visited EXCEPT ![hand] = 0]
      /\ pages' = pages /\ n' = n /\ hand' = Advanced /\ visited \in [Slots -> {0, 1}]
      /\ pages[hand] \in Pages \cup {EMPTY, 0}
  BY <1>1 DEF Skip, Spared, SieveIInv, SieveTypeOk
<1>6. visited[hand] = 1 /\ visited'[hand] = 0
  BY <1>1, <1>5 DEF Skip
<1>7. \A i \in Frames : i # hand => pages'[i] = pages[i] /\ visited'[i] = visited[i]
  BY <1>1, <1>5
<1>8. PICK e \in Entry : e = [page |-> pages[hand], bit |-> 0]
  BY <1>5 DEF Entry
<1>9. e = [page |-> pages'[hand], bit |-> visited'[hand]]
  BY <1>5, <1>6, <1>8
<1>10. /\ Queue' = Append(Tail(Queue), e) /\ Len(Queue) = n
       /\ Queue[1] = [page |-> pages[hand], bit |-> visited[hand]]
  BY <1>3, <1>4, <1>5, <1>7, <1>9, TurnQueue
<1>11. [Queue[1] EXCEPT !.bit = 0] = e /\ Queue[1].bit = 1
  BY <1>6, <1>8, <1>10
<1> QED BY <1>5, <1>10, <1>11 DEF Fifo!Spare, Skip

\* A page that is found a frame enters at the back, and the front leaves unless a frame
\* was free.
LEMMA ReplaceInserts ==
  ASSUME SieveIInv, SieveIInv', n > 0, QueueRead, QueueRead', Replace
  PROVE  Fifo!Insert
<1>1. /\ n \in Nat \ {0} /\ hand \in Frames /\ hand \in Slots /\ Frames \subseteq Slots
      /\ Frames = 0..(n - 1) /\ hand \in Nat
  BY HandType DEF SieveIInv
<1>2. scanning \in Pages /\ scanning # EMPTY /\ scanning # NoPage
  BY ScanningFrames DEF SieveIInv, SieveTypeOk, Replace
<1>3. /\ pages' = [pages EXCEPT ![hand] = scanning] /\ visited' = [visited EXCEPT ![hand] = 0]
      /\ n' = n /\ hand' = Advanced /\ scanning' = NoPage /\ visited[hand] = 0
  BY DEF Replace
<1>4. pages \in [Slots -> Pages \cup {EMPTY, 0}] /\ visited \in [Slots -> {0, 1}]
  BY DEF SieveIInv, SieveTypeOk
<1>5. \A i \in Frames : i # hand => pages'[i] = pages[i] /\ visited'[i] = visited[i]
  BY <1>1, <1>3, <1>4
<1>6. pages'[hand] = scanning /\ visited'[hand] = 0
  BY <1>1, <1>3, <1>4
<1>7. PICK e \in Entry : e = [page |-> scanning, bit |-> 0]
  BY <1>2 DEF Entry
<1>8. e = [page |-> pages'[hand], bit |-> visited'[hand]]
  BY <1>6, <1>7
<1>9. CASE Filled
  <2>1. Filled'
    BY <1>1, <1>2, <1>3, <1>5, <1>6, <1>9 DEF Filled, Frames
  <2>2. /\ Queue' = Append(Tail(Queue), e) /\ Len(Queue) = n
        /\ Queue[1] = [page |-> pages[hand], bit |-> visited[hand]]
    BY <1>3, <1>5, <1>8, <1>9, <2>1, TurnQueue
  <2>3. Queue[1].bit = 0
    BY <1>3, <2>2
  <2> QED BY <1>2, <1>3, <1>7, <2>2, <2>3 DEF Fifo!Insert
<1>10. CASE ~Filled
  <2>1. \A i \in Frames : pages[i] # EMPTY <=> i < hand
    BY <1>10 DEF SieveIInv, FillsInOrder, Filled
  <2>2. QueueIs(hand)
    BY <1>10 DEF QueueRead
  <2>3. /\ Queue \in Seq(Entry) /\ Len(Queue) = hand
        /\ \A k \in 1..hand : Queue[k] = Read(k)
    BY <2>2, QueueType
  <2>4. \A k \in 1..hand : Queue[k] = [page |-> pages[k - 1], bit |-> visited[k - 1]]
    BY <1>10, <2>3 DEF Read, Place
  <2>5. /\ hand < n - 1 => Advanced = hand + 1
        /\ hand = n - 1 => Advanced = 0
    BY AdvancedType DEF SieveIInv
  <2>6. Queue' = [k \in 1..(hand + 1) |-> [page |-> pages'[k - 1], bit |-> visited'[k - 1]]]
    <3>1. CASE hand < n - 1
      <4>1. hand + 1 \in Frames /\ hand + 1 # hand /\ ~(hand + 1 < hand)
        BY <1>1, <3>1
      <4>2. pages'[hand + 1] = EMPTY
        BY <1>5, <2>1, <4>1
      <4>3. ~Filled'
        BY <1>3, <4>1, <4>2 DEF Filled, Frames
      <4>4. Queue' = [k \in 1..hand' |-> [page |-> pages'[k - 1], bit |-> visited'[k - 1]]]
        BY <1>1, <1>3, <4>3 DEF QueueRead, QueueIs, Place
      <4> QED BY <1>3, <2>5, <3>1, <4>4
    <3>2. CASE hand = n - 1
      <4>1. \A i \in Frames : pages'[i] # EMPTY
        BY <1>1, <1>2, <1>5, <1>6, <2>1, <3>2
      <4>2. Filled'
        BY <1>3, <4>1 DEF Filled, Frames
      <4>3. Queue' = [k \in 1..n |-> [page |-> pages'[Wrap(n, 0 + (k - 1))],
                                      bit  |-> visited'[Wrap(n, 0 + (k - 1))]]]
        BY <1>1, <1>3, <2>5, <3>2, <4>2 DEF QueueRead, QueueIs, Place
      <4>4. \A k \in 1..n : Wrap(n, 0 + (k - 1)) = k - 1
        BY <1>1 DEF Wrap
      <4>5. Queue' = [k \in 1..n |-> [page |-> pages'[k - 1], bit |-> visited'[k - 1]]]
        BY <4>3, <4>4
      <4>6. hand + 1 = n
        BY <1>1, <3>2
      <4> QED BY <4>5, <4>6
    <3> QED BY <1>1, <3>1, <3>2
  <2>7. ASSUME NEW k \in 1..(hand + 1)
        PROVE  [page |-> pages'[k - 1], bit |-> visited'[k - 1]] = IF k <= hand THEN Queue[k] ELSE e
    <3>1. CASE k <= hand
      <4>1. k - 1 \in Frames /\ k - 1 # hand /\ k \in 1..hand
        BY <1>1, <3>1
      <4>2. pages'[k - 1] = pages[k - 1] /\ visited'[k - 1] = visited[k - 1]
        BY <1>5, <4>1
      <4> QED BY <2>4, <3>1, <4>1, <4>2
    <3>2. CASE ~(k <= hand)
      <4>1. k - 1 = hand
        BY <1>1, <3>2
      <4> QED BY <1>8, <3>2, <4>1
    <3> QED BY <3>1, <3>2
  <2>8. Queue' = [k \in 1..(hand + 1) |-> IF k <= hand THEN Queue[k] ELSE e]
    BY <2>6, <2>7
  <2>9. [k \in 1..(hand + 1) |-> IF k <= hand THEN Queue[k] ELSE e] = Append(Queue, e)
    <3> HIDE DEF Queue, Entry
    <3> QED BY <1>1, <2>3, Grown
  <2>10. hand < n
    BY <1>1
  <2> QED BY <1>2, <1>3, <1>7, <2>3, <2>8, <2>9, <2>10 DEF Fifo!Insert
<1> QED BY <1>9, <1>10

LEMMA HitMarks ==
  ASSUME SieveIInv, SieveIInv', QueueRead, QueueRead', NEW page \in Pages, SieveHit(page)
  PROVE  Fifo!Hit(page)
<1>1. n > 0 /\ pages' = pages /\ n' = n /\ hand' = hand /\ scanning' = scanning
  BY DEF SieveHit
<1>2. PICK i \in Frames : pages[i] = page /\ visited' = [visited EXCEPT ![i] = 1]
  BY DEF SieveHit
<1>3. i \in Occupied
  BY <1>2, ScanningFrames DEF Occupied, Frames
<1>4. PICK m : m = IF Filled THEN n ELSE hand
  OBVIOUS
<1>5. QueueIs(m)
  BY <1>1, <1>4 DEF QueueRead
<1>6. /\ m \in Nat /\ Queue \in Seq(Entry) /\ DOMAIN Queue = 1..m
      /\ \A k \in 1..m : Queue[k] = Read(k) /\ Read(k) \in Entry
  BY <1>1, <1>5, QueueType
<1>7. PICK k \in 1..m : Place(Filled, hand, n, k) = i
  BY <1>3, <1>5 DEF QueueIs
<1>8. Filled' = Filled
  BY <1>1 DEF Filled, Frames
<1>9. Queue' = [j \in 1..m |-> [page |-> pages[Place(Filled, hand, n, j)],
                                bit  |-> visited'[Place(Filled, hand, n, j)]]]
  BY <1>1, <1>4, <1>8 DEF QueueRead, QueueIs
<1>10. Queue[k] = [page |-> pages[i], bit |-> visited[i]] /\ Queue[k].page = page
  <2>1. Read(k) = [page |-> pages[i], bit |-> visited[i]]
    BY <1>7 DEF Read
  <2> QED BY <1>2, <1>6, <2>1
<1>11. ASSUME NEW j \in 1..m
       PROVE  [page |-> pages[Place(Filled, hand, n, j)], bit |-> visited'[Place(Filled, hand, n, j)]]
                = IF j = k THEN [Queue[j] EXCEPT !.bit = 1] ELSE Queue[j]
  <2>0. visited \in [Slots -> {0, 1}] /\ i \in Slots
    BY <1>1, HandType DEF SieveIInv, SieveTypeOk
  <2>1. CASE j = k
    <3>1. visited'[i] = 1
      BY <1>2, <2>0
    <3>2. [page |-> pages[i], bit |-> 1] = [Queue[k] EXCEPT !.bit = 1]
      BY <1>10
    <3> QED BY <1>7, <2>1, <3>1, <3>2
  <2>2. CASE j # k
    <3>1. Place(Filled, hand, n, j) # i /\ Place(Filled, hand, n, j) \in Slots
      BY <1>1, <1>5, <1>7, <2>2, HandType DEF QueueIs, SieveIInv, Occupied, Frames
    <3>2. visited'[Place(Filled, hand, n, j)] = visited[Place(Filled, hand, n, j)]
      BY <1>2, <2>0, <3>1
    <3> QED BY <1>6, <2>2, <3>2 DEF Read
  <2> QED BY <2>1, <2>2
<1>12. Queue' = [j \in 1..m |-> IF j = k THEN [Queue[j] EXCEPT !.bit = 1] ELSE Queue[j]]
  BY <1>9, <1>11
<1>13. [Queue EXCEPT ![k].bit = 1] =
         [j \in 1..m |-> IF j = k THEN [Queue[j] EXCEPT !.bit = 1] ELSE Queue[j]]
  <2> HIDE DEF Queue, Entry
  <2> QED BY <1>6
<1>14. k \in DOMAIN Queue
  BY <1>6
<1> QED BY <1>1, <1>10, <1>12, <1>13, <1>14 DEF Fifo!Hit, SieveHit

\* What leaves the array alone leaves the queue alone.
LEMMA SameQueue == UNCHANGED <<pages, visited, hand, n>> => Queue' = Queue
BY DEF Queue, AtTurn, Occupied

\* Every behaviour of sieve.c is one of a FIFO queue with second chances: a hit sets the
\* bit of a queued page, a turn of the scan (sieve.c:62-65) moves the front to the back,
\* and a new page enters at the back, the front leaving when no frame was free.  The hand
\* going round the array makes it a queue.  RefinesSecondChance adds to it that a scan
\* ends.
THEOREM SecondChances == SieveSpec => Fifo!Init /\ [][Fifo!Next]_(Fifo!vars)
<1>1. SieveStart => Fifo!Init
  <2> SUFFICES ASSUME SieveStart PROVE Fifo!Init
    OBVIOUS
  <2>1. Occupied = {}
    BY DEF SieveStart, Occupied
  <2>2. Cardinality(Occupied) = 0
    BY <2>1, FS_EmptySet
  <2>3. Queue = <<>>
    BY <2>2 DEF Queue
  <2> QED BY <2>3 DEF SieveStart, Fifo!Init
<1>2. SieveIInv => QueueRead
  BY QueuePlaces DEF QueueRead
<1>3. /\ SieveIInv /\ ScansFrames /\ QueueRead /\ SieveIInv' /\ QueueRead' /\ [SieveNext]_sieve_vars
      => [Fifo!Next]_(Fifo!vars)
  <2> SUFFICES ASSUME SieveIInv, ScansFrames, QueueRead, SieveIInv', QueueRead', [SieveNext]_sieve_vars
               PROVE  [Fifo!Next]_(Fifo!vars)
    OBVIOUS
  <2>1. ASSUME NEW m \in FrameCounts \cup {0}, SieveInit(m) PROVE Fifo!Next
    <3>1. m \in 0..MAX_FRAMES
      BY FramesAssumption
    <3>2. \A i \in 0..(m - 1) : pages'[i] = EMPTY
      <4> SUFFICES ASSUME NEW i \in 0..(m - 1) PROVE pages'[i] = EMPTY
        OBVIOUS
      <4>1. i \in Slots /\ i < m
        BY <3>1, FramesAssumption DEF Slots
      <4> QED BY <2>1, <4>1 DEF SieveInit
    <3>3. n' = m
      BY <2>1 DEF SieveInit
    <3>4. Occupied' = {}
      BY <3>2, <3>3 DEF Occupied
    <3>5. Cardinality(Occupied') = 0
      BY <3>4, FS_EmptySet
    <3>6. Queue' = <<>>
      BY <3>5 DEF Queue
    <3>7. Fifo!Configure(m)
      BY <2>1, <3>3, <3>6 DEF SieveInit, Fifo!Configure
    <3> QED BY <3>7 DEF Fifo!Next
  <2>2. ASSUME SieveReset PROVE Fifo!Next
    <3>1. PICK m \in FrameCounts \cup {0} : SieveInit(m)
      BY <2>2 DEF SieveReset, SieveIInv
    <3> QED BY <2>1, <3>1
  <2>3. ASSUME NEW page \in Pages, SieveHit(page) PROVE Fifo!Next
    <3>1. Fifo!Hit(page)
      BY <2>3, HitMarks
    <3> QED BY <3>1 DEF Fifo!Next
  <2>4. ASSUME NEW page \in Pages, Fault(page) PROVE Fifo!Next
    <3>1. Queue' = Queue /\ n > 0
      BY <2>4, SameQueue DEF Fault
    <3>2. PICK m : m = IF Filled THEN n ELSE hand
      OBVIOUS
    <3>3. QueueIs(m)
      BY <3>1, <3>2 DEF QueueRead
    <3>4. /\ DOMAIN Queue = 1..m /\ \A k \in 1..m : Queue[k] = Read(k)
      BY <3>1, <3>3, QueueType
    <3>5. ASSUME NEW k \in 1..m PROVE Queue[k].page # page
      <4>1. Place(Filled, hand, n, k) \in Frames
        BY <3>3 DEF QueueIs, Occupied, Frames
      <4>2. pages[Place(Filled, hand, n, k)] # page
        BY <2>4, <4>1 DEF Fault
      <4> QED BY <3>4, <4>2 DEF Read
    <3>6. page \notin Fifo!Queued
      BY <3>4, <3>5 DEF Fifo!Queued
    <3>7. Fifo!Miss(page)
      BY <2>4, <3>1, <3>6 DEF Fault, Fifo!Miss
    <3> QED BY <3>7 DEF Fifo!Next
  <2>5. ASSUME Skip PROVE Fifo!Next
    <3>1. n > 0
      BY <2>5 DEF ScansFrames, Skip
    <3>2. Fifo!Spare
      BY <2>5, <3>1, SkipSpares
    <3> QED BY <3>2 DEF Fifo!Next
  <2>6. ASSUME Replace PROVE Fifo!Next
    <3>1. n > 0
      BY <2>6 DEF ScansFrames, Replace
    <3>2. Fifo!Insert
      BY <2>6, <3>1, ReplaceInserts
    <3> QED BY <3>2 DEF Fifo!Next
  <2>7. ASSUME UNCHANGED sieve_vars PROVE UNCHANGED Fifo!vars
    <3>1. Queue' = Queue
      BY <2>7, SameQueue DEF sieve_vars
    <3> QED BY <2>7, <3>1 DEF sieve_vars, Fifo!vars
  <2> QED BY <2>1, <2>2, <2>3, <2>4, <2>5, <2>6, <2>7 DEF SieveNext
<1> QED BY <1>1, <1>2, <1>3, SieveInvariance, PTL DEF SieveSpec

-------------------------------------------------------------------------------
(* lfu.c in a scan: no page is met again while it is held.                 *)

\* After j accesses of s, slots sl, the first sz of them occupied, hold the pages of the
\* last m accesses, each used once, at a time of its own.
LfuScanned(sl, sz, clock, m, s, j) ==
  /\ clock = j /\ (sz < m => sz = j)
  /\ \A q \in 0..(sz - 1) :
       /\ sl[q].freq = 1
       /\ sl[q].last_time \in 1..j /\ j - sl[q].last_time < m
       /\ sl[q].page = s[sl[q].last_time]
  /\ \A q, r \in 0..(sz - 1) : sl[q].last_time = sl[r].last_time => q = r

\* The page of the next access is none of the last m.
Unseen(m, s, j) == \A t \in 1..j : j - t < m => s[t] # s[j + 1]

LEMMA LfuScanStart ==
  ASSUME NEW sl, NEW m, NEW s
  PROVE  LfuScanned(sl, 0, 0, m, s, 0)
<1>1. 0..(0 - 1) = {}
  OBVIOUS
<1> QED BY <1>1 DEF LfuScanned

\* The access that loads x into slot v.
LEMMA LfuLoads ==
  ASSUME IInv, NEW s, NEW j \in Nat, lfu_clock = j, NEW v \in 0..(cap - 1), Load(v, s[j + 1])
  PROVE  /\ slots'[v] = [page |-> s[j + 1], freq |-> 1, last_time |-> j + 1]
         /\ \A q \in 0..(cap - 1) : q # v => slots'[q] = slots[q]
<1>1. cap \in 0..MAX_FRAMES /\ DOMAIN slots = 0..(MAX_FRAMES - 1) /\ MAX_FRAMES \in Nat
  BY FramesAssumption DEF IInv, TypeOk, Slots
<1>2. \A q \in 0..(cap - 1) : q \in DOMAIN slots
  BY <1>1
<1>3. slots' = [slots EXCEPT ![v] = [page |-> s[j + 1], freq |-> 1, last_time |-> j + 1]]
  BY DEF Load
<1> QED BY <1>2, <1>3

LEMMA LfuScanMisses ==
  ASSUME IInv, NEW s, NEW j \in Nat, LfuScanned(slots, size, lfu_clock, cap, s, j),
         Unseen(cap, s, j), s[j + 1] \in Pages
  PROVE  s[j + 1] \notin Resident /\ SlotsOf(s[j + 1]) = {}
<1> DEFINE x == s[j + 1]
<1>1. \A q \in 0..(size - 1) : slots[q].page # x
  BY DEF LfuScanned, Unseen
<1>2. x \notin Resident
  BY <1>1 DEF Resident
<1>3. SUFFICES ASSUME NEW q \in SlotsOf(x) PROVE FALSE
  BY <1>2
<1> HIDE DEF x
<1>4. q \in 0..(cap - 1) /\ slots[q].page = x /\ cap \in Nat /\ size \in 0..cap
  BY FramesAssumption DEF SlotsOf, InUse, IInv, TypeOk
<1>5. x # EMPTY
  BY PagesAreNotEmpty DEF x
<1>6. q < size
  BY <1>4, <1>5 DEF IInv, SlotsAgree, InUse
<1> QED BY <1>1, <1>4, <1>6

LEMMA LfuScanFree ==
  ASSUME IInv, NEW s, NEW j \in Nat, LfuScanned(slots, size, lfu_clock, cap, s, j),
         LoadFree(s[j + 1])
  PROVE  LfuScanned(slots', size', lfu_clock', cap, s, j + 1)
<1>1. cap \in Nat /\ size \in Nat /\ size < cap /\ size' = size + 1 /\ lfu_clock' = lfu_clock + 1
  BY FramesAssumption DEF IInv, TypeOk, LoadFree, Observe
<1>2. /\ lfu_clock = j /\ size = j
      /\ \A q \in 0..(size - 1) :
           /\ slots[q].freq = 1
           /\ slots[q].last_time \in 1..j /\ j - slots[q].last_time < cap
           /\ slots[q].page = s[slots[q].last_time]
      /\ \A q, r \in 0..(size - 1) : slots[q].last_time = slots[r].last_time => q = r
  BY <1>1 DEF LfuScanned
<1>3. PICK v \in 0..(cap - 1) : FirstFree(v) /\ Load(v, s[j + 1])
  BY DEF LoadFree, InUse
<1>4. \A q \in 0..(cap - 1) : slots[q].page # EMPTY <=> q < size
  BY DEF IInv, SlotsAgree, InUse
<1>5. v = size
  <2>1. ~(v < size)
    BY <1>3, <1>4 DEF FirstFree
  <2>2. ~(size < v)
    <3> SUFFICES ASSUME size < v PROVE FALSE
      OBVIOUS
    <3>1. size \in 0..(v - 1) /\ size \in 0..(cap - 1)
      BY <1>1
    <3> QED BY <1>3, <1>4, <3>1 DEF FirstFree
  <2> QED BY <1>1, <2>1, <2>2
<1>6. /\ slots'[v] = [page |-> s[j + 1], freq |-> 1, last_time |-> j + 1]
      /\ \A q \in 0..(cap - 1) : q # v => slots'[q] = slots[q]
  BY <1>2, <1>3, LfuLoads
<1>7. \A q \in 0..(size - 1) : slots'[q] = slots[q]
  <2>1. \A q \in 0..(size - 1) : q \in 0..(cap - 1) /\ q # v
    BY <1>1, <1>5
  <2> QED BY <1>6, <2>1
<1>8. \A q \in 0..(size' - 1) : q = v \/ q \in 0..(size - 1)
  BY <1>1, <1>5
<1>9. \A q \in 0..(size' - 1) :
        /\ slots'[q].freq = 1
        /\ slots'[q].last_time \in 1..(j + 1) /\ (j + 1) - slots'[q].last_time < cap
        /\ slots'[q].page = s[slots'[q].last_time]
  <2> SUFFICES ASSUME NEW q \in 0..(size' - 1)
               PROVE  /\ slots'[q].freq = 1
                      /\ slots'[q].last_time \in 1..(j + 1) /\ (j + 1) - slots'[q].last_time < cap
                      /\ slots'[q].page = s[slots'[q].last_time]
    OBVIOUS
  <2>1. CASE q = v
    BY <1>1, <1>6, <2>1
  <2>2. CASE q \in 0..(size - 1)
    <3> DEFINE t == slots[q].last_time
    <3>1. t \in 1..j /\ slots'[q] = slots[q] /\ slots[q].freq = 1 /\ slots[q].page = s[t]
      BY <1>2, <1>7, <2>2
    <3> HIDE DEF t
    <3>2. t \in 1..(j + 1) /\ (j + 1) - t < cap
      BY <1>1, <1>2, <3>1
    <3> QED BY <3>1, <3>2 DEF t
  <2> QED BY <1>8, <2>1, <2>2
<1>10. \A q, r \in 0..(size' - 1) : slots'[q].last_time = slots'[r].last_time => q = r
  <2>1. slots'[v].last_time = j + 1
    BY <1>6
  <2>2. \A q \in 0..(size - 1) :
          slots'[q].last_time = slots[q].last_time /\ slots[q].last_time # j + 1
    BY <1>2, <1>7
  <2> QED BY <1>2, <1>8, <2>1, <2>2
<1>11. lfu_clock' = j + 1 /\ size' = j + 1
  BY <1>1, <1>2
<1> QED BY <1>9, <1>10, <1>11 DEF LfuScanned

\* Of pages used once each, the victim is the one used longest ago.
LEMMA LfuScanEvict ==
  ASSUME IInv, NEW s, NEW j \in Nat, LfuScanned(slots, size, lfu_clock, cap, s, j),
         LoadEvict(s[j + 1])
  PROVE  LfuScanned(slots', size', lfu_clock', cap, s, j + 1)
<1>1. /\ cap \in Nat /\ cap > 0 /\ size = cap /\ size' = cap /\ lfu_clock' = lfu_clock + 1
      /\ slots \in [0..(MAX_FRAMES - 1) -> [page : Pages \cup {EMPTY, 0}, freq : Nat, last_time : Nat]]
      /\ \A q \in 0..(cap - 1) : q \in 0..(MAX_FRAMES - 1)
  BY FramesAssumption DEF IInv, TypeOk, LoadEvict, Observe, Slots
<1>2. /\ lfu_clock = j
      /\ \A q \in 0..(cap - 1) :
           /\ slots[q].freq = 1
           /\ slots[q].last_time \in 1..j /\ j - slots[q].last_time < cap
           /\ slots[q].page = s[slots[q].last_time]
      /\ \A q, r \in 0..(cap - 1) : slots[q].last_time = slots[r].last_time => q = r
  BY <1>1 DEF LfuScanned
<1>3. PICK v \in 0..(cap - 1) : (\A q \in 0..(cap - 1) : ~Better(q, v)) /\ Load(v, s[j + 1])
  BY DEF LoadEvict, InUse
<1>4. \A q \in 0..(cap - 1) : q # v => slots[q].last_time > slots[v].last_time
  <2> SUFFICES ASSUME NEW q \in 0..(cap - 1), q # v PROVE slots[q].last_time > slots[v].last_time
    OBVIOUS
  <2>1. slots[q].freq = slots[v].freq /\ ~Better(q, v)
    BY <1>2, <1>3
  <2>2. ~(slots[q].last_time < slots[v].last_time) /\ slots[q].last_time # slots[v].last_time
    BY <1>2, <2>1 DEF Better
  <2>3. slots[q].last_time \in Nat /\ slots[v].last_time \in Nat
    BY <1>1
  <2> QED BY <2>2, <2>3
<1>5. /\ slots'[v] = [page |-> s[j + 1], freq |-> 1, last_time |-> j + 1]
      /\ \A q \in 0..(cap - 1) : q # v => slots'[q] = slots[q]
  BY <1>2, <1>3, LfuLoads
<1>6. \A q \in 0..(cap - 1) :
        /\ slots'[q].freq = 1
        /\ slots'[q].last_time \in 1..(j + 1) /\ (j + 1) - slots'[q].last_time < cap
        /\ slots'[q].page = s[slots'[q].last_time]
  <2> SUFFICES ASSUME NEW q \in 0..(cap - 1)
               PROVE  /\ slots'[q].freq = 1
                      /\ slots'[q].last_time \in 1..(j + 1) /\ (j + 1) - slots'[q].last_time < cap
                      /\ slots'[q].page = s[slots'[q].last_time]
    OBVIOUS
  <2>1. CASE q = v
    BY <1>1, <1>5, <2>1
  <2>2. CASE q # v
    <3> DEFINE tv == slots[v].last_time
               tq == slots[q].last_time
    <3>1. /\ tv \in 1..j /\ j - tv < cap /\ tq \in 1..j /\ tq > tv
          /\ slots'[q] = slots[q] /\ slots[q].freq = 1 /\ slots[q].page = s[tq]
      BY <1>2, <1>4, <1>5, <2>2
    <3> HIDE DEF tv, tq
    <3>2. tq \in 1..(j + 1) /\ (j + 1) - tq < cap
      BY <1>1, <3>1
    <3> QED BY <3>1, <3>2 DEF tq
  <2> QED BY <2>1, <2>2
<1>7. \A q, r \in 0..(cap - 1) : slots'[q].last_time = slots'[r].last_time => q = r
  <2>1. slots'[v].last_time = j + 1
    BY <1>5
  <2>2. \A q \in 0..(cap - 1) :
          q # v => slots'[q].last_time = slots[q].last_time /\ slots[q].last_time # j + 1
    BY <1>2, <1>5
  <2> QED BY <1>2, <2>1, <2>2
<1>8. lfu_clock' = j + 1 /\ size' = cap /\ ~(cap < cap)
  BY <1>1, <1>2
<1> QED BY <1>6, <1>7, <1>8 DEF LfuScanned

\* lfu.c faults on an access of a scan, and is then ready for the next.
LEMMA LfuScanStep ==
  ASSUME IInv, NEW s, NEW j \in Nat, LfuScanned(slots, size, lfu_clock, cap, s, j),
         Unseen(cap, s, j), s[j + 1] \in Pages,
         Hit(s[j + 1]) \/ LoadFree(s[j + 1]) \/ LoadEvict(s[j + 1])
  PROVE  LfuScanned(slots', size', lfu_clock', cap, s, j + 1)
<1>1. ~Hit(s[j + 1])
  BY LfuScanMisses DEF Hit
<1> QED BY <1>1, LfuScanFree, LfuScanEvict

-------------------------------------------------------------------------------
(* sieve.c in a scan: no bit is ever set, and the hand goes round.         *)

\* How many accesses ago frame q of m was filled, when the hand is at h.
FilledAgo(h, m, q) == IF q < h THEN h - q ELSE (h + m) - q

\* After j accesses of s, no bit of vis is set and frame q of pg holds the page of the
\* access that filled it, if any.
SieveScanned(pg, vis, h, m, s, j) ==
  \A q \in 0..(m - 1) :
    /\ vis[q] = 0
    /\ FilledAgo(h, m, q) <= j => pg[q] = s[(j + 1) - FilledAgo(h, m, q)]
    /\ FilledAgo(h, m, q) > j => pg[q] = EMPTY

\* The arrays once they were cleared.
LEMMA SieveScanStart ==
  ASSUME NEW m \in FrameCounts, NEW s, SieveInit(m)
  PROVE  SieveScanned(pages', visited', hand', n', s, 0)
<1>1. m \in Nat /\ m <= MAX_FRAMES /\ MAX_FRAMES \in Nat
  BY FramesAssumption
<1>2. \A q \in 0..(m - 1) : q \in Slots /\ q < m
  BY <1>1 DEF Slots
<1>3. n' = m /\ hand' = 0 /\ \A q \in 0..(m - 1) : pages'[q] = EMPTY /\ visited'[q] = 0
  BY <1>2 DEF SieveInit
<1>4. \A q \in 0..(m - 1) : FilledAgo(0, m, q) > 0 /\ ~(FilledAgo(0, m, q) <= 0)
  BY <1>1 DEF FilledAgo
<1> QED BY <1>3, <1>4 DEF SieveScanned

LEMMA SieveScanMisses ==
  ASSUME SieveIInv, n > 0, NEW s, NEW j \in Nat, SieveScanned(pages, visited, hand, n, s, j),
         Unseen(n, s, j), s[j + 1] \in Pages
  PROVE  s[j + 1] \notin Held /\ ~SieveHit(s[j + 1])
<1>1. hand \in 0..(n - 1) /\ n \in Nat
  BY HandType, FramesAssumption DEF SieveIInv, SieveTypeOk
<1>2. \A q \in 0..(n - 1) : pages[q] # s[j + 1]
  <2> SUFFICES ASSUME NEW q \in 0..(n - 1), pages[q] = s[j + 1] PROVE FALSE
    OBVIOUS
  <2> DEFINE e == FilledAgo(hand, n, q)
  <2>1. e \in 1..n
    BY <1>1 DEF FilledAgo
  <2>2. (e <= j => pages[q] = s[(j + 1) - e]) /\ (e > j => pages[q] = EMPTY)
    BY DEF SieveScanned
  <2> HIDE DEF e
  <2>3. ~(e > j)
    BY <2>2, PagesAreNotEmpty
  <2>4. (j + 1) - e \in 1..j /\ j - ((j + 1) - e) < n
    BY <1>1, <2>1, <2>3
  <2> QED BY <2>1, <2>2, <2>3, <2>4 DEF Unseen
<1> QED BY <1>2 DEF Held, Occupied, SieveHit, Frames

\* No frame is spared.
LEMMA SieveScanStays ==
  ASSUME SieveIInv, n > 0, NEW s, NEW j, SieveScanned(pages, visited, hand, n, s, j),
         NEW x, Fault(x) \/ Skip
  PROVE  UNCHANGED <<pages, visited, hand, n>>
<1>1. hand \in 0..(n - 1)
  BY HandType DEF SieveIInv
<1>2. visited[hand] = 0
  BY <1>1 DEF SieveScanned
<1> QED BY <1>2 DEF Fault, Skip

\* sieve.c replaces the frame filled longest ago.
LEMMA SieveScanStep ==
  ASSUME SieveIInv, n > 0, NEW s, NEW j \in Nat, SieveScanned(pages, visited, hand, n, s, j),
         scanning = s[j + 1], Replace
  PROVE  SieveScanned(pages', visited', hand', n', s, j + 1)
<1> DEFINE next == IF hand < n - 1 THEN hand + 1 ELSE 0
<1>1. /\ hand \in 0..(n - 1) /\ n \in Nat /\ 0..(n - 1) \subseteq Slots
      /\ DOMAIN pages = Slots /\ DOMAIN visited = Slots
  BY HandType, FramesAssumption DEF SieveIInv, SieveTypeOk, Slots
<1>2. Advanced = next
  BY <1>1, AdvancedType DEF SieveIInv
<1>3. /\ pages' = [pages EXCEPT ![hand] = s[j + 1]] /\ visited' = [visited EXCEPT ![hand] = 0]
      /\ hand' = next /\ n' = n
  BY <1>2 DEF Replace
<1> HIDE DEF next
<1>4. SUFFICES ASSUME NEW q \in 0..(n - 1)
               PROVE  /\ visited'[q] = 0
                      /\ FilledAgo(next, n, q) <= j + 1 =>
                           pages'[q] = s[((j + 1) + 1) - FilledAgo(next, n, q)]
                      /\ FilledAgo(next, n, q) > j + 1 => pages'[q] = EMPTY
  BY <1>3 DEF SieveScanned
<1>5. visited'[q] = 0
  BY <1>1, <1>3 DEF SieveScanned
<1>6. CASE q = hand
  <2>1. FilledAgo(next, n, q) = 1
    BY <1>1, <1>6 DEF FilledAgo, next
  <2>2. pages'[q] = s[j + 1] /\ ((j + 1) + 1) - 1 = j + 1 /\ ~(1 > j + 1)
    BY <1>1, <1>3, <1>6
  <2> QED BY <1>5, <2>1, <2>2
<1>7. CASE q # hand
  <2> DEFINE e == FilledAgo(hand, n, q)
  <2>1. FilledAgo(next, n, q) = e + 1 /\ e \in Nat
    BY <1>1, <1>7 DEF FilledAgo, next
  <2>2. pages'[q] = pages[q]
    BY <1>1, <1>3, <1>7
  <2>3. (e <= j => pages[q] = s[(j + 1) - e]) /\ (e > j => pages[q] = EMPTY)
    BY DEF SieveScanned
  <2> HIDE DEF e
  <2>4. (e + 1 <= j + 1 => e <= j) /\ (e + 1 > j + 1 => e > j) /\ ((j + 1) + 1) - (e + 1) = (j + 1) - e
    BY <2>1
  <2> QED BY <1>5, <2>1, <2>2, <2>3, <2>4
<1> QED BY <1>6, <1>7
===============================================================================
