------------------------------ MODULE ListProofs ------------------------------
(***************************************************************************)
(* Lemmas the proofs of several components rest on: induction over the     *)
(* natural numbers and the existence of the values a bounded loop goes     *)
(* through, what the operators of Lists do to a list of distinct pages,    *)
(* that those of LinkedList do the same to the links of a list, and what   *)
(* those of EdgeLists do to an adjacency list.                             *)
(***************************************************************************)
EXTENDS Lists, LinkedList, EdgeLists, FiniteSets, FiniteSetTheorems, FunctionTheorems,
        SequenceTheorems, WellFoundedInduction, TLAPS

-------------------------------------------------------------------------------
(* Induction and iteration.  The parameters are sets and functions, since  *)
(* no prover instantiates an operator.                                     *)

\* A set that holds 0 and the successor of every number it holds, holds every number.
LEMMA SetInduction ==
  ASSUME NEW S, 0 \in S, \A k \in Nat : k \in S => k + 1 \in S
  PROVE  \A n \in Nat : n \in S
<1> DEFINE T == {n \in Nat : n \notin S}
<1>1. SUFFICES ASSUME T # {} PROVE FALSE
  OBVIOUS
<1>2. IsWellFoundedOn(OpToRel(<, Nat), Nat)
  BY NatLessThanWellFounded
<1>3. PICK x \in T : \A y \in T : ~(<<y, x>> \in OpToRel(<, Nat))
  <2>1. T \subseteq Nat
    OBVIOUS
  <2> QED BY <1>1, <1>2, <2>1, WFMin
<1>4. \A y \in T : ~(y < x)
  BY <1>3 DEF OpToRel
<1>5. x # 0
  OBVIOUS
<1>6. x - 1 \in Nat /\ x - 1 < x
  BY <1>5
<1>7. x - 1 \in S
  BY <1>4, <1>6
<1>8. (x - 1) + 1 \in S
  BY <1>6, <1>7
<1> QED BY <1>8

\* A non-empty set of natural numbers has a least element.
LEMMA LeastNumber ==
  ASSUME NEW T \in SUBSET Nat, T # {}
  PROVE  \E n \in T : \A m \in T : n <= m
<1> DEFINE S == {n \in Nat : \A m \in T : n <= m}
<1>1. 0 \in S
  OBVIOUS
<1>2. SUFFICES ASSUME \A n \in T : \E m \in T : ~(n <= m) PROVE FALSE
  OBVIOUS
<1>3. ASSUME NEW k \in Nat, k \in S PROVE k + 1 \in S
  <2>1. k \notin T
    BY <1>2, <1>3
  <2> QED BY <1>3, <2>1
<1>4. \A n \in Nat : n \in S
  <2> HIDE DEF S
  <2> QED BY <1>1, <1>3, SetInduction
<1>5. PICK t \in T : TRUE
  OBVIOUS
<1>6. t + 1 \in S
  BY <1>4
<1> QED BY <1>6

\* A loop of n turns, turn k being the function step[k] on X, has a run from x0.
LEMMA IterExists ==
  ASSUME NEW X, NEW x0 \in X, NEW n \in Nat, NEW step \in [1..n -> [X -> X]]
  PROVE  \E f \in [0..n -> X] : f[0] = x0 /\ \A k \in 1..n : f[k] = step[k][f[k - 1]]
<1> DEFINE Run(m, f) == f[0] = x0 /\ \A k \in 1..m : f[k] = step[k][f[k - 1]]
           S == {m \in Nat : m <= n => \E f \in [0..m -> X] : Run(m, f)}
<1>1. 0 \in S
  <2> DEFINE f == [k \in 0..0 |-> x0]
  <2>1. f \in [0..0 -> X] /\ Run(0, f)
    OBVIOUS
  <2> QED BY <2>1
<1>2. ASSUME NEW m \in Nat, m \in S PROVE m + 1 \in S
  <2>1. SUFFICES ASSUME m + 1 <= n PROVE \E g \in [0..m+1 -> X] : Run(m + 1, g)
    OBVIOUS
  <2>2. PICK f \in [0..m -> X] : Run(m, f)
    BY <1>2, <2>1
  <2> DEFINE g == [k \in 0..m+1 |-> IF k = m + 1 THEN step[m + 1][f[m]] ELSE f[k]]
  <2>3. g \in [0..m+1 -> X]
    BY <2>1
  <2>4. Run(m + 1, g)
    BY <2>1, <2>2
  <2> QED BY <2>3, <2>4
<1>3. n \in S
  <2> HIDE DEF S
  <2> QED BY <1>1, <1>2, SetInduction
<1> QED BY <1>3

\* A function on 1..n is a sequence of length n.
LEMMA IsSequence ==
  ASSUME NEW S, NEW n \in Nat, NEW s \in [1..n -> S]
  PROVE  s \in Seq(S) /\ Len(s) = n
BY SeqDef

\* Overwriting an entry of a sequence gives a sequence of the same length.
LEMMA SeqUpdate ==
  ASSUME NEW S, NEW s \in Seq(S), NEW i, NEW e, i \in 1..Len(s) => e \in S
  PROVE  [s EXCEPT ![i] = e] \in Seq(S) /\ Len([s EXCEPT ![i] = e]) = Len(s)
<1>1. s \in [1..Len(s) -> S] /\ Len(s) \in Nat
  BY LenProperties
<1>2. CASE i \in 1..Len(s)
  BY <1>2, ExceptSeq
<1>3. CASE i \notin 1..Len(s)
  <2>1. [s EXCEPT ![i] = e] = s
    BY <1>1, <1>3
  <2> QED BY <2>1
<1> QED BY <1>2, <1>3

-------------------------------------------------------------------------------
(* Lists of distinct pages.                                                *)

\* x is pushed in front of the pages of s.
LEMMA PushFrontType ==
  ASSUME NEW S, NEW s \in Seq(S), NEW x \in S
  PROVE  /\ PushFront(s, x) \in Seq(S)
         /\ Len(PushFront(s, x)) = Len(s) + 1
         /\ PushFront(s, x)[1] = x
         /\ \A j \in 2..(Len(s) + 1) : PushFront(s, x)[j] = s[j - 1]
<1> DEFINE r == PushFront(s, x)
<1>1. Len(s) \in Nat /\ DOMAIN s = 1..Len(s) /\ \A j \in 1..Len(s) : s[j] \in S
  OBVIOUS
<1>2. \A j \in 1..(Len(s) + 1) : (IF j = 1 THEN x ELSE s[j - 1]) \in S
  BY <1>1
<1>3. r \in [1..(Len(s) + 1) -> S]
  BY <1>2 DEF PushFront
<1>4. r \in Seq(S) /\ Len(r) = Len(s) + 1
  BY <1>1, <1>3
<1>5. \A j \in 1..(Len(s) + 1) : r[j] = IF j = 1 THEN x ELSE s[j - 1]
  BY DEF PushFront
<1> HIDE DEF r
<1> QED BY <1>1, <1>4, <1>5 DEF r

LEMMA PushFrontMembers ==
  ASSUME NEW S, NEW s \in Seq(S), NEW x \in S
  PROVE  Members(PushFront(s, x)) = Members(s) \cup {x}
<1> DEFINE r == PushFront(s, x)
<1>1. /\ r \in Seq(S) /\ Len(r) = Len(s) + 1 /\ r[1] = x
      /\ \A j \in 2..(Len(s) + 1) : r[j] = s[j - 1]
  BY PushFrontType
<1>2. Len(s) \in Nat /\ DOMAIN s = 1..Len(s) /\ DOMAIN r = 1..(Len(s) + 1)
  BY <1>1
<1> HIDE DEF r
<1>3. ASSUME NEW i \in DOMAIN r PROVE r[i] \in Members(s) \cup {x}
  <2>1. CASE i = 1
    BY <1>1, <2>1
  <2>2. CASE i # 1
    <3>1. i \in 2..(Len(s) + 1) /\ i - 1 \in DOMAIN s
      BY <1>2, <2>2
    <3> QED BY <1>1, <3>1 DEF Members
  <2> QED BY <2>1, <2>2
<1>4. ASSUME NEW i \in DOMAIN s PROVE s[i] \in Members(r)
  <2>1. i + 1 \in DOMAIN r /\ r[i + 1] = s[i]
    BY <1>1, <1>2
  <2> QED BY <1>1, <2>1 DEF Members
<1>5. x \in Members(r)
  BY <1>1, <1>2 DEF Members
<1>6. Members(r) \subseteq Members(s) \cup {x}
  BY <1>3 DEF Members
<1>7. Members(s) \subseteq Members(r)
  BY <1>4 DEF Members
<1>8. Members(r) = Members(s) \cup {x}
  BY <1>5, <1>6, <1>7
<1> QED BY <1>8 DEF r

LEMMA PushFrontDistinct ==
  ASSUME NEW S, NEW s \in Seq(S), NEW x \in S, Distinct(s), x \notin Members(s)
  PROVE  Distinct(PushFront(s, x))
<1> DEFINE r == PushFront(s, x)
<1>1. /\ r \in Seq(S) /\ Len(r) = Len(s) + 1 /\ r[1] = x
      /\ \A j \in 2..(Len(s) + 1) : r[j] = s[j - 1]
  BY PushFrontType
<1>2. Len(s) \in Nat /\ DOMAIN s = 1..Len(s) /\ DOMAIN r = 1..(Len(s) + 1)
  BY <1>1
<1> HIDE DEF r
<1>3. \A j \in 2..(Len(s) + 1) : r[j] # x
  <2> SUFFICES ASSUME NEW j \in 2..(Len(s) + 1) PROVE r[j] # x
    OBVIOUS
  <2>1. j - 1 \in DOMAIN s
    BY <1>2
  <2> QED BY <1>1, <2>1 DEF Members
<1>4. ASSUME NEW i \in DOMAIN r, NEW j \in DOMAIN r, r[i] = r[j] PROVE i = j
  <2>1. CASE i = 1 \/ j = 1
    BY <1>1, <1>2, <1>3, <1>4, <2>1
  <2>2. CASE i # 1 /\ j # 1
    <3>1. i \in 2..(Len(s) + 1) /\ j \in 2..(Len(s) + 1) /\ i - 1 \in DOMAIN s /\ j - 1 \in DOMAIN s
      BY <1>2, <2>2
    <3>2. s[i - 1] = s[j - 1]
      BY <1>1, <1>4, <3>1
    <3>3. i - 1 = j - 1
      BY <3>1, <3>2 DEF Distinct
    <3> QED BY <3>1, <3>3
  <2> QED BY <2>1, <2>2
<1> QED BY <1>4 DEF Distinct, r

\* A new page in front of a list of distinct pages.
LEMMA PushFrontList ==
  ASSUME NEW S, NEW s \in Seq(S), NEW x \in S, Distinct(s), x \notin Members(s)
  PROVE  /\ PushFront(s, x) \in Seq(S) /\ Len(PushFront(s, x)) = Len(s) + 1
         /\ Members(PushFront(s, x)) = Members(s) \cup {x} /\ Distinct(PushFront(s, x))
<1>1. PushFront(s, x) \in Seq(S) /\ Len(PushFront(s, x)) = Len(s) + 1
  BY PushFrontType
<1> QED BY <1>1, PushFrontMembers, PushFrontDistinct

\* The place of a page that is on the list.
LEMMA PositionType ==
  ASSUME NEW s, NEW x \in Members(s)
  PROVE  Position(s, x) \in DOMAIN s /\ s[Position(s, x)] = x
<1>1. \E i \in DOMAIN s : s[i] = x
  BY DEF Members
<1> QED BY <1>1 DEF Position

\* The pages before x keep their place, those behind it move up by one.
LEMMA RemoveType ==
  ASSUME NEW S, NEW s \in Seq(S), NEW x \in Members(s)
  PROVE  /\ Remove(s, x) \in Seq(S)
         /\ Len(Remove(s, x)) = Len(s) - 1
         /\ Len(s) >= 1
         /\ \A j \in 1..(Len(s) - 1) :
              Remove(s, x)[j] = IF j < Position(s, x) THEN s[j] ELSE s[j + 1]
<1> DEFINE r == Remove(s, x)
           k == Position(s, x)
<1>1. Len(s) \in Nat /\ DOMAIN s = 1..Len(s) /\ \A j \in 1..Len(s) : s[j] \in S
  OBVIOUS
<1>2. k \in 1..Len(s)
  BY <1>1, PositionType
<1>3. \A j \in 1..(Len(s) - 1) : (IF j < k THEN s[j] ELSE s[j + 1]) \in S
  BY <1>1
<1>4. r = [j \in 1..(Len(s) - 1) |-> IF j < k THEN s[j] ELSE s[j + 1]]
  BY DEF Remove
<1> HIDE DEF r, k
<1>5. r \in [1..(Len(s) - 1) -> S]
  BY <1>3, <1>4
<1>6. r \in Seq(S) /\ Len(r) = Len(s) - 1
  <2>1. Len(s) - 1 \in Nat
    BY <1>1, <1>2
  <2> QED BY <1>5, <2>1
<1>7. \A j \in 1..(Len(s) - 1) : r[j] = IF j < k THEN s[j] ELSE s[j + 1]
  BY <1>4
<1> QED BY <1>1, <1>2, <1>6, <1>7 DEF r, k

LEMMA RemoveMembers ==
  ASSUME NEW S, NEW s \in Seq(S), NEW x \in Members(s), Distinct(s)
  PROVE  Members(Remove(s, x)) = Members(s) \ {x} /\ Distinct(Remove(s, x))
<1> DEFINE r == Remove(s, x)
           k == Position(s, x)
<1>1. Len(s) \in Nat /\ DOMAIN s = 1..Len(s)
  OBVIOUS
<1>2. k \in 1..Len(s) /\ s[k] = x
  BY <1>1, PositionType
<1>3. /\ r \in Seq(S) /\ Len(r) = Len(s) - 1
      /\ \A j \in 1..(Len(s) - 1) : r[j] = IF j < k THEN s[j] ELSE s[j + 1]
  BY RemoveType
<1>4. DOMAIN r = 1..(Len(s) - 1)
  BY <1>1, <1>2, <1>3
<1> HIDE DEF r, k
<1> DEFINE old(j) == IF j < k THEN j ELSE j + 1
<1>5. \A j \in DOMAIN r : old(j) \in DOMAIN s /\ old(j) # k /\ r[j] = s[old(j)]
  BY <1>1, <1>2, <1>3, <1>4
<1>6. \A i, j \in DOMAIN r : old(i) = old(j) => i = j
  BY <1>1, <1>2, <1>4
<1>7. \A i \in DOMAIN s : i # k => \E j \in DOMAIN r : old(j) = i
  <2> SUFFICES ASSUME NEW i \in DOMAIN s, i # k PROVE \E j \in DOMAIN r : old(j) = i
    OBVIOUS
  <2>1. CASE i < k
    <3>1. i \in DOMAIN r /\ old(i) = i
      BY <1>1, <1>2, <1>4, <2>1
    <3> QED BY <3>1
  <2>2. CASE ~(i < k)
    <3>1. i - 1 \in DOMAIN r /\ old(i - 1) = i
      BY <1>1, <1>2, <1>4, <2>2
    <3> QED BY <3>1
  <2> QED BY <2>1, <2>2
<1> HIDE DEF old
<1>8. Distinct(r)
  BY <1>5, <1>6 DEF Distinct
<1>9. ASSUME NEW y \in Members(r) PROVE y \in Members(s) \ {x}
  <2>1. PICK j \in DOMAIN r : r[j] = y
    BY <1>9 DEF Members
  <2>2. s[old(j)] # x
    BY <1>1, <1>2, <1>5 DEF Distinct
  <2> QED BY <1>5, <2>1, <2>2 DEF Members
<1>10. ASSUME NEW y \in Members(s) \ {x} PROVE y \in Members(r)
  <2>1. PICK i \in DOMAIN s : s[i] = y
    BY <1>10 DEF Members
  <2>2. i # k
    BY <1>2, <1>10, <2>1
  <2>3. PICK j \in DOMAIN r : old(j) = i
    BY <1>7, <2>2
  <2>4. r[j] = y
    BY <1>5, <2>1, <2>3
  <2> QED BY <2>4 DEF Members
<1> QED BY <1>8, <1>9, <1>10 DEF r

\* The last page of a list that is not empty is dropped.
LEMMA PopTailType ==
  ASSUME NEW S, NEW s \in Seq(S), s # <<>>
  PROVE  /\ PopTail(s) \in Seq(S)
         /\ Len(PopTail(s)) = Len(s) - 1
         /\ Len(s) >= 1
         /\ Tip(s) \in S /\ Tip(s) \in Members(s)
         /\ \A j \in 1..(Len(s) - 1) : PopTail(s)[j] = s[j]
<1> DEFINE r == PopTail(s)
<1>1. Len(s) \in Nat /\ Len(s) >= 1 /\ DOMAIN s = 1..Len(s) /\ \A j \in 1..Len(s) : s[j] \in S
  OBVIOUS
<1>2. r = [j \in 1..(Len(s) - 1) |-> s[j]]
  BY DEF PopTail
<1> HIDE DEF r
<1>3. r \in [1..(Len(s) - 1) -> S]
  BY <1>1, <1>2
<1>4. r \in Seq(S) /\ Len(r) = Len(s) - 1
  <2>1. Len(s) - 1 \in Nat
    BY <1>1
  <2> QED BY <1>3, <2>1
<1>5. \A j \in 1..(Len(s) - 1) : r[j] = s[j]
  BY <1>2
<1>6. Tip(s) \in S /\ Tip(s) \in Members(s)
  BY <1>1 DEF Tip, Members
<1> QED BY <1>1, <1>4, <1>5, <1>6 DEF r

LEMMA PopTailMembers ==
  ASSUME NEW S, NEW s \in Seq(S), s # <<>>, Distinct(s)
  PROVE  Members(PopTail(s)) = Members(s) \ {Tip(s)} /\ Distinct(PopTail(s))
<1> DEFINE r == PopTail(s)
<1>1. /\ r \in Seq(S) /\ Len(r) = Len(s) - 1 /\ Len(s) >= 1
      /\ \A j \in 1..(Len(s) - 1) : r[j] = s[j]
  BY PopTailType
<1>2. DOMAIN s = 1..Len(s) /\ DOMAIN r = 1..(Len(s) - 1) /\ Len(s) \in Nat
  BY <1>1
<1> HIDE DEF r
<1>3. Distinct(r)
  BY <1>1, <1>2 DEF Distinct
<1>4. ASSUME NEW i \in DOMAIN r PROVE r[i] \in Members(s) \ {Tip(s)}
  <2>1. i \in DOMAIN s /\ Len(s) \in DOMAIN s /\ i # Len(s) /\ r[i] = s[i]
    BY <1>1, <1>2
  <2> QED BY <2>1 DEF Members, Tip, Distinct
<1>5. ASSUME NEW i \in DOMAIN s, s[i] # Tip(s) PROVE s[i] \in Members(r)
  <2>1. i \in DOMAIN r /\ r[i] = s[i]
    BY <1>1, <1>2, <1>5 DEF Tip
  <2> QED BY <2>1 DEF Members
<1>6. Members(r) = Members(s) \ {Tip(s)}
  BY <1>4, <1>5 DEF Members
<1> QED BY <1>3, <1>6 DEF r

\* The tail is the page to remove to cut the list at its end.
LEMMA RemoveTip ==
  ASSUME NEW S, NEW s \in Seq(S), s # <<>>, Distinct(s)
  PROVE  Remove(s, Tip(s)) = PopTail(s)
<1> DEFINE n == Len(s)
           k == Position(s, Tip(s))
<1>1. n \in Nat /\ n >= 1 /\ DOMAIN s = 1..n /\ n \in DOMAIN s
  OBVIOUS
<1>2. Tip(s) \in Members(s) /\ Tip(s) = s[n]
  BY PopTailType DEF Tip
<1>3. k \in DOMAIN s /\ s[k] = Tip(s)
  BY <1>2, PositionType
<1>4. k = n
  BY <1>1, <1>2, <1>3 DEF Distinct
<1> HIDE DEF k
<1>5. \A j \in 1..(n - 1) : (IF j < k THEN s[j] ELSE s[j + 1]) = s[j]
  BY <1>1, <1>4
<1>6. Remove(s, Tip(s)) = [j \in 1..(n - 1) |-> IF j < k THEN s[j] ELSE s[j + 1]]
  BY DEF Remove, k
<1> QED BY <1>5, <1>6 DEF PopTail


\* The recency order after one more use of x, place by place.
LEMMA UsedPlaces ==
  ASSUME NEW S, NEW s \in Seq(S), NEW x \in S, Distinct(s)
  PROVE  /\ Used(s, x) \in Seq(S) /\ Distinct(Used(s, x))
         /\ Members(Used(s, x)) = Members(s) \cup {x}
         /\ Used(s, x)[1] = x /\ Len(Used(s, x)) >= 1
         /\ \A j \in 2..Len(Used(s, x)) :
              Used(s, x)[j] = IF x \in Members(s) /\ Position(s, x) < j THEN s[j] ELSE s[j - 1]
         /\ Len(Used(s, x)) = IF x \in Members(s) THEN Len(s) ELSE Len(s) + 1
<1>1. CASE x \in Members(s)
  <2> DEFINE r == Remove(s, x)
             u == PushFront(r, x)
  <2>1. /\ r \in Seq(S) /\ Len(r) = Len(s) - 1 /\ Len(s) >= 1 /\ Len(s) \in Nat
        /\ \A j \in 1..(Len(s) - 1) : r[j] = IF j < Position(s, x) THEN s[j] ELSE s[j + 1]
    BY <1>1, RemoveType
  <2>2. Members(r) = Members(s) \ {x} /\ Distinct(r)
    BY <1>1, RemoveMembers
  <2>3. Position(s, x) \in 1..Len(s)
    BY <1>1, PositionType
  <2> HIDE DEF r
  <2>4. /\ u \in Seq(S) /\ Len(u) = Len(r) + 1 /\ u[1] = x
        /\ \A j \in 2..(Len(r) + 1) : u[j] = r[j - 1]
    BY <2>1, PushFrontType
  <2>5. Members(u) = Members(s) \cup {x} /\ Distinct(u)
    BY <1>1, <2>1, <2>2, PushFrontMembers, PushFrontDistinct
  <2>6. Used(s, x) = u
    BY <1>1 DEF Used, r
  <2> HIDE DEF u
  <2>7. Len(u) = Len(s) /\ \A j \in 2..Len(u) : u[j] = IF Position(s, x) < j THEN s[j] ELSE s[j - 1]
    BY <2>1, <2>3, <2>4
  <2> QED BY <1>1, <2>1, <2>4, <2>5, <2>6, <2>7
<1>2. CASE x \notin Members(s)
  <2> DEFINE u == PushFront(s, x)
  <2>0. PushFront(s, x) \in Seq(S) /\ Len(PushFront(s, x)) = Len(s) + 1 /\ PushFront(s, x)[1] = x
    BY PushFrontType
  <2>9. ASSUME NEW j \in 2..(Len(s) + 1) PROVE PushFront(s, x)[j] = s[j - 1]
    BY PushFrontType
  <2>1. /\ u \in Seq(S) /\ Len(u) = Len(s) + 1 /\ u[1] = x
        /\ \A j \in 2..(Len(s) + 1) : u[j] = s[j - 1]
    BY <2>0, <2>9
  <2>2. Members(u) = Members(s) \cup {x} /\ Distinct(u)
    BY <1>2, PushFrontMembers, PushFrontDistinct
  <2>3. Used(s, x) = u /\ Len(s) \in Nat
    BY <1>2 DEF Used
  <2> HIDE DEF u
  <2> QED BY <1>2, <2>1, <2>2, <2>3
<1> QED BY <1>1, <1>2

LEMMA UsedType ==
  ASSUME NEW S, NEW s \in Seq(S), NEW x \in S, Distinct(s)
  PROVE  /\ Used(s, x) \in Seq(S) /\ Distinct(Used(s, x))
         /\ Members(Used(s, x)) = Members(s) \cup {x}
         /\ Used(s, x) # <<>> /\ Used(s, x)[1] = x
<1> DEFINE u == Used(s, x)
<1>1. u \in Seq(S) /\ Distinct(u) /\ Members(u) = Members(s) \cup {x}
  BY UsedPlaces
<1>2. u[1] = x /\ Len(u) >= 1
  BY UsedPlaces
<1> HIDE DEF u
<1>3. u # <<>>
  BY <1>2
<1> QED BY <1>1, <1>2, <1>3 DEF u

\* A list of distinct pages is as long as its pages are many.
LEMMA MembersCount ==
  ASSUME NEW S, NEW s \in Seq(S), Distinct(s)
  PROVE  IsFiniteSet(Members(s)) /\ Cardinality(Members(s)) = Len(s)
<1>1. Len(s) \in Nat /\ DOMAIN s = 1..Len(s)
  OBVIOUS
<1>2. IsFiniteSet(1..Len(s)) /\ Cardinality(1..Len(s)) = Len(s)
  BY <1>1, FS_Interval
<1>3. s \in Bijection(1..Len(s), Members(s))
  <2>1. s \in [1..Len(s) -> Members(s)]
    BY <1>1 DEF Members
  <2>2. s \in Injection(1..Len(s), Members(s))
    BY <1>1, <2>1 DEF Injection, Distinct, IsInjective
  <2>3. s \in Surjection(1..Len(s), Members(s))
    BY <1>1, <2>1 DEF Surjection, Members
  <2> QED BY <2>2, <2>3 DEF Bijection
<1>4. ExistsBijection(1..Len(s), Members(s))
  BY <1>3 DEF ExistsBijection
<1> QED BY <1>2, <1>4, FS_Bijection

-------------------------------------------------------------------------------
(* One list behind another.                                                *)

LEMMA SameLists ==
  ASSUME NEW S, NEW s \in Seq(S), NEW t \in Seq(S), Len(s) = Len(t),
         \A j \in 1..Len(s) : s[j] = t[j]
  PROVE  s = t
OBVIOUS

LEMMA JoinType ==
  ASSUME NEW S, NEW s \in Seq(S), NEW t \in Seq(S)
  PROVE  /\ s \o t \in Seq(S) /\ Len(s \o t) = Len(s) + Len(t)
         /\ Len(s) \in Nat /\ Len(t) \in Nat
         /\ \A j \in 1..(Len(s) + Len(t)) :
              (s \o t)[j] = IF j <= Len(s) THEN s[j] ELSE t[j - Len(s)]
OBVIOUS

LEMMA JoinMembers ==
  ASSUME NEW S, NEW s \in Seq(S), NEW t \in Seq(S)
  PROVE  /\ Members(s \o t) = Members(s) \cup Members(t)
         /\ Distinct(s) /\ Distinct(t) /\ Members(s) \cap Members(t) = {} => Distinct(s \o t)
<1> DEFINE u == s \o t
           m == Len(s)
           n == Len(t)
<1>1. /\ u \in Seq(S) /\ Len(u) = m + n /\ m \in Nat /\ n \in Nat
      /\ \A j \in 1..(m + n) : u[j] = IF j <= m THEN s[j] ELSE t[j - m]
  BY JoinType
<1>2. DOMAIN s = 1..m /\ DOMAIN t = 1..n /\ DOMAIN u = 1..(m + n)
  BY <1>1
<1> HIDE DEF u, m, n
<1>3. \A j \in 1..m : j \in 1..(m + n) /\ u[j] = s[j]
  BY <1>1
<1>4. \A j \in 1..n : j + m \in 1..(m + n) /\ u[j + m] = t[j]
  BY <1>1
<1>5. \A j \in 1..(m + n) : (j \in 1..m /\ u[j] = s[j]) \/ (j - m \in 1..n /\ u[j] = t[j - m])
  BY <1>1
<1>6. Members(u) = Members(s) \cup Members(t)
  BY <1>2, <1>3, <1>4, <1>5 DEF Members
<1>7. ASSUME Distinct(s), Distinct(t), Members(s) \cap Members(t) = {},
             NEW i \in 1..(m + n), NEW j \in 1..(m + n), u[i] = u[j]
      PROVE  i = j
  <2>1. \A k \in 1..m, h \in 1..n : s[k] # t[h]
    BY <1>2, <1>7 DEF Members
  <2>2. CASE i \in 1..m /\ u[i] = s[i] /\ j \in 1..m /\ u[j] = s[j]
    BY <1>2, <1>7, <2>2 DEF Distinct
  <2>3. CASE i - m \in 1..n /\ u[i] = t[i - m] /\ j - m \in 1..n /\ u[j] = t[j - m]
    <3>1. i - m = j - m
      BY <1>2, <1>7, <2>3 DEF Distinct
    <3> QED BY <1>1, <3>1
  <2> QED BY <1>5, <1>7, <2>1, <2>2, <2>3
<1>8. Distinct(s) /\ Distinct(t) /\ Members(s) \cap Members(t) = {} => Distinct(u)
  BY <1>2, <1>7 DEF Distinct
<1> QED BY <1>6, <1>8 DEF u

\* The last page of the first list as the first page of the second changes nothing.
LEMMA JoinDemote ==
  ASSUME NEW S, NEW s \in Seq(S), s # <<>>, NEW t \in Seq(S)
  PROVE  PopTail(s) \o PushFront(t, Tip(s)) = s \o t
<1> DEFINE r == PopTail(s)
           q == PushFront(t, Tip(s))
           m == Len(s)
           n == Len(t)
<1>1. /\ r \in Seq(S) /\ Len(r) = m - 1 /\ m >= 1 /\ m \in Nat /\ n \in Nat
      /\ Tip(s) \in S /\ \A j \in 1..(m - 1) : r[j] = s[j]
  BY PopTailType
<1>2. /\ q \in Seq(S) /\ Len(q) = n + 1 /\ q[1] = s[m]
      /\ \A j \in 2..(n + 1) : q[j] = t[j - 1]
  <2>1. Tip(s) \in S
    BY <1>1
  <2>2. /\ q \in Seq(S) /\ Len(q) = n + 1 /\ q[1] = Tip(s)
        /\ \A j \in 2..(n + 1) : q[j] = t[j - 1]
    BY <2>1, PushFrontType
  <2> QED BY <2>2 DEF Tip
<1> HIDE DEF r, q
<1>3. /\ r \o q \in Seq(S) /\ Len(r \o q) = Len(r) + Len(q)
      /\ \A j \in 1..(Len(r) + Len(q)) :
           (r \o q)[j] = IF j <= Len(r) THEN r[j] ELSE q[j - Len(r)]
  BY <1>1, <1>2, JoinType
<1>4. /\ s \o t \in Seq(S) /\ Len(s \o t) = m + n
      /\ \A j \in 1..(m + n) : (s \o t)[j] = IF j <= m THEN s[j] ELSE t[j - m]
  BY JoinType
<1> HIDE DEF m, n
<1>5. Len(r) + Len(q) = m + n
  BY <1>1, <1>2
<1>6. ASSUME NEW j \in 1..(m + n) PROVE (r \o q)[j] = (s \o t)[j]
  <2>1. CASE j < m
    BY <1>1, <1>3, <1>4, <1>5, <2>1
  <2>2. CASE j = m
    <3>1. (r \o q)[j] = q[1]
      BY <1>1, <1>3, <1>5, <2>2
    <3> QED BY <1>2, <1>4, <2>2, <3>1
  <2>3. CASE j > m
    <3>1. (r \o q)[j] = q[j - (m - 1)]
      BY <1>1, <1>3, <1>5, <2>3
    <3>2. j - (m - 1) \in 2..(n + 1) /\ (j - (m - 1)) - 1 = j - m
      BY <1>1, <2>3
    <3>3. q[j - (m - 1)] = t[j - m]
      BY <1>2, <3>2
    <3> QED BY <1>1, <1>4, <2>3, <3>1, <3>3
  <2>4. j < m \/ j = m \/ j > m
    <3>1. m \in Nat /\ j \in Int
      BY <1>1
    <3> QED BY <3>1
  <2> QED BY <2>1, <2>2, <2>3, <2>4
<1>7. Len(r \o q) = Len(s \o t)
  BY <1>3, <1>4, <1>5
<1>8. \A j \in 1..Len(r \o q) : (r \o q)[j] = (s \o t)[j]
  BY <1>3, <1>5, <1>6
<1>9. r \o q = s \o t
  BY <1>3, <1>4, <1>7, <1>8, SameLists
<1> QED BY <1>9 DEF r, q

LEMMA JoinPushFront ==
  ASSUME NEW S, NEW s \in Seq(S), NEW t \in Seq(S), NEW x \in S
  PROVE  PushFront(s, x) \o t = PushFront(s \o t, x)
<1> DEFINE q == PushFront(s, x)
           u == s \o t
           v == PushFront(u, x)
           m == Len(s)
           n == Len(t)
<1>1. /\ u \in Seq(S) /\ Len(u) = m + n /\ m \in Nat /\ n \in Nat
      /\ \A j \in 1..(m + n) : u[j] = IF j <= m THEN s[j] ELSE t[j - m]
  BY JoinType
<1>2. /\ q \in Seq(S) /\ Len(q) = m + 1 /\ q[1] = x /\ \A j \in 2..(m + 1) : q[j] = s[j - 1]
  BY PushFrontType
<1> HIDE DEF u, q
<1>3. /\ v \in Seq(S) /\ Len(v) = Len(u) + 1 /\ v[1] = x
      /\ \A j \in 2..(Len(u) + 1) : v[j] = u[j - 1]
  <2>1. u \in Seq(S)
    BY <1>1
  <2> HIDE DEF m, n
  <2> QED BY <2>1, PushFrontType, SMTT(30)
<1> HIDE DEF v
<1>4. /\ q \o t \in Seq(S) /\ Len(q \o t) = Len(q) + n
      /\ \A j \in 1..(Len(q) + n) : (q \o t)[j] = IF j <= Len(q) THEN q[j] ELSE t[j - Len(q)]
  BY <1>2, JoinType
<1> HIDE DEF m, n
<1>5. ASSUME NEW j \in 1..((m + 1) + n) PROVE (q \o t)[j] = v[j]
  <2>1. CASE j = 1
    BY <1>1, <1>2, <1>3, <1>4, <2>1
  <2>2. CASE j \in 2..(m + 1)
    <3>1. (q \o t)[j] = s[j - 1]
      BY <1>1, <1>2, <1>4, <2>2
    <3>2. v[j] = u[j - 1] /\ j - 1 \in 1..(m + n) /\ j - 1 <= m
      BY <1>1, <1>3, <2>2
    <3> QED BY <1>1, <3>1, <3>2
  <2>3. CASE j > m + 1
    <3>1. (q \o t)[j] = t[j - (m + 1)]
      BY <1>1, <1>2, <1>4, <2>3
    <3>2. v[j] = u[j - 1] /\ j - 1 \in 1..(m + n) /\ ~(j - 1 <= m) /\ (j - 1) - m = j - (m + 1)
      BY <1>1, <1>3, <2>3
    <3> QED BY <1>1, <3>1, <3>2
  <2>4. j = 1 \/ j \in 2..(m + 1) \/ j > m + 1
    <3>1. m \in Nat /\ j \in Nat /\ j >= 1
      BY <1>1
    <3> QED BY <3>1
  <2> QED BY <2>1, <2>2, <2>3, <2>4
<1>6. Len(q \o t) = Len(v) /\ Len(q \o t) = (m + 1) + n
  BY <1>1, <1>2, <1>3, <1>4
<1>7. q \o t = v
  BY <1>3, <1>4, <1>5, <1>6, SameLists
<1> QED BY <1>7 DEF q, v, u

LEMMA JoinPopTail ==
  ASSUME NEW S, NEW s \in Seq(S), NEW t \in Seq(S), t # <<>>
  PROVE  s \o PopTail(t) = PopTail(s \o t)
<1> DEFINE r == PopTail(t)
           u == s \o t
           v == PopTail(u)
           m == Len(s)
           n == Len(t)
<1>1. /\ u \in Seq(S) /\ Len(u) = m + n /\ m \in Nat /\ n \in Nat
      /\ \A j \in 1..(m + n) : u[j] = IF j <= m THEN s[j] ELSE t[j - m]
  BY JoinType
<1>2. r \in Seq(S) /\ Len(r) = n - 1 /\ n >= 1 /\ \A j \in 1..(n - 1) : r[j] = t[j]
  BY PopTailType
<1> HIDE DEF u, r
<1>3. v \in Seq(S) /\ Len(v) = Len(u) - 1 /\ \A j \in 1..(Len(u) - 1) : v[j] = u[j]
  <2>1. u # <<>>
    BY <1>1, <1>2
  <2> QED BY <1>1, <2>1, PopTailType
<1> HIDE DEF v
<1>4. /\ s \o r \in Seq(S) /\ Len(s \o r) = m + Len(r)
      /\ \A j \in 1..(m + Len(r)) : (s \o r)[j] = IF j <= m THEN s[j] ELSE r[j - m]
  BY <1>2, JoinType
<1> HIDE DEF m, n
<1>5. ASSUME NEW j \in 1..(m + (n - 1)) PROVE (s \o r)[j] = v[j]
  <2>1. v[j] = u[j] /\ j \in 1..(m + n)
    BY <1>1, <1>2, <1>3
  <2>2. CASE j <= m
    BY <1>1, <1>2, <1>4, <2>1, <2>2
  <2>3. CASE j > m
    <3>1. j - m \in 1..(n - 1)
      BY <1>1, <1>2, <2>3
    <3> QED BY <1>1, <1>2, <1>4, <2>1, <2>3, <3>1
  <2>4. j <= m \/ j > m
    <3>1. m \in Nat /\ j \in Int
      BY <1>1
    <3> QED BY <3>1
  <2> QED BY <2>2, <2>3, <2>4
<1>6. Len(s \o r) = Len(v) /\ Len(s \o r) = m + (n - 1)
  BY <1>1, <1>2, <1>3, <1>4
<1>7. s \o r = v
  BY <1>3, <1>4, <1>5, <1>6, SameLists
<1> QED BY <1>7 DEF r, v, u


\* The place of x in a joined list, when x is on one of the two.
LEMMA JoinPosition ==
  ASSUME NEW S, NEW s \in Seq(S), NEW t \in Seq(S), Distinct(s \o t), NEW x
  PROVE  /\ x \in Members(s) => Position(s \o t, x) = Position(s, x)
         /\ x \in Members(t) => Position(s \o t, x) = Len(s) + Position(t, x)
<1> DEFINE u == s \o t
           m == Len(s)
           n == Len(t)
<1>1. /\ u \in Seq(S) /\ Len(u) = m + n /\ m \in Nat /\ n \in Nat
      /\ \A j \in 1..(m + n) : u[j] = IF j <= m THEN s[j] ELSE t[j - m]
  BY JoinType
<1>2. DOMAIN s = 1..m /\ DOMAIN t = 1..n /\ DOMAIN u = 1..(m + n)
  BY <1>1
<1> HIDE DEF u, m, n
<1>3. ASSUME NEW j \in DOMAIN u, u[j] = x PROVE Position(u, x) = j
  <2>1. x \in Members(u)
    BY <1>3 DEF Members
  <2>2. Position(u, x) \in DOMAIN u /\ u[Position(u, x)] = x
    BY <2>1, PositionType
  <2>3. Distinct(u)
    BY DEF u
  <2>4. u[Position(u, x)] = u[j]
    BY <1>3, <2>2
  <2> QED BY <1>3, <2>2, <2>3, <2>4 DEF Distinct
<1>4. ASSUME x \in Members(s) PROVE Position(u, x) = Position(s, x)
  <2>1. Position(s, x) \in 1..m /\ s[Position(s, x)] = x
    BY <1>2, <1>4, PositionType
  <2>2. Position(s, x) \in 1..(m + n) /\ u[Position(s, x)] = x
    BY <1>1, <2>1
  <2> QED BY <1>2, <1>3, <2>2
<1>5. ASSUME x \in Members(t) PROVE Position(u, x) = m + Position(t, x)
  <2>1. Position(t, x) \in 1..n /\ t[Position(t, x)] = x
    BY <1>2, <1>5, PositionType
  <2>2. m + Position(t, x) \in 1..(m + n) /\ u[m + Position(t, x)] = x
    BY <1>1, <2>1
  <2> QED BY <1>2, <1>3, <2>2
<1> QED BY <1>4, <1>5 DEF u, m

LEMMA JoinRemove ==
  ASSUME NEW S, NEW s \in Seq(S), NEW t \in Seq(S), Distinct(s \o t), NEW x
  PROVE  /\ x \in Members(s) => Remove(s, x) \o t = Remove(s \o t, x)
         /\ x \in Members(t) => s \o Remove(t, x) = Remove(s \o t, x)
<1> DEFINE u == s \o t
           v == Remove(u, x)
           m == Len(s)
           n == Len(t)
           k == Position(u, x)
<1>1. /\ u \in Seq(S) /\ Len(u) = m + n /\ m \in Nat /\ n \in Nat
      /\ \A j \in 1..(m + n) : u[j] = IF j <= m THEN s[j] ELSE t[j - m]
  BY JoinType
<1>2. Members(s) \cup Members(t) \subseteq Members(u)
  BY JoinMembers
<1>3. /\ x \in Members(s) => k = Position(s, x)
      /\ x \in Members(t) => k = m + Position(t, x)
  BY JoinPosition
<1> HIDE DEF u, k
<1>4. ASSUME x \in Members(u)
      PROVE  /\ v \in Seq(S) /\ Len(v) = (m + n) - 1
             /\ \A j \in 1..((m + n) - 1) : v[j] = IF j < k THEN u[j] ELSE u[j + 1]
  <2>1. u \in Seq(S)
    BY <1>1
  <2>2. /\ v \in Seq(S) /\ Len(v) = Len(u) - 1
        /\ \A j \in 1..(Len(u) - 1) : v[j] = IF j < Position(u, x) THEN u[j] ELSE u[j + 1]
    BY <1>4, <2>1, RemoveType
  <2> QED BY <1>1, <2>2 DEF k
<1> HIDE DEF v, m, n
<1>5. ASSUME x \in Members(s) PROVE Remove(s, x) \o t = v
  <2> DEFINE q == Remove(s, x)
  <2>1. /\ q \in Seq(S) /\ Len(q) = m - 1 /\ m >= 1
        /\ \A j \in 1..(m - 1) : q[j] = IF j < k THEN s[j] ELSE s[j + 1]
    BY <1>3, <1>5, RemoveType DEF m
  <2>2. k \in 1..m
    BY <1>3, <1>5, PositionType DEF m
  <2> HIDE DEF q
  <2>3. /\ q \o t \in Seq(S) /\ Len(q \o t) = Len(q) + n
        /\ \A j \in 1..(Len(q) + n) : (q \o t)[j] = IF j <= Len(q) THEN q[j] ELSE t[j - Len(q)]
    BY <2>1, JoinType DEF n
  <2>4. Len(q \o t) = (m + n) - 1 /\ Len(q) + n = (m + n) - 1
    BY <1>1, <2>1, <2>3
  <2>5. ASSUME NEW j \in 1..((m + n) - 1) PROVE (q \o t)[j] = v[j]
    <3>1. v[j] = IF j < k THEN u[j] ELSE u[j + 1]
      BY <1>2, <1>4, <1>5
    <3>2. (q \o t)[j] = IF j <= m - 1 THEN q[j] ELSE t[j - (m - 1)]
      BY <1>1, <2>1, <2>3, <2>4
    <3>3. CASE j <= m - 1
      <4>1. j \in 1..(m - 1) /\ u[j] = s[j] /\ u[j + 1] = s[j + 1]
        BY <1>1, <3>3
      <4> QED BY <2>1, <3>1, <3>2, <3>3, <4>1
    <3>4. CASE j > m - 1
      <4>1. ~(j < k) /\ u[j + 1] = t[j - (m - 1)]
        <5>1. m \in Nat /\ n \in Nat /\ j \in Int /\ j > m - 1 /\ j <= (m + n) - 1 /\ k <= m /\ k \in Int
          BY <1>1, <2>2, <3>4
        <5>2. j + 1 \in 1..(m + n) /\ ~(j + 1 <= m) /\ (j + 1) - m = j - (m - 1) /\ ~(j < k)
          BY <5>1
        <5> QED BY <1>1, <5>2
      <4>2. ~(j <= m - 1)
        BY <1>1, <3>4
      <4> QED BY <3>1, <3>2, <4>1, <4>2
    <3>5. j <= m - 1 \/ j > m - 1
      BY <1>1
    <3> QED BY <3>3, <3>4, <3>5
  <2>6. v \in Seq(S) /\ Len(v) = (m + n) - 1
    BY <1>2, <1>4, <1>5
  <2>7. q \o t = v
    BY <2>3, <2>4, <2>5, <2>6, SameLists
  <2> QED BY <2>7 DEF q
<1>6. ASSUME x \in Members(t) PROVE s \o Remove(t, x) = v
  <2> DEFINE q == Remove(t, x)
             h == Position(t, x)
  <2>1. /\ q \in Seq(S) /\ Len(q) = n - 1 /\ n >= 1
        /\ \A j \in 1..(n - 1) : q[j] = IF j < h THEN t[j] ELSE t[j + 1]
    BY <1>6, RemoveType DEF n
  <2>2. h \in 1..n /\ k = m + h
    BY <1>3, <1>6, PositionType DEF n
  <2> HIDE DEF q, h
  <2>3. /\ s \o q \in Seq(S) /\ Len(s \o q) = m + Len(q)
        /\ \A j \in 1..(m + Len(q)) : (s \o q)[j] = IF j <= m THEN s[j] ELSE q[j - m]
    BY <2>1, JoinType DEF m
  <2>4. Len(s \o q) = (m + n) - 1 /\ m + Len(q) = (m + n) - 1
    BY <1>1, <2>1, <2>3
  <2>5. ASSUME NEW j \in 1..((m + n) - 1) PROVE (s \o q)[j] = v[j]
    <3>1. v[j] = IF j < k THEN u[j] ELSE u[j + 1]
      BY <1>2, <1>4, <1>6
    <3>2. (s \o q)[j] = IF j <= m THEN s[j] ELSE q[j - m]
      BY <2>3, <2>4
    <3>3. CASE j <= m
      <4>1. j < k /\ u[j] = s[j]
        BY <1>1, <2>2, <3>3
      <4> QED BY <3>1, <3>2, <3>3, <4>1
    <3>4. CASE j > m
      <4>1. j - m \in 1..(n - 1) /\ ~(j <= m) /\ (j < k <=> j - m < h)
        BY <1>1, <2>2, <3>4
      <4>2. u[j] = t[j - m] /\ u[j + 1] = t[(j - m) + 1]
        <5>1. j \in 1..(m + n) /\ j + 1 \in 1..(m + n) /\ ~(j + 1 <= m) /\ (j + 1) - m = (j - m) + 1
          BY <1>1, <3>4
        <5> QED BY <1>1, <4>1, <5>1
      <4> QED BY <2>1, <3>1, <3>2, <4>1, <4>2
    <3>5. j <= m \/ j > m
      BY <1>1
    <3> QED BY <3>3, <3>4, <3>5
  <2>6. v \in Seq(S) /\ Len(v) = (m + n) - 1
    BY <1>2, <1>4, <1>6
  <2>7. s \o q = v
    BY <2>3, <2>4, <2>5, <2>6, SameLists
  <2> QED BY <2>7 DEF q
<1> QED BY <1>5, <1>6 DEF v, u

-------------------------------------------------------------------------------
(* Lists in the order of last use.                                         *)

\* The pages of s stand in r, in the order of s.
Follows(r, s) ==
  /\ Members(s) \subseteq Members(r)
  /\ \A i, j \in DOMAIN s : i < j => Position(r, s[i]) < Position(r, s[j])

LEMMA PositionIs ==
  ASSUME NEW s, Distinct(s), NEW j \in DOMAIN s
  PROVE  Position(s, s[j]) = j
<1>1. s[j] \in Members(s)
  BY DEF Members
<1>2. Position(s, s[j]) \in DOMAIN s /\ s[Position(s, s[j])] = s[j]
  BY <1>1, PositionType
<1> QED BY <1>2 DEF Distinct

\* The page used comes first; another page moves back by one place, unless it stood
\* behind the page used.
LEMMA UsedPosition ==
  ASSUME NEW S, NEW r \in Seq(S), Distinct(r), NEW x \in S
  PROVE  /\ Position(Used(r, x), x) = 1
         /\ \A y \in Members(r) \ {x} :
              /\ Position(r, y) \in 1..Len(r)
              /\ Position(Used(r, x), y) =
                   IF x \in Members(r) /\ Position(r, x) < Position(r, y)
                   THEN Position(r, y) ELSE Position(r, y) + 1
              /\ Position(Used(r, x), y) > 1
<1> DEFINE u == Used(r, x)
           h == Position(r, x)
           n == Len(r)
<1>1. /\ u \in Seq(S) /\ Distinct(u) /\ u[1] = x /\ Len(u) >= 1
      /\ \A j \in 2..Len(u) : u[j] = IF x \in Members(r) /\ h < j THEN r[j] ELSE r[j - 1]
      /\ Len(u) = IF x \in Members(r) THEN n ELSE n + 1
  BY UsedPlaces
<1>2. n \in Nat /\ DOMAIN r = 1..n /\ DOMAIN u = 1..Len(u) /\ Len(u) \in Nat
  BY <1>1
<1>3. x \in Members(r) => h \in 1..n /\ r[h] = x
  BY <1>2, PositionType
<1> HIDE DEF u, h, n
<1>4. Position(u, x) = 1
  <2>1. 1 \in DOMAIN u
    BY <1>1, <1>2
  <2> QED BY <1>1, <2>1, PositionIs
<1>5. ASSUME NEW y \in Members(r) \ {x}
      PROVE  /\ Position(r, y) \in 1..n
             /\ Position(u, y) = IF x \in Members(r) /\ h < Position(r, y)
                                 THEN Position(r, y) ELSE Position(r, y) + 1
             /\ Position(u, y) > 1
  <2> DEFINE k == Position(r, y)
  <2>1. k \in 1..n /\ r[k] = y
    BY <1>2, PositionType
  <2> HIDE DEF k
  <2>2. CASE x \in Members(r) /\ h < k
    <3>1. k \in 2..Len(u)
      BY <1>1, <1>2, <1>3, <2>1, <2>2
    <3>2. u[k] = y /\ k \in DOMAIN u
      BY <1>1, <1>2, <2>1, <2>2, <3>1
    <3>3. Position(u, y) = k
      BY <1>1, <3>2, PositionIs
    <3> QED BY <2>1, <2>2, <3>1, <3>3 DEF k
  <2>3. CASE ~(x \in Members(r) /\ h < k)
    <3>1. k + 1 \in 2..Len(u) /\ ~(x \in Members(r) /\ h < k + 1)
      <4>1. CASE x \notin Members(r)
        BY <1>1, <1>2, <2>1, <4>1
      <4>2. CASE x \in Members(r)
        <5>1. h # k
          BY <1>3, <2>1, <4>2
        <5> QED BY <1>1, <1>2, <1>3, <2>1, <2>3, <4>2, <5>1
      <4> QED BY <4>1, <4>2
    <3>2. (k + 1) - 1 = k
      BY <1>2, <2>1
    <3>3. u[k + 1] = y /\ k + 1 \in DOMAIN u
      BY <1>1, <1>2, <2>1, <3>1, <3>2
    <3>4. Position(u, y) = k + 1
      BY <1>1, <3>3, PositionIs
    <3> QED BY <1>2, <2>1, <2>3, <3>4 DEF k
  <2> QED BY <2>2, <2>3
<1> QED BY <1>4, <1>5 DEF u, h, n

\* The order of two other pages stays as it is.
LEMMA UsedOrder ==
  ASSUME NEW S, NEW r \in Seq(S), Distinct(r), NEW x \in S,
         NEW y \in Members(r) \ {x}, NEW z \in Members(r) \ {x}, Position(r, y) < Position(r, z)
  PROVE  Position(Used(r, x), y) < Position(Used(r, x), z)
<1> DEFINE a == Position(r, y)
           b == Position(r, z)
           h == Position(r, x)
<1>1. /\ a \in 1..Len(r) /\ b \in 1..Len(r) /\ Len(r) \in Nat
      /\ Position(Used(r, x), y) = IF x \in Members(r) /\ h < a THEN a ELSE a + 1
      /\ Position(Used(r, x), z) = IF x \in Members(r) /\ h < b THEN b ELSE b + 1
  BY UsedPosition
<1>2. x \in Members(r) => h \in 1..Len(r) /\ r[h] = x
  <2>1. DOMAIN r = 1..Len(r)
    OBVIOUS
  <2> QED BY <2>1, PositionType
<1>3. x \in Members(r) => h # b
  <2>1. DOMAIN r = 1..Len(r) /\ r[b] = z
    BY PositionType
  <2> QED BY <1>2, <2>1
<1>4. a < b
  OBVIOUS
<1> HIDE DEF a, b, h
<1>5. CASE x \notin Members(r)
  BY <1>1, <1>4, <1>5
<1>6. CASE x \in Members(r)
  <2>1. a \in Nat /\ b \in Nat /\ h \in Nat /\ h # b
    BY <1>1, <1>2, <1>3, <1>6
  <2>2. CASE h < b
    <3>1. Position(Used(r, x), z) = b
      BY <1>1, <1>6, <2>2
    <3>2. h < a \/ a + 1 <= h \/ a = h
      BY <2>1
    <3>3. a # h
      <4>1. DOMAIN r = 1..Len(r) /\ r[a] = y
        BY PositionType DEF a
      <4> QED BY <1>2, <1>6, <4>1
    <3>4. CASE h < a
      BY <1>1, <1>4, <1>6, <3>1, <3>4
    <3>5. CASE a + 1 <= h
      <4>1. ~(h < a) /\ a + 1 < b
        BY <2>1, <2>2, <3>5
      <4> QED BY <1>1, <3>1, <4>1
    <3> QED BY <3>2, <3>3, <3>4, <3>5
  <2>3. CASE ~(h < b)
    <3>1. ~(h < a)
      BY <1>4, <2>1, <2>3
    <3>2. Position(Used(r, x), z) = b + 1 /\ Position(Used(r, x), y) = a + 1
      BY <1>1, <2>3, <3>1
    <3> QED BY <1>4, <2>1, <3>2
  <2> QED BY <2>2, <2>3
<1> QED BY <1>5, <1>6

\* A list without x keeps its order when x is used; with x in front it has it again.
LEMMA FollowsUsed ==
  ASSUME NEW S, NEW r \in Seq(S), Distinct(r), NEW s \in Seq(S), Follows(r, s),
         NEW x \in S, x \notin Members(s)
  PROVE  Follows(Used(r, x), s) /\ Follows(Used(r, x), PushFront(s, x))
<1> DEFINE u == Used(r, x)
           v == PushFront(s, x)
           n == Len(s)
<1>1. Members(u) = Members(r) \cup {x}
  BY UsedType
<1>2. \A i \in DOMAIN s : s[i] \in Members(r) \ {x}
  BY DEF Follows, Members
<1>3. ASSUME NEW i \in DOMAIN s, NEW j \in DOMAIN s, i < j
      PROVE  Position(u, s[i]) < Position(u, s[j])
  <2>1. Position(r, s[i]) < Position(r, s[j])
    BY <1>3 DEF Follows
  <2> QED BY <1>2, <2>1, UsedOrder
<1>4. Follows(u, s)
  BY <1>1, <1>3 DEF Follows
<1>5. /\ v \in Seq(S) /\ Len(v) = n + 1 /\ v[1] = x
      /\ \A j \in 2..(n + 1) : v[j] = s[j - 1]
  <2>1. PushFront(s, x) \in Seq(S) /\ Len(PushFront(s, x)) = Len(s) + 1
    BY PushFrontType
  <2>2. PushFront(s, x)[1] = x
    BY PushFrontType
  <2>3. \A j \in 2..(Len(s) + 1) : PushFront(s, x)[j] = s[j - 1]
    BY PushFrontType
  <2> HIDE DEF n
  <2> QED BY <2>1, <2>2, <2>3 DEF n
<1>6. n \in Nat /\ DOMAIN s = 1..n /\ DOMAIN v = 1..(n + 1)
  BY <1>5
<1>7. Members(v) = Members(s) \cup {x}
  BY PushFrontMembers
<1>8. Position(u, x) = 1 /\ \A i \in DOMAIN s : Position(u, s[i]) > 1
  BY <1>2, UsedPosition
<1> HIDE DEF u, v, n
<1>9. ASSUME NEW i \in DOMAIN v, NEW j \in DOMAIN v, i < j
      PROVE  Position(u, v[i]) < Position(u, v[j])
  <2>1. j - 1 \in DOMAIN s /\ v[j] = s[j - 1]
    BY <1>5, <1>6, <1>9
  <2>2. CASE i = 1
    BY <1>5, <1>8, <2>1, <2>2
  <2>3. CASE i # 1
    <3>1. i - 1 \in DOMAIN s /\ v[i] = s[i - 1] /\ i - 1 < j - 1
      BY <1>5, <1>6, <1>9, <2>3
    <3> QED BY <1>3, <2>1, <3>1
  <2> QED BY <2>2, <2>3
<1>10. Follows(u, v)
  BY <1>1, <1>4, <1>7, <1>9 DEF Follows
<1> QED BY <1>4, <1>10 DEF u, v

LEMMA FollowsRemove ==
  ASSUME NEW S, NEW s \in Seq(S), Distinct(s), NEW r, Follows(r, s), NEW x \in Members(s)
  PROVE  Follows(r, Remove(s, x))
<1> DEFINE q == Remove(s, x)
           k == Position(s, x)
           n == Len(s)
<1>1. /\ q \in Seq(S) /\ Len(q) = n - 1 /\ n >= 1 /\ n \in Nat
      /\ \A j \in 1..(n - 1) : q[j] = IF j < k THEN s[j] ELSE s[j + 1]
  BY RemoveType
<1>2. k \in 1..n /\ DOMAIN s = 1..n /\ DOMAIN q = 1..(n - 1)
  BY <1>1, PositionType
<1>3. Members(q) = Members(s) \ {x}
  BY RemoveMembers
<1> HIDE DEF q, k, n
<1>4. ASSUME NEW i \in DOMAIN q, NEW j \in DOMAIN q, i < j
      PROVE  Position(r, q[i]) < Position(r, q[j])
  <2> DEFINE a == IF i < k THEN i ELSE i + 1
             b == IF j < k THEN j ELSE j + 1
  <2>1. q[i] = s[a] /\ q[j] = s[b]
    BY <1>1, <1>2
  <2>2. a \in DOMAIN s /\ b \in DOMAIN s /\ a < b
    BY <1>1, <1>2, <1>4
  <2> QED BY <2>1, <2>2 DEF Follows
<1>5. Follows(r, q)
  BY <1>3, <1>4 DEF Follows
<1> QED BY <1>5 DEF q

\* A list in the order of r: the last page has at least as many pages of r up to it as the
\* list is long.
LEMMA FollowsPopTail ==
  ASSUME NEW S, NEW s \in Seq(S), Distinct(s), NEW r, Follows(r, s), s # <<>>
  PROVE  Follows(r, PopTail(s))
<1> DEFINE q == PopTail(s)
           n == Len(s)
<1>1. /\ q \in Seq(S) /\ Len(q) = n - 1 /\ n >= 1 /\ n \in Nat
      /\ \A j \in 1..(n - 1) : q[j] = s[j]
  BY PopTailType
<1>2. DOMAIN s = 1..n /\ DOMAIN q = 1..(n - 1)
  BY <1>1
<1>3. Members(q) = Members(s) \ {Tip(s)}
  BY PopTailMembers
<1> HIDE DEF q, n
<1>4. ASSUME NEW i \in DOMAIN q, NEW j \in DOMAIN q, i < j
      PROVE  Position(r, q[i]) < Position(r, q[j])
  <2>1. i \in DOMAIN s /\ j \in DOMAIN s /\ q[i] = s[i] /\ q[j] = s[j]
    BY <1>1, <1>2
  <2> QED BY <1>4, <2>1 DEF Follows
<1>5. Follows(r, q)
  BY <1>3, <1>4 DEF Follows
<1> QED BY <1>5 DEF q

LEMMA FollowsTip ==
  ASSUME NEW S, NEW r \in Seq(S), NEW s \in Seq(S), Distinct(s), Follows(r, s), s # <<>>
  PROVE  Position(r, Tip(s)) \in 1..Len(r) /\ Position(r, Tip(s)) >= Len(s)
<1> DEFINE n == Len(s)
           k == Position(r, s[n])
           f == [i \in 1..n |-> Position(r, s[i])]
<1>1. n \in Nat /\ n >= 1 /\ DOMAIN s = 1..n /\ DOMAIN r = 1..Len(r) /\ Len(r) \in Nat
  OBVIOUS
<1>2. \A i \in 1..n : s[i] \in Members(r)
  BY <1>1 DEF Follows, Members
<1>3. \A i \in 1..n : Position(r, s[i]) \in 1..Len(r) /\ r[Position(r, s[i])] = s[i]
  BY <1>1, <1>2, PositionType
<1>4. \A i \in 1..n : i < n => Position(r, s[i]) < k
  BY <1>1 DEF Follows
<1>5. k \in 1..Len(r)
  BY <1>1, <1>3
<1> HIDE DEF k, n
<1>6. \A i \in 1..n : Position(r, s[i]) \in 1..k
  <2> SUFFICES ASSUME NEW i \in 1..n PROVE Position(r, s[i]) \in 1..k
    OBVIOUS
  <2>1. CASE i = n
    BY <1>5, <2>1 DEF k
  <2>2. CASE i # n
    <3>1. i < n
      BY <1>1, <2>2
    <3> QED BY <1>1, <1>3, <1>4, <1>5, <3>1
  <2> QED BY <2>1, <2>2
<1>7. f \in Injection(1..n, 1..k)
  <2>1. f \in [1..n -> 1..k]
    BY <1>6
  <2>2. ASSUME NEW i \in 1..n, NEW j \in 1..n, f[i] = f[j] PROVE i = j
    <3>1. Position(r, s[i]) = Position(r, s[j])
      BY <2>2
    <3>2. s[i] = s[j]
      BY <1>3, <3>1
    <3> QED BY <1>1, <3>2 DEF Distinct
  <2>3. DOMAIN f = 1..n
    OBVIOUS
  <2> HIDE DEF f
  <2> QED BY <2>1, <2>2, <2>3 DEF Injection, IsInjective
<1>8. /\ IsFiniteSet(1..n) /\ Cardinality(1..n) = n
      /\ IsFiniteSet(1..k) /\ Cardinality(1..k) = k
  BY <1>1, <1>5, FS_Interval
<1> HIDE DEF f
<1>9. Cardinality(1..n) <= Cardinality(1..k)
  BY <1>7, <1>8, FS_Injection
<1>10. n <= k
  BY <1>8, <1>9, Zenon
<1> QED BY <1>1, <1>5, <1>10 DEF Tip, k, n

-------------------------------------------------------------------------------
(* Linked lists: the links of a list hold a sequence of nodes of S.        *)

LinkFields(S) == [S -> S \cup {NULL}]
LinkType(S) ==
  [head : S \cup {NULL}, tail : S \cup {NULL}, prev : LinkFields(S), next : LinkFields(S)]

\* Following link from x meets the nodes of s and ends.
Chain(S, link, x, s) ==
  /\ s \in Seq(S) /\ Distinct(s)
  /\ x = IF Len(s) = 0 THEN NULL ELSE s[1]
  /\ \A i \in 1..Len(s) : link[s[i]] = IF i < Len(s) THEN s[i + 1] ELSE NULL

LEMMA WalkIs ==
  ASSUME NEW S, NULL \notin S, NEW link, NEW x, NEW s, Chain(S, link, x, s),
         NEW N \in Nat, Len(s) <= N
  PROVE  WalkFrom(link, x, N) = s
<1> USE DEF NULL
<1> DEFINE n == Len(s)
           Rec(f) == [k \in 0..N |-> IF k = 0 THEN x
                        ELSE IF f[k - 1] = NULL THEN NULL ELSE link[f[k - 1]]]
           run == CHOOSE f : f = Rec(f)
           h == [k \in 0..N |-> IF k < n THEN s[k + 1] ELSE NULL]
           met == {k \in 0..N : run[k] # NULL}
<1>1. /\ s \in Seq(S) /\ Distinct(s) /\ n \in Nat /\ n <= N
      /\ x = IF n = 0 THEN NULL ELSE s[1]
      /\ \A i \in 1..n : /\ link[s[i]] = IF i < n THEN s[i + 1] ELSE NULL
                         /\ s[i] \in S /\ s[i] # NULL
  BY DEF Chain
<1>2. h = Rec(h)
  <2>1. ASSUME NEW k \in 0..N
        PROVE  h[k] = IF k = 0 THEN x ELSE IF h[k - 1] = NULL THEN NULL ELSE link[h[k - 1]]
    <3>1. CASE k = 0
      BY <1>1, <3>1
    <3>2. CASE k # 0 /\ k <= n
      <4>1. k - 1 \in 0..N /\ k - 1 < n /\ k \in 1..n /\ (k - 1) + 1 = k
        BY <1>1, <3>2
      <4>2. h[k - 1] = s[k] /\ s[k] # NULL
        BY <1>1, <4>1
      <4>3. link[s[k]] = IF k < n THEN s[k + 1] ELSE NULL
        BY <1>1, <4>1
      <4> QED BY <3>2, <4>2, <4>3
    <3>3. CASE k # 0 /\ ~(k <= n)
      <4>1. k - 1 \in 0..N /\ ~(k - 1 < n) /\ ~(k < n)
        BY <1>1, <3>3
      <4> QED BY <3>3, <4>1
    <3> QED BY <3>1, <3>2, <3>3
  <2>2. h = [k \in 0..N |-> h[k]]
    OBVIOUS
  <2> HIDE DEF h
  <2> QED BY <2>1, <2>2
<1>3. run = Rec(run)
  <2> HIDE DEF Rec, h
  <2> QED BY <1>2
<1>4. \A k \in 0..N : run[k] = h[k]
  <2> DEFINE T == {k \in Nat : k <= N => run[k] = h[k]}
  <2> HIDE DEF run, h
  <2>1. 0 \in T
    <3>1. run[0] = x /\ h[0] = x
      BY <1>2, <1>3
    <3> QED BY <3>1
  <2>2. ASSUME NEW k \in Nat, k \in T PROVE k + 1 \in T
    <3> SUFFICES ASSUME k + 1 <= N PROVE run[k + 1] = h[k + 1]
      OBVIOUS
    <3>1. run[k] = h[k] /\ k + 1 \in 0..N /\ (k + 1) - 1 = k /\ k + 1 # 0
      BY <2>2
    <3>2. run[k + 1] = IF run[k] = NULL THEN NULL ELSE link[run[k]]
      BY <1>3, <3>1
    <3>3. h[k + 1] = IF h[k] = NULL THEN NULL ELSE link[h[k]]
      BY <1>2, <3>1
    <3> QED BY <3>1, <3>2, <3>3
  <2>3. \A k \in Nat : k \in T
    <3> HIDE DEF T
    <3> QED BY <2>1, <2>2, SetInduction
  <2> QED BY <2>3
<1>5. met = 0..(n - 1)
  <2>1. \A k \in 0..N : k < n => h[k] = s[k + 1] /\ k + 1 \in 1..n
    BY <1>1
  <2>2. \A k \in 0..N : ~(k < n) => h[k] = NULL
    OBVIOUS
  <2>3. \A k \in 0..(n - 1) : k \in 0..N /\ k < n
    BY <1>1
  <2> HIDE DEF run, h
  <2>4. \A k \in 0..N : run[k] # NULL <=> k < n
    BY <1>1, <1>4, <2>1, <2>2
  <2> QED BY <1>1, <2>3, <2>4
<1>6. Cardinality(met) = n
  <2>0. 0 \in Int /\ n - 1 \in Int
    BY <1>1
  <2>1. Cardinality(0..(n - 1)) = IF 0 > n - 1 THEN 0 ELSE (n - 1) - 0 + 1
    BY <2>0, FS_Interval
  <2> HIDE DEF met, run
  <2> QED BY <1>1, <1>5, <2>1
<1>7. WalkFrom(link, x, N) = [k \in 1..Cardinality(met) |-> run[k - 1]]
  BY DEF WalkFrom
<1>8. \A k \in 1..n : run[k - 1] = s[k]
  <2> SUFFICES ASSUME NEW k \in 1..n PROVE run[k - 1] = s[k]
    OBVIOUS
  <2>1. k - 1 \in 0..N /\ k - 1 < n /\ (k - 1) + 1 = k
    BY <1>1
  <2>2. h[k - 1] = s[k]
    BY <2>1
  <2> HIDE DEF run, h
  <2> QED BY <1>4, <2>1, <2>2
<1>9. s = [k \in 1..n |-> s[k]]
  BY <1>1
<1> HIDE DEF run, met
<1> QED BY <1>6, <1>7, <1>8, <1>9

\* The list l holds the nodes of s, its head first.
Listed(S, l, s) ==
  /\ l \in LinkType(S) /\ s \in Seq(S) /\ Distinct(s)
  /\ l.head = IF Len(s) = 0 THEN NULL ELSE s[1]
  /\ l.tail = IF Len(s) = 0 THEN NULL ELSE s[Len(s)]
  /\ \A i \in 1..Len(s) : /\ l.next[s[i]] = IF i < Len(s) THEN s[i + 1] ELSE NULL
                          /\ l.prev[s[i]] = IF i > 1 THEN s[i - 1] ELSE NULL

LEMMA ListedNone ==
  ASSUME NEW S
  PROVE  Listed(S, Unlinked(S), <<>>)
<1>1. Unlinked(S) \in LinkType(S)
  BY DEF Unlinked, LinkType, LinkFields
<1> QED BY <1>1 DEF Unlinked, Listed, Distinct

\* The first p nodes of s, the last of them first.
Reversed(s, p) == [k \in 1..p |-> s[p + 1 - k]]

LEMMA ReversedList ==
  ASSUME NEW S, NEW s \in Seq(S), Distinct(s), NEW p \in 0..Len(s)
  PROVE  Reversed(s, p) \in Seq(S) /\ Len(Reversed(s, p)) = p /\ Distinct(Reversed(s, p))
<1>0. p \in Nat /\ Len(s) \in Nat
  OBVIOUS
<1>1. Reversed(s, p) \in [1..p -> S]
  BY <1>0 DEF Reversed
<1>2. Reversed(s, p) \in Seq(S) /\ Len(Reversed(s, p)) = p
  BY <1>0, <1>1, IsSequence
<1>3. ASSUME NEW i \in 1..p, NEW j \in 1..p, Reversed(s, p)[i] = Reversed(s, p)[j] PROVE i = j
  <2>1. p + 1 - i \in DOMAIN s /\ p + 1 - j \in DOMAIN s /\ s[p + 1 - i] = s[p + 1 - j]
    BY <1>0, <1>3 DEF Reversed
  <2>2. p + 1 - i = p + 1 - j
    BY <2>1 DEF Distinct
  <2> QED BY <1>0, <2>2
<1> QED BY <1>0, <1>2, <1>3 DEF Distinct

\* What walking the list from either end, or from its p-th node to the head, meets.
LEMMA ListedWalks ==
  ASSUME NEW S, NULL \notin S, NEW l, NEW s, Listed(S, l, s), NEW N \in Nat, Len(s) <= N
  PROVE  /\ WalkFrom(l.next, l.head, N) = s
         /\ WalkFrom(l.prev, l.tail, N) = Backwards(s)
         /\ \A p \in 1..Len(s) : WalkFrom(l.prev, s[p], N) = Reversed(s, p)
<1>1. s \in Seq(S) /\ Len(s) \in Nat /\ Distinct(s)
  BY DEF Listed
<1>2. Chain(S, l.next, l.head, s)
  BY DEF Listed, Chain
<1>3. WalkFrom(l.next, l.head, N) = s
  BY <1>2, WalkIs
<1>4. ASSUME NEW p \in 0..Len(s), NEW x, x = IF p = 0 THEN NULL ELSE s[p]
      PROVE  WalkFrom(l.prev, x, N) = Reversed(s, p)
  <2> DEFINE t == Reversed(s, p)
  <2>1. t \in Seq(S) /\ Len(t) = p /\ Distinct(t) /\ p <= N
    BY <1>1, ReversedList
  <2>2. \A k \in 1..p : t[k] = s[p + 1 - k]
    BY DEF Reversed
  <2>3. x = IF Len(t) = 0 THEN NULL ELSE t[1]
    <3>1. p # 0 => t[1] = s[p]
      BY <1>1, <2>2
    <3> QED BY <1>4, <2>1, <3>1
  <2>4. ASSUME NEW k \in 1..Len(t)
        PROVE  l.prev[t[k]] = IF k < Len(t) THEN t[k + 1] ELSE NULL
    <3>1. /\ p + 1 - k \in 1..Len(s) /\ k \in 1..p
          /\ k < p => k + 1 \in 1..p /\ p + 1 - (k + 1) = (p + 1 - k) - 1
          /\ k < p <=> p + 1 - k > 1
      BY <1>1, <2>1
    <3>2. l.prev[s[p + 1 - k]] = IF p + 1 - k > 1 THEN s[(p + 1 - k) - 1] ELSE NULL
      BY <3>1 DEF Listed
    <3> HIDE DEF t
    <3> QED BY <2>1, <2>2, <3>1, <3>2
  <2>5. Chain(S, l.prev, x, t)
    <3> HIDE DEF t
    <3> QED BY <2>1, <2>3, <2>4 DEF Chain
  <2> HIDE DEF t
  <2>6. WalkFrom(l.prev, x, N) = t
    BY <2>1, <2>5, WalkIs
  <2> QED BY <2>6 DEF t
<1>5. WalkFrom(l.prev, l.tail, N) = Backwards(s)
  <2>1. WalkFrom(l.prev, l.tail, N) = Reversed(s, Len(s))
    BY <1>1, <1>4 DEF Listed
  <2>2. DOMAIN s = 1..Len(s)
    BY <1>1
  <2> QED BY <2>1, <2>2 DEF Reversed, Backwards
<1>6. ASSUME NEW p \in 1..Len(s) PROVE WalkFrom(l.prev, s[p], N) = Reversed(s, p)
  BY <1>1, <1>4
<1> QED BY <1>3, <1>5, <1>6

\* Taking a node out (lru.c:53-57) leaves the others in their order.
LEMMA ListedRemove ==
  ASSUME NEW S, NULL \notin S, NEW l, NEW s, Listed(S, l, s), NEW o \in Members(s)
  PROVE  Listed(S, list_remove(l, o), Remove(s, o))
<1> USE DEF NULL
<1> DEFINE m == list_remove(l, o)
           r == Remove(s, o)
           n == Len(s)
           k == Position(s, o)
<1>1. /\ s \in Seq(S) /\ n \in Nat /\ Distinct(s) /\ k \in 1..n /\ s[k] = o /\ n >= 1
      /\ l \in LinkType(S) /\ \A i \in 1..n : s[i] \in S /\ s[i] # NULL
  BY PositionType, RemoveType DEF Listed
<1>2. /\ r \in Seq(S) /\ Len(r) = n - 1 /\ Distinct(r)
      /\ \A j \in 1..(n - 1) : r[j] = IF j < k THEN s[j] ELSE s[j + 1]
  BY <1>1, RemoveType, RemoveMembers DEF Remove
<1>3. /\ l.head = s[1] /\ l.tail = s[n]
      /\ \A i \in 1..n : /\ l.next[s[i]] = IF i < n THEN s[i + 1] ELSE NULL
                         /\ l.prev[s[i]] = IF i > 1 THEN s[i - 1] ELSE NULL
  BY <1>1 DEF Listed
<1>4. \A i, j \in 1..n : s[i] = s[j] => i = j
  BY <1>1 DEF Distinct
<1> DEFINE a == l.prev[o]
           b == l.next[o]
<1>5. /\ a = IF k > 1 THEN s[k - 1] ELSE NULL
      /\ b = IF k < n THEN s[k + 1] ELSE NULL
      /\ a \in S \cup {NULL} /\ b \in S \cup {NULL} /\ NULL \notin S
  <2>1. a = (IF k > 1 THEN s[k - 1] ELSE NULL) /\ b = IF k < n THEN s[k + 1] ELSE NULL
    BY <1>1, <1>3
  <2>2. l.prev \in LinkFields(S) /\ l.next \in LinkFields(S) /\ o \in S
    BY <1>1 DEF LinkType
  <2> QED BY <2>1, <2>2 DEF LinkFields
<1>6. /\ m.head = (IF a = NULL THEN b ELSE l.head) /\ m.tail = (IF b = NULL THEN a ELSE l.tail)
      /\ m.prev = [Link(l.prev, b, a) EXCEPT ![o] = NULL]
      /\ m.next = [Link(l.next, a, b) EXCEPT ![o] = NULL]
  BY DEF list_remove
<1>7. /\ l.prev \in LinkFields(S) /\ l.next \in LinkFields(S)
      /\ Link(l.prev, b, a) \in LinkFields(S) /\ Link(l.next, a, b) \in LinkFields(S)
  BY <1>1, <1>5 DEF LinkType, LinkFields, Link
<1>8. m \in LinkType(S)
  <2>1. m.prev \in LinkFields(S) /\ m.next \in LinkFields(S)
    BY <1>6, <1>7 DEF LinkFields
  <2>2. m.head \in S \cup {NULL} /\ m.tail \in S \cup {NULL}
    BY <1>1, <1>5, <1>6 DEF LinkType
  <2>3. m = [head |-> m.head, tail |-> m.tail, prev |-> m.prev, next |-> m.next]
    BY DEF list_remove
  <2> HIDE DEF m
  <2> QED BY <2>1, <2>2, <2>3 DEF LinkType
<1>9. \A x \in S : /\ m.prev[x] = IF x = o THEN NULL ELSE IF x = b THEN a ELSE l.prev[x]
                   /\ m.next[x] = IF x = o THEN NULL ELSE IF x = a THEN b ELSE l.next[x]
  BY <1>5, <1>6, <1>7 DEF Link, LinkFields
<1> HIDE DEF m, a, b, r
<1>10. m.head = IF Len(r) = 0 THEN NULL ELSE r[1]
  <2>1. a = NULL <=> k = 1
    BY <1>1, <1>5
  <2>2. n > 1 => r[1] = IF k = 1 THEN s[2] ELSE s[1]
    BY <1>1, <1>2
  <2> QED BY <1>1, <1>2, <1>3, <1>5, <1>6, <2>1, <2>2
<1>11. m.tail = IF Len(r) = 0 THEN NULL ELSE r[Len(r)]
  <2>1. b = NULL <=> k = n
    BY <1>1, <1>5
  <2>2. n > 1 => r[n - 1] = IF k = n THEN s[n - 1] ELSE s[n]
    BY <1>1, <1>2
  <2> QED BY <1>1, <1>2, <1>3, <1>5, <1>6, <2>1, <2>2
<1>12. ASSUME NEW i \in 1..(n - 1)
       PROVE  /\ m.next[r[i]] = IF i < n - 1 THEN r[i + 1] ELSE NULL
              /\ m.prev[r[i]] = IF i > 1 THEN r[i - 1] ELSE NULL
  <2> DEFINE p == IF i < k THEN i ELSE i + 1
  <2>1. p \in 1..n /\ p # k /\ r[i] = s[p]
    BY <1>1, <1>2
  <2>2. s[p] \in S /\ s[p] # o /\ (s[p] = a <=> p = k - 1) /\ (s[p] = b <=> p = k + 1)
    BY <1>1, <1>4, <1>5, <2>1
  <2>3. /\ l.next[s[p]] = IF p < n THEN s[p + 1] ELSE NULL
        /\ l.prev[s[p]] = IF p > 1 THEN s[p - 1] ELSE NULL
    BY <1>3, <2>1
  <2>4. /\ m.prev[s[p]] = IF p = k + 1 THEN a ELSE l.prev[s[p]]
        /\ m.next[s[p]] = IF p = k - 1 THEN b ELSE l.next[s[p]]
    BY <1>9, <2>2
  <2>5. i < n - 1 => r[i + 1] = IF i + 1 < k THEN s[i + 1] ELSE s[i + 2]
    BY <1>1, <1>2
  <2>6. i > 1 => r[i - 1] = IF i - 1 < k THEN s[i - 1] ELSE s[i]
    BY <1>1, <1>2
  <2>7. CASE i < k
    <3>1. p = i
      BY <2>7
    <3> QED BY <1>1, <1>5, <2>1, <2>3, <2>4, <2>5, <2>6, <2>7, <3>1
  <2>8. CASE ~(i < k)
    <3>1. p = i + 1 /\ p > k /\ k \in Nat /\ n \in Nat /\ i + 2 = p + 1 /\ i = p - 1
      BY <1>1, <2>1, <2>8
    <3>2. m.next[r[i]] = IF i < n - 1 THEN r[i + 1] ELSE NULL
      <4>1. i < n - 1 => r[i + 1] = s[p + 1]
        BY <2>5, <3>1
      <4>2. m.next[s[p]] = l.next[s[p]] /\ (p < n <=> i < n - 1)
        BY <2>4, <3>1
      <4> QED BY <2>1, <2>3, <4>1, <4>2
    <3>3. m.prev[r[i]] = IF i > 1 THEN r[i - 1] ELSE NULL
      <4>1. CASE p = k + 1
        <5>1. i = k /\ m.prev[s[p]] = a
          BY <2>4, <3>1, <4>1
        <5>2. i > 1 => r[i - 1] = s[k - 1]
          BY <2>6, <3>1, <5>1
        <5> QED BY <1>5, <2>1, <5>1, <5>2
      <4>2. CASE p # k + 1
        <5>1. i > 1 /\ ~(i - 1 < k) /\ p > 1 /\ m.prev[s[p]] = l.prev[s[p]]
          BY <1>1, <2>4, <3>1, <4>2
        <5>2. r[i - 1] = s[p - 1]
          BY <2>6, <3>1, <5>1
        <5> QED BY <2>1, <2>3, <5>1, <5>2
      <4> QED BY <4>1, <4>2
    <3> QED BY <3>2, <3>3
  <2> QED BY <2>7, <2>8
<1> QED BY <1>2, <1>8, <1>10, <1>11, <1>12 DEF Listed, m, r

\* A new node goes in front (lru.c:60-66).
LEMMA ListedPrepend ==
  ASSUME NEW S, NULL \notin S, NEW l, NEW s, Listed(S, l, s), NEW o \in S, o \notin Members(s)
  PROVE  Listed(S, list_push_front(l, o), PushFront(s, o))
<1> USE DEF NULL
<1> DEFINE m == list_push_front(l, o)
           r == PushFront(s, o)
           n == Len(s)
<1>1. /\ s \in Seq(S) /\ n \in Nat /\ Distinct(s) /\ l \in LinkType(S)
      /\ \A i \in 1..n : s[i] \in S /\ s[i] # NULL /\ s[i] # o
      /\ NULL \notin S
  BY DEF Listed, Members
<1>2. /\ r \in Seq(S) /\ Len(r) = n + 1 /\ Distinct(r)
      /\ \A j \in 1..(n + 1) : r[j] = IF j = 1 THEN o ELSE s[j - 1]
  BY <1>1, PushFrontList DEF PushFront
<1>3. /\ l.head = (IF n = 0 THEN NULL ELSE s[1]) /\ l.tail = (IF n = 0 THEN NULL ELSE s[n])
      /\ \A i \in 1..n : /\ l.next[s[i]] = IF i < n THEN s[i + 1] ELSE NULL
                         /\ l.prev[s[i]] = IF i > 1 THEN s[i - 1] ELSE NULL
  BY <1>1 DEF Listed
<1>4. \A i, j \in 1..n : s[i] = s[j] => i = j
  BY <1>1 DEF Distinct
<1>5. /\ m.head = o /\ m.tail = (IF l.tail = NULL THEN o ELSE l.tail)
      /\ m.prev = Link([l.prev EXCEPT ![o] = NULL], l.head, o)
      /\ m.next = [l.next EXCEPT ![o] = l.head]
  BY DEF list_push_front
<1>6. l.prev \in LinkFields(S) /\ l.next \in LinkFields(S) /\ l.head \in S \cup {NULL} /\ l.tail \in S \cup {NULL}
  BY <1>1 DEF LinkType
<1>7. m \in LinkType(S)
  <2>1. m.prev \in LinkFields(S) /\ m.next \in LinkFields(S)
    BY <1>5, <1>6 DEF LinkFields, Link
  <2>2. m.head \in S \cup {NULL} /\ m.tail \in S \cup {NULL}
    BY <1>5, <1>6
  <2>3. m = [head |-> m.head, tail |-> m.tail, prev |-> m.prev, next |-> m.next]
    BY DEF list_push_front
  <2> HIDE DEF m
  <2> QED BY <2>1, <2>2, <2>3 DEF LinkType
<1>8. /\ m.prev[o] = (IF l.head = o THEN o ELSE NULL) /\ m.next[o] = l.head
      /\ \A x \in S \ {o} : /\ m.prev[x] = IF x = l.head THEN o ELSE l.prev[x]
                            /\ m.next[x] = l.next[x]
  <2> DEFINE P == [l.prev EXCEPT ![o] = NULL]
  <2>1. P \in LinkFields(S) /\ P[o] = NULL /\ \A x \in S \ {o} : P[x] = l.prev[x]
    BY <1>6 DEF LinkFields
  <2>2. m.next[o] = l.head /\ \A x \in S \ {o} : m.next[x] = l.next[x]
    BY <1>5, <1>6 DEF LinkFields
  <2>3. m.prev = Link(P, l.head, o)
    BY <1>5
  <2> HIDE DEF P, m
  <2>4. \A x \in S : m.prev[x] = IF x = l.head THEN o ELSE P[x]
    <3>1. CASE l.head = NULL
      BY <1>1, <2>3, <3>1 DEF Link
    <3>2. CASE l.head # NULL
      BY <1>6, <2>1, <2>3, <3>2 DEF Link, LinkFields
    <3> QED BY <3>1, <3>2
  <2> QED BY <2>1, <2>2, <2>4
<1> HIDE DEF m, r
<1>9. m.head = r[1] /\ m.tail = r[n + 1]
  BY <1>1, <1>2, <1>3, <1>5
<1>10. ASSUME NEW i \in 1..(n + 1)
       PROVE  /\ m.next[r[i]] = IF i < n + 1 THEN r[i + 1] ELSE NULL
              /\ m.prev[r[i]] = IF i > 1 THEN r[i - 1] ELSE NULL
  <2>1. CASE i = 1
    <3>1. r[1] = o /\ (n > 0 => r[2] = s[1]) /\ l.head # o
      BY <1>1, <1>2, <1>3
    <3> QED BY <1>1, <1>3, <1>8, <2>1, <3>1
  <2>2. CASE i # 1
    <3>1. /\ i - 1 \in 1..n /\ r[i] = s[i - 1] /\ r[i - 1] = (IF i = 2 THEN o ELSE s[i - 2])
          /\ i < n + 1 => r[i + 1] = s[i]
      BY <1>1, <1>2, <2>2
    <3>2. s[i - 1] \in S \ {o} /\ (s[i - 1] = l.head <=> i = 2)
      BY <1>1, <1>3, <1>4, <3>1
    <3>3. /\ l.next[s[i - 1]] = IF i - 1 < n THEN s[i] ELSE NULL
          /\ l.prev[s[i - 1]] = IF i - 1 > 1 THEN s[i - 2] ELSE NULL
      <4>1. (i - 1) + 1 = i /\ (i - 1) - 1 = i - 2
        OBVIOUS
      <4> QED BY <1>3, <3>1, <4>1
    <3>4. m.next[r[i]] = IF i < n + 1 THEN r[i + 1] ELSE NULL
      <4>1. m.next[s[i - 1]] = l.next[s[i - 1]] /\ (i - 1 < n <=> i < n + 1)
        BY <1>1, <1>8, <3>2
      <4> QED BY <3>1, <3>3, <4>1
    <3>5. m.prev[r[i]] = IF i > 1 THEN r[i - 1] ELSE NULL
      <4>1. m.prev[s[i - 1]] = IF i = 2 THEN o ELSE l.prev[s[i - 1]]
        BY <1>8, <3>2
      <4>2. i > 1 /\ (i # 2 => i - 1 > 1)
        BY <1>1, <2>2
      <4> QED BY <3>1, <3>3, <4>1, <4>2
    <3> QED BY <3>4, <3>5
  <2> QED BY <2>1, <2>2
<1> QED BY <1>1, <1>2, <1>7, <1>9, <1>10 DEF Listed, m, r

-------------------------------------------------------------------------------
(* Adjacency lists.                                                        *)

\* An edge to a destination of D.
EdgeTo(D) == [dst : D, w : 1..MAX_WEIGHT]

\* A sweep leaves a live edge alive.
LEMMA DecayedType ==
  ASSUME NEW w \in 1..MAX_WEIGHT
  PROVE  Decayed(w) \in 1..w
<1> DEFINE q == w \div DECAY_DIV
<1>1. DECAY_DIV \in Nat /\ DECAY_DIV >= 2 /\ w \in Nat /\ w >= 1
  BY GraphAssumption
<1>2. q \in Nat /\ DECAY_DIV * q <= w
  BY <1>1
<1>3. q + q <= DECAY_DIV * q
  <2> HIDE DEF q
  <2> QED BY <1>1, <1>2
<1>4. q < w
  <2> HIDE DEF q
  <2>1. DECAY_DIV * q \in Nat
    BY <1>1, <1>2
  <2> QED BY <1>1, <1>2, <1>3, <2>1
<1> QED BY <1>1, <1>2, <1>4 DEF Decayed

\* A sweep keeps the order of two weights.
LEMMA DecayedOrder ==
  ASSUME NEW a \in Nat, NEW b \in Nat, a <= b
  PROVE  Decayed(a) <= Decayed(b)
<1> DEFINE D == DECAY_DIV
           q == a \div D
           r == b \div D
<1>1. D \in Nat /\ D >= 2
  BY GraphAssumption
<1>2. q \in Nat /\ r \in Nat /\ D * r <= b /\ a < D * (q + 1)
  BY <1>1
<1> HIDE DEF D, q, r
<1>3. CASE r <= q
  BY <1>2, <1>3 DEF Decayed, q, r, D
<1>4. CASE r > q
  <2>1. PICK k \in Nat : r = q + 1 + k
    <3>1. r - (q + 1) \in Nat /\ r = q + 1 + (r - (q + 1))
      BY <1>2, <1>4
    <3> QED BY <3>1
  <2>2. D * r = D * (q + 1) + D * k
    BY <1>1, <1>2, <2>1
  <2>3. k <= D * k
    BY <1>1, <2>1
  <2>4. D * (q + 1) \in Nat /\ D * k \in Nat
    BY <1>1, <1>2, <2>1
  <2>5. a + k < b
    <3> DEFINE s == D * (q + 1)
               t == D * k
    <3>1. s \in Nat /\ t \in Nat /\ a < s /\ s + t <= b /\ k <= t
      BY <1>2, <2>2, <2>3, <2>4
    <3> HIDE DEF s, t
    <3> QED BY <2>1, <3>1
  <2>6. a - q <= b - r
    BY <1>2, <2>1, <2>5
  <2> QED BY <2>6 DEF Decayed, q, r, D
<1> QED BY <1>2, <1>3, <1>4

\* apply_decay rewrites every weight of a list in place and removes no edge, so the
\* compaction branch of tempograph.c:110-111 is never taken.
THEOREM DecayRemovesNoEdge ==
  ASSUME NEW D, NEW list \in Seq(EdgeTo(D))
  PROVE  DecayList(list) = [i \in 1..Len(list) |-> [list[i] EXCEPT !.w = Decayed(@)]]
<1> DEFINE n == Len(list)
           Swept(k) == [i \in 1..n |-> IF i <= k THEN [list[i] EXCEPT !.w = Decayed(@)] ELSE list[i]]
           explicit == [k \in 0..n |-> [list |-> Swept(k), i |-> k + 1]]
           Rec(f) == [k \in 0..n |-> IF k = 0 THEN [list |-> list, i |-> 1] ELSE DecayStep(f[k - 1])]
           turn == CHOOSE f : f = Rec(f)
<1>0. n \in Nat /\ \A i \in 1..n : list[i] \in EdgeTo(D)
  OBVIOUS
<1>1. \A k \in 1..n : DecayStep(explicit[k - 1]) = explicit[k]
  <2> SUFFICES ASSUME NEW k \in 1..n PROVE DecayStep(explicit[k - 1]) = explicit[k]
    OBVIOUS
  <2> DEFINE s == explicit[k - 1]
  <2>1. s = [list |-> Swept(k - 1), i |-> k]
    <3>1. k - 1 \in 0..n /\ (k - 1) + 1 = k
      BY <1>0
    <3> HIDE DEF Swept
    <3> QED BY <3>1
  <2>2. Swept(k - 1)[k] = list[k] /\ list[k].w \in 1..MAX_WEIGHT
    BY <1>0 DEF EdgeTo
  <2>3. Decayed(list[k].w) # 0
    BY <2>2, DecayedType
  <2>4. [Swept(k - 1) EXCEPT ![k].w = Decayed(list[k].w)] = Swept(k)
    <3> DEFINE T == [Swept(k - 1) EXCEPT ![k].w = Decayed(list[k].w)]
    <3>1. T = [i \in 1..n |-> IF i = k THEN [list[k] EXCEPT !.w = Decayed(list[k].w)]
                                       ELSE Swept(k - 1)[i]]
      BY <2>2
    <3>2. \A i \in 1..n : i <= k <=> i = k \/ i <= k - 1
      BY <1>0
    <3> HIDE DEF T
    <3> QED BY <3>1, <3>2
  <2>5. explicit[k] = [list |-> Swept(k), i |-> k + 1]
    BY <1>0
  <2> HIDE DEF explicit, Swept
  <2> QED BY <2>1, <2>2, <2>3, <2>4, <2>5, SMTT(60) DEF DecayStep
<1>2. explicit = Rec(explicit)
  <2>1. Swept(0) = list
    BY <1>0
  <2>2. explicit[0] = [list |-> list, i |-> 1]
    BY <1>0, <2>1
  <2>3. ASSUME NEW k \in 0..n
        PROVE  explicit[k] = IF k = 0 THEN [list |-> list, i |-> 1] ELSE DecayStep(explicit[k - 1])
    <3> HIDE DEF explicit
    <3> QED BY <1>0, <1>1, <2>2
  <2>4. explicit = [k \in 0..n |-> explicit[k]]
    OBVIOUS
  <2> HIDE DEF explicit
  <2> QED BY <2>3, <2>4
<1>3. turn = Rec(turn)
  <2> HIDE DEF explicit, Rec
  <2> QED BY <1>2
<1>4. \A k \in Nat : k \in 0..n => turn[k] = explicit[k]
  <2> DEFINE S == {k \in Nat : k \in 0..n => turn[k] = explicit[k]}
  <2> HIDE DEF turn, explicit
  <2>1. 0 \in S
    BY <1>0, <1>2, <1>3
  <2>2. ASSUME NEW k \in Nat, k \in S PROVE k + 1 \in S
    BY <1>0, <1>2, <1>3, <2>2
  <2>3. \A k \in Nat : k \in S
    <3> HIDE DEF S
    <3> QED BY <2>1, <2>2, SetInduction
  <2> QED BY <2>3
<1>5. DecayList(list) = turn[n].list
  BY DEF DecayList
<1>6. DecayList(list) = Swept(n)
  <2>1. turn[n] = explicit[n]
    <3> HIDE DEF turn, explicit
    <3> QED BY <1>0, <1>4
  <2>2. explicit[n].list = Swept(n)
    <3> HIDE DEF Swept
    <3> QED BY <1>0
  <2> HIDE DEF turn, explicit, Swept
  <2> QED BY <1>5, <2>1, <2>2
<1> QED BY <1>0, <1>6

\* A sweep over one adjacency list changes weights only: same length, same
\* destinations in the same places, weights still in range.
LEMMA DecayListType ==
  ASSUME NEW D, NEW list \in Seq(EdgeTo(D))
  PROVE  /\ DecayList(list) \in Seq(EdgeTo(D))
         /\ Len(DecayList(list)) = Len(list)
         /\ \A i \in 1..Len(list) : DecayList(list)[i].dst = list[i].dst
<1> DEFINE n == Len(list)
           d == [i \in 1..n |-> [list[i] EXCEPT !.w = Decayed(@)]]
<1>1. n \in Nat /\ \A i \in 1..n : list[i] \in EdgeTo(D)
  OBVIOUS
<1>2. \A i \in 1..n : d[i] \in EdgeTo(D) /\ d[i].dst = list[i].dst
  <2> TAKE i \in 1..n
  <2>1. list[i] \in EdgeTo(D)
    BY <1>1
  <2>2. Decayed(list[i].w) \in 1..MAX_WEIGHT
    BY <2>1, DecayedType, GraphAssumption DEF EdgeTo
  <2> QED BY <2>1, <2>2 DEF EdgeTo
<1>3. DecayList(list) = d
  BY DecayRemovesNoEdge
<1>4. d \in Seq(EdgeTo(D)) /\ Len(d) = n
  <2> HIDE DEF d
  <2>1. d \in [1..n -> EdgeTo(D)]
    BY <1>1, <1>2 DEF d
  <2> QED BY <1>1, <2>1
<1> HIDE DEF d
<1> QED BY <1>2, <1>3, <1>4

\* The search of adj_inc for the lowest weight ends at an edge of the list.
LEMMA WeakestExists ==
  ASSUME NEW D, NEW list \in Seq(EdgeTo(D)), Len(list) > 0
  PROVE  /\ WeakestEdge(list) \in DOMAIN list
         /\ \A j \in DOMAIN list : list[WeakestEdge(list)].w <= list[j].w
<1> DEFINE T == {list[i].w : i \in DOMAIN list}
           Q(i) == \A j \in DOMAIN list :
                     list[i].w < list[j].w \/ (list[i].w = list[j].w /\ i <= j)
<1>1. Len(list) \in Nat /\ DOMAIN list = 1..Len(list) /\ \A i \in DOMAIN list : list[i].w \in Nat
  <2>1. \A i \in DOMAIN list : list[i] \in EdgeTo(D)
    OBVIOUS
  <2> QED BY <2>1, GraphAssumption DEF EdgeTo
<1>2. T \in SUBSET Nat /\ T # {}
  BY <1>1
<1>3. PICK t \in T : \A m \in T : t <= m
  BY <1>2, LeastNumber
<1> DEFINE P == {i \in DOMAIN list : list[i].w = t}
<1>4. P \in SUBSET Nat /\ P # {}
  BY <1>1, <1>3
<1>5. PICK k \in P : \A m \in P : k <= m
  BY <1>4, LeastNumber
<1>6. k \in DOMAIN list /\ list[k].w = t /\ \A j \in DOMAIN list : t <= list[j].w
  BY <1>3, <1>5
<1>7. Q(k)
  <2> SUFFICES ASSUME NEW j \in DOMAIN list
               PROVE  list[k].w < list[j].w \/ (list[k].w = list[j].w /\ k <= j)
    OBVIOUS
  <2>1. t <= list[j].w /\ t \in Nat /\ list[j].w \in Nat
    BY <1>1, <1>2, <1>3, <1>6
  <2>2. CASE list[j].w = t
    BY <1>5, <1>6, <2>2
  <2>3. CASE list[j].w # t
    BY <1>6, <2>1, <2>3
  <2> QED BY <2>2, <2>3
<1>8. WeakestEdge(list) = CHOOSE i \in DOMAIN list : Q(i)
  BY DEF WeakestEdge
<1> HIDE DEF Q
<1>9. WeakestEdge(list) \in DOMAIN list /\ Q(WeakestEdge(list))
  BY <1>6, <1>7, <1>8
<1>10. \A j \in DOMAIN list : list[WeakestEdge(list)].w <= list[j].w
  <2> SUFFICES ASSUME NEW j \in DOMAIN list PROVE list[WeakestEdge(list)].w <= list[j].w
    OBVIOUS
  <2>1. list[WeakestEdge(list)].w \in Nat /\ list[j].w \in Nat
    BY <1>1, <1>9
  <2> QED BY <1>9, <2>1 DEF Q
<1> QED BY <1>9, <1>10

\* adj_inc, whether it counts, appends or replaces, yields a list of edges.
LEMMA AdjIncType ==
  ASSUME NEW D, NEW list \in Seq(EdgeTo(D)), NEW v \in D
  PROVE  adj_inc(list, v) \in Seq(EdgeTo(D))
<1>1. [dst |-> v, w |-> 1] \in EdgeTo(D)
  BY GraphAssumption DEF EdgeTo
<1>2. ASSUME NEW i
      PROVE [list EXCEPT ![i].w = IF @ < MAX_WEIGHT THEN @ + 1 ELSE @] \in Seq(EdgeTo(D))
  <2> DEFINE e == [list[i] EXCEPT !.w = IF list[i].w < MAX_WEIGHT THEN list[i].w + 1 ELSE list[i].w]
  <2>1. i \in 1..Len(list) => list[i] \in EdgeTo(D)
    OBVIOUS
  <2>2. i \in 1..Len(list) => e \in EdgeTo(D)
    BY <2>1, GraphAssumption DEF EdgeTo
  <2>3. [list EXCEPT ![i] = e] \in Seq(EdgeTo(D))
    <3> HIDE DEF e
    <3> QED BY <2>2, SeqUpdate
  <2> QED BY <2>3
<1>3. ASSUME NEW i PROVE [list EXCEPT ![i] = [dst |-> v, w |-> 1]] \in Seq(EdgeTo(D))
  BY <1>1, SeqUpdate
<1>4. Append(list, [dst |-> v, w |-> 1]) \in Seq(EdgeTo(D))
  BY <1>1
<1> DEFINE first == CHOOSE k \in DOMAIN list :
                      list[k].dst = v /\ \A j \in 1..(k - 1) : list[j].dst # v
<1>5. adj_inc(list, v) \in {
        [list EXCEPT ![first].w = IF @ < MAX_WEIGHT THEN @ + 1 ELSE @],
        [list EXCEPT ![WeakestEdge(list)] = [dst |-> v, w |-> 1]],
        Append(list, [dst |-> v, w |-> 1])}
  BY DEF adj_inc
<1> HIDE DEF first
<1> QED BY <1>2, <1>3, <1>4, <1>5

\* No destination is named twice.
DistinctDsts(list) == \A i, j \in DOMAIN list : list[i].dst = list[j].dst => i = j
Names(list, v) == \E i \in DOMAIN list : list[i].dst = v

\* The weight adj_weight finds of a destination the list names.
LEMMA WeightNamed ==
  ASSUME NEW D, NEW list \in Seq(EdgeTo(D)), DistinctDsts(list), NEW i \in DOMAIN list
  PROVE  adj_weight(list, list[i].dst) = list[i].w
<1> DEFINE v == list[i].dst
           first == CHOOSE k \in DOMAIN list : list[k].dst = v /\ \A j \in 1..(k - 1) : list[j].dst # v
<1>1. DOMAIN list = 1..Len(list) /\ Len(list) \in Nat
  OBVIOUS
<1>2. \A j \in 1..(i - 1) : list[j].dst # v
  BY <1>1 DEF DistinctDsts
<1>3. first \in DOMAIN list /\ list[first].dst = v
  BY <1>2
<1>4. first = i
  BY <1>3 DEF DistinctDsts
<1>5. adj_weight(list, v) = list[first].w
  BY DEF adj_weight
<1> HIDE DEF first, v
<1> QED BY <1>4, <1>5 DEF v

\* A destination the list does not name has weight 0.
LEMMA WeightUnnamed ==
  ASSUME NEW list, NEW v, ~Names(list, v)
  PROVE  adj_weight(list, v) = 0
BY DEF Names, adj_weight

LEMMA WeightType ==
  ASSUME NEW D, NEW list \in Seq(EdgeTo(D)), DistinctDsts(list), NEW v
  PROVE  adj_weight(list, v) \in 0..MAX_WEIGHT
<1>1. CASE Names(list, v)
  <2>1. PICK i \in DOMAIN list : list[i].dst = v
    BY <1>1 DEF Names
  <2>2. adj_weight(list, v) = list[i].w
    BY <2>1, WeightNamed
  <2>3. list[i] \in EdgeTo(D)
    BY <2>1
  <2> QED BY <2>2, <2>3, GraphAssumption DEF EdgeTo
<1>2. CASE ~Names(list, v)
  BY <1>2, WeightUnnamed, GraphAssumption
<1> QED BY <1>1, <1>2

\* A sweep decays every weight, and no weight below DECAY_DIV.
LEMMA DecayedBounds ==
  ASSUME NEW w \in Nat
  PROVE  Decayed(w) \in 0..w /\ (w < DECAY_DIV => Decayed(w) = w)
<1> DEFINE q == w \div DECAY_DIV
<1>1. DECAY_DIV \in Nat /\ DECAY_DIV >= 2
  BY GraphAssumption
<1>2. q \in Nat /\ DECAY_DIV * q <= w /\ (w < DECAY_DIV => q = 0)
  BY <1>1
<1>3. q <= DECAY_DIV * q /\ DECAY_DIV * q \in Nat
  <2> HIDE DEF q
  <2> QED BY <1>1, <1>2
<1>4. q <= w
  <2> HIDE DEF q
  <2> QED BY <1>2, <1>3
<1>5. Decayed(w) = w - q
  BY DEF Decayed
<1> HIDE DEF q
<1> QED BY <1>2, <1>4, <1>5

LEMMA DecayWeight ==
  ASSUME NEW D, NEW list \in Seq(EdgeTo(D)), DistinctDsts(list), NEW x
  PROVE  /\ DecayList(list) \in Seq(EdgeTo(D)) /\ DistinctDsts(DecayList(list))
         /\ Len(DecayList(list)) = Len(list)
         /\ adj_weight(DecayList(list), x) = Decayed(adj_weight(list, x))
<1>1. PICK d : d = DecayList(list)
  OBVIOUS
<1>2. d \in Seq(EdgeTo(D)) /\ Len(d) = Len(list) /\ \A i \in 1..Len(list) : d[i].dst = list[i].dst
  BY <1>1, DecayListType
<1>3. /\ Len(list) \in Nat /\ DOMAIN list = 1..Len(list) /\ DOMAIN d = 1..Len(list)
      /\ \A i \in 1..Len(list) : list[i] \in EdgeTo(D)
  BY <1>2
<1>4. \A i \in 1..Len(list) : d[i].w = Decayed(list[i].w)
  <2>1. d = [i \in 1..Len(list) |-> [list[i] EXCEPT !.w = Decayed(@)]]
    BY <1>1, DecayRemovesNoEdge
  <2> QED BY <1>3, <2>1 DEF EdgeTo
<1>5. DistinctDsts(d)
  BY <1>2, <1>3 DEF DistinctDsts
<1>6. adj_weight(d, x) = Decayed(adj_weight(list, x))
  <2>1. CASE Names(list, x)
    <3>1. PICK i \in 1..Len(list) : list[i].dst = x
      BY <1>3, <2>1 DEF Names
    <3>2. adj_weight(list, x) = list[i].w
      BY <1>3, <3>1, WeightNamed
    <3>3. d[i].dst = x /\ i \in DOMAIN d
      BY <1>2, <1>3, <3>1
    <3>4. adj_weight(d, x) = d[i].w
      BY <1>2, <1>5, <3>3, WeightNamed
    <3> QED BY <1>4, <3>2, <3>4
  <2>2. CASE ~Names(list, x)
    <3>1. ~Names(d, x)
      BY <1>2, <1>3, <2>2 DEF Names
    <3>2. adj_weight(list, x) = 0 /\ adj_weight(d, x) = 0
      BY <2>2, <3>1, WeightUnnamed
    <3>3. Decayed(0) = 0
      BY DecayedBounds
    <3> QED BY <3>2, <3>3
  <2> QED BY <2>1, <2>2
<1> QED BY <1>1, <1>2, <1>5, <1>6

\* The list after adj_inc: an edge counted, an edge appended or an edge replaced.
Raises(list, r, v) ==
  \E i \in 1..Len(list) :
    /\ list[i].dst = v /\ Len(r) = Len(list)
    /\ \A j \in 1..Len(list) :
         /\ r[j].dst = list[j].dst
         /\ r[j].w = IF j = i THEN Smaller(list[j].w + 1, MAX_WEIGHT) ELSE list[j].w
Appended(list, r, v) ==
  /\ ~Names(list, v) /\ Len(list) < MAX_EDGES_PER_NODE /\ Len(r) = Len(list) + 1
  /\ \A j \in 1..Len(list) : r[j] = list[j]
  /\ r[Len(list) + 1] = [dst |-> v, w |-> 1]
Replaced(list, r, v) ==
  /\ ~Names(list, v) /\ Len(list) = MAX_EDGES_PER_NODE /\ Len(r) = Len(list)
  /\ \E m \in 1..Len(list) : \A j \in 1..Len(list) :
       r[j] = IF j = m THEN [dst |-> v, w |-> 1] ELSE list[j]

LEMMA AdjIncCases ==
  ASSUME NEW D, NEW list \in Seq(EdgeTo(D)), DistinctDsts(list), NEW v \in D,
         Len(list) <= MAX_EDGES_PER_NODE
  PROVE  \/ Raises(list, adj_inc(list, v), v)
         \/ Appended(list, adj_inc(list, v), v)
         \/ Replaced(list, adj_inc(list, v), v)
<1> DEFINE n == Len(list)
           r == adj_inc(list, v)
           fresh == [dst |-> v, w |-> 1]
           first == CHOOSE k \in DOMAIN list : list[k].dst = v /\ \A j \in 1..(k - 1) : list[j].dst # v
<1>1. n \in Nat /\ DOMAIN list = 1..n /\ \A i \in 1..n : list[i] \in EdgeTo(D)
  OBVIOUS
<1>2. fresh \in EdgeTo(D)
  BY GraphAssumption DEF EdgeTo
<1>3. CASE Names(list, v)
  <2> DEFINE e == [list[first] EXCEPT !.w = IF list[first].w < MAX_WEIGHT
                                            THEN list[first].w + 1 ELSE list[first].w]
  <2>1. r = [list EXCEPT ![first] = e]
    BY <1>3 DEF adj_inc, Names
  <2>2. first \in 1..n /\ list[first].dst = v
    <3>1. PICK i \in 1..n : list[i].dst = v
      BY <1>1, <1>3 DEF Names
    <3>2. \A j \in 1..(i - 1) : list[j].dst # v
      BY <1>1, <3>1 DEF DistinctDsts
    <3> QED BY <1>1, <3>1, <3>2
  <2> HIDE DEF first
  <2>3. list[first] \in EdgeTo(D)
    BY <1>1, <2>2
  <2>4. e.dst = list[first].dst /\ e.w = Smaller(list[first].w + 1, MAX_WEIGHT)
    BY <2>3, GraphAssumption DEF EdgeTo, Smaller
  <2> HIDE DEF e, r
  <2>5. Len(r) = n /\ \A j \in 1..n : r[j] = IF j = first THEN e ELSE list[j]
    BY <1>1, <2>1, <2>2
  <2>6. Raises(list, r, v)
    BY <2>2, <2>4, <2>5 DEF Raises
  <2> QED BY <2>6 DEF r
<1>4. CASE ~Names(list, v) /\ n < MAX_EDGES_PER_NODE
  <2>1. r = Append(list, fresh)
    BY <1>4 DEF adj_inc, Names
  <2> HIDE DEF r, fresh
  <2>2. Len(r) = n + 1 /\ r[n + 1] = fresh /\ \A i \in 1..n : r[i] = list[i]
    BY <1>1, <1>2, <2>1, AppendProperties
  <2>3. Appended(list, r, v)
    BY <1>4, <2>2 DEF Appended, fresh
  <2> QED BY <2>3 DEF r
<1>5. CASE ~Names(list, v) /\ ~(n < MAX_EDGES_PER_NODE)
  <2> DEFINE m == WeakestEdge(list)
  <2>1. r = [list EXCEPT ![m] = fresh]
    BY <1>5 DEF adj_inc, Names
  <2>2. n = MAX_EDGES_PER_NODE /\ n > 0
    <3>1. n <= MAX_EDGES_PER_NODE /\ ~(n < MAX_EDGES_PER_NODE)
      BY <1>5
    <3>2. MAX_EDGES_PER_NODE \in Nat /\ MAX_EDGES_PER_NODE > 0
      BY GraphAssumption
    <3> HIDE DEF n
    <3> QED BY <1>1, <3>1, <3>2
  <2>3. m \in 1..n
    BY <1>1, <2>2, WeakestExists
  <2> HIDE DEF m, r, fresh
  <2>4. Len(r) = n /\ \A j \in 1..n : r[j] = IF j = m THEN fresh ELSE list[j]
    BY <1>1, <2>1
  <2>5. Replaced(list, r, v)
    BY <1>5, <2>2, <2>3, <2>4 DEF Replaced, fresh
  <2> QED BY <2>5 DEF r
<1> QED BY <1>3, <1>4, <1>5

\* adj_inc keeps the destinations distinct and the list within its bound.
LEMMA AdjIncBounded ==
  ASSUME NEW D, NEW list \in Seq(EdgeTo(D)), DistinctDsts(list), NEW v \in D,
         Len(list) <= MAX_EDGES_PER_NODE
  PROVE  /\ adj_inc(list, v) \in Seq(EdgeTo(D)) /\ DistinctDsts(adj_inc(list, v))
         /\ Len(adj_inc(list, v)) <= MAX_EDGES_PER_NODE
<1>1. PICK r : r = adj_inc(list, v)
  OBVIOUS
<1>2. r \in Seq(EdgeTo(D))
  BY <1>1, AdjIncType
<1>3. Len(list) \in Nat /\ DOMAIN list = 1..Len(list) /\ DOMAIN r = 1..Len(r) /\ MAX_EDGES_PER_NODE \in Nat
  BY <1>2, GraphAssumption
<1>4. Raises(list, r, v) \/ Appended(list, r, v) \/ Replaced(list, r, v)
  BY <1>1, AdjIncCases
<1>5. CASE Raises(list, r, v)
  BY <1>1, <1>2, <1>3, <1>5 DEF Raises, DistinctDsts
<1>6. CASE Appended(list, r, v)
  <2>1. \A i \in 1..Len(list) : r[i].dst = list[i].dst /\ list[i].dst # v
    BY <1>3, <1>6 DEF Appended, Names
  <2>2. r[Len(list) + 1].dst = v
    BY <1>6 DEF Appended
  <2>3. Len(r) = Len(list) + 1 /\ Len(r) <= MAX_EDGES_PER_NODE
    BY <1>3, <1>6 DEF Appended
  <2>4. DistinctDsts(r)
    BY <1>3, <2>1, <2>2, <2>3 DEF DistinctDsts
  <2> QED BY <1>1, <1>2, <2>3, <2>4
<1>7. CASE Replaced(list, r, v)
  <2>1. PICK m \in 1..Len(list) : \A j \in 1..Len(list) :
          r[j] = IF j = m THEN [dst |-> v, w |-> 1] ELSE list[j]
    BY <1>7 DEF Replaced
  <2>2. \A j \in 1..Len(list) : r[j].dst = (IF j = m THEN v ELSE list[j].dst) /\ list[j].dst # v
    BY <1>3, <1>7, <2>1 DEF Replaced, Names
  <2>3. Len(r) = Len(list)
    BY <1>7 DEF Replaced
  <2>4. DistinctDsts(r)
    BY <1>3, <2>2, <2>3 DEF DistinctDsts
  <2> QED BY <1>1, <1>2, <2>3, <2>4
<1> QED BY <1>4, <1>5, <1>6, <1>7

\* adj_inc names no new destination but its own.
LEMMA AdjIncNames ==
  ASSUME NEW D, NEW list \in Seq(EdgeTo(D)), DistinctDsts(list), NEW v \in D, NEW x,
         Len(list) <= MAX_EDGES_PER_NODE, Names(adj_inc(list, v), x)
  PROVE  Names(list, x) \/ x = v
<1>1. PICK r : r = adj_inc(list, v)
  OBVIOUS
<1>2. r \in Seq(EdgeTo(D))
  BY <1>1, AdjIncType
<1>3. Len(list) \in Nat /\ DOMAIN list = 1..Len(list) /\ DOMAIN r = 1..Len(r)
  BY <1>2
<1>4. PICK i \in 1..Len(r) : r[i].dst = x
  BY <1>1, <1>3 DEF Names
<1>5. Raises(list, r, v) \/ Appended(list, r, v) \/ Replaced(list, r, v)
  BY <1>1, AdjIncCases
<1>6. CASE Raises(list, r, v)
  <2>1. i \in 1..Len(list) /\ list[i].dst = x
    BY <1>4, <1>6 DEF Raises
  <2> QED BY <1>3, <2>1 DEF Names
<1>7. CASE Appended(list, r, v)
  <2>1. CASE i \in 1..Len(list)
    <3>1. list[i].dst = x
      BY <1>4, <1>7, <2>1 DEF Appended
    <3> QED BY <1>3, <2>1, <3>1 DEF Names
  <2>2. CASE i = Len(list) + 1
    BY <1>4, <1>7, <2>2 DEF Appended
  <2>3. Len(r) = Len(list) + 1
    BY <1>7 DEF Appended
  <2> QED BY <1>3, <1>4, <2>1, <2>2, <2>3
<1>8. CASE Replaced(list, r, v)
  <2>1. PICK m \in 1..Len(list) : \A j \in 1..Len(list) :
          r[j] = IF j = m THEN [dst |-> v, w |-> 1] ELSE list[j]
    BY <1>8 DEF Replaced
  <2>2. i \in 1..Len(list)
    BY <1>4, <1>8 DEF Replaced
  <2>3. CASE i = m
    BY <1>4, <2>1, <2>2, <2>3
  <2>4. CASE i # m
    <3>1. list[i].dst = x
      BY <1>4, <2>1, <2>2, <2>4
    <3> QED BY <1>3, <2>2, <3>1 DEF Names
  <2> QED BY <2>3, <2>4
<1> QED BY <1>5, <1>6, <1>7, <1>8

\* A list that names distinct destinations of a set that fits is never full.
LEMMA RoomLeft ==
  ASSUME NEW D, IsFiniteSet(D), Cardinality(D) <= MAX_EDGES_PER_NODE,
         NEW list \in Seq(EdgeTo(D)), DistinctDsts(list), NEW v \in D, ~Names(list, v)
  PROVE  Len(list) < MAX_EDGES_PER_NODE
<1> DEFINE s == [i \in 1..Len(list) |-> list[i].dst]
<1>1. Len(list) \in Nat /\ DOMAIN list = 1..Len(list) /\ \A i \in 1..Len(list) : list[i] \in EdgeTo(D)
  OBVIOUS
<1>2. \A i \in 1..Len(list) : list[i].dst \in D \ {v}
  BY <1>1 DEF EdgeTo, Names
<1>3. s \in Seq(D \ {v}) /\ Len(s) = Len(list) /\ DOMAIN s = 1..Len(list)
  BY <1>1, <1>2
<1>4. Distinct(s)
  BY <1>1 DEF Distinct, DistinctDsts
<1>5. Members(s) \subseteq D \ {v}
  BY <1>2, <1>3 DEF Members
<1> HIDE DEF s
<1>6. IsFiniteSet(Members(s)) /\ Cardinality(Members(s)) = Len(list)
  BY <1>3, <1>4, MembersCount
<1>7. IsFiniteSet(D \ {v}) /\ Cardinality(D \ {v}) = Cardinality(D) - 1 /\ Cardinality(D) \in Nat
  BY FS_RemoveElement, FS_CardinalityType
<1>8. Cardinality(Members(s)) <= Cardinality(D \ {v})
  BY <1>5, <1>7, FS_Subset
<1> QED BY <1>1, <1>6, <1>7, <1>8, GraphAssumption

\* The weights after one adj_inc.
LEMMA AdjIncWeight ==
  ASSUME NEW D, NEW list \in Seq(EdgeTo(D)), DistinctDsts(list), NEW v \in D, NEW x,
         Len(list) <= MAX_EDGES_PER_NODE
  PROVE  /\ adj_weight(adj_inc(list, v), x) <= adj_weight(list, x) + (IF x = v THEN 1 ELSE 0)
         /\ Names(list, v) \/ Len(list) < MAX_EDGES_PER_NODE =>
              adj_weight(adj_inc(list, v), x) =
                IF x = v THEN Smaller(adj_weight(list, x) + 1, MAX_WEIGHT) ELSE adj_weight(list, x)
<1>1. PICK r : r = adj_inc(list, v)
  OBVIOUS
<1>2. r \in Seq(EdgeTo(D)) /\ DistinctDsts(r)
  BY <1>1, AdjIncBounded
<1>3. /\ Len(list) \in Nat /\ DOMAIN list = 1..Len(list) /\ DOMAIN r = 1..Len(r)
      /\ \A i \in 1..Len(list) : list[i] \in EdgeTo(D)
  BY <1>2
<1>4. Raises(list, r, v) \/ Appended(list, r, v) \/ Replaced(list, r, v)
  BY <1>1, AdjIncCases
<1>5. \A i \in 1..Len(list) : adj_weight(list, list[i].dst) = list[i].w
  BY <1>3, WeightNamed
<1>6. \A i \in DOMAIN r : adj_weight(r, r[i].dst) = r[i].w
  BY <1>2, WeightNamed
<1>7. /\ ~Names(list, x) => adj_weight(list, x) = 0
      /\ ~Names(r, x) => adj_weight(r, x) = 0
  BY WeightUnnamed
<1>8. adj_weight(list, x) \in 0..MAX_WEIGHT /\ adj_weight(r, x) \in 0..MAX_WEIGHT /\ MAX_WEIGHT \in Nat \ {0}
  BY <1>2, WeightType, GraphAssumption
<1>9. CASE Raises(list, r, v)
  <2>1. PICK i \in 1..Len(list) :
          /\ list[i].dst = v /\ Len(r) = Len(list)
          /\ \A j \in 1..Len(list) :
               /\ r[j].dst = list[j].dst
               /\ r[j].w = IF j = i THEN Smaller(list[j].w + 1, MAX_WEIGHT) ELSE list[j].w
    BY <1>9 DEF Raises
  <2>2. CASE x = v
    <3>1. adj_weight(list, x) = list[i].w /\ adj_weight(r, x) = Smaller(list[i].w + 1, MAX_WEIGHT)
      BY <1>3, <1>5, <1>6, <2>1, <2>2
    <3>2. Smaller(adj_weight(list, x) + 1, MAX_WEIGHT) <= adj_weight(list, x) + 1
      BY <1>8 DEF Smaller
    <3> QED BY <1>1, <2>2, <3>1, <3>2
  <2>3. CASE x # v /\ Names(list, x)
    <3>1. PICK k \in 1..Len(list) : list[k].dst = x
      BY <1>3, <2>3 DEF Names
    <3>2. r[k].dst = x /\ r[k].w = list[k].w /\ k \in DOMAIN r
      BY <1>3, <2>1, <2>3, <3>1
    <3>3. adj_weight(r, x) = adj_weight(list, x)
      BY <1>5, <1>6, <3>1, <3>2
    <3> QED BY <1>1, <1>8, <2>3, <3>3
  <2>4. CASE x # v /\ ~Names(list, x)
    <3>1. ~Names(r, x)
      BY <1>3, <2>1, <2>4 DEF Names
    <3> QED BY <1>1, <1>7, <1>8, <2>4, <3>1
  <2> QED BY <2>2, <2>3, <2>4
<1>10. CASE Appended(list, r, v)
  <2>1. /\ ~Names(list, v) /\ Len(r) = Len(list) + 1
        /\ \A j \in 1..Len(list) : r[j] = list[j] /\ j \in DOMAIN r
        /\ r[Len(list) + 1] = [dst |-> v, w |-> 1] /\ Len(list) + 1 \in DOMAIN r
    BY <1>3, <1>10 DEF Appended
  <2>2. CASE x = v
    <3>1. adj_weight(list, x) = 0
      BY <1>7, <2>1, <2>2
    <3>2. adj_weight(r, x) = 1
      <4>1. r[Len(list) + 1].dst = x /\ r[Len(list) + 1].w = 1
        BY <2>1, <2>2
      <4> QED BY <1>6, <2>1, <4>1
    <3>3. Smaller(0 + 1, MAX_WEIGHT) = 1
      BY <1>8 DEF Smaller
    <3> QED BY <1>1, <2>2, <3>1, <3>2, <3>3
  <2>3. CASE x # v /\ Names(list, x)
    <3>1. PICK k \in 1..Len(list) : list[k].dst = x
      BY <1>3, <2>3 DEF Names
    <3>2. adj_weight(r, x) = adj_weight(list, x)
      BY <1>5, <1>6, <2>1, <3>1
    <3> QED BY <1>1, <1>8, <2>3, <3>2
  <2>4. CASE x # v /\ ~Names(list, x)
    <3>1. ~Names(r, x)
      <4> SUFFICES ASSUME NEW j \in DOMAIN r, r[j].dst = x PROVE FALSE
        BY DEF Names
      <4>1. CASE j \in 1..Len(list)
        BY <1>3, <2>1, <2>4, <4>1 DEF Names
      <4>2. CASE j = Len(list) + 1
        BY <2>1, <2>4, <4>2
      <4> QED BY <1>3, <2>1, <4>1, <4>2
    <3> QED BY <1>1, <1>7, <1>8, <2>4, <3>1
  <2> QED BY <2>2, <2>3, <2>4
<1>11. CASE Replaced(list, r, v)
  <2>1. PICK m \in 1..Len(list) : \A j \in 1..Len(list) :
          r[j] = IF j = m THEN [dst |-> v, w |-> 1] ELSE list[j]
    BY <1>11 DEF Replaced
  <2>2. ~Names(list, v) /\ Len(r) = Len(list) /\ ~(Len(list) < MAX_EDGES_PER_NODE)
    <3>1. ~Names(list, v) /\ Len(r) = Len(list) /\ Len(list) = MAX_EDGES_PER_NODE
      BY <1>11 DEF Replaced
    <3> QED BY <1>3, <3>1
  <2>3. CASE x = v
    <3>1. adj_weight(r, x) = 1 /\ adj_weight(list, x) = 0
      <4>1. r[m].dst = x /\ r[m].w = 1 /\ m \in DOMAIN r
        BY <1>3, <2>1, <2>2, <2>3
      <4> QED BY <1>6, <1>7, <2>2, <2>3, <4>1
    <3> QED BY <1>1, <2>2, <2>3, <3>1
  <2>4. CASE x # v /\ Names(r, x)
    <3>1. PICK k \in 1..Len(list) : r[k].dst = x
      BY <1>3, <2>2, <2>4 DEF Names
    <3>2. k # m
      BY <2>1, <2>4, <3>1
    <3>3. r[k] = list[k] /\ k \in DOMAIN r
      BY <1>3, <2>1, <2>2, <3>2
    <3>4. adj_weight(r, x) = adj_weight(list, x)
      BY <1>5, <1>6, <3>1, <3>3
    <3> QED BY <1>1, <1>8, <2>2, <2>4, <3>4
  <2>5. CASE x # v /\ ~Names(r, x)
    <3>1. adj_weight(r, x) = 0
      BY <1>7, <2>5
    <3> QED BY <1>1, <1>8, <2>2, <2>5, <3>1
  <2> QED BY <2>3, <2>4, <2>5
<1> QED BY <1>4, <1>9, <1>10, <1>11

\* How often u stands among the first k of at.
Occurs(at, u, k) == Cardinality({i \in 1..k : at[i] = u})

LEMMA OccursCounts ==
  ASSUME NEW at, NEW u, NEW k \in Nat
  PROVE  /\ Occurs(at, u, 0) = 0 /\ Occurs(at, u, k) \in Nat
         /\ at[k + 1] = u => Occurs(at, u, k + 1) = Occurs(at, u, k) + 1
         /\ at[k + 1] # u => Occurs(at, u, k + 1) = Occurs(at, u, k)
<1> DEFINE A == {i \in 1..k : at[i] = u}
           B == {i \in 1..(k + 1) : at[i] = u}
<1>1. IsFiniteSet(A) /\ Cardinality(A) \in Nat
  <2>1. IsFiniteSet(1..k)
    BY FS_Interval
  <2> QED BY <2>1, FS_Subset, FS_CardinalityType
<1>2. B = IF at[k + 1] = u THEN A \cup {k + 1} ELSE A
  <2>1. 1..(k + 1) = (1..k) \cup {k + 1}
    OBVIOUS
  <2> QED BY <2>1
<1>3. k + 1 \notin A
  OBVIOUS
<1>4. Cardinality(B) = Cardinality(A) + IF at[k + 1] = u THEN 1 ELSE 0
  <2> HIDE DEF A, B
  <2>1. Cardinality(A \cup {k + 1}) = Cardinality(A) + 1
    BY <1>1, <1>3, FS_AddElement
  <2> QED BY <1>1, <1>2, <2>1
<1>5. {i \in 1..0 : at[i] = u} = {}
  OBVIOUS
<1>6. Occurs(at, u, 0) = 0
  BY <1>5, FS_EmptySet DEF Occurs
<1> QED BY <1>1, <1>4, <1>6 DEF Occurs

\* The graphs whose lists are within their bound, without a destination named twice.
TidyGraphs(U, D) == {h \in [U -> Seq(EdgeTo(D))] :
                    \A u \in U : DistinctDsts(h[u]) /\ Len(h[u]) <= MAX_EDGES_PER_NODE}

\* f goes through the graphs of a loop that adds an edge to d to every node of at but idx.
Run(f, g, at, n, idx, d) ==
  /\ f[0] = g
  /\ \A k \in 1..n : f[k] = IF at[k] = idx THEN f[k - 1]
                            ELSE [f[k - 1] EXCEPT ![at[k]] = adj_inc(@, d)]

\* Such a loop runs in every set of graphs its turns do not leave.
LEMMA RunExists ==
  ASSUME NEW U, NEW n \in Nat, NEW at \in [1..n -> U], NEW idx, NEW d, NEW X, NEW g \in X,
         \A h \in X : \A u \in U \ {idx} : [h EXCEPT ![u] = adj_inc(@, d)] \in X
  PROVE  \E f \in [0..n -> X] : Run(f, g, at, n, idx, d)
<1> DEFINE turn(i, h) == IF at[i] = idx THEN h ELSE [h EXCEPT ![at[i]] = adj_inc(@, d)]
           step == [i \in 1..n |-> [h \in X |-> turn(i, h)]]
<1>1. step \in [1..n -> [X -> X]]
  <2>1. ASSUME NEW i \in 1..n, NEW h \in X PROVE turn(i, h) \in X
    OBVIOUS
  <2> HIDE DEF turn
  <2> QED BY <2>1
<1>2. PICK f \in [0..n -> X] : f[0] = g /\ \A k \in 1..n : f[k] = step[k][f[k - 1]]
  <2> HIDE DEF step
  <2>1. n \in Nat
    OBVIOUS
  <2>2. g \in X
    OBVIOUS
  <2> QED BY <1>1, IterExists
<1>3. ASSUME NEW k \in 1..n PROVE f[k] = turn(k, f[k - 1])
  <2>1. k - 1 \in 0..n
    OBVIOUS
  <2>2. f[k - 1] \in X
    BY <1>2, <2>1
  <2>3. step[k] = [h \in X |-> turn(k, h)]
    OBVIOUS
  <2> HIDE DEF turn, step
  <2> QED BY <1>2, <2>2, <2>3
<1>4. Run(f, g, at, n, idx, d)
  BY <1>2, <1>3 DEF Run
<1> QED BY <1>4

\* It goes through the same graphs every time.
LEMMA RunUnique ==
  ASSUME NEW n \in Nat, NEW at, NEW idx, NEW d, NEW g, NEW e, NEW f,
         Run(e, g, at, n, idx, d), Run(f, g, at, n, idx, d)
  PROVE  e[n] = f[n]
<1> DEFINE turn(k, h) == IF at[k] = idx THEN h ELSE [h EXCEPT ![at[k]] = adj_inc(@, d)]
           S == {k \in Nat : k <= n => e[k] = f[k]}
<1>0. \A k \in 1..n : e[k] = turn(k, e[k - 1]) /\ f[k] = turn(k, f[k - 1])
  BY DEF Run
<1> HIDE DEF turn
<1>1. 0 \in S
  BY DEF Run
<1>2. ASSUME NEW k \in Nat, k \in S PROVE k + 1 \in S
  <2>1. SUFFICES ASSUME k + 1 <= n PROVE e[k + 1] = f[k + 1]
    OBVIOUS
  <2>2. e[k] = f[k] /\ k + 1 \in 1..n /\ (k + 1) - 1 = k
    BY <1>2, <2>1
  <2>3. e[k + 1] = turn(k + 1, e[k]) /\ f[k + 1] = turn(k + 1, f[k])
    BY <1>0, <2>2
  <2> QED BY <2>2, <2>3
<1>3. n \in S
  <2> HIDE DEF S
  <2> QED BY <1>1, <1>2, SetInduction
<1> QED BY <1>3

\* Such a loop, in the graphs of X.
Loop(f, g, at, n, idx, d, U, D, X) ==
  /\ n \in Nat /\ at \in [1..n -> U] /\ d \in D /\ X \in SUBSET TidyGraphs(U, D)
  /\ f \in [0..n -> X] /\ Run(f, g, at, n, idx, d)

\* The destinations the edges of u have in g are in F.
NamesWithin(g, u, F) == \A x : Names(g[u], x) => x \in F

\* The weight of the edge u -> x after k turns.
Weight(f, k, u, x) == adj_weight(f[k][u], x)

\* Every turn of such a loop that counts an edge of u finds the edge or room for it.
Roomy(f, at, n, u, d) ==
  \A k \in 1..n : at[k] = u => Names(f[k - 1][u], d) \/ Len(f[k - 1][u]) < MAX_EDGES_PER_NODE

\* The weights such a loop leaves.
LEMMA RunWeights ==
  ASSUME NEW U, NEW D, NEW X, NEW n, NEW at, NEW idx, NEW d, NEW f, NEW g,
         Loop(f, g, at, n, idx, d, U, D, X), NEW u \in U, NEW x
  PROVE  /\ u = idx => Weight(f, n, u, x) = Weight(f, 0, u, x)
         /\ u # idx /\ x = d => Weight(f, n, u, x) <= Weight(f, 0, u, x) + Occurs(at, u, n)
         /\ u # idx /\ x # d => Weight(f, n, u, x) <= Weight(f, 0, u, x)
         /\ u # idx /\ Roomy(f, at, n, u, d) /\ x = d =>
              Weight(f, n, u, x) = Smaller(Weight(f, 0, u, x) + Occurs(at, u, n), MAX_WEIGHT)
         /\ u # idx /\ Roomy(f, at, n, u, d) /\ x # d => Weight(f, n, u, x) = Weight(f, 0, u, x)
<1>0. /\ n \in Nat /\ at \in [1..n -> U] /\ d \in D /\ X \in SUBSET TidyGraphs(U, D)
      /\ f \in [0..n -> X] /\ Run(f, g, at, n, idx, d)
  BY DEF Loop
<1> DEFINE w0 == Weight(f, 0, u, x)
           w(k) == Weight(f, k, u, x)
           c(k) == Occurs(at, u, k)
           R == Roomy(f, at, n, u, d)
           P(k) == /\ u = idx => w(k) = w0
                   /\ u # idx =>
                        /\ w(k) <= w0 + (IF x = d THEN c(k) ELSE 0)
                        /\ R => w(k) = IF x = d THEN Smaller(w0 + c(k), MAX_WEIGHT) ELSE w0
           S == {k \in Nat : k <= n => P(k)}
<1>1. \A k \in 0..n : /\ f[k] \in X /\ f[k] \in [U -> Seq(EdgeTo(D))]
                      /\ f[k][u] \in Seq(EdgeTo(D)) /\ DistinctDsts(f[k][u])
                      /\ Len(f[k][u]) <= MAX_EDGES_PER_NODE
  BY <1>0 DEF TidyGraphs
<1>2. \A k \in 0..n : w(k) \in 0..MAX_WEIGHT
  BY <1>1, WeightType DEF Weight
<1>3. MAX_WEIGHT \in Nat \ {0} /\ w0 = w(0) /\ w0 \in 0..MAX_WEIGHT
  BY <1>0, <1>2, GraphAssumption
<1>4. 0 \in S
  <2>1. c(0) = 0
    BY OccursCounts
  <2>2. P(0)
    <3> HIDE DEF w, w0, c
    <3> QED BY <1>3, <2>1 DEF Smaller
  <2> QED BY <2>2
<1>5. ASSUME NEW k \in Nat, k \in S PROVE k + 1 \in S
  <2>1. SUFFICES ASSUME k + 1 <= n PROVE P(k + 1)
    OBVIOUS
  <2>2. P(k)
    BY <1>0, <1>5, <2>1
  <2>3. k \in 0..n /\ k + 1 \in 0..n /\ k + 1 \in 1..n /\ (k + 1) - 1 = k
    BY <1>0, <2>1
  <2>4. f[k + 1] = IF at[k + 1] = idx THEN f[k]
                   ELSE [f[k] EXCEPT ![at[k + 1]] = adj_inc(@, d)]
    BY <1>0, <2>3 DEF Run
  <2>5. /\ c(k) \in Nat
        /\ at[k + 1] = u => c(k + 1) = c(k) + 1
        /\ at[k + 1] # u => c(k + 1) = c(k)
    BY OccursCounts
  <2>6. at[k + 1] \in U
    BY <1>0, <2>3
  <2>7. CASE at[k + 1] = idx \/ at[k + 1] # u
    <3>1. f[k + 1][u] = f[k][u]
      BY <1>1, <2>3, <2>4, <2>7
    <3>3. w(k + 1) = w(k)
      BY <3>1 DEF Weight
    <3>2. u # idx => c(k + 1) = c(k)
      <4> HIDE DEF c
      <4> QED BY <2>5, <2>7
    <3> HIDE DEF w, w0, c, R
    <3> QED BY <2>2, <3>2, <3>3
  <2>8. CASE at[k + 1] = u /\ u # idx
    <3>1. f[k + 1][u] = adj_inc(f[k][u], d)
      BY <1>1, <2>3, <2>4, <2>8
    <3>2. w(k + 1) <= w(k) + (IF x = d THEN 1 ELSE 0)
      BY <1>0, <1>1, <2>3, <3>1, AdjIncWeight DEF Weight
    <3>3. R => w(k + 1) = IF x = d THEN Smaller(w(k) + 1, MAX_WEIGHT) ELSE w(k)
      <4>1. R => Names(f[k][u], d) \/ Len(f[k][u]) < MAX_EDGES_PER_NODE
        BY <2>3, <2>8 DEF Roomy
      <4> HIDE DEF R
      <4> QED BY <1>0, <1>1, <2>3, <3>1, <4>1, AdjIncWeight DEF Weight
    <3>4. w(k) \in Nat /\ w(k + 1) \in Nat /\ w0 \in Nat
      BY <1>2, <1>3, <2>3
    <3> HIDE DEF w, w0, c, R
    <3>5. w(k + 1) <= w0 + (IF x = d THEN c(k + 1) ELSE 0)
      BY <2>2, <2>5, <2>8, <3>2, <3>4
    <3>6. R => w(k + 1) = IF x = d THEN Smaller(w0 + c(k + 1), MAX_WEIGHT) ELSE w0
      BY <1>3, <2>2, <2>5, <2>8, <3>3, <3>4 DEF Smaller
    <3> QED BY <2>8, <3>5, <3>6
  <2> QED BY <2>7, <2>8
<1>6. n \in S
  <2> HIDE DEF S
  <2> QED BY <1>0, <1>4, <1>5, SetInduction
<1>7. P(n)
  BY <1>0, <1>6
<1>8. w0 \in Nat /\ w0 + 0 = w0
  BY <1>3
<1> HIDE DEF w, w0, c
<1>9. /\ u = idx => w(n) = w0
      /\ u # idx /\ x = d => w(n) <= w0 + c(n)
      /\ u # idx /\ x # d => w(n) <= w0
      /\ u # idx /\ R /\ x = d => w(n) = Smaller(w0 + c(n), MAX_WEIGHT)
      /\ u # idx /\ R /\ x # d => w(n) = w0
  BY <1>7, <1>8
<1> QED BY <1>9 DEF w, w0, c

\* Such a loop finds room while the destinations it counts are few.
LEMMA RunRoom ==
  ASSUME NEW U, NEW D, NEW X, NEW n, NEW at, NEW idx, NEW d, NEW f, NEW g,
         Loop(f, g, at, n, idx, d, U, D, X), NEW u \in U, u # idx,
         NEW F, IsFiniteSet(F), Cardinality(F) <= MAX_EDGES_PER_NODE,
         NamesWithin(g, u, F), Occurs(at, u, n) # 0 => d \in F
  PROVE  Roomy(f, at, n, u, d)
<1>0. /\ n \in Nat /\ at \in [1..n -> U] /\ d \in D /\ X \in SUBSET TidyGraphs(U, D)
      /\ f \in [0..n -> X] /\ Run(f, g, at, n, idx, d)
  BY DEF Loop
<1> DEFINE P(k) == \A x : Names(f[k][u], x) => x \in F
           S == {k \in Nat : k <= n => P(k)}
<1>1. \A k \in 0..n : /\ f[k] \in X /\ f[k] \in [U -> Seq(EdgeTo(D))]
                      /\ f[k][u] \in Seq(EdgeTo(D)) /\ DistinctDsts(f[k][u])
                      /\ Len(f[k][u]) <= MAX_EDGES_PER_NODE
  BY <1>0 DEF TidyGraphs
<1>2. ASSUME NEW k \in 1..n, at[k] = u PROVE d \in F
  <2> DEFINE A == {i \in 1..n : at[i] = u}
  <2>1. k \in A
    BY <1>2
  <2>2. IsFiniteSet(A)
    <3>1. IsFiniteSet(1..n)
      BY <1>0, FS_Interval
    <3> QED BY <3>1, FS_Subset
  <2> HIDE DEF A
  <2>3. Cardinality(A) # 0
    BY <2>1, <2>2, FS_EmptySet
  <2> QED BY <2>3 DEF Occurs, A
<1>3. 0 \in S
  BY <1>0 DEF Run, NamesWithin
<1>4. ASSUME NEW k \in Nat, k \in S PROVE k + 1 \in S
  <2>1. SUFFICES ASSUME k + 1 <= n, NEW x, Names(f[k + 1][u], x) PROVE x \in F
    OBVIOUS
  <2>2. P(k)
    BY <1>0, <1>4, <2>1
  <2>3. k \in 0..n /\ k + 1 \in 1..n /\ (k + 1) - 1 = k
    BY <1>0, <2>1
  <2>4. f[k + 1] = IF at[k + 1] = idx THEN f[k]
                   ELSE [f[k] EXCEPT ![at[k + 1]] = adj_inc(@, d)]
    BY <1>0, <2>3 DEF Run
  <2>5. at[k + 1] \in U
    BY <1>0, <2>3
  <2>6. CASE at[k + 1] = idx \/ at[k + 1] # u
    <3>1. f[k + 1][u] = f[k][u]
      BY <1>1, <2>3, <2>4, <2>6
    <3> QED BY <2>1, <2>2, <3>1
  <2>7. CASE at[k + 1] = u
    <3>1. f[k + 1][u] = adj_inc(f[k][u], d)
      BY <1>1, <2>3, <2>4, <2>7
    <3>2. Names(f[k][u], x) \/ x = d
      BY <1>0, <1>1, <2>1, <2>3, <3>1, AdjIncNames
    <3> QED BY <1>2, <2>2, <2>3, <2>7, <3>2
  <2> QED BY <2>6, <2>7
<1>5. \A k \in Nat : k \in S
  <2> HIDE DEF S
  <2> QED BY <1>3, <1>4, SetInduction
<1>6. ASSUME NEW k \in 1..n, at[k] = u, ~Names(f[k - 1][u], d)
      PROVE  Len(f[k - 1][u]) < MAX_EDGES_PER_NODE
  <2>1. k - 1 \in 0..n /\ k - 1 \in Nat /\ k - 1 <= n
    BY <1>0
  <2>2. P(k - 1)
    BY <1>5, <2>1
  <2>3. PICK list : list = f[k - 1][u]
    OBVIOUS
  <2>4. list \in Seq(EdgeTo(D)) /\ DistinctDsts(list) /\ ~Names(list, d)
    BY <1>1, <1>6, <2>1, <2>3
  <2>5. \A i \in DOMAIN list : list[i].dst \in F
    BY <2>2, <2>3 DEF Names
  <2>6. ASSUME NEW i \in 1..Len(list) PROVE list[i] \in EdgeTo(F)
    <3>1. list[i] \in EdgeTo(D) /\ i \in DOMAIN list
      BY <2>4
    <3>2. list[i].dst \in F
      BY <2>5, <3>1
    <3> QED BY <3>1, <3>2 DEF EdgeTo
  <2>7. list \in Seq(EdgeTo(F))
    <3>1. Len(list) \in Nat /\ list \in [1..Len(list) -> EdgeTo(F)]
      BY <2>4, <2>6
    <3> QED BY <3>1, IsSequence
  <2>8. d \in F
    BY <1>2, <1>6
  <2> QED BY <2>3, <2>4, <2>7, <2>8, RoomLeft
<1> QED BY <1>6 DEF Roomy

-------------------------------------------------------------------------------
(* Pairs of accesses at most a window apart.                               *)

\* The pairs of positions up to n, the first in A, the second in B at most w later.
Near(n, w, A, B) == {p \in (1..n) \X (1..n) :
                       p[1] < p[2] /\ p[2] <= p[1] + w /\ p[1] \in A /\ p[2] \in B}

\* How far back from position n + 1, at most w, the positions of A are.
Latest(n, w, A) == {i \in 1..Smaller(w, n) : n + 1 - i \in A}

\* One more position adds the pairs it ends.
LEMMA NearGrows ==
  ASSUME NEW n \in Nat, NEW w \in Nat, NEW A, NEW B
  PROVE  /\ IsFiniteSet(Near(n, w, A, B)) /\ Cardinality(Near(n, w, A, B)) \in Nat
         /\ n + 1 \in B => Cardinality(Near(n + 1, w, A, B)) =
              Cardinality(Near(n, w, A, B)) + Cardinality(Latest(n, w, A))
         /\ n + 1 \notin B => Cardinality(Near(n + 1, w, A, B)) = Cardinality(Near(n, w, A, B))
<1> DEFINE N == Near(n, w, A, B)
           E == Latest(n, w, A)
           F == {p \in (1..(n + 1)) \X (1..(n + 1)) : p[2] = n + 1 /\ p \in Near(n + 1, w, A, B)}
<1>1. IsFiniteSet(N) /\ Cardinality(N) \in Nat
  <2>1. IsFiniteSet((1..n) \X (1..n))
    <3>1. IsFiniteSet(1..n)
      BY FS_Interval
    <3> QED BY <3>1, FS_Product
  <2>2. N \subseteq (1..n) \X (1..n)
    BY DEF Near
  <2> HIDE DEF N
  <2> QED BY <2>1, <2>2, FS_Subset, FS_CardinalityType
<1>2. Smaller(w, n) \in Nat /\ Smaller(w, n) <= n /\ Smaller(w, n) <= w
  BY DEF Smaller
<1>3. IsFiniteSet(E) /\ Cardinality(E) \in Nat
  <2>1. IsFiniteSet(1..Smaller(w, n))
    BY <1>2, FS_Interval
  <2>2. E \subseteq 1..Smaller(w, n)
    BY DEF Latest
  <2> HIDE DEF E
  <2> QED BY <2>1, <2>2, FS_Subset, FS_CardinalityType
<1>4. Near(n + 1, w, A, B) = N \cup F /\ N \cap F = {}
  <2>1. ASSUME NEW p \in Near(n + 1, w, A, B), p \notin F PROVE p \in N
    <3>1. p \in (1..(n + 1)) \X (1..(n + 1)) /\ p[2] # n + 1 /\ p[1] < p[2]
      BY <2>1 DEF Near
    <3>2. p \in (1..n) \X (1..n)
      BY <3>1
    <3> QED BY <3>2 DEF Near
  <2>2. ASSUME NEW p \in N PROVE p \in Near(n + 1, w, A, B) /\ p[2] # n + 1
    BY DEF Near
  <2> QED BY <2>1, <2>2
<1>5. CASE n + 1 \notin B
  <2>1. F = {}
    BY <1>5 DEF Near
  <2>2. Near(n + 1, w, A, B) = N
    BY <1>4, <2>1
  <2> QED BY <1>1, <1>5, <2>2
<1>6. CASE n + 1 \in B
  <2> DEFINE b == [i \in E |-> <<n + 1 - i, n + 1>>]
  <2>1. b \in Bijection(E, F)
    <3>1. ASSUME NEW i \in E PROVE b[i] \in F
      <4>1. i \in 1..n /\ i <= w /\ n + 1 - i \in A /\ n + 1 - i \in 1..n
        BY <1>2 DEF Latest
      <4>2. b[i] = <<n + 1 - i, n + 1>>
        OBVIOUS
      <4>3. <<n + 1 - i, n + 1>> \in Near(n + 1, w, A, B)
        BY <1>6, <4>1 DEF Near
      <4> QED BY <4>1, <4>2, <4>3
    <3>2. \A i, j \in E : b[i] = b[j] => i = j
      <4> SUFFICES ASSUME NEW i \in E, NEW j \in E, b[i] = b[j] PROVE i = j
        OBVIOUS
      <4>1. n + 1 - i = n + 1 - j /\ i \in Nat /\ j \in Nat
        BY <1>2 DEF Latest
      <4> QED BY <4>1
    <3>3. ASSUME NEW p \in F PROVE \E i \in E : b[i] = p
      <4>1. /\ p \in (1..(n + 1)) \X (1..(n + 1)) /\ p[2] = n + 1 /\ p[1] \in A
            /\ p[1] < n + 1 /\ n + 1 <= p[1] + w
        BY DEF Near
      <4>2. n + 1 - p[1] \in 1..Smaller(w, n) /\ n + 1 - (n + 1 - p[1]) = p[1]
        BY <4>1 DEF Smaller
      <4>3. n + 1 - p[1] \in E
        BY <4>1, <4>2 DEF Latest
      <4>4. b[n + 1 - p[1]] = <<p[1], n + 1>>
        BY <4>2, <4>3
      <4> QED BY <4>1, <4>3, <4>4
    <3>4. b \in [E -> F]
      BY <3>1
    <3> HIDE DEF E, F, b
    <3> QED BY <3>2, <3>3, <3>4 DEF Bijection, Injection, Surjection, IsInjective
  <2>2. IsFiniteSet(F) /\ Cardinality(F) = Cardinality(E)
    <3> HIDE DEF E, F, b
    <3>1. ExistsBijection(E, F)
      BY <2>1 DEF ExistsBijection
    <3> QED BY <1>3, <3>1, FS_Bijection
  <2>3. Cardinality(N \cup F) = Cardinality(N) + Cardinality(F)
    <3> HIDE DEF E, F, N
    <3>1. Cardinality(N \cup F) = Cardinality(N) + Cardinality(F) - Cardinality(N \cap F)
      BY <1>1, <2>2, FS_Union
    <3>2. Cardinality(N \cap F) = 0
      BY <1>4, FS_EmptySet
    <3>3. Cardinality(F) \in Nat
      BY <1>3, <2>2
    <3> QED BY <1>1, <3>1, <3>2, <3>3
  <2> QED BY <1>1, <1>4, <1>6, <2>2, <2>3
<1> QED BY <1>1, <1>5, <1>6

-------------------------------------------------------------------------------
(* Counting.                                                               *)

\* A bijection carries the cardinality of a finite set over.
SameCount(A, B) == IsFiniteSet(B) /\ Cardinality(B) = Cardinality(A)

LEMMA Matched ==
  ASSUME NEW A, NEW B, IsFiniteSet(A), NEW b \in [A -> B],
         \A x, y \in A : b[x] = b[y] => x = y,
         \A z \in B : \E x \in A : b[x] = z
  PROVE  SameCount(A, B)
<1>1. b \in Bijection(A, B)
  BY DEF Bijection, Injection, Surjection, IsInjective
<1>2. ExistsBijection(A, B)
  BY <1>1 DEF ExistsBijection
<1> QED BY <1>2, FS_Bijection DEF SameCount

-------------------------------------------------------------------------------
(* Sums.                                                                   *)

Total(f) == FoldFunction(+, 0, f)

\* f[s] is the number of pairs of C that start with s, for every s in S.
Tallies(f, S, C) ==
  /\ IsFiniteSet(S) /\ IsFiniteSet(C) /\ f \in [S -> Nat]
  /\ \A q \in C : q[1] \in S
  /\ \A s \in S : f[s] = Cardinality({q \in C : q[1] = s})

\* Counting the elements of a set by their first component counts each once.
LEMMA TotalCounts ==
  ASSUME NEW f, NEW S, NEW C, Tallies(f, S, C)
  PROVE  Total(f) = Cardinality(C)
<1> DEFINE pick(s) == CHOOSE x \in s : TRUE
           Sum(it) == [s \in SUBSET S |-> IF s = {} THEN 0 ELSE f[pick(s)] + it[s \ {pick(s)}]]
           it == CHOOSE g : g = Sum(g)
           In(s) == {q \in C : q[1] \in s}
           count == [s \in SUBSET S |-> Cardinality(In(s))]
<1>1. IsFiniteSet(S) /\ IsFiniteSet(C) /\ f \in [S -> Nat] /\ DOMAIN f = S
  BY DEF Tallies
<1>2. Total(f) = it[S]
  BY <1>1 DEF Total, FoldFunction, FoldFunctionOnSet, MapThenFoldSet
<1>3. ASSUME NEW s \in SUBSET S PROVE IsFiniteSet(In(s)) /\ Cardinality(In(s)) \in Nat
  BY <1>1, FS_Subset, FS_CardinalityType
<1>4. ASSUME NEW s \in SUBSET S, s # {}
      PROVE  /\ pick(s) \in s
             /\ Cardinality(In(s)) = f[pick(s)] + Cardinality(In(s \ {pick(s)}))
  <2>1. PICK x : x = pick(s)
    OBVIOUS
  <2>2. x \in s
    BY <1>4, <2>1
  <2> DEFINE A == {q \in C : q[1] = x}
             B == In(s \ {x})
  <2>3. In(s) = A \cup B /\ A \cap B = {}
    BY <2>2
  <2>4. f[x] = Cardinality(A) /\ s \ {x} \in SUBSET S
    BY <2>2 DEF Tallies
  <2>5. IsFiniteSet(A) /\ IsFiniteSet(B)
    BY <1>1, <1>3, <2>4, FS_Subset
  <2> HIDE DEF A, B, In, pick
  <2>6. Cardinality(A \cup B) = Cardinality(A) + Cardinality(B) - Cardinality(A \cap B)
    BY <2>5, FS_Union
  <2>7. Cardinality(A \cap B) = 0 /\ Cardinality(A) \in Nat /\ Cardinality(B) \in Nat
    BY <2>3, <2>5, FS_EmptySet, FS_CardinalityType
  <2>8. Cardinality(In(s)) = f[x] + Cardinality(B)
    BY <2>3, <2>4, <2>6, <2>7
  <2> QED BY <2>1, <2>2, <2>8 DEF B
<1>5. In({}) = {} /\ Cardinality(In({})) = 0
  BY FS_EmptySet
<1>6. count = Sum(count)
  <2> HIDE DEF In, pick
  <2>1. ASSUME NEW s \in SUBSET S
        PROVE  Cardinality(In(s)) = IF s = {} THEN 0 ELSE f[pick(s)] + count[s \ {pick(s)}]
    BY <1>4, <1>5
  <2> QED BY <2>1
<1>7. it = Sum(it)
  <2> HIDE DEF Sum, count
  <2> QED BY <1>6
<1>8. \A n \in Nat : \A s \in SUBSET S : Cardinality(s) = n => it[s] = Cardinality(In(s))
  <2> DEFINE T == {n \in Nat : \A s \in SUBSET S : Cardinality(s) = n => it[s] = Cardinality(In(s))}
  <2> HIDE DEF it, In, pick
  <2>0. ASSUME NEW s \in SUBSET S
        PROVE  it[s] = IF s = {} THEN 0 ELSE f[pick(s)] + it[s \ {pick(s)}]
    <3> DEFINE h == [r \in SUBSET S |-> IF r = {} THEN 0 ELSE f[pick(r)] + it[r \ {pick(r)}]]
    <3>1. it = h
      BY <1>7
    <3>2. h[s] = IF s = {} THEN 0 ELSE f[pick(s)] + it[s \ {pick(s)}]
      OBVIOUS
    <3> HIDE DEF h
    <3> QED BY <3>1, <3>2
  <2>1. 0 \in T
    <3> SUFFICES ASSUME NEW s \in SUBSET S, Cardinality(s) = 0 PROVE it[s] = Cardinality(In(s))
      OBVIOUS
    <3>1. s = {}
      BY <1>1, FS_Subset, FS_EmptySet
    <3> QED BY <1>5, <2>0, <3>1
  <2>2. ASSUME NEW n \in Nat, n \in T PROVE n + 1 \in T
    <3> SUFFICES ASSUME NEW s \in SUBSET S, Cardinality(s) = n + 1
                 PROVE  it[s] = Cardinality(In(s))
      OBVIOUS
    <3>1. IsFiniteSet(s) /\ s # {}
      BY <1>1, FS_Subset, FS_EmptySet
    <3>2. PICK x : x = pick(s)
      OBVIOUS
    <3>3. x \in s /\ Cardinality(In(s)) = f[x] + Cardinality(In(s \ {x}))
      BY <1>4, <3>1, <3>2
    <3>4. s \ {x} \in SUBSET S /\ Cardinality(s \ {x}) = n
      <4>1. Cardinality(s \ {x}) = Cardinality(s) - 1
        BY <3>1, <3>3, FS_RemoveElement
      <4> QED BY <4>1
    <3>5. it[s \ {x}] = Cardinality(In(s \ {x}))
      BY <2>2, <3>4
    <3>6. it[s] = f[x] + it[s \ {x}]
      BY <2>0, <3>1, <3>2
    <3> QED BY <3>3, <3>5, <3>6
  <2> HIDE DEF T
  <2>3. \A n \in Nat : n \in T
    BY <2>1, <2>2, SetInduction
  <2> QED BY <2>3 DEF T
<1>9. it[S] = Cardinality(In(S))
  <2> HIDE DEF it, In
  <2>1. Cardinality(S) \in Nat
    BY <1>1, FS_CardinalityType
  <2> QED BY <1>8, <2>1
<1>10. In(S) = C
  BY DEF Tallies
<1> HIDE DEF it, In
<1> QED BY <1>2, <1>9, <1>10

\* f[s] counters for every s in S.
Heap(f, S) == {p \in S \X Nat : p[2] < f[p[1]]}

LEMMA HeapFibre ==
  ASSUME NEW S, NEW f \in [S -> Nat], NEW x \in S
  PROVE  /\ IsFiniteSet({p \in Heap(f, S) : p[1] = x})
         /\ Cardinality({p \in Heap(f, S) : p[1] = x}) = f[x]
<1> DEFINE A == 0..(f[x] - 1)
           B == {p \in Heap(f, S) : p[1] = x}
           b == [k \in A |-> <<x, k>>]
<1>1. f[x] \in Nat /\ IsFiniteSet(A) /\ Cardinality(A) = f[x]
  BY FS_Interval
<1>2. b \in [A -> B]
  <2> SUFFICES ASSUME NEW k \in A PROVE <<x, k>> \in B
    OBVIOUS
  <2>1. k \in Nat /\ k < f[x]
    BY <1>1
  <2> QED BY <2>1 DEF Heap
<1>3. \A j, k \in A : b[j] = b[k] => j = k
  <2> HIDE DEF A
  <2> QED OBVIOUS
<1>4. ASSUME NEW p \in B PROVE \E k \in A : b[k] = p
  <2>1. p \in S \X Nat /\ p[1] = x /\ p[2] < f[x]
    BY DEF Heap
  <2>2. p[2] \in A /\ p = <<x, p[2]>>
    BY <1>1, <2>1
  <2> HIDE DEF A, B
  <2> QED BY <2>2
<1>5. SameCount(A, B)
  <2> HIDE DEF A, B, b
  <2> QED BY <1>1, <1>2, <1>3, <1>4, Matched
<1> QED BY <1>1, <1>5 DEF SameCount

LEMMA HeapFinite ==
  ASSUME NEW S, IsFiniteSet(S), NEW f \in [S -> Nat]
  PROVE  IsFiniteSet(Heap(f, S))
<1> DEFINE T == {n \in Nat : \A s \in SUBSET S : Cardinality(s) = n => IsFiniteSet(Heap(f, s))}
<1>0. \A s \in SUBSET S : IsFiniteSet(s)
  BY FS_Subset
<1>1. 0 \in T
  <2> SUFFICES ASSUME NEW s \in SUBSET S, Cardinality(s) = 0 PROVE IsFiniteSet(Heap(f, s))
    OBVIOUS
  <2>1. s = {}
    BY <1>0, FS_EmptySet
  <2>2. Heap(f, s) = {}
    BY <2>1 DEF Heap
  <2> QED BY <2>2, FS_EmptySet
<1>2. ASSUME NEW n \in Nat, n \in T PROVE n + 1 \in T
  <2> SUFFICES ASSUME NEW s \in SUBSET S, Cardinality(s) = n + 1 PROVE IsFiniteSet(Heap(f, s))
    OBVIOUS
  <2>1. PICK x : x \in s
    BY FS_EmptySet
  <2>2. Cardinality(s \ {x}) = n
    <3>1. Cardinality(s \ {x}) = Cardinality(s) - 1
      BY <1>0, <2>1, FS_RemoveElement
    <3> QED BY <3>1
  <2>3. s \ {x} \in SUBSET S
    OBVIOUS
  <2>4. IsFiniteSet(Heap(f, s \ {x}))
    BY <1>2, <2>2, <2>3
  <2> DEFINE B == {p \in Heap(f, S) : p[1] = x}
  <2>5. IsFiniteSet(B)
    <3>1. x \in S
      BY <2>1
    <3> QED BY <3>1, HeapFibre
  <2>6. Heap(f, s) = Heap(f, s \ {x}) \cup B
    BY <2>1 DEF Heap
  <2> HIDE DEF B
  <2>7. IsFiniteSet(Heap(f, s \ {x}) \cup B)
    BY <2>4, <2>5, FS_Union
  <2> QED BY <2>6, <2>7
<1>3. \A n \in Nat : n \in T
  <2> HIDE DEF T
  <2> QED BY <1>1, <1>2, SetInduction
<1>4. Cardinality(S) \in Nat
  BY FS_CardinalityType
<1> QED BY <1>3, <1>4

\* A sum is the number of counters.
LEMMA TotalHeap ==
  ASSUME NEW S, IsFiniteSet(S), NEW f \in [S -> Nat]
  PROVE  Total(f) = Cardinality(Heap(f, S)) /\ Total(f) \in Nat
<1>1. IsFiniteSet(Heap(f, S))
  BY HeapFinite
<1>2. \A p \in Heap(f, S) : p[1] \in S
  BY DEF Heap
<1>3. Tallies(f, S, Heap(f, S))
  BY <1>1, <1>2, HeapFibre DEF Tallies
<1> QED BY <1>1, <1>3, TotalCounts, FS_CardinalityType

\* One more term adds its value to a sum.
LEMMA TotalGrows ==
  ASSUME NEW S, IsFiniteSet(S), NEW x, x \notin S, NEW g \in [S \cup {x} -> Nat]
  PROVE  Total(g) = Total([s \in S |-> g[s]]) + g[x] /\ Total([s \in S |-> g[s]]) \in Nat
<1> DEFINE f == [s \in S |-> g[s]]
           T == S \cup {x}
           B == {p \in Heap(g, T) : p[1] = x}
<1>1. f \in [S -> Nat] /\ IsFiniteSet(T) /\ g \in [T -> Nat] /\ x \in T
  BY FS_AddElement
<1>2. Heap(g, T) = Heap(f, S) \cup B /\ Heap(f, S) \cap B = {}
  BY DEF Heap
<1>3. IsFiniteSet(B) /\ Cardinality(B) = g[x]
  <2> HIDE DEF T
  <2> QED BY <1>1, HeapFibre
<1> HIDE DEF f, B, T
<1>4. IsFiniteSet(Heap(f, S)) /\ Total(f) = Cardinality(Heap(f, S)) /\ Total(f) \in Nat
  BY <1>1, HeapFinite, TotalHeap
<1>5. Total(g) = Cardinality(Heap(g, T))
  BY <1>1, TotalHeap
<1>6. Cardinality(Heap(f, S) \cup B) = Cardinality(Heap(f, S)) + Cardinality(B) - Cardinality(Heap(f, S) \cap B)
  BY <1>3, <1>4, FS_Union
<1>7. Cardinality(Heap(f, S) \cap B) = 0
  BY <1>2, FS_EmptySet
<1>8. g[x] \in Nat
  BY <1>1
<1>9. Total(g) = Total(f) + g[x]
  BY <1>2, <1>3, <1>4, <1>5, <1>6, <1>7, <1>8
<1> QED BY <1>4, <1>9 DEF f

\* Among some things there is one with the lowest cost, the latest of those with that cost.
LEMMA CheapestLatest ==
  ASSUME NEW S, S # {}, NEW c \in [S -> Nat], NEW t \in [S -> Nat], NEW b \in Nat,
         \A x \in S : t[x] <= b
  PROVE  \E x \in S : \A y \in S : c[x] < c[y] \/ (c[x] = c[y] /\ t[x] >= t[y])
<1> DEFINE C == {c[x] : x \in S}
<1>1. PICK m \in C : \A k \in C : m <= k
  <2>1. C \in SUBSET Nat /\ C # {}
    OBVIOUS
  <2> HIDE DEF C
  <2> QED BY <2>1, LeastNumber
<1> DEFINE A == {b - t[x] : x \in {z \in S : c[z] = m}}
<1>2. PICK d \in A : \A k \in A : d <= k
  <2>1. A \in SUBSET Nat
    OBVIOUS
  <2>2. A # {}
    OBVIOUS
  <2> HIDE DEF A
  <2> QED BY <2>1, <2>2, LeastNumber
<1>3. PICK x \in S : c[x] = m /\ d = b - t[x]
  OBVIOUS
<1>4. ASSUME NEW y \in S PROVE c[x] < c[y] \/ (c[x] = c[y] /\ t[x] >= t[y])
  <2>1. m <= c[y] /\ c[y] \in Nat /\ m \in Nat
    BY <1>1
  <2>2. c[y] = m => b - t[x] <= b - t[y]
    BY <1>2, <1>3
  <2>3. t[x] \in Nat /\ t[y] \in Nat
    OBVIOUS
  <2> QED BY <1>3, <2>1, <2>2, <2>3
<1> QED BY <1>4
===============================================================================
