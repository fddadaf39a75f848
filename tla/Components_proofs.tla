-------------------------- MODULE Components_proofs --------------------------
(***************************************************************************)
(* Three components that share no state, as in MCComponents: the LRU cache *)
(* of answers, the registry of payment institutions, and the citation linker.*)
(* Each section defines the inductive invariant of one of them and proves  *)
(* what it promises for any capacity, files, bodies, callers and interleaving.*)
(***************************************************************************)
EXTENDS LRURecency, ISPB, Links, FiniteSetTheorems, WellFoundedInduction, TLAPS

\* Induction on the naturals is used as the existence of a least one.
Below == {e \in Nat \X Nat : e[1] < e[2]}

LEMMA BelowWellFounded == IsWellFoundedOn(Below, Nat)
<1>1. OpToRel(<, Nat) = Below
  BY DEF OpToRel, Below
<1> QED BY <1>1, NatLessThanWellFounded

LEMMA LeastExists ==
  ASSUME NEW S, S \subseteq Nat, S # {}
  PROVE  \E x \in S : \A y \in S : x <= y
<1>1. PICK x \in S : \A y \in S : ~(<<y, x>> \in Below)
  BY BelowWellFounded, WFMin
<1>2. \A y \in S : ~(y < x)
  BY <1>1 DEF Below
<1> QED BY <1>2
-----------------------------------------------------------------------------
(***************************************************************************)
(* The cache (LRURecency).  RInv is inductive: what may be forgotten        *)
(* (ForgetsOldest) follows from the order of the list (InOrder), and the    *)
(* eviction of the list's last key from the agreement of list and map       *)
(* (Agree).                                                                 *)
(***************************************************************************)
RInv == RTypeOK /\ Agree /\ InOrder /\ ForgetsOldest /\ HitsLastPut

\* The cached key has one position in the list.
LEMMA PositionOfCached ==
  ASSUME RInv, NEW k \in Keys, Cached(k)
  PROVE  Position(k) \in DOMAIN ll /\ ll[Position(k)] = k
  BY DEF RInv, Agree, Cached, Position

\* Where the element at position m of the list came from, when the one at i is
\* moved to the front.
Origin(i, m) == IF m = 1 THEN i ELSE IF m <= i THEN m - 1 ELSE m

LEMMA CapacityPositive == Capacity \in Nat /\ Capacity >= 1
  BY CapacityAssumption

LEMMA ListTyped ==
  ASSUME RInv
  PROVE  /\ ll \in Seq(Keys) /\ Len(ll) \in Nat /\ DOMAIN ll = 1 .. Len(ll)
         /\ Len(ll) <= Capacity
         /\ \A j \in 1 .. Len(ll) : ll[j] \in Keys
  BY DEF RInv, RTypeOK

\* MoveToFront permutes the list: it holds the element at i first, and the others
\* in the order they had.
LEMMA MoveToFrontPermutes ==
  ASSUME RInv, NEW i \in DOMAIN ll
  PROVE  /\ MovedToFront(i) \in Seq(Keys)
         /\ Len(MovedToFront(i)) = Len(ll)
         /\ \A m \in 1 .. Len(ll) : /\ Origin(i, m) \in 1 .. Len(ll)
                                    /\ MovedToFront(i)[m] = ll[Origin(i, m)]
         /\ \A m, n \in 1 .. Len(ll) : Origin(i, m) = Origin(i, n) => m = n
         /\ \A m, n \in 1 .. Len(ll) : 1 < m /\ m < n => Origin(i, m) < Origin(i, n)
         /\ \A j \in 1 .. Len(ll) : \E m \in 1 .. Len(ll) : Origin(i, m) = j
<1>1. /\ ll \in Seq(Keys) /\ Len(ll) \in Nat /\ DOMAIN ll = 1 .. Len(ll)
      /\ \A j \in 1 .. Len(ll) : ll[j] \in Keys
  BY ListTyped
<1>2. \A m \in 1 .. Len(ll) : Origin(i, m) \in 1 .. Len(ll)
  BY <1>1 DEF Origin
<1>3. MovedToFront(i) = [m \in 1 .. Len(ll) |-> ll[Origin(i, m)]]
  BY <1>1 DEF MovedToFront, Origin
<1>4. MovedToFront(i) \in [1 .. Len(ll) -> Keys]
  BY <1>1, <1>2, <1>3
<1>5. MovedToFront(i) \in Seq(Keys) /\ Len(MovedToFront(i)) = Len(ll)
  BY <1>1, <1>4
<1>6. /\ \A m, n \in 1 .. Len(ll) : Origin(i, m) = Origin(i, n) => m = n
      /\ \A m, n \in 1 .. Len(ll) : 1 < m /\ m < n => Origin(i, m) < Origin(i, n)
  BY <1>1 DEF Origin
<1>7. ASSUME NEW j \in 1 .. Len(ll)
      PROVE  \E m \in 1 .. Len(ll) : Origin(i, m) = j
  <2>1. CASE j = i
    BY <1>1, <2>1 DEF Origin
  <2>2. CASE j < i
    <3>1. j + 1 \in 1 .. Len(ll) /\ Origin(i, j + 1) = j
      BY <1>1, <2>2 DEF Origin
    <3>2. QED
      BY <3>1
  <2>3. CASE j > i
    <3>1. Origin(i, j) = j
      BY <1>1, <2>3 DEF Origin
    <3>2. QED
      BY <3>1
  <2>4. QED
    BY <1>1, <2>1, <2>2, <2>3
<1>8. QED
  BY <1>2, <1>3, <1>5, <1>6, <1>7

\* A use of a cached key keeps list and map in agreement and the order of use.
LEMMA Promoted ==
  ASSUME RInv, NEW k \in Keys, Cached(k),
         ll' = MovedToFront(Position(k)), DOMAIN items' = DOMAIN items, Used(k)
  PROVE  /\ ll' \in Seq(Keys) /\ Len(ll') = Len(ll)
         /\ Agree' /\ InOrder'
<1> DEFINE i == Position(k)
<1>1. /\ ll \in Seq(Keys) /\ Len(ll) \in Nat /\ DOMAIN ll = 1 .. Len(ll)
      /\ \A j \in 1 .. Len(ll) : ll[j] \in Keys
  BY ListTyped
<1>2. i \in 1 .. Len(ll) /\ ll[i] = k
  BY PositionOfCached, <1>1
<1>3. /\ ll' \in Seq(Keys)
      /\ Len(ll') = Len(ll)
      /\ \A m \in 1 .. Len(ll) : /\ Origin(i, m) \in 1 .. Len(ll)
                                 /\ ll'[m] = ll[Origin(i, m)]
      /\ \A m, n \in 1 .. Len(ll) : Origin(i, m) = Origin(i, n) => m = n
      /\ \A m, n \in 1 .. Len(ll) : 1 < m /\ m < n => Origin(i, m) < Origin(i, n)
      /\ \A j \in 1 .. Len(ll) : \E m \in 1 .. Len(ll) : Origin(i, m) = j
  BY <1>1, <1>2, MoveToFrontPermutes
<1>4. DOMAIN ll' = 1 .. Len(ll)
  BY <1>1, <1>3
<1> HIDE DEF i
<1>5. Agree'
  <2>1. /\ DOMAIN items = {ll[j] : j \in 1 .. Len(ll)}
        /\ \A j, m \in 1 .. Len(ll) : ll[j] = ll[m] => j = m
    BY <1>1 DEF RInv, Agree
  <2>2. {ll'[m] : m \in 1 .. Len(ll)} = {ll[j] : j \in 1 .. Len(ll)}
    <3>1. ASSUME NEW m \in 1 .. Len(ll)
          PROVE  \E j \in 1 .. Len(ll) : ll'[m] = ll[j]
      BY <1>3
    <3>2. ASSUME NEW j \in 1 .. Len(ll)
          PROVE  \E m \in 1 .. Len(ll) : ll'[m] = ll[j]
      <4>1. PICK m \in 1 .. Len(ll) : Origin(i, m) = j
        BY <1>3
      <4>2. ll'[m] = ll[j]
        BY <1>3, <4>1
      <4>3. QED
        BY <4>2
    <3> DEFINE After == {ll'[m] : m \in 1 .. Len(ll)}
               Before == {ll[j] : j \in 1 .. Len(ll)}
    <3>3. After \subseteq Before
      BY <3>1
    <3>4. Before \subseteq After
      BY <3>2
    <3> HIDE DEF After, Before
    <3>5. After = Before
      BY <3>3, <3>4
    <3>6. QED
      BY <3>5 DEF After, Before
  <2>3. ASSUME NEW m \in 1 .. Len(ll), NEW n \in 1 .. Len(ll), ll'[m] = ll'[n]
        PROVE  m = n
    <3>1. /\ ll[Origin(i, m)] = ll[Origin(i, n)]
          /\ Origin(i, m) \in 1 .. Len(ll) /\ Origin(i, n) \in 1 .. Len(ll)
      BY <1>3, <2>3
    <3>2. Origin(i, m) = Origin(i, n)
      BY <2>1, <3>1
    <3>3. QED
      BY <1>3, <3>2
  <2>4. QED
    BY <1>4, <2>1, <2>2, <2>3 DEF Agree
<1>6. InOrder'
  <2>1. /\ \A m, n \in 1 .. Len(ll) : m < n => used[ll[m]] > used[ll[n]]
        /\ \A j, m \in 1 .. Len(ll) : ll[j] = ll[m] => j = m
        /\ \A j \in Keys : used[j] <= now
        /\ \A j \in DOMAIN items : used[j] > 0
    BY <1>1 DEF RInv, Agree, InOrder
  <2>2. now \in Nat /\ used \in [Keys -> Nat] /\ DOMAIN items \subseteq Keys
    BY DEF RInv, RTypeOK
  <2>3. /\ used'[k] = now + 1 /\ now' = now + 1
        /\ \A j \in Keys : j # k => used'[j] = used[j]
        /\ \A j \in Keys : used[j] \in Nat
    BY <2>2 DEF Used
  <2>4. ll'[1] = k /\ \A m \in 1 .. Len(ll) : m # 1 => ll'[m] # k
    <3>1. Origin(i, 1) = i /\ 1 \in 1 .. Len(ll)
      BY <1>1, <1>2 DEF Origin
    <3>2. ll'[1] = k
      BY <1>2, <1>3, <3>1
    <3>3. ASSUME NEW m \in 1 .. Len(ll), m # 1
          PROVE  ll'[m] # k
      <4>1. Origin(i, m) # i /\ Origin(i, m) \in 1 .. Len(ll)
        BY <1>3, <3>1, <3>3
      <4>2. ll[Origin(i, m)] # ll[i]
        BY <1>2, <2>1, <4>1
      <4>3. QED
        BY <1>2, <1>3, <4>2
    <3>4. QED
      BY <3>2, <3>3
  <2>5. ASSUME NEW m \in 1 .. Len(ll), NEW n \in 1 .. Len(ll), m < n
        PROVE  used'[ll'[m]] > used'[ll'[n]]
    <3>1. n # 1 /\ ll'[n] \in Keys /\ ll'[m] \in Keys /\ ll'[n] # k
      <4>1. n # 1
        BY <1>1, <2>5
      <4>2. ll'[n] = ll[Origin(i, n)] /\ Origin(i, n) \in 1 .. Len(ll)
        BY <1>3
      <4>3. ll'[m] = ll[Origin(i, m)] /\ Origin(i, m) \in 1 .. Len(ll)
        BY <1>3
      <4>4. QED
        BY <1>1, <2>4, <4>1, <4>2, <4>3
    <3>2. CASE m = 1
      BY <2>1, <2>2, <2>3, <2>4, <3>1, <3>2
    <3>3. CASE m > 1
      <4>1. used[ll'[m]] > used[ll'[n]]
        <5>1. /\ Origin(i, m) < Origin(i, n)
              /\ Origin(i, m) \in 1 .. Len(ll) /\ Origin(i, n) \in 1 .. Len(ll)
          BY <1>3, <2>5, <3>3
        <5>2. used[ll[Origin(i, m)]] > used[ll[Origin(i, n)]]
          BY <2>1, <5>1
        <5>3. QED
          BY <1>3, <5>2
      <4>2. ll'[m] # k
        BY <2>4, <3>3
      <4>3. QED
        BY <2>3, <3>1, <4>1, <4>2
    <3>4. QED
      BY <1>1, <3>2, <3>3
  <2>6. \A j \in Keys : used'[j] <= now'
    BY <2>1, <2>2, <2>3
  <2>7. \A j \in DOMAIN items' : used'[j] > 0
    BY <2>1, <2>2, <2>3
  <2>8. QED
    BY <1>4, <2>5, <2>6, <2>7 DEF InOrder
<1>7. QED
  BY <1>3, <1>5, <1>6

\* A new key in front of the first n keys of the list: list and map agree when the
\* map keeps those n, and the order of use is kept.
LEMMA Pushed ==
  ASSUME RInv, NEW k \in Keys, ~Cached(k), NEW n \in 0 .. Len(ll),
         ll' = <<k>> \o SubSeq(ll, 1, n),
         DOMAIN items' = {ll[j] : j \in 1 .. n} \cup {k}, Used(k)
  PROVE  /\ ll' \in Seq(Keys) /\ Len(ll') = n + 1
         /\ Agree' /\ InOrder'
<1>1. /\ ll \in Seq(Keys) /\ Len(ll) \in Nat /\ DOMAIN ll = 1 .. Len(ll)
      /\ \A j \in 1 .. Len(ll) : ll[j] \in Keys
  BY ListTyped
<1>2. n \in Nat /\ n <= Len(ll)
  BY <1>1
<1>3. /\ SubSeq(ll, 1, n) \in Seq(Keys) /\ Len(SubSeq(ll, 1, n)) = n
      /\ \A j \in 1 .. n : SubSeq(ll, 1, n)[j] = ll[j]
  BY <1>1, <1>2
<1>4. /\ ll' \in Seq(Keys) /\ Len(ll') = n + 1 /\ DOMAIN ll' = 1 .. n + 1
      /\ ll'[1] = k
      /\ \A m \in 2 .. n + 1 : ll'[m] = ll[m - 1] /\ m - 1 \in 1 .. n
  BY <1>2, <1>3
<1>5. /\ DOMAIN items = {ll[j] : j \in 1 .. Len(ll)}
      /\ \A j, m \in 1 .. Len(ll) : ll[j] = ll[m] => j = m
      /\ \A j, m \in 1 .. Len(ll) : j < m => used[ll[j]] > used[ll[m]]
      /\ \A j \in Keys : used[j] <= now
      /\ \A j \in DOMAIN items : used[j] > 0
  BY <1>1 DEF RInv, Agree, InOrder
<1>6. \A j \in 1 .. n : ll[j] # k /\ ll[j] \in Keys /\ ll[j] \in DOMAIN items
  BY <1>1, <1>2, <1>5 DEF Cached
<1>7. /\ now \in Nat /\ used \in [Keys -> Nat]
      /\ used'[k] = now + 1 /\ now' = now + 1
      /\ \A j \in Keys : j # k => used'[j] = used[j]
      /\ \A j \in Keys : used[j] \in Nat
  BY DEF RInv, RTypeOK, Used
<1>8. Agree'
  <2> DEFINE After == {ll'[m] : m \in 1 .. n + 1}
             Before == {ll[j] : j \in 1 .. n}
  <2>1. After \subseteq Before \cup {k}
    <3>1. ASSUME NEW m \in 1 .. n + 1
          PROVE  ll'[m] \in Before \cup {k}
      <4>1. CASE m = 1
        BY <1>4, <4>1
      <4>2. CASE m # 1
        <5>1. m \in 2 .. n + 1
          BY <1>2, <4>2
        <5>2. ll'[m] = ll[m - 1] /\ m - 1 \in 1 .. n
          BY <1>4, <5>1
        <5>3. QED
          BY <5>2
      <4>3. QED
        BY <4>1, <4>2
    <3>2. QED
      BY <3>1
  <2>2. Before \cup {k} \subseteq After
    <3>1. k \in After
      <4>1. 1 \in 1 .. n + 1
        BY <1>2
      <4>2. QED
        BY <1>4, <4>1
    <3>2. ASSUME NEW j \in 1 .. n
          PROVE  ll[j] \in After
      <4>1. j + 1 \in 2 .. n + 1 /\ j + 1 \in 1 .. n + 1 /\ (j + 1) - 1 = j
        BY <1>2
      <4>2. ll'[j + 1] = ll[j]
        BY <1>4, <4>1
      <4>3. QED
        BY <4>1, <4>2
    <3>3. QED
      BY <3>1, <3>2
  <2>3. DOMAIN items' = Before \cup {k}
    OBVIOUS
  <2>4. ASSUME NEW j \in 1 .. n + 1, NEW m \in 1 .. n + 1, ll'[j] = ll'[m]
        PROVE  j = m
    <3>1. CASE j = 1 \/ m = 1
      <4>1. \A i \in 2 .. n + 1 : ll'[i] # k
        BY <1>4, <1>6
      <4>2. j \notin 2 .. n + 1 /\ m \notin 2 .. n + 1
        BY <1>4, <2>4, <3>1, <4>1
      <4>3. QED
        BY <1>2, <4>2
    <3>2. CASE j # 1 /\ m # 1
      <4>1. j \in 2 .. n + 1 /\ m \in 2 .. n + 1
        BY <1>2, <3>2
      <4>2. ll[j - 1] = ll[m - 1] /\ j - 1 \in 1 .. Len(ll) /\ m - 1 \in 1 .. Len(ll)
        BY <1>1, <1>2, <1>4, <2>4, <4>1
      <4>3. j - 1 = m - 1
        BY <1>5, <4>2
      <4>4. QED
        BY <1>2, <4>3
    <3>3. QED
      BY <3>1, <3>2
  <2> HIDE DEF Before
  <2>5. DOMAIN items' = After
    BY <2>1, <2>2, <2>3
  <2>6. QED
    BY <1>4, <2>4, <2>5 DEF Agree
<1>9. InOrder'
  <2>1. ASSUME NEW j \in 1 .. n + 1, NEW m \in 1 .. n + 1, j < m
        PROVE  used'[ll'[j]] > used'[ll'[m]]
    <3>1. m \in 2 .. n + 1
      BY <1>2, <2>1
    <3>2. ll'[m] = ll[m - 1] /\ m - 1 \in 1 .. n
      BY <1>4, <3>1
    <3>3. used'[ll'[m]] = used[ll[m - 1]] /\ used[ll[m - 1]] <= now
      BY <1>5, <1>6, <1>7, <3>2
    <3>4. CASE j = 1
      BY <1>4, <1>6, <1>7, <3>2, <3>3, <3>4
    <3>5. CASE j # 1
      <4>1. j \in 2 .. n + 1
        BY <1>2, <3>5
      <4>2. ll'[j] = ll[j - 1] /\ j - 1 \in 1 .. n
        BY <1>4, <4>1
      <4>3. used'[ll'[j]] = used[ll[j - 1]]
        BY <1>6, <1>7, <4>2
      <4>4. j - 1 < m - 1 /\ j - 1 \in 1 .. Len(ll) /\ m - 1 \in 1 .. Len(ll)
        BY <1>1, <1>2, <2>1, <3>2, <4>2
      <4>5. QED
        BY <1>5, <3>3, <4>3, <4>4
    <3>6. QED
      BY <3>4, <3>5
  <2>2. \A j \in Keys : used'[j] <= now'
    BY <1>5, <1>7
  <2>3. \A j \in DOMAIN items' : used'[j] > 0
    BY <1>5, <1>6, <1>7
  <2>4. QED
    BY <1>4, <2>1, <2>2, <2>3 DEF InOrder
<1>10. QED
  BY <1>4, <1>8, <1>9

LEMMA InitHolds ==
  ASSUME RInit
  PROVE  RInv
<1>1. ll = <<>> /\ items = <<>> /\ now = 0 /\ used = [k \in Keys |-> 0] /\ Capacity \in Nat
  BY CapacityAssumption DEF RInit, Init
<1>2. DOMAIN ll = {} /\ DOMAIN items = {}
  BY <1>1
<1>3. RTypeOK
  BY <1>1, <1>2 DEF RTypeOK
<1>4. Agree /\ InOrder
  BY <1>1, <1>2 DEF Agree, InOrder
<1>5. ForgetsOldest /\ HitsLastPut
  BY <1>1, <1>2 DEF ForgetsOldest, HitsLastPut
<1>6. QED
  BY <1>3, <1>4, <1>5 DEF RInv

\* What is common to the uses of a key: its use is the latest, and the other keys'
\* uses stay as they were.
LEMMA UsedFields ==
  ASSUME RInv, NEW k \in Keys, Used(k)
  PROVE  /\ now' \in Nat /\ used' \in [Keys -> Nat]
         /\ used'[k] = now + 1
         /\ \A j \in Keys : j # k => used'[j] = used[j]
         /\ \A j \in Keys : used[j] \in Nat /\ used[j] < now + 1
  BY DEF RInv, RTypeOK, InOrder, Used

LEMMA HitHolds ==
  ASSUME RInv, NEW k \in Keys, Hit(k)
  PROVE  RInv'
<1>1. /\ Cached(k) /\ Used(k)
      /\ ll' = MovedToFront(Position(k)) /\ items' = items /\ last' = last
  BY DEF Hit, Get
<1>2. /\ ll' \in Seq(Keys) /\ Len(ll') = Len(ll)
      /\ Agree' /\ InOrder'
  BY <1>1, Promoted
<1>3. RTypeOK'
  BY <1>1, <1>2, UsedFields DEF RInv, RTypeOK
<1>4. ForgetsOldest'
  BY <1>1, <1>2, UsedFields DEF RInv, RTypeOK, ForgetsOldest, Cached
<1>5. HitsLastPut'
  BY <1>1 DEF RInv, HitsLastPut
<1>6. QED
  BY <1>2, <1>3, <1>4, <1>5 DEF RInv

LEMMA MissHolds ==
  ASSUME RInv, NEW k \in Keys, Miss(k)
  PROVE  RInv'
<1>1. UNCHANGED <<ll, items, now, used, last>>
  BY DEF Miss, Get, history
<1>2. QED
  BY <1>1 DEF RInv, RTypeOK, Agree, InOrder, ForgetsOldest, HitsLastPut, Cached

\* Whatever is kept, a put leaves the put answer under its key.
LEMMA LastPutKept ==
  ASSUME RInv, NEW k \in Keys, NEW a \in Answers, NEW K, K \subseteq DOMAIN items,
         items' = Kept(K, k, a),
         last' = [j \in DOMAIN last \cup {k} |-> IF j = k THEN a ELSE last[j]]
  PROVE  /\ HitsLastPut' /\ DOMAIN items' = K \cup {k}
         /\ DOMAIN items' \subseteq Keys /\ \A j \in DOMAIN items' : items'[j] \in Answers
  BY DEF RInv, RTypeOK, HitsLastPut, Kept

LEMMA UpdateHolds ==
  ASSUME RInv, NEW k \in Keys, NEW a \in Answers, Store(k, a), Update(k, a)
  PROVE  RInv'
<1>1. /\ Cached(k) /\ Used(k) /\ ll' = MovedToFront(Position(k))
      /\ items' = Kept(DOMAIN items, k, a)
      /\ last' = [j \in DOMAIN last \cup {k} |-> IF j = k THEN a ELSE last[j]]
  BY DEF Store, Update
<1>2. /\ HitsLastPut' /\ DOMAIN items' = DOMAIN items \cup {k}
      /\ DOMAIN items' \subseteq Keys /\ \A j \in DOMAIN items' : items'[j] \in Answers
  BY <1>1, LastPutKept
<1>3. DOMAIN items' = DOMAIN items
  BY <1>1, <1>2 DEF Cached
<1>4. /\ ll' \in Seq(Keys) /\ Len(ll') = Len(ll)
      /\ Agree' /\ InOrder'
  BY <1>1, <1>3, Promoted
<1>5. RTypeOK'
  BY <1>1, <1>2, <1>4, UsedFields DEF RInv, RTypeOK
<1>6. ForgetsOldest'
  BY <1>1, <1>3, <1>4, UsedFields DEF RInv, RTypeOK, ForgetsOldest, Cached
<1>7. QED
  BY <1>2, <1>4, <1>5, <1>6 DEF RInv

LEMMA InsertHolds ==
  ASSUME RInv, NEW k \in Keys, NEW a \in Answers, Store(k, a), Insert(k, a)
  PROVE  RInv'
<1>1. /\ ~Cached(k) /\ Used(k) /\ Len(ll) < Capacity /\ ll' = <<k>> \o ll
      /\ items' = Kept(DOMAIN items, k, a)
      /\ last' = [j \in DOMAIN last \cup {k} |-> IF j = k THEN a ELSE last[j]]
  BY DEF Store, Insert
<1>2. /\ ll \in Seq(Keys) /\ Len(ll) \in Nat /\ DOMAIN ll = 1 .. Len(ll)
      /\ DOMAIN items = {ll[j] : j \in 1 .. Len(ll)}
  BY ListTyped DEF RInv, Agree
<1>3. /\ HitsLastPut' /\ DOMAIN items' = DOMAIN items \cup {k}
      /\ DOMAIN items' \subseteq Keys /\ \A j \in DOMAIN items' : items'[j] \in Answers
  BY <1>1, LastPutKept
<1>4. ll' = <<k>> \o SubSeq(ll, 1, Len(ll)) /\ Len(ll) \in 0 .. Len(ll)
  BY <1>1, <1>2
<1>5. /\ ll' \in Seq(Keys) /\ Len(ll') = Len(ll) + 1
      /\ Agree' /\ InOrder'
  BY <1>1, <1>2, <1>3, <1>4, Pushed
<1>6. RTypeOK'
  <2>1. Len(ll) + 1 <= Capacity
    BY <1>1, <1>2, CapacityPositive
  <2>2. now' \in Nat /\ used' \in [Keys -> Nat]
    BY <1>1, UsedFields
  <2>3. QED
    BY <1>3, <1>5, <2>1, <2>2 DEF RTypeOK
<1>7. ForgetsOldest'
  <2>1. \A j \in Keys : used[j] > 0 => Cached(j)
    <3>1. Len(ll) # Capacity
      <4>1. Len(ll) \in Nat /\ Len(ll) < Capacity
        BY <1>1, <1>2, Zenon
      <4>2. QED
        BY <4>1, CapacityPositive
    <3>2. QED
      BY <3>1 DEF RInv, ForgetsOldest
  <2>2. QED
    BY <1>3, <2>1, UsedFields, <1>1 DEF ForgetsOldest, Cached
<1>8. QED
  BY <1>3, <1>5, <1>6, <1>7 DEF RInv

\* The key that goes is the list's last: all that stay were used after it.
LEMMA EvictHolds ==
  ASSUME RInv, NEW k \in Keys, NEW a \in Answers, Store(k, a), Evict(k, a)
  PROVE  RInv'
<1> DEFINE n == Len(ll)
<1>1. /\ ~Cached(k) /\ Used(k) /\ n >= Capacity
      /\ ll' = <<k>> \o SubSeq(ll, 1, n - 1)
      /\ items' = Kept(DOMAIN items \ {ll[n]}, k, a)
      /\ last' = [j \in DOMAIN last \cup {k} |-> IF j = k THEN a ELSE last[j]]
  BY DEF Store, Evict
<1>2. /\ ll \in Seq(Keys) /\ n \in Nat /\ DOMAIN ll = 1 .. n
      /\ \A j \in 1 .. n : ll[j] \in Keys
      /\ DOMAIN items = {ll[j] : j \in 1 .. n}
      /\ \A i, j \in 1 .. n : ll[i] = ll[j] => i = j
      /\ \A i, j \in 1 .. n : i < j => used[ll[i]] > used[ll[j]]
  BY ListTyped DEF RInv, Agree, InOrder
<1>3. n = Capacity /\ n >= 1
  <2>1. n \in Nat /\ n >= Capacity /\ n <= Capacity
    BY <1>1, <1>2, ListTyped, Zenon
  <2>2. QED
    BY <2>1, CapacityPositive
<1>4. n - 1 \in 0 .. n /\ n \in 1 .. n
  BY <1>2, <1>3
<1>5. /\ HitsLastPut' /\ DOMAIN items' = (DOMAIN items \ {ll[n]}) \cup {k}
      /\ DOMAIN items' \subseteq Keys /\ \A j \in DOMAIN items' : items'[j] \in Answers
  BY <1>1, LastPutKept
<1> HIDE DEF n
<1>6. DOMAIN items \ {ll[n]} = {ll[j] : j \in 1 .. n - 1}
  <2>1. ASSUME NEW j \in 1 .. n
        PROVE  ll[j] # ll[n] <=> j \in 1 .. n - 1
    BY <1>2, <1>4
  <2>2. QED
    BY <1>2, <2>1
<1>7. /\ ll' \in Seq(Keys) /\ Len(ll') = (n - 1) + 1
      /\ Agree' /\ InOrder'
  BY <1>1, <1>4, <1>5, <1>6, Pushed DEF n
<1>8. RTypeOK'
  <2>1. (n - 1) + 1 <= Capacity
    BY <1>2, <1>3, CapacityPositive DEF n
  <2>2. now' \in Nat /\ used' \in [Keys -> Nat]
    BY <1>1, UsedFields
  <2>3. QED
    BY <1>5, <1>7, <2>1, <2>2 DEF RTypeOK
<1>9. ForgetsOldest'
  <2>1. \A j \in DOMAIN items : j # ll[n] => used[ll[n]] < used[j]
    BY <1>2, <1>4
  <2>2. SUFFICES ASSUME NEW g \in Keys, used'[g] > 0, g \notin DOMAIN items',
                        NEW j \in DOMAIN items'
                 PROVE  used'[g] < used'[j]
    BY <1>2, <1>3, <1>7 DEF ForgetsOldest, Cached
  <2>3. g # k /\ used'[g] = used[g] /\ (g = ll[n] \/ g \notin DOMAIN items)
    BY <1>1, <1>5, <2>2, UsedFields
  <2>4. CASE j = k
    BY <1>1, <2>3, <2>4, UsedFields
  <2>5. CASE j # k
    <3>1. j \in DOMAIN items /\ j # ll[n] /\ j \in Keys /\ used'[j] = used[j]
      BY <1>1, <1>5, <2>5, UsedFields
    <3>2. CASE g = ll[n]
      BY <2>1, <2>3, <3>1, <3>2
    <3>3. CASE g \notin DOMAIN items
      BY <2>2, <2>3, <3>1, <3>3 DEF RInv, ForgetsOldest, Cached
    <3>4. QED
      BY <2>3, <3>2, <3>3
  <2>6. QED
    BY <2>4, <2>5
<1>10. QED
  BY <1>5, <1>7, <1>8, <1>9 DEF RInv

LEMMA RInvHolds == RSpec => []RInv
<1>1. RInit => RInv
  BY InitHolds
<1>2. RInv /\ [RNext]_<<ll, items, history>> => RInv'
  <2> SUFFICES ASSUME RInv, [RNext]_<<ll, items, history>>
               PROVE  RInv'
    OBVIOUS
  <2>1. ASSUME NEW k \in Keys, Hit(k)
        PROVE  RInv'
    BY <2>1, HitHolds
  <2>2. ASSUME NEW k \in Keys, Miss(k)
        PROVE  RInv'
    BY <2>2, MissHolds
  <2>3. ASSUME NEW k \in Keys, NEW a \in Answers, Store(k, a)
        PROVE  RInv'
    BY <2>3, UpdateHolds, InsertHolds, EvictHolds DEF Store, Put
  <2>4. CASE UNCHANGED <<ll, items, history>>
    BY <2>4 DEF history, RInv, RTypeOK, Agree, InOrder, ForgetsOldest, HitsLastPut, Cached
  <2>5. QED
    BY <2>1, <2>2, <2>3, <2>4 DEF RNext
<1>3. QED
  BY <1>1, <1>2, PTL DEF RSpec

\* Whatever the capacity and however it is used, the cache holds keys and answers
\* and never more than fit (cache.go:98, Put).
THEOREM CacheTyped == RSpec => []RTypeOK
<1>1. RInv => RTypeOK
  BY DEF RInv
<1>2. QED
  BY <1>1, RInvHolds, PTL

\* The memory only watches: what LRURecency does to list and map is what a cache
\* does (cache.go:85, :98).
LEMMA RecencyIsACache == RSpec => CacheSpec
<1>1. RInit => Init
  BY DEF RInit
<1>2. [RNext]_<<ll, items, history>> => [CacheNext]_<<ll, items>>
  BY DEF RNext, Hit, Miss, Store, CacheNext
<1> QED BY <1>1, <1>2, PTL DEF RSpec, CacheSpec

\* List and map never disagree: no element without an entry, no entry without an
\* element, no key twice (cache.go:98, Put).
THEOREM ListAndMapAgree == RSpec => []Agree
<1>1. RInv => Agree
  BY DEF RInv
<1>2. QED
  BY <1>1, RInvHolds, PTL

\* The cache only ever forgets the least recently used keys, and only when full
\* (cache.go:96, Put).
THEOREM LeastRecentlyUsed == RSpec => []ForgetsOldest
<1>1. RInv => ForgetsOldest
  BY DEF RInv
<1>2. QED
  BY <1>1, RInvHolds, PTL

\* A hit returns what was last put under its key (cache.go:83, Get).
THEOREM HitsAreLastPut == RSpec => []HitsLastPut
<1>1. RInv => HitsLastPut
  BY DEF RInv
<1>2. QED
  BY <1>1, RInvHolds, PTL

-----------------------------------------------------------------------------
(***************************************************************************)
(* The registry (ISPB): a participant is named by the registry once it has  *)
(* listed it, what a command reports as loaded is in the table, and only    *)
(* active participants are stored.                                          *)
(***************************************************************************)
IsSeq(s) == Len(s) \in Nat /\ s = [i \in 1..Len(s) |-> s[i]]

TableTyped == participants = [code \in Codes |-> participants[code]]

IsCommand(d) ==
  \E pc, source, rows, all, both, alone :
    d = [pc |-> pc, source |-> source, rows |-> rows, all |-> all, both |-> both, alone |-> alone]

CommandTyped ==
  /\ command = [c \in Callers |-> command[c]]
  /\ \A c \in Callers : IsCommand(command[c])
  /\ \A c \in Callers : command[c].source \in Sources

\* How many records a command has written.
Done(d) == Len(d.all) - Len(d.rows)

\* The records still to be written are the last of those parsed.
Behind(d) ==
  /\ IsSeq(d.all) /\ IsSeq(d.rows) /\ Len(d.rows) <= Len(d.all)
  /\ \A i \in 1..Len(d.rows) : d.rows[i] = d.all[Done(d) + i]
  /\ d.pc = "done" => Len(d.rows) = 0
  /\ d.pc = "upsert" => Len(d.rows) # 0

ColumnOf(table, code, source) ==
  IF source = "str" THEN table[code].str ELSE table[code].pix

\* Of the records written so far the last for each code is in the table.
Stored(d) ==
  d.alone => \A i \in 1..Done(d) :
    /\ d.all[i].code \in Codes
    /\ (\A j \in (i + 1)..Done(d) : d.all[j].code # d.all[i].code) =>
         ColumnOf(participants, d.all[i].code, d.source) = d.all[i]

LoadInv ==
  /\ TableTyped /\ CommandTyped
  /\ \A c \in Callers : Behind(command[c]) /\ Stored(command[c])
-----------------------------------------------------------------------------
\* The k-th of a finite set of positions is one of them, and each is the k-th for some k.
Before(S, i) == {j \in S : j < i}
Place(S, i) == Cardinality(Before(S, i))

LEMMA Placed ==
  ASSUME NEW S, IsFiniteSet(S), S \subseteq Nat, NEW i \in S
  PROVE  Place(S, i) \in 0..(Cardinality(S) - 1)
<1>1. Before(S, i) \subseteq S /\ Before(S, i) # S
  BY DEF Before
<1>2. /\ IsFiniteSet(Before(S, i)) /\ Cardinality(Before(S, i)) <= Cardinality(S)
      /\ Cardinality(Before(S, i)) # Cardinality(S)
  BY <1>1, FS_Subset
<1>3. Cardinality(S) \in Nat /\ Cardinality(Before(S, i)) \in Nat
  BY <1>2, FS_CardinalityType
<1> QED BY <1>2, <1>3 DEF Place

LEMMA PlacesDiffer ==
  ASSUME NEW S, IsFiniteSet(S), S \subseteq Nat, NEW i \in S, NEW j \in S, i < j
  PROVE  Place(S, i) < Place(S, j)
<1>1. /\ Before(S, i) \subseteq Before(S, j) /\ i \in Before(S, j) \ Before(S, i)
      /\ Before(S, j) \subseteq S
  <2>1. ASSUME NEW e \in S, e < i PROVE e < j
    <3>1. e \in Nat /\ i \in Nat /\ j \in Nat
      OBVIOUS
    <3> QED BY <2>1, <3>1
  <2>2. ~(i < i)
    <3>1. i \in Nat
      OBVIOUS
    <3> QED BY <3>1
  <2> QED BY <2>1, <2>2 DEF Before
<1>2. IsFiniteSet(Before(S, j))
  BY <1>1, FS_Subset
<1>3. /\ IsFiniteSet(Before(S, i)) /\ Cardinality(Before(S, i)) <= Cardinality(Before(S, j))
      /\ Cardinality(Before(S, i)) # Cardinality(Before(S, j))
  BY <1>1, <1>2, FS_Subset
<1>4. Cardinality(Before(S, i)) \in Nat /\ Cardinality(Before(S, j)) \in Nat
  BY <1>2, <1>3, FS_CardinalityType
<1> QED BY <1>3, <1>4 DEF Place

LEMMA AllPlaces ==
  ASSUME NEW S, IsFiniteSet(S), S \subseteq Nat
  PROVE  /\ Cardinality(S) \in Nat
         /\ \A k \in 1..Cardinality(S) : Nth(S, k) \in S
         /\ \A i \in S : \E k \in 1..Cardinality(S) : Nth(S, k) = i
<1> DEFINE n == Cardinality(S)
           f == [i \in S |-> Place(S, i)]
<1>1. n \in Nat
  BY FS_CardinalityType
<1>2. f \in [S -> 0..(n - 1)]
  BY Placed
<1>3. \A i, j \in S : f[i] = f[j] => i = j
  <2> SUFFICES ASSUME NEW i \in S, NEW j \in S, i < j
               PROVE  f[i] # f[j]
    OBVIOUS
  <2>1. f[i] < f[j]
    BY PlacesDiffer
  <2>2. f[i] \in Int /\ f[j] \in Int
    BY <1>1, <1>2
  <2> QED BY <2>1, <2>2
<1>4. IsFiniteSet(0..(n - 1)) /\ Cardinality(0..(n - 1)) = n
  <2>1. IF 0 > n - 1 THEN Cardinality(0..(n - 1)) = 0 ELSE Cardinality(0..(n - 1)) = n - 1 - 0 + 1
    BY <1>1, FS_Interval
  <2>2. IsFiniteSet(0..(n - 1))
    BY <1>1, FS_Interval
  <2> QED BY <1>1, <2>1, <2>2
<1>5. \A k \in 0..(n - 1) : \E i \in S : f[i] = k
  <2>1. f \in Injection(S, 0..(n - 1))
    BY <1>2, <1>3 DEF Injection, IsInjective
  <2> HIDE DEF f, n
  <2>2. f \in Surjection(S, 0..(n - 1))
    BY <1>4, <2>1, FS_Injection DEF n
  <2> QED BY <2>2 DEF Surjection
<1>6. ASSUME NEW k \in 1..n
      PROVE  Nth(S, k) \in S
  <2>1. PICK i \in S : f[i] = k - 1
    BY <1>1, <1>5
  <2> QED BY <2>1 DEF Nth, Place, Before
<1>7. ASSUME NEW i \in S
      PROVE  \E k \in 1..n : Nth(S, k) = i
  <2>1. f[i] \in 0..(n - 1)
    BY <1>2
  <2>2. f[i] + 1 \in 1..n /\ (f[i] + 1) - 1 = f[i]
    BY <1>1, <2>1
  <2>3. \A j \in S : Cardinality({e \in S : e < j}) = (f[i] + 1) - 1 <=> j = i
    BY <1>3, <2>2 DEF Place, Before
  <2>4. Nth(S, f[i] + 1) = i
    BY <2>3 DEF Nth
  <2> QED BY <2>2, <2>4
<1> QED BY <1>1, <1>6, <1>7

\* Records: what is kept of the rows of a table are its usable ones.
LEMMA RecordsOfRows ==
  ASSUME NEW T, NEW rows \in Seq(T)
  PROVE  /\ IsSeq(Records(rows))
         /\ Range(Records(rows)) = {Record(rows[i]) : i \in {j \in DOMAIN rows : Usable(rows[j])}}
<1> DEFINE usable == {i \in DOMAIN rows : Usable(rows[i])}
           n == Cardinality(usable)
<1>1. DOMAIN rows = 1..Len(rows) /\ Len(rows) \in Nat
  OBVIOUS
<1>2. IsFiniteSet(usable) /\ usable \subseteq Nat
  <2>1. IsFiniteSet(1..Len(rows))
    BY <1>1, FS_Interval
  <2>2. usable \subseteq 1..Len(rows)
    BY <1>1
  <2> QED BY <2>1, <2>2, FS_Subset
<1>3. /\ n \in Nat
      /\ \A k \in 1..n : Nth(usable, k) \in usable
      /\ \A i \in usable : \E k \in 1..n : Nth(usable, k) = i
  BY <1>2, AllPlaces
<1>4. Records(rows) = [k \in 1..n |-> Record(rows[Nth(usable, k)])]
  BY DEF Records
<1> HIDE DEF n, usable
<1>5. Len(Records(rows)) = n
  BY <1>3, <1>4
<1>6. IsSeq(Records(rows))
  BY <1>3, <1>4, <1>5 DEF IsSeq
<1>7. Range(Records(rows)) = {Record(rows[i]) : i \in usable}
  BY <1>3, <1>4 DEF Range
<1> QED BY <1>6, <1>7 DEF usable

FileRows == {Title, Header} \cup DataRows

\* HeaderIndex: the first row but the title that states the header, if any does.
LEMMA HeaderIsRow ==
  ASSUME NEW file \in Seq(FileRows)
  PROVE  /\ HeaderIndex(file) \in Nat \ {0}
         /\ Len(file) >= 2 /\ file[2] = Header => HeaderIndex(file) = 2
<1> DEFINE later == {i \in 2..Len(file) : file[i] = Header}
           m == CHOOSE i \in later : \A j \in later : i <= j
<1>1. CASE later = {}
  BY <1>1 DEF HeaderIndex
<1>2. CASE later # {}
  <2>1. later \subseteq Nat
    OBVIOUS
  <2>2. \E i \in later : \A j \in later : i <= j
    BY <1>2, <2>1, LeastExists
  <2>3. m \in later /\ \A j \in later : m <= j
    BY <2>2
  <2>4. HeaderIndex(file) = m
    BY <1>2 DEF HeaderIndex
  <2> HIDE DEF m
  <2> QED BY <2>3, <2>4
<1> QED BY <1>1, <1>2

\* FirstTable: the rows up to the one that states the header again.
LEMMA TableRows ==
  ASSUME NEW rows \in Seq(FileRows)
  PROVE  /\ FirstTable(rows) \in Seq(FileRows)
         /\ \A i \in DOMAIN FirstTable(rows) :
              i \in DOMAIN rows /\ FirstTable(rows)[i] = rows[i] /\ \A j \in 1..i : rows[j] # Header
<1> DEFINE again == {i \in 1..Len(rows) : rows[i] = Header}
           m == CHOOSE i \in again : \A j \in again : i <= j
<1>1. CASE again = {}
  BY <1>1 DEF FirstTable
<1>2. CASE again # {}
  <2>1. again \subseteq Nat
    OBVIOUS
  <2>2. \E i \in again : \A j \in again : i <= j
    BY <1>2, <2>1, LeastExists
  <2>3. m \in again /\ \A j \in again : m <= j
    BY <2>2
  <2>4. FirstTable(rows) = SubSeq(rows, 1, m - 1)
    BY <1>2 DEF FirstTable
  <2> HIDE DEF m
  <2>5. m \in 1..Len(rows)
    BY <2>3
  <2>6. /\ FirstTable(rows) \in Seq(FileRows) /\ Len(FirstTable(rows)) = m - 1
        /\ \A i \in 1..(m - 1) : FirstTable(rows)[i] = rows[i]
    BY <2>4, <2>5
  <2>7. \A j \in 1..(m - 1) : rows[j] # Header
    BY <2>3, <2>5
  <2> QED BY <2>5, <2>6, <2>7
<1> QED BY <1>1, <1>2

\* ParseSTR, ParsePix: what parses is a sequence.
LEMMA ParsedIsSeq ==
  ASSUME NEW source, NEW file \in Seq(FileRows), Parse(source, file) # ParseError
  PROVE  IsSeq(Parse(source, file))
<1>1. CASE source = "str"
  <2>1. Parse(source, file) = Records(Tail(file)) /\ Len(file) >= 2
    BY <1>1 DEF Parse, ParseSTR
  <2>2. Tail(file) \in Seq(FileRows)
    BY <2>1
  <2> QED BY <2>1, <2>2, RecordsOfRows
<1>2. CASE source # "str"
  <2> DEFINE rows == SubSeq(file, HeaderIndex(file), Len(file))
  <2>2. HeaderIndex(file) \in Nat \ {0}
    BY HeaderIsRow
  <2>3. rows \in Seq(FileRows) /\ Len(rows) \in Nat
    BY <2>2
  <2>4. ~(Len(file) < 2 \/ Len(rows) < 2 \/ rows[1] # Header)
    BY <1>2 DEF Parse, ParsePix
  <2>5. Parse(source, file) = Records(TableOf(Tail(rows)))
    BY <1>2, <2>4 DEF Parse, ParsePix
  <2>1. Parse(source, file) = Records(TableOf(Tail(rows))) /\ Len(rows) >= 2
    BY <2>3, <2>4, <2>5
  <2> HIDE DEF rows
  <2>6. Tail(rows) \in Seq(FileRows)
    BY <2>1, <2>3
  <2>7. TableOf(Tail(rows)) \in Seq(FileRows)
    BY <2>6, TableRows DEF TableOf
  <2> QED BY <2>1, <2>7, RecordsOfRows
<1> QED BY <1>1, <1>2

-----------------------------------------------------------------------------
\* A file of the participants: what a failed or a complete download of a published list leaves.
Published(file) ==
  \/ file = <<>>
  \/ \E day \in Days :
       PixList[day] # NoList /\ \E k \in 0..Len(PixFile(day)) : file = SubSeq(PixFile(day), 1, k)

IsFile(source, file) == IF source = "str" THEN file \in Seq(FileRows) ELSE Published(file)

FilesInv ==
  /\ today \in Days
  /\ staged = [source \in Sources |-> staged[source]]
  /\ \A source \in Sources : IsFile(source, staged[source])

\* The list of a day, and where its active and its pending rows are.
LEMMA ListRows ==
  ASSUME NEW day \in Days, PixList[day] # NoList
  PROVE  LET active == PixList[day].active
             file == PixFile(day)
         IN  /\ active \in Seq(DataRows) /\ file \in Seq(FileRows) /\ Len(file) >= Len(active) + 3
             /\ file[2] = Header /\ file[Len(active) + 3] = Header
             /\ \A i \in 1..Len(active) : file[i + 2] = active[i]
<1> DEFINE active == PixList[day].active
           pending == PixList[day].pending
<1>1. active \in Seq(DataRows) /\ pending \in Seq(DataRows)
  BY RegistryAssumption
<1>2. active \in Seq(FileRows) /\ pending \in Seq(FileRows)
  <2>1. DataRows \subseteq FileRows
    BY DEF FileRows
  <2> HIDE DEF active, pending
  <2> QED BY <1>1, <2>1
<1>3. PixFile(day) = ((<<Title, Header>> \o active) \o <<Header>>) \o pending
  BY DEF PixFile
<1>4. Title \in FileRows /\ Header \in FileRows
  BY DEF FileRows
<1> HIDE DEF active, pending
<1> DEFINE top == <<Title, Header>> \o active
           first == top \o <<Header>>
<1>5. /\ top \in Seq(FileRows) /\ Len(top) = Len(active) + 2 /\ top[2] = Header
      /\ \A i \in 1..Len(active) : top[i + 2] = active[i]
  BY <1>2, <1>4
<1> HIDE DEF top
<1>6. /\ first \in Seq(FileRows) /\ Len(first) = Len(active) + 3 /\ first[Len(active) + 3] = Header
      /\ \A i \in 1..(Len(active) + 2) : first[i] = top[i]
  BY <1>2, <1>4, <1>5
<1>7. PixFile(day) = first \o pending
  BY <1>3 DEF top
<1> HIDE DEF first
<1>8. /\ PixFile(day) \in Seq(FileRows) /\ Len(PixFile(day)) >= Len(active) + 3
      /\ \A i \in 1..(Len(active) + 3) : PixFile(day)[i] = first[i]
  BY <1>2, <1>6, <1>7
<1>9. PixFile(day)[2] = Header /\ PixFile(day)[Len(active) + 3] = Header
  BY <1>2, <1>5, <1>6, <1>8
<1>10. \A i \in 1..Len(active) : PixFile(day)[i + 2] = active[i]
  BY <1>2, <1>5, <1>6, <1>8
<1> QED BY <1>1, <1>8, <1>9, <1>10 DEF active

\* The beginning of a sequence.
LEMMA BeginningOf ==
  ASSUME NEW T, NEW s \in Seq(T), NEW k \in 0..Len(s)
  PROVE  /\ SubSeq(s, 1, k) \in Seq(T) /\ Len(SubSeq(s, 1, k)) = k
         /\ \A i \in 1..k : SubSeq(s, 1, k)[i] = s[i]
  OBVIOUS

LEMMA PublishedTyped == ASSUME NEW file, Published(file) PROVE file \in Seq(FileRows)
<1>1. CASE file = <<>>
  BY <1>1
<1>2. ASSUME NEW day \in Days, PixList[day] # NoList, NEW k \in 0..Len(PixFile(day)),
             file = SubSeq(PixFile(day), 1, k)
      PROVE  file \in Seq(FileRows)
  <2>1. PixFile(day) \in Seq(FileRows)
    BY <1>2, ListRows
  <2> QED BY <1>2, <2>1, BeginningOf
<1> QED BY <1>1, <1>2 DEF Published

\* DownloadSTR, DownloadPix: what they get, and every beginning of it, is a file.
LEMMA Downloaded ==
  ASSUME FilesInv, NEW source \in Sources, NEW file \in Downloads(source)
  PROVE  IsFile(source, file) /\ \A k \in 0..Len(file) : IsFile(source, SubSeq(file, 1, k))
<1>1. CASE source = "str"
  <2>1. file \in Seq(FileRows)
    BY <1>1, RegistryAssumption DEF Downloads, FilesInv, FileRows
  <2> QED BY <1>1, <2>1, BeginningOf DEF IsFile
<1>2. CASE source # "str"
  <2>1. PICK day \in Days : PixList[day] # NoList /\ file = PixFile(day)
    BY <1>2 DEF Downloads
  <2>2. file \in Seq(FileRows) /\ Len(file) \in Nat
    BY <2>1, ListRows
  <2>3. file = SubSeq(file, 1, Len(file)) /\ Len(file) \in 0..Len(file)
    BY <2>2
  <2>4. \A k \in 0..Len(file) : Published(SubSeq(file, 1, k))
    BY <2>1 DEF Published
  <2>5. Published(file)
    BY <2>3, <2>4
  <2> QED BY <1>2, <2>4, <2>5 DEF IsFile
<1> QED BY <1>1, <1>2

LEMMA DownloadedTyped ==
  ASSUME FilesInv, NEW source \in Sources, NEW file \in Downloads(source)
  PROVE  file \in Seq(FileRows)
  BY Downloaded, PublishedTyped DEF IsFile

LEMMA StagedTyped ==
  ASSUME FilesInv, NEW source \in Sources PROVE staged[source] \in Seq(FileRows)
  BY PublishedTyped DEF FilesInv, IsFile

\* ISPBInit: no file is staged.
LEMMA FilesInitially == ISPBInit => FilesInv
<1> SUFFICES ASSUME ISPBInit PROVE FilesInv
  OBVIOUS
<1>1. \A source \in Sources : IsFile(source, <<>>)
  <2>1. <<>> \in Seq(FileRows)
    OBVIOUS
  <2> QED BY <2>1 DEF IsFile, Published
<1> QED BY <1>1, RegistryAssumption DEF ISPBInit, FilesInv

\* Only fetch stages a file.
LEMMA FilesStep == FilesInv /\ [ISPBNext]_ispbVars => FilesInv'
<1> SUFFICES ASSUME FilesInv, [ISPBNext]_ispbVars PROVE FilesInv'
  OBVIOUS
<1>1. ASSUME today' \in Days, UNCHANGED staged PROVE FilesInv'
  BY <1>1 DEF FilesInv
<1>2. ASSUME NEW c \in Callers, NEW source \in Sources, Fetch(c, source) PROVE FilesInv'
  <2>0. PICK file \in Downloads(source) :
          \E k \in 0..Len(file) : staged' = [staged EXCEPT ![source] = SubSeq(file, 1, k)]
    BY <1>2 DEF Fetch
  <2>1. PICK k \in 0..Len(file) : staged' = [staged EXCEPT ![source] = SubSeq(file, 1, k)]
    BY <2>0
  <2>2. IsFile(source, SubSeq(file, 1, k))
    BY Downloaded
  <2> DEFINE new == SubSeq(file, 1, k)
  <2> HIDE DEF new
  <2>3. staged' = [other \in Sources |-> IF other = source THEN new ELSE staged[other]]
    BY <2>1 DEF FilesInv, new
  <2>4. today' \in Days
    BY <1>2 DEF Fetch, FilesInv
  <2>5. \A other \in Sources : IsFile(other, staged'[other])
    BY <2>2, <2>3 DEF FilesInv, new
  <2>6. staged' = [other \in Sources |-> staged'[other]]
    BY <2>3
  <2>7. (\A other \in Sources : IsFile(other, staged[other]))'
    BY <2>5 DEF IsFile, Published
  <2> QED BY <2>4, <2>6, <2>7 DEF FilesInv
<1>3. CASE NextDay
  BY <1>1, <1>3 DEF NextDay
<1>4. CASE UNCHANGED <<today, staged>>
  BY <1>1, <1>4 DEF FilesInv
<1> QED BY <1>2, <1>3, <1>4 DEF ISPBNext, Load, Sync, SyncPix, UpsertRow, Fail, ispbVars
-----------------------------------------------------------------------------
\* A sequence without elements is empty.
LEMMA EmptyIfNone == ASSUME NEW s, IsSeq(s), Len(s) = 0 PROVE s = <<>>
  BY DEF IsSeq

\* The rest of a sequence.
LEMMA TailOf ==
  ASSUME NEW s, IsSeq(s), Len(s) # 0
  PROVE  /\ IsSeq(Tail(s)) /\ Len(Tail(s)) = Len(s) - 1 /\ Head(s) = s[1]
         /\ \A i \in 1..(Len(s) - 1) : Tail(s)[i] = s[i + 1]
<1> DEFINE S == {s[i] : i \in 1..Len(s)}
<1>1. s \in Seq(S) /\ Len(s) \in Nat
  <2>1. \A i \in 1..Len(s) : s[i] \in S OBVIOUS
  <2> HIDE DEF S
  <2> QED BY <2>1 DEF IsSeq
<1>2. s # <<>> BY <1>1
<1>3. Tail(s) \in Seq(S) /\ Len(Tail(s)) = Len(s) - 1 BY <1>1, <1>2
<1>4. IsSeq(Tail(s))
  <2> HIDE DEF S
  <2>1. \A q \in Seq(S) : Len(q) \in Nat /\ q = [i \in 1..Len(q) |-> q[i]] OBVIOUS
  <2> QED BY <1>3, <2>1 DEF IsSeq
<1> QED BY <1>1, <1>2, <1>3, <1>4

\* The fields of a command's record after an update.
LEMMA Commands ==
  ASSUME NEW pc, NEW source, NEW rows, NEW all, NEW both, NEW alone
  PROVE  IsCommand([pc |-> pc, source |-> source, rows |-> rows, all |-> all, both |-> both, alone |-> alone])
<1> USE DEF IsCommand
<1> WITNESS pc, source, rows, all, both, alone
<1> QED OBVIOUS

LEMMA AloneSet ==
  ASSUME NEW d, IsCommand(d), NEW v
  PROVE  LET e == [d EXCEPT !.alone = v]
         IN  /\ IsCommand(e) /\ e.alone = v
             /\ e.pc = d.pc /\ e.source = d.source /\ e.rows = d.rows /\ e.all = d.all
<1>1. PICK pc, source, rows, all, both, alone :
        d = [pc |-> pc, source |-> source, rows |-> rows, all |-> all, both |-> both, alone |-> alone]
  BY DEF IsCommand
<1>2. [d EXCEPT !.alone = v] =
        [pc |-> pc, source |-> source, rows |-> rows, all |-> all, both |-> both, alone |-> v]
  BY <1>1
<1>3. IsCommand([d EXCEPT !.alone = v]) BY <1>2, Commands
<1> QED BY <1>1, <1>2, <1>3

LEMMA PhaseSet ==
  ASSUME NEW d, IsCommand(d), NEW p
  PROVE  LET e == [d EXCEPT !.pc = p]
         IN  /\ IsCommand(e) /\ e.pc = p
             /\ e.alone = d.alone /\ e.source = d.source /\ e.rows = d.rows /\ e.all = d.all
<1>1. PICK pc, source, rows, all, both, alone :
        d = [pc |-> pc, source |-> source, rows |-> rows, all |-> all, both |-> both, alone |-> alone]
  BY DEF IsCommand
<1>2. [d EXCEPT !.pc = p] =
        [pc |-> p, source |-> source, rows |-> rows, all |-> all, both |-> both, alone |-> alone]
  BY <1>1
<1>3. IsCommand([d EXCEPT !.pc = p]) BY <1>2, Commands
<1> QED BY <1>1, <1>2, <1>3

Updated(d, r, p) == [d EXCEPT !.rows = r, !.pc = p]

LEMMA RowsSet ==
  ASSUME NEW d, IsCommand(d), NEW r, NEW p
  PROVE  /\ IsCommand(Updated(d, r, p)) /\ Updated(d, r, p).pc = p /\ Updated(d, r, p).rows = r
         /\ Updated(d, r, p).source = d.source /\ Updated(d, r, p).all = d.all
         /\ Updated(d, r, p).alone = d.alone
<1>1. PICK pc, source, rows, all, both, alone :
        d = [pc |-> pc, source |-> source, rows |-> rows, all |-> all, both |-> both, alone |-> alone]
  BY DEF IsCommand
<1>2. Updated(d, r, p) =
        [pc |-> p, source |-> source, rows |-> r, all |-> all, both |-> both, alone |-> alone]
  <2>1. [d EXCEPT !.rows = r] =
          [pc |-> pc, source |-> source, rows |-> r, all |-> all, both |-> both, alone |-> alone]
    BY <1>1
  <2>2. Updated(d, r, p) = [[d EXCEPT !.rows = r] EXCEPT !.pc = p] BY DEF Updated
  <2>3. [[pc |-> pc, source |-> source, rows |-> r, all |-> all, both |-> both, alone |-> alone]
           EXCEPT !.pc = p] =
          [pc |-> p, source |-> source, rows |-> r, all |-> all, both |-> both, alone |-> alone]
    OBVIOUS
  <2> QED BY <2>1, <2>2, <2>3
<1>3. IsCommand(Updated(d, r, p)) BY <1>2, Commands
<1> QED BY <1>1, <1>2, <1>3

\* newISPBSTRLoadCmd and the other commands: a caller begins with everything to write.
LEMMA BeginKeeps ==
  ASSUME LoadInv, NEW c \in Callers, NEW source \in Sources, NEW file \in Seq(FileRows), NEW both,
         Begin(c, source, file, both), UNCHANGED participants
  PROVE  LoadInv'
<1> DEFINE records == Parse(source, file)
           new == IF records = ParseError THEN [Idle EXCEPT !.pc = "failed"]
                  ELSE [pc |-> IF records = <<>> THEN "done" ELSE "upsert",
                        source |-> source, rows |-> records, all |-> records,
                        both |-> both, alone |-> TRUE]
<1>1. command' = [command EXCEPT ![c] = new] BY DEF Begin
<1>2. IsCommand(new) /\ new.source \in Sources
  BY DEF IsCommand, Idle, Sources
<1>3. Behind(new) /\ Done(new) = 0
  <2>1. CASE records = ParseError
    <3>1. new.all = <<>> /\ new.rows = <<>> /\ new.pc = "failed" BY <2>1 DEF Idle
    <3>2. IsSeq(<<>>) /\ Len(<<>>) = 0 BY DEF IsSeq
    <3> QED BY <3>1, <3>2 DEF Behind, Done
  <2>2. CASE records # ParseError
    <3>1. /\ new.all = records /\ new.rows = records
          /\ (new.pc = "done" => records = <<>>) /\ (new.pc = "upsert" => records # <<>>)
      BY <2>2
    <3>2. IsSeq(records) BY <2>2, ParsedIsSeq
    <3> HIDE DEF records, new
    <3>3. Len(records) \in Nat BY <3>2 DEF IsSeq
    <3>4. Done(new) = 0 BY <3>1, <3>3 DEF Done
    <3>5. Len(<<>>) = 0 OBVIOUS
    <3>6. records # <<>> => Len(records) # 0 BY <3>2, EmptyIfNone
    <3> QED BY <3>1, <3>2, <3>3, <3>4, <3>5, <3>6 DEF Behind
  <2> QED BY <2>1, <2>2
<1> HIDE DEF new
<1>4. command' = [d \in Callers |-> IF d = c THEN new ELSE command[d]]
  BY <1>1 DEF LoadInv, CommandTyped
<1>5. \A d \in Callers : command'[d] = IF d = c THEN new ELSE command[d] BY <1>4
<1>6. CommandTyped'
  <2>1. command' = [d \in Callers |-> command'[d]] BY <1>4
  <2>2. \A d \in Callers : IsCommand(command'[d])
    BY <1>2, <1>5 DEF LoadInv, CommandTyped
  <2>3. \A d \in Callers : command'[d].source \in Sources BY <1>2, <1>5 DEF LoadInv, CommandTyped
  <2>4. (\A d \in Callers : IsCommand(command[d]))' BY <2>2
  <2> QED BY <2>1, <2>3, <2>4 DEF CommandTyped
<1>7. \A d \in Callers : Behind(command'[d]) BY <1>3, <1>5 DEF LoadInv
<1>8. ASSUME NEW d \in Callers PROVE Stored(command[d])'
  <2>1. CASE d = c
    <3>1. Done(command[d])' = 0 BY <1>3, <1>5, <2>1 DEF Done
    <3> QED BY <3>1 DEF Stored
  <2>2. CASE d # c
    <3>1. Stored(command[d]) /\ command'[d] = command[d] BY <1>5, <2>2 DEF LoadInv
    <3> QED BY <3>1 DEF Stored, Done
  <2> QED BY <2>1, <2>2
<1>9. (\A d \in Callers : Behind(command[d]))' BY <1>7
<1> QED BY <1>6, <1>8, <1>9 DEF LoadInv, TableTyped
-----------------------------------------------------------------------------
\* UpsertSTR, UpsertPix: the columns of the row's source are set, the others stay.
LEMMA RowWritten ==
  ASSUME NEW t, t = [code \in Codes |-> t[code]], NEW u,
         NEW record, record.code \in Codes, NEW source \in Sources,
         IF source = "str"
         THEN u = [t EXCEPT ![record.code] = [name |-> record.name, str |-> record, pix |-> @.pix]]
         ELSE u = [t EXCEPT ![record.code] =
                     [name |-> IF @.str = NoRecord THEN record.name ELSE @.name,
                      str |-> @.str, pix |-> record]]
  PROVE  /\ u = [code \in Codes |-> u[code]]
         /\ ColumnOf(u, record.code, source) = record
         /\ \A code \in Codes : \A other \in Sources :
              code # record.code \/ other # source => ColumnOf(u, code, other) = ColumnOf(t, code, other)
<1>1. PICK new : u = [t EXCEPT ![record.code] = new]
                 /\ new.str = (IF source = "str" THEN record ELSE t[record.code].str)
                 /\ new.pix = (IF source = "str" THEN t[record.code].pix ELSE record)
  <2>1. CASE source = "str" BY <2>1
  <2>2. CASE source # "str" BY <2>2
  <2> QED BY <2>1, <2>2
<1>2. u = [code \in Codes |-> IF code = record.code THEN new ELSE t[code]] BY <1>1
<1>3. \A code \in Codes : u[code] = IF code = record.code THEN new ELSE t[code] BY <1>2
<1> QED BY <1>1, <1>2, <1>3 DEF ColumnOf, Sources

\* UpsertRow: one more record is written; another command of the source is no longer
\* alone, and one of the other source keeps its columns.
LEMMA UpsertKeeps ==
  ASSUME LoadInv, NEW c \in Callers, UpsertRow(c)
  PROVE  LoadInv'
<1> DEFINE d == command[c]
           record == Head(d.rows)
           k == Done(d)
<1>0. IsCommand(d) /\ Behind(d) /\ Stored(d) /\ d.source \in Sources /\ TableTyped
  BY DEF LoadInv, CommandTyped
<1>1. /\ d.pc = "upsert" /\ record.code \in Codes
      /\ IF d.source = "str" THEN UpsertSTR(record) ELSE UpsertPix(record)
  BY RegistryAssumption DEF UpsertRow
<1>2. PICK pc : command' = [e \in Callers |->
                  IF e = c THEN [d EXCEPT !.rows = Tail(d.rows), !.pc = pc]
                  ELSE IF command[e].source = d.source THEN [command[e] EXCEPT !.alone = FALSE]
                       ELSE command[e]]
                /\ pc = IF Len(d.rows) = 1 THEN "done" ELSE "upsert"
  <2>1. command' = [e \in Callers |->
              IF e = c
              THEN [command[e] EXCEPT !.rows = Tail(@),
                                      !.pc = IF Len(command[e].rows) = 1 THEN "done" ELSE @]
              ELSE IF command[e].source = d.source THEN [command[e] EXCEPT !.alone = FALSE]
                   ELSE command[e]]
    BY DEF UpsertRow
  <2>2. [command[c] EXCEPT !.rows = Tail(@), !.pc = IF Len(command[c].rows) = 1 THEN "done" ELSE @]
        = [d EXCEPT !.rows = Tail(d.rows), !.pc = IF Len(d.rows) = 1 THEN "done" ELSE "upsert"]
    BY <1>0, <1>1 DEF IsCommand
  <2> QED BY <2>1, <2>2
<1>3. /\ TableTyped' /\ ColumnOf(participants', record.code, d.source) = record
      /\ \A code \in Codes : \A other \in Sources :
           code # record.code \/ other # d.source => ColumnOf(participants', code, other) = ColumnOf(participants, code, other)
  <2> HIDE DEF d, record
  <2>1. TableTyped /\ record.code \in Codes /\ d.source \in Sources BY <1>0, <1>1
  <2>2. IF d.source = "str" THEN UpsertSTR(record) ELSE UpsertPix(record) BY <1>1
  <2>3. participants = [code \in Codes |-> participants[code]] BY <2>1 DEF TableTyped
  <2> QED BY <2>1, <2>2, <2>3, RowWritten DEF UpsertSTR, UpsertPix, TableTyped
<1>4. /\ IsCommand(command'[c]) /\ command'[c].pc = pc /\ command'[c].rows = Tail(d.rows)
      /\ command'[c].source = d.source /\ command'[c].all = d.all /\ command'[c].alone = d.alone
  <2>1. command'[c] = Updated(d, Tail(d.rows), pc) BY <1>2 DEF Updated
  <2> HIDE DEF d
  <2>2. IsCommand(d) BY <1>0
  <2> QED BY ONLY <2>1, <2>2, RowsSet
<1>5. ASSUME NEW e \in Callers, e # c
      PROVE  /\ IsCommand(command'[e]) /\ command'[e].pc = command[e].pc
             /\ command'[e].source = command[e].source /\ command'[e].all = command[e].all
             /\ command'[e].rows = command[e].rows
             /\ command'[e].alone => command[e].alone /\ command[e].source # d.source
  <2>1. IsCommand(command[e]) BY DEF LoadInv, CommandTyped
  <2>2. CASE command[e].source = d.source
    <3>1. command'[e] = [command[e] EXCEPT !.alone = FALSE] BY <1>2, <1>5, <2>2
    <3> QED BY <2>1, <3>1, AloneSet
  <2>3. CASE command[e].source # d.source
    <3>1. command'[e] = command[e] BY <1>2, <1>5, <2>3
    <3> QED BY <2>1, <2>3, <3>1
  <2> QED BY <2>2, <2>3
<1> HIDE DEF d, record
<1>6. CommandTyped'
  <2>1. command' = [e \in Callers |-> command'[e]] BY <1>2
  <2>2. \A e \in Callers : command'[e].source \in Sources
    BY <1>0, <1>4, <1>5 DEF LoadInv, CommandTyped
  <2>3. \A e \in Callers : IsCommand(command'[e]) BY <1>4, <1>5
  <2> QED BY <2>1, <2>2, <2>3 DEF CommandTyped
<1>7. /\ Len(d.all) \in Nat /\ Len(d.rows) \in Nat \ {0} /\ Len(d.rows) <= Len(d.all)
      /\ k \in Nat /\ k + Len(d.rows) = Len(d.all)
  BY <1>0, <1>1 DEF Behind, IsSeq, Done
<1>8. /\ IsSeq(Tail(d.rows)) /\ Len(Tail(d.rows)) = Len(d.rows) - 1 /\ record = d.rows[1]
      /\ \A i \in 1..(Len(d.rows) - 1) : Tail(d.rows)[i] = d.rows[i + 1]
  <2>1. IsSeq(d.rows) BY <1>0 DEF Behind
  <2> QED BY <1>7, <2>1, TailOf DEF record
<1>9. record = d.all[k + 1] BY <1>0, <1>7, <1>8 DEF Behind
<1>10. Done(command[c])' = k + 1
  <2>1. Len(command'[c].all) = Len(d.all) /\ Len(command'[c].rows) = Len(d.rows) - 1 BY <1>4, <1>8
  <2>2. \A all, rows, n \in Nat : n + rows = all => all - (rows - 1) = n + 1 OBVIOUS
  <2>3. Len(d.all) - (Len(d.rows) - 1) = k + 1 BY <1>7, <2>2
  <2> QED BY <2>1, <2>3 DEF Done
<1>11. Behind(command[c])'
  <2>1. IsSeq(d.all) BY <1>0 DEF Behind
  <2>2. ASSUME NEW i \in 1..(Len(d.rows) - 1) PROVE Tail(d.rows)[i] = d.all[(k + 1) + i]
    <3>1. i + 1 \in 1..Len(d.rows) /\ k + (i + 1) = (k + 1) + i BY <1>7
    <3>2. d.rows[i + 1] = d.all[k + (i + 1)] BY <1>0, <3>1 DEF Behind
    <3> QED BY <1>8, <3>1, <3>2
  <2>3. /\ Len(d.rows) - 1 <= Len(d.all)
        /\ (pc = "done" => Len(d.rows) - 1 = 0) /\ (pc = "upsert" => Len(d.rows) - 1 # 0)
    BY <1>2, <1>7
  <2> QED BY <1>4, <1>8, <1>10, <2>1, <2>2, <2>3 DEF Behind
<1>12. Stored(command[c])'
  <2>1. SUFFICES ASSUME d.alone, NEW i \in 1..(k + 1)
                 PROVE  /\ d.all[i].code \in Codes
                        /\ (\A j \in (i + 1)..(k + 1) : d.all[j].code # d.all[i].code) =>
                             ColumnOf(participants', d.all[i].code, d.source) = d.all[i]
    BY <1>4, <1>10 DEF Stored
  <2>2. CASE i = k + 1 BY <1>1, <1>3, <1>9, <2>2
  <2>3. CASE i # k + 1
    <3>1. i \in 1..k BY <1>7, <2>3
    <3>2. d.all[i].code \in Codes BY <1>0, <2>1, <3>1 DEF Stored
    <3>3. ASSUME \A j \in (i + 1)..(k + 1) : d.all[j].code # d.all[i].code
          PROVE  ColumnOf(participants', d.all[i].code, d.source) = d.all[i]
      <4>1. k + 1 \in (i + 1)..(k + 1) /\ (i + 1)..k \subseteq (i + 1)..(k + 1) BY <1>7, <3>1
      <4>2. d.all[i].code # record.code BY <1>9, <3>3, <4>1
      <4>3. ColumnOf(participants, d.all[i].code, d.source) = d.all[i] BY <1>0, <2>1, <3>1, <3>3, <4>1 DEF Stored
      <4> QED BY <1>0, <1>3, <3>2, <4>2, <4>3
    <3> QED BY <3>2, <3>3
  <2> QED BY <2>2, <2>3
<1>13. ASSUME NEW e \in Callers, e # c PROVE Behind(command[e])' /\ Stored(command[e])'
  <2>1. Behind(command[e]) /\ Stored(command[e]) /\ command[e].source \in Sources
    BY DEF LoadInv, CommandTyped
  <2>2. Behind(command[e])' /\ Done(command[e])' = Done(command[e]) BY <1>5, <1>13, <2>1 DEF Behind, Done
  <2>3. ASSUME command'[e].alone, NEW i \in 1..Done(command[e])
        PROVE  /\ command[e].all[i].code \in Codes
               /\ ColumnOf(participants', command[e].all[i].code, command[e].source)
                  = ColumnOf(participants, command[e].all[i].code, command[e].source)
    <3>1. command[e].alone /\ command[e].source # d.source BY <1>5, <1>13, <2>3
    <3>2. command[e].all[i].code \in Codes BY <2>1, <2>3, <3>1 DEF Stored
    <3> QED BY <1>3, <2>1, <3>1, <3>2
  <2>4. Stored(command[e])'
    <3>1. SUFFICES ASSUME command'[e].alone, NEW i \in 1..Done(command[e])
                   PROVE  /\ command[e].all[i].code \in Codes
                          /\ (\A j \in (i + 1)..Done(command[e]) :
                                 command[e].all[j].code # command[e].all[i].code) =>
                               ColumnOf(participants', command[e].all[i].code, command[e].source)
                                 = command[e].all[i]
      BY <1>5, <1>13, <2>2 DEF Stored
    <3>2. command[e].alone BY <1>5, <1>13, <3>1
    <3> QED BY <2>1, <2>3, <3>1, <3>2 DEF Stored
  <2> QED BY <2>2, <2>4
<1> QED BY <1>3, <1>6, <1>11, <1>12, <1>13 DEF LoadInv
-----------------------------------------------------------------------------
\* ISPBInit: nothing is written and nothing is to be written.
LEMMA LoadInitially == ISPBInit => LoadInv
<1> SUFFICES ASSUME ISPBInit PROVE LoadInv OBVIOUS
<1>1. TableTyped BY DEF ISPBInit, TableTyped
<1>2. \A c \in Callers : command[c] = Idle BY DEF ISPBInit
<1>3. IsCommand(Idle) /\ Idle.source \in Sources BY Commands DEF Idle, Sources
<1>4. CommandTyped
  <2>1. command = [c \in Callers |-> command[c]] BY DEF ISPBInit
  <2> QED BY <1>2, <1>3, <2>1 DEF CommandTyped
<1>5. Behind(Idle) /\ Stored(Idle)
  <2>1. Idle.all = <<>> /\ Idle.rows = <<>> /\ Idle.pc = "idle" /\ ~Idle.alone BY DEF Idle
  <2>2. IsSeq(<<>>) /\ Len(<<>>) = 0 BY DEF IsSeq
  <2> QED BY <2>1, <2>2 DEF Behind, Stored, Done
<1> QED BY <1>1, <1>2, <1>4, <1>5 DEF LoadInv

\* Whatever leaves the table and the commands alone preserves the invariant.
LEMMA LoadUntouched == ASSUME LoadInv, UNCHANGED <<participants, command>> PROVE LoadInv'
<1>1. TableTyped' /\ CommandTyped' BY DEF LoadInv, TableTyped, CommandTyped
<1>2. ASSUME NEW c \in Callers PROVE Behind(command[c])' /\ Stored(command[c])'
  <2>1. Behind(command[c]) /\ Stored(command[c]) BY DEF LoadInv
  <2>2. Behind(command[c])' BY <2>1
  <2>3. Stored(command[c])' BY <2>1 DEF Stored
  <2> QED BY <2>2, <2>3
<1> QED BY <1>1, <1>2 DEF LoadInv

\* Fail: what was written stays, and the command promises nothing any more.
LEMMA FailKeeps == ASSUME LoadInv, NEW c \in Callers, Fail(c) PROVE LoadInv'
<1> DEFINE new == [command[c] EXCEPT !.pc = "failed"]
<1>1. IsCommand(command[c]) /\ Behind(command[c]) /\ Stored(command[c]) /\ command[c].source \in Sources
  BY DEF LoadInv, CommandTyped
<1>2. /\ IsCommand(new) /\ new.pc = "failed" /\ new.alone = command[c].alone
      /\ new.source = command[c].source /\ new.rows = command[c].rows /\ new.all = command[c].all
  BY <1>1, PhaseSet
<1>3. UNCHANGED participants /\ command' = [command EXCEPT ![c] = new] BY DEF Fail
<1> HIDE DEF new
<1>4. command' = [d \in Callers |-> IF d = c THEN new ELSE command[d]]
  BY <1>3 DEF LoadInv, CommandTyped
<1>5. \A d \in Callers : command'[d] = IF d = c THEN new ELSE command[d] BY <1>4
<1>6. CommandTyped'
  <2>1. command' = [d \in Callers |-> command'[d]] BY <1>4
  <2>2. \A d \in Callers : IsCommand(command'[d]) /\ command'[d].source \in Sources
    BY <1>1, <1>2, <1>5 DEF LoadInv, CommandTyped
  <2> QED BY <2>1, <2>2 DEF CommandTyped
<1>7. ASSUME NEW d \in Callers PROVE Behind(command[d])' /\ Stored(command[d])'
  <2>1. Behind(command[d]) /\ Stored(command[d]) BY DEF LoadInv
  <2>2. CASE d = c
    <3>1. /\ command'[d].pc = "failed" /\ command'[d].alone = command[d].alone
          /\ command'[d].source = command[d].source /\ command'[d].rows = command[d].rows
          /\ command'[d].all = command[d].all
      BY <1>2, <1>5, <2>2
    <3>2. Done(command[d])' = Done(command[d]) BY <3>1 DEF Done
    <3>3. Behind(command[d])' BY <2>1, <3>1, <3>2 DEF Behind
    <3>4. Stored(command[d])' BY <1>3, <2>1, <3>1, <3>2 DEF Stored
    <3> QED BY <3>3, <3>4
  <2>3. CASE d # c
    <3>1. command'[d] = command[d] BY <1>5, <2>3
    <3>2. Behind(command[d])' BY <2>1, <3>1
    <3>3. Stored(command[d])' BY <1>3, <2>1, <3>1 DEF Stored
    <3> QED BY <3>2, <3>3
  <2> QED BY <2>2, <2>3
<1> QED BY <1>3, <1>6, <1>7 DEF LoadInv, TableTyped

\* Every step of a command, and every other step, preserves the invariant.
LEMMA LoadStep == FilesInv /\ LoadInv /\ [ISPBNext]_ispbVars => LoadInv'
<1> SUFFICES ASSUME FilesInv, LoadInv, [ISPBNext]_ispbVars PROVE LoadInv' OBVIOUS
<1>1. CASE NextDay BY <1>1, LoadUntouched DEF NextDay
<1>2. ASSUME NEW c \in Callers, NEW source \in Sources, Fetch(c, source) PROVE LoadInv'
  BY <1>2, LoadUntouched DEF Fetch
<1>3. ASSUME NEW c \in Callers, NEW source \in Sources, Load(c, source) PROVE LoadInv'
  BY <1>3, BeginKeeps, StagedTyped DEF Load
<1>4. ASSUME NEW c \in Callers, NEW source \in Sources, NEW both \in BOOLEAN, Sync(c, source, both)
      PROVE  LoadInv'
  BY <1>4, BeginKeeps, DownloadedTyped DEF Sync
<1>5. ASSUME NEW c \in Callers, SyncPix(c) PROVE LoadInv'
  BY <1>5, BeginKeeps, DownloadedTyped DEF SyncPix, Sources
<1>6. ASSUME NEW c \in Callers, UpsertRow(c) PROVE LoadInv' BY <1>6, UpsertKeeps
<1>7. ASSUME NEW c \in Callers, Fail(c) PROVE LoadInv' BY <1>7, FailKeeps
<1>8. CASE UNCHANGED ispbVars BY <1>8, LoadUntouched DEF ispbVars
<1> QED BY <1>1, <1>2, <1>3, <1>4, <1>5, <1>6, <1>7, <1>8 DEF ISPBNext

\* LoadConverges: what a command that nobody of its source wrote into reports as
\* loaded is in the table as its last row for each code says.
THEOREM LoadsConverge == ISPBSpec => []LoadConverges
<1>1. ASSUME LoadInv, NEW c \in Callers, command[c].pc = "done", command[c].alone,
             NEW i \in 1..Len(command[c].all),
             \A j \in (i + 1)..Len(command[c].all) : command[c].all[j].code # command[c].all[i].code
      PROVE  Column(command[c].all[i].code, command[c].source) = command[c].all[i]
  <2>1. Behind(command[c]) /\ Stored(command[c]) BY <1>1 DEF LoadInv
  <2>2. Done(command[c]) = Len(command[c].all)
    <3>1. Len(command[c].rows) = 0 /\ Len(command[c].all) \in Nat BY <1>1, <2>1 DEF Behind, IsSeq
    <3>2. \A n \in Nat : n - 0 = n OBVIOUS
    <3> QED BY <3>1, <3>2 DEF Done
  <2> QED BY <1>1, <2>1, <2>2 DEF Stored, Column, ColumnOf
<1>2. LoadInv => LoadConverges BY <1>1 DEF LoadConverges
<1> QED BY FilesInitially, FilesStep, LoadInitially, LoadStep, <1>2, PTL DEF ISPBSpec
-----------------------------------------------------------------------------
\* UpsertRow keeps a participant's name with the record its columns show.
LEMMA NameKept ==
  ASSUME TableTyped, NameOfSTR, NEW c \in Callers, UpsertRow(c)
  PROVE  NameOfSTR'
<1> DEFINE record == Head(command[c].rows)
<1>1. record.code \in Codes /\ record # NoRecord
  <2>1. record.code \in Codes BY RegistryAssumption DEF UpsertRow
  <2>2. NoRecord.code = NoCode BY DEF NoRecord
  <2> QED BY <2>1, <2>2, RegistryAssumption
<1>2. UpsertSTR(record) \/ UpsertPix(record) BY DEF UpsertRow
<1> HIDE DEF record
<1>3. PICK new :
        /\ participants' = [participants EXCEPT ![record.code] = new]
        /\ new.name = (IF new.str # NoRecord THEN new.str.name ELSE new.pix.name)
  <2>1. CASE UpsertSTR(record)
    <3> DEFINE new == [name |-> record.name, str |-> record, pix |-> participants[record.code].pix]
    <3>1. new.name = record.name /\ new.str = record OBVIOUS
    <3>2. participants' = [participants EXCEPT ![record.code] = new] BY <2>1 DEF UpsertSTR
    <3> HIDE DEF new
    <3> QED BY <1>1, <3>1, <3>2
  <2>2. CASE UpsertPix(record)
    <3> DEFINE old == participants[record.code]
               new == [name |-> IF old.str = NoRecord THEN record.name ELSE old.name,
                       str |-> old.str, pix |-> record]
    <3>1. /\ new.str = old.str /\ new.pix = record
          /\ new.name = IF old.str = NoRecord THEN record.name ELSE old.name
      OBVIOUS
    <3>2. participants' = [participants EXCEPT ![record.code] = new] BY <2>2 DEF UpsertPix
    <3>3. old.str # NoRecord => old.name = old.str.name
      <4>1. NoRow.str = NoRecord BY DEF NoRow
      <4> QED BY <1>1, <4>1 DEF NameOfSTR
    <3> HIDE DEF new, old
    <3> QED BY <3>1, <3>2, <3>3
  <2> QED BY <1>2, <2>1, <2>2
<1>4. participants' = [code \in Codes |-> IF code = record.code THEN new ELSE participants[code]]
  BY <1>3 DEF TableTyped
<1>5. \A code \in Codes : participants'[code] = IF code = record.code THEN new ELSE participants[code]
  BY <1>4
<1> QED BY <1>3, <1>5 DEF NameOfSTR

\* NameOfSTR: whatever the order of the rows of both sources, the registry names.
THEOREM RegistryNames == ISPBSpec => []NameOfSTR
<1>1. ISPBInit => TableTyped /\ NameOfSTR BY DEF ISPBInit, TableTyped, NameOfSTR
<1>2. LoadInv /\ NameOfSTR /\ [ISPBNext]_ispbVars => NameOfSTR'
  <2> SUFFICES ASSUME LoadInv, NameOfSTR, [ISPBNext]_ispbVars PROVE NameOfSTR' OBVIOUS
  <2>1. ASSUME NEW c \in Callers, UpsertRow(c) PROVE NameOfSTR' BY <2>1, NameKept DEF LoadInv
  <2>2. CASE UNCHANGED participants BY <2>2 DEF NameOfSTR
  <2> QED BY <2>1, <2>2 DEF ISPBNext, NextDay, Fetch, Load, Sync, SyncPix, Fail, ispbVars
<1> QED BY <1>1, <1>2, FilesInitially, FilesStep, LoadInitially, LoadStep, PTL DEF ISPBSpec
-----------------------------------------------------------------------------
\* A record of an institution that some published list names among its active ones.
Active(record) ==
  \E day \in Days : PixList[day] # NoList /\ record \in Range(Records(PixList[day].active))

\* ParsePix reads nothing of a list but its active participants, however much of it was staged:
\* the header is its second row, and the table ends at the row that states it again.
LEMMA ParsedActive ==
  ASSUME NEW file, Published(file), ParsePix(file) # ParseError,
         NEW i \in 1..Len(ParsePix(file))
  PROVE  Active(ParsePix(file)[i])
<1> DEFINE rows == SubSeq(file, HeaderIndex(file), Len(file))
<1>1. file \in Seq(FileRows) /\ Len(file) \in Nat
  BY PublishedTyped
<1>2. ~(Len(file) < 2 \/ Len(rows) < 2 \/ rows[1] # Header)
  BY DEF ParsePix
<1>3. ParsePix(file) = Records(TableOf(Tail(rows)))
  BY <1>2 DEF ParsePix
<1>4. Len(file) >= 2 /\ file # <<>>
  BY <1>1, <1>2
<1>5. PICK day \in Days :
        PixList[day] # NoList /\ \E k \in 0..Len(PixFile(day)) : file = SubSeq(PixFile(day), 1, k)
  BY <1>4 DEF Published
<1>beginning. PICK k \in 0..Len(PixFile(day)) : file = SubSeq(PixFile(day), 1, k)
  BY <1>5
<1> DEFINE active == PixList[day].active
           list == PixFile(day)
<1>6. /\ active \in Seq(DataRows) /\ list \in Seq(FileRows) /\ Len(list) >= Len(active) + 3
      /\ list[2] = Header /\ list[Len(active) + 3] = Header
      /\ \A n \in 1..Len(active) : list[n + 2] = active[n]
  BY <1>5, ListRows
<1> HIDE DEF active, list, rows
<1>7. k \in Nat /\ Len(file) = k /\ \A n \in 1..k : file[n] = list[n]
  <2>1. k \in 0..Len(list) /\ file = SubSeq(list, 1, k)
    BY <1>beginning DEF list
  <2> QED BY <1>6, <2>1, BeginningOf
<1>8. HeaderIndex(file) = 2
  <2>1. file[2] = Header
    BY <1>4, <1>6, <1>7
  <2> QED BY <1>1, <1>4, <2>1, HeaderIsRow
<1>9. /\ Tail(rows) \in Seq(FileRows) /\ Len(Tail(rows)) = k - 2
      /\ \A n \in 1..(k - 2) : Tail(rows)[n] = list[n + 2]
  <2>1. /\ rows \in Seq(FileRows) /\ Len(rows) = k - 1
        /\ \A n \in 1..(k - 1) : rows[n] = file[n + 1]
    BY <1>1, <1>4, <1>7, <1>8 DEF rows
  <2>2. /\ Tail(rows) \in Seq(FileRows) /\ Len(Tail(rows)) = k - 2
        /\ \A n \in 1..(k - 2) : Tail(rows)[n] = rows[n + 1]
    BY <1>4, <1>7, <2>1
  <2> QED BY <1>4, <1>7, <2>1, <2>2
<1> DEFINE table == TableOf(Tail(rows))
<1>10. /\ table \in Seq(FileRows)
       /\ \A n \in DOMAIN table :
            /\ n \in 1..(k - 2) /\ table[n] = list[n + 2]
            /\ \A j \in 1..n : list[j + 2] # Header
  <2>1. DOMAIN Tail(rows) = 1..(k - 2)
    BY <1>9
  <2>2. /\ table \in Seq(FileRows)
        /\ \A n \in DOMAIN table :
             n \in 1..(k - 2) /\ table[n] = Tail(rows)[n] /\ \A j \in 1..n : Tail(rows)[j] # Header
    BY <1>9, <2>1, TableRows DEF TableOf
  <2> HIDE DEF table
  <2>3. ASSUME NEW n \in DOMAIN table, NEW j \in 1..n
        PROVE  list[j + 2] # Header
    <3>1. n \in 1..(k - 2) /\ Tail(rows)[j] # Header
      BY <2>2
    <3>2. j \in 1..(k - 2)
      BY <1>7, <3>1
    <3> QED BY <1>9, <3>1, <3>2
  <2> QED BY <1>9, <2>2, <2>3
<1> HIDE DEF table
<1>11. \A n \in DOMAIN table : n \in 1..Len(active) /\ table[n] = active[n]
  <2> SUFFICES ASSUME NEW n \in DOMAIN table PROVE n \in 1..Len(active) /\ table[n] = active[n]
    OBVIOUS
  <2>1. n \in 1..(k - 2) /\ table[n] = list[n + 2] /\ \A j \in 1..n : list[j + 2] # Header
    BY <1>10
  <2>2. Len(active) \in Nat
    BY <1>6
  <2>3. CASE n >= Len(active) + 1
    <3>1. Len(active) + 1 \in 1..n /\ (Len(active) + 1) + 2 = Len(active) + 3
      BY <1>7, <2>1, <2>2, <2>3
    <3>2. list[(Len(active) + 1) + 2] # Header
      BY <2>1, <3>1
    <3> QED BY <1>6, <3>1, <3>2
  <2>4. CASE ~(n >= Len(active) + 1)
    <3>1. n \in 1..Len(active)
      BY <1>7, <2>1, <2>2, <2>4
    <3> QED BY <1>6, <2>1, <3>1
  <2> QED BY <2>3, <2>4
<1>12. /\ IsSeq(Records(table))
       /\ Range(Records(table)) = {Record(table[n]) : n \in {j \in DOMAIN table : Usable(table[j])}}
  BY <1>10, RecordsOfRows
<1>13. Range(Records(active)) = {Record(active[n]) : n \in {j \in DOMAIN active : Usable(active[j])}}
  BY <1>6, RecordsOfRows
<1>14. ParsePix(file)[i] \in Range(Records(table))
  <2>1. ParsePix(file) = Records(table)
    BY <1>3 DEF table
  <2>2. i \in DOMAIN Records(table)
    BY <1>12, <2>1 DEF IsSeq
  <2> QED BY <2>1, <2>2 DEF Range
<1>15. PICK n \in DOMAIN table : Usable(table[n]) /\ ParsePix(file)[i] = Record(table[n])
  BY <1>12, <1>14
<1>16. n \in DOMAIN active /\ table[n] = active[n]
  BY <1>6, <1>11
<1>17. ParsePix(file)[i] \in Range(Records(active))
  BY <1>13, <1>15, <1>16
<1> QED BY <1>5, <1>17 DEF Active, active

\* What a command that reads the list has still to write is active.
ToWrite(d) == d.source = "pix" => \A i \in 1..Len(d.rows) : Active(d.rows[i])

ActiveInv == ActiveOnly /\ \A c \in Callers : ToWrite(command[c])

LEMMA BeginActive ==
  ASSUME FilesInv, LoadInv, ActiveInv, NEW c \in Callers, NEW source \in Sources,
         NEW file, IsFile(source, file), NEW both, Begin(c, source, file, both), UNCHANGED participants
  PROVE  ActiveInv'
<1> DEFINE records == Parse(source, file)
           new == IF records = ParseError THEN [Idle EXCEPT !.pc = "failed"]
                  ELSE [pc |-> IF records = <<>> THEN "done" ELSE "upsert",
                        source |-> source, rows |-> records, all |-> records,
                        both |-> both, alone |-> TRUE]
<1>1. command' = [command EXCEPT ![c] = new]
  BY DEF Begin
<1>2. ToWrite(new)
  <2>1. CASE records = ParseError
    <3>1. new.source = "str"
      BY <2>1 DEF Idle
    <3> QED BY <3>1 DEF ToWrite
  <2>2. CASE records # ParseError
    <3>1. new.source = source /\ new.rows = records
      BY <2>2
    <3>2. source = "pix" => Published(file) /\ records = ParsePix(file)
      BY DEF IsFile, Parse
    <3> HIDE DEF new, records
    <3> QED BY <2>2, <3>1, <3>2, ParsedActive DEF ToWrite
  <2> QED BY <2>1, <2>2
<1> HIDE DEF new
<1>3. \A d \in Callers : command'[d] = IF d = c THEN new ELSE command[d]
  <2>1. command = [d \in Callers |-> command[d]]
    BY DEF LoadInv, CommandTyped
  <2>2. command' = [d \in Callers |-> IF d = c THEN new ELSE command[d]]
    BY <1>1, <2>1
  <2> QED BY <2>2
<1>4. \A d \in Callers : ToWrite(command'[d])
  BY <1>2, <1>3 DEF ActiveInv
<1>5. (\A d \in Callers : ToWrite(command[d]))'
  BY <1>4 DEF ToWrite, Active
<1> QED BY <1>5 DEF ActiveInv, ActiveOnly

LEMMA UpsertActive ==
  ASSUME LoadInv, ActiveInv, NEW c \in Callers, UpsertRow(c)
  PROVE  ActiveInv'
<1> DEFINE d == command[c]
           record == Head(d.rows)
<1>1. /\ IsCommand(d) /\ Behind(d) /\ ToWrite(d) /\ d.source \in Sources
      /\ d.pc = "upsert" /\ TableTyped
  BY DEF LoadInv, CommandTyped, ActiveInv, UpsertRow
<1>2. IF d.source = "str" THEN UpsertSTR(record) ELSE UpsertPix(record)
  BY DEF UpsertRow
<1>3. /\ IsSeq(Tail(d.rows)) /\ Len(Tail(d.rows)) = Len(d.rows) - 1 /\ record = d.rows[1]
      /\ \A i \in 1..(Len(d.rows) - 1) : Tail(d.rows)[i] = d.rows[i + 1]
      /\ Len(d.rows) \in Nat \ {0}
  BY <1>1, TailOf DEF Behind, IsSeq
<1>4. d.source = "pix" => Active(record)
  BY <1>1, <1>3 DEF ToWrite
<1>5. \A e \in Callers :
        /\ command'[e].source = command[e].source
        /\ command'[e].rows = IF e = c THEN Tail(d.rows) ELSE command[e].rows
  <2> SUFFICES ASSUME NEW e \in Callers
               PROVE  /\ command'[e].source = command[e].source
                      /\ command'[e].rows = IF e = c THEN Tail(d.rows) ELSE command[e].rows
    OBVIOUS
  <2>1. IsCommand(command[e])
    BY DEF LoadInv, CommandTyped
  <2>2. CASE e = c
    <3>1. command'[e] = Updated(d, Tail(d.rows), IF Len(d.rows) = 1 THEN "done" ELSE "upsert")
      <4>1. command'[e] = [d EXCEPT !.rows = Tail(@), !.pc = IF Len(d.rows) = 1 THEN "done" ELSE @]
        BY <2>2 DEF UpsertRow
      <4> QED BY <1>1, <4>1 DEF Updated, IsCommand
    <3> HIDE DEF d
    <3> QED BY <1>1, <2>2, <3>1, RowsSet DEF d
  <2>3. CASE e # c
    <3>1. command'[e] = [command[e] EXCEPT !.alone = FALSE] \/ command'[e] = command[e]
      BY <2>3 DEF UpsertRow
    <3>2. CASE command'[e] = [command[e] EXCEPT !.alone = FALSE]
      <4>1. command'[e].source = command[e].source /\ command'[e].rows = command[e].rows
        BY <2>1, <3>2, AloneSet
      <4> QED BY <2>3, <4>1
    <3> QED BY <2>3, <3>1, <3>2
  <2> QED BY <2>2, <2>3
<1>6. \A code \in Codes : participants'[code].pix = participants[code].pix
                          \/ (d.source = "pix" /\ participants'[code].pix = record)
  <2>1. participants = [code \in Codes |-> participants[code]]
    BY <1>1 DEF TableTyped
  <2> HIDE DEF d, record
  <2>2. CASE d.source = "str"
    <3>1. UpsertSTR(record)
      BY <1>2, <2>2
    <3> QED BY <2>1, <3>1 DEF UpsertSTR
  <2>3. CASE d.source # "str"
    <3>1. UpsertPix(record) /\ d.source = "pix"
      BY <1>1, <1>2, <2>3 DEF Sources
    <3> QED BY <2>1, <3>1 DEF UpsertPix
  <2> QED BY <2>2, <2>3
<1> HIDE DEF d, record
<1>7. ActiveOnly'
  BY <1>4, <1>6 DEF ActiveInv, ActiveOnly, Active
<1>8. ASSUME NEW e \in Callers PROVE ToWrite(command[e])'
  <2>1. CASE e = c
    <3>1. SUFFICES ASSUME d.source = "pix", NEW i \in 1..(Len(d.rows) - 1)
                   PROVE  Active(Tail(d.rows)[i])
      BY <1>3, <1>5, <2>1 DEF ToWrite, Active, d
    <3>2. i + 1 \in 1..Len(d.rows) /\ Tail(d.rows)[i] = d.rows[i + 1]
      BY <1>3
    <3> QED BY <1>1, <3>1, <3>2 DEF ToWrite
  <2>2. CASE e # c
    <3>1. ToWrite(command[e])
      BY DEF ActiveInv
    <3> QED BY <1>5, <2>2, <3>1 DEF ToWrite, Active
  <2> QED BY <2>1, <2>2
<1> QED BY <1>7, <1>8 DEF ActiveInv

\* ActiveOnly: a pending institution is never stored as a participant, whatever days pass between
\* a fetch and its load and however much of a list was fetched.
THEOREM OnlyActiveStored == ISPBSpec => []ActiveOnly
<1>1. ISPBInit => ActiveInv
  <2> SUFFICES ASSUME ISPBInit PROVE ActiveInv
    OBVIOUS
  <2>1. NoRow.pix = NoRecord /\ Idle.source = "str"
    BY DEF NoRow, Idle
  <2> QED BY <2>1 DEF ISPBInit, ActiveInv, ActiveOnly, ToWrite
<1>2. FilesInv /\ LoadInv /\ ActiveInv /\ [ISPBNext]_ispbVars => ActiveInv'
  <2> SUFFICES ASSUME FilesInv, LoadInv, ActiveInv, [ISPBNext]_ispbVars PROVE ActiveInv'
    OBVIOUS
  <2>1. CASE UNCHANGED <<participants, command>>
    BY <2>1 DEF ActiveInv, ActiveOnly, ToWrite, Active
  <2>2. ASSUME NEW c \in Callers, NEW source \in Sources, Load(c, source) PROVE ActiveInv'
    BY <2>2, BeginActive DEF Load, FilesInv
  <2>3. ASSUME NEW c \in Callers, NEW source \in Sources, NEW both \in BOOLEAN, Sync(c, source, both)
        PROVE  ActiveInv'
    BY <2>3, BeginActive, Downloaded DEF Sync
  <2>4. ASSUME NEW c \in Callers, SyncPix(c) PROVE ActiveInv'
    <3>1. "pix" \in Sources
      BY DEF Sources
    <3> QED BY <2>4, <3>1, BeginActive, Downloaded DEF SyncPix
  <2>5. ASSUME NEW c \in Callers, UpsertRow(c) PROVE ActiveInv'
    BY <2>5, UpsertActive
  <2>6. ASSUME NEW c \in Callers, Fail(c) PROVE ActiveInv'
    <3>1. command' = [d \in Callers |-> IF d = c THEN [command[c] EXCEPT !.pc = "failed"] ELSE command[d]]
      BY <2>6 DEF Fail, LoadInv, CommandTyped
    <3>2. IsCommand(command[c])
      BY DEF LoadInv, CommandTyped
    <3>3. \A d \in Callers : command'[d].source = command[d].source /\ command'[d].rows = command[d].rows
      BY <3>1, <3>2, PhaseSet
    <3>4. UNCHANGED participants
      BY <2>6 DEF Fail
    <3> QED BY <3>3, <3>4 DEF ActiveInv, ActiveOnly, ToWrite, Active
  <2> QED BY <2>1, <2>2, <2>3, <2>4, <2>5, <2>6 DEF ISPBNext, NextDay, Fetch, ispbVars
<1>3. ActiveInv => ActiveOnly
  BY DEF ActiveInv
<1> QED BY <1>1, <1>2, <1>3, FilesInitially, FilesStep, LoadInitially, LoadStep, PTL DEF ISPBSpec

-----------------------------------------------------------------------------
(***************************************************************************)
(* The citation linker (Links).                                             *)
(***************************************************************************)
\* A finite set of positions that is not empty has a greatest one.
LEMMA MaxOf ==
  ASSUME NEW S, S \subseteq Nat, IsFiniteSet(S), S # {}
  PROVE  Max(S) \in S
<1> DEFINE Over(x) == {y \in S : y > x}
           sizes == {Cardinality(Over(x)) : x \in S}
<1>1. \A x \in S : IsFiniteSet(Over(x)) /\ Cardinality(Over(x)) \in Nat
  <2> SUFFICES ASSUME NEW x \in S PROVE IsFiniteSet(Over(x)) /\ Cardinality(Over(x)) \in Nat
    OBVIOUS
  <2>1. IsFiniteSet(Over(x))
    BY FS_Subset
  <2> QED BY <2>1, FS_CardinalityType
<1>2. PICK m \in S : \A x \in S : Cardinality(Over(m)) <= Cardinality(Over(x))
  <2>1. sizes \subseteq Nat /\ sizes # {}
    BY <1>1
  <2>2. \E n \in sizes : \A k \in sizes : n <= k
    BY <2>1, LeastExists
  <2> QED BY <2>2
<1>3. ASSUME NEW x \in S, x > m PROVE FALSE
  <2>1. Over(x) \subseteq Over(m) /\ x \in Over(m) /\ x \notin Over(x)
    <3>1. \A y \in S : y > x => y > m
      <4> SUFFICES ASSUME NEW y \in S, y > x PROVE y > m
        OBVIOUS
      <4>1. y \in Nat /\ x \in Nat /\ m \in Nat
        OBVIOUS
      <4> QED BY <1>3, <4>1
    <3>2. ~(x > x)
      <4>1. x \in Nat
        OBVIOUS
      <4> QED BY <4>1
    <3> QED BY <1>3, <3>1, <3>2
  <2>2. Cardinality(Over(x)) <= Cardinality(Over(m)) /\ Cardinality(Over(x)) # Cardinality(Over(m))
    BY <1>1, <2>1, FS_Subset
  <2> QED BY <1>1, <1>2, <2>2
<1>4. \A x \in S : m >= x
  BY <1>3
<1> HIDE DEF Over, sizes
<1> QED BY <1>4 DEF Max

\* The edges a command may hold, and its record.
Edges == [src : LinkIds, at : Nat, dst : LinkIds]
LinkerType == [pc : {"idle", "check", "insert", "done", "failed"}, scan : SUBSET LinkIds,
               todo : SUBSET Edges, alone : BOOLEAN]

\* First: of some edges one is by concept and mention the least.
LEMMA FirstIsOne ==
  ASSUME NEW edges \in SUBSET Edges, edges # {}
  PROVE  First(edges) \in edges
<1> DEFINE srcs == {e.src : e \in edges}
<1>0. srcs \subseteq Nat /\ srcs # {} /\ \A e \in edges : e.src \in srcs
  BY LinkAssumption DEF Edges
<1>1. PICK s \in srcs : \A t \in srcs : s <= t
  <2> HIDE DEF srcs
  <2> QED BY <1>0, LeastExists
<1> DEFINE ats == {e.at : e \in {f \in edges : f.src = s}}
<1>2. PICK a \in ats : \A b \in ats : a <= b
  <2>1. ats \subseteq Nat /\ ats # {}
    BY DEF Edges
  <2> HIDE DEF ats
  <2> QED BY <2>1, LeastExists
<1>3. PICK e \in edges : e.src = s /\ e.at = a
  BY <1>2
<1>4. ASSUME NEW f \in edges PROVE e.src < f.src \/ (e.src = f.src /\ e.at <= f.at)
  <2>1. s <= f.src /\ s \in Nat /\ f.src \in Nat
    <3> HIDE DEF srcs
    <3> QED BY <1>0, <1>1
  <2>2. f.src = s => a <= f.at
    BY <1>2
  <2> QED BY <1>3, <2>1, <2>2
<1> QED BY <1>4 DEF First

\* byNormRef: where some concept of the scan embodies an instrument, the target is one of them.
LEMMA TargetOwns ==
  ASSUME NEW scan \in SUBSET LinkIds, NEW base, Owners(scan, base) # {}
  PROVE  Target(scan, base) \in Owners(scan, base)
<1>1. Owners(scan, base) \subseteq LinkIds
  BY DEF Owners
<1>2. IsFiniteSet(Owners(scan, base)) /\ Owners(scan, base) \subseteq Nat
  BY <1>1, LinkAssumption, FS_Subset
<1> QED BY <1>2, MaxOf DEF Target

\* ResolveEdges: the edges of a scanned concept lead to scanned concepts.
LEMMA EdgesResolved ==
  ASSUME NEW scan \in SUBSET LinkIds, NEW src \in scan, body[src] \in Seq(Mentions)
  PROVE  ResolveEdges(scan, src) \in SUBSET Edges
<1> SUFFICES ASSUME NEW i \in ParseCitations(body[src]),
                    Target(scan, BaseRef(body[src][i])) \notin {NoConcept, src}
             PROVE  [src |-> src, at |-> i, dst |-> Target(scan, BaseRef(body[src][i]))] \in Edges
  BY DEF ResolveEdges
<1>1. i \in Nat
  BY DEF ParseCitations
<1>2. Target(scan, BaseRef(body[src][i])) \in LinkIds
  <2>1. Owners(scan, BaseRef(body[src][i])) # {}
    BY DEF Target
  <2> QED BY <2>1, TargetOwns DEF Owners
<1> QED BY <1>1, <1>2 DEF Edges
-----------------------------------------------------------------------------
\* A command that has more to write has not reported success.
Fits(d) == (d.pc = "insert" => d.todo # {}) /\ (d.pc = "done" => d.todo = {})

\* What a command found since the write path was last at work is in the table or still to be
\* written, and the bodies are those it scanned.
Covered(d) ==
  d.alone /\ d.pc \in {"check", "insert", "done"} =>
    \A src \in d.scan :
      /\ body[src] # NoText
      /\ \A e \in ResolveEdges(d.scan, src) : e \in d.todo \/ cites[Row(e)] = 1

LinkInv ==
  /\ body \in [LinkIds -> Texts \cup {NoText}]
  /\ cites \in [LinkIds \X LinkIds -> {0, 1}]
  /\ linker \in [Linkers -> LinkerType]
  /\ \A l \in Linkers : Fits(linker[l]) /\ Covered(linker[l])

LEMMA RowTyped == ASSUME NEW e \in Edges PROVE Row(e) \in LinkIds \X LinkIds
  BY DEF Row, Edges

\* A step of one command that takes no row away.
LEMMA OneMoves ==
  ASSUME LinkInv, UNCHANGED body, NEW l \in Linkers, NEW new \in LinkerType,
         linker' = [linker EXCEPT ![l] = new], Fits(new),
         cites' \in [LinkIds \X LinkIds -> {0, 1}],
         \A row \in LinkIds \X LinkIds : cites[row] = 1 => cites'[row] = 1,
         new.alone /\ new.pc \in {"check", "insert", "done"} =>
           \A src \in new.scan :
             /\ body[src] # NoText
             /\ \A e \in ResolveEdges(new.scan, src) : e \in new.todo \/ cites'[Row(e)] = 1
  PROVE  LinkInv'
<1>1. linker' \in [Linkers -> LinkerType] /\ \A k \in Linkers : linker'[k] = IF k = l THEN new ELSE linker[k]
  BY DEF LinkInv
<1>2. \A scan, src : ResolveEdges(scan, src)' = ResolveEdges(scan, src)
  BY DEF ResolveEdges
<1>3. ASSUME NEW k \in Linkers PROVE Covered(linker[k])'
  <2>1. CASE k = l
    BY <1>1, <1>2, <2>1 DEF Covered
  <2>2. CASE k # l
    <3>1. linker'[k] = linker[k] /\ Covered(linker[k]) /\ linker[k] \in LinkerType
      BY <1>1, <2>2 DEF LinkInv
    <3>2. ASSUME linker[k].alone, linker[k].pc \in {"check", "insert", "done"}, NEW src \in linker[k].scan,
                 NEW e \in ResolveEdges(linker[k].scan, src)
          PROVE  body[src] # NoText /\ (e \in linker[k].todo \/ cites'[Row(e)] = 1)
      <4>1. body[src] # NoText /\ (e \in linker[k].todo \/ cites[Row(e)] = 1)
        BY <3>1, <3>2 DEF Covered
      <4>2. linker[k].scan \in SUBSET LinkIds
        BY <3>1 DEF LinkerType
      <4>3. body[src] \in Seq(Mentions)
        BY <3>2, <4>1, <4>2, LinkAssumption DEF LinkInv
      <4>4. e \in Edges
        BY <3>2, <4>2, <4>3, EdgesResolved
      <4> QED BY <4>1, <4>4, RowTyped
    <3>3. ASSUME linker[k].alone, linker[k].pc \in {"check", "insert", "done"}, NEW src \in linker[k].scan
          PROVE  body[src] # NoText
      BY <3>1, <3>3 DEF Covered
    <3> QED BY <1>2, <3>1, <3>2, <3>3 DEF Covered
  <2> QED BY <2>1, <2>2
<1>4. ASSUME NEW k \in Linkers PROVE Fits(linker[k])'
  BY <1>1 DEF LinkInv, Fits
<1> QED BY <1>1, <1>3, <1>4 DEF LinkInv

\* Link: everything that was found is to be written.
LEMMA LinkKeeps == ASSUME LinkInv, NEW l \in Linkers, Link(l) PROVE LinkInv'
<1>1. PICK limit \in ScanLimits :
        linker' = [linker EXCEPT ![l] =
          [pc |-> "check", scan |-> Scan(limit), alone |-> storing = NoConcept,
           todo |-> UNION {ResolveEdges(Scan(limit), src) : src \in Scan(limit)}]]
  BY DEF Link
<1> DEFINE scan == Scan(limit)
           todo == UNION {ResolveEdges(scan, src) : src \in scan}
           new == [pc |-> "check", scan |-> scan, alone |-> storing = NoConcept, todo |-> todo]
<1>2. scan \in SUBSET LinkIds /\ \A src \in scan : body[src] # NoText
  BY DEF Scan
<1> HIDE DEF scan
<1>3. \A src \in scan : ResolveEdges(scan, src) \in SUBSET Edges
  <2> SUFFICES ASSUME NEW src \in scan PROVE ResolveEdges(scan, src) \in SUBSET Edges
    OBVIOUS
  <2>1. body[src] \in Seq(Mentions)
    BY <1>2, LinkAssumption DEF LinkInv
  <2> QED BY <1>2, <2>1, EdgesResolved
<1>4. todo \in SUBSET Edges /\ \A src \in scan : \A e \in ResolveEdges(scan, src) : e \in todo
  BY <1>3
<1>5. linker' = [linker EXCEPT ![l] = new]
  BY <1>1 DEF scan
<1> HIDE DEF todo
<1>6. new \in LinkerType /\ Fits(new) /\ new.scan = scan /\ new.todo = todo
  BY <1>2, <1>4 DEF LinkerType, Fits
<1> HIDE DEF new
<1>7. UNCHANGED <<body, cites>>
  BY DEF Link
<1>8. cites' \in [LinkIds \X LinkIds -> {0, 1}]
  BY <1>7 DEF LinkInv
<1> QED BY <1>2, <1>4, <1>5, <1>6, <1>7, <1>8, OneMoves

\* The command's record after an edge, and after a change of phase.
LEMMA AdvancedTyped ==
  ASSUME NEW d \in LinkerType
  PROVE  /\ Advanced(d) \in LinkerType /\ Advanced(d).pc = "check" /\ Advanced(d).scan = d.scan
         /\ Advanced(d).alone = d.alone /\ Advanced(d).todo = d.todo \ {First(d.todo)}
<1> DEFINE rest == d.todo \ {First(d.todo)}
<1>1. Advanced(d) = [pc |-> "check", scan |-> d.scan, todo |-> rest, alone |-> d.alone]
  <2>1. d = [pc |-> d.pc, scan |-> d.scan, todo |-> d.todo, alone |-> d.alone]
    BY DEF LinkerType
  <2> DEFINE checked == [d EXCEPT !.pc = "check"]
  <2>2. checked = [pc |-> "check", scan |-> d.scan, todo |-> d.todo, alone |-> d.alone]
    BY <2>1
  <2>3. Advanced(d) = [checked EXCEPT !.todo = rest]
    BY <2>2 DEF Advanced
  <2> HIDE DEF checked, rest
  <2> QED BY <2>2, <2>3
<1>2. rest \in SUBSET Edges
  BY DEF LinkerType
<1> HIDE DEF rest
<1>3. [pc |-> "check", scan |-> d.scan, todo |-> rest, alone |-> d.alone] \in LinkerType
  BY <1>2 DEF LinkerType
<1> QED BY <1>1, <1>3 DEF rest

LEMMA PhaseTyped ==
  ASSUME NEW d \in LinkerType, NEW p \in {"idle", "check", "insert", "done", "failed"}
  PROVE  LET e == [d EXCEPT !.pc = p]
         IN  e \in LinkerType /\ e.pc = p /\ e.scan = d.scan /\ e.todo = d.todo /\ e.alone = d.alone
  BY DEF LinkerType

\* A change of phase alone: the command goes on to insert, reports, or fails.
LEMMA PhaseKeeps ==
  ASSUME LinkInv, UNCHANGED <<body, cites>>, NEW l \in Linkers,
         linker[l].pc \in {"check", "insert"}, NEW p \in {"insert", "done", "failed"},
         p = "insert" => linker[l].todo # {}, p = "done" => linker[l].todo = {},
         linker' = [linker EXCEPT ![l] = [linker[l] EXCEPT !.pc = p]]
  PROVE  LinkInv'
<1> DEFINE new == [linker[l] EXCEPT !.pc = p]
<1>1. linker[l] \in LinkerType /\ Covered(linker[l])
  BY DEF LinkInv
<1>2. /\ new \in LinkerType /\ new.pc = p /\ new.scan = linker[l].scan
      /\ new.todo = linker[l].todo /\ new.alone = linker[l].alone
  <2>1. p \in {"idle", "check", "insert", "done", "failed"}
    OBVIOUS
  <2> QED BY ONLY <1>1, <2>1, PhaseTyped
<1> HIDE DEF new
<1>3. Fits(new)
  BY <1>2 DEF Fits
<1>4. new.alone => \A src \in new.scan :
        /\ body[src] # NoText
        /\ \A e \in ResolveEdges(new.scan, src) : e \in new.todo \/ cites'[Row(e)] = 1
  BY <1>1, <1>2 DEF Covered
<1>5. cites' \in [LinkIds \X LinkIds -> {0, 1}]
  BY DEF LinkInv
<1> QED BY <1>2, <1>3, <1>4, <1>5, OneMoves DEF new

\* The first edge is in the table: the command goes on to the next.
LEMMA AdvanceKeeps ==
  ASSUME LinkInv, UNCHANGED body, NEW l \in Linkers, linker[l].pc \in {"check", "insert"},
         cites' \in [LinkIds \X LinkIds -> {0, 1}], cites'[Row(First(linker[l].todo))] = 1,
         \A row \in LinkIds \X LinkIds : cites[row] = 1 => cites'[row] = 1,
         linker' = [linker EXCEPT ![l] = Advanced(linker[l])]
  PROVE  LinkInv'
<1> DEFINE new == Advanced(linker[l])
<1>1. linker[l] \in LinkerType /\ Covered(linker[l])
  BY DEF LinkInv
<1>2. /\ new \in LinkerType /\ new.pc = "check" /\ new.scan = linker[l].scan
      /\ new.alone = linker[l].alone /\ new.todo = linker[l].todo \ {First(linker[l].todo)}
  BY <1>1, AdvancedTyped
<1> HIDE DEF new
<1>3. Fits(new)
  BY <1>2 DEF Fits
<1>4. ASSUME new.alone, NEW src \in new.scan
      PROVE  /\ body[src] # NoText
             /\ \A e \in ResolveEdges(new.scan, src) : e \in new.todo \/ cites'[Row(e)] = 1
  <2>1. body[src] # NoText /\ \A e \in ResolveEdges(new.scan, src) : e \in linker[l].todo \/ cites[Row(e)] = 1
    BY <1>1, <1>2, <1>4 DEF Covered
  <2>2. ASSUME NEW e \in ResolveEdges(new.scan, src) PROVE e \in new.todo \/ cites'[Row(e)] = 1
    <3>1. CASE e = First(linker[l].todo)
      BY <3>1
    <3>2. CASE e \in linker[l].todo /\ e # First(linker[l].todo)
      BY <1>2, <3>2
    <3>3. CASE cites[Row(e)] = 1
      <4>1. new.scan \in SUBSET LinkIds
        BY <1>2 DEF LinkerType
      <4>2. body[src] \in Seq(Mentions)
        BY <1>4, <2>1, <4>1, LinkAssumption DEF LinkInv
      <4>3. e \in Edges
        BY <1>4, <4>1, <4>2, EdgesResolved
      <4> QED BY <3>3, <4>3, RowTyped
    <3> QED BY <2>1, <3>1, <3>2, <3>3
  <2> QED BY <2>1, <2>2
<1> QED BY <1>2, <1>3, <1>4, OneMoves DEF new

\* UpsertEdge: what WHERE NOT EXISTS sees is the one row, and an insert makes one.
LEMMA EdgeKeeps ==
  ASSUME LinkInv, NEW l \in Linkers, CheckEdge(l) \/ InsertEdge(l)
  PROVE  LinkInv'
<1> DEFINE todo == linker[l].todo
           row == Row(First(todo))
<1>1. linker[l] \in LinkerType /\ Fits(linker[l]) /\ UNCHANGED body
  BY DEF LinkInv, CheckEdge, InsertEdge
<1>2. todo # {} /\ linker[l].pc \in {"check", "insert"}
  BY <1>1 DEF CheckEdge, InsertEdge, Fits
<1>3. row \in LinkIds \X LinkIds
  <2>1. todo \in SUBSET Edges
    BY <1>1 DEF LinkerType
  <2> HIDE DEF todo
  <2>2. First(todo) \in Edges
    BY <1>2, <2>1, FirstIsOne
  <2> QED BY <2>2, RowTyped
<1>4. cites[row] > 0 <=> cites[row] = 1
  <2>1. cites[row] \in {0, 1}
    BY <1>3 DEF LinkInv
  <2> QED BY <2>1
<1>5. CASE CheckEdge(l)
  <2>1. UNCHANGED cites
    BY <1>5 DEF CheckEdge
  <2>2. CASE cites[row] > 0
    <3>1. linker' = [linker EXCEPT ![l] = Advanced(linker[l])]
      BY <1>5, <2>2 DEF CheckEdge
    <3>2. cites' \in [LinkIds \X LinkIds -> {0, 1}] /\ cites'[row] = 1
      BY <1>4, <2>1, <2>2 DEF LinkInv
    <3> QED BY <1>1, <1>2, <2>1, <3>1, <3>2, AdvanceKeeps
  <2>3. CASE ~(cites[row] > 0)
    <3>1. linker' = [linker EXCEPT ![l] = [linker[l] EXCEPT !.pc = "insert"]]
      BY <1>5, <2>3 DEF CheckEdge
    <3> QED BY <1>1, <1>2, <2>1, <3>1, PhaseKeeps
  <2> QED BY <2>2, <2>3
<1>6. CASE InsertEdge(l)
  <2>1. CASE cites[row] > 0
    <3>1. linker' = [linker EXCEPT ![l] = [linker[l] EXCEPT !.pc = "failed"]] /\ UNCHANGED cites
      BY <1>6, <2>1 DEF InsertEdge
    <3> QED BY <1>1, <1>2, <3>1, PhaseKeeps
  <2>2. CASE ~(cites[row] > 0)
    <3>1. cites' = [cites EXCEPT ![row] = 1] /\ linker' = [linker EXCEPT ![l] = Advanced(linker[l])]
      BY <1>6, <2>2 DEF InsertEdge
    <3> HIDE DEF row
    <3>2. /\ cites' \in [LinkIds \X LinkIds -> {0, 1}] /\ cites'[row] = 1
          /\ \A r \in LinkIds \X LinkIds : cites[r] = 1 => cites'[r] = 1
      BY <1>3, <3>1 DEF LinkInv
    <3> QED BY <1>1, <1>2, <3>1, <3>2, AdvanceKeeps DEF row
  <2> QED BY <2>1, <2>2
<1> QED BY <1>5, <1>6

\* The write path: whatever it does to bodies and rows, no command is alone after it.
LEMMA MetKeeps ==
  ASSUME LinkInv, Met, body' \in [LinkIds -> Texts \cup {NoText}],
         cites' = cites \/ \E srcs : Without(srcs)
  PROVE  LinkInv'
<1>1. cites' \in [LinkIds \X LinkIds -> {0, 1}]
  BY DEF LinkInv, Without
<1>2. ASSUME NEW l \in Linkers
      PROVE  linker'[l] \in LinkerType /\ Fits(linker'[l]) /\ ~linker'[l].alone
  <2>1. linker[l] \in LinkerType /\ Fits(linker[l])
    BY DEF LinkInv
  <2>2. linker'[l] = [linker[l] EXCEPT !.alone = FALSE]
    BY DEF Met
  <2> QED BY <2>1, <2>2 DEF LinkerType, Fits
<1>3. linker' \in [Linkers -> LinkerType]
  <2>1. linker' = [l \in Linkers |-> linker'[l]]
    BY DEF Met
  <2> QED BY <1>2, <2>1
<1>4. ASSUME NEW l \in Linkers PROVE Fits(linker[l])' /\ Covered(linker[l])'
  BY <1>2 DEF Covered, Fits
<1> QED BY <1>1, <1>3, <1>4 DEF LinkInv

LEMMA LinkStep == LinkInv /\ [LinksNext]_linksVars => LinkInv'
<1> SUFFICES ASSUME LinkInv, [LinksNext]_linksVars PROVE LinkInv'
  OBVIOUS
<1>1. ASSUME NEW l \in Linkers, Link(l) PROVE LinkInv'
  BY <1>1, LinkKeeps
<1>2. ASSUME NEW l \in Linkers, CheckEdge(l) \/ InsertEdge(l) PROVE LinkInv'
  BY <1>2, EdgeKeeps
<1>3. ASSUME NEW l \in Linkers, Linked(l) PROVE LinkInv'
  BY <1>3, PhaseKeeps DEF Linked
<1>4. ASSUME NEW l \in Linkers, LinkFails(l) PROVE LinkInv'
  BY <1>4, PhaseKeeps DEF LinkFails
<1>5. CASE StoreConcept
  <2>1. body' \in [LinkIds -> Texts \cup {NoText}]
    BY <1>5 DEF StoreConcept, LinkInv
  <2> QED BY <1>5, <2>1, MetKeeps DEF StoreConcept
<1>6. CASE ReplaceEdges \/ StoreFails
  <2>1. body' \in [LinkIds -> Texts \cup {NoText}]
    BY <1>6 DEF ReplaceEdges, StoreFails, LinkInv
  <2> QED BY <1>6, <2>1, MetKeeps DEF ReplaceEdges, StoreFails
<1>7. CASE Truncate
  <2>1. body' \in [LinkIds -> Texts \cup {NoText}]
    BY <1>7 DEF Truncate
  <2> QED BY <1>7, <2>1, MetKeeps DEF Truncate
<1>8. CASE UNCHANGED linksVars
  <2>1. \A scan, src : ResolveEdges(scan, src)' = ResolveEdges(scan, src)
    BY <1>8 DEF ResolveEdges, linksVars
  <2> QED BY <1>8, <2>1 DEF LinkInv, Covered, Fits, linksVars
<1> QED BY <1>1, <1>2, <1>3, <1>4, <1>5, <1>6, <1>7, <1>8 DEF LinksNext

\* LinkedOnce: a link command that succeeded undisturbed by the write path has left each citation
\* that can be resolved exactly one row, whatever other link commands did meanwhile.
THEOREM CitedOnce == LinksSpec => []LinkedOnce
<1>1. LinksInit => LinkInv
  <2> SUFFICES ASSUME LinksInit PROVE LinkInv
    OBVIOUS
  <2>1. IdleLinker \in LinkerType /\ Fits(IdleLinker) /\ ~IdleLinker.alone
    BY DEF IdleLinker, LinkerType, Fits
  <2> QED BY <2>1 DEF LinksInit, LinkInv, Covered
<1>2. LinkInv => LinkedOnce
  <2> SUFFICES ASSUME LinkInv, NEW l \in Linkers, linker[l].pc = "done", linker[l].alone,
                      NEW src \in linker[l].scan, NEW i \in DOMAIN body[src],
                      NEW owners,
                      owners = {c \in linker[l].scan :
                                  NormRef[c] # NoRef /\ NormRef[c].instrument = body[src][i].instrument},
                      owners # {}, src \notin owners
               PROVE  \E dst \in owners : cites[<<src, dst>>] = 1
    BY DEF LinkedOnce
  <2> DEFINE scan == linker[l].scan
             text == body[src]
             base == BaseRef(text[i])
             same == {j \in DOMAIN text : text[j] = text[i]}
  <2>1. /\ scan \in SUBSET LinkIds /\ linker[l].todo = {} /\ text # NoText
        /\ \A e \in ResolveEdges(scan, src) : cites[Row(e)] = 1
    BY DEF LinkInv, LinkerType, Fits, Covered
  <2>2. text \in Seq(Mentions)
    BY <2>1, LinkAssumption DEF LinkInv
  <2>3. PICK k \in same : \A j \in same : k <= j
    <3>1. same \subseteq Nat /\ i \in same
      BY <2>2
    <3> HIDE DEF same
    <3> QED BY <3>1, LeastExists
  <2>4. k \in ParseCitations(text) /\ text[k] = text[i]
    <3>1. ASSUME NEW j \in 1..(k - 1) PROVE text[j] # text[k]
      <4>1. k \in DOMAIN text /\ text[k] = text[i] /\ DOMAIN text = 1..Len(text) /\ Len(text) \in Nat
        BY <2>2
      <4>2. j \in DOMAIN text /\ ~(k <= j)
        BY <4>1
      <4> QED BY <2>3, <4>1, <4>2
    <3> QED BY <3>1 DEF ParseCitations
  <2>5. owners = Owners(scan, base)
    BY DEF Owners, BaseRef
  <2>6. Target(scan, base) \in owners
    BY <2>1, <2>5, TargetOwns
  <2>7. Target(scan, base) \notin {NoConcept, src}
    BY <2>1, <2>6, LinkAssumption
  <2> DEFINE edge == [src |-> src, at |-> k, dst |-> Target(scan, base)]
  <2>8. edge \in ResolveEdges(scan, src)
    BY <2>4, <2>7 DEF ResolveEdges
  <2>9. Row(edge) = <<src, Target(scan, base)>>
    BY DEF Row
  <2>10. cites[<<src, Target(scan, base)>>] = 1
    <3> HIDE DEF edge
    <3> QED BY <2>1, <2>8, <2>9
  <2> QED BY <2>6, <2>10
<1> QED BY <1>1, <1>2, LinkStep, PTL DEF LinksSpec
=============================================================================
