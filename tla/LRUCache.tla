------------------------------ MODULE LRUCache ------------------------------
(***************************************************************************)
(* The answer cache of internal/rag/cache.go: a doubly linked list in      *)
(* order of use and a map from keys to its elements.  One mutex makes each *)
(* operation a single step.                                                *)
(***************************************************************************)
EXTENDS Naturals, Sequences

CONSTANTS Keys, Answers, Capacity

\* NewLRUCache replaces a capacity that is not positive by 128.
ASSUME CapacityAssumption == Capacity \in Nat \ {0}

VARIABLES
  ll,     \* keys, the most recently used first
  items   \* key -> answer, for the keys in the list

Cached(k) == k \in DOMAIN items

Position(k) == CHOOSE i \in DOMAIN ll : ll[i] = k

\* list.MoveToFront of the element at position i.
MovedToFront(i) ==
  [j \in DOMAIN ll |-> IF j = 1 THEN ll[i] ELSE IF j <= i THEN ll[j - 1] ELSE ll[j]]

Kept(K, k, a) == [j \in K \cup {k} |-> IF j = k THEN a ELSE items[j]]

Init == ll = <<>> /\ items = <<>>

GetPeek(k) ==   \* mutant: a hit does not promote its key
  UNCHANGED <<ll, items>>

Get(k) ==
  /\ ll' = IF Cached(k) THEN MovedToFront(Position(k)) ELSE ll
  /\ UNCHANGED items

UpdateFirstWins(k, a) ==   \* mutant: a put of a cached key only promotes it
  /\ Cached(k)
  /\ ll' = MovedToFront(Position(k))
  /\ UNCHANGED items

Update(k, a) ==
  /\ Cached(k)
  /\ ll' = MovedToFront(Position(k))
  /\ items' = Kept(DOMAIN items, k, a)

InsertOverfull(k, a) ==   \* mutant: one element too many before the list shrinks
  /\ ~Cached(k) /\ Len(ll) <= Capacity
  /\ ll' = <<k>> \o ll
  /\ items' = Kept(DOMAIN items, k, a)

Insert(k, a) ==
  /\ ~Cached(k) /\ Len(ll) < Capacity
  /\ ll' = <<k>> \o ll
  /\ items' = Kept(DOMAIN items, k, a)

EvictFromList(k, a) ==   \* mutant: the evicted key stays in the map
  /\ ~Cached(k) /\ Len(ll) >= Capacity
  /\ ll' = <<k>> \o SubSeq(ll, 1, Len(ll) - 1)
  /\ items' = Kept(DOMAIN items, k, a)

\* The list is over capacity with the new key: its last element goes.
Evict(k, a) ==
  /\ ~Cached(k) /\ Len(ll) >= Capacity
  /\ ll' = <<k>> \o SubSeq(ll, 1, Len(ll) - 1)
  /\ items' = Kept(DOMAIN items \ {ll[Len(ll)]}, k, a)

Put(k, a) == Update(k, a) \/ Insert(k, a) \/ Evict(k, a)

\* What a cache does for whoever shares it: LRURecency and Ask each do no more.
CacheNext == \E k \in Keys : Get(k) \/ \E a \in Answers : Put(k, a)

CacheSpec == Init /\ [][CacheNext]_<<ll, items>>

\* List and map hold the same keys, each once: a hit finds its element, and the
\* entry an eviction deletes is the one whose element it removed (cache.go:108-112).
Agree ==
  /\ DOMAIN items = {ll[i] : i \in DOMAIN ll}
  /\ \A i, j \in DOMAIN ll : ll[i] = ll[j] => i = j

=============================================================================
