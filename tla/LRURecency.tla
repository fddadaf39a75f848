----------------------------- MODULE LRURecency -----------------------------
(***************************************************************************)
(* LRUCache with the memory a reference definition needs: when each key    *)
(* was last used, and what was last put under it.  What a least recently   *)
(* used cache may forget is stated in these terms alone.                   *)
(***************************************************************************)
EXTENDS LRUCache

CONSTANT MaxUses   \* bound: uses in a behaviour

VARIABLES
  now,    \* uses so far
  used,   \* key -> the number of its last use, 0 if it was never put
  last    \* key -> the answer last put, for keys that were put

history == <<now, used, last>>

Used(k) == now' = now + 1 /\ used' = [used EXCEPT ![k] = now + 1]

RInit == Init /\ now = 0 /\ used = [k \in Keys |-> 0] /\ last = <<>>

Hit(k) == now < MaxUses /\ Cached(k) /\ Get(k) /\ Used(k) /\ UNCHANGED last

Miss(k) == ~Cached(k) /\ Get(k) /\ UNCHANGED history

Store(k, a) ==
  /\ now < MaxUses /\ Put(k, a) /\ Used(k)
  /\ last' = [j \in DOMAIN last \cup {k} |-> IF j = k THEN a ELSE last[j]]

RNext == \E k \in Keys : Hit(k) \/ Miss(k) \/ \E a \in Answers : Store(k, a)

RSpec == RInit /\ [][RNext]_<<ll, items, history>>

\* The cache holds keys and answers, and no more than fit (cache.go:108).
RTypeOK ==
  /\ ll \in Seq(Keys) /\ Len(ll) <= Capacity /\ DOMAIN items \subseteq Keys
  /\ \A k \in DOMAIN items : items[k] \in Answers
  /\ now \in Nat /\ used \in [Keys -> Nat]

\* The list is in the order of use, hits and updates included, so that its back is
\* the key an eviction may drop (cache.go:92, :103, :109).
InOrder ==
  /\ \A i, j \in DOMAIN ll : i < j => used[ll[i]] > used[ll[j]]
  /\ \A k \in Keys : used[k] <= now
  /\ \A k \in DOMAIN items : used[k] > 0

\* A key that was put and is gone was pushed out by Capacity keys used after it,
\* which are all still there (cache.go:108, Put).
ForgetsOldest ==
  \A k \in Keys : used[k] > 0 /\ ~Cached(k) =>
    /\ Len(ll) = Capacity
    /\ \A j \in DOMAIN items : used[k] < used[j]

\* What a hit returns is what was last put under the key, an update of a cached
\* key included, and never an answer of an evicted one (cache.go:85, Get).
HitsLastPut == \A k \in DOMAIN items : k \in DOMAIN last /\ items[k] = last[k]

=============================================================================
