------------------------------- MODULE Fusion -------------------------------
(***************************************************************************)
(* Ranked retrieval: an arm returns a ranked list of hits, and reciprocal    *)
(* rank fusion adds, for every list that holds a concept, 1/(k + rank).      *)
(* The program does it three times: over the two arms of one hybrid search,  *)
(* over the subqueries of an expanded query, and over the signals of a       *)
(* similarity request.  Scores are counted in units of 1/Scale, so that ties *)
(* are exact.                                                                *)
(***************************************************************************)
EXTENDS Integers, FiniteSets, Sequences, SequencesExt, FiniteSetsExt, Functions

CONSTANTS
  Ids,     \* concept ids, numbers in their order
  Tokens,  \* distinct tokens of the query: a title covers 0..Tokens of them
  MaxSubqueries,
  DefaultLimit,
  Scale    \* a common multiple of all k + rank there are

rrfK == 60
multiRRFK == 5
fusionRRFK == 60

\* The longest list names every other concept twice.
MaxLength == 2 * Cardinality(Ids) - 2

ASSUME FusionAssumption ==
  /\ Ids \subseteq Nat \ {0} /\ IsFiniteSet(Ids) /\ Cardinality(Ids) > 1
  /\ Tokens \in Nat \ {0} /\ MaxSubqueries \in Nat \ {0} /\ DefaultLimit \in Nat \ {0}
  /\ Scale \in Nat \ {0}
  /\ \A k \in {rrfK, multiRRFK, fusionRRFK} : \A rank \in 0..MaxLength :
       Scale \div (k + rank) \in Nat /\ (Scale \div (k + rank)) * (k + rank) = Scale

\* A hit of an arm is what it read of the concept; what follows adds its findings.
Types == {"ApiEndpoint", "Reference", "WebPage"}
Hit(id, doc) == [id |-> id, type |-> doc.type, official |-> doc.official, titled |-> doc.titled]

EffectiveLimit(n) == IF n <= 0 THEN DefaultLimit ELSE n
Cap(list, n) == SubSeq(list, 1, Min({EffectiveLimit(n), Len(list)}))
IdsOf(list) == {list[i].id : i \in DOMAIN list}
At(list, id) == LET at == {i \in DOMAIN list : list[i].id = id} IN IF at = {} THEN 0 ELSE Min(at)

\* A finite set in an order of its elements, given as the pairs of it.
Sorted(S, before) ==
  [n \in 1..Cardinality(S) |-> CHOOSE a \in S : Cardinality({b \in S : <<b, a>> \in before}) = n - 1]
Ascending(S) == Sorted(S, {p \in S \X S : p[1] < p[2]})
-----------------------------------------------------------------------------
(* Reciprocal rank fusion.                                                 *)

Share(k, rank) == Scale \div (k + rank)

\* An arm that returns an id twice counts it twice.
Places(lists) == UNION {{l} \X DOMAIN lists[l] : l \in DOMAIN lists}
PlacesOf(lists, id) == {p \in Places(lists) : lists[p[1]][p[2]].id = id}
Found(lists) == UNION {IdsOf(lists[l]) : l \in DOMAIN lists}

scores(lists, k, base, id) == SumFunction([p \in PlacesOf(lists, id) |-> Share(k, p[2] + base - 1)])

Earlier(p, q) == p[1] < q[1] \/ (p[1] = q[1] /\ p[2] < q[2])
firstSeen(lists, id) == CHOOSE p \in PlacesOf(lists, id) : \A q \in PlacesOf(lists, id) \ {p} : Earlier(p, q)

\* score desc, then the id seen first: no two ids are left to the last tie-break.
RRF(lists, k, base, weight) ==
  LET ids == Found(lists)
      score == [id \in ids |-> scores(lists, k, base, id) * weight[id]]
      first == [id \in ids |-> firstSeen(lists, id)]
  IN Sorted(ids, {p \in ids \X ids : \/ score[p[1]] > score[p[2]]
                                     \/ score[p[1]] = score[p[2]] /\ Earlier(first[p[1]], first[p[2]])})
-----------------------------------------------------------------------------
(* Hybrid search: k = 60, ranks from 0, each score times three boosts.       *)

typeWeight(type) == IF type = "ApiEndpoint" THEN 23 ELSE 20       \* twentieths: 1.15
officialBoost(official) == IF official THEN 23 ELSE 20            \* twentieths
titleBoost(titled) == 2 * Tokens + titled                          \* over 2 * Tokens: 1 + 0.5 * titled / Tokens

\* The title comes from the first arm that has the concept, its type from the last,
\* and one arm is enough to make it official: the arms are two reads.
boost(fts, vec, id) ==
  LET f == At(fts, id)  v == At(vec, id)
      title == IF f # 0 THEN fts[f].titled ELSE vec[v].titled
      type == IF v # 0 THEN vec[v].type ELSE fts[f].type
      official == (f # 0 /\ fts[f].official) \/ (v # 0 /\ vec[v].official)
  IN [type |-> type, official |-> official, titled |-> title,
      weight |-> typeWeight(type) * titleBoost(title) * officialBoost(official)]

armLabel(inFTS, inVec) == IF inFTS /\ inVec THEN "both" ELSE IF inFTS THEN "fts" ELSE "vector"

Fused(fts, vec, ids) ==
  [i \in DOMAIN ids |->
     LET b == boost(fts, vec, ids[i])
     IN [id |-> ids[i], type |-> b.type, official |-> b.official, titled |-> b.titled,
         arm |-> armLabel(At(fts, ids[i]) # 0, At(vec, ids[i]) # 0)]]

Weights(fts, vec) == [id \in Found(<<fts, vec>>) |-> boost(fts, vec, id).weight]

\* Mutant: the page is cut before the boosts reorder it.
hybridCoreCutFirst(fts, vector, above, limit) ==
  LET vec == SubSeq(vector, 1, above)
      plain == Cap(RRF(<<fts, vec>>, rrfK, 0, [id \in Ids |-> 1]), limit)
      w == Weights(fts, vec)
  IN Fused(fts, vec, SortSeq(plain, LAMBDA a, b : w[a] > w[b]))

\* The vector arm comes in the order of its similarity: those below vecScoreFloor,
\* all after the first `above`, are dropped before the fusion.
hybridCore(fts, vector, above, limit) ==
  LET vec == SubSeq(vector, 1, above)
  IN Fused(fts, vec, Cap(RRF(<<fts, vec>>, rrfK, 0, Weights(fts, vec)), limit))
-----------------------------------------------------------------------------
(* Multi-query search: k = 5, ranks from 1.                                  *)

\* The query, its rewrite and the subqueries of the vocabulary entries it matches,
\* each once, and no more than MaxSubqueries.  A query is its text, the text of its
\* folded tokens ("" if none is left) and the vocabulary as it applies.
ExpandQuery(q) ==
  LET all == <<q.text, q.rewrite>> \o
               [i \in DOMAIN q.entries |-> IF q.entries[i].enabled /\ q.entries[i].matched THEN q.entries[i].subquery ELSE ""]
      kept == Ascending({i \in DOMAIN all : i = 1 \/ (all[i] # "" /\ \A j \in 1..(i - 1) : all[j] # all[i])})
  IN [n \in 1..Min({MaxSubqueries, Len(kept)}) |-> all[kept[n]]]

\* Where each subquery found it, in the order of the subqueries.
provenance(results, id) ==
  LET by == Ascending({i \in DOMAIN results : At(results[i], id) # 0})
  IN [n \in DOMAIN by |-> LET rank == At(results[by[n]], id)
                          IN [query |-> by[n], arm |-> results[by[n]][rank].arm, rank |-> rank]]

MultiFuse(results, limit) ==
  LET ids == Cap(RRF(results, multiRRFK, 1, [id \in Ids |-> 1]), limit)
  IN [i \in DOMAIN ids |-> [id |-> ids[i], subqueries |-> provenance(results, ids[i])]]
-----------------------------------------------------------------------------
(* Similarity: k = 60, ranks from 1 after the concept itself is taken out.   *)

\* Mutant: no slot for the concept itself.
withHeadroomNone(limit) == EffectiveLimit(limit)
withHeadroom(limit) == EffectiveLimit(limit) + 1

whyFromArm == [arm \in {"both", "vector", "fts"} |->
                 CASE arm = "both" -> {"semantic", "lexical"} [] arm = "vector" -> {"semantic"} [] OTHER -> {"lexical"}]
Because(hit, why) == [id |-> hit.id, type |-> hit.type, why |-> why]
Others(list, self) ==
  LET kept == Ascending({i \in DOMAIN list : list[i].id # self}) IN [n \in DOMAIN kept |-> list[kept[n]]]

SemanticSimilar(vector, self, limit) ==
  LET page == Cap(Others(Cap(vector, withHeadroom(limit)), self), limit)
  IN [i \in DOMAIN page |-> Because(page[i], {"semantic"})]
MoreLikeThis(hits, self, limit) ==
  LET page == Cap(Others(hits, self), limit)
  IN [i \in DOMAIN page |-> Because(page[i], whyFromArm[page[i].arm])]

\* Related: the concepts that link here, then those linked to, each by id.
Related(docs, edges, self) ==
  LET hits(ids) == LET s == Ascending(ids) IN [i \in DOMAIN s |-> Hit(s[i], docs[s[i]])]
  IN hits({e[1] : e \in {x \in edges : x[2] = self}}) \o hits({e[2] : e \in {x \in edges : x[1] = self}})
GraphSimilar(related, self, limit) ==
  LET page == Cap(Others(related, self), limit)
  IN [i \in DOMAIN page |-> Because(page[i], {"graph"})]

domainAdjacency == [type \in Types |-> CASE type = "ApiEndpoint" -> {"Reference"}
                                         [] type = "Reference" -> {"ApiEndpoint"} [] OTHER -> {}]
tagDomain(hits, type) ==
  [i \in DOMAIN hits |-> IF hits[i].type \in domainAdjacency[type] THEN [hits[i] EXCEPT !.why = @ \cup {"domain"}] ELSE hits[i]]

fuse(lists) ==
  LET ids == RRF(lists, fusionRRFK, 1, [id \in Ids |-> 1])
      first(id) == LET p == firstSeen(lists, id) IN lists[p[1]][p[2]]
  IN [i \in DOMAIN ids |-> [id |-> ids[i], type |-> first(ids[i]).type,
                            why |-> UNION {lists[p[1]][p[2]].why : p \in PlacesOf(lists, ids[i])}]]

hybridSimilar(lists, type, limit) == Cap(tagDomain(fuse(lists), type), limit)
=============================================================================
