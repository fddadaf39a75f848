------------------------------- MODULE Search -------------------------------
(***************************************************************************)
(* The requests that fuse several reads of the store: hybrid search, multi-  *)
(* query search, which runs one hybrid search per subquery, several at once, *)
(* and similarity search, which reads one signal after the other.  Each read *)
(* is a query of its own: an ingest may change the concepts between two.     *)
(***************************************************************************)
EXTENDS Fusion

CONSTANTS
  Texts,       \* queries, see ExpandQuery
  Rankings,    \* per kind of request, the orders in which an arm may rank concepts
  InitialDocs, EdgeSets,  \* what the store can hold when a request comes
  Limits,      \* the limit of a request, 0 for none
  Fanout,      \* subqueries that run at a time
  MaxIngests, MaxFaults   \* bounds of the model

ASSUME SearchAssumption ==
  /\ \A kind \in {"hybrid", "multi", "similar"} :
       \A r \in Rankings[kind] : r \in Seq(Ids) /\ IsInjective(r)
  /\ \A q \in Texts : q.entries \in Seq(Range(q.entries))
  /\ InitialDocs \subseteq [Ids -> [type : Types, official : BOOLEAN, titled : 0..Tokens]]
  /\ \A set \in EdgeSets : set \subseteq Ids \X Ids
  /\ Limits \subseteq Int /\ Fanout \in Nat \ {0}

VARIABLES
  docs, edges,  \* the store: concept rows and links
  req,          \* the request
  jobs,         \* its searches, with what each has read
  answer,       \* None, Failed or the hits
  used          \* ingests and faults so far
vars == <<docs, edges, req, jobs, answer, used>>

None == [state |-> "none"]
Failed == [state |-> "error"]
NoRequest == [kind |-> "none"]

Init ==
  /\ docs \in InitialDocs /\ edges \in EdgeSets
  /\ req = NoRequest /\ jobs = <<>> /\ answer = None
  /\ used = [ingests |-> 0, faults |-> 0]

Spend(k, limit) == used[k] < limit /\ used' = [used EXCEPT ![k] = @ + 1]
-----------------------------------------------------------------------------
(* Requests.                                                               *)

\* What it read and made of it; `found` is history: what the vector search ranks, any limit aside.
Job(kind) == [kind |-> kind, state |-> "waiting", fts |-> <<>>, vector |-> <<>>, above |-> 0, found |-> {}, hits |-> <<>>]

Ask(r, kinds) ==
  /\ req = NoRequest
  /\ req' = r
  /\ jobs' = [j \in DOMAIN kinds |-> Job(kinds[j])]
  /\ UNCHANGED <<docs, edges, answer, used>>

Hybrid(limit) == Ask([kind |-> "hybrid", limit |-> limit, inner |-> limit], <<"hybrid">>)

MultiHybrid(q, limit) ==
  Ask([kind |-> "multi", limit |-> limit, inner |-> Max({limit, DefaultLimit})],
      [i \in DOMAIN ExpandQuery(q) |-> "hybrid"])

\* Without the links the request fuses two signals; the other modes are one signal each.
Similar(self, graph, limit) ==
  Ask([kind |-> "similar", limit |-> limit, inner |-> withHeadroom(limit), self |-> self],
      IF graph THEN <<"semantic", "hybrid", "graph">> ELSE <<"semantic", "hybrid">>)

Request ==
  \E limit \in Limits :
    \/ Hybrid(limit)
    \/ \E q \in Texts : MultiHybrid(q, limit)
    \/ \E self \in Ids, graph \in BOOLEAN : Similar(self, graph, limit)
-----------------------------------------------------------------------------
(* Searches.                                                               *)

In(states) == {j \in DOMAIN jobs : jobs[j].state \in states}
Running == In({"fts", "vector", "graph"})
AtOnce == IF req.kind = "multi" THEN Fanout ELSE 1
\* The group goes on launching after a failure, into a cancelled context; a
\* sequence of signals returns.
Launchable == IF In({"failed"}) # {} /\ req.kind # "multi" THEN {} ELSE In({"waiting"})

firstRead == [kind \in {"hybrid", "semantic", "graph"} |->
                CASE kind = "hybrid" -> "fts" [] kind = "semantic" -> "vector" [] OTHER -> "graph"]

Step(j, job) == jobs' = [jobs EXCEPT ![j] = job] /\ UNCHANGED <<docs, edges, req, answer>>

Launch ==
  /\ Launchable # {} /\ Cardinality(Running) < AtOnce
  /\ LET j == Min(Launchable) IN Step(j, [jobs[j] EXCEPT !.state = firstRead[jobs[j].kind]])
  /\ UNCHANGED used

Read(order, limit) == Cap([i \in DOMAIN order |-> Hit(order[i], docs[order[i]])], limit)

FTS(j) ==
  /\ j \in In({"fts"})
  /\ \E order \in Rankings[req.kind] :
       Step(j, [jobs[j] EXCEPT !.state = "vector", !.fts = Read(order, req.inner)])
  /\ UNCHANGED used

\* The second read of a hybrid search completes it.  A vector search on the concept's own
\* embedding finds the concept first.
Vector(j) ==
  /\ j \in In({"vector"})
  /\ \E order \in Rankings[req.kind] :
       LET hits == Read(order, req.inner)
       IN \E above \in 0..Len(hits) :
            LET read == [jobs[j] EXCEPT !.state = "done", !.vector = hits, !.above = above, !.found = ToSet(order)]
            IN IF jobs[j].kind = "hybrid"
               THEN Step(j, [read EXCEPT !.hits = hybridCore(jobs[j].fts, hits, above, req.inner)])
               ELSE /\ above = Len(hits)
                    /\ req.self \in ToSet(order) => order[1] = req.self
                    /\ Step(j, [read EXCEPT !.hits = SemanticSimilar(hits, req.self, req.limit)])
  /\ UNCHANGED used

Graph(j) ==
  /\ j \in In({"graph"})
  /\ Step(j, [jobs[j] EXCEPT !.state = "done",
                             !.hits = GraphSimilar(Related(docs, edges, req.self), req.self, req.limit)])
  /\ UNCHANGED used

\* A read fails, or finds its context cancelled because another failed.
Fail(j) ==
  /\ j \in Running
  /\ Spend("faults", MaxFaults) \/ (In({"failed"}) # {} /\ UNCHANGED used)
  /\ Step(j, [jobs[j] EXCEPT !.state = "failed"])

\* The signals of a similarity request: the hybrid hits as MoreLikeThis takes them.
Signals == [j \in DOMAIN jobs |-> IF jobs[j].kind = "hybrid" THEN MoreLikeThis(jobs[j].hits, req.self, req.limit)
                                  ELSE jobs[j].hits]

\* Mutant: a subquery's hits are appended when it completes.  Here: the last one first.
CollectCompletion == MultiFuse(Reverse([j \in DOMAIN jobs |-> jobs[j].hits]), req.limit)
\* The group's slots, in the order of the subqueries.
Collect == MultiFuse([j \in DOMAIN jobs |-> jobs[j].hits], req.limit)

Hits == CASE req.kind = "hybrid" -> jobs[1].hits
          [] req.kind = "multi" -> Collect
          [] OTHER -> hybridSimilar(Signals, docs[req.self].type, req.limit)

Answer ==
  /\ req # NoRequest /\ answer = None
  /\ Running = {} /\ Launchable = {}
  /\ answer' = IF In({"failed"}) # {} THEN Failed ELSE [state |-> "hits", hits |-> Hits]
  /\ UNCHANGED <<docs, edges, req, jobs, used>>

\* An ingest or a removal of links commits between two reads.
Ingest ==
  /\ req # NoRequest /\ answer = None
  /\ Spend("ingests", MaxIngests)
  /\ docs' \in InitialDocs /\ edges' \in EdgeSets
  /\ UNCHANGED <<req, jobs, answer>>

Finished == answer # None /\ UNCHANGED vars

Next == Request \/ Launch \/ Answer \/ Ingest \/ Finished
          \/ \E j \in DOMAIN jobs : FTS(j) \/ Vector(j) \/ Graph(j) \/ Fail(j)
Spec == Init /\ [][Next]_vars
-----------------------------------------------------------------------------
(* Properties.                                                             *)

\* Position of an id in a list of hits, and whether a is ahead of b wherever b is.
Ahead(a, b, list) == At(list, b) # 0 => At(list, a) # 0 /\ At(list, a) < At(list, b)
Got(kind) == answer.state = "hits" /\ req.kind = kind

\* Rank fusion, weights and floor agree with the two arms they combine: a hit is never
\* below one that it beats in each arm and in each boost, nor, "so authoritative BACEN
\* sources win ties", below one with the same ranks and fewer boosts, and never left out
\* for it; its label names the arms that found it above the similarity floor.
Kept(job) == <<job.fts, SubSeq(job.vector, 1, job.above)>>
Sightings(lists, id) == {lists[p[1]][p[2]] : p \in PlacesOf(lists, id)}
NoLess(a, b) == /\ typeWeight(a.type) >= typeWeight(b.type) /\ a.titled >= b.titled
                /\ (b.official => a.official)
RanksOf(lists, id) == {<<l, At(lists[l], id)>> : l \in {m \in DOMAIN lists : At(lists[m], id) # 0}}
\* Each found by one list, or by two with different ranks: the same ranks, elsewhere.  The
\* program adds floating-point shares in the order of the lists: the sum of two does not
\* depend on it, that of three may in its last bit.
Exchanged(a, b, lists) ==
  LET ranks(id) == {r[2] : r \in RanksOf(lists, id)}
  IN /\ ranks(a) = ranks(b) /\ Cardinality(ranks(a)) <= 2
     /\ \A id \in {a, b} : Cardinality(RanksOf(lists, id)) = Cardinality(ranks(id))
Every(R(_, _), lists, a, b) == \A x \in Sightings(lists, a), y \in Sightings(lists, b) : R(x, y)
\* A boost that a has in all that was read of it and b in nothing.
Boosted(lists, a, b) ==
  \/ Every(LAMBDA x, y : typeWeight(x.type) > typeWeight(y.type), lists, a, b)
  \/ Every(LAMBDA x, y : x.titled > y.titled, lists, a, b)
  \/ Every(LAMBDA x, y : x.official /\ ~y.official, lists, a, b)

HybridRespectsArms ==
  \A j \in DOMAIN jobs : jobs[j].kind = "hybrid" /\ jobs[j].state = "done" =>
    LET arms == Kept(jobs[j])  hits == jobs[j].hits
    IN /\ \A a \in Found(arms), b \in IdsOf(hits) :
            /\ a # b /\ Every(NoLess, arms, a, b)
            /\ \/ \A l \in DOMAIN arms : Ahead(a, b, arms[l])
               \/ Exchanged(a, b, arms) /\ Boosted(arms, a, b)
            => Ahead(a, b, hits)
       /\ \A i \in DOMAIN hits :
            hits[i].arm = armLabel(hits[i].id \in IdsOf(arms[1]), hits[i].id \in IdsOf(arms[2]))

\* "byte-identical output to the former serial loop": whatever order the subqueries
\* finish in, a hit that none of them ranks lower comes first, of two with exchanged
\* ranks the one the earlier subquery prefers, and the trail names them in their order.
MultiRespectsSubqueries ==
  Got("multi") =>
    LET lists == [j \in DOMAIN jobs |-> jobs[j].hits]
        hits == answer.hits
    IN /\ \A a \in Found(lists), b \in IdsOf(hits) :
            /\ a # b
            /\ \/ \A l \in DOMAIN lists : Ahead(a, b, lists[l])
               \/ Exchanged(a, b, lists) /\ Earlier(firstSeen(lists, a), firstSeen(lists, b))
            => Ahead(a, b, hits)
       /\ \A i \in DOMAIN hits :
            /\ {<<t.query, t.rank>> : t \in ToSet(hits[i].subqueries)} = RanksOf(lists, hits[i].id)
            /\ IsSorted(hits[i].subqueries, LAMBDA s, t : s.query <= t.query)

\* "keeps the final count at the caller's requested Limit": a similarity request never
\* returns the concept it is about, and has as many hits as the limit if the vector
\* search alone found so many other concepts.
SimilarKeepsLimit ==
  Got("similar") =>
    /\ req.self \notin IdsOf(answer.hits)
    /\ Len(answer.hits) >= Min({EffectiveLimit(req.limit), Cardinality(jobs[1].found \ {req.self})})
=============================================================================
