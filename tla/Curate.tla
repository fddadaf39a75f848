------------------------------- MODULE Curate -------------------------------
(***************************************************************************)
(* `pixkb curate`: a pass reads the bundle once, scans it, hands each flagged*)
(* concept to one repair agent, gates what the agent proposes with the same  *)
(* scan against what was read, and at the end writes what passed.  With      *)
(* --enrich the agent only supplies recall terms, which are merged onto the  *)
(* concept that was read.  A pass takes minutes, and holds no lock: others   *)
(* ingest meanwhile.                                                         *)
(***************************************************************************)
EXTENDS Hygiene, FiniteSetsExt

CONSTANTS
  Titles, Hashes,
  Corpora,     \* what an ingest can bring: sets of functions from ids to Concepts
  Replies,     \* what an agent may put into a concept: members of Concepts
  GoodTerms, DeviatingTerms,  \* recall terms
  Limits, IdSets,  \* the --limit and --ids of a pass ({} restricts nothing)
  MaxPasses, MaxIngests, MaxFaults  \* bounds of the model

Ids == UNION {DOMAIN c : c \in Corpora}
Terms == {NoTerms} \cup GoodTerms \cup DeviatingTerms

Concepts == [flaws : SUBSET Flaws, title : Titles, hash : {NoHash} \cup Hashes,
             links : SUBSET Nat, terms : Terms]

ASSUME CurateAssumption ==
  /\ Ids \subseteq Nat
  /\ \A c \in Corpora : c \in [DOMAIN c -> Concepts]
  /\ Replies \subseteq Concepts
  /\ NoTerms \notin GoodTerms \cup DeviatingTerms

VARIABLES
  bundle,    \* the concept files
  pc,        \* "idle", "agent", "write" or "reindex"
  pass,      \* the pass in hand: enrich, apply, ids, what was read, routes to go
  accepted,  \* concepts that passed the gate, by id
  items,     \* the verdicts of the pass, by id
  used,      \* passes, ingests and faults so far
  written,   \* history: ids whose file is what a pass wrote
  good       \* history: ids for which the agent did all it was asked to do
vars == <<bundle, pc, pass, accepted, items, used, written, good>>

NoPass == [enrich |-> FALSE, apply |-> FALSE, ids |-> {}, set |-> <<>>, todo |-> {}]

Init ==
  /\ bundle \in Corpora
  /\ pc = "idle" /\ pass = NoPass
  /\ accepted = <<>> /\ items = <<>>
  /\ used = [passes |-> 0, ingests |-> 0, faults |-> 0]
  /\ written = {} /\ good = {}

Spend(k, limit) == used[k] < limit /\ used' = [used EXCEPT ![k] = @ + 1]
-----------------------------------------------------------------------------
(* Routing.                                                                *)

\* The checks that have a repair agent.  Which agent it is (the charter enforcer, else the
\* mechanical fixer, else research) only decides what it is asked; one per pass and concept.
agentFor == {"deviation", "junk-title", "broken-link", "duplicate", "sample-data", "stub-body"}
Of(findings, id) == {f \in findings : f.concept = id}
Fixable(findings) == {f \in findings : f.fixable /\ f.check \in agentFor}

Flagged(set) == {f.concept : f \in Scan(set)}
skipped(set) == {id \in Flagged(set) : Fixable(Of(Scan(set), id)) = {}}
enrichCandidates(set, reenrich) ==
  IF reenrich THEN DOMAIN set ELSE {f.concept : f \in MissingIntentTerms(set)}

\* Mutant: --ids is not passed on to the pass.
filterByIDsAll(ids, only) == ids
filterByIDs(ids, only) == IF only = {} THEN ids ELSE ids \cap only
\* The first ids in their order, as many as the limit; 0 is none.
Capped(ids, limit) == {id \in ids : limit > 0 => Cardinality({j \in ids : j < id}) < limit}
Routed(candidates, only, limit) == Capped(filterByIDs(candidates, only), limit)

\* Run and Enrich: okf.ReadBundle, then the scan and the routes.
Begin(enrich, candidates, only, limit, apply) ==
  /\ pass' = [enrich |-> enrich, apply |-> apply, ids |-> only, set |-> bundle,
              todo |-> Routed(candidates, only, limit)]
  /\ pc' = "agent"
  /\ accepted' = <<>>
  /\ items' = IF enrich THEN <<>> ELSE [id \in skipped(bundle) |-> "skipped"]
  /\ good' = {}
  /\ UNCHANGED <<bundle, written>>

Start ==
  /\ pc = "idle" /\ Spend("passes", MaxPasses)
  /\ \E only \in IdSets, limit \in Limits, apply \in BOOLEAN :
       \/ Begin(FALSE, Flagged(bundle) \ skipped(bundle), only, limit, apply)
       \/ \E reenrich \in BOOLEAN : Begin(TRUE, enrichCandidates(bundle, reenrich), only, limit, apply)
-----------------------------------------------------------------------------
(* Gate.                                                                   *)

Put(set, id, c) == [i \in DOMAIN set \cup {id} |-> IF i = id THEN c ELSE set[i]]

\* Mutant: errors of other concepts count.
gateAll(set, id, c) == {f \in Scan(Put(set, id, c)) : f.severity = "error"}
gate(set, id, c) == {f \in Scan(Put(set, id, c)) : f.concept = id /\ f.severity = "error"}

\* Mutant: the terms are taken as part of the concept that was already scanned.
enrichGateBody(set, id, c) == gate(set, id, c)
enrichGate(set, id, c) == gate(set, id, c) \cup IntentTermsDeviations(id, c.terms, DeviatingTerms)

\* The routes are gone through in the order of their ids.
At == Min(pass.todo)
Verdict(v) ==
  /\ items' = Put(items, At, v)
  /\ pass' = [pass EXCEPT !.todo = @ \ {At}]
  /\ UNCHANGED <<bundle, pc, written>>

\* A concept c for the route at hand, rejected by the gate or withheld or kept for
\* the write at the end.
Judge(bad, c) ==
  IF bad # {} THEN Verdict("rejected") /\ UNCHANGED accepted
  ELSE IF pass.apply THEN Verdict("applied") /\ accepted' = Put(accepted, At, c)
  ELSE Verdict("proposed") /\ UNCHANGED accepted

AtRoute == pc = "agent" /\ pass.todo # {}

\* The agent fails, or its reply holds nothing for this id (ParseConcepts drops
\* entries without a title).
NoProposal ==
  /\ AtRoute
  /\ \E v \in {"error", "no-change"} : Verdict(v)
  /\ UNCHANGED <<accepted, used, good>>

\* ParseConcepts: hash, terms and everything else the reply does not carry are gone.
ParseConcept(r) == [r EXCEPT !.hash = NoHash, !.terms = NoTerms]

\* All the agent was asked for: no finding it was given is left, and no flaw is new.
Clears(c) ==
  /\ ~\E f \in Scan(Put(pass.set, At, c)) : f.concept = At /\ f.fixable
  /\ c.flaws \subseteq pass.set[At].flaws

Fix ==
  /\ AtRoute /\ ~pass.enrich
  /\ \E r \in Replies :
       LET c == ParseConcept(r)
       IN /\ "empty-title" \notin r.flaws
          /\ good' = IF Clears(c) THEN good \cup {At} ELSE good
          /\ Judge(gate(pass.set, At, c), c)
  /\ UNCHANGED used

\* The agent's terms go onto the concept as it was read.
EnrichTerms ==
  /\ AtRoute /\ pass.enrich
  /\ \E t \in GoodTerms \cup DeviatingTerms :
       LET merged == [pass.set[At] EXCEPT !.terms = t]
       IN Judge(enrichGate(pass.set, At, merged), merged)
  /\ UNCHANGED <<used, good>>

Done ==
  /\ pc = "agent" /\ pass.todo = {}
  /\ pc' = IF DOMAIN accepted = {} THEN "idle" ELSE "write"
  /\ UNCHANGED <<bundle, pass, accepted, items, used, written, good>>
-----------------------------------------------------------------------------
(* Write-back.                                                             *)

Stored(ids) ==
  /\ bundle' = [i \in DOMAIN bundle \cup ids |-> IF i \in ids THEN accepted[i] ELSE bundle[i]]
  /\ written' = written \cup ids
  /\ UNCHANGED <<pass, accepted, items, good>>

UpsertBatch ==
  /\ pc = "write" /\ pc' = "reindex"
  /\ Stored(DOMAIN accepted)
  /\ UNCHANGED used

\* It stops in the middle of the batch; the pass ends with the error.
UpsertBatchFails ==
  /\ pc = "write" /\ pc' = "idle" /\ Spend("faults", MaxFaults)
  /\ \E ids \in SUBSET DOMAIN accepted : Stored(ids)

Reindex ==
  /\ pc = "reindex" /\ pc' = "idle"
  /\ UNCHANGED <<bundle, pass, accepted, items, used, written, good>>

\* Runner.Run of a full ingest, by another process or the server.
Ingest ==
  /\ Spend("ingests", MaxIngests)
  /\ bundle' \in Corpora
  /\ written' = {}
  /\ UNCHANGED <<pc, pass, accepted, items, good>>

Finished == pc = "idle" /\ used.passes = MaxPasses /\ UNCHANGED vars

Next == Start \/ NoProposal \/ Fix \/ EnrichTerms \/ Done \/ UpsertBatch \/ UpsertBatchFails
          \/ Reindex \/ Ingest \/ Finished
Spec == Init /\ [][Next]_vars
-----------------------------------------------------------------------------
(* Properties.                                                             *)

\* "an agent can never write a concept that still deviates": what a pass wrote holds
\* no error finding in the bundle as it is now, although the gate saw an older one
\* and others ingest meanwhile, and its recall terms do not deviate either.
WrittenIsClean ==
  \A id \in written : /\ gate(bundle, id, bundle[id]) = {}
                      /\ bundle[id].terms \notin DeviatingTerms

\* The gate turns down what an agent left wrong, never what other concepts have
\* wrong: a reply that cleared all findings it was given is rejected only where the
\* concept has an error that no agent is asked to fix.
GoodFixAccepted ==
  \A id \in good : items[id] = "rejected" => "no-type" \in pass.set[id].flaws

\* curate writes only with --apply, and then only concepts it was restricted to and
\* the scan routed.
WritesOnlyRouted ==
  [][\A id \in written' \ written : pass.apply /\ items[id] = "applied" /\ (pass.ids = {} \/ id \in pass.ids)]_vars

\* ADR 0001: recall terms "persist/round-trip ... in frontmatter": where a concept
\* keeps its text, it keeps the terms it was given.
TermsPersist ==
  [][\A id \in DOMAIN bundle \cap DOMAIN bundle' :
       bundle[id].hash = bundle'[id].hash /\ bundle'[id].hash # NoHash /\ bundle[id].terms # NoTerms
         => bundle'[id].terms # NoTerms]_vars
=============================================================================
