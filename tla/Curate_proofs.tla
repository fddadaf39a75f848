---------------------------- MODULE Curate_proofs ----------------------------
(***************************************************************************)
(* What a curate pass may write, for every bundle, reply and restriction.  *)
(* The gate's verdict on a concept depends on the concept alone: links and *)
(* duplicates, what other concepts decide, are warnings (GateIsOwn).  So   *)
(* what passed it stays clean in whatever bundle it is written to.         *)
(***************************************************************************)
EXTENDS Curate, WellFoundedInduction, TLAPS

-----------------------------------------------------------------------------
(* The route at hand.                                                      *)

Below == {e \in Nat \X Nat : e[1] < e[2]}

LEMMA BelowWellFounded == IsWellFoundedOn(Below, Nat)
<1>1. OpToRel(<, Nat) = Below
  BY DEF OpToRel, Below
<1> QED BY <1>1, NatLessThanWellFounded

LEMMA MinExists ==
  ASSUME NEW S, S \subseteq Nat, S # {}
  PROVE  Min(S) \in S
<1>1. PICK x \in S : \A y \in S : ~(<<y, x>> \in Below)
  BY BelowWellFounded, WFMin
<1>2. \A y \in S : ~(y < x)
  BY <1>1 DEF Below
<1>3. \A y \in S : x <= y
  BY <1>2
<1> QED BY <1>3 DEF Min

-----------------------------------------------------------------------------
(* The gate.                                                               *)

Clean(c) == c.flaws \cap Errors = {} /\ c.terms \notin DeviatingTerms

\* An error finding comes from a flaw of the concept itself.
LEMMA ErrorIsOwn ==
  ASSUME NEW set, NEW id \in DOMAIN set, NEW f \in Scan(set), f.concept = id, f.severity = "error"
  PROVE  \E w \in set[id].flaws \cap Errors :
           f = Finding(id, CheckOf[w], "error", w \notin Unfixable)
<1>1. PICK i \in DOMAIN set : f \in scanConcept(set, i)
  BY DEF Scan
<1>2. \A g \in scanConcept(set, i) : g.concept = i
  BY DEF scanConcept, OwnFindings, Finding
<1>3. f \in OwnFindings(set[id], id)
  BY <1>1, <1>2 DEF scanConcept, Finding
<1> QED BY <1>3 DEF OwnFindings, Finding

LEMMA FlawIsFound ==
  ASSUME NEW set, NEW id \in DOMAIN set, NEW w \in set[id].flaws \cap Errors
  PROVE  Finding(id, CheckOf[w], "error", w \notin Unfixable) \in Scan(set)
<1>1. Finding(id, CheckOf[w], "error", w \notin Unfixable) \in OwnFindings(set[id], id)
  BY DEF OwnFindings
<1>2. OwnFindings(set[id], id) \subseteq scanConcept(set, id)
  BY DEF scanConcept
<1> QED BY <1>1, <1>2 DEF Scan

\* The gate passes a concept exactly where its own text holds no error.
LEMMA GateIsOwn ==
  ASSUME NEW set, NEW id, NEW c
  PROVE  gate(set, id, c) = {} <=> c.flaws \cap Errors = {}
<1> DEFINE all == Put(set, id, c)
<1>1. id \in DOMAIN all /\ all[id] = c
  BY DEF Put
<1> HIDE DEF all
<1>2. gate(set, id, c) = {f \in Scan(all) : f.concept = id /\ f.severity = "error"}
  BY DEF gate, all
<1>3. ASSUME NEW w \in c.flaws \cap Errors
      PROVE  gate(set, id, c) # {}
  <2>1. Finding(id, CheckOf[w], "error", w \notin Unfixable) \in Scan(all)
    BY <1>1, FlawIsFound
  <2>2. /\ Finding(id, CheckOf[w], "error", w \notin Unfixable).concept = id
        /\ Finding(id, CheckOf[w], "error", w \notin Unfixable).severity = "error"
    BY DEF Finding
  <2> QED BY <1>2, <2>1, <2>2
<1>4. ASSUME NEW f \in gate(set, id, c)
      PROVE  c.flaws \cap Errors # {}
  BY <1>1, <1>2, ErrorIsOwn
<1> QED BY <1>3, <1>4

LEMMA EnrichGateIsOwn ==
  ASSUME NEW set, NEW id, NEW c, enrichGate(set, id, c) = {}
  PROVE  Clean(c)
<1>1. gate(set, id, c) = {} /\ IntentTermsDeviations(id, c.terms, DeviatingTerms) = {}
  BY DEF enrichGate
<1>2. c.terms \notin DeviatingTerms
  BY <1>1 DEF IntentTermsDeviations
<1> QED BY <1>1, <1>2, GateIsOwn DEF Clean

\* A reply that clears what it was asked to is rejected only for what nobody can fix.
LEMMA ClearedIsUntyped ==
  ASSUME NEW c, Clears(c), gate(pass.set, At, c) # {}
  PROVE  "no-type" \in pass.set[At].flaws
<1> DEFINE all == Put(pass.set, At, c)
<1>1. At \in DOMAIN all /\ all[At] = c
  BY DEF Put
<1>2. PICK f \in Scan(all) : f.concept = At /\ f.severity = "error"
  BY DEF gate
<1>3. /\ ~\E g \in Scan(all) : g.concept = At /\ g.fixable
      /\ c.flaws \subseteq pass.set[At].flaws
  BY DEF Clears
<1> HIDE DEF all
<1>4. PICK w \in c.flaws \cap Errors : f = Finding(At, CheckOf[w], "error", w \notin Unfixable)
  BY <1>1, <1>2, ErrorIsOwn
<1>5. ~f.fixable
  BY <1>2, <1>3
<1>6. w = "no-type"
  BY <1>4, <1>5 DEF Finding, Errors, Unfixable
<1> QED BY <1>3, <1>4, <1>6

-----------------------------------------------------------------------------
(* The invariant: what passed the gate is clean, and the routes still to go  *)
(* have no verdict yet, so that no later verdict replaces an earlier one.    *)

Typed(set) == DOMAIN set \subseteq Ids /\ \A id \in DOMAIN set : set[id] \in Concepts
PassTyped ==
  /\ pass = [enrich |-> pass.enrich, apply |-> pass.apply, ids |-> pass.ids,
             set |-> pass.set, todo |-> pass.todo]
  /\ Typed(pass.set) /\ pass.todo \subseteq DOMAIN pass.set
Allowed(id) == pass.ids = {} \/ id \in pass.ids

AcceptedInv ==
  \A id \in DOMAIN accepted :
    /\ accepted[id] \in Concepts /\ id \in Ids /\ Clean(accepted[id])
    /\ id \in DOMAIN items /\ items[id] = "applied" /\ pass.apply /\ Allowed(id)

CurateInv ==
  /\ Typed(bundle) /\ PassTyped
  /\ \A id \in pass.todo : Allowed(id) /\ id \notin DOMAIN items
  /\ AcceptedInv
  /\ \A id \in written : id \in DOMAIN bundle /\ Clean(bundle[id])
  /\ good \subseteq DOMAIN items /\ GoodFixAccepted

LEMMA CorporaTyped ==
  ASSUME NEW c \in Corpora
  PROVE  Typed(c)
  BY CurateAssumption DEF Typed, Ids

LEMMA CurateInitially == Init => CurateInv
<1> SUFFICES ASSUME Init PROVE CurateInv
  OBVIOUS
<1>1. Typed(bundle)
  BY CorporaTyped DEF Init
<1>2. /\ pass.set = <<>> /\ pass.todo = {} /\ accepted = <<>> /\ items = <<>>
      /\ written = {} /\ good = {}
  BY DEF Init, NoPass
<1>3. PassTyped
  BY <1>2 DEF PassTyped, Init, NoPass, Typed
<1>4. AcceptedInv
  BY <1>2 DEF AcceptedInv
<1> QED BY <1>1, <1>2, <1>3, <1>4 DEF CurateInv, GoodFixAccepted

\* A pass routes concepts it has read and no one has judged.
LEMMA BeginHolds ==
  ASSUME CurateInv, NEW enrich, NEW candidates, NEW only, NEW limit, NEW apply,
         candidates \subseteq DOMAIN bundle,
         ~enrich => candidates \cap skipped(bundle) = {},
         Begin(enrich, candidates, only, limit, apply)
  PROVE  CurateInv'
<1> DEFINE todo == Routed(candidates, only, limit)
<1>1. /\ pass' = [enrich |-> enrich, apply |-> apply, ids |-> only, set |-> bundle, todo |-> todo]
      /\ accepted' = <<>> /\ good' = {} /\ bundle' = bundle /\ written' = written
      /\ items' = IF enrich THEN <<>> ELSE [id \in skipped(bundle) |-> "skipped"]
  BY DEF Begin
<1>2. todo \subseteq candidates /\ (only = {} \/ todo \subseteq only)
  BY DEF Routed, Capped, filterByIDs
<1> HIDE DEF todo
<1>3. Typed(bundle)' /\ PassTyped'
  BY <1>1, <1>2 DEF CurateInv, PassTyped, Typed
<1>4. \A id \in pass'.todo : Allowed(id)' /\ id \notin DOMAIN items'
  BY <1>1, <1>2 DEF Allowed
<1>5. AcceptedInv'
  BY <1>1 DEF AcceptedInv
<1> QED BY <1>1, <1>3, <1>4, <1>5 DEF CurateInv, GoodFixAccepted, Clean

LEMMA StartHolds ==
  ASSUME CurateInv, Start
  PROVE  CurateInv'
<1>1. Flagged(bundle) \subseteq DOMAIN bundle
  BY DEF Flagged, Scan, scanConcept, OwnFindings, Finding
<1>2. \A reenrich : enrichCandidates(bundle, reenrich) \subseteq DOMAIN bundle
  BY DEF enrichCandidates, MissingIntentTerms, Finding
<1> QED BY <1>1, <1>2, BeginHolds DEF Start

\* The route at hand gets its verdict.
LEMMA VerdictFrame ==
  ASSUME CurateInv, AtRoute, NEW v, Verdict(v)
  PROVE  /\ At \in pass.todo /\ At \in DOMAIN pass.set /\ At \in Ids /\ Allowed(At)
         /\ pass.set[At] \in Concepts
         /\ At \notin DOMAIN items /\ At \notin DOMAIN accepted /\ At \notin good
         /\ DOMAIN items' = DOMAIN items \cup {At} /\ items'[At] = v
         /\ \A id \in DOMAIN items : items'[id] = items[id]
         /\ pass'.set = pass.set /\ pass'.ids = pass.ids /\ pass'.apply = pass.apply
         /\ pass'.todo = pass.todo \ {At} /\ PassTyped'
         /\ \A id : Allowed(id)' <=> Allowed(id)
         /\ bundle' = bundle /\ written' = written
<1>1. pass.todo \subseteq Nat /\ pass.todo # {}
  BY CurateAssumption DEF CurateInv, PassTyped, Typed, AtRoute
<1>2. At \in pass.todo
  BY <1>1, MinExists DEF At
<1> DEFINE at == At
<1>3. at \in pass.todo /\ items' = Put(items, at, v)
  BY <1>2 DEF Verdict
<1>4. /\ pass' = [pass EXCEPT !.todo = @ \ {at}] /\ bundle' = bundle /\ written' = written
  BY DEF Verdict
<1> HIDE DEF at
<1>5. /\ at \in DOMAIN pass.set /\ at \in Ids /\ Allowed(at) /\ pass.set[at] \in Concepts
      /\ at \notin DOMAIN items /\ at \notin DOMAIN accepted /\ at \notin good
  BY <1>3 DEF CurateInv, PassTyped, Typed, AcceptedInv
<1>6. /\ DOMAIN items' = DOMAIN items \cup {at} /\ items'[at] = v
      /\ \A id \in DOMAIN items : items'[id] = items[id]
  BY <1>3, <1>5 DEF Put
<1>7. /\ pass'.set = pass.set /\ pass'.ids = pass.ids /\ pass'.apply = pass.apply
      /\ pass'.todo = pass.todo \ {at} /\ pass'.enrich = pass.enrich
      /\ pass' = [enrich |-> pass.enrich, apply |-> pass.apply, ids |-> pass.ids,
                  set |-> pass.set, todo |-> pass.todo \ {at}]
  BY <1>4 DEF CurateInv, PassTyped
<1>8. PassTyped'
  BY <1>7 DEF CurateInv, PassTyped, Typed
<1>9. \A id : Allowed(id)' <=> Allowed(id)
  BY <1>7 DEF Allowed
<1> QED BY <1>4, <1>5, <1>6, <1>7, <1>8, <1>9, <1>3 DEF at

LEMMA NoVerdictKept ==
  ASSUME CurateInv, AtRoute, NEW v, Verdict(v), accepted' = accepted,
         \/ good' = good
         \/ good' = good \cup {At} /\ (v = "rejected" => "no-type" \in pass.set[At].flaws)
  PROVE  CurateInv'
<1> DEFINE at == At
<1>1. /\ DOMAIN items' = DOMAIN items \cup {at} /\ items'[at] = v /\ at \notin DOMAIN items
      /\ \A id \in DOMAIN items : items'[id] = items[id]
      /\ pass'.set = pass.set /\ pass'.ids = pass.ids /\ pass'.apply = pass.apply
      /\ pass'.todo = pass.todo \ {at} /\ PassTyped'
      /\ \A id : Allowed(id)' <=> Allowed(id)
      /\ bundle' = bundle /\ written' = written
  BY VerdictFrame
<1>2. \/ good' = good
      \/ good' = good \cup {at} /\ (v = "rejected" => "no-type" \in pass.set[at].flaws)
  OBVIOUS
<1> HIDE DEF at
<1>3. Typed(bundle)' /\ \A id \in pass'.todo : Allowed(id)' /\ id \notin DOMAIN items'
  BY <1>1 DEF CurateInv, Typed
<1>4. AcceptedInv'
  BY <1>1 DEF CurateInv, AcceptedInv
<1>5. good' \subseteq DOMAIN items' /\ GoodFixAccepted'
  BY <1>1, <1>2 DEF CurateInv, GoodFixAccepted
<1> QED BY <1>1, <1>3, <1>4, <1>5 DEF CurateInv, Clean

LEMMA ConceptKept ==
  ASSUME CurateInv, AtRoute, Verdict("applied"), pass.apply, NEW c \in Concepts, Clean(c),
         accepted' = Put(accepted, At, c), good' = good \/ good' = good \cup {At}
  PROVE  CurateInv'
<1> DEFINE at == At
<1>1. /\ at \in Ids /\ Allowed(at) /\ at \notin DOMAIN items
      /\ DOMAIN items' = DOMAIN items \cup {at} /\ items'[at] = "applied"
      /\ \A id \in DOMAIN items : items'[id] = items[id]
      /\ pass'.set = pass.set /\ pass'.apply = pass.apply
      /\ pass'.todo = pass.todo \ {at} /\ PassTyped'
      /\ \A id : Allowed(id)' <=> Allowed(id)
      /\ bundle' = bundle /\ written' = written
  BY VerdictFrame
<1>2. accepted' = Put(accepted, at, c) /\ (good' = good \/ good' = good \cup {at})
  OBVIOUS
<1> HIDE DEF at
<1>3. /\ DOMAIN accepted' = DOMAIN accepted \cup {at} /\ accepted'[at] = c
      /\ \A id \in DOMAIN accepted : id # at => accepted'[id] = accepted[id]
  BY <1>2 DEF Put
<1>4. Typed(bundle)' /\ \A id \in pass'.todo : Allowed(id)' /\ id \notin DOMAIN items'
  BY <1>1 DEF CurateInv, Typed
<1>5. AcceptedInv'
  BY <1>1, <1>3 DEF CurateInv, AcceptedInv, Clean
<1>6. good' \subseteq DOMAIN items' /\ GoodFixAccepted'
  BY <1>1, <1>2 DEF CurateInv, GoodFixAccepted
<1> QED BY <1>1, <1>4, <1>5, <1>6 DEF CurateInv, Clean

LEMMA JudgeHolds ==
  ASSUME CurateInv, AtRoute, NEW bad, NEW c \in Concepts, bad = {} => Clean(c), Judge(bad, c),
         \/ good' = good
         \/ good' = good \cup {At} /\ (bad # {} => "no-type" \in pass.set[At].flaws)
  PROVE  CurateInv'
<1>1. CASE bad # {}
  BY <1>1, NoVerdictKept DEF Judge
<1>2. CASE bad = {} /\ pass.apply
  BY <1>2, ConceptKept DEF Judge
<1>3. CASE bad = {} /\ ~pass.apply
  BY <1>3, NoVerdictKept DEF Judge
<1> QED BY <1>1, <1>2, <1>3

LEMMA FixHolds ==
  ASSUME CurateInv, Fix
  PROVE  CurateInv'
<1>1. PICK r \in Replies :
        LET c == ParseConcept(r)
        IN /\ "empty-title" \notin r.flaws
           /\ good' = IF Clears(c) THEN good \cup {At} ELSE good
           /\ Judge(gate(pass.set, At, c), c)
  BY DEF Fix
<1> DEFINE c == ParseConcept(r)
<1>2. c \in Concepts /\ c.terms = NoTerms
  BY CurateAssumption DEF ParseConcept, Concepts, Terms
<1>3. /\ good' = IF Clears(c) THEN good \cup {At} ELSE good
      /\ Judge(gate(pass.set, At, c), c) /\ AtRoute
  BY <1>1 DEF Fix
<1> HIDE DEF c
<1>4. gate(pass.set, At, c) = {} => Clean(c)
  BY <1>2, GateIsOwn, CurateAssumption DEF Clean
<1>5. Clears(c) /\ gate(pass.set, At, c) # {} => "no-type" \in pass.set[At].flaws
  BY ClearedIsUntyped
<1> QED BY <1>2, <1>3, <1>4, <1>5, JudgeHolds

LEMMA EnrichHolds ==
  ASSUME CurateInv, EnrichTerms
  PROVE  CurateInv'
<1>1. PICK t \in GoodTerms \cup DeviatingTerms :
        LET merged == [pass.set[At] EXCEPT !.terms = t]
        IN Judge(enrichGate(pass.set, At, merged), merged)
  BY DEF EnrichTerms
<1>2. PICK c : c = [pass.set[At] EXCEPT !.terms = t]
  OBVIOUS
<1>3. Judge(enrichGate(pass.set, At, c), c) /\ AtRoute /\ good' = good
  BY <1>1, <1>2 DEF EnrichTerms
<1>4. pass.set[At] \in Concepts
  BY <1>3, VerdictFrame DEF Judge
<1>5. c \in Concepts
  BY <1>2, <1>4 DEF Concepts, Terms
<1>6. enrichGate(pass.set, At, c) = {} => Clean(c)
  BY EnrichGateIsOwn
<1> QED BY <1>3, <1>5, <1>6, JudgeHolds

\* What is written passed the gate.
LEMMA StoredHolds ==
  ASSUME CurateInv, NEW ids \in SUBSET DOMAIN accepted, Stored(ids)
  PROVE  CurateInv'
<1>1. /\ DOMAIN bundle' = DOMAIN bundle \cup ids /\ written' = written \cup ids
      /\ \A i \in ids : bundle'[i] = accepted[i]
      /\ \A i \in DOMAIN bundle : i \notin ids => bundle'[i] = bundle[i]
      /\ UNCHANGED <<pass, accepted, items, good>>
  BY DEF Stored
<1>2. Typed(bundle)'
  BY <1>1 DEF CurateInv, AcceptedInv, Typed
<1>3. \A id \in written' : id \in DOMAIN bundle' /\ Clean(bundle'[id])
  BY <1>1 DEF CurateInv, AcceptedInv, Clean
<1> QED
  BY <1>1, <1>2, <1>3 DEF CurateInv, AcceptedInv, Typed, PassTyped, Allowed, Clean, GoodFixAccepted

LEMMA CurateStep == CurateInv /\ [Next]_vars => CurateInv'
<1> SUFFICES ASSUME CurateInv, [Next]_vars PROVE CurateInv'
  OBVIOUS
<1>1. CASE NoProposal
  BY <1>1, NoVerdictKept DEF NoProposal
<1>2. CASE UpsertBatch \/ UpsertBatchFails
  BY <1>2, StoredHolds DEF UpsertBatch, UpsertBatchFails
<1>3. CASE Done \/ Reindex \/ UNCHANGED vars
  BY <1>3 DEF Done, Reindex, vars, CurateInv, AcceptedInv, Typed, PassTyped, Allowed, Clean,
    GoodFixAccepted
<1>4. CASE Ingest
  <2>1. Typed(bundle)'
    BY <1>4, CorporaTyped DEF Ingest, Typed
  <2> QED BY <1>4, <2>1 DEF Ingest, CurateInv, AcceptedInv, PassTyped, Typed, Allowed, Clean,
    GoodFixAccepted
<1> QED BY <1>1, <1>2, <1>3, <1>4, StartHolds, FixHolds, EnrichHolds DEF Next, Finished

LEMMA CurateInvHolds == Spec => []CurateInv
  BY CurateInitially, CurateStep, PTL DEF Spec

-----------------------------------------------------------------------------
\* What a pass has written never holds an error or deviating recall terms, whatever
\* the agents reply, however the bundle changes between the read and the write and
\* wherever the write stops (curate.go:287, gate: "an agent can never write a concept
\* that still deviates").
THEOREM NothingDeviatesWritten == Spec => []WrittenIsClean
<1>1. CurateInv => WrittenIsClean
  BY GateIsOwn DEF CurateInv, Clean, WrittenIsClean
<1> QED BY <1>1, CurateInvHolds, PTL

\* A reply that clears the findings it was given and adds no flaw is rejected only
\* where the concept lacks its type, which no agent may supply: the re-scan holds
\* nothing of another concept against it (curate.go:307).
THEOREM GoodFixesPass == Spec => []GoodFixAccepted
<1>1. CurateInv => GoodFixAccepted
  BY DEF CurateInv
<1> QED BY <1>1, CurateInvHolds, PTL

\* Every file a pass writes is that of a concept it routed, within --ids, whose fix
\* it reported as applied, and only under --apply (curate.go:257).
THEOREM OnlyRoutedWritten == Spec => WritesOnlyRouted
<1> DEFINE Routes == \A id \in written' \ written :
                       pass.apply /\ items[id] = "applied" /\ (pass.ids = {} \/ id \in pass.ids)
<1>1. CurateInv /\ [Next]_vars => [Routes]_vars
  <2> SUFFICES ASSUME CurateInv, Next, NEW id \in written', id \notin written
               PROVE  pass.apply /\ items[id] = "applied" /\ (pass.ids = {} \/ id \in pass.ids)
    OBVIOUS
  <2>1. UpsertBatch \/ UpsertBatchFails
    BY DEF Next, Start, Begin, NoProposal, Fix, EnrichTerms, Judge, Verdict, Done, Reindex, Ingest,
      Finished, vars
  <2>2. id \in DOMAIN accepted
    BY <2>1 DEF UpsertBatch, UpsertBatchFails, Stored
  <2> QED BY <2>2 DEF CurateInv, AcceptedInv, Allowed
<1> QED BY <1>1, CurateInvHolds, PTL DEF Spec, WritesOnlyRouted
=============================================================================
