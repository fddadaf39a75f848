------------------------------- MODULE Hygiene -------------------------------
(***************************************************************************)
(* The deterministic scan of a set of concepts: what is wrong with each, how *)
(* bad it is, and whether an agent can repair it.  What the patterns of the  *)
(* code find in a text is its set of flaws; what depends on other concepts   *)
(* (links, titles and hashes seen before) is computed.                       *)
(***************************************************************************)
EXTENDS Naturals, FiniteSets

NoHash == "unhashed"  \* an agent's reply carries no content hash
NoTerms == "none"

\* The flaws of a text, each with the check that reports it.
Flaws == {"deviation", "no-type", "empty-title", "junk-title", "sample-data", "stub-body", "no-source"}
CheckOf == [f \in Flaws |-> CASE f = "no-type" -> "missing-type"
                              [] f \in {"empty-title", "junk-title"} -> "junk-title"
                              [] f = "no-source" -> "missing-prov"
                              [] OTHER -> f]
Errors == {"deviation", "no-type", "empty-title"}
Unfixable == {"no-type", "no-source"}

Finding(id, check, severity, fixable) ==
  [concept |-> id, check |-> check, severity |-> severity, fixable |-> fixable]

\* A set of concepts is a function from ids, numbers in the order of their paths.
Before(set, id) == {j \in DOMAIN set : j < id}

OwnFindings(c, id) ==
  {Finding(id, CheckOf[f], IF f \in Errors THEN "error" ELSE "warn", f \notin Unfixable) : f \in c.flaws}

\* The second sighting of a hash or a title reports against this concept.
Repeats(set, id) ==
  \E j \in Before(set, id) :
     \/ set[id].hash # NoHash /\ set[j].hash = set[id].hash
     \/ "empty-title" \notin set[id].flaws \cup set[j].flaws /\ set[j].title = set[id].title

scanConcept(set, id) ==
  OwnFindings(set[id], id)
    \cup {Finding(id, "broken-link", "warn", TRUE) : l \in set[id].links \ DOMAIN set}
    \cup {Finding(id, "duplicate", "warn", TRUE) : r \in {j \in {id} : Repeats(set, j)}}

Scan(set) == UNION {scanConcept(set, id) : id \in DOMAIN set}

MissingIntentTerms(set) ==
  {Finding(id, "missing-intent-terms", "warn", TRUE) : id \in {i \in DOMAIN set : set[i].terms = NoTerms}}

\* Terms are scanned for deviations only, and only here.
IntentTermsDeviations(id, terms, deviating) ==
  {Finding(id, "deviation", "error", TRUE) : t \in {terms} \cap deviating}
=============================================================================
