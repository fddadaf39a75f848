------------------------------- MODULE MCCurate -------------------------------
(* Instances of Curate for TLC.                                            *)
EXTENDS Curate, TLC

CONSTANTS t1, t2, h1, h2, syn, dev

Concept(flaws, title, hash, links, terms) ==
  [flaws |-> flaws, title |-> title, hash |-> hash, links |-> links, terms |-> terms]

Thin == Concept({"stub-body", "deviation"}, t1, h1, {}, NoTerms)
Leaky == Concept({"deviation"}, t2, h2, {3}, NoTerms)
Untyped == Concept({"no-type", "junk-title"}, t2, h1, {}, NoTerms)
Untitled == Concept({"empty-title", "no-source"}, t1, h2, {}, NoTerms)
Sound == Concept({}, t1, h2, {1}, NoTerms)

MCCorpora == {1 :> Thin @@ 2 :> Leaky, 1 :> Untyped @@ 2 :> Thin, 1 :> Sound @@ 2 :> Untitled}
MCReplies == {Sound, Untitled, Concept({}, t2, h1, {}, NoTerms), Concept({"deviation"}, t2, h1, {}, NoTerms),
              Concept({"no-type"}, t1, h1, {}, NoTerms)}
=============================================================================
