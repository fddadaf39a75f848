------------------------------ MODULE MCSearch ------------------------------
(* Instances of Search for TLC.                                            *)
EXTENDS Search

CONSTANTS q, rewrite, entity

\* An expansion to three subqueries, one that drops duplicates, and one without tokens.
Entry(s, on, hit) == [subquery |-> s, enabled |-> on, matched |-> hit]
MCTexts == {[text |-> q, rewrite |-> rewrite, entries |-> <<Entry(entity, TRUE, TRUE), Entry("extra", TRUE, TRUE)>>],
            [text |-> q, rewrite |-> q, entries |-> <<Entry("off", FALSE, TRUE), Entry(entity, TRUE, TRUE), Entry(entity, TRUE, TRUE)>>],
            [text |-> q, rewrite |-> "", entries |-> <<Entry(entity, TRUE, FALSE)>>]}

MCRankings == [hybrid |-> UNION {{r \in [1..n -> Ids] : IsInjective(r)} : n \in 0..3},
               multi |-> {<<1, 2>>, <<2, 1>>},
               similar |-> {<<1, 2, 3>>, <<2, 3>>, <<3, 1>>, <<2, 1, 3>>}]

Doc(type, official, titled) == [type |-> type, official |-> official, titled |-> titled]
MCDocs == {<<Doc("ApiEndpoint", FALSE, 0), Doc("WebPage", FALSE, 0), Doc("Reference", TRUE, 1)>>,
           <<Doc("WebPage", FALSE, 1), Doc("Reference", FALSE, 0), Doc("ApiEndpoint", TRUE, 0)>>}
MCEdges == {{<<1, 2>>, <<2, 1>>, <<3, 1>>}}
=============================================================================
