---------------------------- MODULE MCEpochRunner ----------------------------
(* Instances of EpochRunner for TLC.                                        *)
EXTENDS EpochRunnerInvariant, TLC

CONSTANTS c1, c2, b1, b2, p1, p2, server, cli

MCIds == {c1, c2}
MCBodies == {b1, b2}
SymmetryIds == Permutations(MCIds)
Symmetry == SymmetryIds \cup Permutations(MCBodies)
SymmetryP == Symmetry \cup Permutations({p1, p2})

\* Two callers of one Runner: the MCP server, or serve with its inbox and daemon.
OneRunner == [p \in {p1, p2} |-> server]
ServerOps == [p \in {p1, p2} |-> {"run", "upsert", "reindex"}]

\* A server and a command line, each with a Runner of its own.
TwoRunners == (p1 :> server) @@ (p2 :> cli)
AllOps == (p1 :> {"upsert"}) @@ (p2 :> {"run", "reindex", "remove"})
=============================================================================
