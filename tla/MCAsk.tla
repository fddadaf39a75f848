-------------------------------- MODULE MCAsk --------------------------------
(* Instances of Ask for TLC.                                                *)
EXTENDS Ask, TLC

CONSTANTS c1, c2, b1, b2, p1, a1, a2, server, t1, t2, q1

MCBodies == {b1, b2}
MCTypes == {t1, t2}
MCTypeOf == [i \in Ids |-> t1]
OneWriter == [p \in {p1} |-> server]
Runs == [p \in {p1} |-> {"run"}]

Plain == [q |-> q1, type |-> AnyType, nopii |-> FALSE, nocache |-> FALSE]
\* A plain question, and the same one past filter and cache.
WithBypass == {Plain, [Plain EXCEPT !.nopii = TRUE]}
Symmetry == Permutations(MCBodies) \cup Permutations(Askers) \cup Permutations(Ids)
=============================================================================
