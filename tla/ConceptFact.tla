----------------------------- MODULE ConceptFact -----------------------------
(***************************************************************************)
(* The bitemporal table concept_fact as a value: a set of rows, and the    *)
(* statements internal/store/postgres runs on it.                          *)
(*                                                                         *)
(* A row says that concept `id` had content `body` in epoch `epoch`, valid *)
(* from the instant `from` up to the instant `to`.  RecordFact caps the    *)
(* transaction range and the valid range of a row in one UPDATE, so a row  *)
(* whose `to` is Inf is exactly a row whose transaction range is open.     *)
(* Instants are positions of the database clock and body stands for the    *)
(* columns (type, title, content_sha) that RecordFact copies.              *)
(***************************************************************************)
EXTENDS Naturals

CONSTANT Inf   \* the upper bound of an open range, no instant

ASSUME InfAssumption == Inf \notin Nat

\* SQL: upper_inf(tx), for one row.
IsOpen(f) == f.to = Inf

OpenFacts(facts, id) == {f \in facts : f.id = id /\ IsOpen(f)}

CanRecordAlways(facts, id, at) == TRUE   \* mutant: ranges are not checked

\* tstzrange(lower(valid), at) raises an error when lower(valid) > at, and
\* with it the whole RecordFact transaction.
CanRecord(facts, id, at) == \A f \in OpenFacts(facts, id) : f.from <= at

RecordUnclosed(facts, c, n, at) ==   \* mutant: the prior window stays open
  facts \cup {[id |-> c.id, body |-> c.body, epoch |-> n, from |-> at, to |-> Inf]}

\* RecordFact: close the open window of the id, insert the new open row.
Record(facts, c, n, at) ==
  {IF f.id = c.id /\ IsOpen(f) THEN [f EXCEPT !.to = at] ELSE f : f \in facts}
    \cup {[id |-> c.id, body |-> c.body, epoch |-> n, from |-> at, to |-> Inf]}

\* AsOf with AsOfEpoch: for each id the rows of the greatest epoch <= n.  The
\* query keeps one of them (DISTINCT ON), and which one is unspecified when an
\* epoch holds several.
AsOfEpoch(facts, n) ==
  {f \in facts :
     /\ f.epoch <= n
     /\ \A g \in facts : g.id = f.id /\ g.epoch <= n => g.epoch <= f.epoch}

\* The instants a row is valid at.
ValidAt(f, t) == f.from <= t /\ (IsOpen(f) \/ t < f.to)

=============================================================================
