------------------------ MODULE EpochRunnerInvariant ------------------------
(***************************************************************************)
(* The inductive invariants behind the properties of EpochRunner that hold *)
(* in any deployment, and of those that need one Runner for all writers:   *)
(* the proof modules prove them for every value of the constants.          *)
(*                                                                         *)
(* BatchStored, RunMaterializes and ReindexRestores speak of the moment a  *)
(* call returns.  What makes them true is known step by step: which part   *)
(* of the batch is through applyConcept and how far the concept in hand    *)
(* has come.                                                               *)
(***************************************************************************)
EXTENDS EpochRunner

\* applyConcept is at work on job[p].cur.
InHand == {"write", "row", "vector", "edges", "fact"}

\* Every concept of the batch is through applyConcept.
Applied == {"reconcile", "indexes", "log", "commit", "stamp", "prune", "return"}

Rebuilds(p) == job[p].op \in {"reindex", "remove"}

\* The concept in hand, which TypeOK alone allows to be none.
CurType == \A p \in Procs : pc[p] \in InHand => job[p].cur \in Concepts

\* The steps a call performs are those of its operation, and what Run applies
\* came from GatherAll.
StepsOfOp ==
  \A p \in Procs :
    /\ pc[p] \in {"read", "truncate"} \cup Unlocked => Rebuilds(p)
    /\ pc[p] = "reconcile" => job[p].op = "run"
    /\ pc[p] \in {"indexes", "log", "commit", "stamp"} => ~Rebuilds(p)
    /\ pc[p] # "idle" /\ job[p].op = "run" => job[p].batch \in RunInputs

\* solo means what it says: no other caller works on the stores.
SoloAlone == \A p \in Procs : job[p].solo /\ Busy(p) => Alone(p)

\* Every id with a fact has one open fact, and the ranges of its facts follow one
\* another (fact.go:24, RecordFact); implies FactWindows.
FactOrder ==
  /\ \A f \in facts : \E g \in OpenFacts(facts, f.id) : f.from <= g.from
  /\ \A f \in facts : IsOpen(f) \/ f.from <= f.to
  /\ \A f, g \in facts : f.id = g.id /\ f # g =>
       \/ ~IsOpen(f) /\ f.to <= g.from
       \/ ~IsOpen(g) /\ g.to <= f.from

-----------------------------------------------------------------------------
(* A call in progress that no other call has overlapped.                   *)

\* The order of applyConcept: file, row, vector, links, fact.
HandInv(p) ==
  /\ pc[p] \in InHand => job[p].cur \in job[p].todo
  /\ pc[p] \in InHand \ {"write"} => bundle[job[p].cur.id] = job[p].cur.body
  /\ pc[p] \in {"vector", "edges", "fact"} => concept[job[p].cur.id] = job[p].cur.body
  /\ pc[p] = "fact" => edge[job[p].cur.id] = job[p].cur.body

\* Concepts that are through applyConcept are stored, unless the one in hand
\* has the same id and is about to replace them.
DoneInv(p) ==
  pc[p] \in {"apply"} \cup InHand \cup Applied =>
    /\ job[p].todo \subseteq job[p].batch
    /\ \A d \in job[p].batch \ job[p].todo :
         ~(pc[p] \in InHand /\ job[p].cur.id = d.id) =>
           \E c \in job[p].batch : c.id = d.id /\ Stored(c.id, c.body, job[p].n, job[p].at)
    /\ pc[p] \in Applied => job[p].todo = {}

\* Run has deleted what it did not gather.
ReconciledInv(p) ==
  pc[p] \in Applied \ {"reconcile"} /\ job[p].op = "run" => Orphans(p) = {}

\* The bundle once the file in hand is written.
Mended(p) ==
  IF pc[p] = "write" THEN [bundle EXCEPT ![job[p].cur.id] = job[p].cur.body] ELSE bundle

\* Reindex applies what it read, and what it read stays what the bundle holds.
ReadInv(p) ==
  pc[p] \in {"truncate", "allocate", "apply"} \cup InHand \cup Applied /\ Rebuilds(p) =>
    Readable(Mended(p)) /\ job[p].batch = Files(Mended(p))

\* The concepts Reindex has brought to a table: those that are through, and the
\* one in hand from the steps in S on.
Brought(p, S) == (job[p].batch \ job[p].todo) \cup (IF pc[p] \in S THEN {job[p].cur} ELSE {})

VectorRows(C) == {[id |-> c.id, epoch |-> 0, of |-> c.body] : c \in C}

FactRowsAt(C, at) ==
  {[id |-> c.id, body |-> c.body, epoch |-> 0, from |-> at, to |-> Inf] : c \in C}

EmptiedInv(p) ==
  pc[p] = "allocate" /\ Rebuilds(p) =>
    /\ Files(concept) = {} /\ Files(edge) = {}
    /\ embedding = {} /\ facts = {} /\ epoch = <<>>

\* After the truncation the index holds what was brought to it and nothing else.
BroughtInv(p) ==
  pc[p] \in {"apply"} \cup InHand \cup Applied /\ Rebuilds(p) =>
    /\ Files(concept) = Brought(p, {"vector", "edges", "fact"})
    /\ Files(edge) = Brought(p, {"fact"})
    /\ embedding = VectorRows(Brought(p, {"edges", "fact"}))
    /\ facts = FactRowsAt(Brought(p, {}), job[p].at)
    /\ job[p].n = 0 /\ Len(epoch) = 1

SoloInv(p) ==
  /\ HandInv(p) /\ DoneInv(p) /\ ReconciledInv(p)
  /\ ReadInv(p) /\ EmptiedInv(p) /\ BroughtInv(p)

\* A call nobody overlapped is where the order of its steps says it is, whatever
\* the stores held when it began.
SoloProgress == \A p \in Procs : job[p].solo => SoloInv(p)

\* Everything known of a behaviour, step by step: the inductive invariant of the
\* write path (the order inside Runner.applyConcept).
Progress == TypeOK /\ CurType /\ StepsOfOp /\ SoloAlone /\ SoloProgress

-----------------------------------------------------------------------------
(* Where one Runner does all the writing: the server with its handlers, its *)
(* inbox and its daemon, and no command line beside it.                     *)

OneWriter ==
  /\ \A p, q \in Procs : LockOf[p] = LockOf[q]
  /\ \A p \in Procs : "remove" \notin OpsOf[p]

\* Who works on the stores holds the mutex, and so is alone with them.
Exclusive ==
  \A p \in Procs : Busy(p) => pc[p] \in Locked /\ lock[LockOf[p]] = p /\ job[p].solo

\* The steps a call makes under an epoch number.
UnderEpoch == {"apply"} \cup InHand \cup Applied

\* index.md files follow the bundle from the moment they are written.
NavInv(p) ==
  pc[p] \in {"log", "commit", "stamp", "prune", "return"} /\ ~Rebuilds(p) =>
    nav = IdsOf(Files(bundle))

\* Vectors and facts name epochs the table has, and a concept has one vector in each.
RowsInv ==
  /\ \A e \in embedding : e.epoch < Len(epoch)
  /\ \A f \in facts : f.epoch < Len(epoch)
  /\ \A d, e \in embedding : d.id = e.id /\ d.epoch = e.epoch => d = e

\* The epoch being written is the last; what was brought to embedding and
\* concept_fact so far carries its number, and the prune leaves no other vector.
OwnRowsInv(p) ==
  /\ pc[p] \in UnderEpoch =>
       /\ Len(epoch) = job[p].n + 1
       /\ \A i \in IdsOf(Brought(p, {"edges", "fact"})) :
            \E e \in embedding : e.id = i /\ e.epoch = job[p].n
       /\ \A f \in facts : f.epoch = job[p].n => f.id \in IdsOf(Brought(p, {}))
  /\ pc[p] = "return" =>
       \A e \in embedding : e.id \in IdsOf(job[p].batch) => e.epoch = job[p].n

\* Commit k is that of epoch n: its log line, and its facts as files.
Holds(k, n) ==
  /\ k \in DOMAIN git
  /\ git[k].log # <<>> /\ git[k].log[Len(git[k].log)] = n
  /\ \A f \in facts : f.epoch = n =>
       \E g \in facts : g.id = f.id /\ g.epoch = n /\ git[k].tree[f.id] = g.body

StampedInv == \A n \in 0 .. Len(epoch) - 1 : epoch[n + 1] # 0 => Holds(epoch[n + 1], n)

\* The epoch row stays unstamped until the commit exists and holds the epoch.
StampInv(p) ==
  /\ pc[p] \in UnderEpoch \ {"prune", "return"} => epoch[job[p].n + 1] = 0
  /\ pc[p] = "commit" => log # <<>> /\ log[Len(log)] = job[p].n
  /\ pc[p] = "stamp" => Holds(job[p].sha, job[p].n)

\* Everything known of one Runner's stores, step by step.
OneInv ==
  /\ Progress /\ Exclusive
  /\ RowsInv /\ StampedInv
  /\ \A p \in Procs : NavInv(p) /\ OwnRowsInv(p) /\ StampInv(p)

=============================================================================
