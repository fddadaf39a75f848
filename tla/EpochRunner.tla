----------------------------- MODULE EpochRunner -----------------------------
(***************************************************************************)
(* The write path of pixkb: internal/epoch/runner.go over the markdown     *)
(* bundle (internal/okf), the git repository around it (committer.go) and  *)
(* the derived Postgres index (internal/store/postgres).                   *)
(*                                                                         *)
(* Every process that writes holds one Runner, and the Runner's mutex      *)
(* serializes the calls of that process only: LockOf names the Runner each *)
(* caller goes through.  A call is a sequence of steps on three stores     *)
(* that share no transaction.  Any step can return an error, and a process *)
(* can be killed between any two steps; os.WriteFile truncates before it   *)
(* writes, so a file under construction is Torn.                           *)
(*                                                                         *)
(* A concept is an id and a body, the body standing for everything that is *)
(* derived from the file's text: content hash, vector, outbound links.     *)
(***************************************************************************)
EXTENDS ConceptFact, Sequences, FiniteSets

CONSTANTS
  Ids,         \* concept ids, the bundle-relative paths
  Bodies,      \* contents a concept can have
  Procs,       \* callers of the write path: request handlers, daemons, commands
  Runners,     \* Runner instances, one mutex each
  LockOf,      \* the Runner a caller goes through
  OpsOf,       \* the operations a caller performs
  MaxCalls,    \* bound: calls made in a behaviour
  MaxFaults    \* bound: errors and kills in a behaviour

Absent == "absent"   \* no file, no row
Torn   == "torn"     \* a file truncated and not yet rewritten
Free   == "free"     \* a mutex nobody holds

ASSUME RunnerAssumption ==
  /\ LockOf \in [Procs -> Runners]
  /\ OpsOf \in [Procs -> SUBSET {"run", "upsert", "reindex", "remove"}]
  /\ {Absent, Torn} \cap Bodies = {}
  /\ Free \notin Procs
  /\ MaxCalls \in Nat /\ MaxFaults \in Nat

Concepts == [id : Ids, body : Bodies]
NoConcept == [id |-> Absent, body |-> Absent]
IdsOf(B) == {c.id : c \in B}

VARIABLES
  bundle,     \* id -> text of its file, Absent or Torn
  nav,        \* ids the generated index.md files list
  log,        \* log.md, the epoch numbers appended to it
  git,        \* commits, each with the tree it holds
  concept,    \* table concept: id -> body or Absent
  embedding,  \* table embedding: rows [id, epoch, of], of the body embedded
  edge,       \* table edge: id -> body whose links are stored, or Absent
  facts,      \* table concept_fact
  epoch,      \* table epoch: row n at position n + 1, holding the position in
              \* git of its commit, 0 while git_commit is empty
  clock,      \* the database clock
  lock,       \* Runner -> the caller inside its mutex, or Free
  pc,         \* caller -> next step of its call
  job,        \* caller -> the arguments and locals of its call
  calls, faults  \* the bounds' counters

disk  == <<bundle, nav, log, git>>
index == <<concept, embedding, edge, facts, epoch, clock>>
bound == <<calls, faults>>
vars  == <<disk, index, lock, pc, job, bound>>

-----------------------------------------------------------------------------
\* The concepts a readable bundle holds (okf.ReadBundle).
Files(b) == {c \in Concepts : b[c.id] = c.body}

Readable(b) == \A i \in Ids : b[i] # Torn

\* Steps a caller performs between taking the mutex and giving it back.
Locked == {"read", "truncate", "allocate", "apply", "write", "row", "vector",
           "edges", "fact", "reconcile", "indexes", "log", "commit", "stamp",
           "prune", "return"}

\* Steps of `pixkb concept rm` before it calls Reindex: they hold no mutex.
Unlocked == {"unlink", "rmIndexes", "rmCommit"}

PCs == Locked \cup Unlocked \cup {"idle", "waiting"}

Busy(p) == pc[p] \in Locked \cup Unlocked

\* What a call carries.  solo is a history variable: no other caller has been
\* busy since this one started working on the stores.
Jobs == [op : {"run", "upsert", "reindex", "remove"}, batch : SUBSET Concepts,
         todo : SUBSET Concepts, cur : Concepts \cup {NoConcept},
         n : Nat, at : Nat, sha : Nat, solo : BOOLEAN]

NoJob == [op |-> "reindex", batch |-> {}, todo |-> {}, cur |-> NoConcept,
          n |-> 0, at |-> 0, sha |-> 0, solo |-> FALSE]

Goto(p, from, to) == pc[p] = from /\ pc' = [pc EXCEPT ![p] = to]

\* Caller p starts to touch the stores.
Alone(p) == \A q \in Procs \ {p} : ~Busy(q)

Entered(p) ==
  [q \in Procs |-> [job[q] EXCEPT !.solo = (q = p /\ Alone(p))]]

EndedLocked(S) ==   \* mutant: the deferred Unlock is missing
  /\ pc' = [p \in Procs |-> IF p \in S THEN "idle" ELSE pc[p]]
  /\ job' = [p \in Procs |-> IF p \in S THEN NoJob ELSE job[p]]
  /\ UNCHANGED lock

\* The call is over for the callers in S: their locals go, and a mutex one of
\* them held is unlocked (the deferred Unlock, or the end of the process).
Ended(S) ==
  /\ pc' = [p \in Procs |-> IF p \in S THEN "idle" ELSE pc[p]]
  /\ job' = [p \in Procs |-> IF p \in S THEN NoJob ELSE job[p]]
  /\ lock' = [r \in Runners |-> IF lock[r] \in S THEN Free ELSE lock[r]]

-----------------------------------------------------------------------------
\* A bundle that ships with the deployment, or none, and an empty database.
Init ==
  /\ bundle \in [Ids -> Bodies \cup {Absent}]
  /\ nav = {} /\ log = <<>> /\ git = <<>>
  /\ concept = [i \in Ids |-> Absent] /\ edge = [i \in Ids |-> Absent]
  /\ embedding = {} /\ facts = {} /\ epoch = <<>> /\ clock = 0
  /\ lock = [r \in Runners |-> Free]
  /\ pc = [p \in Procs |-> "idle"]
  /\ job = [p \in Procs |-> NoJob]
  /\ calls = 0 /\ faults = 0

\* Run gets the concepts GatherAll returns, which refuses two with one id.
RunInputs == {B \in SUBSET Concepts : \A c, d \in B : c.id = d.id => c = d}

\* UpsertBatch gets what an agent proposes, possibly an id twice; an empty
\* batch returns before the mutex.
UpsertInputs == SUBSET Concepts \ {{}}

\* A call arrives and, unless it is concept rm, blocks on the mutex.
Call(p, kind, batch) ==
  /\ Goto(p, "idle", "waiting")
  /\ kind \in OpsOf[p] /\ calls < MaxCalls
  /\ job' = [job EXCEPT ![p].op = kind, ![p].batch = batch]
  /\ calls' = calls + 1
  /\ UNCHANGED <<disk, index, lock, faults>>

CallRun(p) == \E B \in RunInputs : Call(p, "run", B)
CallUpsertBatch(p) == \E B \in UpsertInputs : Call(p, "upsert", B)
CallReindex(p) == Call(p, "reindex", {})

LockHeld(p) ==   \* mutant: the mutex is taken whoever holds it
  /\ Goto(p, "waiting", IF job[p].op \in {"reindex", "remove"} THEN "read" ELSE "allocate")
  /\ lock' = [lock EXCEPT ![LockOf[p]] = p]
  /\ job' = Entered(p)
  /\ UNCHANGED <<disk, index, bound>>

Lock(p) ==
  /\ lock[LockOf[p]] = Free
  /\ Goto(p, "waiting", IF job[p].op \in {"reindex", "remove"} THEN "read" ELSE "allocate")
  /\ lock' = [lock EXCEPT ![LockOf[p]] = p]
  /\ job' = Entered(p)
  /\ UNCHANGED <<disk, index, bound>>

-----------------------------------------------------------------------------
(* pixkb concept rm: unlink the file, rebuild the navigation, commit, then  *)
(* Reindex.                                                                *)

RemoveFile(p) ==
  /\ pc[p] = "idle" /\ "remove" \in OpsOf[p] /\ calls < MaxCalls
  /\ \E i \in Ids :
       /\ bundle[i] # Absent
       /\ bundle' = [bundle EXCEPT ![i] = Absent]
  /\ pc' = [pc EXCEPT ![p] = "rmIndexes"]
  /\ job' = [Entered(p) EXCEPT ![p].op = "remove"]
  /\ calls' = calls + 1
  /\ UNCHANGED <<nav, log, git, index, lock, faults>>

RebuildIndexes(p) ==
  /\ Goto(p, "rmIndexes", "rmCommit")
  /\ Readable(bundle)
  /\ nav' = IdsOf(Files(bundle))
  /\ UNCHANGED <<bundle, log, git, index, lock, job, bound>>

CommitRemoval(p) ==
  /\ Goto(p, "rmCommit", "waiting")
  /\ git' = Append(git, [tree |-> bundle, log |-> log])
  /\ UNCHANGED <<bundle, nav, log, index, lock, job, bound>>

-----------------------------------------------------------------------------
(* Reindex: read the bundle, empty the index, replay.                      *)

ReadBundle(p) ==
  /\ Goto(p, "read", "truncate")
  /\ Readable(bundle)
  /\ job' = [job EXCEPT ![p].batch = Files(bundle)]
  /\ UNCHANGED <<disk, index, lock, bound>>

TruncateButFacts(p) ==   \* mutant: TRUNCATE does not name concept_fact
  /\ Goto(p, "truncate", "allocate")
  /\ concept' = [i \in Ids |-> Absent] /\ edge' = [i \in Ids |-> Absent]
  /\ embedding' = {} /\ epoch' = <<>>
  /\ UNCHANGED <<disk, facts, clock, lock, job, bound>>

Truncate(p) ==
  /\ Goto(p, "truncate", "allocate")
  /\ concept' = [i \in Ids |-> Absent] /\ edge' = [i \in Ids |-> Absent]
  /\ embedding' = {} /\ facts' = {} /\ epoch' = <<>>
  /\ UNCHANGED <<disk, clock, lock, job, bound>>

-----------------------------------------------------------------------------
(* The steps Run, UpsertBatch and Reindex share.                           *)

NextEpochIsLast(p) ==   \* mutant: max(n) where max(n) + 1 is meant
  /\ Goto(p, "allocate", "apply")
  /\ epoch' = Append(epoch, 0)
  /\ clock' = clock + 1
  /\ job' = [job EXCEPT ![p].n = Len(epoch) - 1, ![p].at = clock, ![p].todo = job[p].batch]
  /\ UNCHANGED <<disk, concept, embedding, edge, facts, lock, bound>>

\* Rows are only ever added at max(n) + 1 or all removed, so the table is the
\* sequence of its rows.  git_commit starts empty.
NextEpoch(p) ==
  /\ Goto(p, "allocate", "apply")
  /\ epoch' = Append(epoch, 0)
  /\ clock' = clock + 1
  /\ job' = [job EXCEPT ![p].n = Len(epoch), ![p].at = clock, ![p].todo = job[p].batch]
  /\ UNCHANGED <<disk, concept, embedding, edge, facts, lock, bound>>

\* applyAll's loop has another concept: os.WriteFile opens its file, O_TRUNC.
OpenFile(p) ==
  /\ Goto(p, "apply", "write")
  /\ \E c \in job[p].todo :
       /\ job' = [job EXCEPT ![p].cur = c]
       /\ bundle' = [bundle EXCEPT ![c.id] = Torn]
  /\ UNCHANGED <<nav, log, git, index, lock, bound>>

WriteFile(p) ==
  /\ Goto(p, "write", "row")
  /\ bundle' = [bundle EXCEPT ![job[p].cur.id] = job[p].cur.body]
  /\ UNCHANGED <<nav, log, git, index, lock, job, bound>>

UpsertConcept(p) ==
  /\ Goto(p, "row", "vector")
  /\ concept' = [concept EXCEPT ![job[p].cur.id] = job[p].cur.body]
  /\ UNCHANGED <<disk, embedding, edge, facts, epoch, clock, lock, job, bound>>

\* ON CONFLICT (id, epoch) DO UPDATE; the foreign key needs the concept row.
UpsertEmbedding(p) ==
  LET c == job[p].cur IN
  /\ Goto(p, "vector", "edges")
  /\ concept[c.id] # Absent
  /\ embedding' = {e \in embedding : e.id # c.id \/ e.epoch # job[p].n}
                    \cup {[id |-> c.id, epoch |-> job[p].n, of |-> c.body]}
  /\ UNCHANGED <<disk, concept, edge, facts, epoch, clock, lock, job, bound>>

ReplaceEdges(p) ==
  /\ Goto(p, "edges", "fact")
  /\ edge' = [edge EXCEPT ![job[p].cur.id] = job[p].cur.body]
  /\ UNCHANGED <<disk, concept, embedding, facts, epoch, clock, lock, job, bound>>

RecordFact(p) ==
  LET c == job[p].cur IN
  /\ Goto(p, "fact", "apply")
  /\ CanRecord(facts, c.id, job[p].at)
  /\ facts' = Record(facts, c, job[p].n, job[p].at)
  /\ job' = [job EXCEPT ![p].todo = @ \ {c}]
  /\ UNCHANGED <<disk, concept, embedding, edge, epoch, clock, lock, bound>>

\* applyAll is through.
ApplyDone(p) ==
  /\ job[p].todo = {}
  /\ Goto(p, "apply", CASE job[p].op = "run" -> "reconcile"
                        [] job[p].op = "upsert" -> "indexes"
                        [] OTHER -> "prune")
  /\ UNCHANGED <<disk, index, lock, job, bound>>

\* Files ReconcileBundle has still to delete.
Orphans(p) == {i \in Ids : bundle[i] # Absent /\ i \notin IdsOf(job[p].batch)}

ReconcileFile(p) ==
  /\ pc[p] = "reconcile"
  /\ \E i \in Orphans(p) : bundle' = [bundle EXCEPT ![i] = Absent]
  /\ UNCHANGED <<nav, log, git, index, lock, pc, job, bound>>

ReconcileCutShort(p) ==   \* mutant: the walk stops at the first deletion
  /\ Goto(p, "reconcile", "indexes")
  /\ UNCHANGED <<disk, index, lock, job, bound>>

ReconcileDone(p) ==
  /\ Goto(p, "reconcile", "indexes")
  /\ Orphans(p) = {}
  /\ UNCHANGED <<disk, index, lock, job, bound>>

WriteIndexesMerged(p) ==   \* mutant: entries of files that have gone stay
  /\ Goto(p, "indexes", "log")
  /\ Readable(bundle)
  /\ nav' = nav \cup IdsOf(Files(bundle))
  /\ UNCHANGED <<bundle, log, git, index, lock, job, bound>>

WriteIndexes(p) ==
  /\ Goto(p, "indexes", "log")
  /\ Readable(bundle)
  /\ nav' = IdsOf(Files(bundle))
  /\ UNCHANGED <<bundle, log, git, index, lock, job, bound>>

AppendLog(p) ==
  /\ Goto(p, "log", "commit")
  /\ log' = Append(log, job[p].n)
  /\ UNCHANGED <<bundle, nav, git, index, lock, job, bound>>

CommitBeforeLog(p) ==   \* mutant: the commit misses the line just appended
  /\ Goto(p, "commit", "stamp")
  /\ git' = Append(git, [tree |-> bundle, log |-> SubSeq(log, 1, Len(log) - 1)])
  /\ job' = [job EXCEPT ![p].sha = Len(git) + 1]
  /\ UNCHANGED <<bundle, nav, log, index, lock, bound>>

Commit(p) ==
  /\ Goto(p, "commit", "stamp")
  /\ git' = Append(git, [tree |-> bundle, log |-> log])
  /\ job' = [job EXCEPT ![p].sha = Len(git) + 1]
  /\ UNCHANGED <<bundle, nav, log, index, lock, bound>>

\* UPDATE epoch ... WHERE n = $1, which matches no row when another process has
\* emptied the table.
SetEpochCommit(p) ==
  /\ Goto(p, "stamp", "prune")
  /\ epoch' = [m \in DOMAIN epoch |-> IF m = job[p].n + 1 THEN job[p].sha ELSE epoch[m]]
  /\ UNCHANGED <<disk, concept, embedding, edge, facts, clock, lock, job, bound>>

PruneNewer(p) ==   \* mutant: e.epoch > k.m where e.epoch < k.m is meant
  /\ Goto(p, "prune", "return")
  /\ embedding' = {e \in embedding : \A d \in embedding : d.id = e.id => d.epoch >= e.epoch}
  /\ UNCHANGED <<disk, concept, edge, facts, epoch, clock, lock, job, bound>>

PruneEmbeddings(p) ==
  /\ Goto(p, "prune", "return")
  /\ embedding' = {e \in embedding : \A d \in embedding : d.id = e.id => d.epoch <= e.epoch}
  /\ UNCHANGED <<disk, concept, edge, facts, epoch, clock, lock, job, bound>>

Return(p) ==
  /\ pc[p] = "return"
  /\ Ended({p})
  /\ UNCHANGED <<disk, index, bound>>

-----------------------------------------------------------------------------
(* Errors and kills.                                                       *)

\* Steps that cannot but return an error: a bundle file without its fences, a
\* vector without its concept row, a valid range that would end before it starts.
Refused(p) ==
  \/ pc[p] \in {"read", "indexes", "rmIndexes"} /\ ~Readable(bundle)
  \/ pc[p] = "vector" /\ concept[job[p].cur.id] = Absent
  \/ pc[p] = "fact" /\ ~CanRecord(facts, job[p].cur.id, job[p].at)

ReturnRefused(p) == Refused(p) /\ Ended({p}) /\ UNCHANGED <<disk, index, bound>>

\* Any other step fails: the embedder, the database, the disk or git.
ReturnError(p) ==
  /\ Busy(p) /\ pc[p] # "return" /\ faults < MaxFaults
  /\ faults' = faults + 1
  /\ Ended({p})
  /\ UNCHANGED <<disk, index, calls>>

\* The process that holds Runner r is killed.
Kill(r) ==
  LET victims == {p \in Procs : LockOf[p] = r} IN
  /\ faults < MaxFaults /\ \E p \in victims : pc[p] # "idle"
  /\ faults' = faults + 1
  /\ Ended(victims)
  /\ UNCHANGED <<disk, index, calls>>

-----------------------------------------------------------------------------
RemoveStep(p) == RebuildIndexes(p) \/ CommitRemoval(p)

ReindexStep(p) == ReadBundle(p) \/ Truncate(p)

ApplyStep(p) ==
  \/ OpenFile(p) \/ WriteFile(p) \/ UpsertConcept(p) \/ UpsertEmbedding(p)
  \/ ReplaceEdges(p) \/ RecordFact(p) \/ ApplyDone(p)

FinishStep(p) ==
  \/ ReconcileFile(p) \/ ReconcileDone(p) \/ WriteIndexes(p) \/ AppendLog(p)
  \/ Commit(p) \/ SetEpochCommit(p) \/ PruneEmbeddings(p) \/ Return(p)

\* What a caller inside its call does next.
Step(p) ==
  RemoveStep(p) \/ ReindexStep(p) \/ NextEpoch(p) \/ ApplyStep(p) \/ FinishStep(p)
  \/ ReturnRefused(p)

\* The bound is reached and every call is over.
Finished == calls = MaxCalls /\ (\A p \in Procs : pc[p] = "idle") /\ UNCHANGED vars

Next ==
  \/ \E p \in Procs :
       \/ CallRun(p) \/ CallUpsertBatch(p) \/ CallReindex(p) \/ RemoveFile(p)
       \/ Lock(p) \/ Step(p) \/ ReturnError(p)
  \/ \E r \in Runners : Kill(r)
  \/ Finished

Spec == Init /\ [][Next]_vars

\* A step that can be taken is taken, and sync.Mutex hands itself over in turn
\* to callers that wait.  Nothing is assumed of calls, errors and kills.
FairSpec == Spec /\ \A p \in Procs : WF_vars(Step(p)) /\ SF_vars(Lock(p))

-----------------------------------------------------------------------------
(* Correctness.                                                            *)

Rows == [id : Ids, epoch : Nat, of : Bodies]

TypeOK ==
  /\ bundle \in [Ids -> Bodies \cup {Absent, Torn}]
  /\ nav \subseteq Ids /\ log \in Seq(Nat)
  /\ git \in Seq([tree : [Ids -> Bodies \cup {Absent, Torn}], log : Seq(Nat)])
  /\ concept \in [Ids -> Bodies \cup {Absent}] /\ edge \in [Ids -> Bodies \cup {Absent}]
  /\ embedding \subseteq Rows
  /\ facts \subseteq [id : Ids, body : Bodies, epoch : Nat, from : Nat, to : Nat \cup {Inf}]
  /\ epoch \in Seq(Nat) /\ clock \in Nat
  /\ lock \in [Runners -> Procs \cup {Free}]
  /\ pc \in [Procs -> PCs] /\ job \in [Procs -> Jobs]
  /\ calls \in Nat /\ faults \in Nat

\* File, row, links and current fact of concept i say what epoch n recorded: body b.
Stored(i, b, n, at) ==
  /\ bundle[i] = b /\ concept[i] = b /\ edge[i] = b
  /\ OpenFacts(facts, i) = {[id |-> i, body |-> b, epoch |-> n, from |-> at, to |-> Inf]}

\* A call that returns without an error, and that no other call overlapped, has
\* left every concept of its batch the same in the bundle and in the tables
\* (runner.go:100, applyAll), in whatever state the calls before it ended.  The
\* vectors are LatestVector's: a stale epoch number can outlive them.
BatchStored ==
  \A p \in Procs : pc[p] = "return" /\ job[p].solo =>
    \A i \in IdsOf(job[p].batch) :
      \E c \in job[p].batch : c.id = i /\ Stored(i, c.body, job[p].n, job[p].at)

\* After Run "the on-disk bundle exactly materializes the current set" (runner.go
\* :77): a file for each concept gathered and no other, so that a later Reindex
\* cannot bring a dropped concept back.
RunMaterializes ==
  \A p \in Procs : pc[p] = "return" /\ job[p].solo /\ job[p].op = "run" =>
    Files(bundle) = job[p].batch /\ Readable(bundle)

\* After Reindex the index is a function of the bundle (runner.go:246): nothing
\* of what earlier errors, kills or overlapping writers left survives in it.
ReindexRestores ==
  \A p \in Procs : pc[p] = "return" /\ job[p].solo /\ job[p].op \in {"reindex", "remove"} =>
    /\ concept = bundle /\ edge = bundle
    /\ embedding = {[id |-> c.id, epoch |-> 0, of |-> c.body] : c \in Files(bundle)}
    /\ facts = {[id |-> c.id, body |-> c.body, epoch |-> 0, from |-> job[p].at, to |-> Inf]
                  : c \in Files(bundle)}
    /\ Len(epoch) = 1

\* Where one Runner does all the writing: no row of concept takes a body that is
\* not the one its file holds at that moment, so the index never runs ahead of
\* the source of truth on a body (runner.go:172, the order inside applyConcept).
RowFollowsFile ==
  [][\A i \in Ids : concept'[i] \notin {concept[i], Absent} => bundle[i] = concept'[i]]_vars

\* Where one Runner does all the writing: the commit an epoch row names holds the
\* epoch's own log line last, and each fact of the epoch as a file (of two
\* facts for one id, one of them).
CommitHoldsEpoch ==
  \A f \in facts :
    f.epoch < Len(epoch) /\ epoch[f.epoch + 1] # 0 =>
      LET commit == git[epoch[f.epoch + 1]] IN
      /\ commit.log # <<>> /\ commit.log[Len(commit.log)] = f.epoch
      /\ \E g \in facts : /\ g.id = f.id /\ g.epoch = f.epoch
                          /\ commit.tree[f.id] = g.body

\* Where one Runner does all the writing: what AsOf answers for an epoch changes
\* only while that epoch is being written, until Reindex drops the history.
AsOfBodies(F, n) == {[id |-> f.id, body |-> f.body] : f \in AsOfEpoch(F, n)}

AsOfStable ==
  [][\A n \in 0 .. Len(epoch) - 1 :
       epoch' # <<>> /\ ~(\E p \in Procs : pc[p] \in Locked /\ job[p].n = n)
       => AsOfBodies(facts', n) = AsOfBodies(facts, n)]_vars

\* The valid ranges of one concept never overlap and none ends before it starts
\* (fact.go:10, RecordFact's two statements).
FactWindows ==
  /\ \A f \in facts : IsOpen(f) \/ f.from <= f.to
  /\ \A f, g \in facts : f.id = g.id /\ f # g =>
       \A t \in 0 .. clock : ~(ValidAt(f, t) /\ ValidAt(g, t))

\* Where one Runner does all the writing: after a call that pruned, the vector
\* search reads for a concept of the batch is the one just computed, and no
\* superseded vector is left (maintenance.go:26).
LatestVector ==
  \A p \in Procs : pc[p] = "return" =>
    \A i \in IdsOf(job[p].batch) :
      \E b \in Bodies : {e \in embedding : e.id = i} = {[id |-> i, epoch |-> job[p].n, of |-> b]}

\* Where one Runner does all the writing: a completed Run or UpsertBatch leaves
\* index.md files that list the concepts of the bundle, none that has gone.
NavigationCurrent ==
  \A p \in Procs : pc[p] = "return" /\ job[p].op \in {"run", "upsert"} =>
    nav = IdsOf(Files(bundle))

\* A caller that waits for the mutex gets it and comes back, with a result or an
\* error: no call can leave the mutex locked (defer r.mu.Unlock()).
CallReturns == \A p \in Procs : pc[p] = "waiting" ~> pc[p] = "idle"

=============================================================================
