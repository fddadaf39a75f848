------------------------- MODULE EpochRunner_proofs -------------------------
(***************************************************************************)
(* What TLAPS proves of EpochRunner, for any set of concepts, callers and  *)
(* Runners and any number of calls, errors and kills.  First what holds of *)
(* any deployment: types and the order of facts.  Then what a call that no *)
(* other call overlapped leaves behind: BatchStored, RunMaterializes and   *)
(* ReindexRestores, from whatever state errors, kills and overlapping      *)
(* calls have left.  Last, where one Runner does all the writing           *)
(* (OneWriter): mutual exclusion, and what follows from it for the order   *)
(* of file and row, the navigation, the vectors, the facts of an epoch and *)
(* its commit.                                                             *)
(***************************************************************************)
EXTENDS EpochRunnerInvariant, TLAPS

USE RunnerAssumption, InfAssumption

-----------------------------------------------------------------------------
(* Types.                                                                  *)

LEMMA FilesType == \A b : Files(b) \in SUBSET Concepts
  BY DEF Files

LEMMA IdsOfType == \A B \in SUBSET Concepts : IdsOf(B) \in SUBSET Ids
  BY DEF IdsOf, Concepts

LEMMA JobFields ==
  \A j \in Jobs : /\ j.batch \in SUBSET Concepts /\ j.todo \in SUBSET Concepts
                  /\ j.cur \in Concepts \cup {NoConcept}
                  /\ j.n \in Nat /\ j.at \in Nat /\ j.sha \in Nat
  BY DEF Jobs

LEMMA JobUpdates ==
  \A j \in Jobs :
    /\ \A k \in {"run", "upsert", "reindex", "remove"}, B \in SUBSET Concepts :
         [j EXCEPT !.op = k, !.batch = B] \in Jobs /\ [j EXCEPT !.op = k] \in Jobs
    /\ \A b \in BOOLEAN : [j EXCEPT !.solo = b] \in Jobs
    /\ \A B \in SUBSET Concepts : [j EXCEPT !.batch = B] \in Jobs
    /\ \A n, a \in Nat, T \in SUBSET Concepts :
         [j EXCEPT !.n = n, !.at = a, !.todo = T] \in Jobs
    /\ \A c \in Concepts : [j EXCEPT !.cur = c] \in Jobs
    /\ \A T \in SUBSET Concepts : [j EXCEPT !.todo = T] \in Jobs
    /\ \A k \in Nat : [j EXCEPT !.sha = k] \in Jobs
<1> TAKE j \in Jobs
<1>1. \A k \in {"run", "upsert", "reindex", "remove"}, B \in SUBSET Concepts :
        [j EXCEPT !.op = k, !.batch = B] \in Jobs /\ [j EXCEPT !.op = k] \in Jobs
  BY DEF Jobs
<1>2. \A b \in BOOLEAN : [j EXCEPT !.solo = b] \in Jobs
  BY DEF Jobs
<1>3. \A B \in SUBSET Concepts : [j EXCEPT !.batch = B] \in Jobs
  BY DEF Jobs
<1>4. \A n, a \in Nat, T \in SUBSET Concepts :
        [j EXCEPT !.n = n, !.at = a, !.todo = T] \in Jobs
  BY DEF Jobs
<1>5. \A c \in Concepts : [j EXCEPT !.cur = c] \in Jobs
  BY DEF Jobs
<1>6. \A T \in SUBSET Concepts : [j EXCEPT !.todo = T] \in Jobs
  BY DEF Jobs
<1>7. \A k \in Nat : [j EXCEPT !.sha = k] \in Jobs
  BY DEF Jobs
<1> QED BY <1>1, <1>2, <1>3, <1>4, <1>5, <1>6, <1>7

LEMMA NoJobType == NoJob \in Jobs
  BY DEF NoJob, Jobs

LEMMA EnteredType ==
  ASSUME job \in [Procs -> Jobs], NEW p \in Procs
  PROVE  Entered(p) \in [Procs -> Jobs]
<1>1. \A q \in Procs : (q = p /\ Alone(p)) \in BOOLEAN
  OBVIOUS
<1> QED BY <1>1, JobUpdates DEF Entered

LEMMA EndedType ==
  ASSUME TypeOK, NEW S, Ended(S)
  PROVE  /\ pc' \in [Procs -> PCs] /\ job' \in [Procs -> Jobs]
         /\ lock' \in [Runners -> Procs \cup {Free}]
<1>1. pc' \in [Procs -> PCs]
  BY DEF TypeOK, Ended, PCs
<1>2. job' \in [Procs -> Jobs]
  BY NoJobType DEF TypeOK, Ended
<1>3. lock' \in [Runners -> Procs \cup {Free}]
  BY DEF TypeOK, Ended
<1> QED BY <1>1, <1>2, <1>3

LEMMA GotoType ==
  ASSUME pc \in [Procs -> PCs], NEW p \in Procs, NEW from, NEW to \in PCs, Goto(p, from, to)
  PROVE  pc' \in [Procs -> PCs]
  BY DEF Goto

\* What a commit holds.
Trees == [tree : [Ids -> Bodies \cup {Absent, Torn}], log : Seq(Nat)]

LEMMA CommitType ==
  ASSUME TypeOK
  PROVE  Append(git, [tree |-> bundle, log |-> log]) \in Seq(Trees)
<1>1. [tree |-> bundle, log |-> log] \in Trees
  BY DEF TypeOK, Trees
<1>2. git \in Seq(Trees)
  BY DEF TypeOK, Trees
<1> QED BY <1>1, <1>2

\* The rows of concept_fact.
FactRows == [id : Ids, body : Bodies, epoch : Nat, from : Nat, to : Nat \cup {Inf}]

LEMMA RecordType ==
  ASSUME NEW F \in SUBSET FactRows, NEW c \in Concepts, NEW n \in Nat, NEW at \in Nat
  PROVE  Record(F, c, n, at) \in SUBSET FactRows
<1>1. c.id \in Ids /\ c.body \in Bodies
  BY DEF Concepts
<1>2. [id |-> c.id, body |-> c.body, epoch |-> n, from |-> at, to |-> Inf] \in FactRows
  BY <1>1 DEF FactRows
<1>3. \A f \in F : [f EXCEPT !.to = at] \in FactRows
  BY DEF FactRows
<1> QED BY <1>2, <1>3 DEF Record

LEMMA TypeInit == Init => TypeOK /\ CurType
<1> SUFFICES ASSUME Init PROVE TypeOK /\ CurType
  OBVIOUS
<1>1. pc \in [Procs -> PCs] /\ job \in [Procs -> Jobs]
  BY NoJobType DEF Init, PCs
<1>2. <<>> \in Seq(Nat) /\ <<>> \in Seq([tree : [Ids -> Bodies \cup {Absent, Torn}], log : Seq(Nat)])
  OBVIOUS
<1>3. bundle \in [Ids -> Bodies \cup {Absent, Torn}]
  BY DEF Init
<1> QED BY <1>1, <1>2, <1>3 DEF Init, TypeOK, CurType, InHand

LEMMA TypeCall ==
  ASSUME TypeOK, CurType, NEW p \in Procs,
         CallRun(p) \/ CallUpsertBatch(p) \/ CallReindex(p)
  PROVE  TypeOK' /\ CurType'
<1>1. PICK kind \in {"run", "upsert", "reindex"}, B \in SUBSET Concepts : Call(p, kind, B)
  BY DEF CallRun, CallUpsertBatch, CallReindex, RunInputs, UpsertInputs
<1>2. job' \in [Procs -> Jobs]
  BY <1>1, JobUpdates DEF Call, TypeOK
<1>3. pc' \in [Procs -> PCs]
  BY <1>1, GotoType DEF Call, TypeOK, PCs
<1>4. CurType'
  BY <1>1 DEF Call, Goto, CurType, InHand, TypeOK
<1> QED BY <1>1, <1>2, <1>3, <1>4 DEF Call, TypeOK, disk, index

LEMMA TypeLock ==
  ASSUME TypeOK, CurType, NEW p \in Procs, Lock(p)
  PROVE  TypeOK' /\ CurType'
<1>1. job' \in [Procs -> Jobs]
  BY EnteredType DEF Lock, TypeOK
<1>2. pc' \in [Procs -> PCs]
  BY DEF Lock, Goto, TypeOK, PCs, Locked
<1>3. CurType'
  <2>1. \A q \in Procs : job'[q].cur = job[q].cur
    BY DEF Lock, Entered, TypeOK, Jobs
  <2> QED BY <2>1 DEF Lock, Goto, CurType, InHand, TypeOK
<1> QED BY <1>1, <1>2, <1>3 DEF Lock, TypeOK, disk, index, bound

LEMMA TypeRemoveFile ==
  ASSUME TypeOK, CurType, NEW p \in Procs, RemoveFile(p)
  PROVE  TypeOK' /\ CurType'
<1>1. job' \in [Procs -> Jobs]
  <2>1. Entered(p) \in [Procs -> Jobs]
    BY EnteredType DEF TypeOK
  <2> HIDE DEF Entered
  <2> QED BY <2>1, JobUpdates DEF RemoveFile
<1>2. pc' \in [Procs -> PCs]
  BY DEF RemoveFile, TypeOK, PCs, Unlocked
<1>3. CurType'
  <2>1. \A q \in Procs : job'[q].cur = job[q].cur
    BY DEF RemoveFile, Entered, TypeOK, Jobs
  <2> QED BY <2>1 DEF RemoveFile, CurType, InHand, TypeOK
<1>4. bundle' \in [Ids -> Bodies \cup {Absent, Torn}]
  BY DEF RemoveFile, TypeOK
<1> QED BY <1>1, <1>2, <1>3, <1>4 DEF RemoveFile, TypeOK, disk, index, bound

LEMMA TypeRemoveStep ==
  ASSUME TypeOK, CurType, NEW p \in Procs, RemoveStep(p)
  PROVE  TypeOK' /\ CurType'
<1>1. pc' \in [Procs -> PCs] /\ CurType'
  BY DEF RemoveStep, RebuildIndexes, CommitRemoval, Goto, TypeOK, CurType, InHand, PCs, Unlocked
<1>2. CASE RebuildIndexes(p)
  <2>1. nav' \subseteq Ids
    BY <1>2, FilesType, IdsOfType DEF RebuildIndexes
  <2> QED BY <1>1, <1>2, <2>1 DEF RebuildIndexes, TypeOK, index, bound
<1>3. CASE CommitRemoval(p)
  <2>1. git' \in Seq(Trees)
    BY <1>3, CommitType DEF CommitRemoval
  <2> QED BY <1>1, <1>3, <2>1 DEF CommitRemoval, TypeOK, Trees, index, bound
<1> QED BY <1>2, <1>3 DEF RemoveStep

LEMMA TypeReindexStep ==
  ASSUME TypeOK, CurType, NEW p \in Procs, ReindexStep(p)
  PROVE  TypeOK' /\ CurType'
<1>1. CASE ReadBundle(p)
  <2>1. job' \in [Procs -> Jobs]
    BY <1>1, FilesType, JobUpdates DEF ReadBundle, TypeOK
  <2>2. \A q \in Procs : job'[q].cur = job[q].cur
    BY <1>1 DEF ReadBundle, TypeOK, Jobs
  <2>3. pc' \in [Procs -> PCs] /\ CurType'
    BY <1>1, <2>2 DEF ReadBundle, Goto, TypeOK, CurType, InHand, PCs, Locked
  <2> QED BY <1>1, <2>1, <2>3 DEF ReadBundle, TypeOK, disk, index, bound
<1>2. CASE Truncate(p)
  <2>1. pc' \in [Procs -> PCs] /\ CurType'
    BY <1>2 DEF Truncate, Goto, TypeOK, CurType, InHand, PCs, Locked
  <2>2. <<>> \in Seq(Nat)
    OBVIOUS
  <2> QED BY <1>2, <2>1, <2>2 DEF Truncate, TypeOK, disk, bound
<1> QED BY <1>1, <1>2 DEF ReindexStep

LEMMA TypeNextEpoch ==
  ASSUME TypeOK, CurType, NEW p \in Procs, NextEpoch(p)
  PROVE  TypeOK' /\ CurType'
<1>1. Len(epoch) \in Nat /\ Append(epoch, 0) \in Seq(Nat) /\ clock + 1 \in Nat
  BY DEF TypeOK
<1>2. job' \in [Procs -> Jobs]
  <2>1. job[p].batch \in SUBSET Concepts /\ job \in [Procs -> Jobs] /\ clock \in Nat
    BY JobFields DEF TypeOK
  <2> QED BY <1>1, <2>1, JobUpdates DEF NextEpoch
<1>3. \A q \in Procs : job'[q].cur = job[q].cur
  BY SMTT(30) DEF NextEpoch, TypeOK, Jobs
<1>4. pc' \in [Procs -> PCs] /\ CurType'
  BY <1>3 DEF NextEpoch, Goto, TypeOK, CurType, InHand, PCs, Locked
<1> QED BY <1>1, <1>2, <1>4 DEF NextEpoch, TypeOK, disk, bound

LEMMA TypeApplyStep ==
  ASSUME TypeOK, CurType, NEW p \in Procs, ApplyStep(p)
  PROVE  TypeOK' /\ CurType'
<1> DEFINE c == job[p].cur
<1>0. /\ job \in [Procs -> Jobs] /\ pc \in [Procs -> PCs]
      /\ c \in Concepts \cup {NoConcept} /\ job[p].n \in Nat /\ job[p].at \in Nat
      /\ job[p].todo \in SUBSET Concepts
  BY JobFields DEF TypeOK
<1>c. ASSUME c \in Concepts PROVE c.id \in Ids /\ c.body \in Bodies
  BY <1>c DEF Concepts
<1>1. CASE OpenFile(p)
  <2>1. PICK d \in Concepts :
          job' = [job EXCEPT ![p].cur = d] /\ bundle' = [bundle EXCEPT ![d.id] = Torn]
    BY <1>0, <1>1 DEF OpenFile
  <2>2. job' \in [Procs -> Jobs]
    BY <1>0, <2>1, JobUpdates
  <2>3. job'[p].cur = d /\ \A q \in Procs \ {p} : job'[q] = job[q]
    BY <1>0, <2>1 DEF Jobs
  <2>4. pc' \in [Procs -> PCs] /\ CurType'
    BY <1>1, <2>3 DEF OpenFile, Goto, TypeOK, CurType, InHand, PCs, Locked
  <2>5. bundle' \in [Ids -> Bodies \cup {Absent, Torn}]
    BY <2>1 DEF TypeOK, Concepts
  <2> QED BY <1>1, <2>2, <2>4, <2>5 DEF OpenFile, TypeOK, index, bound
<1>2. CASE WriteFile(p) \/ UpsertConcept(p) \/ UpsertEmbedding(p) \/ ReplaceEdges(p)
  <2>1. c \in Concepts
    BY <1>2 DEF WriteFile, UpsertConcept, UpsertEmbedding, ReplaceEdges, Goto, CurType, InHand
  <2>2. pc' \in [Procs -> PCs] /\ CurType'
    BY <1>2 DEF WriteFile, UpsertConcept, UpsertEmbedding, ReplaceEdges, Goto, TypeOK,
                CurType, InHand, PCs, Locked
  <2>3. CASE WriteFile(p)
    <3>1. bundle' \in [Ids -> Bodies \cup {Absent, Torn}]
      BY <2>1, <2>3, <1>c DEF WriteFile, TypeOK
    <3> QED BY <2>2, <2>3, <3>1 DEF WriteFile, TypeOK, index, bound
  <2>4. CASE UpsertConcept(p) \/ ReplaceEdges(p)
    <3>1. concept' \in [Ids -> Bodies \cup {Absent}] /\ edge' \in [Ids -> Bodies \cup {Absent}]
      BY <2>1, <2>4, <1>c DEF UpsertConcept, ReplaceEdges, TypeOK
    <3> QED BY <2>2, <2>4, <3>1 DEF UpsertConcept, ReplaceEdges, TypeOK, disk, bound
  <2>5. CASE UpsertEmbedding(p)
    <3>1. embedding' \subseteq Rows
      BY <2>1, <2>5, <1>0, <1>c DEF UpsertEmbedding, TypeOK, Rows
    <3> QED BY <2>2, <2>5, <3>1 DEF UpsertEmbedding, TypeOK, disk, bound
  <2> QED BY <1>2, <2>3, <2>4, <2>5
<1>3. CASE RecordFact(p)
  <2>1. c \in Concepts
    BY <1>3 DEF RecordFact, Goto, CurType, InHand
  <2>2. job' \in [Procs -> Jobs]
    <3>1. job[p].todo \ {c} \in SUBSET Concepts
      BY <1>0
    <3> QED BY <1>0, <1>3, <3>1, JobUpdates DEF RecordFact
  <2>3. \A q \in Procs : job'[q].cur = job[q].cur
    BY <1>0, <1>3 DEF RecordFact, Jobs
  <2>4. pc' \in [Procs -> PCs] /\ CurType'
    BY <1>3, <2>3 DEF RecordFact, Goto, TypeOK, CurType, InHand, PCs, Locked
  <2>5. facts' \subseteq [id : Ids, body : Bodies, epoch : Nat, from : Nat, to : Nat \cup {Inf}]
    <3>1. facts \in SUBSET FactRows
      BY DEF TypeOK, FactRows
    <3>2. facts' = Record(facts, c, job[p].n, job[p].at)
      BY <1>3 DEF RecordFact
    <3>3. facts' \in SUBSET FactRows
      BY <1>0, <2>1, <3>1, <3>2, RecordType
    <3> QED BY <3>3 DEF FactRows
  <2> QED BY <1>3, <2>2, <2>4, <2>5 DEF RecordFact, TypeOK, disk, bound
<1>4. CASE ApplyDone(p)
  <2>1. pc' \in [Procs -> PCs] /\ CurType'
    BY <1>4 DEF ApplyDone, Goto, TypeOK, CurType, InHand, PCs, Locked
  <2> QED BY <1>4, <2>1 DEF ApplyDone, TypeOK, disk, index, bound
<1> QED BY <1>1, <1>2, <1>3, <1>4 DEF ApplyStep

LEMMA TypeFinishStep ==
  ASSUME TypeOK, CurType, NEW p \in Procs, FinishStep(p)
  PROVE  TypeOK' /\ CurType'
<1>0. job \in [Procs -> Jobs] /\ pc \in [Procs -> PCs] /\ job[p].n \in Nat /\ job[p].sha \in Nat
  BY JobFields DEF TypeOK
<1>1. CASE ReconcileFile(p)
  <2>1. bundle' \in [Ids -> Bodies \cup {Absent, Torn}]
    BY <1>1 DEF ReconcileFile, TypeOK
  <2> QED BY <1>1, <2>1 DEF ReconcileFile, TypeOK, CurType, InHand, index, bound
<1>2. CASE ReconcileDone(p)
  <2>1. pc' \in [Procs -> PCs] /\ CurType'
    BY <1>2 DEF ReconcileDone, Goto, TypeOK, CurType, InHand, PCs, Locked
  <2> QED BY <1>2, <2>1 DEF ReconcileDone, TypeOK, disk, index, bound
<1>3. CASE WriteIndexes(p)
  <2>1. pc' \in [Procs -> PCs] /\ CurType'
    BY <1>3 DEF WriteIndexes, Goto, TypeOK, CurType, InHand, PCs, Locked
  <2>2. nav' \subseteq Ids
    BY <1>3, FilesType, IdsOfType DEF WriteIndexes
  <2> QED BY <1>3, <2>1, <2>2 DEF WriteIndexes, TypeOK, index, bound
<1>4. CASE AppendLog(p)
  <2>1. pc' \in [Procs -> PCs] /\ CurType'
    BY <1>4 DEF AppendLog, Goto, TypeOK, CurType, InHand, PCs, Locked
  <2>2. log' \in Seq(Nat)
    BY <1>0, <1>4 DEF AppendLog, TypeOK
  <2> QED BY <1>4, <2>1, <2>2 DEF AppendLog, TypeOK, index, bound
<1>5. CASE Commit(p)
  <2>1. git' \in Seq(Trees) /\ git \in Seq(Trees)
    BY <1>5, CommitType DEF Commit, TypeOK, Trees
  <2>2. Len(git) + 1 \in Nat
    BY <2>1
  <2>3. job' \in [Procs -> Jobs]
    BY <1>0, <1>5, <2>2, JobUpdates DEF Commit
  <2>4. \A q \in Procs : job'[q].cur = job[q].cur
    BY <1>0, <1>5 DEF Commit, Jobs
  <2>5. pc' \in [Procs -> PCs] /\ CurType'
    BY <1>5, <2>4 DEF Commit, Goto, TypeOK, CurType, InHand, PCs, Locked
  <2> QED BY <1>5, <2>1, <2>3, <2>5 DEF Commit, TypeOK, Trees, index, bound
<1>6. CASE SetEpochCommit(p)
  <2>1. pc' \in [Procs -> PCs] /\ CurType'
    BY <1>6 DEF SetEpochCommit, Goto, TypeOK, CurType, InHand, PCs, Locked
  <2>2. epoch' \in Seq(Nat)
    <3>1. epoch \in Seq(Nat) /\ DOMAIN epoch = 1 .. Len(epoch) /\ Len(epoch) \in Nat
      BY DEF TypeOK
    <3>2. epoch' \in [1 .. Len(epoch) -> Nat]
      BY <1>0, <1>6, <3>1 DEF SetEpochCommit
    <3> QED BY <3>1, <3>2
  <2> QED BY <1>6, <2>1, <2>2 DEF SetEpochCommit, TypeOK, disk, bound
<1>7. CASE PruneEmbeddings(p)
  <2>1. pc' \in [Procs -> PCs] /\ CurType'
    BY <1>7 DEF PruneEmbeddings, Goto, TypeOK, CurType, InHand, PCs, Locked
  <2>2. embedding' \subseteq Rows
    BY <1>7 DEF PruneEmbeddings, TypeOK
  <2> QED BY <1>7, <2>1, <2>2 DEF PruneEmbeddings, TypeOK, disk, bound
<1>8. CASE Return(p)
  <2>1. TypeOK'
    BY <1>8, EndedType DEF Return, TypeOK, disk, index, bound
  <2>2. CurType'
    BY <1>8 DEF Return, Ended, CurType, InHand, TypeOK
  <2> QED BY <2>1, <2>2
<1> QED BY <1>1, <1>2, <1>3, <1>4, <1>5, <1>6, <1>7, <1>8 DEF FinishStep

LEMMA TypeEnd ==
  ASSUME TypeOK, CurType,
         (\E p \in Procs : ReturnRefused(p) \/ ReturnError(p)) \/ (\E r \in Runners : Kill(r))
  PROVE  TypeOK' /\ CurType'
<1>1. PICK S : Ended(S)
  BY DEF ReturnRefused, ReturnError, Kill
<1>2. /\ pc' \in [Procs -> PCs] /\ job' \in [Procs -> Jobs]
      /\ lock' \in [Runners -> Procs \cup {Free}]
  BY <1>1, EndedType
<1>3. CurType'
  BY <1>1 DEF Ended, CurType, InHand, TypeOK
<1>4. UNCHANGED <<disk, index, calls>> /\ faults' \in {faults, faults + 1}
  BY DEF ReturnRefused, ReturnError, Kill, bound
<1>5. faults \in Nat /\ calls \in Nat
  BY DEF TypeOK
<1>6. faults' \in Nat
  BY <1>4, <1>5
<1> QED BY <1>6, <1>2, <1>3, <1>4 DEF TypeOK, disk, index

LEMMA TypeNext == TypeOK /\ CurType /\ [Next]_vars => TypeOK' /\ CurType'
<1> SUFFICES ASSUME TypeOK, CurType, [Next]_vars PROVE TypeOK' /\ CurType'
  OBVIOUS
<1>1. CASE UNCHANGED vars
  BY <1>1 DEF TypeOK, CurType, InHand, vars, disk, index, bound
<1>2. ASSUME NEW p \in Procs, CallRun(p) \/ CallUpsertBatch(p) \/ CallReindex(p)
      PROVE  TypeOK' /\ CurType'
  BY <1>2, TypeCall
<1>3. ASSUME NEW p \in Procs, RemoveFile(p) PROVE TypeOK' /\ CurType'
  BY <1>3, TypeRemoveFile
<1>4. ASSUME NEW p \in Procs, Lock(p) PROVE TypeOK' /\ CurType'
  BY <1>4, TypeLock
<1>5. ASSUME NEW p \in Procs, Step(p) PROVE TypeOK' /\ CurType'
  BY <1>5, TypeRemoveStep, TypeReindexStep, TypeNextEpoch, TypeApplyStep, TypeFinishStep,
     TypeEnd DEF Step
<1>6. ASSUME NEW p \in Procs, ReturnError(p) PROVE TypeOK' /\ CurType'
  BY <1>6, TypeEnd
<1>7. ASSUME NEW r \in Runners, Kill(r) PROVE TypeOK' /\ CurType'
  BY <1>7, TypeEnd
<1> QED BY <1>1, <1>2, <1>3, <1>4, <1>5, <1>6, <1>7 DEF Next, Finished

\* The stores and the callers hold what the code can put there: a table row
\* never names a body no file could have, a torn file is never a row.
THEOREM TypeCorrect == Spec => []TypeOK
<1>1. TypeOK /\ CurType /\ [Next]_vars => (TypeOK /\ CurType)'
  BY TypeNext
<1> QED BY TypeInit, <1>1, PTL DEF Spec

-----------------------------------------------------------------------------
(* The valid ranges of concept_fact.  The proof needs no mutex: RecordFact  *)
(* closes the open row before it adds one, in one transaction, and is       *)
(* refused when the range would end before it starts.                       *)

LEMMA FactOrderRecord ==
  ASSUME facts \in SUBSET FactRows, FactOrder,
         NEW c \in Concepts, NEW n \in Nat, NEW at \in Nat,
         CanRecord(facts, c.id, at), facts' = Record(facts, c, n, at)
  PROVE  FactOrder'
<1> DEFINE new == [id |-> c.id, body |-> c.body, epoch |-> n, from |-> at, to |-> Inf]
           Kept(f) == IF f.id = c.id /\ IsOpen(f) THEN [f EXCEPT !.to = at] ELSE f
<1>1. facts' = {Kept(f) : f \in facts} \cup {new}
  BY DEF Record
<1>2. new.id = c.id /\ new.from = at /\ new.to = Inf /\ IsOpen(new)
  BY DEF IsOpen
<1>3. \A f \in facts : /\ Kept(f).id = f.id /\ Kept(f).from = f.from /\ f.from \in Nat
                       /\ Kept(f).to = IF f.id = c.id /\ f.to = Inf THEN at ELSE f.to
                       /\ f.to \in Nat \cup {Inf}
  BY DEF FactRows, IsOpen
<1>4. \A f \in facts : f.id = c.id => f.from <= at
  <2> TAKE f \in facts
  <2> HAVE f.id = c.id
  <2>1. PICK g \in OpenFacts(facts, f.id) : f.from <= g.from
    BY DEF FactOrder
  <2>2. g.from <= at /\ g \in facts
    BY <2>1 DEF CanRecord, OpenFacts
  <2> QED BY <1>3, <2>1, <2>2
<1>5. \A f \in facts, g \in facts : f.id = g.id /\ f # g =>
           \/ f.to # Inf /\ f.to <= g.from
           \/ g.to # Inf /\ g.to <= f.from
  BY DEF FactOrder, IsOpen
<1>6. \A f \in facts : f.to = Inf \/ f.from <= f.to
  BY DEF FactOrder, IsOpen
<1> HIDE DEF new, Kept
<1>7. ASSUME NEW f \in facts' PROVE \E g \in OpenFacts(facts', f.id) : f.from <= g.from
  <2>1. CASE f.id = c.id
    <3>1. new \in OpenFacts(facts', f.id)
      BY <1>1, <1>2, <2>1 DEF OpenFacts
    <3>2. f.from <= new.from
      BY <1>1, <1>2, <1>3, <1>4, <2>1
    <3> QED BY <3>1, <3>2
  <2>2. CASE f.id # c.id
    <3>1. PICK h \in facts : f = Kept(h)
      BY <1>1, <1>2, <2>2
    <3>2. PICK g \in OpenFacts(facts, h.id) : h.from <= g.from
      BY DEF FactOrder
    <3>3. g \in facts /\ g.id = h.id /\ g.to = Inf
      BY <3>2 DEF OpenFacts, IsOpen
    <3>4. Kept(g) \in OpenFacts(facts', f.id) /\ f.from <= Kept(g).from
      BY <1>1, <1>3, <2>2, <3>1, <3>2, <3>3 DEF OpenFacts, IsOpen
    <3> QED BY <3>4
  <2> QED BY <2>1, <2>2
<1>8. ASSUME NEW f \in facts' PROVE IsOpen(f) \/ f.from <= f.to
  BY <1>1, <1>2, <1>3, <1>4, <1>6 DEF IsOpen
<1>9. ASSUME NEW f \in facts', NEW g \in facts', f.id = g.id, f # g
      PROVE  (~IsOpen(f) /\ f.to <= g.from) \/ (~IsOpen(g) /\ g.to <= f.from)
  <2>1. \A h \in facts : h.id = c.id => Kept(h).to # Inf /\ Kept(h).to <= at
    <3> TAKE h \in facts
    <3> HAVE h.id = c.id
    <3>1. PICK o \in OpenFacts(facts, h.id) : h.from <= o.from
      BY DEF FactOrder
    <3>2. o \in facts /\ o.id = h.id /\ o.to = Inf
      BY <3>1 DEF OpenFacts, IsOpen
    <3>3. CASE h.to = Inf
      BY <1>3, <3>3
    <3>4. CASE h.to # Inf
      BY <1>3, <1>4, <1>5, <3>2, <3>4
    <3> QED BY <3>3, <3>4
  <2>2. CASE f = new \/ g = new
    BY <1>1, <1>2, <1>3, <1>9, <2>1, <2>2 DEF IsOpen
  <2>3. CASE f # new /\ g # new
    <3>1. PICK h \in facts, k \in facts : f = Kept(h) /\ g = Kept(k)
      BY <1>1, <2>3
    <3>2. h # k /\ h.id = k.id
      BY <1>3, <1>9, <3>1
    <3> QED BY <1>3, <1>4, <1>5, <3>1, <3>2 DEF IsOpen
  <2> QED BY <2>2, <2>3
<1> QED BY <1>7, <1>8, <1>9 DEF FactOrder

LEMMA FactOrderNext == TypeOK /\ CurType /\ FactOrder /\ [Next]_vars => FactOrder'
<1> SUFFICES ASSUME TypeOK, CurType, FactOrder, [Next]_vars PROVE FactOrder'
  OBVIOUS
<1>1. facts \in SUBSET FactRows
  BY DEF TypeOK, FactRows
<1>2. ASSUME NEW p \in Procs, RecordFact(p) PROVE FactOrder'
  <2>1. job[p].cur \in Concepts /\ job[p].n \in Nat /\ job[p].at \in Nat
    BY <1>2, JobFields DEF RecordFact, Goto, CurType, InHand, TypeOK
  <2> QED BY <1>1, <1>2, <2>1, FactOrderRecord DEF RecordFact
<1>3. ASSUME NEW p \in Procs, Truncate(p) PROVE FactOrder'
  BY <1>3 DEF Truncate, FactOrder
<1>4. ASSUME facts' = facts PROVE FactOrder'
  BY <1>4 DEF FactOrder, OpenFacts
<1>5. ASSUME NEW p \in Procs, Step(p) PROVE RecordFact(p) \/ Truncate(p) \/ facts' = facts
  <2>1. CASE RemoveStep(p) \/ ReindexStep(p) \/ NextEpoch(p) \/ ReturnRefused(p)
    BY <2>1 DEF RemoveStep, RebuildIndexes, CommitRemoval, ReindexStep, ReadBundle, NextEpoch,
      ReturnRefused, index
  <2>2. CASE ApplyStep(p)
    BY <2>2 DEF ApplyStep, OpenFile, WriteFile, UpsertConcept, UpsertEmbedding, ReplaceEdges,
      ApplyDone, index
  <2>3. CASE FinishStep(p)
    BY <2>3 DEF FinishStep, ReconcileFile, ReconcileDone, WriteIndexes, AppendLog, Commit,
      SetEpochCommit, PruneEmbeddings, Return, index
  <2> QED BY <1>5, <2>1, <2>2, <2>3 DEF Step
<1>6. ASSUME NEW p \in Procs, CallRun(p) \/ CallUpsertBatch(p) \/ CallReindex(p)
      PROVE  facts' = facts
  BY <1>6 DEF CallRun, CallUpsertBatch, CallReindex, Call, index
<1>7. ASSUME NEW p \in Procs, Lock(p) \/ RemoveFile(p) \/ ReturnError(p) PROVE facts' = facts
  BY <1>7 DEF Lock, RemoveFile, ReturnError, index
<1>8. ASSUME NEW r \in Runners, Kill(r) PROVE facts' = facts
  BY <1>8 DEF Kill, index
<1>9. UNCHANGED vars => facts' = facts
  BY DEF vars, index
<1> QED BY <1>2, <1>3, <1>4, <1>5, <1>6, <1>7, <1>8, <1>9 DEF Next, Finished

\* However calls overlap and fail, RecordFact (fact.go) keeps the facts of each
\* concept in a row: the last one open, each of the others ending before the next
\* one starts.
THEOREM FactsInOrder == Spec => []FactOrder
<1>1. Init => FactOrder
  BY DEF Init, FactOrder
<1>2. TypeOK /\ CurType /\ FactOrder /\ [Next]_vars => (TypeOK /\ CurType /\ FactOrder)'
  BY TypeNext, FactOrderNext
<1> QED BY TypeInit, <1>1, <1>2, PTL DEF Spec

\* Whatever the callers do and however they overlap, the valid ranges of one
\* concept never overlap: RecordFact (fact.go) keeps them in order.
THEOREM WindowsDisjoint == Spec => []FactWindows
<1>1. TypeOK /\ FactOrder => FactWindows
  <2> SUFFICES ASSUME TypeOK, FactOrder PROVE FactWindows
    OBVIOUS
  <2>1. \A f \in facts : f.from \in Nat /\ f.to \in Nat \cup {Inf}
    BY DEF TypeOK
  <2>2. ASSUME NEW f \in facts, NEW g \in facts, f.id = g.id, f # g, NEW t \in 0 .. clock
        PROVE  ~(ValidAt(f, t) /\ ValidAt(g, t))
    BY <2>1, <2>2 DEF FactOrder, ValidAt, IsOpen, TypeOK
  <2> QED BY <2>2 DEF FactOrder, FactWindows
<1> QED BY TypeCorrect, FactsInOrder, <1>1, PTL

-----------------------------------------------------------------------------
(* Which steps an operation performs.                                      *)

LEMMA StepsOfOpInit == Init => StepsOfOp
  BY DEF Init, StepsOfOp, Unlocked

\* What a step does to a caller other than the one that takes it.
LEMMA StepFrame ==
  ASSUME TypeOK, NEW p \in Procs, Step(p) \/ ReturnError(p), NEW q \in Procs \ {p}
  PROVE  pc'[q] = pc[q] /\ job'[q] = job[q] /\ Busy(p)
<1> USE DEF TypeOK, Goto, Ended, Busy, Locked, Unlocked
<1>1. CASE RemoveStep(p) \/ ReindexStep(p) \/ NextEpoch(p)
  BY <1>1 DEF RemoveStep, RebuildIndexes, CommitRemoval, ReindexStep, ReadBundle, Truncate,
    NextEpoch
<1>2. CASE ApplyStep(p)
  BY <1>2 DEF ApplyStep, OpenFile, WriteFile, UpsertConcept, UpsertEmbedding, ReplaceEdges,
    RecordFact, ApplyDone
<1>3. CASE FinishStep(p)
  BY <1>3 DEF FinishStep, ReconcileFile, ReconcileDone, WriteIndexes, AppendLog, Commit,
    SetEpochCommit, PruneEmbeddings, Return
<1>4. CASE ReturnRefused(p) \/ ReturnError(p)
  BY <1>4 DEF ReturnRefused, Refused, ReturnError
<1> QED BY <1>1, <1>2, <1>3, <1>4 DEF Step

\* What a step does to the operation, the batch and the history of its caller.
LEMMA StepOwn ==
  ASSUME TypeOK, CurType, StepsOfOp, NEW p \in Procs, Step(p), pc'[p] # "idle"
  PROVE  /\ job'[p].op = job[p].op /\ job'[p].solo = job[p].solo
         /\ ~Rebuilds(p) => job'[p].batch = job[p].batch
<1> USE DEF TypeOK, Jobs
<1>1. CASE RemoveStep(p) \/ Truncate(p)
  BY <1>1 DEF RemoveStep, RebuildIndexes, CommitRemoval, Truncate
<1>2. CASE ReadBundle(p) \/ NextEpoch(p)
  BY <1>2, SMTT(30) DEF ReadBundle, NextEpoch, Goto, StepsOfOp
<1>3. CASE ApplyStep(p)
  BY <1>3 DEF ApplyStep, OpenFile, WriteFile, UpsertConcept, UpsertEmbedding, ReplaceEdges,
    RecordFact, ApplyDone
<1>4. CASE FinishStep(p)
  BY <1>4 DEF FinishStep, ReconcileFile, ReconcileDone, WriteIndexes, AppendLog, Commit,
    SetEpochCommit, PruneEmbeddings, Return, Ended
<1>5. CASE ReturnRefused(p)
  BY <1>5 DEF ReturnRefused, Ended
<1> QED BY <1>1, <1>2, <1>3, <1>4, <1>5 DEF Step, ReindexStep

\* The steps that follow each step of a call.
LEMMA StepFollows ==
  ASSUME TypeOK, CurType, StepsOfOp, NEW p \in Procs, Step(p)
  PROVE  /\ pc'[p] \in {"read", "truncate"} \cup Unlocked => Rebuilds(p)
         /\ pc'[p] = "reconcile" => job[p].op = "run"
         /\ pc'[p] \in {"indexes", "log", "commit", "stamp"} => ~Rebuilds(p)
         /\ pc[p] # "idle"
<1> USE DEF TypeOK, Goto, Unlocked, StepsOfOp, Rebuilds
<1>1. CASE RemoveStep(p) \/ ReindexStep(p) \/ NextEpoch(p)
  BY <1>1 DEF RemoveStep, RebuildIndexes, CommitRemoval, ReindexStep, ReadBundle, Truncate,
    NextEpoch
<1>2. CASE ApplyStep(p)
  BY <1>2 DEF ApplyStep, OpenFile, WriteFile, UpsertConcept, UpsertEmbedding, ReplaceEdges,
    RecordFact, ApplyDone
<1>3. CASE FinishStep(p)
  BY <1>3 DEF FinishStep, ReconcileFile, ReconcileDone, WriteIndexes, AppendLog, Commit,
    SetEpochCommit, PruneEmbeddings, Return, Ended
<1>4. CASE ReturnRefused(p)
  BY <1>4 DEF ReturnRefused, Refused, Ended
<1> QED BY <1>1, <1>2, <1>3, <1>4 DEF Step

LEMMA EnteredFields ==
  ASSUME job \in [Procs -> Jobs], NEW p \in Procs, NEW q \in Procs
  PROVE  /\ Entered(p)[q].solo <=> (q = p /\ Alone(p))
         /\ Entered(p)[q].op = job[q].op /\ Entered(p)[q].batch = job[q].batch
<1> DEFINE b == q = p /\ Alone(p)
<1>1. Entered(p)[q] = [job[q] EXCEPT !.solo = b]
  BY DEF Entered
<1>2. \A x : LET j == [job[q] EXCEPT !.solo = x]
            IN  j.solo = x /\ j.op = job[q].op /\ j.batch = job[q].batch
  BY DEF Jobs
<1> HIDE DEF b
<1>3. Entered(p)[q].solo = b /\ Entered(p)[q].op = job[q].op /\ Entered(p)[q].batch = job[q].batch
  BY <1>1, <1>2
<1> QED BY <1>3 DEF b

LEMMA StepBusy == ASSUME TypeOK, NEW p \in Procs, Step(p) PROVE Busy(p)
<1> USE DEF Goto, Busy, Locked, Unlocked
<1>1. CASE RemoveStep(p) \/ ReindexStep(p) \/ NextEpoch(p) \/ ReturnRefused(p)
  BY <1>1 DEF RemoveStep, RebuildIndexes, CommitRemoval, ReindexStep, ReadBundle, Truncate,
    NextEpoch, ReturnRefused, Refused
<1>2. CASE ApplyStep(p)
  BY <1>2 DEF ApplyStep, OpenFile, WriteFile, UpsertConcept, UpsertEmbedding, ReplaceEdges,
    RecordFact, ApplyDone
<1>3. CASE FinishStep(p)
  BY <1>3 DEF FinishStep, ReconcileFile, ReconcileDone, WriteIndexes, AppendLog, Commit,
    SetEpochCommit, PruneEmbeddings, Return
<1> QED BY <1>1, <1>2, <1>3 DEF Step

\* Calls, locks and removals, which are no steps of a call under way.
LEMMA Arrival ==
  ASSUME TypeOK, NEW p \in Procs,
         CallRun(p) \/ CallUpsertBatch(p) \/ CallReindex(p) \/ Lock(p) \/ RemoveFile(p)
  PROVE  /\ ~Busy(p)
         /\ \A q \in Procs \ {p} : /\ pc'[q] = pc[q]
                                   /\ job'[q].op = job[q].op /\ job'[q].batch = job[q].batch
                                   /\ job'[q].solo => job'[q] = job[q]
                                   /\ job'[q].solo => ~Busy(p)'
         /\ job'[p].solo /\ Busy(p)' => Alone(p)
<1> USE DEF TypeOK, Goto, Busy, Locked, Unlocked
<1>1. CASE CallRun(p) \/ CallUpsertBatch(p) \/ CallReindex(p)
  <2>1. PICK kind \in {"run", "upsert", "reindex"}, B \in SUBSET Concepts : Call(p, kind, B)
    BY <1>1 DEF CallRun, CallUpsertBatch, CallReindex, RunInputs, UpsertInputs
  <2> QED BY <2>1 DEF Call
<1>2. CASE Lock(p)
  <2>1. /\ job'[p].solo <=> Alone(p)
        /\ \A q \in Procs \ {p} : /\ ~job'[q].solo
                                  /\ job'[q].op = job[q].op /\ job'[q].batch = job[q].batch
    BY <1>2, EnteredFields DEF Lock
  <2> QED BY <1>2, <2>1 DEF Lock
<1>3. CASE RemoveFile(p)
  <2>0. Entered(p) \in [Procs -> Jobs]
    BY EnteredType
  <2>1. /\ job'[p].solo <=> Alone(p)
        /\ \A q \in Procs \ {p} : /\ ~job'[q].solo
                                  /\ job'[q].op = job[q].op /\ job'[q].batch = job[q].batch
    <3>1. job' = [Entered(p) EXCEPT ![p].op = "remove"]
      BY <1>3 DEF RemoveFile
    <3>2. job'[p].solo = Entered(p)[p].solo
      BY <2>0, <3>1 DEF Jobs
    <3>3. \A q \in Procs \ {p} : job'[q] = Entered(p)[q]
      BY <2>0, <3>1
    <3>4. job'[p].solo <=> Alone(p)
      BY <3>2, EnteredFields
    <3>5. ASSUME NEW q \in Procs \ {p}
          PROVE  ~job'[q].solo /\ job'[q].op = job[q].op /\ job'[q].batch = job[q].batch
      <4>1. job'[q] = Entered(p)[q] /\ q # p
        BY <3>3
      <4>2. /\ Entered(p)[q].solo <=> (q = p /\ Alone(p))
            /\ Entered(p)[q].op = job[q].op /\ Entered(p)[q].batch = job[q].batch
        BY EnteredFields
      <4> HIDE DEF Entered
      <4> QED BY <4>1, <4>2
    <3> QED BY <3>4, <3>5
  <2> QED BY <1>3, <2>1 DEF RemoveFile
<1> QED BY <1>1, <1>2, <1>3

LEMMA StepsOfOpNext == TypeOK /\ CurType /\ StepsOfOp /\ [Next]_vars => StepsOfOp'
<1> SUFFICES ASSUME TypeOK, CurType, StepsOfOp, [Next]_vars PROVE StepsOfOp'
  OBVIOUS
<1> DEFINE Ok(q) ==
      /\ pc[q] \in {"read", "truncate"} \cup Unlocked => Rebuilds(q)
      /\ pc[q] = "reconcile" => job[q].op = "run"
      /\ pc[q] \in {"indexes", "log", "commit", "stamp"} => ~Rebuilds(q)
      /\ pc[q] # "idle" /\ job[q].op = "run" => job[q].batch \in RunInputs
<1>0. \A q \in Procs : Ok(q)
  BY DEF StepsOfOp
<1> SUFFICES ASSUME NEW q \in Procs PROVE Ok(q)'
  BY DEF StepsOfOp
<1>1. ASSUME pc'[q] = pc[q], job'[q].op = job[q].op, job'[q].batch = job[q].batch PROVE Ok(q)'
  BY <1>0, <1>1 DEF Rebuilds
<1>2. CASE UNCHANGED vars
  BY <1>1, <1>2 DEF vars
<1>3. ASSUME NEW p \in Procs, Step(p) \/ ReturnError(p), p # q PROVE Ok(q)'
  BY <1>1, <1>3, StepFrame
<1>4. ASSUME pc'[q] = "idle" PROVE Ok(q)'
  BY <1>4 DEF Unlocked
<1>5. ASSUME Step(q), pc'[q] # "idle" PROVE Ok(q)'
  BY <1>0, <1>5, StepOwn, StepFollows DEF Rebuilds
<1>6. ASSUME ReturnError(q) PROVE Ok(q)'
  BY <1>4, <1>6 DEF ReturnError, Ended
<1>7. ASSUME NEW p \in Procs, p # q,
             CallRun(p) \/ CallUpsertBatch(p) \/ CallReindex(p) \/ Lock(p) \/ RemoveFile(p)
      PROVE  Ok(q)'
  BY <1>1, <1>7, Arrival
<1>8. ASSUME CallRun(q) PROVE Ok(q)'
  <2>1. PICK B \in RunInputs : Call(q, "run", B)
    BY <1>8 DEF CallRun
  <2> QED BY <2>1 DEF Call, Goto, TypeOK, Jobs, Unlocked
<1>9. ASSUME CallUpsertBatch(q) \/ CallReindex(q) PROVE Ok(q)'
  <2>1. PICK kind \in {"upsert", "reindex"}, B \in SUBSET Concepts : Call(q, kind, B)
    BY <1>9 DEF CallUpsertBatch, CallReindex, UpsertInputs
  <2> QED BY <2>1 DEF Call, Goto, TypeOK, Jobs, Unlocked
<1>10. ASSUME Lock(q) PROVE Ok(q)'
  <2>1. job'[q].op = job[q].op /\ job'[q].batch = job[q].batch
    BY <1>10, EnteredFields DEF Lock, TypeOK
  <2> QED BY <1>0, <1>10, <2>1 DEF Lock, Goto, TypeOK, Unlocked, Rebuilds
<1>11. ASSUME RemoveFile(q) PROVE Ok(q)'
  <2>1. job'[q].op = "remove" /\ pc'[q] = "rmIndexes"
    <3>1. Entered(q) \in [Procs -> Jobs]
      BY EnteredType DEF TypeOK
    <3> HIDE DEF Entered
    <3> QED BY <1>11, <3>1 DEF RemoveFile, TypeOK, Jobs
  <2> QED BY <2>1 DEF Unlocked, Rebuilds
<1>12. ASSUME NEW r \in Runners, Kill(r) PROVE Ok(q)'
  <2>1. pc'[q] = "idle" \/ (pc'[q] = pc[q] /\ job'[q] = job[q])
    BY <1>12 DEF Kill, Ended
  <2> QED BY <1>1, <1>4, <2>1
<1> HIDE DEF Ok
<1> QED BY <1>2, <1>3, <1>4, <1>5, <1>6, <1>7, <1>8, <1>9, <1>10, <1>11, <1>12
      DEF Next, Finished

-----------------------------------------------------------------------------
(* A caller marked solo is alone.                                          *)

LEMMA SoloAloneNext ==
  TypeOK /\ CurType /\ StepsOfOp /\ SoloAlone /\ [Next]_vars => SoloAlone'
<1> SUFFICES ASSUME TypeOK, CurType, StepsOfOp, SoloAlone, [Next]_vars,
                    NEW q \in Procs, job'[q].solo, Busy(q)'
             PROVE  Alone(q)'
  BY DEF SoloAlone
<1>1. pc'[q] # "idle"
  BY DEF Busy, Locked, Unlocked
<1>2. ASSUME pc' = pc, job'[q].solo = job[q].solo PROVE Alone(q)'
  BY <1>2 DEF SoloAlone, Alone, Busy
<1>3. CASE UNCHANGED vars
  BY <1>2, <1>3 DEF vars
<1>4. ASSUME NEW p \in Procs, p # q, Step(p) \/ ReturnError(p) PROVE Alone(q)'
  <2>1. pc'[q] = pc[q] /\ job'[q] = job[q] /\ Busy(p)
    BY <1>4, StepFrame
  <2>2. Busy(q) /\ job[q].solo
    BY <2>1 DEF Busy
  <2> QED BY <1>4, <2>1, <2>2 DEF SoloAlone, Alone
<1>5. ASSUME Step(q) PROVE Alone(q)'
  <2>1. Busy(q) /\ job[q].solo
    BY <1>1, <1>5, StepOwn, StepBusy
  <2>2. \A p \in Procs \ {q} : pc'[p] = pc[p]
    BY <1>5, StepFrame
  <2> QED BY <2>1, <2>2 DEF SoloAlone, Alone, Busy
<1>6. ASSUME ReturnError(q) PROVE Alone(q)'
  BY <1>1, <1>6 DEF ReturnError, Ended, TypeOK
<1>7. ASSUME NEW p \in Procs,
             CallRun(p) \/ CallUpsertBatch(p) \/ CallReindex(p) \/ Lock(p) \/ RemoveFile(p)
      PROVE  Alone(q)'
  <2>1. CASE p = q
    BY <1>7, <2>1, Arrival DEF Alone, Busy
  <2>2. CASE p # q
    <3>1. pc'[q] = pc[q] /\ job'[q] = job[q] /\ ~Busy(p)'
      BY <1>7, <2>2, Arrival
    <3>2. Alone(q) /\ \A o \in Procs \ {p} : pc'[o] = pc[o]
      BY <1>7, <3>1, Arrival DEF SoloAlone, Busy
    <3> QED BY <3>1, <3>2 DEF Alone, Busy
  <2> QED BY <2>1, <2>2
<1>8. ASSUME NEW r \in Runners, Kill(r) PROVE Alone(q)'
  <2>1. \A p \in Procs : pc'[p] = "idle" \/ (pc'[p] = pc[p] /\ job'[p] = job[p])
    BY <1>8 DEF Kill, Ended
  <2>2. pc'[q] = pc[q] /\ job'[q] = job[q]
    BY <1>1, <2>1
  <2>3. Alone(q)
    BY <2>2 DEF SoloAlone, Busy
  <2> QED BY <2>1, <2>3 DEF Alone, Busy, Locked, Unlocked
<1> QED BY <1>3, <1>4, <1>5, <1>6, <1>7, <1>8 DEF Next, Finished

-----------------------------------------------------------------------------
(* Lemmas about the operators.                                             *)

LEMMA RecordOpens ==
  ASSUME NEW F \in SUBSET FactRows, NEW c \in Concepts, NEW n \in Nat, NEW at \in Nat
  PROVE  /\ OpenFacts(Record(F, c, n, at), c.id)
              = {[id |-> c.id, body |-> c.body, epoch |-> n, from |-> at, to |-> Inf]}
         /\ \A i \in Ids \ {c.id} : OpenFacts(Record(F, c, n, at), i) = OpenFacts(F, i)
<1> DEFINE new == [id |-> c.id, body |-> c.body, epoch |-> n, from |-> at, to |-> Inf]
           Kept(f) == IF f.id = c.id /\ IsOpen(f) THEN [f EXCEPT !.to = at] ELSE f
           G == Record(F, c, n, at)
<1>1. G = {Kept(f) : f \in F} \cup {new}
  BY DEF Record
<1>2. new.id = c.id /\ new.to = Inf
  OBVIOUS
<1>3. \A f \in F : Kept(f).id = f.id /\ (f.id = c.id => Kept(f).to # Inf)
                  /\ (f.id # c.id => Kept(f) = f)
  BY DEF FactRows, IsOpen
<1> HIDE DEF new, Kept, G
<1>4. OpenFacts(G, c.id) = {new}
  BY <1>1, <1>2, <1>3 DEF OpenFacts, IsOpen
<1>5. ASSUME NEW i \in Ids \ {c.id} PROVE OpenFacts(G, i) = OpenFacts(F, i)
  BY <1>1, <1>2, <1>3 DEF OpenFacts, IsOpen
<1> QED BY <1>4, <1>5 DEF new, G

\* Without an open row of the same id, Record adds a row and changes none.
LEMMA RecordFresh ==
  ASSUME NEW F \in SUBSET FactRows, NEW c \in Concepts, NEW n \in Nat, NEW at \in Nat,
         \A f \in F : f.id # c.id
  PROVE  Record(F, c, n, at) =
           F \cup {[id |-> c.id, body |-> c.body, epoch |-> n, from |-> at, to |-> Inf]}
  BY DEF Record

LEMMA FilesUnique == \A b, c, d : c \in Files(b) /\ d \in Files(b) /\ c.id = d.id => c = d
  BY DEF Files, Concepts

\* What the tables hold grows by one concept when its row is written.
LEMMA FilesWrite ==
  ASSUME NEW m \in [Ids -> Bodies \cup {Absent}], NEW c \in Concepts,
         \A d \in Files(m) : d.id = c.id => d = c
  PROVE  Files([m EXCEPT ![c.id] = c.body]) = Files(m) \cup {c}
<1> DEFINE w == [m EXCEPT ![c.id] = c.body]
<1>1. c.id \in Ids /\ c.body \in Bodies /\ c = [id |-> c.id, body |-> c.body]
  BY DEF Concepts
<1>2. w[c.id] = c.body /\ \A i \in Ids \ {c.id} : w[i] = m[i]
  BY <1>1
<1>3. \A d \in Concepts : d.id \in Ids /\ (d.id = c.id /\ d.body = c.body => d = c)
  BY <1>1 DEF Concepts
<1> HIDE DEF w
<1>4. \A d \in Concepts : w[d.id] = d.body <=> (m[d.id] = d.body \/ d = c)
  <2> SUFFICES ASSUME NEW d \in Concepts PROVE w[d.id] = d.body <=> (m[d.id] = d.body \/ d = c)
    OBVIOUS
  <2>1. CASE d.id # c.id
    BY <1>2, <1>3, <2>1
  <2>2. CASE d.id = c.id
    BY <1>2, <1>3, <2>2 DEF Files
  <2> QED BY <2>1, <2>2
<1> QED BY <1>4 DEF Files, w

-----------------------------------------------------------------------------
(* The steps of a call nobody overlaps.                                    *)

\* SoloInv says nothing outside the mutex.
LEMMA SoloIdle == \A p \in Procs : pc[p] \notin Locked => SoloInv(p)
  BY DEF Locked, SoloInv, HandInv, DoneInv, ReconciledInv, ReadInv, EmptiedInv, BroughtInv,
    InHand, Applied

LEMMA SoloIdleNext == \A p \in Procs : pc'[p] \notin Locked => SoloInv(p)'
  BY DEF Locked, SoloInv, HandInv, DoneInv, ReconciledInv, ReadInv, EmptiedInv, BroughtInv,
    InHand, Applied

LEMMA SoloReindexStep ==
  ASSUME TypeOK, StepsOfOp, NEW p \in Procs, SoloInv(p), ReindexStep(p)
  PROVE  SoloInv(p)'
<1> USE DEF SoloInv, HandInv, DoneInv, ReconciledInv, ReadInv, EmptiedInv, BroughtInv, InHand,
            Applied, Rebuilds, Mended
<1>1. CASE ReadBundle(p)
  <2>1. pc'[p] = "truncate" /\ bundle' = bundle /\ Readable(bundle)
    BY <1>1 DEF ReadBundle, Goto, TypeOK, disk
  <2>2. job'[p].batch = Files(bundle)
    BY <1>1 DEF ReadBundle, TypeOK, Jobs
  <2>3. Files(bundle)' = Files(bundle) /\ Readable(bundle)'
    BY <2>1 DEF Files, Readable
  <2> QED BY <2>1, <2>2, <2>3
<1>2. CASE Truncate(p)
  <2>1. /\ pc[p] = "truncate" /\ pc'[p] = "allocate" /\ bundle' = bundle /\ job' = job
        /\ embedding' = {} /\ facts' = {} /\ epoch' = <<>>
        /\ \A i \in Ids : concept'[i] = Absent /\ edge'[i] = Absent
    BY <1>2 DEF Truncate, Goto, TypeOK, disk
  <2>2. Files(concept)' = {} /\ Files(edge)' = {}
    BY <2>1 DEF Files, Concepts
  <2>3. Files(bundle)' = Files(bundle) /\ (Readable(bundle) => Readable(bundle)')
    BY <2>1 DEF Files, Readable
  <2>4. Rebuilds(p)' <=> Rebuilds(p)
    BY <2>1
  <2> QED BY <2>1, <2>2, <2>3, <2>4
<1> QED BY <1>1, <1>2 DEF ReindexStep

LEMMA SoloNextEpoch ==
  ASSUME TypeOK, NEW p \in Procs, SoloInv(p), NextEpoch(p)
  PROVE  SoloInv(p)'
<1> USE DEF InHand, Applied
<1>1. /\ pc[p] = "allocate" /\ pc'[p] = "apply" /\ bundle' = bundle /\ concept' = concept
      /\ edge' = edge /\ embedding' = embedding /\ facts' = facts
      /\ epoch' = Append(epoch, 0)
  BY DEF NextEpoch, Goto, TypeOK, disk
<1>2. /\ job'[p].todo = job[p].batch /\ job'[p].batch = job[p].batch /\ job'[p].op = job[p].op
      /\ job'[p].n = Len(epoch)
  BY DEF NextEpoch, TypeOK, Jobs
<1>3. ReadInv(p)'
  <2>1. Files(bundle)' = Files(bundle) /\ (Readable(bundle) => Readable(bundle)')
    BY <1>1 DEF Files, Readable
  <2> QED BY <1>1, <1>2, <2>1 DEF SoloInv, ReadInv, Mended, Rebuilds
<1>4. BroughtInv(p)'
  <2>1. ASSUME Rebuilds(p)'
        PROVE /\ Files(concept)' = {} /\ Files(edge)' = {} /\ embedding' = {} /\ facts' = {}
              /\ epoch = <<>>
    <3>1. EmptiedInv(p) /\ Rebuilds(p)
      BY <1>2, <2>1 DEF SoloInv, Rebuilds
    <3> QED BY <1>1, <3>1 DEF EmptiedInv, Files
  <2>2. \A S : "apply" \notin S => Brought(p, S)' = {}
    BY <1>1, <1>2 DEF Brought
  <2>3. Brought(p, {"vector", "edges", "fact"})' = {} /\ Brought(p, {"fact"})' = {}
        /\ Brought(p, {"edges", "fact"})' = {} /\ Brought(p, {})' = {}
    BY <2>2, <1>1, <1>2 DEF Brought
  <2>4. VectorRows({}) = {} /\ \A at : FactRowsAt({}, at) = {}
    BY DEF VectorRows, FactRowsAt
  <2>5. epoch = <<>> => Len(epoch) = 0 /\ Len(epoch') = 1
    BY <1>1
  <2>6. VectorRows(Brought(p, {"edges", "fact"}))' = {}
        /\ FactRowsAt(Brought(p, {}), job[p].at)' = {}
    BY <2>3 DEF VectorRows, FactRowsAt
  <2> QED BY <1>2, <2>1, <2>3, <2>5, <2>6 DEF BroughtInv
<1>5. HandInv(p)' /\ ReconciledInv(p)' /\ EmptiedInv(p)'
  BY <1>1 DEF HandInv, ReconciledInv, EmptiedInv
<1>6. DoneInv(p)'
  BY <1>1, <1>2 DEF DoneInv
<1> QED BY <1>3, <1>4, <1>5, <1>6 DEF SoloInv

LEMMA SoloOpenFile ==
  ASSUME TypeOK, NEW p \in Procs, SoloInv(p), OpenFile(p)
  PROVE  SoloInv(p)'
<1> USE DEF InHand, Applied
<1>0. /\ job[p].todo \in SUBSET Concepts /\ job[p].todo \subseteq job[p].batch
      /\ bundle \in [Ids -> Bodies \cup {Absent, Torn}]
  BY JobFields DEF OpenFile, Goto, SoloInv, DoneInv, TypeOK
<1>1. PICK d \in job[p].todo :
        job' = [job EXCEPT ![p].cur = d] /\ bundle' = [bundle EXCEPT ![d.id] = Torn]
  BY DEF OpenFile
<1>2. /\ pc[p] = "apply" /\ pc'[p] = "write" /\ concept' = concept /\ edge' = edge
      /\ embedding' = embedding /\ facts' = facts /\ epoch' = epoch
  BY DEF OpenFile, Goto, TypeOK, index
<1>3. /\ job'[p].cur = d /\ job'[p].todo = job[p].todo /\ job'[p].batch = job[p].batch
      /\ job'[p].op = job[p].op /\ job'[p].n = job[p].n /\ job'[p].at = job[p].at
  BY <1>1 DEF TypeOK, Jobs
<1>4. d \in Concepts /\ d.id \in Ids /\ d.body \in Bodies
  BY <1>0, <1>1 DEF Concepts
<1>5. HandInv(p)' /\ ReconciledInv(p)' /\ EmptiedInv(p)'
  BY <1>1, <1>2, <1>3 DEF HandInv, ReconciledInv, EmptiedInv
<1>6. DoneInv(p)'
  <2> SUFFICES ASSUME NEW e \in job[p].batch \ job[p].todo, d.id # e.id
               PROVE  \E c \in job[p].batch : c.id = e.id
                        /\ Stored(c.id, c.body, job[p].n, job[p].at)'
    BY <1>0, <1>2, <1>3 DEF DoneInv, Stored
  <2>1. PICK c \in job[p].batch : c.id = e.id /\ Stored(c.id, c.body, job[p].n, job[p].at)
    BY <1>2 DEF SoloInv, DoneInv
  <2>2. bundle'[c.id] = c.body
    BY <1>0, <1>1, <2>1 DEF Stored
  <2>3. Stored(c.id, c.body, job[p].n, job[p].at)'
    BY <1>2, <1>3, <2>1, <2>2 DEF Stored
  <2> QED BY <2>1, <2>3
<1>7. ReadInv(p)'
  <2> SUFFICES ASSUME Rebuilds(p) PROVE ReadInv(p)'
    BY <1>3 DEF ReadInv, Rebuilds
  <2>1. Readable(bundle) /\ job[p].batch = Files(bundle)
    BY <1>2 DEF SoloInv, ReadInv, Mended
  <2>2. bundle[d.id] = d.body
    BY <1>0, <1>1, <2>1 DEF Files
  <2>3. [bundle' EXCEPT ![d.id] = d.body] = bundle
    BY <1>0, <1>1, <1>4, <2>2
  <2>4. Mended(p)' = bundle
    BY <1>2, <1>3, <2>3 DEF Mended
  <2> QED BY <1>3, <2>1, <2>4 DEF ReadInv, Readable, Files
<1>8. BroughtInv(p)'
  <2>1. \A S : {"apply", "write"} \cap S = {} => Brought(p, S)' = Brought(p, S)
    BY <1>2, <1>3 DEF Brought
  <2>2. /\ Brought(p, {"vector", "edges", "fact"})' = Brought(p, {"vector", "edges", "fact"})
        /\ Brought(p, {"fact"})' = Brought(p, {"fact"}) /\ Brought(p, {})' = Brought(p, {})
        /\ Brought(p, {"edges", "fact"})' = Brought(p, {"edges", "fact"})
    BY <1>2, <1>3 DEF Brought
  <2> QED BY <1>2, <1>3, <2>2 DEF SoloInv, BroughtInv, Rebuilds, Files, VectorRows, FactRowsAt
<1> QED BY <1>5, <1>6, <1>7, <1>8 DEF SoloInv

\* The four steps that write the concept in hand disturb no other concept.
LEMMA HandDone ==
  ASSUME TypeOK, CurType, NEW p \in Procs, SoloInv(p), pc[p] \in InHand, pc'[p] \in InHand,
         job' = job, facts' = facts,
         \A i \in Ids \ {job[p].cur.id} :
           bundle'[i] = bundle[i] /\ concept'[i] = concept[i] /\ edge'[i] = edge[i]
  PROVE  DoneInv(p)'
<1>0. job[p].batch \in SUBSET Concepts
  BY JobFields DEF TypeOK
<1> SUFFICES ASSUME NEW e \in job[p].batch \ job[p].todo, job[p].cur.id # e.id
             PROVE  \E c \in job[p].batch : c.id = e.id
                      /\ Stored(c.id, c.body, job[p].n, job[p].at)'
  BY DEF SoloInv, DoneInv, Stored, InHand, Applied
<1>1. PICK c \in job[p].batch : c.id = e.id /\ Stored(c.id, c.body, job[p].n, job[p].at)
  BY DEF SoloInv, DoneInv
<1>2. c.id \in Ids
  BY <1>0 DEF Concepts
<1>3. Stored(c.id, c.body, job[p].n, job[p].at)'
  BY <1>1, <1>2 DEF Stored, OpenFacts
<1> QED BY <1>1, <1>3

\* While Reindex replays, the concept in hand is the only one of its id in what
\* was read.
LEMMA HandFresh ==
  ASSUME TypeOK, CurType, NEW p \in Procs, SoloInv(p), pc[p] \in InHand, Rebuilds(p)
  PROVE  /\ job[p].cur \in job[p].batch /\ job[p].cur \in job[p].todo
         /\ \A d \in job[p].batch : d.id = job[p].cur.id => d = job[p].cur
<1>1. job[p].cur \in job[p].todo /\ job[p].todo \subseteq job[p].batch
  BY DEF SoloInv, HandInv, DoneInv
<1>2. job[p].batch = Files(Mended(p))
  BY DEF SoloInv, ReadInv
<1> QED BY <1>1, <1>2, FilesUnique

LEMMA SoloWriteFile ==
  ASSUME TypeOK, CurType, NEW p \in Procs, SoloInv(p), WriteFile(p)
  PROVE  SoloInv(p)'
<1> DEFINE c == job[p].cur
<1>0. c \in Concepts /\ c.id \in Ids /\ bundle \in [Ids -> Bodies \cup {Absent, Torn}]
  BY DEF WriteFile, Goto, CurType, InHand, TypeOK, Concepts
<1>1. /\ pc[p] = "write" /\ pc'[p] = "row" /\ concept' = concept /\ edge' = edge
      /\ embedding' = embedding /\ facts' = facts /\ epoch' = epoch /\ job' = job
      /\ bundle' = [bundle EXCEPT ![c.id] = c.body]
  BY DEF WriteFile, Goto, TypeOK, index
<1>2. HandInv(p)' /\ ReconciledInv(p)' /\ EmptiedInv(p)'
  BY <1>0, <1>1 DEF HandInv, ReconciledInv, EmptiedInv, InHand, Applied, SoloInv
<1>3. DoneInv(p)'
  BY <1>0, <1>1, HandDone DEF InHand
<1>4. ReadInv(p)'
  BY <1>1 DEF SoloInv, ReadInv, Mended, Rebuilds, InHand, Applied, Readable, Files
<1>5. BroughtInv(p)'
  <2>1. /\ Brought(p, {"vector", "edges", "fact"})' = Brought(p, {"vector", "edges", "fact"})
        /\ Brought(p, {"fact"})' = Brought(p, {"fact"}) /\ Brought(p, {})' = Brought(p, {})
        /\ Brought(p, {"edges", "fact"})' = Brought(p, {"edges", "fact"})
    BY <1>1 DEF Brought
  <2> QED BY <1>1, <2>1 DEF SoloInv, BroughtInv, Rebuilds, Files, VectorRows, FactRowsAt, InHand,
                            Applied
<1> QED BY <1>2, <1>3, <1>4, <1>5 DEF SoloInv

LEMMA SoloUpsertConcept ==
  ASSUME TypeOK, CurType, NEW p \in Procs, SoloInv(p), UpsertConcept(p)
  PROVE  SoloInv(p)'
<1> DEFINE c == job[p].cur
<1>0. c \in Concepts /\ c.id \in Ids /\ concept \in [Ids -> Bodies \cup {Absent}]
  BY DEF UpsertConcept, Goto, CurType, InHand, TypeOK, Concepts
<1>1. /\ pc[p] = "row" /\ pc'[p] = "vector" /\ bundle' = bundle /\ edge' = edge
      /\ embedding' = embedding /\ facts' = facts /\ epoch' = epoch /\ job' = job
      /\ concept' = [concept EXCEPT ![c.id] = c.body]
  BY DEF UpsertConcept, Goto, TypeOK, disk
<1>2. HandInv(p)' /\ ReconciledInv(p)' /\ EmptiedInv(p)'
  BY <1>0, <1>1 DEF HandInv, ReconciledInv, EmptiedInv, InHand, Applied, SoloInv
<1>3. DoneInv(p)'
  BY <1>0, <1>1, HandDone DEF InHand
<1>4. ReadInv(p)'
  BY <1>1 DEF SoloInv, ReadInv, Mended, Rebuilds, InHand, Applied, Readable, Files
<1>5. ASSUME Rebuilds(p) PROVE BroughtInv(p)'
  <2>1. /\ Brought(p, {"vector", "edges", "fact"})' = (job[p].batch \ job[p].todo) \cup {c}
        /\ Brought(p, {"vector", "edges", "fact"}) = job[p].batch \ job[p].todo
        /\ Brought(p, {"fact"})' = Brought(p, {"fact"}) /\ Brought(p, {})' = Brought(p, {})
        /\ Brought(p, {"edges", "fact"})' = Brought(p, {"edges", "fact"})
    BY <1>1 DEF Brought
  <2>2. Files(concept) = job[p].batch \ job[p].todo
    BY <1>1, <1>5, <2>1 DEF SoloInv, BroughtInv, InHand
  <2>3. Files(concept)' = Files(concept) \cup {c}
    <3>1. \A d \in Files(concept) : d.id = c.id => d = c
      BY <1>1, <1>5, <2>2, HandFresh DEF InHand
    <3>2. Files([concept EXCEPT ![c.id] = c.body]) = Files(concept) \cup {c}
      BY <1>0, <3>1, FilesWrite
    <3> QED BY <1>1, <3>2 DEF Files
  <2> QED BY <1>1, <1>5, <2>1, <2>2, <2>3
        DEF SoloInv, BroughtInv, Rebuilds, Files, VectorRows, FactRowsAt, InHand, Applied
<1>6. ~Rebuilds(p) => BroughtInv(p)'
  BY <1>1 DEF BroughtInv, Rebuilds
<1> QED BY <1>2, <1>3, <1>4, <1>5, <1>6 DEF SoloInv

LEMMA SoloUpsertEmbedding ==
  ASSUME TypeOK, CurType, NEW p \in Procs, SoloInv(p), UpsertEmbedding(p)
  PROVE  SoloInv(p)'
<1> DEFINE c == job[p].cur
           row(n) == [id |-> c.id, epoch |-> n, of |-> c.body]
<1>1. /\ pc[p] = "vector" /\ pc'[p] = "edges" /\ bundle' = bundle /\ edge' = edge
      /\ concept' = concept /\ facts' = facts /\ epoch' = epoch /\ job' = job
      /\ embedding' = {e \in embedding : e.id # c.id \/ e.epoch # job[p].n} \cup {row(job[p].n)}
  BY DEF UpsertEmbedding, Goto, TypeOK, disk
<1>2. HandInv(p)' /\ ReconciledInv(p)' /\ EmptiedInv(p)'
  BY <1>1 DEF HandInv, ReconciledInv, EmptiedInv, InHand, Applied, SoloInv
<1>3. DoneInv(p)'
  BY <1>1, HandDone DEF InHand
<1>4. ReadInv(p)'
  BY <1>1 DEF SoloInv, ReadInv, Mended, Rebuilds, InHand, Applied, Readable, Files
<1>5. ASSUME Rebuilds(p) PROVE BroughtInv(p)'
  <2>1. /\ Brought(p, {"vector", "edges", "fact"})' = Brought(p, {"vector", "edges", "fact"})
        /\ Brought(p, {"fact"})' = Brought(p, {"fact"}) /\ Brought(p, {})' = Brought(p, {})
        /\ Brought(p, {"edges", "fact"})' = (job[p].batch \ job[p].todo) \cup {c}
        /\ Brought(p, {"edges", "fact"}) = job[p].batch \ job[p].todo
    BY <1>1 DEF Brought
  <2>2. embedding = VectorRows(job[p].batch \ job[p].todo) /\ job[p].n = 0
    BY <1>1, <1>5, <2>1 DEF SoloInv, BroughtInv, InHand
  <2>3. \A d \in job[p].batch \ job[p].todo : d.id # c.id
    BY <1>1, <1>5, HandFresh DEF InHand
  <2>4. \A e \in embedding : e.id # c.id
    BY <2>2, <2>3 DEF VectorRows
  <2>5. embedding' = embedding \cup {row(0)}
    BY <1>1, <2>2, <2>4
  <2>6. embedding' = VectorRows((job[p].batch \ job[p].todo) \cup {c})
    BY <2>2, <2>5 DEF VectorRows
  <2> QED BY <1>1, <1>5, <2>1, <2>2, <2>6
        DEF SoloInv, BroughtInv, Rebuilds, Files, VectorRows, FactRowsAt, InHand, Applied
<1>6. ~Rebuilds(p) => BroughtInv(p)'
  BY <1>1 DEF BroughtInv, Rebuilds
<1> QED BY <1>2, <1>3, <1>4, <1>5, <1>6 DEF SoloInv

LEMMA SoloReplaceEdges ==
  ASSUME TypeOK, CurType, NEW p \in Procs, SoloInv(p), ReplaceEdges(p)
  PROVE  SoloInv(p)'
<1> DEFINE c == job[p].cur
<1>0. c \in Concepts /\ c.id \in Ids /\ edge \in [Ids -> Bodies \cup {Absent}]
  BY DEF ReplaceEdges, Goto, CurType, InHand, TypeOK, Concepts
<1>1. /\ pc[p] = "edges" /\ pc'[p] = "fact" /\ bundle' = bundle /\ concept' = concept
      /\ embedding' = embedding /\ facts' = facts /\ epoch' = epoch /\ job' = job
      /\ edge' = [edge EXCEPT ![c.id] = c.body]
  BY DEF ReplaceEdges, Goto, TypeOK, disk
<1>2. HandInv(p)' /\ ReconciledInv(p)' /\ EmptiedInv(p)'
  BY <1>0, <1>1 DEF HandInv, ReconciledInv, EmptiedInv, InHand, Applied, SoloInv
<1>3. DoneInv(p)'
  BY <1>0, <1>1, HandDone DEF InHand
<1>4. ReadInv(p)'
  BY <1>1 DEF SoloInv, ReadInv, Mended, Rebuilds, InHand, Applied, Readable, Files
<1>5. ASSUME Rebuilds(p) PROVE BroughtInv(p)'
  <2>1. /\ Brought(p, {"vector", "edges", "fact"})' = Brought(p, {"vector", "edges", "fact"})
        /\ Brought(p, {"fact"})' = (job[p].batch \ job[p].todo) \cup {c}
        /\ Brought(p, {"fact"}) = job[p].batch \ job[p].todo
        /\ Brought(p, {})' = Brought(p, {})
        /\ Brought(p, {"edges", "fact"})' = Brought(p, {"edges", "fact"})
    BY <1>1 DEF Brought
  <2>2. Files(edge) = job[p].batch \ job[p].todo
    BY <1>1, <1>5, <2>1 DEF SoloInv, BroughtInv, InHand
  <2>3. Files(edge)' = Files(edge) \cup {c}
    <3>1. \A d \in Files(edge) : d.id = c.id => d = c
      BY <1>1, <1>5, <2>2, HandFresh DEF InHand
    <3>2. Files([edge EXCEPT ![c.id] = c.body]) = Files(edge) \cup {c}
      BY <1>0, <3>1, FilesWrite
    <3> QED BY <1>1, <3>2 DEF Files
  <2> QED BY <1>1, <1>5, <2>1, <2>2, <2>3
        DEF SoloInv, BroughtInv, Rebuilds, Files, VectorRows, FactRowsAt, InHand, Applied
<1>6. ~Rebuilds(p) => BroughtInv(p)'
  BY <1>1 DEF BroughtInv, Rebuilds
<1> QED BY <1>2, <1>3, <1>4, <1>5, <1>6 DEF SoloInv

LEMMA SoloRecordFact ==
  ASSUME TypeOK, CurType, NEW p \in Procs, SoloInv(p), RecordFact(p)
  PROVE  SoloInv(p)'
<1> DEFINE c == job[p].cur
           n == job[p].n
           at == job[p].at
           done == job[p].batch \ job[p].todo
<1>0. /\ c \in Concepts /\ c.id \in Ids /\ n \in Nat /\ at \in Nat
      /\ facts \in SUBSET FactRows /\ job[p].batch \in SUBSET Concepts
  BY JobFields DEF RecordFact, Goto, CurType, InHand, TypeOK, Concepts, FactRows
<1>1. /\ pc[p] = "fact" /\ pc'[p] = "apply" /\ bundle' = bundle /\ concept' = concept
      /\ edge' = edge /\ embedding' = embedding /\ epoch' = epoch
      /\ facts' = Record(facts, c, n, at)
  BY DEF RecordFact, Goto, TypeOK, disk
<1>2. /\ job'[p].todo = job[p].todo \ {c} /\ job'[p].batch = job[p].batch
      /\ job'[p].op = job[p].op /\ job'[p].n = n /\ job'[p].at = at
  BY DEF RecordFact, TypeOK, Jobs
<1>3. c \in job[p].todo /\ job[p].todo \subseteq job[p].batch
  BY <1>1 DEF SoloInv, HandInv, DoneInv, InHand
<1>4. HandInv(p)' /\ ReconciledInv(p)' /\ EmptiedInv(p)'
  BY <1>1 DEF HandInv, ReconciledInv, EmptiedInv, InHand, Applied
<1>5. DoneInv(p)'
  <2> DEFINE StoredNow(b) ==
        /\ bundle'[b.id] = b.body /\ concept'[b.id] = b.body /\ edge'[b.id] = b.body
        /\ OpenFacts(facts', b.id)
             = {[id |-> b.id, body |-> b.body, epoch |-> n, from |-> at, to |-> Inf]}
  <2>1. StoredNow(c)
    <3>1. bundle[c.id] = c.body /\ concept[c.id] = c.body /\ edge[c.id] = c.body
      BY <1>1 DEF SoloInv, HandInv, InHand
    <3>2. OpenFacts(facts', c.id)
            = {[id |-> c.id, body |-> c.body, epoch |-> n, from |-> at, to |-> Inf]}
      BY <1>0, <1>1, RecordOpens
    <3> QED BY <1>1, <3>1, <3>2
  <2>2. ASSUME NEW d \in done, d.id # c.id
        PROVE  \E b \in job[p].batch : b.id = d.id /\ StoredNow(b)
    <3>1. PICK b \in job[p].batch : b.id = d.id /\ Stored(b.id, b.body, n, at)
      BY <1>1, <2>2 DEF SoloInv, DoneInv, InHand
    <3>2. OpenFacts(facts', b.id) = OpenFacts(facts, b.id)
      <4>1. b.id \in Ids \ {c.id}
        BY <1>0, <2>2, <3>1 DEF Concepts
      <4> QED BY <1>0, <1>1, <4>1, RecordOpens
    <3>3. StoredNow(b)
      BY <1>1, <3>1, <3>2 DEF Stored
    <3> QED BY <3>1, <3>3
  <2>3. ASSUME NEW d \in job[p].batch \ (job[p].todo \ {c})
        PROVE  \E b \in job[p].batch : b.id = d.id /\ StoredNow(b)
    <3>1. CASE d.id = c.id
      BY <1>3, <2>1, <3>1
    <3>2. CASE d.id # c.id
      BY <2>2, <3>2
    <3> QED BY <3>1, <3>2
  <2>4. \A b : StoredNow(b) => Stored(b.id, b.body, job[p].n, job[p].at)'
    BY <1>2 DEF Stored
  <2> HIDE DEF StoredNow
  <2>5. \A d \in job'[p].batch \ job'[p].todo :
          \E b \in job'[p].batch : b.id = d.id /\ Stored(b.id, b.body, job[p].n, job[p].at)'
    BY <1>2, <2>3, <2>4
  <2> QED BY <1>1, <1>2, <1>3, <2>5 DEF DoneInv, Applied, InHand
<1>6. ReadInv(p)'
  BY <1>1, <1>2 DEF SoloInv, ReadInv, Mended, Rebuilds, InHand, Applied, Readable, Files
<1>7. ASSUME Rebuilds(p) PROVE BroughtInv(p)'
  <2>1. /\ Brought(p, {"vector", "edges", "fact"})' = done \cup {c}
        /\ Brought(p, {"vector", "edges", "fact"}) = done \cup {c}
        /\ Brought(p, {"fact"})' = done \cup {c} /\ Brought(p, {"fact"}) = done \cup {c}
        /\ Brought(p, {"edges", "fact"})' = done \cup {c}
        /\ Brought(p, {"edges", "fact"}) = done \cup {c}
        /\ Brought(p, {})' = done \cup {c} /\ Brought(p, {}) = done
    BY <1>1, <1>2, <1>3 DEF Brought
  <2>2. facts = FactRowsAt(done, at) /\ n = 0
    BY <1>1, <1>7, <2>1 DEF SoloInv, BroughtInv, InHand
  <2>3. \A d \in done : d.id # c.id
    BY <1>1, <1>3, <1>7, HandFresh DEF InHand
  <2>4. \A f \in facts : f.id # c.id
    BY <2>2, <2>3 DEF FactRowsAt
  <2>5. facts' = facts \cup
          {[id |-> c.id, body |-> c.body, epoch |-> 0, from |-> at, to |-> Inf]}
    <3>1. facts' = facts \cup
            {[id |-> c.id, body |-> c.body, epoch |-> n, from |-> at, to |-> Inf]}
      BY <1>0, <1>1, <2>4, RecordFresh
    <3> QED BY <2>2, <3>1
  <2>6. facts' = FactRowsAt(done \cup {c}, at)
    BY <2>2, <2>5 DEF FactRowsAt
  <2> QED BY <1>1, <1>2, <1>7, <2>1, <2>2, <2>6
        DEF SoloInv, BroughtInv, Rebuilds, Files, VectorRows, FactRowsAt, InHand, Applied
<1>8. ~Rebuilds(p) => BroughtInv(p)'
  BY <1>2 DEF BroughtInv, Rebuilds
<1> QED BY <1>4, <1>5, <1>6, <1>7, <1>8 DEF SoloInv

LEMMA SoloApplyDone ==
  ASSUME TypeOK, NEW p \in Procs, SoloInv(p), ApplyDone(p)
  PROVE  SoloInv(p)'
<1> USE DEF InHand, Applied
<1>1. /\ pc[p] = "apply" /\ job[p].todo = {} /\ job' = job /\ bundle' = bundle
      /\ concept' = concept /\ edge' = edge /\ embedding' = embedding /\ facts' = facts
      /\ epoch' = epoch
  BY DEF ApplyDone, Goto, TypeOK, disk, index
<1>2. /\ job[p].op = "run" => pc'[p] = "reconcile"
      /\ job[p].op = "upsert" => pc'[p] = "indexes"
      /\ Rebuilds(p) => pc'[p] = "prune"
      /\ pc'[p] \in {"reconcile", "indexes", "prune"}
      /\ pc'[p] \in {"indexes", "prune"} => job[p].op # "run"
  BY DEF ApplyDone, Goto, TypeOK, Rebuilds, Jobs
<1>3. HandInv(p)' /\ ReconciledInv(p)' /\ EmptiedInv(p)'
  BY <1>1, <1>2 DEF HandInv, ReconciledInv, EmptiedInv
<1>4. DoneInv(p)'
  BY <1>1, <1>2 DEF SoloInv, DoneInv, Stored
<1>5. ReadInv(p)'
  BY <1>1, <1>2 DEF SoloInv, ReadInv, Mended, Rebuilds, Readable, Files
<1>6. BroughtInv(p)'
  <2>1. \A S : {"apply", "reconcile", "indexes", "prune"} \cap S = {} =>
          Brought(p, S)' = Brought(p, S)
    BY <1>1, <1>2 DEF Brought
  <2>2. /\ Brought(p, {"vector", "edges", "fact"})' = Brought(p, {"vector", "edges", "fact"})
        /\ Brought(p, {"fact"})' = Brought(p, {"fact"}) /\ Brought(p, {})' = Brought(p, {})
        /\ Brought(p, {"edges", "fact"})' = Brought(p, {"edges", "fact"})
    BY <1>1, <1>2 DEF Brought
  <2> QED BY <1>1, <1>2, <2>2 DEF SoloInv, BroughtInv, Rebuilds, Files, VectorRows, FactRowsAt
<1> QED BY <1>3, <1>4, <1>5, <1>6 DEF SoloInv

LEMMA SoloReconcileFile ==
  ASSUME TypeOK, StepsOfOp, NEW p \in Procs, SoloInv(p), ReconcileFile(p)
  PROVE  SoloInv(p)'
<1>1. /\ pc[p] = "reconcile" /\ pc' = pc /\ job' = job /\ concept' = concept
      /\ edge' = edge /\ facts' = facts /\ job[p].op = "run"
  BY DEF ReconcileFile, index, StepsOfOp
<1>2. PICK o \in Orphans(p) : bundle' = [bundle EXCEPT ![o] = Absent]
  BY DEF ReconcileFile
<1>3. o \in Ids /\ \A c \in job[p].batch : c.id # o
  BY <1>2 DEF Orphans, IdsOf
<1>4. DoneInv(p)'
  <2> SUFFICES ASSUME NEW d \in job[p].batch \ job[p].todo
               PROVE  \E c \in job[p].batch : c.id = d.id
                        /\ Stored(c.id, c.body, job[p].n, job[p].at)'
    BY <1>1 DEF SoloInv, DoneInv, Stored, InHand, Applied
  <2>1. PICK c \in job[p].batch : c.id = d.id /\ Stored(c.id, c.body, job[p].n, job[p].at)
    BY <1>1 DEF SoloInv, DoneInv, InHand, Applied
  <2>2. bundle'[c.id] = bundle[c.id]
    <3>1. c.id \in Ids /\ c.id # o
      BY <1>3, JobFields DEF TypeOK, Concepts
    <3> QED BY <1>2, <3>1 DEF TypeOK
  <2>3. Stored(c.id, c.body, job[p].n, job[p].at)'
    BY <1>1, <2>1, <2>2 DEF Stored, OpenFacts
  <2> QED BY <2>1, <2>3
<1> QED BY <1>1, <1>4 DEF SoloInv, HandInv, ReconciledInv, ReadInv, EmptiedInv, BroughtInv,
                          InHand, Applied, Rebuilds

\* The steps from the navigation to the pruning change neither a file nor a row
\* of concept, edge or concept_fact.
LEMMA SoloFinish ==
  ASSUME TypeOK, NEW p \in Procs, SoloInv(p), pc[p] \in Applied, pc'[p] \in Applied,
         bundle' = bundle, concept' = concept, edge' = edge, facts' = facts,
         job'[p].op = job[p].op, job'[p].batch = job[p].batch, job'[p].todo = job[p].todo,
         job'[p].n = job[p].n, job'[p].at = job[p].at,
         job[p].op = "run" /\ pc'[p] # "reconcile" /\ pc[p] = "reconcile" => Orphans(p) = {},
         Rebuilds(p) => embedding' = embedding /\ epoch' = epoch,
         pc'[p] = "reconcile" => pc[p] = "reconcile"
  PROVE  SoloInv(p)'
<1> USE DEF Applied, InHand
<1>1. HandInv(p)' /\ EmptiedInv(p)'
  BY DEF HandInv, EmptiedInv
<1>2. DoneInv(p)'
  BY DEF SoloInv, DoneInv, Stored, OpenFacts
<1>3. ReconciledInv(p)'
  BY DEF SoloInv, ReconciledInv, Orphans, IdsOf
<1>4. ReadInv(p)'
  BY DEF SoloInv, ReadInv, Mended, Rebuilds, Readable, Files
<1>5. BroughtInv(p)'
  <2>1. /\ Brought(p, {"vector", "edges", "fact"})' = Brought(p, {"vector", "edges", "fact"})
        /\ Brought(p, {"fact"})' = Brought(p, {"fact"}) /\ Brought(p, {})' = Brought(p, {})
        /\ Brought(p, {"edges", "fact"})' = Brought(p, {"edges", "fact"})
    BY DEF Brought
  <2> QED BY <2>1 DEF SoloInv, BroughtInv, Rebuilds, Files, VectorRows, FactRowsAt
<1> QED BY <1>1, <1>2, <1>3, <1>4, <1>5 DEF SoloInv

LEMMA SoloFinishStep ==
  ASSUME TypeOK, StepsOfOp, NEW p \in Procs, SoloInv(p), FinishStep(p), pc'[p] # "idle"
  PROVE  SoloInv(p)'
<1> USE DEF Applied
<1>1. CASE ReconcileFile(p)
  BY <1>1, SoloReconcileFile
<1>2. CASE ReconcileDone(p) \/ WriteIndexes(p) \/ AppendLog(p)
  <2>1. /\ pc[p] \in Applied /\ pc'[p] \in Applied \ {"reconcile"}
        /\ bundle' = bundle /\ concept' = concept /\ edge' = edge /\ facts' = facts
        /\ embedding' = embedding /\ epoch' = epoch /\ job' = job
        /\ pc[p] = "reconcile" => Orphans(p) = {}
    BY <1>2 DEF ReconcileDone, WriteIndexes, AppendLog, Goto, TypeOK, disk, index
  <2> QED BY <2>1, SoloFinish
<1>3. CASE Commit(p)
  <2>1. /\ pc[p] = "commit" /\ pc'[p] = "stamp" /\ bundle' = bundle /\ concept' = concept
        /\ edge' = edge /\ facts' = facts /\ embedding' = embedding /\ epoch' = epoch
    BY <1>3 DEF Commit, Goto, TypeOK, index
  <2>2. /\ job'[p].op = job[p].op /\ job'[p].batch = job[p].batch
        /\ job'[p].todo = job[p].todo /\ job'[p].n = job[p].n /\ job'[p].at = job[p].at
    BY <1>3 DEF Commit, TypeOK, Jobs
  <2> QED BY <2>1, <2>2, SoloFinish
<1>4. CASE SetEpochCommit(p)
  <2>1. /\ pc[p] = "stamp" /\ pc'[p] = "prune" /\ bundle' = bundle /\ concept' = concept
        /\ edge' = edge /\ facts' = facts /\ job' = job
    BY <1>4 DEF SetEpochCommit, Goto, TypeOK, disk
  <2>2. ~Rebuilds(p)
    BY <2>1 DEF StepsOfOp
  <2> QED BY <2>1, <2>2, SoloFinish
<1>5. CASE PruneEmbeddings(p)
  <2>1. /\ pc[p] = "prune" /\ pc'[p] = "return" /\ bundle' = bundle /\ concept' = concept
        /\ edge' = edge /\ facts' = facts /\ epoch' = epoch /\ job' = job
        /\ embedding' = {e \in embedding : \A d \in embedding : d.id = e.id => d.epoch <= e.epoch}
    BY <1>5 DEF PruneEmbeddings, Goto, TypeOK, disk
  <2>2. Rebuilds(p) => embedding' = embedding
    <3> SUFFICES ASSUME Rebuilds(p) PROVE embedding' = embedding
      OBVIOUS
    <3>1. embedding = VectorRows(Brought(p, {"edges", "fact"}))
      BY <2>1 DEF SoloInv, BroughtInv
    <3>2. \A e \in embedding : e.epoch = 0
      BY <3>1 DEF VectorRows
    <3> QED BY <2>1, <3>2
  <2> QED BY <2>1, <2>2, SoloFinish
<1>6. CASE Return(p)
  BY <1>6 DEF Return, Ended, TypeOK
<1> QED BY <1>1, <1>2, <1>3, <1>4, <1>5, <1>6 DEF FinishStep

LEMMA SoloStep ==
  ASSUME TypeOK, CurType, StepsOfOp, NEW p \in Procs, SoloInv(p), Step(p)
  PROVE  SoloInv(p)'
<1>1. CASE pc'[p] = "idle"
  <2>1. pc'[p] \notin Locked
    BY <1>1 DEF Locked
  <2> QED BY <2>1, SoloIdleNext
<1>2. CASE RemoveStep(p)
  <2>1. pc'[p] \notin Locked
    BY <1>2 DEF RemoveStep, RebuildIndexes, CommitRemoval, Goto, TypeOK, Locked
  <2> QED BY <2>1, SoloIdleNext
<1>3. CASE ApplyStep(p)
  BY <1>3, SoloOpenFile, SoloWriteFile, SoloUpsertConcept, SoloUpsertEmbedding,
     SoloReplaceEdges, SoloRecordFact, SoloApplyDone DEF ApplyStep
<1>4. CASE ReturnRefused(p)
  BY <1>1, <1>4 DEF ReturnRefused, Ended, TypeOK
<1> QED BY <1>1, <1>2, <1>3, <1>4, SoloReindexStep, SoloNextEpoch, SoloFinishStep DEF Step

\* Taking the mutex starts a call of which nothing is claimed yet.
LEMMA SoloLock ==
  ASSUME TypeOK, NEW p \in Procs, Lock(p)
  PROVE  SoloInv(p)'
<1>1. job'[p].op = job[p].op
  BY EnteredFields DEF Lock, TypeOK
<1>2. pc'[p] = IF job[p].op \in {"reindex", "remove"} THEN "read" ELSE "allocate"
  BY DEF Lock, Goto, TypeOK
<1>3. pc'[p] = "read" \/ (pc'[p] = "allocate" /\ ~Rebuilds(p)')
  BY <1>1, <1>2 DEF Rebuilds
<1> QED BY <1>3 DEF SoloInv, HandInv, DoneInv, ReconciledInv, ReadInv, EmptiedInv, BroughtInv,
                    InHand, Applied

LEMMA SoloProgressNext ==
  TypeOK /\ CurType /\ StepsOfOp /\ SoloAlone /\ SoloProgress /\ [Next]_vars => SoloProgress'
<1> SUFFICES ASSUME TypeOK, CurType, StepsOfOp, SoloAlone, SoloProgress, [Next]_vars,
                    NEW q \in Procs, job'[q].solo, pc'[q] \in Locked
             PROVE  SoloInv(q)'
  BY SoloIdleNext DEF SoloProgress
<1>1. ASSUME UNCHANGED <<disk, index>>, pc'[q] = pc[q], job'[q] = job[q] PROVE SoloInv(q)'
  <2>1. SoloInv(q)
    BY <1>1 DEF SoloProgress
  <2>2. /\ bundle' = bundle /\ concept' = concept /\ edge' = edge /\ embedding' = embedding
        /\ facts' = facts /\ epoch' = epoch
    BY <1>1 DEF disk, index
  <2>3. HandInv(q)' /\ DoneInv(q)' /\ ReconciledInv(q)' /\ ReadInv(q)'
    BY <1>1, <2>1, <2>2 DEF SoloInv, HandInv, DoneInv, ReconciledInv, ReadInv, Stored, OpenFacts,
      Orphans, Mended, Files, Readable, Rebuilds
  <2>4. \A S : Brought(q, S)' = Brought(q, S)
    BY <1>1 DEF Brought
  <2>5. EmptiedInv(q)' /\ BroughtInv(q)'
    BY <1>1, <2>1, <2>2, <2>4 DEF SoloInv, EmptiedInv, BroughtInv, Rebuilds, Files, VectorRows,
      FactRowsAt
  <2> QED BY <2>3, <2>5 DEF SoloInv
<1>2. CASE UNCHANGED vars
  BY <1>1, <1>2 DEF vars
<1>3. ASSUME NEW p \in Procs, p # q, Step(p) \/ ReturnError(p) PROVE SoloInv(q)'
  <2>1. pc'[q] = pc[q] /\ job'[q] = job[q] /\ Busy(p)
    BY <1>3, StepFrame
  <2>2. Alone(q)
    BY <2>1 DEF SoloAlone, Busy
  <2> QED BY <1>3, <2>1, <2>2 DEF Alone
<1>4. ASSUME Step(q) PROVE SoloInv(q)'
  <2>1. job[q].solo
    BY <1>4, StepOwn DEF Locked
  <2> QED BY <1>4, <2>1, SoloStep DEF SoloProgress
<1>5. ASSUME ReturnError(q) PROVE SoloInv(q)'
  BY <1>5 DEF ReturnError, Ended, TypeOK, Locked
<1>6. ASSUME Lock(q) PROVE SoloInv(q)'
  BY <1>6, SoloLock
<1>7. ASSUME RemoveFile(q) PROVE SoloInv(q)'
  BY <1>7 DEF RemoveFile, TypeOK, Locked
<1>8. ASSUME NEW p \in Procs, CallRun(p) \/ CallUpsertBatch(p) \/ CallReindex(p)
      PROVE  SoloInv(q)'
  <2>1. UNCHANGED <<disk, index>> /\ pc'[p] = "waiting"
    <3>1. PICK kind \in {"run", "upsert", "reindex"}, B \in SUBSET Concepts : Call(p, kind, B)
      BY <1>8 DEF CallRun, CallUpsertBatch, CallReindex, RunInputs, UpsertInputs
    <3> QED BY <3>1 DEF Call, Goto, TypeOK
  <2>2. p # q
    BY <2>1 DEF Locked
  <2> QED BY <1>1, <1>8, <2>1, <2>2, Arrival
<1>9. ASSUME NEW p \in Procs, p # q, Lock(p) \/ RemoveFile(p) PROVE SoloInv(q)'
  <2>1. pc'[q] = pc[q] /\ ~Busy(p)'
    BY <1>9, Arrival
  <2>2. pc'[p] \in Locked \cup Unlocked
    BY <1>9 DEF Lock, RemoveFile, Goto, TypeOK, Locked, Unlocked
  <2> QED BY <2>1, <2>2 DEF Busy
<1>10. ASSUME NEW r \in Runners, Kill(r) PROVE SoloInv(q)'
  <2>1. pc'[q] = pc[q] /\ job'[q] = job[q]
    BY <1>10 DEF Kill, Ended, TypeOK, Locked
  <2> QED BY <1>1, <1>10, <2>1 DEF Kill
<1> QED BY <1>2, <1>3, <1>4, <1>5, <1>6, <1>7, <1>8, <1>9, <1>10 DEF Next, Finished

-----------------------------------------------------------------------------
(* The theorems.                                                           *)

LEMMA ProgressInit == Init => Progress
<1> SUFFICES ASSUME Init PROVE SoloAlone /\ SoloProgress
  BY TypeInit, StepsOfOpInit DEF Progress
<1>1. \A p \in Procs : ~job[p].solo
  BY DEF Init, NoJob
<1> QED BY <1>1 DEF SoloAlone, SoloProgress

LEMMA ProgressNext == Progress /\ [Next]_vars => Progress'
  BY TypeNext, StepsOfOpNext, SoloAloneNext, SoloProgressNext DEF Progress

\* While a call that nobody overlaps is under way (applyAll, Reindex), what is
\* behind it in its list is stored and nothing else came into the tables.
THEOREM ProgressHolds == Spec => []Progress
  BY ProgressInit, ProgressNext, PTL DEF Spec

\* A successful call nobody overlapped leaves each concept of its batch the same
\* in file, row, links and current fact, whatever state it found (applyAll).
THEOREM BatchIsStored == Spec => []BatchStored
<1>1. Progress => BatchStored
  <2> SUFFICES ASSUME Progress, NEW p \in Procs, pc[p] = "return", job[p].solo,
                      NEW i \in IdsOf(job[p].batch)
               PROVE  \E c \in job[p].batch : c.id = i /\ Stored(i, c.body, job[p].n, job[p].at)
    BY DEF BatchStored
  <2>1. PICK d \in job[p].batch : d.id = i
    BY DEF IdsOf
  <2>2. DoneInv(p)
    BY DEF Progress, SoloProgress, SoloInv
  <2>3. job[p].todo = {}
    BY <2>2 DEF DoneInv, Applied
  <2> QED BY <2>1, <2>2, <2>3 DEF DoneInv, Applied, InHand
<1> QED BY <1>1, ProgressHolds, PTL

\* A successful Run nobody overlapped leaves a bundle that holds exactly what was
\* gathered (Runner.Run, ReconcileBundle).
THEOREM RunIsMaterialized == Spec => []RunMaterializes
<1>1. Progress /\ BatchStored => RunMaterializes
  <2> SUFFICES ASSUME Progress, BatchStored, NEW p \in Procs, pc[p] = "return", job[p].solo,
                      job[p].op = "run"
               PROVE  Files(bundle) = job[p].batch /\ Readable(bundle)
    BY DEF RunMaterializes
  <2>1. job[p].batch \in RunInputs /\ job[p].batch \in SUBSET Concepts
    BY JobFields DEF Progress, StepsOfOp, TypeOK
  <2>2. Orphans(p) = {}
    BY DEF Progress, SoloProgress, SoloInv, ReconciledInv, Applied
  <2>3. \A c \in job[p].batch : bundle[c.id] = c.body
    <3> TAKE c \in job[p].batch
    <3>1. PICK d \in job[p].batch : d.id = c.id /\ Stored(c.id, d.body, job[p].n, job[p].at)
      BY DEF BatchStored, IdsOf
    <3>2. d = c
      BY <2>1, <3>1 DEF RunInputs
    <3> QED BY <3>1, <3>2 DEF Stored
  <2>4. \A i \in Ids : bundle[i] = Absent \/ \E c \in job[p].batch : c.id = i
    BY <2>2 DEF Orphans, IdsOf
  <2>5. Files(bundle) = job[p].batch
    <3>1. ASSUME NEW c \in Concepts, bundle[c.id] = c.body PROVE c \in job[p].batch
      <4>1. c.id \in Ids /\ c.body \in Bodies
        BY DEF Concepts
      <4>2. PICK d \in job[p].batch : d.id = c.id
        BY <2>4, <3>1, <4>1
      <4> QED BY <2>1, <2>3, <3>1, <4>2 DEF Concepts
    <3> QED BY <2>1, <2>3, <3>1 DEF Files
  <2>6. Readable(bundle)
    <3>1. ASSUME NEW i \in Ids, bundle[i] # Absent PROVE bundle[i] \in Bodies
      <4>1. PICK c \in job[p].batch : c.id = i
        BY <2>4, <3>1
      <4>2. bundle[i] = c.body
        BY <2>3, <4>1
      <4>3. c.body \in Bodies
        BY <2>1 DEF Concepts
      <4> QED BY <4>2, <4>3
    <3> QED BY <3>1 DEF Readable, Absent, Torn
  <2> QED BY <2>5, <2>6
<1> QED BY <1>1, BatchIsStored, ProgressHolds, PTL

\* A successful Reindex nobody overlapped leaves an index that is a function of
\* the bundle: nothing the tables held before survives (Runner.Reindex).
THEOREM IndexIsRestored == Spec => []ReindexRestores
<1>1. Progress => ReindexRestores
  <2> SUFFICES ASSUME Progress, NEW p \in Procs, pc[p] = "return", job[p].solo, Rebuilds(p)
               PROVE  /\ concept = bundle /\ edge = bundle
                      /\ embedding = VectorRows(Files(bundle))
                      /\ facts = FactRowsAt(Files(bundle), job[p].at)
                      /\ Len(epoch) = 1
    BY DEF ReindexRestores, Rebuilds, VectorRows, FactRowsAt
  <2>1. job[p].todo = {} /\ Readable(bundle) /\ job[p].batch = Files(bundle)
    BY DEF Progress, SoloProgress, SoloInv, DoneInv, ReadInv, Mended, Applied
  <2>2. \A S : "return" \notin S => Brought(p, S) = Files(bundle)
    BY <2>1 DEF Brought
  <2>3. /\ Brought(p, {"vector", "edges", "fact"}) = Files(bundle)
        /\ Brought(p, {"fact"}) = Files(bundle) /\ Brought(p, {}) = Files(bundle)
        /\ Brought(p, {"edges", "fact"}) = Files(bundle)
    BY <2>2
  <2>4. /\ Files(concept) = Files(bundle) /\ Files(edge) = Files(bundle)
        /\ embedding = VectorRows(Files(bundle)) /\ Len(epoch) = 1
        /\ facts = FactRowsAt(Files(bundle), job[p].at)
    BY <2>3 DEF Progress, SoloProgress, SoloInv, BroughtInv, Applied
  <2>5. ASSUME NEW m \in [Ids -> Bodies \cup {Absent}], Files(m) = Files(bundle)
        PROVE  m = bundle
    <3>1. bundle \in [Ids -> Bodies \cup {Absent, Torn}]
      BY DEF Progress, TypeOK
    <3>2. ASSUME NEW i \in Ids PROVE m[i] = bundle[i]
      <4>1. \A b \in Bodies : m[i] = b <=> bundle[i] = b
        <5> TAKE b \in Bodies
        <5>1. [id |-> i, body |-> b] \in Concepts
          BY DEF Concepts
        <5> QED BY <2>5, <5>1 DEF Files
      <4>2. bundle[i] # Torn
        BY <2>1 DEF Readable
      <4> QED BY <3>1, <4>1, <4>2
    <3> QED BY <3>1, <3>2
  <2>6. concept = bundle /\ edge = bundle
    BY <2>4, <2>5 DEF Progress, TypeOK
  <2> QED BY <2>4, <2>6
<1> QED BY <1>1, ProgressHolds, PTL
-----------------------------------------------------------------------------
(* Mutual exclusion.                                                       *)

LEMMA OneAtWork ==
  ASSUME OneWriter, Exclusive, NEW p \in Procs, NEW q \in Procs, Busy(p), Busy(q)
  PROVE  p = q
  BY DEF OneWriter, Exclusive

\* A step that does not end the call leaves its caller inside the mutex.
LEMMA StepLocked ==
  ASSUME TypeOK, NEW p \in Procs, pc[p] \in Locked, Step(p), pc'[p] # "idle"
  PROVE  pc'[p] \in Locked /\ lock' = lock
<1> USE DEF TypeOK, Goto, Locked
<1>1. CASE RemoveStep(p) \/ ReindexStep(p) \/ NextEpoch(p)
  BY <1>1 DEF RemoveStep, RebuildIndexes, CommitRemoval, ReindexStep, ReadBundle, Truncate,
    NextEpoch
<1>2. CASE ApplyStep(p)
  BY <1>2 DEF ApplyStep, OpenFile, WriteFile, UpsertConcept, UpsertEmbedding, ReplaceEdges,
    RecordFact, ApplyDone
<1>3. CASE FinishStep(p)
  BY <1>3 DEF FinishStep, ReconcileFile, ReconcileDone, WriteIndexes, AppendLog, Commit,
    SetEpochCommit, PruneEmbeddings, Return, Ended
<1>4. CASE ReturnRefused(p)
  BY <1>4 DEF ReturnRefused, Ended
<1> QED BY <1>1, <1>2, <1>3, <1>4 DEF Step

\* A caller that gets the mutex finds nobody at work.
LEMMA LockAlone ==
  ASSUME TypeOK, Exclusive, OneWriter, NEW p \in Procs, Lock(p)
  PROVE  /\ \A q \in Procs : ~Busy(q)
         /\ \A q \in Procs \ {p} : pc'[q] = pc[q]
         /\ pc'[p] \in {"read", "allocate"} /\ job'[p].solo
         /\ lock'[LockOf[p]] = p
<1>1. \A q \in Procs : ~Busy(q)
  BY DEF Lock, Exclusive, OneWriter
<1>2. job'[p].solo
  BY <1>1, EnteredFields DEF Lock, TypeOK, Alone
<1> QED BY <1>1, <1>2 DEF Lock, Goto, TypeOK

LEMMA ExclusiveNext ==
  ASSUME OneWriter, TypeOK, CurType, StepsOfOp, Exclusive, [Next]_vars
  PROVE  Exclusive'
<1> SUFFICES ASSUME NEW q \in Procs, Busy(q)'
             PROVE  pc'[q] \in Locked /\ lock'[LockOf[q]] = q /\ job'[q].solo
  BY DEF Exclusive
<1>1. pc'[q] \notin {"idle", "waiting"}
  BY DEF Busy, Locked, Unlocked
<1>2. CASE UNCHANGED vars
  BY <1>2 DEF vars, Exclusive, Busy
<1>3. ASSUME NEW p \in Procs, CallRun(p) \/ CallUpsertBatch(p) \/ CallReindex(p)
      PROVE  pc'[q] \in Locked /\ lock'[LockOf[q]] = q /\ job'[q].solo
  <2>1. PICK kind \in {"run", "upsert", "reindex"}, B \in SUBSET Concepts : Call(p, kind, B)
    BY <1>3 DEF CallRun, CallUpsertBatch, CallReindex, RunInputs, UpsertInputs
  <2>2. pc'[q] = pc[q] /\ job'[q] = job[q] /\ lock' = lock
    BY <1>1, <2>1 DEF Call, Goto, TypeOK
  <2> QED BY <2>2 DEF Exclusive, Busy
<1>4. ASSUME NEW p \in Procs, RemoveFile(p) PROVE FALSE
  BY <1>4 DEF RemoveFile, OneWriter
<1>5. ASSUME NEW p \in Procs, Lock(p)
      PROVE  pc'[q] \in Locked /\ lock'[LockOf[q]] = q /\ job'[q].solo
  BY <1>5, LockAlone DEF Busy, Locked
<1>6. ASSUME Step(q) PROVE pc'[q] \in Locked /\ lock'[LockOf[q]] = q /\ job'[q].solo
  <2>1. pc[q] \in Locked /\ lock[LockOf[q]] = q /\ job[q].solo
    BY <1>6, StepBusy DEF Exclusive
  <2> QED BY <1>1, <1>6, <2>1, StepLocked, StepOwn
<1>7. ASSUME NEW p \in Procs, p # q, Step(p) \/ ReturnError(p) PROVE FALSE
  <2>1. Busy(p) /\ Busy(q)
    BY <1>7, StepFrame DEF Busy
  <2> QED BY <1>7, <2>1, OneAtWork
<1>8. ASSUME ReturnError(q) PROVE FALSE
  BY <1>1, <1>8 DEF ReturnError, Ended, TypeOK
<1>9. ASSUME NEW r \in Runners, Kill(r) PROVE FALSE
  BY <1>1, <1>9 DEF Kill, Ended, OneWriter
<1> QED BY <1>2, <1>3, <1>4, <1>5, <1>6, <1>7, <1>8, <1>9 DEF Next, Finished

\* A step that ends the call leaves the stores alone.
LEMMA StepEnds ==
  ASSUME TypeOK, NEW p \in Procs, pc[p] \in Locked, Step(p), pc'[p] = "idle"
  PROVE  UNCHANGED <<disk, index>>
<1> USE DEF TypeOK, Goto, Locked
<1>1. CASE RemoveStep(p) \/ ReindexStep(p) \/ NextEpoch(p)
  BY <1>1 DEF RemoveStep, RebuildIndexes, CommitRemoval, ReindexStep, ReadBundle, Truncate,
    NextEpoch
<1>2. CASE ApplyStep(p)
  BY <1>2 DEF ApplyStep, OpenFile, WriteFile, UpsertConcept, UpsertEmbedding, ReplaceEdges,
    RecordFact, ApplyDone
<1>3. CASE FinishStep(p)
  BY <1>3 DEF FinishStep, ReconcileFile, ReconcileDone, WriteIndexes, AppendLog, Commit,
    SetEpochCommit, PruneEmbeddings, Return
<1>4. CASE ReturnRefused(p)
  BY <1>4 DEF ReturnRefused
<1> QED BY <1>1, <1>2, <1>3, <1>4 DEF Step

\* Either nothing happens to the stores and no call comes under an epoch, or one
\* caller inside the mutex takes a step, alone.
Rests ==
  /\ UNCHANGED <<disk, index>>
  /\ \A q \in Procs : \/ pc'[q] = pc[q] /\ job'[q] = job[q]
                      \/ pc'[q] \in {"idle", "waiting", "read", "allocate"}

Works(p) ==
  /\ Step(p) /\ pc[p] \in Locked /\ job[p].solo /\ pc'[p] # "idle"
  /\ \A q \in Procs \ {p} : pc'[q] \in {"idle", "waiting"}

LEMMA OneNext ==
  ASSUME OneWriter, TypeOK, CurType, StepsOfOp, Exclusive, [Next]_vars
  PROVE  Rests \/ \E p \in Procs : Works(p)
<1>1. CASE UNCHANGED vars
  BY <1>1 DEF vars, Rests
<1>2. ASSUME NEW p \in Procs, CallRun(p) \/ CallUpsertBatch(p) \/ CallReindex(p) PROVE Rests
  <2>1. PICK kind \in {"run", "upsert", "reindex"}, B \in SUBSET Concepts : Call(p, kind, B)
    BY <1>2 DEF CallRun, CallUpsertBatch, CallReindex, RunInputs, UpsertInputs
  <2> QED BY <2>1 DEF Call, Goto, TypeOK, Rests
<1>3. ASSUME NEW p \in Procs, RemoveFile(p) PROVE FALSE
  BY <1>3 DEF RemoveFile, OneWriter
<1>4. ASSUME NEW p \in Procs, Lock(p) PROVE Rests
  <2>1. \A q \in Procs : pc'[q] \in {"idle", "waiting", "read", "allocate"}
    BY <1>4, LockAlone DEF Busy, TypeOK, PCs
  <2>2. UNCHANGED <<disk, index>>
    BY <1>4 DEF Lock
  <2> QED BY <2>1, <2>2 DEF Rests
<1>5. ASSUME NEW p \in Procs, Step(p) PROVE Rests \/ Works(p)
  <2>1. Busy(p) /\ pc[p] \in Locked /\ job[p].solo
    BY <1>5, StepBusy DEF Exclusive
  <2>2. \A q \in Procs \ {p} : pc'[q] = pc[q] /\ ~Busy(q)
    BY <1>5, <2>1, StepFrame, OneAtWork
  <2>3. \A q \in Procs \ {p} : pc'[q] \in {"idle", "waiting"}
    BY <2>2 DEF Busy, TypeOK, PCs
  <2>4. CASE pc'[p] = "idle"
    BY <1>5, <2>1, <2>3, <2>4, StepEnds DEF Rests
  <2>5. CASE pc'[p] # "idle"
    BY <1>5, <2>1, <2>3, <2>5 DEF Works
  <2> QED BY <2>4, <2>5
<1>6. ASSUME NEW p \in Procs, ReturnError(p) PROVE Rests
  BY <1>6 DEF ReturnError, Ended, Rests, TypeOK
<1>7. ASSUME NEW r \in Runners, Kill(r) PROVE Rests
  BY <1>7 DEF Kill, Ended, Rests, TypeOK
<1> QED BY <1>1, <1>2, <1>3, <1>4, <1>5, <1>6, <1>7 DEF Next, Finished

-----------------------------------------------------------------------------
(* The navigation.                                                         *)

LEMMA NavStep ==
  ASSUME TypeOK, CurType, StepsOfOp, NEW p \in Procs, Step(p), pc'[p] # "idle", NavInv(p)
  PROVE  NavInv(p)'
<1> USE DEF TypeOK, Goto
<1>0. Rebuilds(p)' = Rebuilds(p)
  BY StepOwn DEF Rebuilds
<1>1. CASE RemoveStep(p) \/ ReindexStep(p) \/ NextEpoch(p) \/ ReturnRefused(p)
  BY <1>1 DEF RemoveStep, RebuildIndexes, CommitRemoval, ReindexStep, ReadBundle, Truncate,
    NextEpoch, ReturnRefused, Ended, NavInv
<1>2. CASE ApplyStep(p)
  <2>1. pc'[p] = "prune" => Rebuilds(p)
    BY <1>2 DEF ApplyStep, OpenFile, WriteFile, UpsertConcept, UpsertEmbedding, ReplaceEdges,
      RecordFact, ApplyDone, Rebuilds, Jobs
  <2>2. pc'[p] \notin {"log", "commit", "stamp", "return"}
    BY <1>2 DEF ApplyStep, OpenFile, WriteFile, UpsertConcept, UpsertEmbedding, ReplaceEdges,
      RecordFact, ApplyDone
  <2> QED BY <1>0, <2>1, <2>2 DEF NavInv
<1>3. CASE WriteIndexes(p)
  BY <1>3 DEF WriteIndexes, NavInv, Files
<1>4. CASE AppendLog(p) \/ Commit(p) \/ SetEpochCommit(p) \/ PruneEmbeddings(p)
  <2>1. /\ pc[p] \in {"log", "commit", "stamp", "prune"} /\ nav' = nav /\ bundle' = bundle
    BY <1>4 DEF AppendLog, Commit, SetEpochCommit, PruneEmbeddings, disk
  <2> QED BY <1>0, <2>1 DEF NavInv, Files
<1>5. CASE ReconcileFile(p) \/ ReconcileDone(p) \/ Return(p)
  BY <1>5 DEF ReconcileFile, ReconcileDone, Return, Ended, NavInv
<1> QED BY <1>1, <1>2, <1>3, <1>4, <1>5 DEF Step, FinishStep

-----------------------------------------------------------------------------
(* Vectors and facts of the epoch being written.                           *)

\* Neither table changes, nor what was brought to them.
LEMMA OwnRowsSame ==
  ASSUME TypeOK, NEW p \in Procs, RowsInv, OwnRowsInv(p), pc[p] \in UnderEpoch, pc'[p] # "return",
         embedding' = embedding, facts' = facts, Len(epoch') = Len(epoch),
         job'[p].n = job[p].n,
         Brought(p, {})' = Brought(p, {}),
         Brought(p, {"edges", "fact"})' = Brought(p, {"edges", "fact"})
  PROVE  RowsInv' /\ OwnRowsInv(p)'
<1>1. RowsInv'
  BY DEF RowsInv
<1>2. OwnRowsInv(p)'
  BY DEF OwnRowsInv
<1> QED BY <1>1, <1>2

LEMMA OwnRowsStart ==
  ASSUME TypeOK, NEW p \in Procs, RowsInv, ReindexStep(p) \/ NextEpoch(p)
  PROVE  RowsInv' /\ OwnRowsInv(p)'
<1>1. CASE ReadBundle(p)
  BY <1>1 DEF ReadBundle, Goto, TypeOK, index, RowsInv, OwnRowsInv, UnderEpoch, InHand, Applied
<1>2. CASE Truncate(p)
  BY <1>2 DEF Truncate, Goto, TypeOK, RowsInv, OwnRowsInv, UnderEpoch, InHand, Applied
<1>3. CASE NextEpoch(p)
  <2>1. /\ pc'[p] = "apply" /\ embedding' = embedding /\ facts' = facts
        /\ Len(epoch') = Len(epoch) + 1 /\ Len(epoch) \in Nat
    BY <1>3 DEF NextEpoch, Goto, TypeOK
  <2>2. /\ job'[p].n = Len(epoch) /\ job'[p].todo = job[p].batch /\ job'[p].batch = job[p].batch
    BY <1>3 DEF NextEpoch, TypeOK, Jobs
  <2>3. \A S : "apply" \notin S => Brought(p, S)' = {}
    BY <2>1, <2>2 DEF Brought
  <2>4. (\A e \in embedding : e.epoch \in Nat) /\ (\A f \in facts : f.epoch \in Nat)
    BY DEF TypeOK, Rows
  <2>5. RowsInv'
    BY <2>1, <2>4 DEF RowsInv
  <2>6. OwnRowsInv(p)'
    <3>1. \A f \in facts' : f.epoch # job'[p].n
      BY <2>1, <2>2, <2>4 DEF RowsInv
    <3>2. IdsOf(Brought(p, {"edges", "fact"})') = {}
      BY <2>3 DEF IdsOf
    <3> QED BY <2>1, <2>2, <3>1, <3>2 DEF OwnRowsInv, IdsOf
  <2> QED BY <2>5, <2>6
<1> QED BY <1>1, <1>2, <1>3 DEF ReindexStep

LEMMA OwnRowsVector ==
  ASSUME TypeOK, CurType, NEW p \in Procs, RowsInv, OwnRowsInv(p), UpsertEmbedding(p)
  PROVE  RowsInv' /\ OwnRowsInv(p)'
<1> DEFINE c == job[p].cur
           n == job[p].n
           new == [id |-> c.id, epoch |-> n, of |-> c.body]
<1>1. /\ pc[p] = "vector" /\ pc'[p] = "edges" /\ facts' = facts /\ epoch' = epoch /\ job' = job
      /\ embedding' = {e \in embedding : e.id # c.id \/ e.epoch # n} \cup {new}
  BY DEF UpsertEmbedding, Goto, TypeOK
<1>2. new.id = c.id /\ new.epoch = n
  OBVIOUS
<1>3. Len(epoch) = n + 1 /\ n \in Nat
  BY <1>1 DEF OwnRowsInv, UnderEpoch, InHand, TypeOK, Jobs
<1> HIDE DEF new
<1>4. RowsInv'
  <2>1. \A e \in embedding' : e.epoch < Len(epoch')
    BY <1>1, <1>2, <1>3 DEF RowsInv
  <2>2. \A f \in facts' : f.epoch < Len(epoch')
    BY <1>1 DEF RowsInv
  <2>3. \A d, e \in embedding' : d.id = e.id /\ d.epoch = e.epoch => d = e
    BY <1>1, <1>2 DEF RowsInv
  <2> QED BY <2>1, <2>2, <2>3 DEF RowsInv
<1>5. Brought(p, {})' = Brought(p, {})
  BY <1>1 DEF Brought
<1>6. Brought(p, {"edges", "fact"})' = Brought(p, {"edges", "fact"}) \cup {c}
  BY <1>1 DEF Brought
<1>7. ASSUME NEW i \in IdsOf(Brought(p, {"edges", "fact"})')
      PROVE  \E e \in embedding' : e.id = i /\ e.epoch = job'[p].n
  <2>1. CASE i = c.id
    BY <1>1, <1>2, <2>1
  <2>2. CASE i # c.id
    <3>1. i \in IdsOf(Brought(p, {"edges", "fact"}))
      BY <1>6, <1>7, <2>2 DEF IdsOf
    <3>2. PICK e \in embedding : e.id = i /\ e.epoch = n
      BY <1>1, <3>1 DEF OwnRowsInv, UnderEpoch, InHand
    <3> QED BY <1>1, <2>2, <3>2
  <2> QED BY <2>1, <2>2
<1>8. OwnRowsInv(p)'
  <2>1. \A f \in facts' : f.epoch = job'[p].n => f.id \in IdsOf(Brought(p, {})')
    BY <1>1, <1>5 DEF OwnRowsInv, UnderEpoch, InHand
  <2> QED BY <1>1, <1>3, <1>7, <2>1 DEF OwnRowsInv
<1> QED BY <1>4, <1>8

\* Record keeps id, body and epoch of the rows there are, and adds one.
LEMMA RecordKeeps ==
  ASSUME NEW F \in SUBSET FactRows, NEW c \in Concepts, NEW n \in Nat, NEW at \in Nat
  PROVE  /\ \A g \in Record(F, c, n, at) :
              \/ \E f \in F : g.id = f.id /\ g.body = f.body /\ g.epoch = f.epoch
              \/ g.id = c.id /\ g.body = c.body /\ g.epoch = n
         /\ \A f \in F : \E g \in Record(F, c, n, at) :
              g.id = f.id /\ g.body = f.body /\ g.epoch = f.epoch
         /\ \E g \in Record(F, c, n, at) : g.id = c.id /\ g.body = c.body /\ g.epoch = n
<1> DEFINE new == [id |-> c.id, body |-> c.body, epoch |-> n, from |-> at, to |-> Inf]
           Kept(f) == IF f.id = c.id /\ IsOpen(f) THEN [f EXCEPT !.to = at] ELSE f
           G == Record(F, c, n, at)
<1>1. G = {Kept(f) : f \in F} \cup {new}
  BY DEF Record
<1>2. new.id = c.id /\ new.body = c.body /\ new.epoch = n
  OBVIOUS
<1>3. \A f \in F : Kept(f).id = f.id /\ Kept(f).body = f.body /\ Kept(f).epoch = f.epoch
  BY DEF FactRows
<1> HIDE DEF new, Kept, G
<1>4. \A g \in G : \/ \E f \in F : g.id = f.id /\ g.body = f.body /\ g.epoch = f.epoch
                   \/ g.id = c.id /\ g.body = c.body /\ g.epoch = n
  BY <1>1, <1>2, <1>3
<1>5. \A f \in F : \E g \in G : g.id = f.id /\ g.body = f.body /\ g.epoch = f.epoch
  BY <1>1, <1>3
<1>6. \E g \in G : g.id = c.id /\ g.body = c.body /\ g.epoch = n
  BY <1>1, <1>2
<1> QED BY <1>4, <1>5, <1>6 DEF G

LEMMA OwnRowsFact ==
  ASSUME TypeOK, CurType, NEW p \in Procs, SoloInv(p), RowsInv, OwnRowsInv(p), RecordFact(p)
  PROVE  RowsInv' /\ OwnRowsInv(p)'
<1> DEFINE c == job[p].cur
           n == job[p].n
<1>1. /\ pc[p] = "fact" /\ pc'[p] = "apply" /\ embedding' = embedding /\ epoch' = epoch
      /\ facts' = Record(facts, c, n, job[p].at)
  BY DEF RecordFact, Goto, TypeOK
<1>2. job'[p].n = n /\ job'[p].batch = job[p].batch /\ job'[p].todo = job[p].todo \ {c}
  BY DEF RecordFact, TypeOK, Jobs
<1>3. Len(epoch) = n + 1 /\ n \in Nat
  BY <1>1 DEF OwnRowsInv, UnderEpoch, InHand, TypeOK, Jobs
<1>4. facts \in SUBSET FactRows /\ c \in Concepts /\ job[p].at \in Nat
  BY <1>1 DEF TypeOK, CurType, InHand, FactRows, Jobs
<1>5. \A g \in facts' : \/ \E f \in facts : g.id = f.id /\ g.epoch = f.epoch
                        \/ g.id = c.id /\ g.epoch = n
  BY <1>1, <1>3, <1>4, RecordKeeps
<1>6. c \in job[p].batch /\ c \in job[p].todo
  BY <1>1 DEF SoloInv, HandInv, DoneInv, InHand
<1>7. /\ Brought(p, {})' = Brought(p, {}) \cup {c}
      /\ Brought(p, {"edges", "fact"})' = Brought(p, {"edges", "fact"})
  BY <1>1, <1>2, <1>6 DEF Brought
<1>8. RowsInv'
  <2>1. \A f \in facts' : f.epoch < Len(epoch')
    BY <1>1, <1>3, <1>5 DEF RowsInv
  <2> QED BY <1>1, <2>1 DEF RowsInv
<1>9. \A f \in facts' : f.epoch = n => f.id \in IdsOf(Brought(p, {}) \cup {c})
  <2> SUFFICES ASSUME NEW f \in facts', f.epoch = n
               PROVE  f.id \in IdsOf(Brought(p, {}) \cup {c})
    OBVIOUS
  <2>1. CASE \E g \in facts : f.id = g.id /\ f.epoch = g.epoch
    BY <1>1, <2>1 DEF OwnRowsInv, UnderEpoch, InHand, IdsOf
  <2>2. CASE f.id = c.id
    BY <2>2 DEF IdsOf
  <2> QED BY <1>5, <2>1, <2>2
<1>10. OwnRowsInv(p)'
  <2>1. \A f \in facts' : f.epoch = job'[p].n => f.id \in IdsOf(Brought(p, {})')
    BY <1>2, <1>7, <1>9
  <2>2. \A i \in IdsOf(Brought(p, {"edges", "fact"})') :
          \E e \in embedding' : e.id = i /\ e.epoch = job'[p].n
    BY <1>1, <1>2, <1>7 DEF OwnRowsInv, UnderEpoch, InHand
  <2> QED BY <1>1, <1>2, <1>3, <2>1, <2>2 DEF OwnRowsInv
<1> QED BY <1>8, <1>10

LEMMA OwnRowsPrune ==
  ASSUME TypeOK, CurType, NEW p \in Procs, SoloInv(p), RowsInv, OwnRowsInv(p), PruneEmbeddings(p)
  PROVE  RowsInv' /\ OwnRowsInv(p)'
<1> DEFINE n == job[p].n
<1>1. /\ pc[p] = "prune" /\ pc'[p] = "return" /\ facts' = facts /\ epoch' = epoch /\ job' = job
      /\ embedding' = {e \in embedding : \A d \in embedding : d.id = e.id => d.epoch <= e.epoch}
  BY DEF PruneEmbeddings, Goto, TypeOK
<1>2. Len(epoch) = n + 1 /\ n \in Nat
  BY <1>1 DEF OwnRowsInv, UnderEpoch, InHand, Applied, TypeOK, Jobs
<1>3. \A e \in embedding : e.epoch \in Nat /\ e.epoch <= n
  BY <1>2 DEF RowsInv, TypeOK, Rows
<1>4. \A S : "return" \notin S => Brought(p, S)' = job[p].batch
  BY <1>1 DEF Brought, SoloInv, DoneInv, Applied
<1>5. \A S : "prune" \notin S => Brought(p, S) = job[p].batch
  BY <1>1 DEF Brought, SoloInv, DoneInv, Applied
<1>6. \A i \in IdsOf(job[p].batch) : \E e \in embedding : e.id = i /\ e.epoch = n
  BY <1>1, <1>5 DEF OwnRowsInv, UnderEpoch, Applied
<1>7. \A i \in IdsOf(job[p].batch) : \E e \in embedding' : e.id = i /\ e.epoch = n
  BY <1>1, <1>3, <1>6
<1>8. \A e \in embedding' : e.id \in IdsOf(job[p].batch) => e.epoch = n
  BY <1>1, <1>3, <1>6
<1>9. RowsInv'
  BY <1>1 DEF RowsInv
<1>10. OwnRowsInv(p)'
  <2>1. \A f \in facts' : f.epoch = n => f.id \in IdsOf(Brought(p, {})')
    BY <1>1, <1>4, <1>5 DEF OwnRowsInv, UnderEpoch, Applied
  <2>2. \A i \in IdsOf(Brought(p, {"edges", "fact"})') :
          \E e \in embedding' : e.id = i /\ e.epoch = n
    BY <1>4, <1>7
  <2> QED BY <1>1, <1>2, <1>8, <2>1, <2>2 DEF OwnRowsInv
<1> QED BY <1>9, <1>10

LEMMA OwnRowsStep ==
  ASSUME TypeOK, CurType, NEW p \in Procs, pc[p] \in Locked, Step(p), pc'[p] # "idle",
         SoloInv(p), RowsInv, OwnRowsInv(p)
  PROVE  RowsInv' /\ OwnRowsInv(p)'
<1>1. CASE RemoveStep(p)
  BY <1>1 DEF RemoveStep, RebuildIndexes, CommitRemoval, Goto, Locked
<1>2. CASE ReindexStep(p) \/ NextEpoch(p)
  BY <1>2, OwnRowsStart
<1>3. CASE OpenFile(p)
  <2>1. /\ pc[p] = "apply" /\ pc'[p] = "write" /\ embedding' = embedding /\ facts' = facts
        /\ epoch' = epoch
    BY <1>3 DEF OpenFile, Goto, TypeOK, index
  <2>2. job'[p].n = job[p].n /\ job'[p].batch = job[p].batch /\ job'[p].todo = job[p].todo
    BY <1>3 DEF OpenFile, TypeOK, Jobs
  <2> QED BY <2>1, <2>2, OwnRowsSame DEF Brought, UnderEpoch
<1>4. CASE WriteFile(p) \/ UpsertConcept(p) \/ ReplaceEdges(p) \/ ApplyDone(p)
  <2>1. /\ <<pc[p], pc'[p]>> \in {<<"write", "row">>, <<"row", "vector">>, <<"edges", "fact">>,
                                  <<"apply", "reconcile">>, <<"apply", "indexes">>,
                                  <<"apply", "prune">>}
        /\ embedding' = embedding /\ facts' = facts /\ epoch' = epoch /\ job' = job
    BY <1>4 DEF WriteFile, UpsertConcept, ReplaceEdges, ApplyDone, Goto, TypeOK, index
  <2> QED BY <2>1, OwnRowsSame DEF Brought, UnderEpoch, InHand
<1>5. CASE ReconcileFile(p) \/ ReconcileDone(p) \/ WriteIndexes(p) \/ AppendLog(p)
  <2>1. /\ pc[p] \in {"reconcile", "indexes", "log"}
        /\ pc'[p] \in {"reconcile", "indexes", "log", "commit"}
        /\ embedding' = embedding /\ facts' = facts /\ epoch' = epoch /\ job' = job
    BY <1>5 DEF ReconcileFile, ReconcileDone, WriteIndexes, AppendLog, Goto, TypeOK, index
  <2> QED BY <2>1, OwnRowsSame DEF Brought, UnderEpoch, Applied
<1>6. CASE Commit(p)
  <2>1. /\ pc[p] = "commit" /\ pc'[p] = "stamp" /\ embedding' = embedding /\ facts' = facts
        /\ epoch' = epoch
    BY <1>6 DEF Commit, Goto, TypeOK, index
  <2>2. job'[p].n = job[p].n /\ job'[p].batch = job[p].batch /\ job'[p].todo = job[p].todo
    BY <1>6 DEF Commit, TypeOK, Jobs
  <2> QED BY <2>1, <2>2, OwnRowsSame DEF Brought, UnderEpoch, Applied
<1>7. CASE SetEpochCommit(p)
  <2>1. /\ pc[p] = "stamp" /\ pc'[p] = "prune" /\ embedding' = embedding /\ facts' = facts
        /\ job' = job
    BY <1>7 DEF SetEpochCommit, Goto, TypeOK
  <2>2. Len(epoch') = Len(epoch)
    BY <1>7 DEF SetEpochCommit, TypeOK
  <2> QED BY <2>1, <2>2, OwnRowsSame DEF Brought, UnderEpoch, Applied
<1>8. CASE Return(p) \/ ReturnRefused(p)
  BY <1>8 DEF Return, ReturnRefused, Ended, TypeOK
<1> QED BY <1>1, <1>2, <1>3, <1>4, <1>5, <1>6, <1>7, <1>8, OwnRowsVector, OwnRowsFact,
        OwnRowsPrune DEF Step, ApplyStep, FinishStep

-----------------------------------------------------------------------------
(* The commit of an epoch.                                                 *)

\* Commits are only added, and the facts of epoch n keep their ids and bodies.
LEMMA HoldsKept ==
  ASSUME TypeOK, TypeOK', NEW k, NEW n, Holds(k, n),
         Len(git) <= Len(git'), \A j \in 1 .. Len(git) : git'[j] = git[j],
         \A g \in facts' : g.epoch = n =>
           \E f \in facts : g.id = f.id /\ g.body = f.body /\ g.epoch = f.epoch,
         \A f \in facts : f.epoch = n =>
           \E g \in facts' : g.id = f.id /\ g.body = f.body /\ g.epoch = f.epoch
  PROVE  Holds(k, n)'
<1>0. git \in Seq(Trees) /\ git' \in Seq(Trees)
  BY DEF TypeOK, Trees
<1>1. k \in DOMAIN git' /\ git'[k] = git[k]
  <2>1. DOMAIN git = 1 .. Len(git) /\ DOMAIN git' = 1 .. Len(git')
    BY <1>0
  <2>2. Len(git) \in Nat /\ Len(git') \in Nat
    BY <1>0
  <2> QED BY <2>1, <2>2 DEF Holds
<1>2. ASSUME NEW g \in facts', g.epoch = n
      PROVE  \E h \in facts' : h.id = g.id /\ h.epoch = n /\ git'[k].tree[g.id] = h.body
  <2>1. PICK f \in facts : g.id = f.id /\ g.epoch = f.epoch
    BY <1>2
  <2>2. PICK e \in facts : e.id = f.id /\ e.epoch = n /\ git[k].tree[f.id] = e.body
    BY <1>2, <2>1 DEF Holds
  <2>3. PICK h \in facts' : h.id = e.id /\ h.body = e.body /\ h.epoch = e.epoch
    BY <2>2
  <2> QED BY <1>1, <2>1, <2>2, <2>3
<1> QED BY <1>1, <1>2 DEF Holds

\* Commits and facts as they were, and no row of epoch stamped.
LEMMA StampedSame ==
  ASSUME TypeOK, TypeOK', StampedInv, facts' = facts, epoch' = epoch,
         Len(git) <= Len(git'), \A j \in 1 .. Len(git) : git'[j] = git[j]
  PROVE  StampedInv'
<1>1. ASSUME NEW n \in 0 .. Len(epoch) - 1, epoch[n + 1] # 0 PROVE Holds(epoch[n + 1], n)'
  <2>1. Holds(epoch[n + 1], n)
    BY <1>1 DEF StampedInv
  <2> DEFINE k == epoch[n + 1]
  <2>2. k' = k
    OBVIOUS
  <2>3. \A x : Holds(x, n) => Holds(x, n)'
    BY HoldsKept
  <2> QED BY <2>1, <2>2, <2>3
<1> QED BY <1>1 DEF StampedInv

\* A step that leaves commits, log, epochs and facts alone.
LEMMA StampSame ==
  ASSUME TypeOK, TypeOK', NEW p \in Procs, StampedInv, StampInv(p),
         git' = git, epoch' = epoch, facts' = facts,
         pc[p] \in UnderEpoch \ {"prune", "return"}, job'[p].n = job[p].n,
         pc'[p] \notin {"commit", "stamp"}
  PROVE  StampedInv' /\ StampInv(p)'
<1>1. StampedInv'
  <2>1. Len(git) \in Nat
    BY DEF TypeOK
  <2> QED BY <2>1, StampedSame
<1> QED BY <1>1 DEF StampInv

LEMMA StampStart ==
  ASSUME TypeOK, TypeOK', NEW p \in Procs, StampedInv, ReindexStep(p) \/ NextEpoch(p)
  PROVE  StampedInv' /\ StampInv(p)'
<1>0. Len(git) \in Nat
  BY DEF TypeOK
<1>1. CASE ReadBundle(p)
  <2>1. /\ facts' = facts /\ epoch' = epoch /\ git' = git /\ pc'[p] = "truncate"
    BY <1>1 DEF ReadBundle, Goto, TypeOK, disk, index
  <2> QED BY <1>0, <2>1, StampedSame DEF StampInv, UnderEpoch, InHand, Applied
<1>2. CASE Truncate(p)
  <2>1. epoch' = <<>> /\ pc'[p] = "allocate"
    BY <1>2 DEF Truncate, Goto, TypeOK
  <2>2. 0 .. Len(epoch') - 1 = {}
    BY <2>1
  <2> QED BY <2>1, <2>2 DEF StampedInv, StampInv, UnderEpoch, InHand, Applied
<1>3. CASE NextEpoch(p)
  <2>1. /\ pc'[p] = "apply" /\ facts' = facts /\ git' = git /\ epoch' = Append(epoch, 0)
        /\ job'[p].n = Len(epoch)
    BY <1>3 DEF NextEpoch, Goto, TypeOK, Jobs, disk
  <2>2. /\ Len(epoch) \in Nat /\ Len(epoch') = Len(epoch) + 1 /\ epoch'[Len(epoch) + 1] = 0
        /\ \A n \in 0 .. Len(epoch) - 1 : epoch'[n + 1] = epoch[n + 1]
    BY <2>1 DEF TypeOK
  <2>3. StampInv(p)'
    BY <2>1, <2>2 DEF StampInv
  <2>4. ASSUME NEW n \in 0 .. Len(epoch') - 1, epoch'[n + 1] # 0
        PROVE  Holds(epoch[n + 1], n)'
    <3>1. n \in 0 .. Len(epoch) - 1 /\ epoch'[n + 1] = epoch[n + 1]
      BY <2>2, <2>4
    <3>2. PICK k : k = epoch[n + 1]
      OBVIOUS
    <3>3. Holds(k, n)
      BY <2>4, <3>1, <3>2 DEF StampedInv
    <3>4. Holds(k, n)'
      BY <1>0, <2>1, <3>3, HoldsKept
    <3>5. k = epoch'[n + 1]
      BY <3>1, <3>2
    <3> QED BY <3>4, <3>5 DEF Holds
  <2>5. StampedInv'
    BY <2>4 DEF StampedInv
  <2> QED BY <2>3, <2>5
<1> QED BY <1>1, <1>2, <1>3 DEF ReindexStep

\* The facts of the epoch being written change, and it is not stamped yet.
LEMMA StampFact ==
  ASSUME TypeOK, TypeOK', CurType, NEW p \in Procs, StampedInv, StampInv(p), OwnRowsInv(p),
         RecordFact(p)
  PROVE  StampedInv' /\ StampInv(p)'
<1> DEFINE c == job[p].cur
           n == job[p].n
<1>0. Len(git) \in Nat
  BY DEF TypeOK
<1>1. /\ pc[p] = "fact" /\ pc'[p] = "apply" /\ git' = git /\ epoch' = epoch
      /\ facts' = Record(facts, c, n, job[p].at)
  BY DEF RecordFact, Goto, TypeOK, disk
<1>2. job'[p].n = n
  BY DEF RecordFact, TypeOK, Jobs
<1>3. epoch[n + 1] = 0 /\ n \in Nat
  BY <1>1 DEF StampInv, UnderEpoch, InHand, Applied, TypeOK, Jobs
<1>4. facts \in SUBSET FactRows /\ c \in Concepts /\ job[p].at \in Nat
  BY <1>1 DEF TypeOK, CurType, InHand, FactRows, Jobs
<1>5. ASSUME NEW m \in 0 .. Len(epoch') - 1, epoch'[m + 1] # 0
      PROVE  Holds(epoch[m + 1], m)'
  <2>1. m # n /\ m \in 0 .. Len(epoch) - 1 /\ epoch[m + 1] # 0
    BY <1>1, <1>3, <1>5
  <2>2. PICK k : k = epoch[m + 1]
    OBVIOUS
  <2>3. Holds(k, m)
    BY <2>1, <2>2 DEF StampedInv
  <2>4. /\ \A g \in facts' : g.epoch = m =>
             \E f \in facts : g.id = f.id /\ g.body = f.body /\ g.epoch = f.epoch
        /\ \A f \in facts : f.epoch = m =>
             \E g \in facts' : g.id = f.id /\ g.body = f.body /\ g.epoch = f.epoch
    BY <1>1, <1>3, <1>4, <2>1, RecordKeeps
  <2>5. Holds(k, m)'
    BY <1>0, <1>1, <2>3, <2>4, HoldsKept
  <2>6. k = epoch'[m + 1]
    BY <1>1, <2>2
  <2> QED BY <2>5, <2>6 DEF Holds
<1>6. StampedInv'
  BY <1>5 DEF StampedInv
<1>7. StampInv(p)'
  BY <1>1, <1>2, <1>3 DEF StampInv
<1> QED BY <1>6, <1>7

LEMMA StampLog ==
  ASSUME TypeOK, TypeOK', NEW p \in Procs, StampedInv, StampInv(p), AppendLog(p)
  PROVE  StampedInv' /\ StampInv(p)'
<1>1. /\ pc[p] = "log" /\ pc'[p] = "commit" /\ git' = git /\ epoch' = epoch /\ facts' = facts
      /\ job' = job /\ log' = Append(log, job[p].n)
  BY DEF AppendLog, Goto, TypeOK, index
<1>2. log' # <<>> /\ log'[Len(log')] = job[p].n
  BY <1>1 DEF TypeOK
<1>3. StampedInv'
  <2>1. Len(git) \in Nat
    BY DEF TypeOK
  <2> QED BY <1>1, <2>1, StampedSame
<1> QED BY <1>1, <1>2, <1>3 DEF StampInv, UnderEpoch, Applied

\* The commit is of files and log as they are, and applyAll has left a file for
\* every fact of the epoch.
LEMMA StampCommit ==
  ASSUME TypeOK, TypeOK', NEW p \in Procs, SoloInv(p), StampedInv, StampInv(p), OwnRowsInv(p),
         Commit(p)
  PROVE  StampedInv' /\ StampInv(p)'
<1> DEFINE n == job[p].n
           k == Len(git) + 1
           new == [tree |-> bundle, log |-> log]
<1>1. /\ pc[p] = "commit" /\ pc'[p] = "stamp" /\ git' = Append(git, new) /\ epoch' = epoch
      /\ facts' = facts
  BY DEF Commit, Goto, TypeOK, index
<1>2. job'[p].n = n /\ job'[p].sha = k
  BY DEF Commit, TypeOK, Jobs
<1>3. new.tree = bundle /\ new.log = log
  OBVIOUS
<1>4. /\ Len(git) \in Nat /\ Len(git') = k /\ git'[k] = new /\ k \in DOMAIN git'
      /\ \A j \in 1 .. Len(git) : git'[j] = git[j]
  <2>1. git \in Seq(Trees)
    BY DEF TypeOK, Trees
  <2> HIDE DEF new
  <2> QED BY <1>1, <2>1
<1> HIDE DEF new
<1>5. StampedInv'
  BY <1>1, <1>4, StampedSame
<1>6. git'[k].log # <<>> /\ git'[k].log[Len(git'[k].log)] = n
  BY <1>1, <1>3, <1>4 DEF StampInv
<1>7. ASSUME NEW f \in facts, f.epoch = n
      PROVE  \E g \in facts : g.id = f.id /\ g.epoch = n /\ bundle[f.id] = g.body
  <2>1. Brought(p, {}) = job[p].batch
    BY <1>1 DEF Brought, SoloInv, DoneInv, Applied
  <2>2. PICK d \in job[p].batch : d.id = f.id
    BY <1>1, <1>7, <2>1 DEF OwnRowsInv, UnderEpoch, Applied, IdsOf
  <2>3. PICK c \in job[p].batch : c.id = d.id /\ Stored(c.id, c.body, n, job[p].at)
    BY <1>1, <2>2 DEF SoloInv, DoneInv, Applied, InHand
  <2> DEFINE g == [id |-> c.id, body |-> c.body, epoch |-> n, from |-> job[p].at, to |-> Inf]
  <2>4. g.id = c.id /\ g.body = c.body /\ g.epoch = n
    OBVIOUS
  <2>5. g \in facts
    BY <2>3 DEF Stored, OpenFacts
  <2>6. bundle[c.id] = c.body
    BY <2>3 DEF Stored
  <2> HIDE DEF g
  <2> QED BY <2>2, <2>3, <2>4, <2>5, <2>6
<1>8. Holds(job[p].sha, job[p].n)'
  <2>1. PICK x, y : x = k /\ y = n
    OBVIOUS
  <2>2. Holds(x, y)'
    BY <1>1, <1>3, <1>4, <1>6, <1>7, <2>1 DEF Holds
  <2>3. x = job'[p].sha /\ y = job'[p].n
    BY <1>2, <2>1
  <2> QED BY <2>2, <2>3 DEF Holds
<1>9. epoch'[job'[p].n + 1] = 0
  BY <1>1, <1>2 DEF StampInv, UnderEpoch, Applied
<1>10. StampInv(p)'
  BY <1>1, <1>8, <1>9 DEF StampInv
<1> QED BY <1>5, <1>10

LEMMA StampStamp ==
  ASSUME TypeOK, TypeOK', NEW p \in Procs, StampedInv, StampInv(p), SetEpochCommit(p)
  PROVE  StampedInv' /\ StampInv(p)'
<1> DEFINE n == job[p].n
<1>0. Len(git) \in Nat
  BY DEF TypeOK
<1>1. /\ pc[p] = "stamp" /\ pc'[p] = "prune" /\ git' = git /\ facts' = facts
      /\ epoch' = [m \in DOMAIN epoch |-> IF m = n + 1 THEN job[p].sha ELSE epoch[m]]
  BY DEF SetEpochCommit, Goto, TypeOK, disk
<1>2. Len(epoch') = Len(epoch) /\ \A m \in 1 .. Len(epoch) :
        epoch'[m] = IF m = n + 1 THEN job[p].sha ELSE epoch[m]
  <2>1. epoch \in Seq(Nat) /\ epoch' \in Seq(Nat)
    BY DEF TypeOK
  <2> QED BY <1>1, <2>1
<1>3. ASSUME NEW m \in 0 .. Len(epoch') - 1, epoch'[m + 1] # 0
      PROVE  Holds(epoch[m + 1], m)'
  <2>0. m + 1 \in 1 .. Len(epoch) /\ m \in 0 .. Len(epoch) - 1 /\ m \in Nat /\ n \in Nat
    BY <1>2 DEF TypeOK, Jobs
  <2>1. PICK k : k = epoch'[m + 1]
    OBVIOUS
  <2>2. Holds(k, m)
    <3>1. CASE m = n
      BY <1>1, <1>2, <2>0, <2>1, <3>1 DEF StampInv
    <3>2. CASE m # n
      BY <1>2, <1>3, <2>0, <2>1, <3>2 DEF StampedInv
    <3> QED BY <3>1, <3>2
  <2>3. Holds(k, m)'
    BY <1>0, <1>1, <2>2, HoldsKept
  <2> QED BY <2>1, <2>3 DEF Holds
<1>4. StampedInv'
  BY <1>3 DEF StampedInv
<1>5. StampInv(p)'
  BY <1>1 DEF StampInv
<1> QED BY <1>4, <1>5

LEMMA StampStep ==
  ASSUME TypeOK, TypeOK', CurType, NEW p \in Procs, pc[p] \in Locked, Step(p), pc'[p] # "idle",
         SoloInv(p), OwnRowsInv(p), StampedInv, StampInv(p)
  PROVE  StampedInv' /\ StampInv(p)'
<1>1. CASE RemoveStep(p)
  BY <1>1 DEF RemoveStep, RebuildIndexes, CommitRemoval, Goto, Locked
<1>2. CASE ReindexStep(p) \/ NextEpoch(p)
  BY <1>2, StampStart
<1>3. CASE OpenFile(p)
  <2>1. /\ pc[p] = "apply" /\ pc'[p] = "write" /\ git' = git /\ facts' = facts
        /\ epoch' = epoch
    BY <1>3 DEF OpenFile, Goto, TypeOK, index
  <2>2. job'[p].n = job[p].n
    BY <1>3 DEF OpenFile, TypeOK, Jobs
  <2> QED BY <2>1, <2>2, StampSame DEF UnderEpoch
<1>4. CASE WriteFile(p) \/ UpsertConcept(p) \/ UpsertEmbedding(p) \/ ReplaceEdges(p)
  <2>1. /\ pc[p] \in {"write", "row", "vector", "edges"}
        /\ pc'[p] \in {"row", "vector", "edges", "fact"}
        /\ git' = git /\ facts' = facts /\ epoch' = epoch /\ job' = job
    BY <1>4 DEF WriteFile, UpsertConcept, UpsertEmbedding, ReplaceEdges, Goto, TypeOK, disk,
      index
  <2> QED BY <2>1, StampSame DEF UnderEpoch, InHand
<1>5. CASE ApplyDone(p) \/ ReconcileFile(p) \/ ReconcileDone(p) \/ WriteIndexes(p)
  <2>1. /\ pc[p] \in {"apply", "reconcile", "indexes"}
        /\ pc'[p] \in {"reconcile", "indexes", "log", "prune"}
        /\ git' = git /\ facts' = facts /\ epoch' = epoch /\ job' = job
    BY <1>5 DEF ApplyDone, ReconcileFile, ReconcileDone, WriteIndexes, Goto, TypeOK, disk, index
  <2> QED BY <2>1, StampSame DEF UnderEpoch, Applied
<1>6. CASE PruneEmbeddings(p)
  <2>1. /\ pc'[p] = "return" /\ git' = git /\ facts' = facts /\ epoch' = epoch
    BY <1>6 DEF PruneEmbeddings, Goto, TypeOK, disk
  <2>2. Len(git) \in Nat
    BY DEF TypeOK
  <2>3. StampedInv'
    BY <2>1, <2>2, StampedSame
  <2> QED BY <2>1, <2>3 DEF StampInv
<1>7. CASE Return(p) \/ ReturnRefused(p)
  BY <1>7 DEF Return, ReturnRefused, Ended, TypeOK
<1> QED BY <1>1, <1>2, <1>3, <1>4, <1>5, <1>6, <1>7, StampFact, StampLog, StampCommit,
        StampStamp DEF Step, ApplyStep, FinishStep

-----------------------------------------------------------------------------
(* The inductive invariant.                                                *)

\* The invariants of a call say nothing before its epoch is allocated.
LEMMA OwnIdle ==
  ASSUME NEW q \in Procs, pc'[q] \in {"idle", "waiting", "read", "allocate"}
  PROVE  NavInv(q)' /\ OwnRowsInv(q)' /\ StampInv(q)'
  BY DEF NavInv, OwnRowsInv, StampInv, UnderEpoch, InHand, Applied

LEMMA OneInvRests ==
  ASSUME OneInv, Rests
  PROVE  /\ RowsInv' /\ StampedInv'
         /\ \A q \in Procs : NavInv(q)' /\ OwnRowsInv(q)' /\ StampInv(q)'
<1>1. /\ bundle' = bundle /\ nav' = nav /\ log' = log /\ git' = git
      /\ embedding' = embedding /\ facts' = facts /\ epoch' = epoch
  BY DEF Rests, disk, index
<1>2. RowsInv' /\ StampedInv'
  BY <1>1 DEF OneInv, RowsInv, StampedInv, Holds
<1>3. ASSUME NEW q \in Procs, pc'[q] = pc[q], job'[q] = job[q]
      PROVE  NavInv(q)' /\ OwnRowsInv(q)' /\ StampInv(q)'
  <2>1. NavInv(q) /\ OwnRowsInv(q) /\ StampInv(q)
    BY DEF OneInv
  <2>2. NavInv(q)'
    BY <1>1, <1>3, <2>1 DEF NavInv, Rebuilds, Files
  <2>3. \A S : Brought(q, S)' = Brought(q, S)
    BY <1>3 DEF Brought
  <2>4. OwnRowsInv(q)'
    BY <1>1, <1>3, <2>1, <2>3 DEF OwnRowsInv
  <2>5. StampInv(q)'
    BY <1>1, <1>3, <2>1 DEF StampInv, Holds
  <2> QED BY <2>2, <2>4, <2>5
<1> QED BY <1>2, <1>3, OwnIdle DEF Rests

LEMMA OneInvWorks ==
  ASSUME OneInv, TypeOK', NEW p \in Procs, Works(p)
  PROVE  /\ RowsInv' /\ StampedInv'
         /\ \A q \in Procs : NavInv(q)' /\ OwnRowsInv(q)' /\ StampInv(q)'
<1>1. TypeOK /\ CurType /\ StepsOfOp /\ SoloInv(p)
  BY DEF OneInv, Progress, SoloProgress, Works
<1>2. RowsInv /\ StampedInv /\ NavInv(p) /\ OwnRowsInv(p) /\ StampInv(p)
  BY DEF OneInv
<1>3. NavInv(p)'
  BY <1>1, <1>2, NavStep DEF Works
<1>4. RowsInv' /\ OwnRowsInv(p)'
  BY <1>1, <1>2, OwnRowsStep DEF Works
<1>5. StampedInv' /\ StampInv(p)'
  BY <1>1, <1>2, StampStep DEF Works
<1> QED BY <1>3, <1>4, <1>5, OwnIdle DEF Works

LEMMA OneInvInit == Init => OneInv
<1> SUFFICES ASSUME Init PROVE OneInv
  OBVIOUS
<1>1. Progress
  BY ProgressInit
<1>2. Exclusive
  BY DEF Init, Exclusive, Busy, Locked, Unlocked
<1>3. Len(epoch) = 0 /\ embedding = {} /\ facts = {}
  BY DEF Init
<1>4. RowsInv /\ StampedInv
  <2>1. 0 .. Len(epoch) - 1 = {}
    BY <1>3
  <2> QED BY <1>3, <2>1 DEF RowsInv, StampedInv
<1>5. \A p \in Procs : NavInv(p) /\ OwnRowsInv(p) /\ StampInv(p)
  BY DEF Init, NavInv, OwnRowsInv, StampInv, UnderEpoch, InHand, Applied
<1> QED BY <1>1, <1>2, <1>4, <1>5 DEF OneInv

LEMMA OneInvNext == OneWriter /\ OneInv /\ [Next]_vars => OneInv'
<1> SUFFICES ASSUME OneWriter, OneInv, [Next]_vars PROVE OneInv'
  OBVIOUS
<1>1. TypeOK /\ CurType /\ StepsOfOp /\ Exclusive /\ Progress
  BY DEF OneInv, Progress
<1>2. Progress' /\ Exclusive'
  BY <1>1, ProgressNext, ExclusiveNext
<1>3. TypeOK'
  BY <1>2 DEF Progress
<1>4. CASE Rests
  BY <1>2, <1>4, OneInvRests DEF OneInv
<1>5. ASSUME NEW p \in Procs, Works(p) PROVE OneInv'
  BY <1>2, <1>3, <1>5, OneInvWorks DEF OneInv
<1> QED BY <1>1, <1>4, <1>5, OneNext

-----------------------------------------------------------------------------
(* The theorems.                                                           *)

LEMMA OneInvHolds ==
  ASSUME OneWriter
  PROVE  Spec => []OneInv
<1>1. OneInv /\ [Next]_vars => OneInv'
  BY OneInvNext
<1> QED BY OneInvInit, <1>1, PTL DEF Spec

\* Calls through one Runner exclude each other (r.mu in Runner.Run, UpsertBatch
\* and Reindex): who works on the stores works alone.
THEOREM OneRunnerExcludes ==
  ASSUME OneWriter
  PROVE  Spec => [](\A p, q \in Procs : Busy(p) /\ Busy(q) => p = q)
<1>1. OneInv => \A p, q \in Procs : Busy(p) /\ Busy(q) => p = q
  BY OneAtWork DEF OneInv
<1> QED BY <1>1, OneInvHolds, PTL

\* With one Runner a row of concept takes only the body its file holds at that
\* moment (applyConcept): the index never runs ahead of the bundle.
THEOREM RowsFollowFiles ==
  ASSUME OneWriter
  PROVE  Spec => RowFollowsFile
<1> DEFINE Follows == \A i \in Ids : concept'[i] \notin {concept[i], Absent} => bundle[i] = concept'[i]
<1>1. OneInv /\ [Next]_vars => Follows
  <2> SUFFICES ASSUME OneInv, [Next]_vars PROVE Follows
    OBVIOUS
  <2>0. TypeOK /\ CurType /\ StepsOfOp /\ Exclusive
    BY DEF OneInv, Progress
  <2>1. CASE concept' = concept
    BY <2>1
  <2>2. ASSUME NEW p \in Procs, Works(p), UpsertConcept(p) PROVE Follows
    <3>1. HandInv(p)
      BY <2>2 DEF OneInv, Progress, SoloProgress, SoloInv, Works
    <3>2. pc[p] = "row" /\ bundle[job[p].cur.id] = job[p].cur.body
      BY <2>2, <3>1 DEF UpsertConcept, Goto, HandInv, InHand
    <3>3. concept' = [concept EXCEPT ![job[p].cur.id] = job[p].cur.body]
      BY <2>2 DEF UpsertConcept
    <3> QED BY <2>0, <3>2, <3>3 DEF TypeOK
  <2>3. ASSUME NEW p \in Procs, Truncate(p) PROVE Follows
    BY <2>3 DEF Truncate
  <2>4. ASSUME NEW p \in Procs, Works(p), ~UpsertConcept(p), ~Truncate(p) PROVE concept' = concept
    BY <2>4 DEF Works, Step, RemoveStep, RebuildIndexes, CommitRemoval, ReindexStep, ReadBundle,
      NextEpoch, ApplyStep, OpenFile, WriteFile, UpsertEmbedding, ReplaceEdges, RecordFact,
      ApplyDone, FinishStep, ReconcileFile, ReconcileDone, WriteIndexes, AppendLog, Commit,
      SetEpochCommit, PruneEmbeddings, Return, ReturnRefused, index
  <2>5. CASE Rests
    BY <2>1, <2>5 DEF Rests, index
  <2> QED BY <2>0, <2>1, <2>2, <2>3, <2>4, <2>5, OneNext
<1>2. OneInv /\ [Next]_vars => [Follows]_vars
  BY <1>1
<1> QED BY <1>2, OneInvHolds, PTL DEF Spec, RowFollowsFile

\* With one Runner the index.md files a Run or UpsertBatch leaves list exactly the
\* concepts of the bundle (okf.WriteIndexes before the commit).
THEOREM NavigationFollows ==
  ASSUME OneWriter
  PROVE  Spec => []NavigationCurrent
<1>1. OneInv => NavigationCurrent
  BY DEF OneInv, NavInv, NavigationCurrent, Rebuilds
<1> QED BY <1>1, OneInvHolds, PTL

\* With one Runner the vector search finds after a call the one vector of each
\* concept just computed (PruneEmbeddings), whatever failed before.
THEOREM VectorsAreLatest ==
  ASSUME OneWriter
  PROVE  Spec => []LatestVector
<1>1. OneInv => LatestVector
  <2> SUFFICES ASSUME OneInv, NEW p \in Procs, pc[p] = "return", NEW i \in IdsOf(job[p].batch)
               PROVE  \E b \in Bodies : {e \in embedding : e.id = i}
                                          = {[id |-> i, epoch |-> job[p].n, of |-> b]}
    BY DEF LatestVector
  <2>1. SoloInv(p) /\ OwnRowsInv(p) /\ RowsInv /\ embedding \in SUBSET Rows
    BY DEF OneInv, Progress, SoloProgress, Exclusive, Busy, Locked, TypeOK
  <2>2. Brought(p, {"edges", "fact"}) = job[p].batch
    BY <2>1 DEF SoloInv, DoneInv, Applied, Brought
  <2>3. PICK e \in embedding : e.id = i /\ e.epoch = job[p].n
    BY <2>1, <2>2 DEF OwnRowsInv, UnderEpoch, Applied
  <2>4. \A d \in embedding : d.id = i => d = e
    BY <2>1, <2>3 DEF OwnRowsInv, RowsInv
  <2>5. e.of \in Bodies /\ e = [id |-> i, epoch |-> job[p].n, of |-> e.of]
    BY <2>1, <2>3 DEF Rows
  <2> QED BY <2>3, <2>4, <2>5
<1> QED BY <1>1, OneInvHolds, PTL

\* With one Runner the commit an epoch row names ends its log with the epoch and
\* holds the epoch's facts as files (Commit before SetEpochCommit).
THEOREM CommitsHoldEpochs ==
  ASSUME OneWriter
  PROVE  Spec => []CommitHoldsEpoch
<1>1. OneInv => CommitHoldsEpoch
  <2> SUFFICES ASSUME OneInv, NEW f \in facts, f.epoch < Len(epoch), epoch[f.epoch + 1] # 0
               PROVE  LET commit == git[epoch[f.epoch + 1]] IN
                      /\ commit.log # <<>> /\ commit.log[Len(commit.log)] = f.epoch
                      /\ \E g \in facts : /\ g.id = f.id /\ g.epoch = f.epoch
                                          /\ commit.tree[f.id] = g.body
    BY DEF CommitHoldsEpoch
  <2>1. f.epoch \in 0 .. Len(epoch) - 1
    BY DEF OneInv, Progress, TypeOK
  <2>2. Holds(epoch[f.epoch + 1], f.epoch)
    BY <2>1 DEF OneInv, StampedInv
  <2> QED BY <2>2 DEF Holds
<1> QED BY <1>1, OneInvHolds, PTL

\* The answer of AsOf is a function of id, body and epoch of the rows it may see.
LEMMA AsOfSame ==
  ASSUME NEW F, NEW G, NEW n,
         \A g \in G : g.epoch <= n =>
           \E f \in F : g.id = f.id /\ g.body = f.body /\ g.epoch = f.epoch,
         \A f \in F : f.epoch <= n =>
           \E g \in G : g.id = f.id /\ g.body = f.body /\ g.epoch = f.epoch
  PROVE  AsOfBodies(G, n) = AsOfBodies(F, n)
<1>1. ASSUME NEW g \in AsOfEpoch(G, n)
      PROVE  \E f \in AsOfEpoch(F, n) : f.id = g.id /\ f.body = g.body
  BY <1>1 DEF AsOfEpoch
<1>2. ASSUME NEW f \in AsOfEpoch(F, n)
      PROVE  \E g \in AsOfEpoch(G, n) : g.id = f.id /\ g.body = f.body
  BY <1>2 DEF AsOfEpoch
<1> QED BY <1>1, <1>2 DEF AsOfBodies

\* With one Runner the answer AsOf gives for an epoch does not change once that
\* epoch is written, until Reindex drops the history (RecordFact, AsOfEpoch).
THEOREM HistoryIsStable ==
  ASSUME OneWriter
  PROVE  Spec => AsOfStable
<1> DEFINE Stable ==
      \A n \in 0 .. Len(epoch) - 1 :
        epoch' # <<>> /\ ~(\E p \in Procs : pc[p] \in Locked /\ job[p].n = n)
        => AsOfBodies(facts', n) = AsOfBodies(facts, n)
<1>1. OneInv /\ [Next]_vars => Stable
  <2> SUFFICES ASSUME OneInv, [Next]_vars, NEW n \in 0 .. Len(epoch) - 1, epoch' # <<>>,
                      ~(\E p \in Procs : pc[p] \in Locked /\ job[p].n = n)
               PROVE  AsOfBodies(facts', n) = AsOfBodies(facts, n)
    OBVIOUS
  <2>0. TypeOK /\ CurType /\ StepsOfOp /\ Exclusive
    BY DEF OneInv, Progress
  <2>1. CASE facts' = facts
    BY <2>1
  <2>2. ASSUME NEW p \in Procs, RecordFact(p) PROVE AsOfBodies(facts', n) = AsOfBodies(facts, n)
    <3>1. pc[p] = "fact" /\ facts' = Record(facts, job[p].cur, job[p].n, job[p].at)
      BY <2>2 DEF RecordFact, Goto
    <3>2. /\ facts \in SUBSET FactRows /\ job[p].cur \in Concepts
          /\ job[p].n \in Nat /\ job[p].at \in Nat
      BY <2>0, <3>1 DEF TypeOK, CurType, InHand, FactRows, Jobs
    <3>3. Len(epoch) = job[p].n + 1
      BY <3>1 DEF OneInv, OwnRowsInv, UnderEpoch, InHand
    <3>4. job[p].n # n
      BY <3>1 DEF Locked
    <3>5. ~(job[p].n <= n)
      BY <3>2, <3>3, <3>4
    <3> QED BY <3>1, <3>2, <3>5, RecordKeeps, AsOfSame
  <2>3. ASSUME NEW p \in Procs, Truncate(p) PROVE FALSE
    BY <2>3 DEF Truncate
  <2>4. ASSUME NEW p \in Procs, Works(p), ~RecordFact(p), ~Truncate(p) PROVE facts' = facts
    BY <2>4 DEF Works, Step, RemoveStep, RebuildIndexes, CommitRemoval, ReindexStep, ReadBundle,
      NextEpoch, ApplyStep, OpenFile, WriteFile, UpsertConcept, UpsertEmbedding, ReplaceEdges,
      ApplyDone, FinishStep, ReconcileFile, ReconcileDone, WriteIndexes, AppendLog, Commit,
      SetEpochCommit, PruneEmbeddings, Return, ReturnRefused, index
  <2>5. CASE Rests
    BY <2>1, <2>5 DEF Rests, index
  <2> QED BY <2>0, <2>1, <2>2, <2>3, <2>4, <2>5, OneNext
<1>2. OneInv /\ [Next]_vars => [Stable]_vars
  BY <1>1
<1> QED BY <1>2, OneInvHolds, PTL DEF Spec, AsOfStable
=============================================================================
