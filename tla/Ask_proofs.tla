----------------------------- MODULE Ask_proofs -----------------------------
(***************************************************************************)
(* Requests only read the stores, so what is proved of EpochRunner holds   *)
(* while questions are answered (AsksOnlyRead).  What the replies promise  *)
(* follows from three invariants.  RepliesInv: every cached answer is redacted*)
(* and cites its context, because only requests that keep the filter on put*)
(* answers into the cache, after Synthesize and RedactPII.  FreshInv: a key*)
(* with the latest epoch holds texts seen since.  QuietInv: what a request read*)
(* while nobody wrote is what it would read now.  Last, the cache they share*)
(* is an LRUCache (AsksUseTheCache), whose list and map agree.             *)
(***************************************************************************)
EXTENDS Ask, EpochRunner_proofs

allVars == <<vars, askVars, seen>>

\* Whatever callers ask, the stores only change as the write path changes them
\* (adapters.go:160: Ask reads tables and files, and writes its cache).
THEOREM AsksOnlyRead == AskSpec => Spec
<1>1. AskInit => Init
  BY DEF AskInit
<1>2. [AskNext]_allVars => [Next]_vars
  BY DEF AskNext, WriteStep, allVars
<1>3. QED
  BY <1>1, <1>2, PTL DEF AskSpec, Spec, allVars

LEMMA StoresTyped == AskSpec => []TypeOK
  BY AsksOnlyRead, TypeCorrect, PTL

\* An answer the cache may hold, and one a request may be given.
CitesWell(answer) ==
  ~answer.refused => answer.cites # {} /\ answer.cites \subseteq IdsOf(answer.from)

RepliesInv ==
  /\ AskTypeOK
  /\ \A k \in DOMAIN items : items[k].redacted /\ CitesWell(items[k])
  /\ RedactedUnlessAsked /\ CitesItsContext

LEMMA CiteValid ==
  ASSUME NEW g \in SUBSET Concepts, NEW cited,
         NEW refused \in BOOLEAN, NEW blank \in BOOLEAN
  PROVE  LET s == Synthesized(g, cited, refused, blank) IN
         /\ s.cites \in SUBSET Ids /\ s.refused \in BOOLEAN
         /\ ~s.refused => s.cites # {} /\ s.cites \subseteq IdsOf(g)
  BY DEF Synthesized, validCitations, IdsOf, Concepts

LEMMA NoAskTyped == NoAsk \in Asks
  BY AskAssumption DEF NoAsk, Asks, NoReply, Replies

LEMMA AskInitHolds ==
  ASSUME AskInit
  PROVE  RepliesInv
<1>1. /\ items = <<>> /\ apc = [a \in Askers |-> "idle"]
      /\ ask = [a \in Askers |-> NoAsk]
  BY DEF AskInit, Cache!Init
<1>2. DOMAIN items = {}
  BY <1>1
<1>3. AskTypeOK
  BY <1>1, <1>2, NoAskTyped DEF AskTypeOK
<1>4. QED
  BY <1>1, <1>2, <1>3 DEF RepliesInv, RedactedUnlessAsked, CitesItsContext

\* A step of one asker that leaves the cache alone and ends nowhere near a reply.
LEMMA AskerMoves ==
  ASSUME RepliesInv, NEW a \in Askers, items' = items,
         apc' \in [Askers -> {"idle", "retrieve", "chunks", "agent", "reply"}],
         ask' \in [Askers -> Asks],
         apc'[a] # "reply",
         \A b \in Askers \ {a} : apc'[b] = apc[b] /\ ask'[b] = ask[b]
  PROVE  RepliesInv'
<1>1. AskTypeOK'
  BY DEF RepliesInv, AskTypeOK
<1>2. \A k \in DOMAIN items' : items'[k].redacted /\ CitesWell(items'[k])
  BY DEF RepliesInv
<1>3. RedactedUnlessAsked' /\ CitesItsContext'
  BY DEF RepliesInv, RedactedUnlessAsked, CitesItsContext
<1>4. QED
  BY <1>1, <1>2, <1>3 DEF RepliesInv, CitesWell

\* What is in the cache after a Put was there before, or is the answer put.
LEMMA PutKeeps ==
  ASSUME NEW k, NEW answer, Cache!Put(k, answer)
  PROVE  /\ DOMAIN items' \subseteq DOMAIN items \cup {k}
         /\ \A j \in DOMAIN items' : IF j = k THEN items'[j] = answer
                                     ELSE j \in DOMAIN items /\ items'[j] = items[j]
  BY DEF Cache!Put, Cache!Update, Cache!Insert, Cache!Evict, Cache!Kept

LEMMA KeyTyped ==
  ASSUME AskTypeOK, NEW a \in Askers
  PROVE  Key(a) \in CacheKeys
<1>1. ask[a].req \in AllRequests /\ ask[a].epoch \in Int
  BY AskAssumption DEF AskTypeOK, Asks
<1>2. ask[a].req.q \in Questions /\ ask[a].req.nopii \in BOOLEAN
  BY <1>1 DEF AllRequests
<1>3. QED
  BY <1>1, <1>2 DEF Key, cacheKeyFor, CacheKeys

LEMMA RequestHolds ==
  ASSUME TypeOK, RepliesInv, NEW a \in Askers, Request(a)
  PROVE  RepliesInv'
<1>1. RequestEpoch \in Int
  BY AskAssumption DEF RequestEpoch, LatestEpoch, TypeOK
<1>2. Writing \in BOOLEAN
  BY DEF Writing
<1>3. PICK r \in Requests :
        ask' = [ask EXCEPT ![a].req = r, ![a].epoch = RequestEpoch, ![a].quiet = ~Writing]
  BY DEF Request
<1>4. ask' \in [Askers -> Asks]
  <2>1. ask \in [Askers -> Asks]
    BY DEF RepliesInv, AskTypeOK
  <2>2. [ask[a] EXCEPT !.req = r, !.epoch = RequestEpoch, !.quiet = ~Writing] \in Asks
    BY <1>1, <1>2, <2>1 DEF Asks
  <2>3. ask' = [ask EXCEPT ![a] = [ask[a] EXCEPT !.req = r, !.epoch = RequestEpoch,
                                                 !.quiet = ~Writing]]
    BY <1>3, <2>1
  <2>4. QED
    BY <2>1, <2>2, <2>3
<1>5. /\ items' = items /\ apc'[a] # "reply"
      /\ apc' \in [Askers -> {"idle", "retrieve", "chunks", "agent", "reply"}]
      /\ \A b \in Askers \ {a} : apc'[b] = apc[b] /\ ask'[b] = ask[b]
  BY <1>3 DEF RepliesInv, AskTypeOK, Request, AskGoto
<1>6. QED
  BY <1>4, <1>5, AskerMoves

LEMMA RetrieveHolds ==
  ASSUME RepliesInv, NEW a \in Askers, Retrieve(a)
  PROVE  RepliesInv'
<1>1. ask' \in [Askers -> Asks]
  BY DEF Retrieve, RepliesInv, AskTypeOK, Asks
<1>2. /\ items' = items /\ apc'[a] # "reply"
      /\ apc' \in [Askers -> {"idle", "retrieve", "chunks", "agent", "reply"}]
      /\ \A b \in Askers \ {a} : apc'[b] = apc[b] /\ ask'[b] = ask[b]
  BY DEF RepliesInv, AskTypeOK, Retrieve, AskGoto
<1>3. QED
  BY <1>1, <1>2, AskerMoves

LEMMA ReadChunkHolds ==
  ASSUME RepliesInv, NEW a \in Askers, ReadChunk(a)
  PROVE  RepliesInv'
<1>1. PICK i \in ask[a].ids :
        ask' = [ask EXCEPT ![a].ids = @ \ {i},
                           ![a].ground = @ \cup {c \in Files(bundle) : c.id = i}]
  BY DEF ReadChunk
<1>2. {c \in Files(bundle) : c.id = i} \subseteq Concepts
  BY DEF Files
<1>3. ask' \in [Askers -> Asks]
  BY <1>1, <1>2, ZenonT(30) DEF RepliesInv, AskTypeOK, Asks
<1>4. /\ items' = items /\ apc' = apc /\ apc'[a] # "reply"
      /\ apc' \in [Askers -> {"idle", "retrieve", "chunks", "agent", "reply"}]
      /\ \A b \in Askers \ {a} : apc'[b] = apc[b] /\ ask'[b] = ask[b]
  BY <1>1 DEF RepliesInv, AskTypeOK, ReadChunk
<1>5. QED
  BY <1>3, <1>4, AskerMoves

LEMMA MissHolds ==
  ASSUME RepliesInv, NEW a \in Askers, Miss(a)
  PROVE  RepliesInv'
<1>1. /\ items' = items /\ ask' = ask /\ apc'[a] # "reply"
      /\ apc' \in [Askers -> {"idle", "retrieve", "chunks", "agent", "reply"}]
      /\ \A b \in Askers \ {a} : apc'[b] = apc[b] /\ ask'[b] = ask[b]
  BY DEF RepliesInv, AskTypeOK, Miss, AskGoto
<1>2. ask' \in [Askers -> Asks]
  BY <1>1 DEF RepliesInv, AskTypeOK
<1>3. QED
  BY <1>1, <1>2, AskerMoves

LEMMA ReplyHolds ==
  ASSUME RepliesInv, NEW a \in Askers, Reply(a)
  PROVE  RepliesInv'
<1>1. ask' \in [Askers -> Asks]
  BY NoAskTyped DEF Reply, RepliesInv, AskTypeOK
<1>2. /\ items' = items /\ apc'[a] # "reply"
      /\ apc' \in [Askers -> {"idle", "retrieve", "chunks", "agent", "reply"}]
      /\ \A b \in Askers \ {a} : apc'[b] = apc[b] /\ ask'[b] = ask[b]
  BY DEF RepliesInv, AskTypeOK, Reply
<1>3. QED
  BY <1>1, <1>2, AskerMoves

LEMMA HitHolds ==
  ASSUME RepliesInv, NEW a \in Askers, Hit(a)
  PROVE  RepliesInv'
<1> DEFINE answer == items[Key(a)]
<1>1. /\ Key(a) \in DOMAIN items /\ items' = items
      /\ apc' = [apc EXCEPT ![a] = "reply"]
      /\ ask' = [ask EXCEPT ![a].ans = answer, ![a].hit = TRUE]
  BY DEF Hit, AskGoto, Cache!Cached, Cache!Get
<1>2. answer \in Replies /\ answer.redacted /\ CitesWell(answer)
  BY <1>1 DEF RepliesInv, AskTypeOK
<1> HIDE DEF answer
<1>3. /\ apc'[a] = "reply"
      /\ apc' \in [Askers -> {"idle", "retrieve", "chunks", "agent", "reply"}]
      /\ \A b \in Askers \ {a} : apc'[b] = apc[b]
  BY <1>1 DEF RepliesInv, AskTypeOK
<1>4. /\ ask' \in [Askers -> Asks]
      /\ ask'[a].ans = answer /\ ask'[a].req = ask[a].req
      /\ \A b \in Askers \ {a} : ask'[b] = ask[b]
  BY <1>1, <1>2, ZenonT(30) DEF RepliesInv, AskTypeOK, Asks
<1>5. AskTypeOK'
  BY <1>1, <1>3, <1>4 DEF RepliesInv, AskTypeOK
<1>6. RedactedUnlessAsked'
  BY <1>2, <1>3, <1>4 DEF RepliesInv, RedactedUnlessAsked
<1>7. CitesItsContext'
  BY <1>2, <1>3, <1>4 DEF RepliesInv, CitesItsContext, CitesWell
<1>8. \A k \in DOMAIN items' : items'[k].redacted /\ CitesWell(items'[k])
  BY <1>1 DEF RepliesInv
<1>9. QED
  BY <1>5, <1>6, <1>7, <1>8 DEF RepliesInv, CitesWell

LEMMA RedactedRecord ==
  ASSUME NEW from, NEW cites, NEW refused, NEW redacted, NEW quiet
  PROVE  [[from |-> from, cites |-> cites, refused |-> refused, redacted |-> FALSE,
           quiet |-> quiet] EXCEPT !.redacted = redacted]
         = [from |-> from, cites |-> cites, refused |-> refused, redacted |-> redacted,
            quiet |-> quiet]
  OBVIOUS

\* What Synthesize and RedactPII make of any reply, and where it goes.
LEMMA SynthesizeAnswers ==
  ASSUME RepliesInv, NEW a \in Askers, Synthesize(a)
  PROVE  \E answer \in Replies :
           /\ CitesWell(answer) /\ (answer.redacted <=> ~ask[a].req.nopii)
           /\ IF UsesCache(ask[a].req) THEN Cache!Put(Key(a), answer) ELSE UNCHANGED <<ll, items>>
           /\ ask' = [ask EXCEPT ![a].ans = answer]
<1>1. ask[a] \in Asks
  BY DEF RepliesInv, AskTypeOK
<1>2. /\ ask[a].ground \in SUBSET Concepts /\ ask[a].quiet \in BOOLEAN
      /\ ask[a].req.nopii \in BOOLEAN
  BY <1>1, AskAssumption DEF Asks, AllRequests
<1>3. PICK cited \in SUBSET (Ids \cup {MadeUp}), refused \in BOOLEAN, blank \in BOOLEAN :
        LET s == Synthesized(ask[a].ground, cited, refused, blank) IN
        RedactThenPut(a, [from |-> ask[a].ground, cites |-> s.cites, refused |-> s.refused,
                          redacted |-> FALSE, quiet |-> ask[a].quiet])
  BY DEF Synthesize
<1> DEFINE s == Synthesized(ask[a].ground, cited, refused, blank)
           answer == [from |-> ask[a].ground, cites |-> s.cites, refused |-> s.refused,
                      redacted |-> ~ask[a].req.nopii, quiet |-> ask[a].quiet]
<1>4. /\ s.cites \in SUBSET Ids /\ s.refused \in BOOLEAN
      /\ ~s.refused => s.cites # {} /\ s.cites \subseteq IdsOf(ask[a].ground)
  BY <1>2, CiteValid
<1>5. answer \in Replies /\ CitesWell(answer) /\ (answer.redacted <=> ~ask[a].req.nopii)
  BY <1>2, <1>4 DEF Replies, CitesWell
<1>6. /\ IF UsesCache(ask[a].req) THEN Cache!Put(Key(a), answer) ELSE UNCHANGED <<ll, items>>
      /\ ask' = [ask EXCEPT ![a].ans = answer]
  <2> DEFINE raw == [from |-> ask[a].ground, cites |-> s.cites, refused |-> s.refused,
                     redacted |-> FALSE, quiet |-> ask[a].quiet]
  <2>1. RedactThenPut(a, raw)
    BY <1>3
  <2>2. [raw EXCEPT !.redacted = ~ask[a].req.nopii] = answer
    BY RedactedRecord
  <2> HIDE DEF raw, answer
  <2>3. QED
    BY <2>1, <2>2, Zenon DEF RedactThenPut
<1> HIDE DEF answer
<1> QED BY <1>5, <1>6, Zenon

\* Only a request that keeps the filter puts its answer into the cache.
LEMMA SynthesizeHolds ==
  ASSUME RepliesInv, NEW a \in Askers, Synthesize(a)
  PROVE  RepliesInv'
<1>1. PICK answer \in Replies :
        /\ CitesWell(answer) /\ (answer.redacted <=> ~ask[a].req.nopii)
        /\ IF UsesCache(ask[a].req) THEN Cache!Put(Key(a), answer) ELSE UNCHANGED <<ll, items>>
        /\ ask' = [ask EXCEPT ![a].ans = answer]
  BY SynthesizeAnswers
<1>2. /\ DOMAIN items' \subseteq CacheKeys
      /\ \A k \in DOMAIN items' : items'[k] \in Replies /\ items'[k].redacted /\ CitesWell(items'[k])
  <2>1. CASE UsesCache(ask[a].req)
    <3>1. answer.redacted
      BY <1>1, <2>1 DEF UsesCache
    <3>2. /\ DOMAIN items' \subseteq DOMAIN items \cup {Key(a)}
          /\ \A j \in DOMAIN items' : IF j = Key(a) THEN items'[j] = answer
                                      ELSE j \in DOMAIN items /\ items'[j] = items[j]
      BY <1>1, <2>1, PutKeeps
    <3>3. Key(a) \in CacheKeys
      BY KeyTyped DEF RepliesInv
    <3>4. QED
      BY <1>1, <3>1, <3>2, <3>3 DEF RepliesInv, AskTypeOK
  <2>2. CASE ~UsesCache(ask[a].req)
    BY <1>1, <2>2 DEF RepliesInv, AskTypeOK
  <2>3. QED
    BY <2>1, <2>2
<1>3. /\ apc'[a] = "reply"
      /\ apc' \in [Askers -> {"idle", "retrieve", "chunks", "agent", "reply"}]
      /\ \A b \in Askers \ {a} : apc'[b] = apc[b]
  BY DEF RepliesInv, AskTypeOK, Synthesize, AskGoto
<1>4. /\ ask' \in [Askers -> Asks]
      /\ ask'[a].ans = answer /\ ask'[a].req = ask[a].req
      /\ \A b \in Askers \ {a} : ask'[b] = ask[b]
  BY <1>1 DEF RepliesInv, AskTypeOK, Asks
<1>5. AskTypeOK'
  BY <1>2, <1>3, <1>4 DEF AskTypeOK
<1>6. RedactedUnlessAsked'
  BY <1>1, <1>3, <1>4 DEF RepliesInv, RedactedUnlessAsked
<1>7. CitesItsContext'
  BY <1>1, <1>3, <1>4 DEF RepliesInv, CitesItsContext, CitesWell
<1>8. QED
  BY <1>2, <1>5, <1>6, <1>7 DEF RepliesInv, CitesWell

LEMMA WriteStepHolds ==
  ASSUME RepliesInv, WriteStep
  PROVE  RepliesInv'
<1>1. /\ UNCHANGED <<ll, items, apc>>
      /\ ask' = [a \in Askers |-> IF Writing' /\ apc[a] \in {"retrieve", "chunks"}
                                    THEN [ask[a] EXCEPT !.quiet = FALSE] ELSE ask[a]]
  BY DEF WriteStep
<1>2. /\ ask' \in [Askers -> Asks]
      /\ \A a \in Askers : ask'[a].ans = ask[a].ans /\ ask'[a].req = ask[a].req
  <2>1. ask \in [Askers -> Asks]
    BY DEF RepliesInv, AskTypeOK
  <2>2. ASSUME NEW a \in Askers
        PROVE  /\ ask'[a] \in Asks
               /\ ask'[a].ans = ask[a].ans /\ ask'[a].req = ask[a].req
    <3>1. ask[a] \in Asks /\ (ask'[a] = ask[a] \/ ask'[a] = [ask[a] EXCEPT !.quiet = FALSE])
      BY <1>1, <2>1
    <3>2. QED
      BY <3>1 DEF Asks
  <2>3. QED
    BY <1>1, <2>2
<1>3. AskTypeOK'
  BY <1>1, <1>2 DEF RepliesInv, AskTypeOK
<1>4. RedactedUnlessAsked' /\ CitesItsContext'
  BY <1>1, <1>2 DEF RepliesInv, RedactedUnlessAsked, CitesItsContext
<1>5. QED
  BY <1>1, <1>3, <1>4 DEF RepliesInv, CitesWell

LEMMA RepliesInvHolds == AskSpec => []RepliesInv
<1>1. AskInit => RepliesInv
  BY AskInitHolds
<1>2. TypeOK /\ RepliesInv /\ [AskNext]_allVars => RepliesInv'
  <2> SUFFICES ASSUME TypeOK, RepliesInv, [AskNext]_allVars
               PROVE  RepliesInv'
    OBVIOUS
  <2>1. CASE WriteStep
    BY <2>1, WriteStepHolds
  <2>2. ASSUME NEW a \in Askers, AskStep(a)
        PROVE  RepliesInv'
    BY <2>2, RequestHolds, RetrieveHolds, ReadChunkHolds, HitHolds, MissHolds,
       SynthesizeHolds, ReplyHolds DEF AskStep
  <2>3. CASE UNCHANGED allVars
    BY <2>3 DEF allVars, askVars, RepliesInv, AskTypeOK, RedactedUnlessAsked,
       CitesItsContext, CitesWell
  <2>4. QED
    BY <2>1, <2>2, <2>3 DEF AskNext
<1>3. QED
  BY <1>1, <1>2, StoresTyped, PTL DEF AskSpec, allVars

\* Requests, replies and cache only hold what the code can put there.
THEOREM AsksTyped == AskSpec => []AskTypeOK
<1>1. RepliesInv => AskTypeOK
  BY DEF RepliesInv
<1>2. QED
  BY <1>1, RepliesInvHolds, PTL

\* Whatever other requests left in the cache, and for any cache size, only a request
\* that asked for the bypass gets a text that is not redacted (adapters.go:183).
THEOREM FilterHolds == AskSpec => []RedactedUnlessAsked
<1>1. RepliesInv => RedactedUnlessAsked
  BY DEF RepliesInv
<1>2. QED
  BY <1>1, RepliesInvHolds, PTL

\* An answer that is not a refusal cites something, and only concepts whose files
\* the agent was given, fresh or from the cache (answer.go:51).
THEOREM AnswersCite == AskSpec => []CitesItsContext
<1>1. RepliesInv => CitesItsContext
  BY DEF RepliesInv
<1>2. QED
  BY <1>1, RepliesInvHolds, PTL

-----------------------------------------------------------------------------
(* Freshness, where nobody reindexes: epoch numbers then only grow, so an   *)
(* entry under the latest of them can only come from a request that read    *)
(* the epoch table, and then the files, after that epoch was allocated.     *)

NoReindex == \A p \in Procs : OpsOf[p] \subseteq {"run", "upsert"}

\* No caller is on its way to empty the tables.
NoneEmpties ==
  \A p \in Procs : /\ pc[p] \notin {"read", "truncate", "rmIndexes", "rmCommit"}
                   /\ pc[p] = "waiting" => job[p].op \in {"run", "upsert"}

SeenAll(g) == \A c \in g : c.body \in seen[c.id]

FreshInv ==
  /\ NoneEmpties
  /\ seen \in [Ids -> SUBSET (Bodies \cup {Absent, Torn})]
  /\ \A i \in Ids : bundle[i] \in seen[i]
  /\ \A k \in DOMAIN items : /\ k.epoch <= LatestEpoch
                             /\ k.epoch = LatestEpoch => SeenAll(items[k].from)
  /\ \A a \in Askers : /\ apc[a] = "idle" => ask[a] = NoAsk
                       /\ ask[a].epoch <= LatestEpoch
                       /\ ask[a].epoch = LatestEpoch => SeenAll(ask[a].ground)

LEMMA NoneEmptiesNext ==
  ASSUME NoReindex, TypeOK, NoneEmpties, Next
  PROVE  NoneEmpties'
<1>1. pc \in [Procs -> PCs] /\ job \in [Procs -> Jobs]
  BY DEF TypeOK
<1>2. ASSUME NEW p \in Procs, CallRun(p) \/ CallUpsertBatch(p) \/ CallReindex(p)
      PROVE  NoneEmpties'
  BY <1>1, <1>2 DEF CallRun, CallUpsertBatch, CallReindex, Call, Goto, NoneEmpties, NoReindex,
     Jobs
<1>3. ASSUME NEW p \in Procs, RemoveFile(p)
      PROVE  NoneEmpties'
  BY <1>3 DEF RemoveFile, NoReindex
<1>4. ASSUME NEW p \in Procs, Lock(p)
      PROVE  NoneEmpties'
  <2>1. job[p].op \in {"run", "upsert"} /\ pc' = [pc EXCEPT ![p] = "allocate"]
    BY <1>4 DEF Lock, Goto, NoneEmpties
  <2>2. \A q \in Procs : job'[q].op = job[q].op
    BY <1>1, <1>4 DEF Lock, Entered, Jobs
  <2>3. QED
    BY <1>1, <2>1, <2>2 DEF NoneEmpties
<1>5. ASSUME NEW S \in SUBSET Procs, Ended(S)
      PROVE  NoneEmpties'
  BY <1>1, <1>5 DEF Ended, NoneEmpties
<1>6. ASSUME NEW p \in Procs, Step(p)
      PROVE  NoneEmpties'
  <2>1. ~RemoveStep(p) /\ ~ReindexStep(p)
    BY DEF NoneEmpties, RemoveStep, RebuildIndexes, CommitRemoval, ReindexStep, ReadBundle,
       Truncate, Goto
  <2>2. CASE NextEpoch(p)
    BY <1>1, <2>2 DEF NextEpoch, Goto, NoneEmpties, Jobs
  <2>3. CASE ApplyStep(p)
    BY <1>1, <2>3, SMTT(30) DEF ApplyStep, OpenFile, WriteFile, UpsertConcept, UpsertEmbedding,
       ReplaceEdges, RecordFact, ApplyDone, Goto, NoneEmpties, Jobs
  <2>4. CASE FinishStep(p)
    <3>1. CASE Return(p)
      BY <3>1, <1>5 DEF Return
    <3>2. CASE ~Return(p)
      BY <1>1, <2>4, <3>2, SMTT(30) DEF FinishStep, ReconcileFile, ReconcileDone, WriteIndexes,
         AppendLog, Commit, SetEpochCommit, PruneEmbeddings, Goto, NoneEmpties, Jobs
    <3>3. QED
      BY <3>1, <3>2
  <2>5. CASE ReturnRefused(p)
    BY <2>5, <1>5 DEF ReturnRefused
  <2>6. QED
    BY <1>6, <2>1, <2>2, <2>3, <2>4, <2>5 DEF Step
<1>7. ASSUME NEW p \in Procs, ReturnError(p)
      PROVE  NoneEmpties'
  BY <1>7, <1>5 DEF ReturnError
<1>8. ASSUME NEW r \in Runners, Kill(r)
      PROVE  NoneEmpties'
  BY <1>8, <1>5 DEF Kill
<1>9. CASE Finished
  BY <1>9 DEF Finished, vars, NoneEmpties
<1>10. QED
  BY <1>2, <1>3, <1>4, <1>6, <1>7, <1>8, <1>9 DEF Next

LEMMA EpochGrows ==
  ASSUME TypeOK, NoneEmpties, Next
  PROVE  Len(epoch') \in {Len(epoch), Len(epoch) + 1}
<1>1. epoch \in Seq(Nat) /\ job \in [Procs -> Jobs]
  BY DEF TypeOK
<1>2. ASSUME epoch' = epoch
      PROVE  Len(epoch') \in {Len(epoch), Len(epoch) + 1}
  BY <1>1, <1>2
<1>3. ASSUME NEW p \in Procs, NextEpoch(p)
      PROVE  Len(epoch') = Len(epoch) + 1
  BY <1>1, <1>3 DEF NextEpoch
<1>4. ASSUME NEW p \in Procs, SetEpochCommit(p)
      PROVE  Len(epoch') = Len(epoch)
  <2>1. epoch' = [m \in 1 .. Len(epoch) |-> IF m = job[p].n + 1 THEN job[p].sha ELSE epoch[m]]
    BY <1>1, <1>4 DEF SetEpochCommit
  <2>2. job[p].sha \in Nat
    BY <1>1 DEF Jobs
  <2>3. epoch' \in [1 .. Len(epoch) -> Nat]
    BY <1>1, <2>1, <2>2
  <2>4. QED
    BY <1>1, <2>3
<1>5. ASSUME NEW p \in Procs
      PROVE  ~RemoveStep(p) /\ ~ReindexStep(p)
  BY DEF NoneEmpties, RemoveStep, RebuildIndexes, CommitRemoval, ReindexStep, ReadBundle,
     Truncate, Goto
<1>6. ASSUME NEW p \in Procs, Step(p)
      PROVE  Len(epoch') \in {Len(epoch), Len(epoch) + 1}
  <2>1. CASE NextEpoch(p) \/ SetEpochCommit(p)
    BY <2>1, <1>1, <1>3, <1>4
  <2>2. CASE ~NextEpoch(p) /\ ~SetEpochCommit(p)
    <3>1. epoch' = epoch
      BY <1>5, <1>6, <2>2 DEF Step, ApplyStep, FinishStep, OpenFile, WriteFile, UpsertConcept,
         UpsertEmbedding, ReplaceEdges, RecordFact, ApplyDone, ReconcileFile, ReconcileDone,
         WriteIndexes, AppendLog, Commit, PruneEmbeddings, Return, ReturnRefused, index
    <3>2. QED
      BY <3>1, <1>2
  <2>3. QED
    BY <2>1, <2>2
<1>7. ASSUME NEW p \in Procs, CallRun(p) \/ CallUpsertBatch(p) \/ CallReindex(p)
                              \/ RemoveFile(p) \/ Lock(p) \/ ReturnError(p)
      PROVE  epoch' = epoch
  BY <1>7 DEF CallRun, CallUpsertBatch, CallReindex, Call, RemoveFile, Lock, ReturnError, index
<1>8. ASSUME NEW r \in Runners, Kill(r)
      PROVE  epoch' = epoch
  BY <1>8 DEF Kill, index
<1>9. CASE Finished
  BY <1>2, <1>9 DEF Finished, vars, index
<1>10. QED
  BY <1>2, <1>6, <1>7, <1>8, <1>9 DEF Next

LEMMA FreshInit ==
  ASSUME AskInit, TypeOK
  PROVE  FreshInv
<1>1. /\ items = <<>> /\ seen = [i \in Ids |-> {bundle[i]}]
      /\ apc = [a \in Askers |-> "idle"] /\ ask = [a \in Askers |-> NoAsk]
  BY DEF AskInit, Cache!Init
<1>2. bundle \in [Ids -> Bodies \cup {Absent, Torn}] /\ LatestEpoch = -1
  BY DEF TypeOK, AskInit, Init, LatestEpoch
<1>3. NoneEmpties
  BY DEF AskInit, Init, NoneEmpties
<1>4. NoAsk.epoch = -1 /\ NoAsk.ground = {}
  BY DEF NoAsk
<1>5. DOMAIN items = {}
  BY <1>1
<1>6. /\ seen \in [Ids -> SUBSET (Bodies \cup {Absent, Torn})]
      /\ \A i \in Ids : bundle[i] \in seen[i]
  BY <1>1, <1>2
<1>7. \A a \in Askers : /\ ask[a] = NoAsk /\ ask[a].epoch <= LatestEpoch
                        /\ SeenAll(ask[a].ground)
  BY <1>1, <1>2, <1>4 DEF SeenAll
<1>8. QED
  BY <1>3, <1>5, <1>6, <1>7 DEF FreshInv

LEMMA FreshWrite ==
  ASSUME NoReindex, TypeOK, TypeOK', AskTypeOK, FreshInv, WriteStep
  PROVE  FreshInv'
<1> DEFINE grown == Len(epoch') > Len(epoch)
<1>1. /\ Next /\ items' = items /\ apc' = apc
      /\ seen' = [i \in Ids |-> (IF grown THEN {} ELSE seen[i]) \cup {bundle'[i]}]
      /\ ask' = [a \in Askers |-> IF Writing' /\ apc[a] \in {"retrieve", "chunks"}
                                    THEN [ask[a] EXCEPT !.quiet = FALSE] ELSE ask[a]]
  BY DEF WriteStep
<1>2. Len(epoch') \in {Len(epoch), Len(epoch) + 1} /\ Len(epoch) \in Nat
  <2>1. NoneEmpties /\ epoch \in Seq(Nat)
    BY DEF FreshInv, TypeOK
  <2>2. QED
    BY <1>1, <2>1, EpochGrows
<1>3. NoneEmpties'
  BY <1>1, NoneEmptiesNext DEF FreshInv
<1>4. /\ seen' \in [Ids -> SUBSET (Bodies \cup {Absent, Torn})]
      /\ \A i \in Ids : bundle'[i] \in seen'[i]
      /\ ~grown => \A i \in Ids : seen[i] \subseteq seen'[i]
  BY <1>1 DEF FreshInv, TypeOK
<1>5. \A a \in Askers : ask'[a].epoch = ask[a].epoch /\ ask'[a].ground = ask[a].ground
  BY <1>1 DEF AskTypeOK, Asks
<1>6. \A a \in Askers : apc'[a] = "idle" => ask'[a] = NoAsk
  BY <1>1 DEF FreshInv
<1> HIDE DEF grown
<1>7. \A n \in Int : n <= LatestEpoch => n <= LatestEpoch' /\ (n = LatestEpoch' => ~grown /\ n = LatestEpoch)
  BY <1>2 DEF grown, LatestEpoch
<1>8. ASSUME ~grown, NEW g \in SUBSET Concepts, SeenAll(g)
      PROVE  \A c \in g : c.body \in seen'[c.id]
  BY <1>4, <1>8 DEF SeenAll, Concepts
<1>9. ASSUME NEW k \in DOMAIN items
      PROVE  /\ k.epoch <= LatestEpoch'
             /\ k.epoch = LatestEpoch' => \A c \in items[k].from : c.body \in seen'[c.id]
  <2>1. k.epoch \in Int /\ items[k].from \in SUBSET Concepts
    BY DEF AskTypeOK, CacheKeys, Replies
  <2>2. k.epoch <= LatestEpoch /\ (k.epoch = LatestEpoch => SeenAll(items[k].from))
    BY DEF FreshInv
  <2>3. QED
    BY <1>7, <1>8, <2>1, <2>2
<1>10. ASSUME NEW a \in Askers
       PROVE  /\ ask[a].epoch <= LatestEpoch'
              /\ ask[a].epoch = LatestEpoch' => \A c \in ask[a].ground : c.body \in seen'[c.id]
  <2>1. ask[a].epoch \in Int /\ ask[a].ground \in SUBSET Concepts
    BY DEF AskTypeOK, Asks
  <2>2. ask[a].epoch <= LatestEpoch /\ (ask[a].epoch = LatestEpoch => SeenAll(ask[a].ground))
    BY DEF FreshInv
  <2>3. QED
    BY <1>7, <1>8, <2>1, <2>2
<1>11. \A k \in DOMAIN items' : /\ k.epoch <= LatestEpoch'
                                /\ k.epoch = LatestEpoch' => SeenAll(items[k].from)'
  BY <1>1, <1>9 DEF SeenAll
<1>12. \A a \in Askers : /\ ask'[a].epoch <= LatestEpoch'
                         /\ ask'[a].epoch = LatestEpoch' => SeenAll(ask[a].ground)'
  BY <1>5, <1>10 DEF SeenAll
<1>13. QED
  BY <1>1, <1>3, <1>4, <1>6, <1>11, <1>12 DEF FreshInv

\* A step of one asker that leaves the cache alone.
LEMMA FreshAskerMoves ==
  ASSUME FreshInv, UNCHANGED <<vars, seen, items>>, NEW a \in Askers,
         \A b \in Askers \ {a} : apc'[b] = apc[b] /\ ask'[b] = ask[b],
         apc'[a] = "idle" => ask'[a] = NoAsk,
         ask'[a].epoch <= LatestEpoch,
         ask'[a].epoch = LatestEpoch => SeenAll(ask'[a].ground)
  PROVE  FreshInv'
<1>1. NoneEmpties' /\ LatestEpoch' = LatestEpoch
  BY DEF FreshInv, vars, index, NoneEmpties, LatestEpoch
<1>2. bundle' = bundle /\ seen' = seen /\ items' = items
  BY DEF vars, disk
<1>3. QED
  BY <1>1, <1>2 DEF FreshInv, SeenAll

LEMMA FreshRequest ==
  ASSUME TypeOK, AskTypeOK, FreshInv, UNCHANGED <<vars, seen>>, NEW a \in Askers, Request(a)
  PROVE  FreshInv'
<1>1. RequestEpoch \in Int /\ RequestEpoch <= LatestEpoch
  <2>1. Len(epoch) \in Nat
    BY DEF TypeOK
  <2>2. QED
    BY <2>1 DEF RequestEpoch, LatestEpoch
<1>2. PICK r \in Requests :
        ask' = [ask EXCEPT ![a].req = r, ![a].epoch = RequestEpoch, ![a].quiet = ~Writing]
  BY DEF Request
<1>3. ask[a].ground = {} /\ apc' = [apc EXCEPT ![a] = "retrieve"] /\ items' = items
  <2>1. apc[a] = "idle" /\ apc' = [apc EXCEPT ![a] = "retrieve"] /\ items' = items
    BY DEF Request, AskGoto
  <2>2. ask[a] = NoAsk
    BY <2>1 DEF FreshInv
  <2>3. NoAsk.ground = {}
    BY DEF NoAsk
  <2>4. QED
    BY <2>1, <2>2, <2>3
<1>4. /\ ask'[a].epoch = RequestEpoch /\ ask'[a].ground = {} /\ apc'[a] # "idle"
      /\ \A b \in Askers \ {a} : apc'[b] = apc[b] /\ ask'[b] = ask[b]
  BY <1>2, <1>3 DEF AskTypeOK, Asks
<1>5. SeenAll(ask'[a].ground)
  BY <1>4 DEF SeenAll
<1>6. QED
  BY <1>1, <1>3, <1>4, <1>5, FreshAskerMoves

\* Steps that change neither the epoch a request goes by nor its context.
LEMMA FreshQuiet ==
  ASSUME TypeOK, AskTypeOK, FreshInv, UNCHANGED <<vars, seen>>, NEW a \in Askers,
         Retrieve(a) \/ Hit(a) \/ Miss(a)
  PROVE  FreshInv'
<1>1. /\ items' = items /\ apc'[a] # "idle"
      /\ ask'[a].epoch = ask[a].epoch /\ ask'[a].ground = ask[a].ground
      /\ \A b \in Askers \ {a} : apc'[b] = apc[b] /\ ask'[b] = ask[b]
  BY DEF AskTypeOK, Asks, Retrieve, Hit, Miss, AskGoto, Cache!Get
<1>2. /\ ask'[a].epoch <= LatestEpoch
      /\ ask'[a].epoch = LatestEpoch => SeenAll(ask'[a].ground)
  BY <1>1 DEF FreshInv
<1>3. QED
  BY <1>1, <1>2, FreshAskerMoves

LEMMA FreshChunk ==
  ASSUME TypeOK, AskTypeOK, FreshInv, UNCHANGED <<vars, seen>>, NEW a \in Askers, ReadChunk(a)
  PROVE  FreshInv'
<1>1. PICK i \in ask[a].ids :
        ask' = [ask EXCEPT ![a].ids = @ \ {i},
                           ![a].ground = @ \cup {c \in Files(bundle) : c.id = i}]
  BY DEF ReadChunk
<1>2. /\ items' = items /\ apc' = apc /\ apc[a] # "idle"
      /\ ask'[a].epoch = ask[a].epoch
      /\ ask'[a].ground = ask[a].ground \cup {c \in Files(bundle) : c.id = i}
      /\ \A b \in Askers \ {a} : apc'[b] = apc[b] /\ ask'[b] = ask[b]
  BY <1>1 DEF AskTypeOK, Asks, ReadChunk
<1>3. \A c \in Files(bundle) : c.body \in seen[c.id]
  BY DEF FreshInv, Files, Concepts
<1>4. /\ ask'[a].epoch <= LatestEpoch
      /\ ask'[a].epoch = LatestEpoch => SeenAll(ask'[a].ground)
  BY <1>2, <1>3 DEF FreshInv, SeenAll
<1>5. QED
  BY <1>2, <1>4, FreshAskerMoves

LEMMA FreshSynthesize ==
  ASSUME TypeOK, AskTypeOK, FreshInv, UNCHANGED <<vars, seen>>, NEW a \in Askers, Synthesize(a)
  PROVE  FreshInv'
<1>1. PICK cited \in SUBSET (Ids \cup {MadeUp}), refused \in BOOLEAN, blank \in BOOLEAN :
        LET s == Synthesized(ask[a].ground, cited, refused, blank) IN
        RedactThenPut(a, [from |-> ask[a].ground, cites |-> s.cites, refused |-> s.refused,
                          redacted |-> FALSE, quiet |-> ask[a].quiet])
  BY DEF Synthesize
<1> DEFINE s == Synthesized(ask[a].ground, cited, refused, blank)
           answer == [from |-> ask[a].ground, cites |-> s.cites, refused |-> s.refused,
                      redacted |-> ~ask[a].req.nopii, quiet |-> ask[a].quiet]
<1>2. /\ IF UsesCache(ask[a].req) THEN Cache!Put(Key(a), answer) ELSE UNCHANGED <<ll, items>>
      /\ ask' = [ask EXCEPT ![a].ans = answer]
  <2> DEFINE raw == [from |-> ask[a].ground, cites |-> s.cites, refused |-> s.refused,
                     redacted |-> FALSE, quiet |-> ask[a].quiet]
  <2>1. RedactThenPut(a, raw)
    BY <1>1
  <2>2. [raw EXCEPT !.redacted = ~ask[a].req.nopii] = answer
    BY RedactedRecord
  <2> HIDE DEF raw, answer
  <2>3. QED
    BY <2>1, <2>2, Zenon DEF RedactThenPut
<1>3. answer.from = ask[a].ground /\ Key(a).epoch = ask[a].epoch
  BY DEF Key, cacheKeyFor
<1> HIDE DEF answer
<1>4. LatestEpoch' = LatestEpoch /\ seen' = seen
  BY DEF vars, index, LatestEpoch
<1>5. /\ ask[a].epoch <= LatestEpoch
      /\ ask[a].epoch = LatestEpoch => SeenAll(ask[a].ground)
  BY DEF FreshInv
<1>6. ASSUME NEW k \in DOMAIN items'
      PROVE  /\ k.epoch <= LatestEpoch
             /\ k.epoch = LatestEpoch => SeenAll(items'[k].from)
  <2>1. \/ k \in DOMAIN items /\ items'[k] = items[k]
        \/ k = Key(a) /\ items'[k] = answer
    <3>1. CASE UsesCache(ask[a].req)
      BY <1>2, <3>1, PutKeeps
    <3>2. CASE ~UsesCache(ask[a].req)
      BY <1>2, <3>2
    <3>3. QED
      BY <3>1, <3>2
  <2>2. QED
    BY <1>3, <1>5, <2>1 DEF FreshInv
<1>7. \A b \in Askers : /\ apc'[b] = "idle" => ask'[b] = NoAsk
                        /\ ask'[b].epoch = ask[b].epoch /\ ask'[b].ground = ask[b].ground
  BY <1>2 DEF AskTypeOK, Asks, FreshInv, Synthesize, AskGoto
<1>8. NoneEmpties' /\ bundle' = bundle
  BY DEF FreshInv, vars, disk, NoneEmpties
<1>9. QED
  BY <1>4, <1>6, <1>7, <1>8 DEF FreshInv, SeenAll

LEMMA FreshReply ==
  ASSUME TypeOK, AskTypeOK, FreshInv, UNCHANGED <<vars, seen>>, NEW a \in Askers, Reply(a)
  PROVE  FreshInv'
<1>1. NoAsk.epoch = -1 /\ NoAsk.ground = {} /\ -1 <= LatestEpoch
  BY DEF NoAsk, LatestEpoch, TypeOK
<1>2. /\ items' = items /\ ask'[a] = NoAsk
      /\ \A b \in Askers \ {a} : apc'[b] = apc[b] /\ ask'[b] = ask[b]
  BY DEF AskTypeOK, Reply
<1>3. SeenAll(ask'[a].ground)
  BY <1>1, <1>2 DEF SeenAll
<1>4. QED
  BY <1>1, <1>2, <1>3, FreshAskerMoves

LEMMA FreshHolds ==
  ASSUME NoReindex
  PROVE  AskSpec => []FreshInv
<1>1. AskInit /\ TypeOK => FreshInv
  BY FreshInit
<1>2. TypeOK /\ TypeOK' /\ AskTypeOK /\ FreshInv /\ [AskNext]_allVars => FreshInv'
  <2> SUFFICES ASSUME TypeOK, TypeOK', AskTypeOK, FreshInv, [AskNext]_allVars
               PROVE  FreshInv'
    OBVIOUS
  <2>1. CASE WriteStep
    BY <2>1, FreshWrite
  <2>2. ASSUME NEW a \in Askers, AskStep(a), UNCHANGED <<vars, seen>>
        PROVE  FreshInv'
    BY <2>2, FreshRequest, FreshQuiet, FreshChunk, FreshSynthesize, FreshReply DEF AskStep
  <2>3. CASE UNCHANGED allVars
    BY <2>3 DEF allVars, askVars, vars, disk, index, FreshInv, NoneEmpties, LatestEpoch, SeenAll
  <2>4. QED
    BY <2>1, <2>2, <2>3 DEF AskNext
<1>3. QED
  BY <1>1, <1>2, StoresTyped, AsksTyped, PTL DEF AskSpec, allVars

\* Where nobody reindexes, an answer cached under the latest epoch is made of texts
\* the bundle held since that epoch was allocated, however requests and calls
\* overlap, fail and are killed (cache.go:24, CacheKey).
THEOREM CacheIsFresh ==
  ASSUME NoReindex
  PROVE  AskSpec => []FreshSince
<1>1. FreshInv => FreshSince
  BY DEF FreshInv, FreshSince, SeenAll
<1>2. QED
  BY <1>1, FreshHolds, PTL

-----------------------------------------------------------------------------
(* A hit stands for the answer the agent would give now.  Where nobody      *)
(* reindexes, every request reads the epoch and all ask for one type, two   *)
(* contexts read under one epoch while nobody wrote are the same: a call    *)
(* allocates its epoch before it touches a file or a row.                   *)

OneType == \A r, s \in Requests : r.type = s.type

\* What a request reads when nobody writes.
Context(type) == {c \in Files(bundle) : Matches(c.id, type)}

\* Whoever is in a call has still to allocate its epoch.
Settled == \A p \in Procs : Busy(p) => pc[p] = "allocate"

\* How far the context of a quiet request is, and what a quiet answer stands for.
RequestInv(a) ==
  /\ ask[a].hit => apc[a] = "reply"
  /\ apc[a] = "retrieve" => ask[a].ground = {}
  /\ apc[a] \in {"retrieve", "chunks"} /\ ask[a].quiet => ~Writing /\ ask[a].epoch = LatestEpoch
  /\ apc[a] = "chunks" /\ ask[a].quiet =>
       /\ \A i \in ask[a].ids : Matches(i, ask[a].req.type)
       /\ ask[a].ground = {c \in Context(ask[a].req.type) : c.id \notin ask[a].ids}
  /\ apc[a] = "agent" /\ ask[a].quiet /\ ask[a].epoch = LatestEpoch =>
       Settled /\ ask[a].ground = Context(ask[a].req.type)
  /\ ask[a].hit /\ ask[a].quiet /\ ask[a].ans.quiet => ask[a].ans.from = ask[a].ground

QuietInv ==
  /\ \A a \in Askers : RequestInv(a)
  /\ \A k \in DOMAIN items : items[k].quiet /\ k.epoch = LatestEpoch =>
       Settled /\ \A r \in Requests : items[k].from = Context(r.type)

LEMMA QuietSettled == ASSUME ~Writing PROVE Settled
  BY DEF Writing, Settled

\* Until somebody allocates an epoch, nothing a request reads changes.
LEMMA SettledStep ==
  ASSUME TypeOK, NoneEmpties, NoReindex, Settled, Next
  PROVE  \/ \E p \in Procs : NextEpoch(p)
         \/ Settled' /\ UNCHANGED <<bundle, concept, epoch>>
<1>1. pc \in [Procs -> PCs] /\ job \in [Procs -> Jobs]
  BY DEF TypeOK
<1>3. ASSUME NEW p \in Procs, NEW to, ~(to \in Locked \cup Unlocked) \/ to = "allocate", pc' = [pc EXCEPT ![p] = to]
      PROVE  Settled'
  BY <1>1, <1>3 DEF Settled, Busy
<1>4. ASSUME NEW S, pc' = [q \in Procs |-> IF q \in S THEN "idle" ELSE pc[q]]
      PROVE  Settled'
  <2>1. "idle" \notin Locked \cup Unlocked
    BY DEF Locked, Unlocked
  <2>2. QED
    BY <1>1, <1>4, <2>1 DEF Settled, Busy
<1>5. ASSUME NEW p \in Procs, CallRun(p) \/ CallUpsertBatch(p) \/ CallReindex(p)
      PROVE  Settled' /\ UNCHANGED <<bundle, concept, epoch>>
  <2>1. pc' = [pc EXCEPT ![p] = "waiting"] /\ UNCHANGED <<bundle, concept, epoch>>
    BY <1>5 DEF CallRun, CallUpsertBatch, CallReindex, Call, Goto, disk, index
  <2>2. "waiting" \notin Locked \cup Unlocked
    BY DEF Locked, Unlocked
  <2>3. QED
    BY <1>3, <2>1, <2>2
<1>6. ASSUME NEW p \in Procs, RemoveFile(p)
      PROVE  FALSE
  BY <1>6 DEF RemoveFile, NoReindex
<1>7. ASSUME NEW p \in Procs, Lock(p)
      PROVE  Settled' /\ UNCHANGED <<bundle, concept, epoch>>
  <2>1. job[p].op \in {"run", "upsert"}
    BY <1>7 DEF Lock, Goto, NoneEmpties
  <2>2. pc' = [pc EXCEPT ![p] = "allocate"] /\ UNCHANGED <<bundle, concept, epoch>>
    BY <1>7, <2>1 DEF Lock, Goto, disk, index
  <2>3. QED
    BY <1>3, <2>2
<1>8. ASSUME NEW p \in Procs, Step(p), ~NextEpoch(p)
      PROVE  Settled' /\ UNCHANGED <<bundle, concept, epoch>>
  <2>1. pc[p] \in Locked \cup Unlocked => pc[p] = "allocate"
    BY DEF Settled, Busy
  <2>2. ~RemoveStep(p) /\ ~ReindexStep(p) /\ ~ApplyStep(p) /\ ~FinishStep(p)
    BY <2>1 DEF RemoveStep, RebuildIndexes, CommitRemoval, ReindexStep, ReadBundle, Truncate, ApplyStep, OpenFile,
       WriteFile, UpsertConcept, UpsertEmbedding, ReplaceEdges, RecordFact, ApplyDone, FinishStep, ReconcileFile,
       ReconcileDone, WriteIndexes, AppendLog, Commit, SetEpochCommit, PruneEmbeddings, Return, Goto, Locked, Unlocked
  <2>3. ReturnRefused(p)
    BY <1>8, <2>2 DEF Step
  <2>4. pc[p] \in {"read", "indexes", "rmIndexes", "vector", "fact"}
    BY <2>3 DEF ReturnRefused, Refused
  <2>5. QED
    BY <2>1, <2>4 DEF Locked, Unlocked
<1>9. ASSUME NEW p \in Procs, ReturnError(p)
      PROVE  Settled' /\ UNCHANGED <<bundle, concept, epoch>>
  BY <1>4, <1>9 DEF ReturnError, Ended, disk, index
<1>10. ASSUME NEW r \in Runners, Kill(r)
       PROVE  Settled' /\ UNCHANGED <<bundle, concept, epoch>>
  BY <1>4, <1>10 DEF Kill, Ended, disk, index
<1>11. ASSUME Finished
       PROVE  Settled' /\ UNCHANGED <<bundle, concept, epoch>>
  BY <1>11 DEF Finished, vars, disk, index, Settled, Busy
<1>12. QED
  BY <1>5, <1>6, <1>7, <1>8, <1>9, <1>10, <1>11 DEF Next

\* Whoever has allocated an epoch is in a call.
LEMMA AllocatorWrites ==
  ASSUME TypeOK, NEW p \in Procs, NextEpoch(p)
  PROVE  Writing /\ Writing' /\ Len(epoch') = Len(epoch) + 1
<1>1. pc[p] = "allocate" /\ pc' = [pc EXCEPT ![p] = "apply"] /\ epoch' = Append(epoch, 0)
  BY DEF NextEpoch, Goto
<1>2. pc'[p] = "apply" /\ epoch \in Seq(Nat)
  BY <1>1 DEF TypeOK
<1>3. Busy(p) /\ Busy(p)'
  BY <1>1, <1>2 DEF Busy, Locked
<1>4. QED
  BY <1>1, <1>2, <1>3 DEF Writing

LEMMA QuietInit ==
  ASSUME AskInit
  PROVE  QuietInv
<1>1. items = <<>> /\ apc = [a \in Askers |-> "idle"] /\ ask = [a \in Askers |-> NoAsk]
  BY DEF AskInit, Cache!Init
<1>2. DOMAIN items = {} /\ ~NoAsk.hit
  BY <1>1 DEF NoAsk
<1>3. QED
  BY <1>1, <1>2 DEF QuietInv, RequestInv

\* A step of the write path.
LEMMA QuietWrite ==
  ASSUME NoReindex, TypeOK, AskTypeOK, FreshInv, QuietInv, WriteStep
  PROVE  QuietInv'
<1>1. /\ Next /\ items' = items /\ apc' = apc
      /\ ask' = [a \in Askers |-> IF Writing' /\ apc[a] \in {"retrieve", "chunks"}
                                    THEN [ask[a] EXCEPT !.quiet = FALSE] ELSE ask[a]]
  BY DEF WriteStep
<1>2. NoneEmpties /\ Len(epoch) \in Nat
  BY DEF FreshInv, TypeOK
<1>3. \A a \in Askers : /\ ask'[a].req = ask[a].req /\ ask'[a].epoch = ask[a].epoch /\ ask'[a].ids = ask[a].ids
                        /\ ask'[a].ground = ask[a].ground /\ ask'[a].ans = ask[a].ans /\ ask'[a].hit = ask[a].hit
                        /\ ask'[a].quiet => ask[a].quiet
                        /\ ask'[a].quiet /\ apc[a] \in {"retrieve", "chunks"} => ~Writing'
  BY <1>1 DEF AskTypeOK, Asks
<1>4. Len(epoch') = Len(epoch) \/ Len(epoch') = Len(epoch) + 1
  BY <1>1, <1>2, EpochGrows
<1>5. ASSUME Settled, Len(epoch') = Len(epoch)
      PROVE  Settled' /\ LatestEpoch' = LatestEpoch /\ \A t : Context(t)' = Context(t) /\ \A i : Matches(i, t)' = Matches(i, t)
  <2>1. ~(\E p \in Procs : NextEpoch(p))
    BY <1>2, <1>5, AllocatorWrites
  <2>2. Settled' /\ UNCHANGED <<bundle, concept, epoch>>
    BY <1>1, <1>2, <1>5, <2>1, SettledStep
  <2>3. QED
    BY <2>2 DEF LatestEpoch, Context, Matches, Files
<1>6. ASSUME ~Writing, ~Writing'
      PROVE  Settled /\ Len(epoch') = Len(epoch)
  <2>1. Settled
    BY <1>6, QuietSettled
  <2>2. QED
    BY <1>1, <1>2, <1>6, <2>1, SettledStep, AllocatorWrites
<1>7. ASSUME NEW n \in Int, n <= LatestEpoch, n = LatestEpoch'
      PROVE  n = LatestEpoch /\ Len(epoch') = Len(epoch)
  BY <1>2, <1>4, <1>7 DEF LatestEpoch
<1>8. ASSUME NEW a \in Askers
      PROVE  RequestInv(a)'
  <2>1. RequestInv(a) /\ ask[a].epoch \in Int /\ ask[a].epoch <= LatestEpoch
    BY DEF QuietInv, FreshInv, AskTypeOK, Asks
  <2>2. PICK t : t = ask'[a].req.type
    OBVIOUS
  <2>3. t = ask[a].req.type
    BY <1>3, <2>2
  <2>4. ASSUME apc'[a] \in {"retrieve", "chunks"}, ask'[a].quiet
        PROVE  /\ ~Writing' /\ ask'[a].epoch = LatestEpoch'
               /\ Context(t)' = Context(t) /\ \A i : Matches(i, t)' = Matches(i, t)
    <3>1. ~Writing /\ ~Writing' /\ ask[a].epoch = LatestEpoch
      BY <1>1, <1>3, <2>1, <2>4 DEF RequestInv
    <3>2. QED
      BY <1>3, <1>5, <1>6, <3>1
  <2>5. ASSUME apc'[a] = "chunks", ask'[a].quiet
        PROVE  /\ \A i \in ask'[a].ids : Matches(i, t)'
               /\ ask'[a].ground = {c \in Context(t)' : c.id \notin ask'[a].ids}
    BY <1>1, <1>3, <2>1, <2>3, <2>4, <2>5 DEF RequestInv
  <2>6. ASSUME apc'[a] = "agent", ask'[a].quiet, ask'[a].epoch = LatestEpoch'
        PROVE  Settled' /\ ask'[a].ground = Context(t)'
    <3>1. ask[a].epoch = LatestEpoch /\ Len(epoch') = Len(epoch)
      BY <1>3, <1>7, <2>1, <2>6
    <3>2. Settled /\ ask[a].ground = Context(t)
      BY <1>1, <1>3, <2>1, <2>3, <2>6, <3>1 DEF RequestInv
    <3>3. QED
      BY <1>3, <1>5, <3>1, <3>2
  <2>7. /\ ask'[a].hit => apc'[a] = "reply"
        /\ apc'[a] = "retrieve" => ask'[a].ground = {}
        /\ ask'[a].hit /\ ask'[a].quiet /\ ask'[a].ans.quiet => ask'[a].ans.from = ask'[a].ground
    BY <1>1, <1>3, <2>1 DEF RequestInv
  <2>8. /\ (Context(ask[a].req.type))' = Context(t)'
        /\ \A i : (Matches(i, ask[a].req.type))' = Matches(i, t)'
    BY <2>2 DEF Context, Matches
  <2>9. QED
    BY <2>4, <2>5, <2>6, <2>7, <2>8 DEF RequestInv
<1>9. ASSUME NEW k \in DOMAIN items, items[k].quiet, k.epoch = LatestEpoch'
      PROVE  Settled' /\ \A r \in Requests : items[k].from = Context(r.type)'
  <2>1. k.epoch \in Int /\ k.epoch <= LatestEpoch
    BY DEF AskTypeOK, CacheKeys, FreshInv
  <2>2. k.epoch = LatestEpoch /\ Len(epoch') = Len(epoch)
    BY <1>7, <1>9, <2>1
  <2>3. Settled /\ \A r \in Requests : items[k].from = Context(r.type)
    BY <1>9, <2>2 DEF QuietInv
  <2>4. QED
    BY <1>5, <2>2, <2>3
<1>10. QED
  BY <1>1, <1>8, <1>9 DEF QuietInv

\* A step of one asker reads what the stores hold and changes none of it.
LEMMA ReadOnly ==
  ASSUME UNCHANGED <<vars, seen>>
  PROVE  /\ LatestEpoch' = LatestEpoch /\ (Settled' <=> Settled) /\ (Writing' <=> Writing)
         /\ \A t : Context(t)' = Context(t) /\ \A i : Matches(i, t)' = Matches(i, t)
<1>1. bundle' = bundle /\ concept' = concept /\ epoch' = epoch /\ pc' = pc
  BY DEF vars, disk, index
<1>2. QED
  BY <1>1 DEF LatestEpoch, Settled, Writing, Busy, Context, Matches, Files

LEMMA QuietOthers ==
  ASSUME QuietInv, UNCHANGED <<vars, seen>>, NEW b \in Askers,
         apc'[b] = apc[b], ask'[b] = ask[b]
  PROVE  RequestInv(b)'
<1>1. PICK u : u = ask'[b]
  OBVIOUS
<1>2. /\ (Context(ask[b].req.type))' = Context(u.req.type)
      /\ \A i : (Matches(i, ask[b].req.type))' = Matches(i, u.req.type)
  BY <1>1 DEF vars, disk, index, Context, Matches, Files
<1>3. RequestInv(b)
  BY DEF QuietInv
<1>4. QED
  BY <1>1, <1>2, <1>3, ReadOnly DEF RequestInv

LEMMA QuietAsker ==
  ASSUME QuietInv, UNCHANGED <<vars, seen>>, NEW a \in Askers, items' = items,
         \A b \in Askers \ {a} : apc'[b] = apc[b] /\ ask'[b] = ask[b],
         RequestInv(a)'
  PROVE  QuietInv'
<1>1. \A b \in Askers : RequestInv(b)'
  BY QuietOthers
<1>2. \A k \in DOMAIN items' : items'[k].quiet /\ k.epoch = LatestEpoch' =>
        Settled' /\ \A r \in Requests : items'[k].from = Context(r.type)'
  BY ReadOnly DEF QuietInv
<1>3. QED
  BY <1>1, <1>2 DEF QuietInv

\* The epoch a request goes by is the latest one while nobody writes.
LEMMA QuietRequest ==
  ASSUME EpochPerRequest, TypeOK, AskTypeOK, FreshInv, QuietInv, UNCHANGED <<vars, seen>>,
         NEW a \in Askers, Request(a)
  PROVE  QuietInv'
<1>1. PICK r \in Requests :
        ask' = [ask EXCEPT ![a].req = r, ![a].epoch = RequestEpoch, ![a].quiet = ~Writing]
  BY DEF Request
<1>2. ask[a] = NoAsk /\ NoAsk.ground = {} /\ ~NoAsk.hit
  BY DEF Request, AskGoto, FreshInv, NoAsk
<1>3. /\ ask'[a].ground = {} /\ ~ask'[a].hit /\ ask'[a].epoch = LatestEpoch /\ ask'[a].quiet = ~Writing
      /\ \A b \in Askers \ {a} : apc'[b] = apc[b] /\ ask'[b] = ask[b]
  BY <1>1, <1>2 DEF AskTypeOK, Asks, RequestEpoch, Request, AskGoto
<1>4. apc'[a] = "retrieve" /\ items' = items
  BY DEF Request, AskGoto, AskTypeOK
<1>5. RequestInv(a)'
  BY <1>3, <1>4, ReadOnly DEF RequestInv
<1>6. QED
  BY <1>3, <1>4, <1>5, QuietAsker

LEMMA QuietRetrieve ==
  ASSUME AskTypeOK, QuietInv, UNCHANGED <<vars, seen>>, NEW a \in Askers, Retrieve(a)
  PROVE  QuietInv'
<1>1. /\ apc[a] = "retrieve" /\ apc'[a] = "chunks" /\ items' = items
      /\ ask'[a].ids = {i \in Ids : Matches(i, ask[a].req.type)}
      /\ ask'[a].req = ask[a].req /\ ask'[a].epoch = ask[a].epoch /\ ask'[a].ground = ask[a].ground
      /\ ask'[a].quiet = ask[a].quiet /\ ask'[a].hit = ask[a].hit
      /\ \A b \in Askers \ {a} : apc'[b] = apc[b] /\ ask'[b] = ask[b]
  BY DEF AskTypeOK, Asks, Retrieve, AskGoto
<1>2. PICK t : t = ask'[a].req.type
  OBVIOUS
<1>3. /\ (Context(ask[a].req.type))' = Context(t)
      /\ \A i : (Matches(i, ask[a].req.type))' = Matches(i, t)
  BY <1>2 DEF vars, disk, index, Context, Matches, Files
<1>4. RequestInv(a)
  BY DEF QuietInv
<1>5. \A c \in Context(t) : c.id \in ask'[a].ids
  BY <1>1, <1>2 DEF Context, Files, Concepts
<1>6. RequestInv(a)'
  BY <1>1, <1>2, <1>3, <1>4, <1>5, ReadOnly DEF RequestInv
<1>7. QED
  BY <1>1, <1>6, QuietAsker

LEMMA QuietChunk ==
  ASSUME AskTypeOK, QuietInv, UNCHANGED <<vars, seen>>, NEW a \in Askers, ReadChunk(a)
  PROVE  QuietInv'
<1>1. PICK i \in ask[a].ids :
        ask' = [ask EXCEPT ![a].ids = @ \ {i},
                           ![a].ground = @ \cup {c \in Files(bundle) : c.id = i}]
  BY DEF ReadChunk
<1>2. /\ apc[a] = "chunks" /\ apc' = apc /\ items' = items
      /\ ask'[a].ids = ask[a].ids \ {i}
      /\ ask'[a].ground = ask[a].ground \cup {c \in Files(bundle) : c.id = i}
      /\ ask'[a].req = ask[a].req /\ ask'[a].epoch = ask[a].epoch
      /\ ask'[a].quiet = ask[a].quiet /\ ask'[a].hit = ask[a].hit
      /\ \A b \in Askers \ {a} : apc'[b] = apc[b] /\ ask'[b] = ask[b]
  BY <1>1 DEF AskTypeOK, Asks, ReadChunk
<1>3. PICK t : t = ask'[a].req.type
  OBVIOUS
<1>4. /\ (Context(ask[a].req.type))' = Context(t)
      /\ \A j : (Matches(j, ask[a].req.type))' = Matches(j, t)
  BY <1>3 DEF vars, disk, index, Context, Matches, Files
<1>5. RequestInv(a)
  BY DEF QuietInv
<1>6. ASSUME ask'[a].quiet
      PROVE  ask'[a].ground = {c \in Context(t) : c.id \notin ask'[a].ids}
  <2>1. /\ \A j \in ask[a].ids : Matches(j, t)
        /\ ask[a].ground = {c \in Context(t) : c.id \notin ask[a].ids}
    BY <1>2, <1>3, <1>5, <1>6 DEF RequestInv
  <2>2. {c \in Files(bundle) : c.id = i} = {c \in Context(t) : c.id = i}
    BY <2>1 DEF Context
  <2>3. QED
    BY <1>2, <2>1, <2>2
<1>7. RequestInv(a)'
  BY <1>2, <1>3, <1>4, <1>5, <1>6, ReadOnly DEF RequestInv
<1>8. QED
  BY <1>2, <1>7, QuietAsker

LEMMA QuietMiss ==
  ASSUME AskTypeOK, QuietInv, UNCHANGED <<vars, seen>>, NEW a \in Askers, Miss(a)
  PROVE  QuietInv'
<1>1. /\ apc[a] = "chunks" /\ apc'[a] = "agent" /\ items' = items /\ ask' = ask
      /\ ask[a].ids = {} /\ \A b \in Askers \ {a} : apc'[b] = apc[b]
  BY DEF AskTypeOK, Miss, AskGoto
<1>2. PICK t : t = ask'[a].req.type
  OBVIOUS
<1>3. (Context(ask[a].req.type))' = Context(t)
  BY <1>2 DEF vars, disk, index, Context, Matches, Files
<1>4. RequestInv(a)
  BY DEF QuietInv
<1>5. ask[a].quiet => Settled /\ ask[a].ground = Context(t)
  BY <1>1, <1>2, <1>4, QuietSettled DEF RequestInv
<1>6. ~ask[a].hit
  BY <1>1, <1>4 DEF RequestInv
<1>7. RequestInv(a)'
  BY <1>1, <1>3, <1>5, <1>6, ReadOnly DEF RequestInv
<1>8. QED
  BY <1>1, <1>7, QuietAsker

\* Both contexts were read under the latest epoch, so both are what the stores hold.
LEMMA QuietHit ==
  ASSUME AskTypeOK, QuietInv, UNCHANGED <<vars, seen>>, NEW a \in Askers, Hit(a)
  PROVE  QuietInv'
<1> DEFINE answer == items[Key(a)]
<1>1. /\ Key(a) \in DOMAIN items /\ items' = items /\ ask[a].ids = {}
      /\ apc[a] = "chunks" /\ apc' = [apc EXCEPT ![a] = "reply"]
      /\ ask' = [ask EXCEPT ![a].ans = answer, ![a].hit = TRUE]
  BY DEF Hit, AskGoto, Cache!Cached, Cache!Get
<1>2. Key(a).epoch = ask[a].epoch
  BY DEF Key, cacheKeyFor
<1>3. RequestInv(a) /\ ask[a].req \in Requests
  BY DEF QuietInv, AskTypeOK, Asks
<1>4. ASSUME ask[a].quiet, answer.quiet
      PROVE  answer.from = ask[a].ground
  <2>1. ask[a].epoch = LatestEpoch /\ ask[a].ground = Context(ask[a].req.type)
    BY <1>1, <1>3, <1>4 DEF RequestInv
  <2>2. answer.from = Context(ask[a].req.type)
    BY <1>1, <1>2, <1>3, <1>4, <2>1 DEF QuietInv
  <2>3. QED
    BY <2>1, <2>2
<1> HIDE DEF answer
<1>5. /\ apc'[a] = "reply" /\ ask'[a].quiet = ask[a].quiet
      /\ ask'[a].ground = ask[a].ground /\ ask'[a].ans = answer
      /\ \A b \in Askers \ {a} : apc'[b] = apc[b] /\ ask'[b] = ask[b]
  BY <1>1 DEF AskTypeOK, Asks
<1>6. RequestInv(a)'
  BY <1>4, <1>5 DEF RequestInv
<1>7. QED
  BY <1>1, <1>5, <1>6, QuietAsker

LEMMA QuietSynthesize ==
  ASSUME OneType, AskTypeOK, QuietInv, UNCHANGED <<vars, seen>>, NEW a \in Askers, Synthesize(a)
  PROVE  QuietInv'
<1>1. PICK cited \in SUBSET (Ids \cup {MadeUp}), refused \in BOOLEAN, blank \in BOOLEAN :
        LET s == Synthesized(ask[a].ground, cited, refused, blank) IN
        RedactThenPut(a, [from |-> ask[a].ground, cites |-> s.cites, refused |-> s.refused,
                          redacted |-> FALSE, quiet |-> ask[a].quiet])
  BY DEF Synthesize
<1> DEFINE s == Synthesized(ask[a].ground, cited, refused, blank)
           answer == [from |-> ask[a].ground, cites |-> s.cites, refused |-> s.refused,
                      redacted |-> ~ask[a].req.nopii, quiet |-> ask[a].quiet]
<1>2. /\ IF UsesCache(ask[a].req) THEN Cache!Put(Key(a), answer) ELSE UNCHANGED <<ll, items>>
      /\ ask' = [ask EXCEPT ![a].ans = answer]
  <2> DEFINE raw == [from |-> ask[a].ground, cites |-> s.cites, refused |-> s.refused,
                     redacted |-> FALSE, quiet |-> ask[a].quiet]
  <2>1. RedactThenPut(a, raw)
    BY <1>1
  <2>2. [raw EXCEPT !.redacted = ~ask[a].req.nopii] = answer
    BY RedactedRecord
  <2> HIDE DEF raw, answer
  <2>3. QED
    BY <2>1, <2>2, Zenon DEF RedactThenPut
<1>3. /\ answer.from = ask[a].ground /\ answer.quiet = ask[a].quiet
      /\ Key(a).epoch = ask[a].epoch
  BY DEF Key, cacheKeyFor
<1> HIDE DEF answer
<1>4. apc[a] = "agent" /\ apc' = [apc EXCEPT ![a] = "reply"]
  BY DEF Synthesize, AskGoto
<1>5. RequestInv(a) /\ ~ask[a].hit /\ ask[a].req \in Requests
  BY <1>4 DEF QuietInv, RequestInv, AskTypeOK, Asks
<1>6. ASSUME answer.quiet, Key(a).epoch = LatestEpoch
      PROVE  Settled /\ \A r \in Requests : answer.from = Context(r.type)
  BY <1>3, <1>4, <1>5, <1>6 DEF RequestInv, OneType
<1>7. ASSUME NEW k \in DOMAIN items', items'[k].quiet, k.epoch = LatestEpoch
      PROVE  Settled /\ \A r \in Requests : items'[k].from = Context(r.type)
  <2>1. \/ k \in DOMAIN items /\ items'[k] = items[k]
        \/ k = Key(a) /\ items'[k] = answer
    <3>1. CASE UsesCache(ask[a].req)
      BY <1>2, <3>1, PutKeeps
    <3>2. CASE ~UsesCache(ask[a].req)
      BY <1>2, <3>2
    <3>3. QED
      BY <3>1, <3>2
  <2>2. QED
    BY <1>6, <1>7, <2>1 DEF QuietInv
<1>8. /\ apc'[a] = "reply" /\ ~ask'[a].hit
      /\ \A b \in Askers \ {a} : apc'[b] = apc[b] /\ ask'[b] = ask[b]
  BY <1>2, <1>4, <1>5 DEF AskTypeOK, Asks
<1>9. RequestInv(a)'
  BY <1>8 DEF RequestInv
<1>10. \A b \in Askers : RequestInv(b)'
  BY <1>8, <1>9, QuietOthers
<1>11. QED
  BY <1>7, <1>10, ReadOnly DEF QuietInv

LEMMA QuietReply ==
  ASSUME AskTypeOK, QuietInv, UNCHANGED <<vars, seen>>, NEW a \in Askers, Reply(a)
  PROVE  QuietInv'
<1>1. /\ items' = items /\ apc'[a] = "idle" /\ ask'[a] = NoAsk /\ ~NoAsk.hit
      /\ \A b \in Askers \ {a} : apc'[b] = apc[b] /\ ask'[b] = ask[b]
  BY DEF AskTypeOK, Reply, NoAsk
<1>2. RequestInv(a)'
  BY <1>1 DEF RequestInv
<1>3. QED
  BY <1>1, <1>2, QuietAsker

\* Where nobody reindexes, every request reads the epoch table and callers ask for
\* one type, a cached answer given to a request was made from exactly the files the
\* request has just read, if no call wrote while either context was read: a call
\* allocates its epoch before its first write (cache.go:24, CacheKey's comment).
THEOREM HitsAnswerContext ==
  ASSUME NoReindex, EpochPerRequest, OneType
  PROVE  AskSpec => []HitAnswersContext
<1>1. AskInit => QuietInv
  BY QuietInit
<1>2. TypeOK /\ AskTypeOK /\ FreshInv /\ QuietInv /\ [AskNext]_allVars => QuietInv'
  <2> SUFFICES ASSUME TypeOK, AskTypeOK, FreshInv, QuietInv, [AskNext]_allVars
               PROVE  QuietInv'
    OBVIOUS
  <2>1. CASE WriteStep
    BY <2>1, QuietWrite
  <2>2. ASSUME NEW a \in Askers, AskStep(a), UNCHANGED <<vars, seen>>
        PROVE  QuietInv'
    BY <2>2, QuietRequest, QuietRetrieve, QuietChunk, QuietHit, QuietMiss, QuietSynthesize,
       QuietReply DEF AskStep
  <2>3. CASE UNCHANGED allVars
    <3>1. UNCHANGED <<vars, seen>> /\ items' = items /\ apc' = apc /\ ask' = ask
      BY <2>3 DEF allVars, askVars
    <3>2. \A a \in Askers : RequestInv(a)'
      BY <3>1, QuietOthers
    <3>3. QED
      BY <3>1, <3>2, ReadOnly DEF QuietInv
  <2>4. QED
    BY <2>1, <2>2, <2>3 DEF AskNext
<1>3. QuietInv => HitAnswersContext
  BY DEF QuietInv, RequestInv, HitAnswersContext
<1>4. QED
  BY <1>1, <1>2, <1>3, StoresTyped, AsksTyped, FreshHolds, PTL DEF AskSpec, allVars

-----------------------------------------------------------------------------
(* The cache that requests share is an LRUCache, used as CacheSpec says: the *)
(* names of its actions stand for those of the instance Cache.               *)

LEMMA UsesTheCache ==
  ASSUME RepliesInv, NEW a \in Askers, AskStep(a)
  PROVE  Cache!CacheNext \/ UNCHANGED <<ll, items>>
<1>1. CASE Hit(a)
  <2>1. Key(a) \in CacheKeys /\ Cache!Get(Key(a))
    BY <1>1, KeyTyped DEF Hit, RepliesInv
  <2> QED BY <2>1 DEF Cache!CacheNext
<1>2. CASE Synthesize(a)
  <2>1. PICK answer \in Replies :
          IF UsesCache(ask[a].req) THEN Cache!Put(Key(a), answer) ELSE UNCHANGED <<ll, items>>
    BY <1>2, SynthesizeAnswers
  <2>2. Key(a) \in CacheKeys
    BY KeyTyped DEF RepliesInv
  <2> QED BY <2>1, <2>2 DEF Cache!CacheNext
<1>3. CASE Request(a) \/ Retrieve(a) \/ ReadChunk(a) \/ Miss(a) \/ Reply(a)
  BY <1>3 DEF Request, Retrieve, ReadChunk, Miss, Reply
<1> QED BY <1>1, <1>2, <1>3 DEF AskStep

\* Requests use their cache only through Get and Put, one call of them in a step,
\* with keys and answers of the right kind (adapters.go:171, cache.go).
THEOREM AsksUseTheCache == AskSpec => Cache!CacheSpec
<1>1. AskInit => Cache!Init
  BY DEF AskInit
<1>2. RepliesInv /\ [AskNext]_allVars => [Cache!CacheNext]_<<ll, items>>
  <2> SUFFICES ASSUME RepliesInv, [AskNext]_allVars
               PROVE  Cache!CacheNext \/ UNCHANGED <<ll, items>>
    OBVIOUS
  <2>1. CASE WriteStep \/ UNCHANGED allVars
    BY <2>1 DEF WriteStep, allVars, askVars
  <2>2. ASSUME NEW a \in Askers, AskStep(a)
        PROVE  Cache!CacheNext \/ UNCHANGED <<ll, items>>
    BY <2>2, UsesTheCache
  <2> QED BY <2>1, <2>2 DEF AskNext
<1> QED BY <1>1, <1>2, RepliesInvHolds, PTL DEF AskSpec, Cache!CacheSpec, allVars

\* List and map of the shared cache agree, and no more is kept than fits.
CacheInv ==
  /\ ll \in Seq(CacheKeys) /\ Len(ll) <= CacheSize
  /\ Cache!Agree

\* What is moved to the front stays a list of the same keys, each once.
LEMMA PromotionAgrees ==
  ASSUME CacheInv, NEW k, Cache!Cached(k),
         ll' = Cache!MovedToFront(Cache!Position(k)), DOMAIN items' = DOMAIN items
  PROVE  CacheInv'
<1>1. PICK n, i : n = Len(ll) /\ i = Cache!Position(k)
  OBVIOUS
<1>2. /\ n \in Nat /\ DOMAIN ll = 1..n /\ n <= CacheSize
      /\ \A j \in 1..n : ll[j] \in CacheKeys
      /\ DOMAIN items = {ll[j] : j \in 1..n}
      /\ \A j, m \in 1..n : ll[j] = ll[m] => j = m
  BY <1>1 DEF CacheInv, Cache!Agree
<1>3. i \in 1..n
  BY <1>1, <1>2 DEF Cache!Cached, Cache!Position
<1> DEFINE from(m) == IF m = 1 THEN i ELSE IF m <= i THEN m - 1 ELSE m
           to(j) == IF j = i THEN 1 ELSE IF j < i THEN j + 1 ELSE j
<1>4. /\ \A m \in 1..n : from(m) \in 1..n
      /\ \A m, j \in 1..n : from(m) = from(j) => m = j
      /\ \A j \in 1..n : to(j) \in 1..n /\ from(to(j)) = j
  BY <1>2, <1>3
<1>5. ll' = [m \in 1..n |-> ll[from(m)]]
  BY <1>1, <1>2 DEF Cache!MovedToFront
<1> HIDE DEF from, to
<1>6. ll' \in Seq(CacheKeys) /\ Len(ll') = n /\ DOMAIN ll' = 1..n
  BY <1>2, <1>4, <1>5
<1>7. {ll'[m] : m \in 1..n} = {ll[j] : j \in 1..n}
  <2>1. ASSUME NEW m \in 1..n PROVE \E j \in 1..n : ll'[m] = ll[j]
    BY <1>4, <1>5
  <2>2. ASSUME NEW j \in 1..n PROVE \E m \in 1..n : ll'[m] = ll[j]
    BY <1>4, <1>5
  <2> DEFINE New == {ll'[m] : m \in 1..n}
             Old == {ll[j] : j \in 1..n}
  <2>3. New \subseteq Old /\ Old \subseteq New
    BY <2>1, <2>2
  <2> HIDE DEF New, Old
  <2>4. New = Old
    BY <2>3
  <2> QED BY <2>4 DEF New, Old
<1>8. \A m, j \in 1..n : ll'[m] = ll'[j] => m = j
  BY <1>2, <1>4, <1>5
<1> QED BY <1>1, <1>2, <1>6, <1>7, <1>8 DEF CacheInv, Cache!Agree

\* A new key in front of the first keys of the list, where the map keeps just those.
LEMMA InsertionAgrees ==
  ASSUME CacheInv, NEW k \in CacheKeys, ~Cache!Cached(k), NEW n \in 0..Len(ll), n < CacheSize,
         ll' = <<k>> \o SubSeq(ll, 1, n),
         DOMAIN items' = {ll[j] : j \in 1..n} \cup {k}
  PROVE  CacheInv'
<1>1. /\ Len(ll) \in Nat /\ DOMAIN ll = 1..Len(ll)
      /\ \A j \in 1..n : ll[j] \in CacheKeys /\ j \in 1..Len(ll)
      /\ \A j \in 1..n : ll[j] # k
      /\ \A j, m \in 1..n : ll[j] = ll[m] => j = m
  BY DEF CacheInv, Cache!Agree, Cache!Cached
<1>2. /\ SubSeq(ll, 1, n) \in Seq(CacheKeys) /\ Len(SubSeq(ll, 1, n)) = n
      /\ \A j \in 1..n : SubSeq(ll, 1, n)[j] = ll[j]
  BY <1>1 DEF CacheInv
<1>3. /\ ll' \in Seq(CacheKeys) /\ Len(ll') = n + 1 /\ DOMAIN ll' = 1..n + 1
      /\ ll'[1] = k /\ \A m \in 2..n + 1 : ll'[m] = ll[m - 1] /\ m - 1 \in 1..n
  BY <1>2
<1>4. Len(ll') <= CacheSize
  BY <1>3, AskAssumption
<1>5. {ll'[m] : m \in 1..n + 1} = {ll[j] : j \in 1..n} \cup {k}
  <2>1. ASSUME NEW m \in 1..n + 1 PROVE ll'[m] = k \/ \E j \in 1..n : ll'[m] = ll[j]
    BY <1>3
  <2>2. ASSUME NEW j \in 1..n PROVE \E m \in 1..n + 1 : ll'[m] = ll[j]
    <3>1. j + 1 \in 2..n + 1 /\ j + 1 \in 1..n + 1 /\ (j + 1) - 1 = j
      OBVIOUS
    <3> QED BY <1>3, <3>1
  <2>3. 1 \in 1..n + 1
    OBVIOUS
  <2> DEFINE New == {ll'[m] : m \in 1..n + 1}
             Old == {ll[j] : j \in 1..n}
  <2>4. New \subseteq Old \cup {k}
    BY <2>1
  <2>5. Old \cup {k} \subseteq New
    BY <1>3, <2>2, <2>3
  <2> HIDE DEF New, Old
  <2>6. New = Old \cup {k}
    BY <2>4, <2>5
  <2> QED BY <2>6 DEF New, Old
<1>6. \A m, j \in 1..n + 1 : ll'[m] = ll'[j] => m = j
  BY <1>1, <1>3
<1> QED BY <1>3, <1>4, <1>5, <1>6 DEF CacheInv, Cache!Agree

LEMMA PutAgrees ==
  ASSUME CacheInv, NEW k \in CacheKeys, NEW a, Cache!Put(k, a)
  PROVE  CacheInv'
<1>1. /\ Len(ll) \in Nat /\ DOMAIN ll = 1..Len(ll) /\ ll \in Seq(CacheKeys)
      /\ DOMAIN items = {ll[j] : j \in 1..Len(ll)}
      /\ \A j, m \in 1..Len(ll) : ll[j] = ll[m] => j = m
      /\ Len(ll) <= CacheSize /\ CacheSize \in Nat \ {0}
  BY AskAssumption DEF CacheInv, Cache!Agree
<1>2. CASE Cache!Update(k, a)
  <2>1. DOMAIN items' = DOMAIN items
    BY <1>2 DEF Cache!Update, Cache!Kept, Cache!Cached
  <2> QED BY <1>2, <2>1, PromotionAgrees DEF Cache!Update
<1>3. CASE Cache!Insert(k, a)
  <2>1. ll = SubSeq(ll, 1, Len(ll)) /\ Len(ll) \in 0..Len(ll)
    BY <1>1
  <2>2. DOMAIN items' = {ll[j] : j \in 1..Len(ll)} \cup {k}
    BY <1>1, <1>3 DEF Cache!Insert, Cache!Kept
  <2>3. ll' = <<k>> \o SubSeq(ll, 1, Len(ll)) /\ ~Cache!Cached(k) /\ Len(ll) < CacheSize
    BY <1>3, <2>1 DEF Cache!Insert
  <2> QED BY <2>1, <2>2, <2>3, InsertionAgrees
<1>4. CASE Cache!Evict(k, a)
  <2>1. PICK n : n = Len(ll) - 1 /\ n \in 0..Len(ll) /\ n < CacheSize
    BY <1>1, <1>4 DEF Cache!Evict
  <2>0. Len(ll) \in Nat /\ n \in Nat /\ Len(ll) = n + 1
    <3>1. Len(ll) \in Nat
      BY <1>1
    <3> QED BY <2>1, <3>1
  <2>2. DOMAIN items \ {ll[Len(ll)]} = {ll[j] : j \in 1..n}
    <3>1. \A j \in 1..Len(ll) : j \in 1..n <=> j # Len(ll)
      BY <2>0
    <3>2. /\ Len(ll) \in 1..Len(ll) /\ \A j \in 1..n : j \in 1..Len(ll)
          /\ \A j \in 1..n : ll[j] # ll[Len(ll)]
      <4>1. Len(ll) \in 1..Len(ll) /\ \A j \in 1..n : j \in 1..Len(ll)
        BY <2>0
      <4> QED BY <1>1, <3>1, <4>1, Zenon
    <3>3. ASSUME NEW j \in 1..n PROVE ll[j] \in DOMAIN items \ {ll[Len(ll)]}
      BY <1>1, <3>2, Zenon
    <3>4. ASSUME NEW x \in DOMAIN items \ {ll[Len(ll)]} PROVE \E j \in 1..n : x = ll[j]
      <4>1. PICK j \in 1..Len(ll) : x = ll[j] /\ ll[j] # ll[Len(ll)]
        BY <1>1
      <4>2. j # Len(ll)
        BY <4>1
      <4> QED BY <3>1, <4>1, <4>2
    <3> DEFINE Kept == {ll[j] : j \in 1..n}
    <3>5. Kept \subseteq DOMAIN items \ {ll[Len(ll)]} /\ DOMAIN items \ {ll[Len(ll)]} \subseteq Kept
      BY <3>3, <3>4
    <3> HIDE DEF Kept
    <3>6. Kept = DOMAIN items \ {ll[Len(ll)]}
      BY <3>5
    <3> QED BY <3>6 DEF Kept
  <2>3. DOMAIN items' = {ll[j] : j \in 1..n} \cup {k}
    BY <1>4, <2>2 DEF Cache!Evict, Cache!Kept
  <2>4. ll' = <<k>> \o SubSeq(ll, 1, n) /\ ~Cache!Cached(k)
    BY <1>4, <2>1 DEF Cache!Evict
  <2> QED BY <2>1, <2>3, <2>4, InsertionAgrees
<1> QED BY <1>2, <1>3, <1>4 DEF Cache!Put

\* However requests interleave, list and map of the cache they share hold the same
\* keys, and no more of them than its capacity (cache.go:108).
THEOREM SharedCacheAgrees == AskSpec => [](Cache!Agree /\ Len(ll) <= CacheSize)
<1>1. Cache!Init => CacheInv
  BY AskAssumption DEF Cache!Init, CacheInv, Cache!Agree
<1>2. CacheInv /\ [Cache!CacheNext]_<<ll, items>> => CacheInv'
  <2> SUFFICES ASSUME CacheInv, [Cache!CacheNext]_<<ll, items>>
               PROVE  CacheInv'
    OBVIOUS
  <2>1. ASSUME NEW k \in CacheKeys, Cache!Get(k)
        PROVE  CacheInv'
    <3>1. CASE Cache!Cached(k)
      BY <2>1, <3>1, PromotionAgrees DEF Cache!Get
    <3>2. CASE ~Cache!Cached(k)
      BY <2>1, <3>2 DEF Cache!Get, CacheInv, Cache!Agree
    <3> QED BY <3>1, <3>2
  <2>2. CASE UNCHANGED <<ll, items>>
    BY <2>2 DEF CacheInv, Cache!Agree
  <2> QED BY <2>1, <2>2, PutAgrees DEF Cache!CacheNext
<1>3. CacheInv => Cache!Agree /\ Len(ll) <= CacheSize
  BY DEF CacheInv
<1> QED BY <1>1, <1>2, <1>3, AsksUseTheCache, PTL DEF Cache!CacheSpec

=============================================================================
