# A TLA+ model of pixkb

pixkb keeps a knowledge base as a *bundle* of markdown files in a git
repository and derives a Postgres index from it. The bundle is the source of
truth; tables, vectors, links and history are meant to be rebuildable from it.
The modules here model the parts of the program that change state or decide
something, TLC checks them on small instances, and TLAPS proves the central
claims for instances of any size.

Paths are relative to `src/`; `runner.go`, `inbox.go` and the like stand for
`internal/epoch/runner.go`, `cmd/pixkb/inbox.go` and so on where no other file
of that name is meant.

## 1. Inventory

| Part | Source | State | Operations | What is hard | What makes it correct |
|---|---|---|---|---|---|
| Epoch runner | `internal/epoch` | one mutex per `Runner` | `Run`, `UpsertBatch`, `Reindex` | three stores without a transaction over them; an error or a kill between any two steps; a second process with a second mutex | what a successful call leaves behind; what recovery brings back; what a commit holds |
| OKF bundle | `internal/okf` | files, `index.md`, `log.md` | `WriteConcept`, `ReconcileBundle`, `WriteIndexes`, `AppendLog`, `ReadBundle` | files truncated before they are written | the bundle is exactly the current set and can be read |
| Index store | `internal/store/postgres` | tables `concept`, `embedding`, `edge`, `epoch`, `concept_fact`, `ispb_participant` | upserts, `Truncate`, `PruneEmbeddings`, `NextEpoch`, `RecordFact`, `AsOf` | epoch numbers that start over; ranges that close and open | fact windows stay apart; reads of the past stay the same |
| Gather and sources | `internal/ingest`, `cmd/pixkb/sources.go` | none | `GatherAll`, cross-linking, tagging | files that change under it; two concepts with one id; one bad file | a full snapshot, or an error |
| Serve: inbox, ingest, daemon | `cmd/pixkb/ops.go`, `inbox.go` | `inbox/`, `inbox/ingested/`, `serveIngestMu` | upload, add by URL, DELETE, Ingest now, archive, daemon tick | requests between gather and archive; a kill between remove and rename; a fetch between check and write | what was staged is indexed, kept, and staged once |
| Watch | `internal/watch` | a timer and an event queue | debounce, run | events during a run; a timer that expires while it is stopped; a full queue | no change is forgotten |
| Answers and cache | `internal/rag`, `internal/kbmcp/ask.go` | an LRU cache keyed by question, options and epoch | `Ask` | an answer computed while a writer is between two epochs | an answer is never older than the epoch it is kept under |
| Curation | `internal/curate`, `internal/hygiene` | none | scan, route, fix or enrich, gate, write-back | a bundle read minutes before the write-back | nothing that deviates is written, nothing unrouted is |
| Search | `internal/query`, `internal/similar`, `internal/embed/rrf.go` | none | hybrid, multi-query and similarity search | two reads with an ingest between; concurrent subqueries; ties | fusion agrees with what it fused |
| Citation links | `internal/link`, `store/postgres/edge.go` | rows of `edge` | `link --apply` | two commands; a write path that deletes the rows | one row per citation |
| ISPB registry | `internal/ispb`, `store/postgres/ispb.go` | `ispb_participant`, staged files | fetch, load, sync of two sources | rows of two sources in any order; lists of other days | names do not depend on the order |
| HQL | `internal/hql`, `store/postgres/query.go` | none | parse, compile | precedence; keywords as values; NULL; placeholders | a query keeps the rows it means |
| BR Code | `internal/brcode` | none | encode, parse, validate | two-digit lengths; a CRC whose tag may occur anywhere | what is written is read back, what is damaged is refused |
| Economic indexes | `internal/econindex` | one table | sync | - | section 7 |
| MCP server and commands | `internal/kbmcp`, `cmd/pixkb` | none of their own | call the parts above | - | - |
| Parsers, agents, evaluation, output | `internal/ingest/*.go`, `internal/roster`, `internal/agenthost`, `internal/evalkit`, ... | none | - | - | section 7 |

How they interact: request handlers, the daemon and the commands call a
`Runner`; the `Runner` calls `okf`, the store and git; readers (search, answers,
as-of) read the store, answers the bundle as well. Within one process the
`Runner` mutex orders the writers. Between processes nothing does: a server and
a command line each hold a `Runner` of their own on the same bundle and database.

`PROJECT.json` lists each part with its status, the source lines behind every
definition, and the hazards with the properties that cover them.

## 2. Modules

| Module | Models |
|---|---|
| `ConceptFact` | the table `concept_fact` as a set of rows: `RecordFact`, `AsOf` by epoch and by valid time |
| `EpochRunner`, `MCEpochRunner` | the write path: every step of `Run`, `UpsertBatch`, `Reindex` and `pixkb concept rm`, errors and kills |
| `EpochRunnerInvariant`, `EpochRunner_proofs` | the inductive invariants behind it, and the proofs: of any deployment; of calls that nobody overlaps, and of one Runner for all writers |
| `LRUCache`, `LRURecency` | the answer cache; the same with a memory of uses, in which "least recently used" is defined |
| `Ask`, `MCAsk`, `Ask_proofs` | `rag.Ask` for several requests, over `EpochRunner` and an instance of `LRUCache`; proofs |
| `Inbox`, `MCInbox`, `Inbox_proofs` | the inbox of `serve --ask`, its two ingests and its daemon; proofs that no document is lost, a link is staged once, an ingest indexes what it took |
| `Watch`, `MCWatch`, `Watch_proofs` | the debounce loop of `pixkb watch` and the run it starts; proof that at rest the index is current |
| `Hygiene` | the deterministic scan, as operators |
| `Curate`, `MCCurate`, `Curate_proofs` | a curation pass over `Hygiene`, while others ingest; proofs |
| `Fusion` | rank fusion and what it is used for, as operators |
| `Search`, `MCSearch`, `Search_proofs` | the requests that fuse several reads of the store; proofs, those about `Fusion` included |
| `ISPB` | the participant registry and the commands that load it |
| `HQL`, `HQLCompile` | the query parser against a grammar; the compiler against the meaning of a query |
| `BRCode`, `BRCode_proofs` | BR Codes over bytes; proofs that they are read back and that one damaged byte is detected |
| `Links` | `pixkb link --apply` against the write path |
| `MCComponents` | one instance of the components that share no state: `LRURecency`, `ISPB`, `HQLCompile`, `BRCode`, `Links` |
| `Components_proofs` | proofs about `LRURecency`, `ISPB` and `Links` |

`HQL` and `HQLCompile` use recursive operators and are checked by TLC only; every
other module keeps to recursive functions and folds.
Operators whose comment says "Mutant" are wrong on purpose:
each shows that a property would notice that mistake.

### EpochRunner

| Variable | Code |
|---|---|
| `bundle` | the concept files: text, `Absent`, or `Torn` between the truncation and the write inside `os.WriteFile` |
| `nav`, `log`, `git` | the ids listed by the generated `index.md` files, `log.md`, the commits |
| `concept`, `embedding`, `edge`, `facts`, `epoch` | the tables |
| `clock` | `now()`, one tick per epoch (`created_at` of the epoch is the `validFrom` of its facts) |
| `lock` | `Runner.mu` of each process |
| `pc`, `job` | where a call is and its locals: the batch, what `applyAll` has still to do, epoch number, commit |

One action per step a call makes on a store; the order is that of
`applyConcept` and `finishEpoch`:

    Lock -> [ReadBundle, Truncate]  NextEpoch
         -> (OpenFile, WriteFile, UpsertConcept, UpsertEmbedding, ReplaceEdges, RecordFact)*
         -> run: ReconcileFile*, ReconcileDone
         -> run, upsert: WriteIndexes, AppendLog, Commit, SetEpochCommit
         -> PruneEmbeddings -> Return

`ReturnError` ends a call at any step (embedder, database, disk, git),
`Refused` names where the state itself makes a step fail (a torn file has no
front matter fences, a vector has no concept row, a range would end before it
starts), and `Kill` ends all calls of a process. `RemoveFile` starts
`concept rm`, whose first three steps hold no mutex.

Abstracted: a concept's content is one value, so its hash, its vector and its
links are that value; the counts, the git diff and the log wording that
`finishEpoch` computes are left out, as are `first_epoch` and `last_epoch`.
`ReadBundle` reads all files in one step even when another process is writing.
`applyAll` takes the concepts in the order of the batch, the model in any order.
`ReplaceEdges` is one step: two processes that replace the links of one concept
at the same moment can in the code leave both sets of rows.

### LRUCache and LRURecency

`ll` is the list, most recently used first, `items` the map; the mutex makes
`Get` and `Put` single steps, and `Put` is `Update`, `Insert` or `Evict` as the
code branches. `LRURecency` adds the number of each key's last use and the
answer last put under it, and states what the cache may forget and must return
in those terms only.

### Ask

The write path's `Next` is one disjunct of the next-state relation, a step of a
request the other. A request is

    Request (reads max(n) of epoch) -> Retrieve (reads concept)
      -> ReadChunk* (one file each) -> Hit -> Reply
                                    -> Miss -> Synthesize (agent, redaction, Put) -> Reply

and errors end it where the search or the agent can fail. `apc` is where a
request is, `ask` holds the locals of `rag.Ask` and of its caller, `ll` and
`items` the cache of the server. `EpochPerRequest` tells the MCP server, which
reads the epoch for each question, from `serve`, which read it when it started.
`seen` and the `quiet` fields are history variables: the texts a file had since
the latest epoch was allocated, and whether a call wrote while a context was
read.

Abstracted: every concept matches every question and fits the grounding, so a
context is the set of concepts whose rows match the type filter and whose files
can be read; the related and similar expansions and the character budget are
left out; the agent cites any ids, refuses or not, and may send a blank text;
redaction is a mark on the answer.

### Inbox

| Variable | Code |
|---|---|
| `top`, `arch` | the files of `<ingest_dir>/inbox` and of `inbox/ingested`: contents, `Empty` when only created, `None` when absent |
| `writer` | each request handler: where it is, and the file it has open (which a rename takes along) |
| `lock`, `ingest` | `serveIngestMu`; the two ingests ("Ingest now" and the daemon) with their locals |
| `index` | what the last `Run` stored of each inbox concept |
| `kept`, `stable` | history: complete documents not taken back; names untouched since an ingest took the mutex |

    handleUpload: Create, Copy          handleURL: FindTop, FindArchived, Fetch (= Create), Copy
    ingest: Start, Lock, Walk, Read* -> DuplicateId | Run -> ReadDir, (RemoveOld, Rename)*, Archived -> Unlock
    Delete, IngestFails, Kill

Uploads, links and DELETE hold no mutex. `Run` of the epoch runner is one step
here: it is ordered by its own mutex, and a failed one stores any part of the
snapshot (`IngestFails`). The daemon runs the same steps without archiving. A
file is a text, a parsed document (which cannot be read while empty) or an
attachment; a fetch brings any kind, or the link-only stub when it fails.

### Watch

`events` is the queue of the event source, bounded by the operating system;
`pending` and `timer` are the locals of the loop, whose three cases are
`TakeEvent`, `Fire` and `SourceError`/`Cancel`. The callback runs on the same
goroutine: `Read` takes one file at a time, `Run` stores what was read,
`RunFails` is swallowed. Gathered files that are not directly in the watched
directory change without an event (`w.Add` is not recursive).

### Hygiene and Curate

A concept is its flaws (what the patterns of the code find in its text), title,
hash, links and recall terms; `Scan` computes the findings of a set of them,
duplicates and broken links included. A pass is `Start` (read, scan, route,
restrict, cap), one of `Fix`, `EnrichTerms` or `NoProposal` per route with any
reply of the agent, then `UpsertBatch` concept by concept, which may stop
halfway, and `Reindex`. The routes of a pass are the set `todo`, taken in the order
of ids. `Ingest` replaces the bundle at any moment.

### Fusion and Search

`Fusion` is the arithmetic: `RRF` with first-seen tie-breaks, the three boosts,
the floor and the cap of `hybridCore`; `ExpandQuery` and `MultiFuse`;
`SemanticSimilar`, `MoreLikeThis`, `GraphSimilar`, `tagDomain` and `fuse`. Scores
are counted in units of 1/`Scale`, a common multiple of all `k + rank`, where the
program adds floating-point numbers. What the properties compare does not depend on
the difference: rounding is monotone, so a hit ahead in every list has at
least the score of the other and was seen first, and `Exchanged` only equates sums
of one or two shares, which do not depend on their order; of three the program
may break a tie by the last bit. `Sorted` says what `sort.SliceStable` returns
where no two elements compare equal. `Search` is the order of
reads: a request is a list of jobs, each read is a step, an ingest may come
between two, up to `Fanout` subqueries run at once and finish in any order, and
any read may fail. What a text matches is any ranking out of `Rankings`.

### ISPB

Files are tables of cells; `ParseSTR` and `ParsePix` find their header and take
records, with the code padded or refused. A command downloads or reads its list
(`Fetch`, `Load`, `Sync`, `SyncPix`), then upserts one row per step
(`UpsertRow`), and stops at the first row refused (`Fail`). `alone` in its record
is history: no other command of its source wrote meanwhile. Lookup, search and
aliases only read and are left out.

### HQL, HQLCompile, BRCode

`Parsed` is the recursive descent of `parser.go` over tokens, `Readings` an
ambiguous-looking grammar that knows nothing of it. `ToSQLAt` yields a fragment
and its arguments, `Evaluate` is three-valued logic on rows, `Means` what a query
says. A BR Code is a sequence of bytes; `Encode`, `Parsing`, `Validate` and
`CRC16` follow `brcode.go` byte by byte, which is the point of the CRC and of
the lengths. `ReadField` is one turn of the loop of `parseTLVs`; a word of the CRC
is a number below 2^16, shifted (`Round`) and combined by exclusive or bit by bit
(`Xor`, `Flip`). `Step` tabulates what one byte does to every word, so that TLC
computes each word once.

### Links

`body` holds the mentions of instruments in each stored row, `cites` counts the
rows of kind `cites` from one concept to another. `Link` scans once;
`CheckEdge` and `InsertEdge` are the two halves of `INSERT ... WHERE NOT
EXISTS`, with the unique index of migration 0009 in between. `StoreConcept`,
`ReplaceEdges` and `Truncate` are the write path of another process, which
removes citations with the links.

## 3. Runs

| Run | Instance | Question |
|---|---|---|
| `one_runner` | 2 ids, 2 bodies, 2 callers of one mutex, 2 calls, 1 fault | what a server promises whatever is called and wherever it fails |
| `history` | 1 id, 2 bodies, 3 calls, 1 fault, no symmetry, `FairSpec` | epochs, windows, commits and vectors over a longer history; a waiting caller returns |
| `two_runners` | 2 ids, a server and a command line with a mutex each, 3 calls | what survives when two processes interleave at every step; the inductive invariants of the proofs |
| `ask` | 1 id, 2 requests at once, with and without the filter, a cache of one entry, 3 Runs | what requests answer while files change, and what they leave for each other |
| `inbox` | an upload of a document, a link of two kinds, one handler each, both ingests, 5 requests, 1 fault | nothing staged is lost, missed, or staged twice; the index settles |
| `watch` | 2 watched files and an unwatched one, each written twice, a queue of 3, 1 failed run | no change is forgotten; the watcher comes to rest |
| `curate` | 3 bundles of 2 concepts, 5 replies, 2 passes, an ingest, a fault | what reaches the bundle passed the gate |
| `search` | 3 concepts, limits 0 and 1, every ranking of both arms, an ingest or a failure between reads | fusion agrees with what it fused |
| `components` | one component per behaviour: cache of 2 of 4 keys; 2 of 3 registry commands at once over 3 days; queries of up to 6 tokens or comparisons; expressions of 4 nodes on 16 rows; 14 payloads and every one-byte change of theirs to 3 bytes; 3 link commands of 2 processes and 3 stores | each against its specification |
| `find_enrichment_lost`, `find_date_functions`, `find_crc_of_tag` | as `curate`, `components` | documentation the code does not follow (section 5) |

Each property of a passing run has a mutant in `PROJECT.json`: a plausible slip
in the code that the run notices.

Bounds. `MaxCalls` and `MaxFaults` bound the write path: two calls are enough
for a call to meet what a failed one left, three for a recovery between two
processes, and for an epoch number to be used, dropped by `Reindex` and used
again. Two bodies make an overwrite visible, two ids make a batch partial.
For answers, two requests are one that fills the cache and one that hits it or
evicts from it; `FreshSince` needs a third Run, because a text is in `seen` until
the epoch after the one that replaced it. For the inbox, five requests are an
upload, a link, an ingest of both, and two more of upload, link, DELETE or
ingest over what was archived. For the watcher, two events in the queue and one
in hand are a burst that meets a run, a third overflows. Two passes are one that
writes and one that reads what it wrote. Three subqueries with two at a time
finish in an order that differs from theirs. Three registry commands are two
that interleave over what one left. The bounds end behaviours in
`Finished` (`EpochRunner`, which `Ask` includes, `Curate`, `Search`), so deadlock
is checked there; the inbox does not end, because the daemon goes on; `watch` and
`components` may stop (a stopped watcher, a query that cannot be continued), and
say so.

Properties that need no mutex hold for a call marked `solo` (a history
variable: no other call was busy on the stores since it began): `BatchStored`,
`RunMaterializes`, `ReindexRestores`. They are the program's recovery promise:
the state the call starts from is any state that errors, kills and overlapping
writers can leave. `FactWindows` holds with any overlap. `RowFollowsFile`,
`CommitHoldsEpoch`, `AsOfStable`, `LatestVector` and `NavigationCurrent` need all
writers to share one `Runner`; with two they do not hold, which is why only
`one_runner` and `history` check them.

`FreshSince` holds however requests and writers overlap, because a request
reads the epoch before the files. `HitAnswersContext` says that the cached answer
stands for the one the agent would give now; it needs that no call wrote while
the two contexts were read, that nobody reindexes, that the epoch is read per
request, and that requests do not differ in their type filter. Section 5 says
what happens without each condition.

`StagedOnce` is checked with one URL request at a time; with two it does not
hold (section 5). `LinkedOnce` speaks of commands that the write path did not
meet, and of any number of other link commands.

Fairness. `EpochRunner!FairSpec`: a call that can take a step takes one (weak,
goroutines are scheduled) and a waiter on a mutex that is freed again and again
gets it (strong, `sync.Mutex` hands over to a starving waiter after 1 ms).
`Inbox`: the same for handlers, ingests and `serveIngestMu`, and the daemon's
ticker goes on (weak fairness of `Start("daemon")`, a `time.Ticker` in a loop
until the server ends). `Watch`: the loop is scheduled and time passes (weak
fairness of `Loop` and `Expire`). Nothing is assumed of clients, files, agents,
errors and kills.

## 4. Proofs

All proofs hold for any values of the constants that the named assumptions
allow: any ids, bodies, names, callers, Runners, requests and bounds.

| Theorem | Says |
|---|---|
| `EpochRunner_proofs!TypeCorrect` | `TypeOK` is invariant |
| `EpochRunner_proofs!FactsInOrder`, `WindowsDisjoint` | `FactOrder`, and from it `FactWindows`, is invariant, with any interleaving and failure |
| `EpochRunner_proofs!ProgressHolds` | `Progress` is invariant |
| `EpochRunner_proofs!BatchIsStored`, `RunIsMaterialized`, `IndexIsRestored` | `BatchStored`, `RunMaterializes`, `ReindexRestores` are invariant |
| `EpochRunner_proofs!OneRunnerExcludes` | with one Runner (`OneWriter`), at most one call works on the stores |
| `EpochRunner_proofs!RowsFollowFiles`, `HistoryIsStable` | `RowFollowsFile` and `AsOfStable` hold of every step under `OneWriter` |
| `EpochRunner_proofs!NavigationFollows`, `VectorsAreLatest`, `CommitsHoldEpochs` | `NavigationCurrent`, `LatestVector`, `CommitHoldsEpoch` are invariant under `OneWriter` |
| `Components_proofs!ListAndMapAgree`, `LeastRecentlyUsed`, `HitsAreLastPut` | `Agree`, `ForgetsOldest`, `HitsLastPut` are invariant |
| `Ask_proofs!AsksOnlyRead` | every behaviour of `Ask` is one of `EpochRunner`, whose theorems hold in it |
| `Ask_proofs!AsksTyped`, `FilterHolds`, `AnswersCite` | `AskTypeOK`, `RedactedUnlessAsked`, `CitesItsContext` are invariant |
| `Ask_proofs!CacheIsFresh` | `FreshSince` is invariant where nobody reindexes (`NoReindex`) |
| `Ask_proofs!HitsAnswerContext` | `HitAnswersContext` is invariant where nobody reindexes, each request reads the epoch, and all ask for one type (`NoReindex`, `EpochPerRequest`, `OneType`) |
| `Ask_proofs!AsksUseTheCache` | every behaviour of `Ask` uses its cache as `LRUCache!CacheSpec` says, whoever asks |
| `Ask_proofs!SharedCacheAgrees` | in `Ask`, list and map of the cache agree and hold no more than fits |
| `Inbox_proofs!NothingIsLost` | `FileKept` is invariant |
| `Inbox_proofs!LinkStagedOnce` | `StagedOnce` is invariant where one request adds links at a time and no upload has the name of a link (`LinksApart`) |
| `Inbox_proofs!SuccessIndexes` | `IngestIndexes` is invariant |
| `Watch_proofs!QuietWatchIsCurrent` | `QuietIsCurrent` is invariant |
| `Curate_proofs!NothingDeviatesWritten`, `GoodFixesPass` | `WrittenIsClean`, `GoodFixAccepted` are invariant |
| `Curate_proofs!OnlyRoutedWritten` | `WritesOnlyRouted` holds of every step |
| `Search_proofs!ArmsRespected`, `SubqueriesRespected`, `LimitKept` | `HybridRespectsArms`, `MultiRespectsSubqueries`, `SimilarKeepsLimit` are invariant |
| `Components_proofs!LoadsConverge`, `RegistryNames`, `OnlyActiveStored` | `LoadConverges`, `NameOfSTR`, `ActiveOnly` are invariant |
| `Components_proofs!CitedOnce` | `LinkedOnce` is invariant |
| `BRCode_proofs!CodesAreReadBack` | `RoundTrip` is invariant |
| `BRCode_proofs!OneByteIsDetected` | `CorruptedIsRefused` holds wherever `Parse` finds the tag and the CRC in their place (`CRCInPlace`) |

`FactWindows` is not inductive: closing the open row could push its end past
the start of another row. `FactOrder` adds that every id with a fact has an
open fact that starts last, which `CanRecord` and `Record` keep.

The three promises of the write path speak of the moment of return, so nothing
about them is inductive. `SoloProgress` says for a call under way which part of
the batch is through `applyConcept` (`DoneInv`), how far the concept in hand has
come (`HandInv`), that Reindex still finds in the bundle what it read
(`ReadInv`, where `Mended` repairs the file that is torn at that moment), and
that the tables hold what was brought to them and nothing else (`BroughtInv`).
Two supporting invariants make it go through: `StepsOfOp` (which operation can
be at which step) and `SoloAlone` (a call marked solo is alone). `Progress`, which
`two_runners` checks, is their conjunction. No step of the argument uses the
mutex: what a call promises when nobody overlaps it does not depend on who
prevents the overlap.

The mutex comes in with `OneWriter`: all callers go through one Runner and none
performs `concept rm`, which takes no mutex for its first steps. That is the
server with its handlers, its inbox and its daemon and no command line beside
it. `Exclusive` is then inductive, every call at work is solo, and `Progress`
says where it is. `OneInv` adds what outlives a call: vectors and facts only
name epochs the table has (`RowsInv`), and every stamped epoch row names a commit
that holds the epoch (`StampedInv`); and for the call at work, that its epoch is the
last one, still unstamped, and that its rows are those of its batch
(`OwnRowsInv`, `StampInv`). `OneNext` splits every step into those that leave the
stores alone, among them every error and kill, and the steps of the one caller
at work.

The cache's invariant (`RInv`) is the conjunction of what `components` checks of
it: the eviction removes the right entry because list and map agree, and the
oldest key because the list is in order of use. Two lemmas carry the sequence
arithmetic: `MoveToFrontPermutes` and `Pushed`.

`Ask` has an instance of `LRUCache`, without the memory of `LRURecency`. That its steps
are steps of that cache (`AsksUseTheCache`) needs the types of keys and answers, so
`RepliesInv`; `RecencyIsACache` says the same of `LRURecency`. `CacheInv` is then
inductive over `CacheSpec` alone.

`RepliesInv` adds to the promises about replies that every cached answer keeps
them too, which holds because only a request with the filter on reaches `Put`.
`FreshInv` adds to `FreshSince` that a request under way whose epoch is still the
latest has read only texts seen since, and that no epoch in a key or a request
is newer than the latest; `NoneEmpties` and `EpochGrows` say why: without
Reindex the table only grows.

`HitAnswersContext` compares two reads of the files that other calls may separate.
`QuietInv` reduces both to the files of the moment: while the epoch of a quiet
context is the latest and nobody wrote since, every call at work has still to
allocate its epoch (`Settled`), so the context is what a request would read now,
and the same holds of every quiet entry of the cache under that epoch. The step
that allocates an epoch ends this for all of them at once, which is why the key of
the cache suffices. The three conditions are needed: section 5 has what happens
without each.

`FileKept` fails by itself at `RemoveOld`, which removes the archived copy of a
name: `Archiving` adds that only "Ingest now" archives, and that whatever it still
has to archive is staged, or no longer `kept` because a DELETE or a new upload
came first. So the removed copy is never the only one, and a kill right after the
removal leaves the staged one.

`StagedOnce` needs to know where every handler is (`StagedInv`): one that has looked in
`inbox/` still finds no file of its link there, one about to fetch finds none at all,
whoever copies has its file open at a place that exists, and archiving moves a
file to where there is none. It is the second half of `LinksApart` that excludes
the double look of two requests.

`IngestIndexes` is about names that nobody touches between the moment an ingest
takes the mutex and its end (`stable`). `IndexInv` follows one through the
ingest: not yet walked, still to read, read with the content it has, stored with that
content, archived. Other actors only shrink `stable` or leave its files alone
(`Bystander`), and the mutex keeps the other ingest out.

A pass of curation writes what its gate let through. `GateIsOwn` is the reason that
this means something: the gate scans all concepts with the proposal swapped in, and
finds an error for the concept exactly if the proposal's own text has one,
whatever the others hold. `CurateInv` carries that through the pass: what was
accepted is clean and routed, what was written is clean and still there, and no
later step of a pass touches a concept twice.

`QuietIsCurrent` needs what holds while the watcher is not quiet: a file that
differs from the index has an event queued or collected, or was read by the run
in hand after it was written. The registry's `LoadInv` says of a command
under way that what it has still to write is the end of its list, and that of
what it has written the last row of each code is in the table, as long as no
other command of its source wrote; `NameOfSTR` is inductive given
that the table has a row for each code. For `ActiveOnly`, `FilesInv` says that a file of
participants is a prefix of a published list, whatever failed or was cut, and
`ParsedActive` that the parser reads nothing of such a prefix beyond its active
rows, because the header that starts the pending table ends it; `ActiveInv` adds that
what a command has still to write is active.

`LinkedOnce` is inductive once `LinkInv` adds that a row is in the table at most
once, which is the unique index of migration 0009, and that what a command found
is in the table or still to be written, as long as no write path step removed
rows under it (`Covered`).

The three theorems about search are mostly about `Fusion`, and most of their lemmas about
sums and sorting. Sums come from the folds of the community modules, which add in an order
nobody chooses: `SumPick` and `SumRemove` show that any order will do, and
`SumNoLess` and `SumMore` compare two sums by matching their terms, so that a concept
ahead in every list has the larger score (`ScoreOfAhead`) and an exchange of ranks
leaves it unchanged (`ScoreOfExchanged`, `RanksDiffer`). `SortedIs` says that `Sorted` is a
permutation in order when the order is strict and total, which `EarlierOrders` and
`RRFIs` establish for score and first-seen. From these follow what each fusion
returns, as lemmas without a state: `HybridCoreHolds` (with the boosts:
`WeightNoLess`), `MultiFuseHolds`, `SemanticIs`, `MoreLikeThisIs`, `GraphSimilarIs`,
`HybridSimilarIs`. `RequestInv` then says of every search of a request what it has
read, typed, each concept once, and what its kind promises once it is done. Ingests
between reads need no argument: no lemma assumes that two reads saw one store.
That the page of a similarity request is full counts concepts: the semantic page
alone is as long as promised (`SemanticIs`, where the slot of `withHeadroom` makes up
for the concept itself), its concepts are distinct (`FoundAtLeast`), and fusing in
more signals only adds to them.

`RoundTrip` speaks of any payload, so of texts of any length. `Encode` refuses what two
digits cannot say; of a sequence of fields that it did not refuse, `ParsesRendered`
shows by induction over the fields that each turn of `parseTLVs` reads the next
one, with a bound on the turns because a field takes four bytes. `FindsInCode` and
`FindsInTemplates` say which value `find` returns from what `Encode` wrote at each
level, and `EncodedShape` that the code neither starts nor ends with a blank and has its
tag eight bytes before its end. The last occurrence of the tag is that one or the CRC
itself, which is the exception in `RoundTrip`.

That one replaced byte changes the CRC is linear algebra over bits in the textbooks;
here it is that every step is injective. A round of the CRC is injective on words, so
are eight, exclusive or with a byte is injective in either argument, and so
`CRCTellsOneByte`: two texts that differ in one byte have different CRCs, whatever
surrounds it. `FourHexInjective` takes that to the four characters of the code, and `ToUpper`
to the comparison without regard to case, which is why the byte must differ in more
than case. A byte of the tag itself leaves no tag, or one that is not the CRC's
(`LastTag`), and a byte of the CRC leaves the rest as it was. A blank in place of the first byte
is trimmed away, and the shorter text has another CRC too (`CRCTellsFirstByte`). `CRCInPlace` is a
hypothesis about the damaged code: that the last "6304" in it, if there is one, is the
eighth byte from the end, and that the four characters `Parse` found under id 63 are
the last four. Damage to a length or an id can make `Parse` read its fields
elsewhere, for instance inside a merchant name that looks like a field 63, and
nothing prevents a payload from carrying a CRC that fits; so without the hypothesis
the statement is not true of every payload. In the instance of `components` it
holds in nine of ten damaged codes, and the others are all of the payload whose CRC is
6304 (section 5); `CorruptedIsRefused` holds in them as well.

Induction over the naturals is used as what it is equivalent to for sets that can be
written down: a non-empty set of naturals has a least element (`LeastExists`, from
`WFMin`). The arguments about sums suppose a smallest counterexample, and so does
`UpTo`, with which `BRCode_proofs` counts through fields and bytes; that a function
defined by recursion on `0..N` exists and has its equations is `RecursionDefines`.

Assumptions: `RunnerAssumption` and `InfAssumption` (file markers are not contents,
the free mutex is no caller, the open bound is no instant), `CapacityAssumption`
(the capacity is positive, which `NewLRUCache` enforces), `AskAssumption`,
`InboxAssumption`, `WatchAssumption`, `RegistryAssumption`, `CurateAssumption` and
`LinkAssumption` (the constants have their types and the markers are no values),
`FusionAssumption` (concepts are finitely many, and `Scale` is what its name says, for
which the product of all `k + rank` would do), `SearchAssumption` (a ranking names each
concept once, as the queries of both arms do), `PayloadsAssumption`,
`CorruptionsAssumption` and `FailedAssumption` (payloads are sequences of bytes, and an
error is no text). TLC evaluates them in the runs.
`NoReindex`, `EpochPerRequest`, `OneType`, `OneWriter`, `LinksApart` and `CRCInPlace` are hypotheses of the
theorems that name them, not assumptions of a module.

Only model-checked: queries (`ParsesGrammar`, `CompiledMeans`), whose parser and
compiler are mutually recursive over trees and use `RECURSIVE` operators, which are
out of the prover's reach; `CorruptedIsRefused` where `CRCInPlace` does not hold;
liveness (`CallReturns`, `Settles`, `CatchesUp`), for which it has no rule; and the findings.
With these exceptions every property of a passing run is a theorem.

## 5. Where documentation and code differ

Three runs show it:

| Run | Documentation | Code |
|---|---|---|
| `find_enrichment_lost` | recall terms "persist/round-trip" in the front matter (ADR 0001:45), merged with the "body untouched" (`enrich.go:67`) | a full ingest writes the concept of its source, without terms, over the file |
| `find_date_functions` | `now()`, `today()` and the like are values of a date field (`hql/doc.go:10`) | `scalarCmp` reads the spelling and never the kind of the operand, so none compiles |
| `find_crc_of_tag` | `Encode` "builds a valid BR Code" (`brcode.go:257`) | `Parse` takes a CRC of 6304 for its own tag and refuses the code |

What the models show besides, without a run of its own:

*Epochs and history.* Recovery is Reindex against the intact bundle
(`runner.go:50`, `:256`), but a kill inside `os.WriteFile` leaves a file that
Reindex refuses to read. Closed rows are said to keep valid-time history
(`fact.go:13`, ADR 0005), but the as-of-time read asks for an open transaction
range. `maintenance.go:37` says that the sha is stamped "so epoch.git_commit is
never left empty", and `Reindex` cuts an epoch without a commit. ADR 0005 says
that "storage grows with *changes*, not with epochs", and `applyConcept` records
a fact for an unchanged concept. `ARCHITECTURE.md:61` says that reindexing
"reproduces the same facts", and `Truncate` drops those of all earlier epochs;
numbers start over and are used again.

*Answers.* A stale answer is said never to be returned under the new epoch's
key (`cache.go:30`), but the number is visible before the files are written, so
an answer made of old texts gets under it. A new epoch is said to invalidate
every prior answer (`cache.go:27`), but numbers start over after Reindex and the
cache does not. `serve` reads the epoch once, before it listens (`ops.go:250`):
its own ingests never invalidate its cache. Answers under different scopes are
said never to collide (`cache.go:39`), but the type filter is not in the key.

*Inbox.* Two requests for one link that both look before either writes can
stage it twice, as files of two kinds, though `inbox.go:168` says at most once.
An upload under the name of an archived document makes two files with one id,
and `GatherAll` refuses every later ingest until the new one is DELETEd: the
replacement of `inbox.go:276` only happens to a file that arrives after the
gather and before the archiving. One file that
cannot be parsed fails the whole ingest. `archiveInbox` lists the directory after
the gather, so it may archive what was never ingested; the next ingest reads it
there. The resource path of an archived concept is that of the staged file until
then.

*Watch.* The watcher is not recursive, so changes in subdirectories wait for a
change at the top; its gather neither cross-links nor tags, as `ingest` does; an
overflow of the event queue ends it.

*Curation.* `--limit` takes the first routes in order of id at each pass:
concepts whose fixes are rejected every time keep the later ones from their turn.

*Search.* `f.Limit` caps both arms before they are fused although
`hybrid.go:165` says it caps the fused result. `GraphSimilar` counts a mutual
link twice.

*Registry and queries.* Participants that a list drops are never removed; a staged
file that is loaded late overwrites a newer sync. Rows whose `intent_terms` is NULL
drop out of `!=` and `!~`. `brcode.go:22` calls the round trip lossless, but
fields with ids that `Payload` has no place for are dropped, and so is the description of a
code with a URL.

*Links.* Whatever stores a concept (`Run`, `UpsertBatch`, `Reindex`) deletes its
`cites` rows with its links, and nothing runs `link` again, although
`docs/superpowers/specs/2026-07-19-multi-domain-kb-design.md:104` says it is wired into the
curator loop. The comment of `edge.go:8` that the table has no unique constraint
predates migration 0009: of two concurrent commands the later now fails at
the row the other inserted. A scan that an ingest overlaps can leave a row for
a body that is gone. A body that cites an instrument with and without its year
counts it twice as "matched".

*Economic indexes.* `sync` fetches with `DownloadRange` although `client.go` says
that longer spans must go through `FetchHistory`, which no command calls.

## 6. Plan

Done: every component of section 1 that is marked as modelled, with all safety
properties proved except those of queries and what section 4 leaves of BR Codes. What would add most next:

1. The composition of `Curate` with the steps of `EpochRunner`, in place of its
   own `UpsertBatch` and `Ingest`, and of `Links` with its `ReplaceEdges`.
2. The expansions and the budget of the grounding (`rag.go`), the narrowing of
   `AsOf`, and `Runner.Diff`.

## 7. Not modelled

- *Document parsers* (PDF, DOCX, XLSX, OpenAPI, legislation, ...): functions of
  one file's bytes that keep no state; what could go wrong in them is data that a
  bounded instance would not reach. `Inbox` has their failure.
- *Economic indexes*: an unconditional overwrite per point of a series by one
  writer; any order of any subset of its steps leaves what the definition says.
- *Agent roster and host install*: files generated and copied by one command,
  each from a template; no other part reads them.
- *Evaluation and search health*: offline metrics over search results.
- *Output, configuration, command wiring*: formatting and flags.
- *Cross-linking and tagging of official sources* (`crosslink.go`,
  `official.go`): functions of a snapshot that is one value in the models.
- *The database and git*: modelled by what the code relies on (a statement is
  atomic and durable, a range type rejects an inverted range, a unique index
  rejects a second row, a commit is a snapshot).
- *Text matching, embeddings and agents*: any ranking, one vector per text, any
  reply.
