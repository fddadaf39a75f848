--------------------------------- MODULE Ask ---------------------------------
(***************************************************************************)
(* Questions answered while the knowledge base is being written: rag.Ask   *)
(* (internal/rag/adapters.go, rag.go, answer.go, cache.go) over the stores *)
(* of EpochRunner.  A request reads the epoch table, then the concept      *)
(* table, then one bundle file after another, with no snapshot across      *)
(* them, and only then looks into the answer cache its server shares.      *)
(*                                                                         *)
(* Every concept matches every question here, and the grounding's limits   *)
(* (top k, characters) hold all of them: what a search leaves out is a     *)
(* matter of ranking.  The type filter is kept, because it is a scope the  *)
(* caller chooses.                                                         *)
(***************************************************************************)
EXTENDS EpochRunner, Integers

CONSTANTS
  Askers,            \* requests in flight at once
  Questions,         \* normalized questions
  Types, TypeOf,     \* concept types, and the type of each concept
  Requests,          \* the requests callers make
  EpochPerRequest,   \* TRUE for the MCP server, which reads the latest epoch for
                     \* each question; FALSE for serve, which did when it started
  CacheSize,         \* capacity of the server's cache
  MaxAsks            \* bound: requests in a behaviour

AnyType == "any"   \* no type filter
MadeUp == "made up"   \* an id in the agent's reply that no concept has

AllRequests == [q : Questions, type : Types \cup {AnyType}, nopii : BOOLEAN, nocache : BOOLEAN]

ASSUME AskAssumption ==
  /\ TypeOf \in [Ids -> Types] /\ AnyType \notin Types
  /\ Requests # {} /\ Requests \subseteq AllRequests
  /\ EpochPerRequest \in BOOLEAN
  /\ CacheSize \in Nat \ {0} /\ MaxAsks \in Nat

CacheKeys == [epoch : Int, q : Questions, nopii : BOOLEAN]

\* A reply: the context the agent was given, the concepts it cites.  quiet is a
\* history variable: no call wrote while the context was read.
Replies == [from : SUBSET Concepts, cites : SUBSET Ids, refused : BOOLEAN,
            redacted : BOOLEAN, quiet : BOOLEAN]

VARIABLES
  ll, items,   \* the cache
  apc,         \* asker -> next step of its request
  ask,         \* asker -> the locals of its request
  asks,        \* the bound's counter
  seen         \* history: id -> texts its file had since the last epoch was allocated

Cache == INSTANCE LRUCache WITH Keys <- CacheKeys, Answers <- Replies, Capacity <- CacheSize

askVars == <<ll, items, apc, ask, asks>>

NoReply == [from |-> {}, cites |-> {}, refused |-> TRUE, redacted |-> TRUE, quiet |-> FALSE]

\* The value of a request's locals before it starts, and the type of them.
NoAsk == [req |-> CHOOSE r \in Requests : TRUE, epoch |-> -1, ids |-> {}, ground |-> {},
          ans |-> NoReply, hit |-> FALSE, quiet |-> FALSE]

Asks == [req : Requests, epoch : Int, ids : SUBSET Ids, ground : SUBSET Concepts,
         ans : Replies, hit : BOOLEAN, quiet : BOOLEAN]

Writing == \E p \in Procs : Busy(p)

AskGoto(a, from, to) == apc[a] = from /\ apc' = [apc EXCEPT ![a] = to]

-----------------------------------------------------------------------------
AskInit ==
  /\ Init /\ Cache!Init
  /\ apc = [a \in Askers |-> "idle"] /\ ask = [a \in Askers |-> NoAsk]
  /\ asks = 0 /\ seen = [i \in Ids |-> {bundle[i]}]

\* Stats: the highest epoch number, -1 when the table is empty.
LatestEpoch == Len(epoch) - 1

\* serve was started on an empty index.
RequestEpoch == IF EpochPerRequest THEN LatestEpoch ELSE -1

Request(a) ==
  /\ AskGoto(a, "idle", "retrieve")
  /\ asks < MaxAsks /\ asks' = asks + 1
  /\ \E r \in Requests :
       ask' = [ask EXCEPT ![a].req = r, ![a].epoch = RequestEpoch, ![a].quiet = ~Writing]
  /\ UNCHANGED <<ll, items>>

Matches(i, type) == concept[i] # Absent /\ type \in {AnyType, TypeOf[i]}

Retrieve(a) ==
  /\ AskGoto(a, "retrieve", "chunks")
  /\ ask' = [ask EXCEPT ![a].ids = {i \in Ids : Matches(i, ask[a].req.type)}]
  /\ UNCHANGED <<ll, items, asks>>

\* A file that is missing or cannot be parsed is left out.
ReadChunk(a) ==
  /\ apc[a] = "chunks"
  /\ \E i \in ask[a].ids :
       ask' = [ask EXCEPT ![a].ids = @ \ {i}, ![a].ground = @ \cup {c \in Files(bundle) : c.id = i}]
  /\ UNCHANGED <<ll, items, apc, asks>>

KeyWithoutEpoch(r, n) ==   \* mutant: the epoch is not part of the key
  [epoch |-> -1, q |-> r.q, nopii |-> r.nopii]

\* Of the options callers vary here, the filter's type is not in the key.
cacheKeyFor(r, n) == [epoch |-> n, q |-> r.q, nopii |-> r.nopii]

UsesCache(r) == ~r.nocache /\ ~r.nopii

Key(a) == cacheKeyFor(ask[a].req, ask[a].epoch)

Hit(a) ==
  /\ UsesCache(ask[a].req) /\ ask[a].ids = {} /\ Cache!Cached(Key(a))
  /\ AskGoto(a, "chunks", "reply")
  /\ Cache!Get(Key(a))
  /\ ask' = [ask EXCEPT ![a].ans = items[Key(a)], ![a].hit = TRUE]
  /\ UNCHANGED asks

MissLate(a) ==   \* mutant: the epoch is read again, after the context
  /\ UsesCache(ask[a].req) => ~Cache!Cached(Key(a))
  /\ ask[a].ids = {} /\ AskGoto(a, "chunks", "agent")
  /\ ask' = [ask EXCEPT ![a].epoch = LatestEpoch]
  /\ UNCHANGED <<ll, items, asks>>

Miss(a) ==
  /\ UsesCache(ask[a].req) => ~Cache!Cached(Key(a))
  /\ ask[a].ids = {} /\ AskGoto(a, "chunks", "agent")
  /\ UNCHANGED <<ll, items, ask, asks>>

ValidCitationsAll(cited, g) == cited   \* mutant: the ids the agent made up stay

validCitations(cited, g) == cited \cap IdsOf(g)

\* What Synthesize makes of a reply of the agent: it cites ids, refuses or not,
\* and its text may be blank.  Without context the agent is not asked.
Synthesized(g, cited, refused, blank) ==
  LET valid == validCitations(cited, g)
      empty == ~refused /\ valid # {} /\ blank
  IN [cites   |-> IF g = {} \/ empty THEN {} ELSE valid,
      refused |-> g = {} \/ refused \/ valid = {} \/ blank]

PutThenRedact(a, answer) ==   \* mutant: the answer is cached before it is redacted
  /\ IF UsesCache(ask[a].req)
       THEN Cache!Put(Key(a), answer)
       ELSE UNCHANGED <<ll, items>>
  /\ ask' = [ask EXCEPT ![a].ans = [answer EXCEPT !.redacted = ~ask[a].req.nopii]]

RedactThenPut(a, answer) ==
  LET redacted == [answer EXCEPT !.redacted = ~ask[a].req.nopii] IN
  /\ IF UsesCache(ask[a].req)
       THEN Cache!Put(Key(a), redacted)
       ELSE UNCHANGED <<ll, items>>
  /\ ask' = [ask EXCEPT ![a].ans = redacted]

Synthesize(a) ==
  /\ AskGoto(a, "agent", "reply")
  /\ \E cited \in SUBSET (Ids \cup {MadeUp}), refused \in BOOLEAN, blank \in BOOLEAN :
       LET s == Synthesized(ask[a].ground, cited, refused, blank) IN
       RedactThenPut(a, [from |-> ask[a].ground, cites |-> s.cites, refused |-> s.refused,
                         redacted |-> FALSE, quiet |-> ask[a].quiet])
  /\ UNCHANGED asks

\* The response goes out; or the search or the agent failed, and the error does.
Reply(a) ==
  /\ apc[a] \in {"retrieve", "agent", "reply"}
  /\ apc' = [apc EXCEPT ![a] = "idle"] /\ ask' = [ask EXCEPT ![a] = NoAsk]
  /\ UNCHANGED <<ll, items, asks>>

AskStep(a) ==
  Request(a) \/ Retrieve(a) \/ ReadChunk(a) \/ Hit(a) \/ Miss(a) \/ Synthesize(a) \/ Reply(a)

\* A step of the write path, with the history variables that follow it.
WriteStep ==
  /\ Next
  /\ seen' = [i \in Ids |-> (IF Len(epoch') > Len(epoch) THEN {} ELSE seen[i]) \cup {bundle'[i]}]
  /\ ask' = [a \in Askers |-> IF Writing' /\ apc[a] \in {"retrieve", "chunks"}
                                THEN [ask[a] EXCEPT !.quiet = FALSE] ELSE ask[a]]
  /\ UNCHANGED <<ll, items, apc, asks>>

AskNext == WriteStep \/ (\E a \in Askers : AskStep(a) /\ UNCHANGED <<vars, seen>>)

AskSpec == AskInit /\ [][AskNext]_<<vars, askVars, seen>>

-----------------------------------------------------------------------------
(* Correctness.                                                            *)

AskTypeOK ==
  /\ DOMAIN items \subseteq CacheKeys /\ \A k \in DOMAIN items : items[k] \in Replies
  /\ apc \in [Askers -> {"idle", "retrieve", "chunks", "agent", "reply"}]
  /\ ask \in [Askers -> Asks]

\* A cached answer stands for the one the agent would be asked for now: it was made
\* from the very context the request that hits it has just read, provided that no
\* call wrote while either context was read (cache.go:24, CacheKey's comment).
HitAnswersContext ==
  \A a \in Askers : ask[a].hit /\ ask[a].quiet /\ ask[a].ans.quiet =>
    ask[a].ans.from = ask[a].ground

\* However requests overlap calls, what is cached under the latest epoch was read
\* after that epoch was allocated: an answer never gets under a key newer than its
\* context (kbmcp/ask.go:70, Stats before BuildGrounding).
FreshSince ==
  \A k \in DOMAIN items : k.epoch = LatestEpoch =>
    \A c \in items[k].from : c.body \in seen[c.id]

\* Only a request that asked for the bypass ever gets a text with personal data in
\* it, whatever other requests left in the cache (adapters.go:171).
RedactedUnlessAsked ==
  \A a \in Askers : apc[a] = "reply" => ask[a].ans.redacted \/ ask[a].req.nopii

\* An answer that is not a refusal cites something, and only what the agent was
\* given to read, also when it comes from the cache (answer.go:33).
CitesItsContext ==
  \A a \in Askers : apc[a] = "reply" /\ ~ask[a].ans.refused =>
    ask[a].ans.cites # {} /\ ask[a].ans.cites \subseteq IdsOf(ask[a].ans.from)

=============================================================================
