-------------------------------- MODULE Links --------------------------------
(***************************************************************************)
(* `pixkb link --apply` (src/cmd/pixkb/link.go, src/internal/link): the       *)
(* bodies of the stored concepts are scanned once for citations of BACEN      *)
(* normatives, and for each that some concept embodies one 'cites' row is     *)
(* written to the table edge, while other link commands and the write path    *)
(* of another process go on.  ReplaceEdges, the last step of storing a        *)
(* concept's row, deletes all its outbound edges, citations included, and     *)
(* Truncate those of every concept.                                          *)
(*                                                                           *)
(* Concept ids are numbers in the order of the scan.  A body is the sequence  *)
(* of its mentions of instruments, in order; a mention is the instrument,     *)
(* type and number, with or without a year.  The                              *)
(* regular expressions that find them, the dry run and the 'link' rows are    *)
(* left out.                                                                 *)
(***************************************************************************)
EXTENDS Naturals, Sequences, FiniteSetsExt

CONSTANTS
  LinkIds,    \* concept ids
  Instruments, Years, NoYear,
  NormRef,    \* what each concept embodies: a mention, or NoRef
  NoRef, NoConcept,
  Texts,      \* bodies
  NoText,     \* there is no row for the concept
  Linkers,    \* processes that run the command
  ScanLimits, \* --limit: 0 is no limit
  MaxLinks, MaxStores  \* bounds of the model

Mentions == [instrument : Instruments, year : Years \cup {NoYear}]

ASSUME LinkAssumption ==
  /\ LinkIds \subseteq Nat /\ IsFiniteSet(LinkIds)
  /\ NoYear \notin Years
  /\ NoRef \notin Mentions
  /\ NormRef \in [LinkIds -> Mentions \cup {NoRef}]
  /\ \A text \in Texts : text \in Seq(Mentions)
  /\ NoText \notin Texts /\ NoConcept \notin LinkIds

VARIABLES
  body,      \* what the row of each concept holds
  cites,     \* how many 'cites' rows there are from one concept to another
  storing,   \* the concept the write path has in hand, or NoConcept
  linker,    \* what each command is doing
  linked     \* commands and stores so far

linksVars == <<body, cites, storing, linker, linked>>

----------------------------------------------------------------------------
(* The citations of a body.                                                  *)

\* ParseCitations: where each is first mentioned; a citation with its year and one
\* without are two.
ParseCitations(text) == {i \in DOMAIN text : \A j \in 1..(i - 1) : text[j] # text[i]}

\* Mutant: references are matched as they are spelled.
BaseRefSpelled(ref) == ref
BaseRef(ref) == ref.instrument

\* The rows there are, up to the limit; one that is not positive is none.
Scan(limit) ==
  LET rows == {c \in LinkIds : body[c] # NoText}
  IN  {c \in rows : limit > 0 => Cardinality({d \in rows : d < c}) < limit}

\* byNormRef: of two concepts with one base the later wins; NoConcept where none has it.
Owners(scan, base) == {c \in scan : NormRef[c] # NoRef /\ BaseRef(NormRef[c]) = base}
Target(scan, base) == IF Owners(scan, base) = {} THEN NoConcept ELSE Max(Owners(scan, base))

\* What is cited and not scanned is skipped, and so is a concept's own instrument.
ResolveEdges(scan, src) ==
  {[src |-> src, at |-> i, dst |-> Target(scan, BaseRef(body[src][i]))] : i \in
     {j \in ParseCitations(body[src]) : Target(scan, BaseRef(body[src][j])) \notin {NoConcept, src}}}

\* The edge to write next: by concept, then by mention.
First(edges) ==
  CHOOSE e \in edges : \A f \in edges : e.src < f.src \/ (e.src = f.src /\ e.at <= f.at)
Row(edge) == <<edge.src, edge.dst>>

----------------------------------------------------------------------------
(* The command.  In its record `scan` holds the concepts of the scan, and     *)
(* `alone` is history: the write path has not been at work since.             *)

IdleLinker == [pc |-> "idle", scan |-> {}, todo |-> {}, alone |-> FALSE]

LinksInit ==
  /\ body = [c \in LinkIds |-> NoText]
  /\ cites = [e \in LinkIds \X LinkIds |-> 0]
  /\ storing = NoConcept
  /\ linker = [l \in Linkers |-> IdleLinker]
  /\ linked = [commands |-> 0, stores |-> 0]

Link(l) ==
  /\ linker[l].pc \in {"idle", "done", "failed"} /\ linked.commands < MaxLinks
  /\ linked' = [linked EXCEPT !.commands = @ + 1]
  /\ \E limit \in ScanLimits :
       LET scan == Scan(limit)
       IN  linker' = [linker EXCEPT ![l] =
             [pc |-> "check", scan |-> scan, alone |-> storing = NoConcept,
              todo |-> UNION {ResolveEdges(scan, src) : src \in scan}]]
  /\ UNCHANGED <<body, cites, storing>>

\* The first edge of a command's todo is in the table.
Advanced(d) == [d EXCEPT !.pc = "check", !.todo = @ \ {First(@)}]

\* UpsertEdge is one statement in two steps: WHERE NOT EXISTS looks at the rows
\* committed when it starts.
CheckEdge(l) ==
  /\ linker[l].pc = "check" /\ linker[l].todo # {}
  /\ linker' = [linker EXCEPT ![l] =
       IF cites[Row(First(@.todo))] > 0 THEN Advanced(@) ELSE [@ EXCEPT !.pc = "insert"]]
  /\ UNCHANGED <<body, cites, storing, linked>>

\* Mutant: without the unique index of migration 0009.
InsertUnguarded(l) ==
  /\ linker[l].pc = "insert"
  /\ cites' = [cites EXCEPT ![Row(First(linker[l].todo))] = @ + 1]
  /\ linker' = [linker EXCEPT ![l] = Advanced(@)]
  /\ UNCHANGED <<body, storing, linked>>

\* A row that came in between violates the unique index, which ends the command.
InsertEdge(l) ==
  /\ linker[l].pc = "insert"
  /\ LET row == Row(First(linker[l].todo))
     IN  IF cites[row] > 0
         THEN linker' = [linker EXCEPT ![l].pc = "failed"] /\ UNCHANGED cites
         ELSE /\ cites' = [cites EXCEPT ![row] = 1]
              /\ linker' = [linker EXCEPT ![l] = Advanced(@)]
  /\ UNCHANGED <<body, storing, linked>>

Linked(l) ==
  /\ linker[l].pc = "check" /\ linker[l].todo = {}
  /\ linker' = [linker EXCEPT ![l].pc = "done"]
  /\ UNCHANGED <<body, cites, storing, linked>>

\* The database fails, or the process is killed; what was written stays.
LinkFails(l) ==
  /\ linker[l].pc \in {"check", "insert"}
  /\ linker' = [linker EXCEPT ![l].pc = "failed"]
  /\ UNCHANGED <<body, cites, storing, linked>>

----------------------------------------------------------------------------
(* The write path.                                                           *)

Met == linker' = [l \in Linkers |-> [linker[l] EXCEPT !.alone = FALSE]]
Without(srcs) == cites' = [e \in DOMAIN cites |-> IF e[1] \in srcs THEN 0 ELSE cites[e]]

\* applyConcept stores the row, then replaces the edges.
StoreConcept ==
  /\ storing = NoConcept /\ linked.stores < MaxStores
  /\ linked' = [linked EXCEPT !.stores = @ + 1]
  /\ \E c \in LinkIds, text \in Texts : /\ body' = [body EXCEPT ![c] = text]
                                        /\ storing' = c
  /\ Met /\ UNCHANGED cites

ReplaceEdges ==
  /\ storing # NoConcept
  /\ Without({storing}) /\ storing' = NoConcept
  /\ Met /\ UNCHANGED <<body, linked>>

\* The call fails between the two.
StoreFails ==
  /\ storing # NoConcept /\ storing' = NoConcept
  /\ Met /\ UNCHANGED <<body, cites, linked>>

\* The first step of Reindex.
Truncate ==
  /\ storing = NoConcept /\ linked.stores < MaxStores
  /\ linked' = [linked EXCEPT !.stores = @ + 1]
  /\ body' = [c \in LinkIds |-> NoText] /\ Without(LinkIds)
  /\ Met /\ UNCHANGED storing

LinksNext ==
  \/ \E l \in Linkers : Link(l) \/ CheckEdge(l) \/ InsertEdge(l) \/ Linked(l) \/ LinkFails(l)
  \/ StoreConcept \/ ReplaceEdges \/ StoreFails \/ Truncate

LinksSpec == LinksInit /\ [][LinksNext]_linksVars

----------------------------------------------------------------------------
(* What the command promises.                                                *)

\* newLinkCmd "materializes cites edges to the concept whose norm_ref matches
\* the citation": when the command has succeeded and the write path was not at work
\* since its scan, each mention of an instrument that scanned concepts embody,
\* its own aside, has exactly one row to one of them, with or without years on
\* either side, whatever an earlier command left behind and however other link
\* commands overlapped it (migration 0009: "concurrent `pixkb link` writers can never
\* duplicate a (src, dst) citation").
LinkedOnce ==
  \A l \in Linkers : linker[l].pc = "done" /\ linker[l].alone =>
    \A src \in linker[l].scan : \A i \in DOMAIN body[src] :
      LET owners == {c \in linker[l].scan :
                       NormRef[c] # NoRef /\ NormRef[c].instrument = body[src][i].instrument}
      IN  owners # {} /\ src \notin owners => \E dst \in owners : cites[<<src, dst>>] = 1
=============================================================================
