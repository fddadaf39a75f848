----------------------------- MODULE Inbox_proofs -----------------------------
(***************************************************************************)
(* What the inbox promises for any clients, names and requests, however    *)
(* ingests, failures and kills interleave with them: no staged document is *)
(* lost (FileKept); a link is staged once where no two handlers look for it*)
(* at a time (StagedOnce); and an ingest that succeeded indexed what was left*)
(* alone meanwhile (IngestIndexes).  Each has an inductive invariant of its*)
(* own: Archiving, StagedInv and IndexInv.                                 *)
(***************************************************************************)
EXTENDS Inbox, FiniteSetTheorems, TLAPS

WriterRecord == [pc : {"idle", "copy", "findTop", "findArchived", "fetch"},
                 url : Urls \cup {None}, body : Contents, at : Places \cup {Unlinked}]
WriterSet == {r \in WriterRecord : r.pc \in {"findTop", "findArchived", "fetch"} => r.url \in Urls}
IngestSet == [pc : {"idle", "lock", "walk", "read", "readdir", "archive", "rename", "unlock"},
              todo : SUBSET Places, got : SUBSET (Places \X (Contents \cup {None, Gone})),
              moving : Names \cup {None}, ok : BOOLEAN, stable : SUBSET Names]

InboxTypeOK ==
  /\ top \in [Names -> Contents \cup {None}] /\ arch \in [Names -> Contents \cup {None}]
  /\ writer \in [Writers -> WriterSet]
  /\ ingest \in [Ingests -> IngestSet]
  /\ kept \subseteq Names

\* Only "Ingest now" archives, and what it still has to archive is staged; a DELETE
\* that came first has also taken the name out of `kept`.
Archiving ==
  \A i \in Ingests :
    /\ ingest[i].pc \in {"readdir", "archive", "rename"} => i = "handler"
    /\ ingest[i].pc \in {"archive", "rename"} =>
         \A p \in ingest[i].todo : p[1] = "top" /\ (p[2] \in kept => top[p[2]] # None)
    /\ ingest[i].pc = "rename" =>
         LET n == ingest[i].moving
         IN  n \in Names /\ <<"top", n>> \notin ingest[i].todo /\ (n \in kept => top[n] # None)

KeptInv == InboxTypeOK /\ Archiving /\ FileKept
-----------------------------------------------------------------------------
\* Init: nothing is staged, nothing is being archived.
LEMMA KeptInitially == Init => KeptInv
<1> SUFFICES ASSUME Init PROVE KeptInv OBVIOUS
<1>1. IdleWriter \in WriterSet BY DEF IdleWriter, WriterSet, WriterRecord, Contents
<1>2. IdleIngest \in IngestSet BY DEF IdleIngest, IngestSet
<1>3. InboxTypeOK BY <1>1, <1>2 DEF Init, InboxTypeOK
<1>4. \A i \in Ingests : ingest[i].pc = "idle" BY DEF Init, IdleIngest
<1>5. Archiving BY <1>4 DEF Archiving
<1>6. FileKept BY DEF Init, FileKept
<1> QED BY <1>3, <1>5, <1>6 DEF KeptInv

\* What is being archived stays archivable as long as no name loses its staged file
\* and stays in `kept`.
LEMMA ArchivingKept ==
  ASSUME KeptInv,
         \A i \in Ingests : ingest'[i].pc \in {"readdir", "archive", "rename"} =>
           /\ ingest'[i].pc = ingest[i].pc /\ ingest'[i].todo = ingest[i].todo
           /\ ingest'[i].moving = ingest[i].moving,
         \A n \in Names : (n \in kept => top[n] # None) => (n \in kept' => top'[n] # None)
  PROVE  Archiving'
<1> SUFFICES ASSUME NEW i \in Ingests, ingest'[i].pc \in {"readdir", "archive", "rename"}
             PROVE  /\ i = "handler"
                    /\ ingest'[i].pc \in {"archive", "rename"} =>
                         \A p \in ingest'[i].todo : p[1] = "top" /\ (p[2] \in kept' => top'[p[2]] # None)
                    /\ ingest'[i].pc = "rename" =>
                         LET n == ingest'[i].moving
                         IN  n \in Names /\ <<"top", n>> \notin ingest'[i].todo /\ (n \in kept' => top'[n] # None)
  BY DEF Archiving
<1>1. /\ ingest'[i].pc = ingest[i].pc /\ ingest'[i].todo = ingest[i].todo
      /\ ingest'[i].moving = ingest[i].moving
  OBVIOUS
<1>2. ingest[i].todo \subseteq Places BY DEF KeptInv, InboxTypeOK, IngestSet
<1>3. \A p \in Places : p[2] \in Names BY DEF Places
<1> QED BY <1>1, <1>2, <1>3 DEF KeptInv, Archiving

\* A rename moves the open files along, an unlink closes them.
LEMMA FollowTyped ==
  ASSUME InboxTypeOK, NEW from, NEW to \in Places \cup {Unlinked}, Follow(from, to)
  PROVE  writer' \in [Writers -> WriterSet]
<1>1. ASSUME NEW w \in Writers PROVE [writer[w] EXCEPT !.at = to] \in WriterSet
  BY DEF InboxTypeOK, WriterSet, WriterRecord
<1> QED BY <1>1 DEF InboxTypeOK, Follow

\* Bookkeeping of what the ingests found untouched changes nothing else.
LEMMA TouchedKeeps ==
  ASSUME InboxTypeOK, NEW n, Touched(n)
  PROVE  /\ ingest' \in [Ingests -> IngestSet]
         /\ \A i \in Ingests : /\ ingest'[i].pc = ingest[i].pc /\ ingest'[i].todo = ingest[i].todo
                               /\ ingest'[i].moving = ingest[i].moving
<1>1. ASSUME NEW i \in Ingests, NEW s \in SUBSET Names
      PROVE  LET g == [ingest[i] EXCEPT !.stable = s]
             IN  /\ g \in IngestSet
                 /\ g.pc = ingest[i].pc /\ g.todo = ingest[i].todo /\ g.moving = ingest[i].moving
  BY DEF InboxTypeOK, IngestSet
<1>2. \A i \in Ingests : ingest[i].stable \ {n} \in SUBSET Names BY DEF InboxTypeOK, IngestSet
<1>3. \A i \in Ingests : ingest'[i] = [ingest[i] EXCEPT !.stable = ingest[i].stable \ {n}] BY DEF Touched
<1>4. ASSUME NEW i \in Ingests
      PROVE  /\ ingest'[i] \in IngestSet /\ ingest'[i].pc = ingest[i].pc
             /\ ingest'[i].todo = ingest[i].todo /\ ingest'[i].moving = ingest[i].moving
  <2>1. ingest[i].stable \ {n} \in SUBSET Names BY <1>2
  <2>2. ingest'[i] = [ingest[i] EXCEPT !.stable = ingest[i].stable \ {n}] BY <1>3
  <2> QED BY <1>1, <2>1, <2>2
<1>5. ingest' = [i \in Ingests |-> ingest'[i]] BY DEF Touched
<1> QED BY <1>4, <1>5
-----------------------------------------------------------------------------
\* handleUpload, handleURL: a file is created, and is not yet a document.
LEMMA CreateKeeps ==
  ASSUME KeptInv, NEW w \in Writers, NEW n \in Names, NEW b \in Contents, Create(w, n, b)
  PROVE  KeptInv'
<1>0. InboxTypeOK BY DEF KeptInv
<1>1. top' = [top EXCEPT ![n] = Empty] /\ kept' = kept \ {n} /\ UNCHANGED arch BY DEF Create
<1>2. top' \in [Names -> Contents \cup {None}] BY <1>0, <1>1 DEF InboxTypeOK, Contents
<1>3. writer' \in [Writers -> WriterSet]
  <2>1. <<"top", n>> \in Places BY DEF Places
  <2>2. [writer[w] EXCEPT !.pc = "copy", !.url = None, !.body = b, !.at = <<"top", n>>] \in WriterSet
    BY <1>0, <2>1 DEF InboxTypeOK, WriterSet, WriterRecord
  <2> QED BY <1>0, <2>2 DEF Create, InboxTypeOK
<1>4. /\ ingest' \in [Ingests -> IngestSet]
      /\ \A i \in Ingests : /\ ingest'[i].pc = ingest[i].pc /\ ingest'[i].todo = ingest[i].todo
                            /\ ingest'[i].moving = ingest[i].moving
  BY <1>0, TouchedKeeps DEF Create
<1>5. InboxTypeOK' BY <1>0, <1>1, <1>2, <1>3, <1>4 DEF InboxTypeOK
<1>6. \A m \in Names : m \in kept' => m \in kept /\ top'[m] = top[m] BY <1>0, <1>1 DEF InboxTypeOK
<1>7. Archiving' BY <1>4, <1>6, ArchivingKept
<1>8. FileKept' BY <1>0, <1>1, <1>6 DEF KeptInv, FileKept, Where, InboxTypeOK
<1> QED BY <1>5, <1>7, <1>8 DEF KeptInv

\* io.Copy: the file is complete where it is by now, and a document if it is staged.
LEMMA CopyKeeps ==
  ASSUME KeptInv, NEW w \in Writers, Copy(w)
  PROVE  KeptInv'
<1> DEFINE p == writer[w].at
           body == writer[w].body
<1>0. InboxTypeOK BY DEF KeptInv
<1>1. p \in Places \cup {Unlinked} /\ body \in Contents /\ body # None
  BY <1>0, InboxAssumption DEF InboxTypeOK, WriterSet, WriterRecord
<1>2. Unlinked[1] = "unlinked" BY DEF Unlinked
<1>3. p \in Places => p[1] \in {"top", "arch"} /\ p[2] \in Names BY DEF Places
<1>4. p[1] \in {"top", "arch"} => p[2] \in Names BY <1>1, <1>2, <1>3
<1>5. /\ top' = (IF p[1] = "top" THEN [top EXCEPT ![p[2]] = body] ELSE top)
      /\ arch' = (IF p[1] = "arch" THEN [arch EXCEPT ![p[2]] = body] ELSE arch)
      /\ kept' = (IF p[1] = "top" THEN kept \cup {p[2]} ELSE kept)
      /\ writer' = [writer EXCEPT ![w] = IdleWriter] /\ UNCHANGED ingest
  BY DEF Copy
<1> HIDE DEF p, body
<1>6. InboxTypeOK'
  <2>1. IdleWriter \in WriterSet BY DEF IdleWriter, WriterSet, WriterRecord, Contents
  <2>2. writer' \in [Writers -> WriterSet] BY <1>0, <1>5, <2>1 DEF InboxTypeOK
  <2>3. top' \in [Names -> Contents \cup {None}] BY <1>0, <1>1, <1>5 DEF InboxTypeOK
  <2>4. arch' \in [Names -> Contents \cup {None}] BY <1>0, <1>1, <1>5 DEF InboxTypeOK
  <2>5. kept' \subseteq Names BY <1>0, <1>4, <1>5 DEF InboxTypeOK
  <2> QED BY <1>0, <1>5, <2>2, <2>3, <2>4, <2>5 DEF InboxTypeOK
<1>7. \A n \in Names : /\ top[n] # None => top'[n] # None
                       /\ arch[n] # None => arch'[n] # None
                       /\ n \in kept' => n \in kept \/ top'[n] # None
  <2>1. ASSUME p[1] = "top", NEW n \in Names
        PROVE  top'[n] = (IF n = p[2] THEN body ELSE top[n])
    BY <1>0, <1>5, <2>1 DEF InboxTypeOK
  <2>2. ASSUME p[1] = "arch", NEW n \in Names
        PROVE  arch'[n] = (IF n = p[2] THEN body ELSE arch[n])
    BY <1>0, <1>5, <2>2 DEF InboxTypeOK
  <2> QED BY <1>1, <1>5, <2>1, <2>2
<1>8. Archiving' BY <1>5, <1>7, ArchivingKept
<1>9. FileKept'
  <2>1. kept' \subseteq Names BY <1>6 DEF InboxTypeOK
  <2> QED BY <1>7, <2>1 DEF KeptInv, FileKept, Where
<1> QED BY <1>6, <1>8, <1>9 DEF KeptInv

\* handleDelete: the client takes the document back.
LEMMA DeleteKeeps == ASSUME KeptInv, Delete PROVE KeptInv'
<1>0. InboxTypeOK BY DEF KeptInv
<1>1. PICK n \in Names : /\ top' = [top EXCEPT ![n] = None] /\ kept' = kept \ {n} /\ UNCHANGED arch
                         /\ Follow(<<"top", n>>, Unlinked) /\ Touched(n)
  BY DEF Delete
<1>2. writer' \in [Writers -> WriterSet] BY <1>0, <1>1, FollowTyped
<1>3. /\ ingest' \in [Ingests -> IngestSet]
      /\ \A i \in Ingests : /\ ingest'[i].pc = ingest[i].pc /\ ingest'[i].todo = ingest[i].todo
                            /\ ingest'[i].moving = ingest[i].moving
  BY <1>0, <1>1, TouchedKeeps
<1>4. InboxTypeOK' BY <1>0, <1>1, <1>2, <1>3 DEF InboxTypeOK
<1>5. \A m \in Names : m \in kept' => m \in kept /\ top'[m] = top[m] BY <1>0, <1>1 DEF InboxTypeOK
<1>6. Archiving' BY <1>3, <1>5, ArchivingKept
<1>7. FileKept' BY <1>0, <1>1, <1>5 DEF KeptInv, FileKept, Where, InboxTypeOK
<1> QED BY <1>4, <1>6, <1>7 DEF KeptInv

\* AddURL and the two halves of findByHash change the handler's locals only.
LEMMA LookupKeeps ==
  ASSUME KeptInv, NEW w \in Writers, AddURL(w) \/ FindTop(w) \/ FindArchived(w)
  PROVE  KeptInv'
<1>0. InboxTypeOK BY DEF KeptInv
<1>1. UNCHANGED <<top, arch, ingest, kept>> BY DEF AddURL, FindTop, FindArchived, files
<1>2. IdleWriter \in WriterSet BY DEF IdleWriter, WriterSet, WriterRecord, Contents
<1>3. PICK new \in WriterSet : writer' = [writer EXCEPT ![w] = new]
  <2>1. ASSUME AddURL(w) PROVE \E new \in WriterSet : writer' = [writer EXCEPT ![w] = new]
    <3>1. PICK u \in Urls : writer' = [writer EXCEPT ![w] = [writer[w] EXCEPT !.pc = "findTop", !.url = u]]
      BY <2>1 DEF AddURL
    <3>2. [writer[w] EXCEPT !.pc = "findTop", !.url = u] \in WriterSet BY <1>0 DEF InboxTypeOK, WriterSet, WriterRecord
    <3> QED BY <3>1, <3>2
  <2>2. ASSUME NEW pc \in {"findArchived", "fetch"}, writer[w].pc \in {"findTop", "findArchived"}
        PROVE  [writer[w] EXCEPT !.pc = pc] \in WriterSet
    BY <1>0, <2>2 DEF InboxTypeOK, WriterSet, WriterRecord
  <2>4. ASSUME FindTop(w) PROVE \E new \in WriterSet : writer' = [writer EXCEPT ![w] = new]
    <3>1. \/ writer' = [writer EXCEPT ![w] = IdleWriter]
          \/ writer' = [writer EXCEPT ![w] = [writer[w] EXCEPT !.pc = "findArchived"]]
      BY <2>4 DEF FindTop
    <3>2. writer[w].pc = "findTop" BY <2>4 DEF FindTop
    <3> QED BY <1>2, <2>2, <3>1, <3>2
  <2>5. ASSUME FindArchived(w) PROVE \E new \in WriterSet : writer' = [writer EXCEPT ![w] = new]
    <3>1. \/ writer' = [writer EXCEPT ![w] = IdleWriter]
          \/ writer' = [writer EXCEPT ![w] = [writer[w] EXCEPT !.pc = "fetch"]]
      BY <2>5 DEF FindArchived
    <3>2. writer[w].pc = "findArchived" BY <2>5 DEF FindArchived
    <3> QED BY <1>2, <2>2, <3>1, <3>2
  <2> QED BY <2>1, <2>4, <2>5
<1>4. InboxTypeOK' BY <1>0, <1>1, <1>3 DEF InboxTypeOK
<1>5. Archiving' BY <1>1, ArchivingKept
<1>6. FileKept' BY <1>1 DEF KeptInv, FileKept, Where
<1> QED BY <1>4, <1>5, <1>6 DEF KeptInv
-----------------------------------------------------------------------------
\* A step of one ingest that leaves the files alone: it may only list for archiving
\* what is staged.
LEMMA IngestMoves ==
  ASSUME KeptInv, NEW i \in Ingests, NEW r \in IngestSet,
         ingest' = [ingest EXCEPT ![i] = r], UNCHANGED <<top, arch, writer, kept>>,
         r.pc \in {"readdir", "archive"} => i = "handler",
         r.pc = "archive" => \A p \in r.todo : p[1] = "top" /\ (p[2] \in kept => top[p[2]] # None),
         r.pc # "rename"
  PROVE  KeptInv'
<1>0. InboxTypeOK BY DEF KeptInv
<1>1. InboxTypeOK' BY <1>0 DEF InboxTypeOK
<1>2. \A j \in Ingests : ingest'[j] = (IF j = i THEN r ELSE ingest[j]) BY <1>0 DEF InboxTypeOK
<1>3. Archiving'
  <2> SUFFICES ASSUME NEW j \in Ingests, ingest'[j].pc \in {"readdir", "archive", "rename"}
               PROVE  /\ j = "handler"
                      /\ ingest'[j].pc \in {"archive", "rename"} =>
                           \A p \in ingest'[j].todo : p[1] = "top" /\ (p[2] \in kept' => top'[p[2]] # None)
                      /\ ingest'[j].pc = "rename" =>
                           LET n == ingest'[j].moving
                           IN  n \in Names /\ <<"top", n>> \notin ingest'[j].todo /\ (n \in kept' => top'[n] # None)
    BY DEF Archiving
  <2>1. CASE j = i BY <1>2, <2>1
  <2>2. CASE j # i
    <3>1. ingest'[j] = ingest[j] BY <1>2, <2>2
    <3> QED BY <3>1 DEF KeptInv, Archiving
  <2> QED BY <2>1, <2>2
<1>4. FileKept' BY DEF KeptInv, FileKept, Where
<1> QED BY <1>1, <1>3, <1>4 DEF KeptInv

\* Ingest i goes on to a step before archiving, or starts to archive.
MovesBeforeArchiving(i) ==
  \E r \in IngestSet : /\ ingest' = [ingest EXCEPT ![i] = r]
                       /\ r.pc \in {"lock", "walk", "read", "readdir", "unlock"}
                       /\ r.pc = "readdir" => i = "handler"

\* Start, Lock, and the gather of an ingest, whether it fails or stores what it read.
LEMMA GatherMoves ==
  ASSUME InboxTypeOK, NEW i \in Ingests,
         Start(i) \/ Lock(i) \/ Walk(i) \/ Read(i) \/ DuplicateId(i) \/ Run(i) \/ IngestFails(i)
  PROVE  MovesBeforeArchiving(i) /\ UNCHANGED <<top, arch, writer, kept>>
<1>0. InboxTypeOK /\ ingest[i] \in IngestSet BY DEF InboxTypeOK
<1>1. UNCHANGED <<top, arch, writer, kept>>
  BY DEF Start, Lock, Enter, Walk, Read, DuplicateId, Run, IngestFails, files
<1>2. ASSUME NEW pc \in {"lock", "unlock"} PROVE [ingest[i] EXCEPT !.pc = pc] \in IngestSet
  BY <1>0 DEF IngestSet
<1>3. ASSUME Start(i) \/ DuplicateId(i) \/ IngestFails(i) PROVE MovesBeforeArchiving(i)
  <2>1. PICK pc \in {"lock", "unlock"} : ingest' = [ingest EXCEPT ![i] = [ingest[i] EXCEPT !.pc = pc]]
    BY <1>3 DEF Start, DuplicateId, IngestFails, Goto
  <2>2. [ingest[i] EXCEPT !.pc = pc].pc = pc BY <1>0 DEF IngestSet
  <2> QED BY <1>2, <2>1, <2>2 DEF MovesBeforeArchiving
<1>4. ASSUME Lock(i) PROVE MovesBeforeArchiving(i)
  <2>1. PICK s \in SUBSET Names : ingest' = [ingest EXCEPT ![i] = [ingest[i] EXCEPT !.pc = "walk", !.stable = s]]
    BY <1>4 DEF Lock, Enter
  <2>2. [ingest[i] EXCEPT !.pc = "walk", !.stable = s] \in IngestSet BY <1>0 DEF IngestSet
  <2>3. [ingest[i] EXCEPT !.pc = "walk", !.stable = s].pc = "walk" BY <1>0 DEF IngestSet
  <2> QED BY <2>1, <2>2, <2>3 DEF MovesBeforeArchiving
<1>5. ASSUME Walk(i) PROVE MovesBeforeArchiving(i)
  <2>1. PICK t \in SUBSET Places :
          ingest' = [ingest EXCEPT ![i] = [ingest[i] EXCEPT !.pc = "read", !.got = {}, !.todo = t]]
    BY <1>5 DEF Walk, collectInboxFiles
  <2>2. [ingest[i] EXCEPT !.pc = "read", !.got = {}, !.todo = t] \in IngestSet BY <1>0 DEF IngestSet
  <2>3. [ingest[i] EXCEPT !.pc = "read", !.got = {}, !.todo = t].pc = "read" BY <1>0 DEF IngestSet
  <2> QED BY <2>1, <2>2, <2>3 DEF MovesBeforeArchiving
<1>6. ASSUME Read(i) PROVE MovesBeforeArchiving(i)
  <2>1. PICK p \in ingest[i].todo :
          ingest' = [ingest EXCEPT ![i] = IF Fails(p) THEN [ingest[i] EXCEPT !.pc = "unlock"] ELSE Taken(i, p)]
    BY <1>6 DEF Read
  <2>2. ingest[i].pc = "read" BY <1>6 DEF Read, At
  <2>3. ingest[i].todo \subseteq Places /\ ingest[i].got \subseteq Places \X (Contents \cup {None, Gone})
    BY <1>0 DEF IngestSet
  <2>4. File(p) \in Contents \cup {None} BY <1>0, <2>3 DEF InboxTypeOK, File, Places
  <2> DEFINE t == ingest[i].todo \ {p}
             g == ingest[i].got \cup {<<p, IF File(p) = None THEN Gone ELSE File(p)>>}
  <2>5. t \in SUBSET Places /\ g \in SUBSET (Places \X (Contents \cup {None, Gone})) BY <2>3, <2>4
  <2>6. Taken(i, p) = [ingest[i] EXCEPT !.todo = t, !.got = g] BY <1>0 DEF Taken, IngestSet
  <2> HIDE DEF t, g
  <2>7. Taken(i, p) \in IngestSet /\ Taken(i, p).pc = "read" BY <1>0, <2>2, <2>5, <2>6 DEF IngestSet
  <2>8. [ingest[i] EXCEPT !.pc = "unlock"].pc = "unlock" BY <1>0 DEF IngestSet
  <2> QED BY <1>2, <2>1, <2>7, <2>8 DEF MovesBeforeArchiving
<1>7. ASSUME Run(i) PROVE MovesBeforeArchiving(i)
  <2> DEFINE pc == IF i = "handler" THEN "readdir" ELSE "unlock"
  <2>1. ingest' = [ingest EXCEPT ![i] = [ingest[i] EXCEPT !.ok = TRUE, !.pc = pc]] BY <1>7 DEF Run
  <2>2. pc \in {"readdir", "unlock"} /\ (pc = "readdir" => i = "handler") OBVIOUS
  <2> HIDE DEF pc
  <2>3. [ingest[i] EXCEPT !.ok = TRUE, !.pc = pc] \in IngestSet BY <1>0, <2>2 DEF IngestSet
  <2>4. [ingest[i] EXCEPT !.ok = TRUE, !.pc = pc].pc = pc BY <1>0 DEF IngestSet
  <2> QED BY <2>1, <2>2, <2>3, <2>4 DEF MovesBeforeArchiving
<1> QED BY <1>1, <1>3, <1>4, <1>5, <1>6, <1>7

LEMMA GatherKeeps ==
  ASSUME KeptInv, NEW i \in Ingests,
         Start(i) \/ Lock(i) \/ Walk(i) \/ Read(i) \/ DuplicateId(i) \/ Run(i) \/ IngestFails(i)
  PROVE  KeptInv'
<1>1. UNCHANGED <<top, arch, writer, kept>> BY GatherMoves DEF KeptInv
<1>2. PICK r \in IngestSet : /\ ingest' = [ingest EXCEPT ![i] = r]
                             /\ r.pc \in {"lock", "walk", "read", "readdir", "unlock"}
                             /\ r.pc = "readdir" => i = "handler"
  BY GatherMoves DEF KeptInv, MovesBeforeArchiving
<1>3. (r.pc \in {"readdir", "archive"} => i = "handler") /\ r.pc # "archive" /\ r.pc # "rename"
  BY <1>2
<1> QED BY <1>1, <1>2, <1>3, IngestMoves

\* archiveInbox lists what is staged.
LEMMA ListKeeps ==
  ASSUME KeptInv, NEW i \in Ingests, ReadDir(i) \/ Archived(i)
  PROVE  KeptInv'
<1>0. InboxTypeOK /\ Archiving /\ ingest[i] \in IngestSet BY DEF KeptInv, InboxTypeOK
<1>1. UNCHANGED <<top, arch, writer, kept>> BY DEF ReadDir, Archived, files
<1>2. CASE ReadDir(i)
  <2> DEFINE staged == {p \in Places : p[1] = "top" /\ File(p) # None}
             r == [ingest[i] EXCEPT !.pc = "archive", !.todo = staged]
  <2>1. ingest' = [ingest EXCEPT ![i] = r] BY <1>2 DEF ReadDir
  <2>2. i = "handler" BY <1>0, <1>2 DEF ReadDir, At, Archiving
  <2>3. \A p \in staged : p[1] = "top" /\ top[p[2]] # None BY DEF File
  <2>4. staged \in SUBSET Places OBVIOUS
  <2> HIDE DEF staged
  <2>5. r \in IngestSet /\ r.pc = "archive" /\ r.todo = staged BY <1>0, <2>4 DEF IngestSet
  <2> HIDE DEF r
  <2> QED BY <1>1, <2>1, <2>2, <2>3, <2>5, IngestMoves
<1>3. CASE Archived(i)
  <2> DEFINE r == [ingest[i] EXCEPT !.pc = "unlock"]
  <2>1. ingest' = [ingest EXCEPT ![i] = r] BY <1>3 DEF Archived, Goto
  <2>2. r \in IngestSet /\ r.pc = "unlock" BY <1>0 DEF IngestSet
  <2> HIDE DEF r
  <2> QED BY <1>1, <2>1, <2>2, IngestMoves
<1> QED BY <1>2, <1>3

\* os.Remove of a prior archived copy: the staged one, which a name in `kept` has,
\* is what the rename that follows moves.
LEMMA RemoveOldKeeps ==
  ASSUME KeptInv, NEW i \in Ingests, RemoveOld(i)
  PROVE  KeptInv'
<1>0. InboxTypeOK /\ Archiving /\ ingest[i] \in IngestSet BY DEF KeptInv, InboxTypeOK
<1>1. PICK p \in ingest[i].todo :
        /\ arch' = [arch EXCEPT ![p[2]] = None]
        /\ Follow(<<"arch", p[2]>>, Unlinked)
        /\ ingest' = [ingest EXCEPT ![i] = Moving(i, p)]
  BY DEF RemoveOld
<1>2. ingest[i].pc = "archive" /\ UNCHANGED <<top, kept>> BY DEF RemoveOld, At
<1>3. i = "handler" /\ \A q \in ingest[i].todo : q[1] = "top" /\ (q[2] \in kept => top[q[2]] # None)
  BY <1>0, <1>2 DEF Archiving
<1>4. p \in Places /\ ingest[i].todo \subseteq Places BY <1>0, <1>1 DEF IngestSet
<1>5. p[2] \in Names /\ <<"top", p[2]>> = p BY <1>3, <1>4 DEF Places
<1> DEFINE t == ingest[i].todo \ {p}
           n == p[2]
           r == [ingest[i] EXCEPT !.pc = "rename", !.todo = t, !.moving = n]
<1>6. /\ t \in SUBSET Places /\ n \in Names /\ <<"top", n>> \notin t
      /\ \A q \in t : q[1] = "top" /\ (q[2] \in kept => top[q[2]] # None)
      /\ n \in kept => top[n] # None
  BY <1>3, <1>4, <1>5
<1>7. ingest' = [ingest EXCEPT ![i] = r] /\ arch' = [arch EXCEPT ![n] = None]
  <2>1. Moving(i, p) = r BY <1>0 DEF Moving, IngestSet
  <2> QED BY <1>1, <2>1
<1>8. writer' \in [Writers -> WriterSet] BY <1>0, <1>1, FollowTyped
<1> HIDE DEF t, n
<1>9. r \in IngestSet /\ r.pc = "rename" /\ r.todo = t /\ r.moving = n
  BY <1>0, <1>6 DEF IngestSet
<1> HIDE DEF r
<1>10. InboxTypeOK'
  <2>1. ingest' \in [Ingests -> IngestSet] BY <1>0, <1>7, <1>9 DEF InboxTypeOK
  <2>2. arch' \in [Names -> Contents \cup {None}] BY <1>0, <1>7 DEF InboxTypeOK
  <2> QED BY <1>0, <1>2, <1>8, <2>1, <2>2 DEF InboxTypeOK
<1>11. Archiving'
  <2> SUFFICES ASSUME NEW j \in Ingests, ingest'[j].pc \in {"readdir", "archive", "rename"}
               PROVE  /\ j = "handler"
                      /\ ingest'[j].pc \in {"archive", "rename"} =>
                           \A q \in ingest'[j].todo : q[1] = "top" /\ (q[2] \in kept => top[q[2]] # None)
                      /\ ingest'[j].pc = "rename" =>
                           LET m == ingest'[j].moving
                           IN  m \in Names /\ <<"top", m>> \notin ingest'[j].todo /\ (m \in kept => top[m] # None)
    BY <1>2 DEF Archiving
  <2>1. ingest'[j] = (IF j = i THEN r ELSE ingest[j]) BY <1>0, <1>7 DEF InboxTypeOK
  <2>2. CASE j = i BY <1>3, <1>6, <1>9, <2>1, <2>2
  <2>3. CASE j # i
    <3>1. ingest'[j] = ingest[j] BY <2>1, <2>3
    <3> QED BY <1>0, <3>1 DEF Archiving
  <2> QED BY <2>2, <2>3
<1>12. FileKept'
  <2> SUFFICES ASSUME NEW m \in kept PROVE (IF top[m] # None THEN top[m] ELSE arch'[m]) # None
    BY <1>2 DEF FileKept, Where
  <2>1. m \in Names /\ (top[m] # None \/ arch[m] # None)
    BY <1>0 DEF KeptInv, FileKept, Where, InboxTypeOK
  <2>2. CASE m = n BY <1>6, <2>2
  <2>3. CASE m # n BY <1>0, <1>7, <2>1, <2>3 DEF InboxTypeOK
  <2> QED BY <2>2, <2>3
<1> QED BY <1>10, <1>11, <1>12 DEF KeptInv

\* os.Rename: the staged file of a kept name is there, and becomes the archived one.
LEMMA RenameKeeps ==
  ASSUME KeptInv, NEW i \in Ingests, Rename(i)
  PROVE  KeptInv'
<1>0. InboxTypeOK /\ Archiving /\ ingest[i] \in IngestSet BY DEF KeptInv, InboxTypeOK
<1> DEFINE n == ingest[i].moving
           pc == IF top[n] = None THEN "unlock" ELSE "archive"
           r == [ingest[i] EXCEPT !.pc = pc]
<1>1. /\ ingest[i].pc = "rename" /\ UNCHANGED kept
      /\ arch' = [arch EXCEPT ![n] = top[n]] /\ top' = [top EXCEPT ![n] = None]
      /\ Follow(<<"top", n>>, <<"arch", n>>)
      /\ ingest' = [ingest EXCEPT ![i] = r]
  BY DEF Rename, At, Goto
<1>2. /\ i = "handler" /\ n \in Names /\ <<"top", n>> \notin ingest[i].todo
      /\ n \in kept => top[n] # None
      /\ \A q \in ingest[i].todo : q[1] = "top" /\ (q[2] \in kept => top[q[2]] # None)
  BY <1>0, <1>1 DEF Archiving
<1>3. <<"arch", n>> \in Places BY <1>2 DEF Places
<1>4. writer' \in [Writers -> WriterSet] BY <1>0, <1>1, <1>3, FollowTyped
<1>5. pc \in {"unlock", "archive"} OBVIOUS
<1> HIDE DEF pc
<1>6. r \in IngestSet /\ r.pc = pc /\ r.todo = ingest[i].todo BY <1>0, <1>5 DEF IngestSet
<1> HIDE DEF r, n
<1>7. top[n] \in Contents \cup {None} BY <1>0, <1>2 DEF InboxTypeOK
<1>8. InboxTypeOK'
  <2>1. ingest' \in [Ingests -> IngestSet] BY <1>0, <1>1, <1>6 DEF InboxTypeOK
  <2>2. arch' \in [Names -> Contents \cup {None}] BY <1>0, <1>1, <1>7 DEF InboxTypeOK
  <2>3. top' \in [Names -> Contents \cup {None}] BY <1>0, <1>1 DEF InboxTypeOK
  <2> QED BY <1>0, <1>1, <1>4, <2>1, <2>2, <2>3 DEF InboxTypeOK
<1>9. \A m \in Names : m # n => top'[m] = top[m] /\ arch'[m] = arch[m] BY <1>0, <1>1 DEF InboxTypeOK
<1>10. \A q \in ingest[i].todo : q[2] \in Names /\ q[2] # n
  <2> SUFFICES ASSUME NEW q \in ingest[i].todo PROVE q[2] \in Names /\ q[2] # n OBVIOUS
  <2>1. q \in Places /\ q[1] = "top" BY <1>0, <1>2 DEF IngestSet
  <2>2. q[2] \in Names /\ q = <<"top", q[2]>> BY <2>1 DEF Places
  <2> QED BY <1>2, <2>2
<1>11. Archiving'
  <2> SUFFICES ASSUME NEW j \in Ingests, ingest'[j].pc \in {"readdir", "archive", "rename"}
               PROVE  /\ j = "handler"
                      /\ ingest'[j].pc \in {"archive", "rename"} =>
                           \A q \in ingest'[j].todo : q[1] = "top" /\ (q[2] \in kept => top'[q[2]] # None)
                      /\ ingest'[j].pc = "rename" =>
                           LET m == ingest'[j].moving
                           IN  m \in Names /\ <<"top", m>> \notin ingest'[j].todo /\ (m \in kept => top'[m] # None)
    BY <1>1 DEF Archiving
  <2>1. ingest'[j] = (IF j = i THEN r ELSE ingest[j]) BY <1>0, <1>1 DEF InboxTypeOK
  <2>2. j = i
    <3>1. CASE j = i BY <3>1
    <3>2. CASE j # i
      <4>1. ingest'[j] = ingest[j] BY <2>1, <3>2
      <4>2. j = "handler" BY <1>0, <4>1 DEF Archiving
      <4> QED BY <1>2, <4>2
    <3> QED BY <3>1, <3>2
  <2>3. ingest'[j].todo = ingest[i].todo /\ ingest'[j].pc # "rename" BY <1>5, <1>6, <2>1, <2>2
  <2> QED BY <1>2, <1>9, <1>10, <2>2, <2>3
<1>12. FileKept'
  <2> SUFFICES ASSUME NEW m \in kept PROVE (IF top'[m] # None THEN top'[m] ELSE arch'[m]) # None
    BY <1>1 DEF FileKept, Where
  <2>1. m \in Names /\ (top[m] # None \/ arch[m] # None)
    BY <1>0 DEF KeptInv, FileKept, Where, InboxTypeOK
  <2>2. CASE m = n
    <3>1. top'[n] = None /\ arch'[n] = top[n] BY <1>0, <1>1, <1>2 DEF InboxTypeOK
    <3> QED BY <1>2, <2>2, <3>1
  <2>3. CASE m # n BY <1>9, <2>1, <2>3
  <2> QED BY <2>2, <2>3
<1> QED BY <1>8, <1>11, <1>12 DEF KeptInv

\* Unlock, and a kill of the process, forget who was at work and touch no file.
LEMMA LeaveKeeps ==
  ASSUME KeptInv, (\E i \in Ingests : Unlock(i)) \/ Kill
  PROVE  KeptInv'
<1>0. InboxTypeOK BY DEF KeptInv
<1>1. IdleIngest \in IngestSet /\ IdleIngest.pc = "idle" BY DEF IdleIngest, IngestSet
<1>2. IdleWriter \in WriterSet BY DEF IdleWriter, WriterSet, WriterRecord, Contents
<1>3. ASSUME NEW i \in Ingests, Unlock(i) PROVE KeptInv'
  <2>1. ingest' = [ingest EXCEPT ![i] = IdleIngest] /\ UNCHANGED <<top, arch, writer, kept>>
    BY <1>3 DEF Unlock, Leave, files
  <2>2. /\ IdleIngest.pc \in {"readdir", "archive"} => i = "handler"
        /\ IdleIngest.pc # "archive" /\ IdleIngest.pc # "rename"
    BY <1>1
  <2> QED BY <1>1, <2>1, <2>2, IngestMoves
<1>4. ASSUME Kill PROVE KeptInv'
  <2>1. /\ UNCHANGED <<top, arch, kept>> /\ writer' = [w \in Writers |-> IdleWriter]
        /\ ingest' = [i \in Ingests |-> IdleIngest]
    BY <1>4 DEF Kill, files
  <2>2. InboxTypeOK' BY <1>0, <1>1, <1>2, <2>1 DEF InboxTypeOK
  <2>3. Archiving' BY <1>1, <2>1, ArchivingKept
  <2>4. FileKept' BY <2>1 DEF KeptInv, FileKept, Where
  <2> QED BY <2>2, <2>3, <2>4 DEF KeptInv
<1> QED BY <1>3, <1>4

\* Upload and Fetch create a file under one of the staged names.
LEMMA StagingKeeps ==
  ASSUME KeptInv, NEW w \in Writers, Upload(w) \/ Fetch(w)
  PROVE  KeptInv'
<1>1. CASE Upload(w)
  <2>1. PICK n \in Uploads, b \in Bodies : Create(w, n, b) BY <1>1 DEF Upload
  <2>2. n \in Names /\ b \in Contents BY DEF Names, Contents
  <2> QED BY <2>1, <2>2, CreateKeeps
<1>2. CASE Fetch(w)
  <2>1. PICK f \in Fetched : Create(w, <<writer[w].url, f[1]>>, f[2]) BY <1>2 DEF Fetch
  <2>2. f[1] \in UrlKinds /\ f[2] \in Contents BY InboxAssumption DEF Fetched, Contents
  <2>3. writer[w].url \in Urls BY <1>2 DEF KeptInv, InboxTypeOK, WriterSet, Fetch
  <2>4. <<writer[w].url, f[1]>> \in Names BY <2>2, <2>3 DEF Names
  <2> QED BY <2>1, <2>2, <2>4, CreateKeeps
<1> QED BY <1>1, <1>2

\* Every step of the server, its daemon and its clients keeps the invariant.
LEMMA KeptStep ==
  ASSUME KeptInv, [Next]_vars
  PROVE  KeptInv'
<1>1. ASSUME NEW w \in Writers, Upload(w) \/ AddURL(w) \/ WriterStep(w) PROVE KeptInv'
  BY <1>1, StagingKeeps, CopyKeeps, LookupKeeps DEF WriterStep
<1>2. ASSUME NEW i \in Ingests, Start(i) \/ IngestStep(i) \/ IngestFails(i) PROVE KeptInv'
  BY <1>2, GatherKeeps, ListKeeps, RemoveOldKeeps, RenameKeeps, LeaveKeeps DEF IngestStep, ArchiveStep
<1>3. CASE UNCHANGED vars
  <2>1. UNCHANGED <<top, arch, writer, ingest, kept>> BY <1>3 DEF vars
  <2> QED BY <2>1 DEF KeptInv, InboxTypeOK, Archiving, FileKept, Where
<1> QED BY <1>1, <1>2, <1>3, DeleteKeeps, LeaveKeeps DEF Next

\* archiveInbox and handleIngest: for any names, clients and requests, a document
\* once completely staged is staged or archived until a DELETE of its name or a new
\* upload over it, whatever ingests, failures and kills come in between.
THEOREM NothingIsLost == Spec => []FileKept
<1>1. KeptInv => FileKept BY DEF KeptInv
<1> QED BY <1>1, KeptInitially, KeptStep, PTL DEF Spec
-----------------------------------------------------------------------------
(* A link is staged once.                                                  *)

\* KeptInv holds of every behaviour; the proofs below start from it.
LEMMA KeptAlways == Spec => []KeptInv
BY KeptInitially, KeptStep, PTL DEF Spec

\* What is listed is what there is of each name, in either directory.
LEMMA Listed ==
  ASSUME InboxTypeOK
  PROVE  /\ \A n \in Names : /\ <<"top", n>> \in Places /\ <<"arch", n>> \in Places
                             /\ <<"top", n>> \in collectInboxFiles <=> top[n] # None
                             /\ <<"arch", n>> \in collectInboxFiles <=> arch[n] # None
         /\ \A p \in Places : p[2] \in Names /\ (p = <<"top", p[2]>> \/ p = <<"arch", p[2]>>)
         /\ collectInboxFiles \subseteq Places
BY DEF Places, collectInboxFiles, File

\* Create makes one file, Delete and RemoveOld take one away, Rename moves one.
LEMMA ListedCreated ==
  ASSUME InboxTypeOK, NEW n \in Names, top' = [top EXCEPT ![n] = Empty], UNCHANGED arch
  PROVE  collectInboxFiles' = collectInboxFiles \cup {<<"top", n>>}
<1>1. None # Empty BY InboxAssumption DEF Contents
<1> QED BY <1>1 DEF InboxTypeOK, collectInboxFiles, Places, File

LEMMA ListedRemoved ==
  ASSUME InboxTypeOK, NEW n \in Names, NEW p \in {<<"top", n>>, <<"arch", n>>},
         top' = (IF p[1] = "top" THEN [top EXCEPT ![n] = None] ELSE top),
         arch' = (IF p[1] = "top" THEN arch ELSE [arch EXCEPT ![n] = None])
  PROVE  collectInboxFiles' = collectInboxFiles \ {p}
BY DEF InboxTypeOK, collectInboxFiles, Places, File

LEMMA ListedMoved ==
  ASSUME InboxTypeOK, NEW n \in Names,
         arch' = [arch EXCEPT ![n] = top[n]], top' = [top EXCEPT ![n] = None]
  PROVE  \A p \in Places : p \in collectInboxFiles' <=>
           \/ p \in collectInboxFiles /\ p[2] # n
           \/ p = <<"arch", n>> /\ <<"top", n>> \in collectInboxFiles
<1>0. top[n] # None <=> <<"top", n>> \in collectInboxFiles BY Listed
<1>1. ASSUME NEW p \in Places, p[2] # n
      PROVE  p \in collectInboxFiles' <=> p \in collectInboxFiles
  BY <1>1 DEF InboxTypeOK, collectInboxFiles, Places, File
<1>2. <<"arch", n>> \in collectInboxFiles' <=> top[n] # None
  BY DEF InboxTypeOK, collectInboxFiles, Places, File
<1>3. <<"top", n>> \notin collectInboxFiles'
  BY DEF InboxTypeOK, collectInboxFiles, Places, File
<1>4. \A p \in Places : p[2] = n => p = <<"top", n>> \/ p = <<"arch", n>> BY Listed
<1> QED BY <1>0, <1>1, <1>2, <1>3, <1>4

\* Files a link could have: a staged or an archived one, of any kind.
LinkPlaces(u) == {p \in Places : p[2] \in Urls \X UrlKinds /\ p[2][1] = u}
StagedLinks(u) == LinkPlaces(u) \cap collectInboxFiles

\* An upload cannot be given the name a link is staged under, and one request adds
\* links at a time; two of them can look at the same time and both stage.
LinksApart == /\ Uploads \cap (Urls \X UrlKinds) = {}
              /\ \A v, w \in UrlHandlers : v = w

\* A link has one file; a handler that looked in inbox/ still finds none there, and
\* one about to fetch finds none at all, because whoever is copying writes to a file
\* that is there and archiving moves a file to where there was none.
OneFile == \A u \in Urls : \A p, q \in StagedLinks(u) : p = q
OpenFiles == \A w \in Writers : writer[w].at \in Places => writer[w].at \in collectInboxFiles
Lookups ==
  \A w \in Writers :
    /\ writer[w].pc \in {"findTop", "findArchived", "fetch"} => w \in UrlHandlers
    /\ writer[w].pc = "findArchived" => \A p \in StagedLinks(writer[w].url) : p[1] # "top"
    /\ writer[w].pc = "fetch" => StagedLinks(writer[w].url) = {}
Cleared == \A i \in Ingests : ingest[i].pc = "rename" => <<"arch", ingest[i].moving>> \notin collectInboxFiles

StagedInv == OneFile /\ OpenFiles /\ Lookups /\ Cleared

LEMMA StagedInitially == Init => StagedInv
<1> SUFFICES ASSUME Init PROVE StagedInv OBVIOUS
<1>1. \A p \in Places : File(p) = None BY DEF Init, File, Places
<1>2. collectInboxFiles = {} BY <1>1 DEF collectInboxFiles
<1>3. \A w \in Writers : writer[w] = IdleWriter BY DEF Init
<1>4. \A i \in Ingests : ingest[i].pc = "idle" BY DEF Init, IdleIngest
<1>5. Unlinked \notin Places BY DEF Unlinked, Places
<1>6. \A w \in Writers : writer[w].pc = "idle" /\ writer[w].at = Unlinked BY <1>3 DEF IdleWriter
<1> QED BY <1>2, <1>4, <1>5, <1>6 DEF StagedInv, OneFile, OpenFiles, Lookups, Cleared, StagedLinks

\* A step that makes no file, opens none, and leaves who is looking up where they are.
LEMMA NothingStaged ==
  ASSUME StagedInv, collectInboxFiles' \subseteq collectInboxFiles,
         \A w \in Writers :
           /\ \/ writer'[w].pc = writer[w].pc /\ writer'[w].url = writer[w].url
              \/ writer'[w].pc \in {"idle", "copy"}
              \/ writer'[w].pc = "findTop" /\ w \in UrlHandlers
           /\ writer'[w].at \in Places => writer'[w].at \in collectInboxFiles',
         \A i \in Ingests : ingest'[i].pc = "rename" => <<"arch", ingest'[i].moving>> \notin collectInboxFiles'
  PROVE  StagedInv'
<1>1. \A u : StagedLinks(u)' \subseteq StagedLinks(u) BY DEF StagedLinks
<1>2. OneFile' BY <1>1 DEF StagedInv, OneFile
<1>3. Lookups'
  <2> SUFFICES ASSUME NEW w \in Writers
               PROVE  /\ writer'[w].pc \in {"findTop", "findArchived", "fetch"} => w \in UrlHandlers
                      /\ writer'[w].pc = "findArchived" => \A p \in (StagedLinks(writer[w].url))' : p[1] # "top"
                      /\ writer'[w].pc = "fetch" => (StagedLinks(writer[w].url))' = {}
    BY DEF Lookups
  <2>1. PICK u : u = writer'[w].url OBVIOUS
  <2>2. (StagedLinks(writer[w].url))' = StagedLinks(u)' BY <2>1 DEF StagedLinks, LinkPlaces
  <2>3. writer[w].url = u => StagedLinks(writer[w].url) = StagedLinks(u) OBVIOUS
  <2> QED BY <1>1, <2>1, <2>2, <2>3 DEF StagedInv, Lookups
<1> QED BY <1>2, <1>3 DEF StagedInv, OpenFiles, Cleared

\* What Follow leaves of each writer.
LEMMA Followed ==
  ASSUME InboxTypeOK, NEW from, NEW to, Follow(from, to), NEW w \in Writers
  PROVE  /\ writer'[w].pc = writer[w].pc /\ writer'[w].url = writer[w].url
         /\ writer'[w].at = IF writer[w].at = from THEN to ELSE writer[w].at
<1>1. writer[w] \in WriterRecord BY DEF InboxTypeOK, WriterSet
<1>2. writer'[w] = IF writer[w].at = from THEN [writer[w] EXCEPT !.at = to] ELSE writer[w] BY DEF Follow
<1> QED BY <1>1, <1>2 DEF WriterRecord

\* handleUpload stages no link, and handleURL one of which there is no file.
LEMMA CreateStages ==
  ASSUME KeptInv, StagedInv, LinksApart, NEW w \in Writers, NEW n \in Names, NEW b, Create(w, n, b),
         \/ n \in Uploads
         \/ writer[w].pc = "fetch" /\ n \in Urls \X UrlKinds /\ n[1] = writer[w].url
  PROVE  StagedInv'
<1> DEFINE p == <<"top", n>>
           r == [writer[w] EXCEPT !.pc = "copy", !.url = None, !.body = b, !.at = p]
<1>0. InboxTypeOK BY DEF KeptInv
<1>1. p \in Places BY <1>0, Listed
<1>2. collectInboxFiles' = collectInboxFiles \cup {p} BY <1>0, ListedCreated DEF Create
<1>3. \A i \in Ingests : ingest'[i].pc = ingest[i].pc /\ ingest'[i].moving = ingest[i].moving
  BY <1>0, TouchedKeeps DEF Create
<1>4. writer' = [writer EXCEPT ![w] = r] BY DEF Create
<1>5. r.pc = "copy" /\ r.at = p
  <2>1. writer[w] \in WriterRecord BY <1>0 DEF InboxTypeOK, WriterSet
  <2> QED BY <2>1 DEF WriterRecord
<1>6. \A v \in Writers : writer'[v] = IF v = w THEN r ELSE writer[v] BY <1>0, <1>4 DEF InboxTypeOK
<1>7. OpenFiles' BY <1>2, <1>5, <1>6 DEF StagedInv, OpenFiles
<1>8. Cleared'
  <2> SUFFICES ASSUME NEW i \in Ingests, ingest'[i].pc = "rename"
               PROVE  <<"arch", ingest'[i].moving>> \notin collectInboxFiles'
    BY DEF Cleared
  <2>1. <<"arch", ingest[i].moving>> \notin collectInboxFiles BY <1>3 DEF StagedInv, Cleared
  <2> QED BY <1>2, <1>3, <2>1
<1>9. \A u : StagedLinks(u)' = StagedLinks(u) \cup (LinkPlaces(u) \cap {p}) BY <1>2 DEF StagedLinks
<1>10. p[2] = n OBVIOUS
<1> HIDE DEF p, r
<1>11. CASE n \in Uploads
  <2>1. \A u : p \notin LinkPlaces(u) BY <1>10, <1>11 DEF LinkPlaces, LinksApart
  <2>2. \A u : StagedLinks(u)' = StagedLinks(u) BY <1>9, <2>1
  <2>3. OneFile' BY <2>2 DEF StagedInv, OneFile
  <2>4. Lookups'
    <3> SUFFICES ASSUME NEW v \in Writers
                 PROVE  /\ writer'[v].pc \in {"findTop", "findArchived", "fetch"} => v \in UrlHandlers
                        /\ writer'[v].pc = "findArchived" => \A q \in (StagedLinks(writer[v].url))' : q[1] # "top"
                        /\ writer'[v].pc = "fetch" => (StagedLinks(writer[v].url))' = {}
      BY DEF Lookups
    <3>1. PICK u : u = writer'[v].url OBVIOUS
    <3>2. (StagedLinks(writer[v].url))' = StagedLinks(u)' BY <3>1 DEF StagedLinks, LinkPlaces
    <3>3. CASE v = w BY <1>5, <1>6, <3>3
    <3>4. CASE v # w BY <1>6, <2>2, <3>1, <3>2, <3>4 DEF StagedInv, Lookups
    <3> QED BY <3>3, <3>4
  <2> QED BY <1>7, <1>8, <2>3, <2>4 DEF StagedInv
<1>12. CASE writer[w].pc = "fetch" /\ n \in Urls \X UrlKinds /\ n[1] = writer[w].url
  <2> PICK u0 : u0 = writer[w].url OBVIOUS
  <2>1. w \in UrlHandlers /\ StagedLinks(u0) = {} BY <1>12 DEF StagedInv, Lookups
  <2>2. \A u : u # u0 => StagedLinks(u)' = StagedLinks(u)
    <3>1. \A u : u # u0 => p \notin LinkPlaces(u) BY <1>10, <1>12 DEF LinkPlaces
    <3> QED BY <1>9, <3>1
  <2>3. StagedLinks(u0)' \subseteq {p} BY <1>9, <2>1
  <2>4. OneFile' BY <2>2, <2>3 DEF StagedInv, OneFile
  <2>5. \A v \in Writers : writer'[v].pc \notin {"findTop", "findArchived", "fetch"}
    <3>1. \A v \in UrlHandlers : v = w BY <2>1 DEF LinksApart
    <3> QED BY <1>5, <1>6, <3>1 DEF StagedInv, Lookups
  <2>6. Lookups' BY <2>5 DEF Lookups
  <2> QED BY <1>7, <1>8, <2>4, <2>6 DEF StagedInv
<1> QED BY <1>11, <1>12

\* FindTop and FindArchived: the handler goes on when it sees no file of the link.
LEMMA LookupStages ==
  ASSUME KeptInv, StagedInv, NEW w \in Writers, FindTop(w) \/ FindArchived(w)
  PROVE  StagedInv'
<1>0. InboxTypeOK BY DEF KeptInv
<1> DEFINE u == writer[w].url
<1>1. UNCHANGED <<top, arch, ingest>> BY DEF FindTop, FindArchived, files
<1>2. collectInboxFiles' = collectInboxFiles BY <1>1 DEF collectInboxFiles, File
<1>3. PICK pc \in {"findArchived", "fetch"} :
        /\ \/ writer' = [writer EXCEPT ![w] = IdleWriter]
           \/ writer' = [writer EXCEPT ![w] = [writer[w] EXCEPT !.pc = pc]]
        /\ writer' # [writer EXCEPT ![w] = IdleWriter] =>
             /\ pc = "findArchived" => writer[w].pc = "findTop" /\ ~Seen(top, u)
             /\ pc = "fetch" => writer[w].pc = "findArchived" /\ ~Seen(arch, u)
  BY DEF FindTop, FindArchived
<1>4. writer[w] \in WriterRecord BY <1>0 DEF InboxTypeOK, WriterSet
<1>5. Unlinked \notin Places BY DEF Unlinked, Places
<1>6. CASE writer' = [writer EXCEPT ![w] = IdleWriter]
  <2>1. \A v \in Writers : writer'[v] = IF v = w THEN IdleWriter ELSE writer[v] BY <1>0, <1>6 DEF InboxTypeOK
  <2>2. IdleWriter.pc = "idle" /\ IdleWriter.at = Unlinked BY DEF IdleWriter
  <2>3. \A v \in Writers :
           /\ \/ writer'[v].pc = writer[v].pc /\ writer'[v].url = writer[v].url
              \/ writer'[v].pc \in {"idle", "copy"}
           /\ writer'[v].at \in Places => writer'[v].at \in collectInboxFiles'
    BY <1>2, <1>5, <2>1, <2>2 DEF StagedInv, OpenFiles
  <2>4. \A i \in Ingests : ingest'[i].pc = "rename" => <<"arch", ingest'[i].moving>> \notin collectInboxFiles'
    BY <1>1, <1>2 DEF StagedInv, Cleared
  <2> QED BY <1>2, <2>3, <2>4, NothingStaged
<1>7. CASE writer' # [writer EXCEPT ![w] = IdleWriter]
  <2> DEFINE r == [writer[w] EXCEPT !.pc = pc]
  <2>1. writer' = [writer EXCEPT ![w] = r] BY <1>3, <1>7
  <2>2. r.pc = pc /\ r.url = u /\ r.at = writer[w].at BY <1>4 DEF WriterRecord
  <2>3. \A v \in Writers : writer'[v] = IF v = w THEN r ELSE writer[v] BY <1>0, <2>1 DEF InboxTypeOK
  <2> HIDE DEF r
  <2>4. writer[w].pc \in {"findTop", "findArchived"} BY <1>3, <1>7
  <2>5. w \in UrlHandlers BY <2>4 DEF StagedInv, Lookups
  <2>6. u \in Urls BY <1>0, <2>4 DEF InboxTypeOK, WriterSet
  <2>7. \A p \in StagedLinks(u) : p[2] \in Names /\ (p = <<"top", p[2]>> \/ p = <<"arch", p[2]>>)
                                  /\ \E k \in UrlKinds : p[2] = <<u, k>>
    BY <1>0, Listed DEF StagedLinks, LinkPlaces
  <2>8. ~Seen(top, u) => \A p \in StagedLinks(u) : p[1] # "top"
    <3> SUFFICES ASSUME ~Seen(top, u), NEW p \in StagedLinks(u), p[1] = "top" PROVE FALSE OBVIOUS
    <3>1. PICK k \in UrlKinds : p[2] = <<u, k>> BY <2>7
    <3>2. p = <<"top", p[2]>> /\ p[2] \in Names /\ p \in collectInboxFiles BY <2>7 DEF StagedLinks
    <3>3. top[p[2]] # None BY <1>0, <3>2, Listed
    <3> QED BY <3>1, <3>3 DEF Seen
  <2>9. ~Seen(arch, u) => \A p \in StagedLinks(u) : p[1] # "arch"
    <3> SUFFICES ASSUME ~Seen(arch, u), NEW p \in StagedLinks(u), p[1] = "arch" PROVE FALSE OBVIOUS
    <3>1. PICK k \in UrlKinds : p[2] = <<u, k>> BY <2>7
    <3>2. p = <<"arch", p[2]>> /\ p[2] \in Names /\ p \in collectInboxFiles BY <2>7 DEF StagedLinks
    <3>3. arch[p[2]] # None BY <1>0, <3>2, Listed
    <3> QED BY <3>1, <3>3 DEF Seen
  <2>10. \A p \in StagedLinks(u) : p[1] = "top" \/ p[1] = "arch" BY <2>7
  <2>11. /\ pc = "findArchived" => \A p \in StagedLinks(u) : p[1] # "top"
         /\ pc = "fetch" => StagedLinks(u) = {}
    <3>1. pc = "fetch" => \A p \in StagedLinks(u) : p[1] # "top" BY <1>3, <1>7 DEF StagedInv, Lookups
    <3> QED BY <1>3, <1>7, <2>8, <2>9, <2>10, <3>1
  <2>12. \A x : StagedLinks(x)' = StagedLinks(x) BY <1>2 DEF StagedLinks
  <2> HIDE DEF u
  <2>13. Lookups'
    <3> SUFFICES ASSUME NEW v \in Writers
                 PROVE  /\ writer'[v].pc \in {"findTop", "findArchived", "fetch"} => v \in UrlHandlers
                        /\ writer'[v].pc = "findArchived" => \A q \in (StagedLinks(writer[v].url))' : q[1] # "top"
                        /\ writer'[v].pc = "fetch" => (StagedLinks(writer[v].url))' = {}
      BY DEF Lookups
    <3>1. PICK x : x = writer'[v].url OBVIOUS
    <3>2. (StagedLinks(writer[v].url))' = StagedLinks(x)' BY <3>1 DEF StagedLinks, LinkPlaces
    <3>3. CASE v = w
      <4>1. x = u /\ writer'[v].pc = pc BY <2>2, <2>3, <3>1, <3>3
      <4> QED BY <2>5, <2>11, <2>12, <3>2, <3>3, <4>1
    <3>4. CASE v # w BY <2>3, <2>12, <3>1, <3>2, <3>4 DEF StagedInv, Lookups
    <3> QED BY <3>3, <3>4
  <2>14. OneFile' BY <2>12 DEF StagedInv, OneFile
  <2>15. OpenFiles' BY <1>2, <2>2, <2>3 DEF StagedInv, OpenFiles
  <2>16. Cleared' BY <1>1, <1>2 DEF StagedInv, Cleared
  <2> QED BY <2>13, <2>14, <2>15, <2>16 DEF StagedInv
<1> QED BY <1>6, <1>7

\* io.Copy writes to a file that is there; a DELETE and the removal of an archived
\* copy close the files they take away; a request for a link only looks.
LEMMA WriterStages ==
  ASSUME KeptInv, StagedInv, NEW w \in Writers, Copy(w) \/ AddURL(w)
  PROVE  StagedInv'
<1>0. InboxTypeOK BY DEF KeptInv
<1>1. UNCHANGED ingest BY DEF Copy, AddURL
<1>2. writer[w] \in WriterRecord BY <1>0 DEF InboxTypeOK, WriterSet
<1>3. collectInboxFiles' = collectInboxFiles
  <2>1. CASE Copy(w)
    <3> DEFINE p == writer[w].at
               body == writer[w].body
    <3>1. body # None /\ p \in Places \cup {Unlinked} BY <1>2, InboxAssumption DEF WriterRecord
    <3>2. /\ top' = (IF p[1] = "top" THEN [top EXCEPT ![p[2]] = body] ELSE top)
          /\ arch' = (IF p[1] = "arch" THEN [arch EXCEPT ![p[2]] = body] ELSE arch)
      BY <2>1 DEF Copy
    <3>3. p \in Places => p \in collectInboxFiles BY DEF StagedInv, OpenFiles
    <3>4. p \notin Places => p[1] \notin {"top", "arch"} BY <3>1 DEF Unlinked
    <3>5. \A q \in Places : q[1] \in {"top", "arch"} /\ q[2] \in Names /\ q = <<q[1], q[2]>> BY DEF Places
    <3> HIDE DEF p, body
    <3>6. ASSUME NEW q \in Places PROVE q \in collectInboxFiles' <=> q \in collectInboxFiles
      <4>1. CASE p \notin Places BY <3>2, <3>4, <4>1 DEF collectInboxFiles, File
      <4>2. CASE p \in Places
        <5>1. p[2] \in Names /\ p[1] \in {"top", "arch"} BY <3>5, <4>2
        <5>2. CASE q = p BY <1>0, <3>1, <3>2, <3>3, <5>1, <5>2 DEF collectInboxFiles, File, InboxTypeOK
        <5>3. CASE q # p
          <6>1. q[1] # p[1] \/ q[2] # p[2] BY <3>5, <4>2, <5>3
          <6> QED BY <1>0, <3>2, <3>5, <5>1, <6>1 DEF collectInboxFiles, File, InboxTypeOK
        <5> QED BY <5>2, <5>3
      <4> QED BY <4>1, <4>2
    <3> QED BY <3>6 DEF collectInboxFiles
  <2>2. CASE AddURL(w) BY <2>2 DEF AddURL, files, collectInboxFiles, File
  <2> QED BY <2>1, <2>2
<1>4. PICK r : /\ writer' = [writer EXCEPT ![w] = r]
               /\ r.pc = "idle" \/ (r.pc = "findTop" /\ w \in UrlHandlers)
               /\ r.at = Unlinked \/ r.at = writer[w].at
  <2>1. CASE Copy(w)
    <3>1. writer' = [writer EXCEPT ![w] = IdleWriter] BY <2>1 DEF Copy
    <3>2. IdleWriter.pc = "idle" /\ IdleWriter.at = Unlinked BY DEF IdleWriter
    <3> WITNESS IdleWriter
    <3> QED BY <3>1, <3>2
  <2>2. CASE AddURL(w)
    <3>1. PICK u \in Urls : writer' = [writer EXCEPT ![w] = [writer[w] EXCEPT !.pc = "findTop", !.url = u]]
      BY <2>2 DEF AddURL
    <3> DEFINE r == [writer[w] EXCEPT !.pc = "findTop", !.url = u]
    <3>2. r.pc = "findTop" /\ r.at = writer[w].at BY <1>2 DEF WriterRecord
    <3> HIDE DEF r
    <3>3. writer' = [writer EXCEPT ![w] = r] BY <3>1 DEF r
    <3>4. w \in UrlHandlers BY <2>2 DEF AddURL
    <3> QED BY <3>2, <3>3, <3>4
  <2> QED BY <2>1, <2>2
<1>5. \A v \in Writers : writer'[v] = IF v = w THEN r ELSE writer[v] BY <1>0, <1>4 DEF InboxTypeOK
<1>6. Unlinked \notin Places BY DEF Unlinked, Places
<1>7. \A v \in Writers :
        /\ \/ writer'[v].pc = writer[v].pc /\ writer'[v].url = writer[v].url
           \/ writer'[v].pc \in {"idle", "copy"}
           \/ writer'[v].pc = "findTop" /\ v \in UrlHandlers
        /\ writer'[v].at \in Places => writer'[v].at \in collectInboxFiles'
  BY <1>3, <1>4, <1>5, <1>6 DEF StagedInv, OpenFiles
<1>8. \A i \in Ingests : ingest'[i].pc = "rename" => <<"arch", ingest'[i].moving>> \notin collectInboxFiles'
  BY <1>1, <1>3 DEF StagedInv, Cleared
<1> QED BY <1>3, <1>7, <1>8, NothingStaged

LEMMA RemovalStages ==
  ASSUME KeptInv, StagedInv, Delete \/ \E i \in Ingests : RemoveOld(i)
  PROVE  StagedInv'
<1>0. InboxTypeOK BY DEF KeptInv
<1>1. ASSUME NEW p \in Places, Follow(p, Unlinked), collectInboxFiles' = collectInboxFiles \ {p},
             \A i \in Ingests : ingest'[i].pc = "rename" => <<"arch", ingest'[i].moving>> \notin collectInboxFiles'
      PROVE  StagedInv'
  <2>1. Unlinked \notin Places BY DEF Unlinked, Places
  <2>2. \A v \in Writers : /\ writer'[v].pc = writer[v].pc /\ writer'[v].url = writer[v].url
                           /\ writer'[v].at = IF writer[v].at = p THEN Unlinked ELSE writer[v].at
    BY <1>0, <1>1, Followed
  <2>3. \A v \in Writers : writer'[v].at \in Places => writer'[v].at \in collectInboxFiles'
    BY <1>1, <2>1, <2>2 DEF StagedInv, OpenFiles
  <2> QED BY <1>1, <2>2, <2>3, NothingStaged
<1>2. CASE Delete
  <2>1. PICK n \in Names : /\ top' = [top EXCEPT ![n] = None] /\ UNCHANGED arch
                           /\ Follow(<<"top", n>>, Unlinked) /\ Touched(n)
    BY <1>2 DEF Delete
  <2>2. <<"top", n>> \in Places BY <1>0, Listed
  <2>3. collectInboxFiles' = collectInboxFiles \ {<<"top", n>>} BY <1>0, <2>1, ListedRemoved
  <2>4. \A i \in Ingests : ingest'[i].pc = ingest[i].pc /\ ingest'[i].moving = ingest[i].moving
    BY <1>0, <2>1, TouchedKeeps
  <2>5. ASSUME NEW i \in Ingests, ingest'[i].pc = "rename"
        PROVE  <<"arch", ingest'[i].moving>> \notin collectInboxFiles'
    <3>1. <<"arch", ingest[i].moving>> \notin collectInboxFiles BY <2>4, <2>5 DEF StagedInv, Cleared
    <3> QED BY <2>3, <2>4, <3>1
  <2> QED BY <1>1, <2>1, <2>2, <2>3, <2>5
<1>3. ASSUME NEW i \in Ingests, RemoveOld(i) PROVE StagedInv'
  <2>1. PICK p \in ingest[i].todo : /\ arch' = [arch EXCEPT ![p[2]] = None]
                                   /\ Follow(<<"arch", p[2]>>, Unlinked)
                                   /\ ingest' = [ingest EXCEPT ![i] = Moving(i, p)]
    BY <1>3 DEF RemoveOld
  <2>2. ingest[i] \in IngestSet /\ UNCHANGED top BY <1>0, <1>3 DEF InboxTypeOK, RemoveOld
  <2>3. p[2] \in Names BY <1>0, <2>1, <2>2, Listed DEF IngestSet
  <2>4. <<"arch", p[2]>> \in Places BY <1>0, <2>3, Listed
  <2>5. collectInboxFiles' = collectInboxFiles \ {<<"arch", p[2]>>} BY <1>0, <2>1, <2>2, <2>3, ListedRemoved
  <2>6. Moving(i, p).moving = p[2] BY <2>2 DEF Moving, IngestSet
  <2>7. ASSUME NEW j \in Ingests, ingest'[j].pc = "rename"
        PROVE  <<"arch", ingest'[j].moving>> \notin collectInboxFiles'
    <3>1. CASE j = i
      <4>1. ingest'[j].moving = p[2] BY <1>0, <2>1, <2>6, <3>1 DEF InboxTypeOK
      <4> QED BY <2>5, <4>1
    <3>2. CASE j # i
      <4>1. ingest'[j] = ingest[j] BY <1>0, <2>1, <3>2 DEF InboxTypeOK
      <4> QED BY <2>5, <2>7, <4>1 DEF StagedInv, Cleared
    <3> QED BY <3>1, <3>2
  <2> QED BY <1>1, <2>1, <2>4, <2>5, <2>7
<1> QED BY <1>2, <1>3

\* os.Rename moves the file, with whoever is writing to it, to where there is none.
LEMMA RenameStages ==
  ASSUME KeptInv, StagedInv, NEW i \in Ingests, Rename(i)
  PROVE  StagedInv'
<1>0. InboxTypeOK /\ Archiving /\ ingest[i] \in IngestSet BY DEF KeptInv, InboxTypeOK
<1>1. PICK n : n = ingest[i].moving OBVIOUS
<1>2. /\ ingest[i].pc = "rename" /\ arch' = [arch EXCEPT ![n] = top[n]] /\ top' = [top EXCEPT ![n] = None]
      /\ Follow(<<"top", n>>, <<"arch", n>>)
      /\ ingest' = [ingest EXCEPT ![i].pc = IF top[n] = None THEN "unlock" ELSE "archive"]
  BY <1>1 DEF Rename, At, Goto
<1>3. n \in Names /\ i = "handler" BY <1>0, <1>1, <1>2 DEF Archiving
<1> DEFINE from == <<"top", n>>
           to == <<"arch", n>>
<1>4. from \in Places /\ to \in Places /\ from[2] = n /\ to[2] = n /\ from # to BY <1>0, <1>3, Listed
<1>5. to \notin collectInboxFiles BY <1>1, <1>2 DEF StagedInv, Cleared
<1>6. \A p \in Places : p \in collectInboxFiles' <=>
        \/ p \in collectInboxFiles /\ p[2] # n
        \/ p = to /\ from \in collectInboxFiles
  BY <1>0, <1>2, <1>3, ListedMoved
<1>7. \A p \in Places : p[2] = n => p = from \/ p = to BY <1>0, Listed
<1>8. collectInboxFiles' \subseteq Places BY DEF collectInboxFiles
<1>9. \A v \in Writers : /\ writer'[v].pc = writer[v].pc /\ writer'[v].url = writer[v].url
                         /\ writer'[v].at = IF writer[v].at = from THEN to ELSE writer[v].at
  BY <1>0, <1>2, Followed
<1>10. \A u : LinkPlaces(u) \subseteq Places /\ (from \in LinkPlaces(u) <=> to \in LinkPlaces(u))
  BY <1>4 DEF LinkPlaces
<1> HIDE DEF from, to
<1>11. \A u : \A p \in StagedLinks(u)' :
         \/ p \in StagedLinks(u) /\ p # from
         \/ p = to /\ from \in StagedLinks(u)
  BY <1>4, <1>6, <1>8, <1>10 DEF StagedLinks
<1>12. OneFile' BY <1>11 DEF StagedInv, OneFile
<1>13. OpenFiles' BY <1>4, <1>5, <1>6, <1>7, <1>9 DEF StagedInv, OpenFiles
<1>14. Lookups'
  <2> SUFFICES ASSUME NEW v \in Writers
               PROVE  /\ writer'[v].pc \in {"findTop", "findArchived", "fetch"} => v \in UrlHandlers
                      /\ writer'[v].pc = "findArchived" => \A q \in (StagedLinks(writer[v].url))' : q[1] # "top"
                      /\ writer'[v].pc = "fetch" => (StagedLinks(writer[v].url))' = {}
    BY DEF Lookups
  <2>1. PICK u : u = writer'[v].url OBVIOUS
  <2>2. (StagedLinks(writer[v].url))' = StagedLinks(u)' BY <2>1 DEF StagedLinks, LinkPlaces
  <2>3. u = writer[v].url BY <1>9, <2>1
  <2>4. from[1] = "top" /\ to[1] = "arch" BY DEF from, to
  <2> QED BY <1>9, <1>11, <2>2, <2>3, <2>4 DEF StagedInv, Lookups
<1>15. Cleared'
  <2>1. \A j \in Ingests : ingest'[j].pc # "rename"
    <3> SUFFICES ASSUME NEW j \in Ingests PROVE ingest'[j].pc # "rename" OBVIOUS
    <3>1. CASE j = i BY <1>0, <1>2, <3>1 DEF InboxTypeOK, IngestSet
    <3>2. CASE j # i
      <4>1. ingest'[j] = ingest[j] BY <1>0, <1>2, <3>2 DEF InboxTypeOK
      <4> QED BY <1>0, <1>3, <3>2, <4>1 DEF Archiving
    <3> QED BY <3>1, <3>2
  <2> QED BY <2>1 DEF Cleared
<1> QED BY <1>12, <1>13, <1>14, <1>15 DEF StagedInv

\* What no step of an ingest but RemoveOld and Rename can disturb, nor a kill.
LEMMA IngestStages ==
  ASSUME KeptInv, StagedInv,
         \/ \E i \in Ingests : \/ Start(i) \/ Lock(i) \/ Walk(i) \/ Read(i) \/ DuplicateId(i) \/ Run(i)
                               \/ IngestFails(i) \/ ReadDir(i) \/ Archived(i) \/ Unlock(i)
         \/ Kill
  PROVE  StagedInv'
<1>0. InboxTypeOK BY DEF KeptInv
<1>1. UNCHANGED <<top, arch>>
  BY DEF Start, Lock, Enter, Walk, Read, DuplicateId, Run, IngestFails, ReadDir, Archived, Unlock, Leave, Kill, files
<1>2. collectInboxFiles' = collectInboxFiles BY <1>1 DEF collectInboxFiles, File
<1>3. ASSUME NEW i \in Ingests, NEW r, ingest' = [ingest EXCEPT ![i] = r], r.pc # "rename"
      PROVE  \A j \in Ingests : ingest'[j].pc = "rename" => <<"arch", ingest'[j].moving>> \notin collectInboxFiles'
  <2> SUFFICES ASSUME NEW j \in Ingests, ingest'[j].pc = "rename"
               PROVE  <<"arch", ingest'[j].moving>> \notin collectInboxFiles'
    OBVIOUS
  <2>1. ingest'[j] = IF j = i THEN r ELSE ingest[j] BY <1>0, <1>3 DEF InboxTypeOK
  <2>2. ingest'[j] = ingest[j] BY <1>3, <2>1
  <2> QED BY <1>2, <2>2 DEF StagedInv, Cleared
<1>4. ASSUME NEW i \in Ingests,
             \/ Start(i) \/ Lock(i) \/ Walk(i) \/ Read(i) \/ DuplicateId(i) \/ Run(i)
             \/ IngestFails(i) \/ ReadDir(i) \/ Archived(i) \/ Unlock(i)
      PROVE  StagedInv'
  <2>1. ingest[i] \in IngestSet BY <1>0 DEF InboxTypeOK
  <2>2. UNCHANGED writer
    BY <1>4 DEF Start, Lock, Enter, Walk, Read, DuplicateId, Run, IngestFails, ReadDir, Archived, Unlock, Leave
  <2>3. \E r : ingest' = [ingest EXCEPT ![i] = r] /\ r.pc # "rename"
    <3>1. CASE \/ Start(i) \/ Lock(i) \/ Walk(i) \/ Read(i) \/ DuplicateId(i) \/ Run(i) \/ IngestFails(i)
      <4>1. MovesBeforeArchiving(i) BY <1>0, <3>1, GatherMoves
      <4> QED BY <4>1 DEF MovesBeforeArchiving
    <3>2. CASE ReadDir(i)
      <4> DEFINE staged == {p \in Places : p[1] = "top" /\ File(p) # None}
                 r == [ingest[i] EXCEPT !.pc = "archive", !.todo = staged]
      <4>1. ingest' = [ingest EXCEPT ![i] = r] BY <3>2 DEF ReadDir
      <4> HIDE DEF staged
      <4>2. r.pc = "archive" BY <2>1 DEF IngestSet
      <4> HIDE DEF r
      <4> QED BY <4>1, <4>2
    <3>3. CASE Archived(i)
      <4> DEFINE r == [ingest[i] EXCEPT !.pc = "unlock"]
      <4>1. ingest' = [ingest EXCEPT ![i] = r] BY <3>3 DEF Archived, Goto
      <4>2. r.pc = "unlock" BY <2>1 DEF IngestSet
      <4> HIDE DEF r
      <4> QED BY <4>1, <4>2
    <3>4. CASE Unlock(i)
      <4>1. ingest' = [ingest EXCEPT ![i] = IdleIngest] BY <3>4 DEF Unlock, Leave
      <4>2. IdleIngest.pc = "idle" BY DEF IdleIngest
      <4> QED BY <4>1, <4>2
    <3> QED BY <1>4, <3>1, <3>2, <3>3, <3>4
  <2>4. \A j \in Ingests : ingest'[j].pc = "rename" => <<"arch", ingest'[j].moving>> \notin collectInboxFiles'
    BY <1>3, <2>3
  <2> QED BY <1>2, <2>2, <2>4, NothingStaged DEF StagedInv, OpenFiles
<1>5. CASE Kill
  <2>1. \A w \in Writers : writer'[w] = IdleWriter BY <1>5 DEF Kill
  <2>2. \A j \in Ingests : ingest'[j] = IdleIngest BY <1>5 DEF Kill
  <2>3. IdleWriter.pc = "idle" /\ IdleWriter.at = Unlinked /\ IdleIngest.pc = "idle" /\ Unlinked \notin Places
    BY DEF IdleWriter, IdleIngest, Unlinked, Places
  <2> QED BY <1>2, <2>1, <2>2, <2>3, NothingStaged
<1> QED BY <1>4, <1>5

LEMMA StagedStep ==
  ASSUME KeptInv, StagedInv, LinksApart, [Next]_vars
  PROVE  StagedInv'
<1>0. InboxTypeOK BY DEF KeptInv
<1>1. ASSUME NEW w \in Writers, Upload(w) \/ Fetch(w) PROVE StagedInv'
  <2>1. CASE Upload(w)
    <3>1. PICK n \in Uploads, b \in Bodies : Create(w, n, b) BY <2>1 DEF Upload
    <3>2. n \in Names BY DEF Names
    <3> QED BY <3>1, <3>2, CreateStages
  <2>2. CASE Fetch(w)
    <3>1. PICK f \in Fetched : Create(w, <<writer[w].url, f[1]>>, f[2]) BY <2>2 DEF Fetch
    <3>2. writer[w].pc = "fetch" BY <2>2 DEF Fetch
    <3>3. f[1] \in UrlKinds /\ writer[w].url \in Urls
      BY <1>0, <3>2, InboxAssumption DEF Fetched, InboxTypeOK, WriterSet
    <3> DEFINE n == <<writer[w].url, f[1]>>
    <3>4. n \in Names /\ n \in Urls \X UrlKinds /\ n[1] = writer[w].url BY <3>3 DEF Names
    <3>5. Create(w, n, f[2]) BY <3>1
    <3> HIDE DEF n
    <3> QED BY <3>2, <3>4, <3>5, CreateStages
  <2> QED BY <1>1, <2>1, <2>2
<1>2. ASSUME NEW w \in Writers, Upload(w) \/ AddURL(w) \/ WriterStep(w) PROVE StagedInv'
  BY <1>1, <1>2, WriterStages, LookupStages DEF WriterStep
<1>3. ASSUME NEW i \in Ingests, Start(i) \/ IngestStep(i) \/ IngestFails(i) PROVE StagedInv'
  BY <1>3, IngestStages, RemovalStages, RenameStages DEF IngestStep, ArchiveStep
<1>4. CASE UNCHANGED vars
  <2>1. UNCHANGED <<writer, ingest>> /\ collectInboxFiles' = collectInboxFiles
    BY <1>4 DEF vars, collectInboxFiles, File
  <2> QED BY <2>1, NothingStaged DEF StagedInv, OpenFiles, Cleared
<1> QED BY <1>2, <1>3, <1>4, RemovalStages, IngestStages DEF Next

\* handleURL: whatever names, uploads, ingests, failures and kills there are, a link
\* has one file at most, staged, archived or on its way there, as long as one
\* request adds links at a time and no upload takes the name of a staged link.
THEOREM LinkStagedOnce == ASSUME LinksApart PROVE Spec => []StagedOnce
<1>1. StagedInv => StagedOnce
  <2> SUFFICES ASSUME StagedInv, NEW u \in Urls
               PROVE  Cardinality({p \in Places : p[2] \in Urls \X UrlKinds /\ p[2][1] = u /\ File(p) # None}) <= 1
    BY DEF StagedOnce
  <2> DEFINE S == {p \in Places : p[2] \in Urls \X UrlKinds /\ p[2][1] = u /\ File(p) # None}
  <2>1. S = StagedLinks(u) BY DEF StagedLinks, LinkPlaces, collectInboxFiles
  <2>2. \A p, q \in S : p = q BY <2>1 DEF StagedInv, OneFile
  <2> HIDE DEF S
  <2>3. CASE S = {}
    <3>1. Cardinality(S) = 0 BY <2>3, FS_EmptySet, Zenon
    <3> QED BY <3>1 DEF S
  <2>4. CASE S # {}
    <3>1. PICK p \in S : S = {p} BY <2>2, <2>4
    <3>2. Cardinality(S) = 1 BY <3>1, FS_Singleton, Zenon
    <3> QED BY <3>2 DEF S
  <2> QED BY <2>3, <2>4 DEF S
<1>2. KeptInv /\ StagedInv /\ [Next]_vars => StagedInv' BY StagedStep
<1> QED BY <1>1, <1>2, StagedInitially, KeptAlways, PTL DEF Spec
-----------------------------------------------------------------------------
(* A successful ingest indexes what it found and nobody touched since.       *)

\* Ingest i has the mutex.  While it has it, what is `stable` has a file nobody is
\* writing to; when it reads, every stable file is still to be read or was read as it
\* is; once it has succeeded, every stable file is indexed with its contents, and what
\* it still has to archive of them is staged.
InLock(i) == ingest[i].pc \notin {"idle", "lock"}
Undisturbed(i) == \A n \in ingest[i].stable : Where(n) # None /\ ~Open(<<"top", n>>) /\ ~Open(<<"arch", n>>)
ReadSoFar(i) ==
  /\ IsFiniteSet(ingest[i].got)
  /\ ingest[i].pc = "read" => \A p \in collectInboxFiles : p[2] \in ingest[i].stable =>
                                p \in ingest[i].todo \/ <<p, File(p)>> \in ingest[i].got
Indexed(i) ==
  ingest[i].ok => /\ InLock(i) /\ ingest[i].pc \notin {"walk", "read"}
                  /\ \A n \in ingest[i].stable : index[IdOf(n)] = Where(n)
StillStaged(i) ==
  /\ ingest[i].pc \in {"archive", "rename"} =>
       \A p \in ingest[i].todo : p[2] \in ingest[i].stable => top[p[2]] # None
  /\ ingest[i].pc = "rename" =>
       (ingest[i].moving \in ingest[i].stable => top[ingest[i].moving] # None)

IngestInv(i) == /\ InLock(i) => lock = i /\ Undisturbed(i)
                /\ ReadSoFar(i) /\ Indexed(i) /\ StillStaged(i)
IndexInv == \A i \in Ingests : IngestInv(i)

\* An ingest that is not at work owes nothing.
LEMMA AtRest ==
  ASSUME NEW i \in Ingests, ingest[i].pc \in {"idle", "lock"}, ~ingest[i].ok, IsFiniteSet(ingest[i].got)
  PROVE  IngestInv(i)
BY DEF IngestInv, InLock, ReadSoFar, Indexed, StillStaged

LEMMA IndexInitially == Init => IndexInv
<1> SUFFICES ASSUME Init, NEW i \in Ingests PROVE IngestInv(i) BY DEF IndexInv
<1>1. ingest[i] = IdleIngest BY DEF Init
<1>2. ingest[i].pc = "idle" /\ ~ingest[i].ok /\ ingest[i].got = {} BY <1>1 DEF IdleIngest
<1>3. IsFiniteSet({}) BY FS_EmptySet
<1> QED BY <1>2, <1>3, AtRest

\* A step of somebody else: it touches no file of a stable name and opens none.
LEMMA Bystander ==
  ASSUME InboxTypeOK, NEW i \in Ingests, IngestInv(i),
         /\ ingest'[i].pc = ingest[i].pc /\ ingest'[i].todo = ingest[i].todo /\ ingest'[i].got = ingest[i].got
         /\ ingest'[i].moving = ingest[i].moving /\ ingest'[i].ok = ingest[i].ok
         /\ ingest'[i].stable \subseteq ingest[i].stable,
         InLock(i) =>
           /\ lock' = lock /\ index' = index
           /\ \A n \in ingest'[i].stable :
                /\ top'[n] = top[n] /\ arch'[n] = arch[n]
                /\ \A w \in Writers : writer'[w].at \in {<<"top", n>>, <<"arch", n>>} =>
                                       \E v \in Writers : writer[v].at = writer'[w].at
  PROVE  IngestInv(i)'
<1>1. CASE ~InLock(i)
  <2>1. ingest'[i].pc \in {"idle", "lock"} /\ ~ingest'[i].ok /\ IsFiniteSet(ingest'[i].got)
    BY <1>1 DEF IngestInv, InLock, Indexed, ReadSoFar
  <2> QED BY <2>1 DEF IngestInv, InLock, ReadSoFar, Indexed, StillStaged
<1>2. CASE InLock(i)
  <2>1. \A n \in ingest'[i].stable : top'[n] = top[n] /\ arch'[n] = arch[n] BY <1>2
  <2>2. InLock(i)' => lock' = i BY <1>2 DEF InLock, IngestInv
  <2>3. Undisturbed(i)'
    <3> SUFFICES ASSUME NEW n \in ingest'[i].stable
                 PROVE  /\ (IF top'[n] # None THEN top'[n] ELSE arch'[n]) # None
                        /\ \A w \in Writers : writer'[w].at # <<"top", n>> /\ writer'[w].at # <<"arch", n>>
      BY DEF Undisturbed, Where, Open
    <3>1. /\ (IF top[n] # None THEN top[n] ELSE arch[n]) # None
          /\ \A w \in Writers : writer[w].at # <<"top", n>> /\ writer[w].at # <<"arch", n>>
      BY <1>2 DEF IngestInv, Undisturbed, Where, Open
    <3>2. ASSUME NEW w \in Writers, writer'[w].at \in {<<"top", n>>, <<"arch", n>>} PROVE FALSE
      <4>1. PICK v \in Writers : writer[v].at = writer'[w].at BY <1>2, <3>2
      <4> QED BY <3>1, <3>2, <4>1
    <3>3. (IF top'[n] # None THEN top'[n] ELSE arch'[n]) # None BY <2>1, <3>1
    <3> QED BY <3>2, <3>3
  <2>4. ReadSoFar(i)'
    <3> SUFFICES ASSUME ingest'[i].pc = "read", NEW p \in collectInboxFiles', p[2] \in ingest'[i].stable
                 PROVE  p \in ingest'[i].todo \/ <<p, IF p[1] = "top" THEN top'[p[2]] ELSE arch'[p[2]]>> \in ingest'[i].got
      BY DEF ReadSoFar, IngestInv, File
    <3>1. top'[p[2]] = top[p[2]] /\ arch'[p[2]] = arch[p[2]] BY <2>1
    <3>2. p \in collectInboxFiles BY <3>1 DEF collectInboxFiles, File
    <3> QED BY <3>1, <3>2 DEF IngestInv, ReadSoFar, File
  <2>5. Indexed(i)' BY <1>2, <2>1 DEF IngestInv, Indexed, InLock, Where
  <2>6. StillStaged(i)' BY <2>1 DEF IngestInv, StillStaged
  <2> QED BY <2>2, <2>3, <2>4, <2>5, <2>6 DEF IngestInv
<1> QED BY <1>1, <1>2

\* A step of ingest i itself that leaves the files alone.
LEMMA OwnStep ==
  ASSUME InboxTypeOK, NEW i \in Ingests, IngestInv(i), InLock(i), NEW r,
         ingest' = [ingest EXCEPT ![i] = r], UNCHANGED <<top, arch, writer, lock>>,
         r.stable = ingest[i].stable, r.pc \notin {"idle", "lock"}, IsFiniteSet(r.got),
         r.pc = "read" => \A p \in collectInboxFiles : p[2] \in r.stable => p \in r.todo \/ <<p, File(p)>> \in r.got,
         r.ok => r.pc \notin {"walk", "read"} /\ \A n \in r.stable : index'[IdOf(n)] = Where(n),
         r.pc = "archive" => \A p \in r.todo : p[2] \in r.stable => top[p[2]] # None,
         r.pc # "rename"
  PROVE  IngestInv(i)'
<1>1. ingest'[i] = r BY DEF InboxTypeOK
<1>2. collectInboxFiles' = collectInboxFiles BY DEF collectInboxFiles, File
<1>3. InLock(i)' => lock' = i BY DEF IngestInv
<1>4. Undisturbed(i)' BY <1>1 DEF IngestInv, Undisturbed, Where, Open
<1>5. ReadSoFar(i)' BY <1>1, <1>2 DEF ReadSoFar, File
<1>6. Indexed(i)' BY <1>1 DEF Indexed, InLock, Where
<1>7. StillStaged(i)' BY <1>1 DEF StillStaged
<1> QED BY <1>3, <1>4, <1>5, <1>6, <1>7 DEF IngestInv

\* Uploads, links and DELETE take the name they touch out of `stable`.
LEMMA ClientsIndex ==
  ASSUME KeptInv, IndexInv,
         \/ \E w \in Writers : AddURL(w) \/ FindTop(w) \/ FindArchived(w) \/ Copy(w)
         \/ \E w \in Writers, n \in Names : \E b : Create(w, n, b)
         \/ Delete
  PROVE  IndexInv'
<1> SUFFICES ASSUME NEW i \in Ingests PROVE IngestInv(i)' BY DEF IndexInv
<1>0. InboxTypeOK /\ IngestInv(i) BY DEF KeptInv, IndexInv
<1>1. ingest[i].stable \subseteq Names BY <1>0 DEF InboxTypeOK, IngestSet
<1>2. \A n : Unlinked # <<"top", n>> /\ Unlinked # <<"arch", n>> BY DEF Unlinked
<1>3. ASSUME NEW w \in Writers, Copy(w) PROVE IngestInv(i)'
  <2> DEFINE p == writer[w].at
             body == writer[w].body
  <2>1. writer[w] \in WriterRecord BY <1>0 DEF InboxTypeOK, WriterSet
  <2>2. /\ top' = (IF p[1] = "top" THEN [top EXCEPT ![p[2]] = body] ELSE top)
        /\ arch' = (IF p[1] = "arch" THEN [arch EXCEPT ![p[2]] = body] ELSE arch)
        /\ writer' = [writer EXCEPT ![w] = IdleWriter] /\ UNCHANGED <<lock, ingest, index>>
    BY <1>3 DEF Copy
  <2>3. p \in Places \cup {Unlinked} BY <2>1 DEF WriterRecord
  <2>4. p[1] \in {"top", "arch"} => p = <<p[1], p[2]>> /\ p[2] \in Names BY <2>3 DEF Places, Unlinked
  <2>5. ASSUME InLock(i), NEW n \in ingest[i].stable PROVE p # <<"top", n>> /\ p # <<"arch", n>>
    BY <1>0, <2>5 DEF IngestInv, Undisturbed, Open
  <2>6. \A v \in Writers : writer'[v].at = writer[v].at \/ writer'[v].at = Unlinked
    <3>1. IdleWriter.at = Unlinked BY DEF IdleWriter
    <3>2. \A v \in Writers : writer'[v] = IF v = w THEN IdleWriter ELSE writer[v] BY <1>0, <2>2 DEF InboxTypeOK
    <3> QED BY <3>1, <3>2
  <2> HIDE DEF p, body
  <2>7. ASSUME InLock(i), NEW n \in ingest[i].stable PROVE top'[n] = top[n] /\ arch'[n] = arch[n]
    BY <1>0, <1>1, <2>2, <2>4, <2>5, <2>7 DEF InboxTypeOK
  <2> QED BY <1>0, <1>2, <2>2, <2>6, <2>7, Bystander
<1>4. ASSUME NEW w \in Writers, AddURL(w) \/ FindTop(w) \/ FindArchived(w) PROVE IngestInv(i)'
  <2>1. UNCHANGED <<top, arch, ingest, lock, index>> BY <1>4 DEF AddURL, FindTop, FindArchived, files
  <2>2. writer[w] \in WriterRecord BY <1>0 DEF InboxTypeOK, WriterSet
  <2>3. PICK r : writer' = [writer EXCEPT ![w] = r] /\ r.at \in {writer[w].at, Unlinked}
    <3>1. CASE writer' = [writer EXCEPT ![w] = IdleWriter]
      <4>1. IdleWriter.at = Unlinked BY DEF IdleWriter
      <4> QED BY <3>1, <4>1
    <3>2. ASSUME NEW pc, NEW u, writer' = [writer EXCEPT ![w] = [writer[w] EXCEPT !.pc = pc, !.url = u]]
          PROVE  \E r : writer' = [writer EXCEPT ![w] = r] /\ r.at \in {writer[w].at, Unlinked}
      <4> DEFINE r == [writer[w] EXCEPT !.pc = pc, !.url = u]
      <4>1. r.at = writer[w].at BY <2>2 DEF WriterRecord
      <4>2. writer' = [writer EXCEPT ![w] = r] BY <3>2
      <4> HIDE DEF r
      <4> QED BY <4>1, <4>2
    <3>3. ASSUME NEW pc, writer' = [writer EXCEPT ![w] = [writer[w] EXCEPT !.pc = pc]]
          PROVE  \E r : writer' = [writer EXCEPT ![w] = r] /\ r.at \in {writer[w].at, Unlinked}
      <4> DEFINE r == [writer[w] EXCEPT !.pc = pc]
      <4>1. r.at = writer[w].at BY <2>2 DEF WriterRecord
      <4>2. writer' = [writer EXCEPT ![w] = r] BY <3>3
      <4> HIDE DEF r
      <4> QED BY <4>1, <4>2
    <3>4. \/ writer' = [writer EXCEPT ![w] = IdleWriter]
          \/ \E pc, u : writer' = [writer EXCEPT ![w] = [writer[w] EXCEPT !.pc = pc, !.url = u]]
          \/ \E pc : writer' = [writer EXCEPT ![w] = [writer[w] EXCEPT !.pc = pc]]
      BY <1>4 DEF AddURL, FindTop, FindArchived
    <3> QED BY <3>1, <3>2, <3>3, <3>4
  <2>4. \A v \in Writers : writer'[v] = IF v = w THEN r ELSE writer[v] BY <1>0, <2>3 DEF InboxTypeOK
  <2>5. \A v \in Writers : writer'[v].at = writer[v].at \/ writer'[v].at = Unlinked BY <2>3, <2>4
  <2> QED BY <1>0, <1>2, <2>1, <2>5, Bystander
<1>5. ASSUME NEW n \in Names, Touched(n)
      PROVE  /\ ingest'[i].pc = ingest[i].pc /\ ingest'[i].todo = ingest[i].todo /\ ingest'[i].got = ingest[i].got
             /\ ingest'[i].moving = ingest[i].moving /\ ingest'[i].ok = ingest[i].ok
             /\ ingest'[i].stable = ingest[i].stable \ {n}
  <2>1. ingest'[i] = [ingest[i] EXCEPT !.stable = ingest[i].stable \ {n}] BY <1>5 DEF Touched
  <2>2. ingest[i] \in IngestSet BY <1>0 DEF InboxTypeOK
  <2> QED BY <2>1, <2>2 DEF IngestSet
<1>6. ASSUME NEW w \in Writers, NEW n \in Names, NEW b, Create(w, n, b) PROVE IngestInv(i)'
  <2> DEFINE r == [writer[w] EXCEPT !.pc = "copy", !.url = None, !.body = b, !.at = <<"top", n>>]
  <2>1. /\ top' = [top EXCEPT ![n] = Empty] /\ UNCHANGED <<arch, lock, index>>
        /\ writer' = [writer EXCEPT ![w] = r] /\ Touched(n)
    BY <1>6 DEF Create
  <2>2. writer[w] \in WriterRecord BY <1>0 DEF InboxTypeOK, WriterSet
  <2>3. r.at = <<"top", n>> BY <2>2 DEF WriterRecord
  <2>4. \A v \in Writers : writer'[v] = IF v = w THEN r ELSE writer[v] BY <1>0, <2>1 DEF InboxTypeOK
  <2> HIDE DEF r
  <2>5. \A m \in ingest'[i].stable :
          /\ top'[m] = top[m] /\ arch'[m] = arch[m]
          /\ \A v \in Writers : writer'[v].at \in {<<"top", m>>, <<"arch", m>>} => writer[v].at = writer'[v].at
    <3> SUFFICES ASSUME NEW m \in ingest'[i].stable
                 PROVE  /\ top'[m] = top[m] /\ arch'[m] = arch[m]
                        /\ \A v \in Writers : writer'[v].at \in {<<"top", m>>, <<"arch", m>>} => writer[v].at = writer'[v].at
      OBVIOUS
    <3>1. m # n /\ m \in Names BY <1>1, <1>5, <2>1
    <3>2. top'[m] = top[m] BY <1>0, <2>1, <3>1 DEF InboxTypeOK
    <3> QED BY <2>1, <2>3, <2>4, <3>1, <3>2
  <2>6. ingest'[i].stable \subseteq ingest[i].stable BY <1>5, <2>1
  <2> QED BY <1>0, <1>5, <2>1, <2>5, <2>6, Bystander
<1>7. ASSUME Delete PROVE IngestInv(i)'
  <2>1. PICK n \in Names : /\ top' = [top EXCEPT ![n] = None] /\ UNCHANGED <<arch, lock, index>>
                           /\ Follow(<<"top", n>>, Unlinked) /\ Touched(n)
    BY <1>7 DEF Delete
  <2>2. \A v \in Writers : writer'[v].at = writer[v].at \/ writer'[v].at = Unlinked BY <1>0, <2>1, Followed
  <2>3. \A m \in ingest'[i].stable : m \in ingest[i].stable /\ m # n BY <1>5, <2>1
  <2>4. \A m \in ingest'[i].stable : top'[m] = top[m] /\ arch'[m] = arch[m]
    BY <1>0, <1>1, <2>1, <2>3 DEF InboxTypeOK
  <2>5. ingest'[i].stable \subseteq ingest[i].stable BY <2>3
  <2> QED BY <1>0, <1>2, <1>5, <2>1, <2>2, <2>4, <2>5, Bystander
<1> QED BY <1>3, <1>4, <1>6, <1>7

\* What an ingest has read of a concept with one document is that document.
LEMMA ReadOne ==
  ASSUME NEW i \in Ingests, IsFiniteSet(ingest[i].got), NEW c \in Ids, Cardinality(GotAs(i, c)) <= 1,
         NEW g \in GotAs(i, c)
  PROVE  GotAs(i, c) = {g}
<1>1. GotAs(i, c) \in SUBSET ingest[i].got BY DEF GotAs
<1>2. IsFiniteSet(GotAs(i, c)) BY <1>1, FS_Subset
<1>3. Cardinality(GotAs(i, c)) \in Nat BY <1>2, FS_CardinalityType
<1>4. Cardinality(GotAs(i, c)) # 0 BY <1>2, FS_EmptySet
<1>5. Cardinality(GotAs(i, c)) = 1 BY <1>3, <1>4
<1>6. \E x : GotAs(i, c) = {x} BY <1>2, <1>5, FS_Singleton
<1> QED BY <1>6

\* Run: the snapshot has every stable name with its contents.
LEMMA SnapshotIsCurrent ==
  ASSUME InboxTypeOK, NEW i \in Ingests, IngestInv(i), Gathered(i), ~Duplicates(i), NEW n \in ingest[i].stable
  PROVE  Snapshot(i)[IdOf(n)] = Where(n)
<1>0. ingest[i] \in IngestSet BY DEF InboxTypeOK
<1>1. n \in Names BY <1>0 DEF IngestSet
<1>2. ingest[i].pc = "read" /\ ingest[i].todo = {} BY DEF Gathered, At
<1>3. Where(n) # None BY <1>2 DEF IngestInv, InLock, Undisturbed
<1>4. \A p \in collectInboxFiles : p[2] = n => <<p, File(p)>> \in ingest[i].got
  BY <1>2 DEF IngestInv, ReadSoFar
<1>5. PICK p \in collectInboxFiles : p[2] = n /\ File(p) = Where(n)
  <2>1. CASE top[n] # None
    <3>1. <<"top", n>> \in collectInboxFiles BY <1>1, <2>1, Listed
    <3>2. File(<<"top", n>>) = Where(n) BY <2>1 DEF File, Where
    <3> QED BY <3>1, <3>2
  <2>2. CASE top[n] = None
    <3>1. <<"arch", n>> \in collectInboxFiles BY <1>1, <1>3, <2>2, Listed DEF Where
    <3>2. File(<<"arch", n>>) = Where(n) BY <2>2 DEF File, Where
    <3> QED BY <3>1, <3>2
  <2> QED BY <2>1, <2>2
<1> DEFINE g == <<p, File(p)>>
<1>6. g \in ingest[i].got BY <1>4, <1>5
<1>7. IdOf(n) \in Ids BY <1>1 DEF Ids
<1>8. g \in GotAs(i, IdOf(n)) BY <1>5, <1>6 DEF GotAs
<1>9. Cardinality(GotAs(i, IdOf(n))) <= 1
  <2>1. ~(Cardinality(GotAs(i, IdOf(n))) > 1) BY <1>7 DEF Duplicates
  <2>2. GotAs(i, IdOf(n)) \in SUBSET ingest[i].got BY DEF GotAs
  <2>3. IsFiniteSet(GotAs(i, IdOf(n))) BY <2>2, FS_Subset DEF IngestInv, ReadSoFar
  <2>4. Cardinality(GotAs(i, IdOf(n))) \in Nat BY <2>3, FS_CardinalityType
  <2> QED BY <2>1, <2>4
<1>10. GotAs(i, IdOf(n)) = {g}
  <2> HIDE DEF g
  <2> QED BY <1>7, <1>8, <1>9, ReadOne DEF IngestInv, ReadSoFar
<1>11. Snapshot(i)[IdOf(n)] = g[2]
  <2>1. Snapshot(i)[IdOf(n)] = (CHOOSE h \in GotAs(i, IdOf(n)) : TRUE)[2] BY <1>7, <1>8 DEF Snapshot
  <2>2. (CHOOSE h \in GotAs(i, IdOf(n)) : TRUE) = g BY <1>10
  <2> QED BY <2>1, <2>2
<1> QED BY <1>5, <1>11

\* The steps of an ingest that has the mutex, up to archiving.
LEMMA GatherIndexes ==
  ASSUME KeptInv, NEW i \in Ingests, IngestInv(i),
         Walk(i) \/ Read(i) \/ DuplicateId(i) \/ Run(i) \/ IngestFails(i) \/ ReadDir(i) \/ Archived(i)
  PROVE  IngestInv(i)'
<1>0. InboxTypeOK /\ ingest[i] \in IngestSet BY DEF KeptInv, InboxTypeOK
<1>1. /\ UNCHANGED <<top, arch, writer, lock>> /\ ingest[i].pc \in {"walk", "read", "readdir", "archive"}
      /\ InLock(i)
  BY DEF Walk, Read, DuplicateId, Run, IngestFails, ReadDir, Archived, Gathered, At, files, InLock
<1>2. IsFiniteSet(ingest[i].got) BY DEF IngestInv, ReadSoFar
<1>3. ingest[i].pc \in {"walk", "read"} => ~ingest[i].ok BY DEF IngestInv, Indexed
<1>4. ASSUME Walk(i) PROVE IngestInv(i)'
  <2> DEFINE r == [ingest[i] EXCEPT !.pc = "read", !.got = {}, !.todo = collectInboxFiles]
  <2>1. ingest' = [ingest EXCEPT ![i] = r] /\ ~ingest[i].ok BY <1>3, <1>4 DEF Walk, At
  <2>2. r.pc = "read" /\ r.got = {} /\ r.todo = collectInboxFiles /\ r.ok = ingest[i].ok /\ r.stable = ingest[i].stable
    BY <1>0 DEF IngestSet
  <2>3. IsFiniteSet(r.got) BY <2>2, FS_EmptySet
  <2> HIDE DEF r
  <2> QED BY <1>0, <1>1, <2>1, <2>2, <2>3, OwnStep
<1>5. ASSUME ingest' = [ingest EXCEPT ![i] = [ingest[i] EXCEPT !.pc = "unlock"]],
             ingest[i].ok => index' = index
      PROVE  IngestInv(i)'
  <2> DEFINE r == [ingest[i] EXCEPT !.pc = "unlock"]
  <2>1. r.pc = "unlock" /\ r.got = ingest[i].got /\ r.ok = ingest[i].ok /\ r.stable = ingest[i].stable
    BY <1>0 DEF IngestSet
  <2>2. ingest' = [ingest EXCEPT ![i] = r] BY <1>5
  <2> HIDE DEF r
  <2>3. r.ok => \A n \in r.stable : index'[IdOf(n)] = Where(n) BY <1>5, <2>1 DEF IngestInv, Indexed
  <2> QED BY <1>0, <1>1, <1>2, <2>1, <2>2, <2>3, OwnStep
<1>6. ASSUME DuplicateId(i) \/ IngestFails(i) \/ Archived(i) PROVE IngestInv(i)'
  <2>1. ingest' = [ingest EXCEPT ![i] = [ingest[i] EXCEPT !.pc = "unlock"]]
    BY <1>6 DEF DuplicateId, IngestFails, Archived, Goto
  <2>2. ingest[i].ok => index' = index BY <1>3, <1>6 DEF DuplicateId, IngestFails, Archived, At
  <2> QED BY <1>5, <2>1, <2>2
<1>7. ASSUME Read(i) PROVE IngestInv(i)'
  <2>1. PICK p \in ingest[i].todo :
          ingest' = [ingest EXCEPT ![i] = IF Fails(p) THEN [ingest[i] EXCEPT !.pc = "unlock"] ELSE Taken(i, p)]
    BY <1>7 DEF Read
  <2>2. ingest[i].pc = "read" /\ index' = index BY <1>7 DEF Read, At
  <2>3. CASE Fails(p) BY <1>5, <2>1, <2>2, <2>3
  <2>4. CASE ~Fails(p)
    <3> DEFINE t == ingest[i].todo \ {p}
               g == <<p, IF File(p) = None THEN Gone ELSE File(p)>>
               got == ingest[i].got \cup {g}
               r == [ingest[i] EXCEPT !.todo = t, !.got = got]
    <3>1. Taken(i, p) = r BY <1>0 DEF Taken, IngestSet
    <3>2. ingest' = [ingest EXCEPT ![i] = r] BY <2>1, <2>4, <3>1
    <3>3. IsFiniteSet(got)
      <4> HIDE DEF g
      <4> QED BY <1>2, FS_AddElement
    <3>4. \A q \in collectInboxFiles : q[2] \in ingest[i].stable => q \in t \/ <<q, File(q)>> \in got
      <4> SUFFICES ASSUME NEW q \in collectInboxFiles, q[2] \in ingest[i].stable, q \notin t PROVE <<q, File(q)>> \in got
        OBVIOUS
      <4>1. q \in ingest[i].todo \/ <<q, File(q)>> \in ingest[i].got BY <2>2 DEF IngestInv, ReadSoFar
      <4>2. q = p => g = <<q, File(q)>> BY DEF collectInboxFiles
      <4> HIDE DEF g
      <4> QED BY <4>1, <4>2
    <3> HIDE DEF t, g, got
    <3>5. r.pc = "read" /\ r.todo = t /\ r.got = got /\ r.ok = ingest[i].ok /\ r.stable = ingest[i].stable
      BY <1>0, <2>2 DEF IngestSet
    <3> HIDE DEF r
    <3> QED BY <1>0, <1>1, <1>3, <2>2, <3>2, <3>3, <3>4, <3>5, OwnStep
  <2> QED BY <2>3, <2>4
<1>8. ASSUME Run(i) PROVE IngestInv(i)'
  <2> DEFINE pc == IF i = "handler" THEN "readdir" ELSE "unlock"
             r == [ingest[i] EXCEPT !.ok = TRUE, !.pc = pc]
  <2>1. ingest' = [ingest EXCEPT ![i] = r] /\ index' = Snapshot(i) /\ Gathered(i) /\ ~Duplicates(i) BY <1>8 DEF Run
  <2>2. pc \in {"readdir", "unlock"} OBVIOUS
  <2> HIDE DEF pc
  <2>3. r.pc = pc /\ r.got = ingest[i].got /\ r.stable = ingest[i].stable BY <1>0 DEF IngestSet
  <2> HIDE DEF r
  <2>4. \A n \in r.stable : index'[IdOf(n)] = Where(n) BY <1>0, <2>1, <2>3, SnapshotIsCurrent
  <2> QED BY <1>0, <1>1, <1>2, <2>1, <2>2, <2>3, <2>4, OwnStep
<1>9. ASSUME ReadDir(i) PROVE IngestInv(i)'
  <2> DEFINE staged == {p \in Places : p[1] = "top" /\ File(p) # None}
             r == [ingest[i] EXCEPT !.pc = "archive", !.todo = staged]
  <2>1. ingest' = [ingest EXCEPT ![i] = r] /\ index' = index BY <1>9 DEF ReadDir
  <2>2. \A p \in staged : top[p[2]] # None BY DEF File
  <2> HIDE DEF staged
  <2>3. r.pc = "archive" /\ r.todo = staged /\ r.got = ingest[i].got /\ r.ok = ingest[i].ok /\ r.stable = ingest[i].stable
    BY <1>0 DEF IngestSet
  <2> HIDE DEF r
  <2>4. r.ok => \A n \in r.stable : index'[IdOf(n)] = Where(n) BY <2>1, <2>3 DEF IngestInv, Indexed
  <2> QED BY <1>0, <1>1, <1>2, <2>1, <2>2, <2>3, <2>4, OwnStep
<1> QED BY <1>4, <1>6, <1>7, <1>8, <1>9

\* archiveInbox: removing the old copy and renaming the staged one leave the contents
\* a stable name is found with, because what is renamed of them is staged.
LEMMA ArchivingIndexes ==
  ASSUME KeptInv, NEW i \in Ingests, IngestInv(i), RemoveOld(i) \/ Rename(i)
  PROVE  IngestInv(i)'
<1>0. InboxTypeOK /\ ingest[i] \in IngestSet /\ Archiving BY DEF KeptInv, InboxTypeOK
<1>1. InLock(i) /\ ingest[i].pc \in {"archive", "rename"} /\ UNCHANGED <<lock, index>>
  BY DEF RemoveOld, Rename, At, InLock
<1>2. ingest[i].stable \subseteq Names /\ ingest[i].todo \subseteq Places BY <1>0 DEF IngestSet
<1>3. \A n : Unlinked # <<"top", n>> /\ Unlinked # <<"arch", n>> BY DEF Unlinked
<1>4. \A n \in ingest[i].stable : \A w \in Writers : writer[w].at # <<"top", n>> /\ writer[w].at # <<"arch", n>>
  BY <1>1 DEF IngestInv, Undisturbed, Open
<1>5. \A p \in ingest[i].todo : p[2] \in Names /\ p = <<"top", p[2]>>
  <2>1. \A p \in ingest[i].todo : p[1] = "top" BY <1>0, <1>1 DEF Archiving
  <2> QED BY <1>2, <2>1 DEF Places
<1>6. \A p \in ingest[i].todo : p[2] \in ingest[i].stable => top[p[2]] # None BY <1>1 DEF IngestInv, StillStaged
<1>7. ASSUME NEW r, ingest' = [ingest EXCEPT ![i] = r],
             r.stable = ingest[i].stable, r.got = ingest[i].got, r.ok = ingest[i].ok,
             r.pc \in {"archive", "rename", "unlock"},
             r.pc \in {"archive", "rename"} => \A p \in r.todo : p[2] \in r.stable => top'[p[2]] # None,
             r.pc = "rename" => (r.moving \in r.stable => top'[r.moving] # None),
             \A n \in ingest[i].stable : (IF top'[n] # None THEN top'[n] ELSE arch'[n]) = Where(n),
             \A n \in ingest[i].stable : \A w \in Writers : writer'[w].at # <<"top", n>> /\ writer'[w].at # <<"arch", n>>
      PROVE  IngestInv(i)'
  <2>1. ingest'[i] = r BY <1>0, <1>7 DEF InboxTypeOK
  <2>2. lock' = i BY <1>1 DEF IngestInv
  <2>3. Undisturbed(i)'
    <3>1. \A n \in ingest[i].stable : Where(n) # None BY <1>1 DEF IngestInv, Undisturbed
    <3> SUFFICES ASSUME NEW n \in ingest'[i].stable
                 PROVE  /\ (IF top'[n] # None THEN top'[n] ELSE arch'[n]) # None
                        /\ \A w \in Writers : writer'[w].at # <<"top", n>> /\ writer'[w].at # <<"arch", n>>
      BY DEF Undisturbed, Where, Open
    <3> QED BY <1>7, <2>1, <3>1
  <2>4. ReadSoFar(i)' BY <1>7, <2>1 DEF IngestInv, ReadSoFar
  <2>5. Indexed(i)'
    <3> SUFFICES ASSUME r.ok PROVE \A n \in r.stable : index'[IdOf(n)] = IF top'[n] # None THEN top'[n] ELSE arch'[n]
      BY <1>7, <2>1 DEF Indexed, InLock, Where
    <3> QED BY <1>1, <1>7 DEF IngestInv, Indexed
  <2>6. StillStaged(i)' BY <1>7, <2>1 DEF StillStaged
  <2> QED BY <2>2, <2>3, <2>4, <2>5, <2>6 DEF IngestInv
<1>8. CASE RemoveOld(i)
  <2>1. PICK p \in ingest[i].todo : /\ arch' = [arch EXCEPT ![p[2]] = None]
                                   /\ Follow(<<"arch", p[2]>>, Unlinked)
                                   /\ ingest' = [ingest EXCEPT ![i] = Moving(i, p)]
    BY <1>8 DEF RemoveOld
  <2>2. UNCHANGED top BY <1>8 DEF RemoveOld
  <2> DEFINE r == Moving(i, p)
             t == ingest[i].todo \ {p}
             n == p[2]
  <2>3. r = [ingest[i] EXCEPT !.pc = "rename", !.todo = t, !.moving = n] BY <1>0 DEF Moving, IngestSet
  <2>4. \A q \in t : q[2] \in ingest[i].stable => top[q[2]] # None BY <1>6
  <2>5. n \in ingest[i].stable => top[n] # None BY <1>6, <2>1
  <2>6. \A m \in ingest[i].stable : (IF top'[m] # None THEN top'[m] ELSE arch'[m]) = Where(m)
    <3> SUFFICES ASSUME NEW m \in ingest[i].stable PROVE (IF top[m] # None THEN top[m] ELSE arch'[m]) = Where(m)
      BY <2>2
    <3>1. m # n => arch'[m] = arch[m] BY <1>0, <1>2, <2>1 DEF InboxTypeOK
    <3> QED BY <2>5, <3>1 DEF Where
  <2>7. \A v \in Writers : writer'[v].at = writer[v].at \/ writer'[v].at = Unlinked BY <1>0, <2>1, Followed
  <2> HIDE DEF t, n
  <2>8. r.pc = "rename" /\ r.todo = t /\ r.moving = n /\ r.stable = ingest[i].stable /\ r.got = ingest[i].got /\ r.ok = ingest[i].ok
    BY <1>0, <2>3 DEF IngestSet
  <2>9. ingest' = [ingest EXCEPT ![i] = r] BY <2>1
  <2> HIDE DEF r
  <2> QED BY <1>3, <1>4, <1>7, <2>2, <2>4, <2>5, <2>6, <2>7, <2>8, <2>9
<1>9. CASE Rename(i)
  <2>1. PICK n : n = ingest[i].moving OBVIOUS
  <2> DEFINE pc == IF top[n] = None THEN "unlock" ELSE "archive"
             r == [ingest[i] EXCEPT !.pc = pc]
  <2>2. /\ ingest[i].pc = "rename" /\ arch' = [arch EXCEPT ![n] = top[n]] /\ top' = [top EXCEPT ![n] = None]
        /\ Follow(<<"top", n>>, <<"arch", n>>)
        /\ ingest' = [ingest EXCEPT ![i] = r]
    BY <1>9, <2>1 DEF Rename, At, Goto
  <2>3. pc \in {"unlock", "archive"} OBVIOUS
  <2> HIDE DEF pc
  <2>4. r.pc = pc /\ r.todo = ingest[i].todo /\ r.stable = ingest[i].stable /\ r.got = ingest[i].got /\ r.ok = ingest[i].ok
    BY <1>0 DEF IngestSet
  <2>5. n \in Names /\ <<"top", n>> \notin ingest[i].todo /\ (n \in ingest[i].stable => top[n] # None)
    BY <1>0, <2>1, <2>2 DEF Archiving, IngestInv, StillStaged
  <2>6. \A m \in Names : m # n => top'[m] = top[m] /\ arch'[m] = arch[m] BY <1>0, <2>2 DEF InboxTypeOK
  <2>7. top'[n] = None /\ arch'[n] = top[n] BY <1>0, <2>2, <2>5 DEF InboxTypeOK
  <2>8. \A q \in ingest[i].todo : q[2] \in ingest[i].stable => top'[q[2]] # None
    <3> SUFFICES ASSUME NEW q \in ingest[i].todo, q[2] \in ingest[i].stable PROVE top'[q[2]] # None OBVIOUS
    <3>1. q[2] # n /\ q[2] \in Names BY <1>5, <2>5
    <3> QED BY <1>6, <2>6, <3>1
  <2>9. \A m \in ingest[i].stable : (IF top'[m] # None THEN top'[m] ELSE arch'[m]) = Where(m)
    <3> SUFFICES ASSUME NEW m \in ingest[i].stable PROVE (IF top'[m] # None THEN top'[m] ELSE arch'[m]) = Where(m)
      OBVIOUS
    <3>1. CASE m = n BY <2>5, <2>7, <3>1 DEF Where
    <3>2. CASE m # n BY <1>2, <2>6, <3>2 DEF Where
    <3> QED BY <3>1, <3>2
  <2>10. ASSUME NEW m \in ingest[i].stable, NEW w \in Writers
         PROVE  writer'[w].at # <<"top", m>> /\ writer'[w].at # <<"arch", m>>
    <3>1. writer'[w].at = IF writer[w].at = <<"top", n>> THEN <<"arch", n>> ELSE writer[w].at BY <1>0, <2>2, Followed
    <3>2. m = n => writer[w].at # <<"top", n>> BY <1>4
    <3> QED BY <1>4, <3>1, <3>2
  <2> HIDE DEF r
  <2> QED BY <1>7, <2>2, <2>3, <2>4, <2>8, <2>9, <2>10
<1> QED BY <1>8, <1>9

\* What an ingest does while it has the mutex is a bystander's step to the other one,
\* which does not have it.
LEMMA OthersIndex ==
  ASSUME KeptInv, IndexInv, NEW i \in Ingests, NEW j \in Ingests, i # j, Start(j) \/ IngestStep(j) \/ IngestFails(j)
  PROVE  IngestInv(i)'
<1>0. InboxTypeOK /\ IngestInv(i) /\ IngestInv(j) BY DEF KeptInv, IndexInv
<1>1. \E r : ingest' = [ingest EXCEPT ![j] = r]
  BY DEF Start, IngestStep, IngestFails, ArchiveStep, Lock, Enter, Walk, Read, DuplicateId, Run, ReadDir, RemoveOld,
         Rename, Archived, Unlock, Leave, Goto
<1>2. ingest'[i] = ingest[i] BY <1>0, <1>1 DEF InboxTypeOK
<1>3. CASE InLock(i)
  <2>1. lock = i BY <1>0, <1>3 DEF IngestInv
  <2>2. ~InLock(j) BY <1>0, <2>1 DEF IngestInv
  <2>3. Start(j)
    <3>1. ~Lock(j) BY <2>1, InboxAssumption DEF Lock
    <3> QED BY <2>2, <3>1 DEF InLock, IngestStep, IngestFails, ArchiveStep, Walk, Read, DuplicateId, Run, Gathered,
                             ReadDir, RemoveOld, Rename, Archived, Unlock, Leave, At
  <2>4. UNCHANGED <<top, arch, writer, lock, index>> BY <2>3 DEF Start, files
  <2> QED BY <1>0, <1>2, <2>4, Bystander
<1>4. CASE ~InLock(i) BY <1>0, <1>2, <1>4, Bystander
<1> QED BY <1>3, <1>4

LEMMA IndexStep ==
  ASSUME KeptInv, IndexInv, [Next]_vars
  PROVE  IndexInv'
<1>0. InboxTypeOK BY DEF KeptInv
<1>1. ASSUME NEW w \in Writers, Upload(w) \/ AddURL(w) \/ WriterStep(w) PROVE IndexInv'
  <2>1. CASE Upload(w)
    <3>1. PICK n \in Uploads, b \in Bodies : Create(w, n, b) BY <2>1 DEF Upload
    <3>2. n \in Names BY DEF Names
    <3> QED BY <3>1, <3>2, ClientsIndex
  <2>2. CASE Fetch(w)
    <3>1. PICK f \in Fetched : Create(w, <<writer[w].url, f[1]>>, f[2]) BY <2>2 DEF Fetch
    <3>2. writer[w].pc = "fetch" BY <2>2 DEF Fetch
    <3>3. f[1] \in UrlKinds /\ writer[w].url \in Urls
      BY <1>0, <3>2, InboxAssumption DEF Fetched, InboxTypeOK, WriterSet
    <3>4. <<writer[w].url, f[1]>> \in Names BY <3>3 DEF Names
    <3> QED BY <3>1, <3>4, ClientsIndex
  <2> QED BY <1>1, <2>1, <2>2, ClientsIndex DEF WriterStep
<1>2. ASSUME NEW j \in Ingests, Start(j) \/ IngestStep(j) \/ IngestFails(j) PROVE IndexInv'
  <2> SUFFICES ASSUME NEW i \in Ingests PROVE IngestInv(i)' BY DEF IndexInv
  <2>0. IngestInv(j) /\ ingest[j] \in IngestSet BY <1>0 DEF IndexInv, InboxTypeOK
  <2>1. CASE i # j BY <1>2, <2>1, OthersIndex
  <2>2. CASE i = j
    <3>1. CASE Start(j)
      <4> DEFINE r == [ingest[j] EXCEPT !.pc = "lock"]
      <4>1. ingest' = [ingest EXCEPT ![j] = r] /\ ingest[j].pc = "idle" BY <3>1 DEF Start, Goto, At
      <4>2. r.pc = "lock" /\ r.ok = ingest[j].ok /\ r.got = ingest[j].got BY <2>0 DEF IngestSet
      <4>3. ~ingest[j].ok /\ IsFiniteSet(ingest[j].got) BY <2>0, <4>1 DEF IngestInv, Indexed, InLock, ReadSoFar
      <4> HIDE DEF r
      <4>4. ingest'[j] = r BY <1>0, <4>1 DEF InboxTypeOK
      <4> QED BY <2>2, <4>2, <4>3, <4>4 DEF IngestInv, InLock, ReadSoFar, Indexed, StillStaged
    <3>2. CASE Lock(j)
      <4> DEFINE s == {n \in Names : /\ top[n] # None \/ arch[n] # None
                                     /\ ~Open(<<"top", n>>) /\ ~Open(<<"arch", n>>)}
                 r == [ingest[j] EXCEPT !.pc = "walk", !.stable = s]
      <4>1. /\ ingest' = [ingest EXCEPT ![j] = r] /\ ingest[j].pc = "lock" /\ lock' = j
            /\ UNCHANGED <<top, arch, writer>>
        BY <3>2 DEF Lock, Enter, At, files
      <4>2. \A n \in s : Where(n) # None /\ ~Open(<<"top", n>>) /\ ~Open(<<"arch", n>>) BY DEF Where
      <4> HIDE DEF s
      <4>3. r.pc = "walk" /\ r.ok = ingest[j].ok /\ r.got = ingest[j].got /\ r.stable = s BY <2>0 DEF IngestSet
      <4>4. ~ingest[j].ok /\ IsFiniteSet(ingest[j].got) BY <2>0, <4>1 DEF IngestInv, Indexed, InLock, ReadSoFar
      <4> HIDE DEF r
      <4>5. ingest'[j] = r BY <1>0, <4>1 DEF InboxTypeOK
      <4>6. Undisturbed(j)' BY <4>1, <4>2, <4>3, <4>5 DEF Undisturbed, Where, Open
      <4> QED BY <2>2, <4>1, <4>3, <4>4, <4>5, <4>6 DEF IngestInv, InLock, ReadSoFar, Indexed, StillStaged
    <3>3. CASE Unlock(j)
      <4>1. ingest' = [ingest EXCEPT ![j] = IdleIngest] BY <3>3 DEF Unlock, Leave
      <4>2. IdleIngest.pc = "idle" /\ ~IdleIngest.ok /\ IdleIngest.got = {} BY DEF IdleIngest
      <4>3. ingest'[j] = IdleIngest BY <1>0, <4>1 DEF InboxTypeOK
      <4>4. IsFiniteSet({}) BY FS_EmptySet
      <4> QED BY <2>2, <4>2, <4>3, <4>4 DEF IngestInv, InLock, ReadSoFar, Indexed, StillStaged
    <3> QED BY <1>2, <2>0, <2>2, <3>1, <3>2, <3>3, GatherIndexes, ArchivingIndexes DEF IngestStep, ArchiveStep
  <2> QED BY <2>1, <2>2
<1>3. CASE Kill
  <2> SUFFICES ASSUME NEW i \in Ingests PROVE IngestInv(i)' BY DEF IndexInv
  <2>1. ingest'[i] = IdleIngest BY <1>3 DEF Kill
  <2>2. IdleIngest.pc = "idle" /\ ~IdleIngest.ok /\ IdleIngest.got = {} BY DEF IdleIngest
  <2>3. IsFiniteSet({}) BY FS_EmptySet
  <2> QED BY <2>1, <2>2, <2>3 DEF IngestInv, InLock, ReadSoFar, Indexed, StillStaged
<1>4. CASE UNCHANGED vars
  <2> SUFFICES ASSUME NEW i \in Ingests PROVE IngestInv(i)' BY DEF IndexInv
  <2>1. UNCHANGED <<top, arch, writer, lock, ingest, index>> BY <1>4 DEF vars
  <2> QED BY <1>0, <2>1, Bystander DEF IndexInv
<1> QED BY <1>1, <1>2, <1>3, <1>4, ClientsIndex DEF Next

\* handleIngest and runGather: when an ingest has succeeded, whatever is uploaded,
\* linked or deleted meanwhile, and however often it failed or the process was killed
\* before, every file that was complete when it took the mutex, and that nobody wrote
\* or deleted since, is indexed with its contents, staged or archived.
THEOREM SuccessIndexes == Spec => []IngestIndexes
<1>1. IndexInv => IngestIndexes BY DEF IndexInv, IngestInv, Indexed, IngestIndexes
<1>2. KeptInv /\ IndexInv /\ [Next]_vars => IndexInv' BY IndexStep
<1> QED BY <1>1, <1>2, IndexInitially, KeptAlways, PTL DEF Spec
=============================================================================
