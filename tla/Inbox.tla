-------------------------------- MODULE Inbox --------------------------------
(***************************************************************************)
(* `serve --ask`: files are staged under <ingest_dir>/inbox by uploads and   *)
(* added URLs, taken out by DELETE, folded into the index by "Ingest now"    *)
(* and by the periodic gather daemon, and archived under inbox/ingested by   *)
(* "Ingest now" only.  The two ingests share serveIngestMu; uploads, URLs    *)
(* and DELETE hold no mutex.                                                 *)
(*                                                                           *)
(* A writer goes on writing to the file it opened, wherever a rename takes   *)
(* it, and to nothing that can be seen once the file is unlinked.            *)
(***************************************************************************)
EXTENDS Naturals, FiniteSets, SequencesExt

CONSTANTS
  Uploads,     \* names of uploaded files
  Urls,        \* normalized URLs
  UploadKind,  \* extension class of an uploaded file: a member of Kinds
  UploadId,    \* id of the concept it becomes (slugs of two names may coincide)
  Uploaders, UrlHandlers,  \* request handlers under way at once
  UrlKinds,    \* what the servers behind the URLs answer with
  Bodies,      \* what uploads hold
  None,
  MaxRequests, MaxFaults \* bounds of the model

Kinds == {"text", "parsed", "attachment"}
Names == Uploads \cup (Urls \X UrlKinds)
IsUpload(n) == n \in Uploads
KindOf(n) == IF IsUpload(n) THEN UploadKind[n] ELSE n[2]
IdOf(n) == IF IsUpload(n) THEN UploadId[n] ELSE n
Ids == {IdOf(n) : n \in Names}

Empty == "empty"  \* created, nothing written yet
Page == "page"    \* a fetched page
Stub == "stub"    \* the link-only note of a failed fetch
Gone == "gone"    \* an attachment whose file went before its size was read
Contents == Bodies \cup {Empty, Page, Stub}

Ingests == {"handler", "daemon"}

ASSUME InboxAssumption ==
  /\ UploadKind \in [Uploads -> Kinds]
  /\ DOMAIN UploadId = Uploads
  /\ "text" \in UrlKinds /\ UrlKinds \subseteq Kinds
  /\ None \notin Contents \cup Names \cup Ingests

Writers == Uploaders \cup UrlHandlers
Places == {"top", "arch"} \X Names

VARIABLES
  top, arch,  \* the files of inbox/ and inbox/ingested/
  writer,     \* upload and URL handlers: where they are, name, body, open file
  lock,       \* serveIngestMu
  ingest,     \* the two ingests: where they are and their locals
  index,      \* what the last Run stored for each inbox concept
  used,       \* requests of clients and faults so far
  kept        \* history: names completely written while staged and not deleted since

vars == <<top, arch, writer, lock, ingest, index, used, kept>>
files == <<top, arch>>

Unlinked == <<"unlinked">>
IdleWriter == [pc |-> "idle", url |-> None, body |-> Empty, at |-> Unlinked]
\* stable is a history field: names that nobody wrote or deleted since the lock.
IdleIngest == [pc |-> "idle", todo |-> {}, got |-> {}, moving |-> None, ok |-> FALSE,
               stable |-> {}]

Init ==
  /\ top = [n \in Names |-> None] /\ arch = [n \in Names |-> None]
  /\ writer = [w \in Writers |-> IdleWriter]
  /\ lock = None
  /\ ingest = [i \in Ingests |-> IdleIngest]
  /\ index = [c \in Ids |-> None]
  /\ used = [requests |-> 0, faults |-> 0]
  /\ kept = {}

File(p) == IF p[1] = "top" THEN top[p[2]] ELSE arch[p[2]]
Open(p) == \E w \in Writers : writer[w].at = p
\* Open files follow a renamed one, and are lost with an unlinked one.
Follow(from, to) ==
  writer' = [w \in Writers |-> IF writer[w].at = from THEN [writer[w] EXCEPT !.at = to] ELSE writer[w]]
Spend(k, limit) == used[k] < limit /\ used' = [used EXCEPT ![k] = @ + 1]
\* Bookkeeping of the history field: n is not what the running ingest found.
Touched(n) == ingest' = [i \in Ingests |-> [ingest[i] EXCEPT !.stable = @ \ {n}]]
-----------------------------------------------------------------------------
(* Staging.                                                                *)

\* os.Create, also the first half of os.WriteFile: truncates the file or makes it.
Create(w, n, b) ==
  /\ top' = [top EXCEPT ![n] = Empty]
  /\ writer' = [writer EXCEPT ![w] = [@ EXCEPT !.pc = "copy", !.url = None, !.body = b, !.at = <<"top", n>>]]
  /\ kept' = kept \ {n}
  /\ Touched(n)
  /\ UNCHANGED <<arch, lock, index>>

Upload(w) ==
  /\ w \in Uploaders /\ writer[w].pc = "idle"
  /\ Spend("requests", MaxRequests)
  /\ \E n \in Uploads, b \in Bodies : Create(w, n, b)

\* io.Copy, then the file is closed and the handler replies.
Copy(w) ==
  LET p == writer[w].at
      Written(dir, here) == IF p[1] = dir THEN [here EXCEPT ![p[2]] = writer[w].body] ELSE here
  IN /\ writer[w].pc = "copy"
     /\ top' = Written("top", top)
     /\ arch' = Written("arch", arch)
     /\ kept' = IF p[1] = "top" THEN kept \cup {p[2]} ELSE kept
     /\ writer' = [writer EXCEPT ![w] = IdleWriter]
     /\ UNCHANGED <<lock, ingest, index, used>>

\* The walk of findByHash visits the files of inbox/ before those of ingested/:
\* staged names start with the URL's scheme, which sorts first.
Seen(dir, u) == \E k \in UrlKinds : dir[<<u, k>>] # None

AddURL(w) ==
  /\ w \in UrlHandlers /\ writer[w].pc = "idle"
  /\ Spend("requests", MaxRequests)
  /\ \E u \in Urls : writer' = [writer EXCEPT ![w] = [@ EXCEPT !.pc = "findTop", !.url = u]]
  /\ UNCHANGED <<files, lock, ingest, index, kept>>

FindTop(w) ==
  /\ writer[w].pc = "findTop"
  /\ writer' = [writer EXCEPT ![w] = IF Seen(top, @.url) THEN IdleWriter
                                                        ELSE [@ EXCEPT !.pc = "findArchived"]]
  /\ UNCHANGED <<files, lock, ingest, index, used, kept>>

\* Mutant: the walk does not go down into ingested/.
FindArchivedFlat(w) ==
  /\ writer[w].pc = "findArchived"
  /\ writer' = [writer EXCEPT ![w].pc = "fetch"]
  /\ UNCHANGED <<files, lock, ingest, index, used, kept>>

FindArchived(w) ==
  /\ writer[w].pc = "findArchived"
  /\ writer' = [writer EXCEPT ![w] = IF Seen(arch, @.url) THEN IdleWriter
                                                         ELSE [@ EXCEPT !.pc = "fetch"]]
  /\ UNCHANGED <<files, lock, ingest, index, used, kept>>

\* A failed fetch stages a link-only note; what is fetched is classified by its
\* content type: markdown, a PDF, or kept raw.
Fetched == {<<"text", Stub>>} \cup {<<k, Page>> : k \in UrlKinds}

Fetch(w) ==
  /\ writer[w].pc = "fetch"
  /\ \E f \in Fetched : Create(w, <<writer[w].url, f[1]>>, f[2])
  /\ UNCHANGED used

\* DELETE reaches the files of inbox/ only.
Delete ==
  /\ Spend("requests", MaxRequests)
  /\ \E n \in Names : /\ top[n] # None
                      /\ top' = [top EXCEPT ![n] = None]
                      /\ Follow(<<"top", n>>, Unlinked)
                      /\ kept' = kept \ {n}
                      /\ Touched(n)
  /\ UNCHANGED <<arch, lock, index>>
-----------------------------------------------------------------------------
(* handleIngest and runGather.                                             *)

At(i, pc) == ingest[i].pc = pc
Goto(i, pc) == ingest' = [ingest EXCEPT ![i].pc = pc]

Start(i) ==
  /\ At(i, "idle")
  /\ IF i = "handler" THEN Spend("requests", MaxRequests) ELSE UNCHANGED used
  /\ Goto(i, "lock")
  /\ UNCHANGED <<files, writer, lock, index, kept>>

Enter(i) ==
  /\ lock' = i
  /\ ingest' = [ingest EXCEPT ![i] =
       [@ EXCEPT !.pc = "walk",
                 !.stable = {n \in Names : /\ top[n] # None \/ arch[n] # None
                                           /\ ~Open(<<"top", n>>) /\ ~Open(<<"arch", n>>)}]]
  /\ UNCHANGED <<files, writer, index, used, kept>>

Lock(i) == At(i, "lock") /\ lock = None /\ Enter(i)

\* collectInboxFiles lists the files below inbox/, archived ones included.
\* Mutant: staged files only.
CollectStaged == {p \in Places : p[1] = "top" /\ File(p) # None}
collectInboxFiles == {p \in Places : File(p) # None}

Walk(i) ==
  /\ At(i, "walk")
  /\ ingest' = [ingest EXCEPT ![i] = [@ EXCEPT !.pc = "read", !.got = {}, !.todo = collectInboxFiles]]
  /\ UNCHANGED <<files, writer, lock, index, used, kept>>

\* A text that is gone cannot be read, a parsed document must also be whole.
Fails(p) == \/ KindOf(p[2]) # "attachment" /\ File(p) = None
            \/ KindOf(p[2]) = "parsed" /\ File(p) = Empty

\* Fetch: one file, classified by extension.  Any that fails fails the gather.
Taken(i, p) == [ingest[i] EXCEPT !.todo = @ \ {p},
                                 !.got = @ \cup {<<p, IF File(p) = None THEN Gone ELSE File(p)>>}]

Read(i) ==
  /\ At(i, "read")
  /\ \E p \in ingest[i].todo :
       ingest' = [ingest EXCEPT ![i] = IF Fails(p) THEN [@ EXCEPT !.pc = "unlock"] ELSE Taken(i, p)]
  /\ UNCHANGED <<files, writer, lock, index, used, kept>>

\* GatherAll refuses two concepts with one id.
Gathered(i) == At(i, "read") /\ ingest[i].todo = {}
GotAs(i, c) == {g \in ingest[i].got : IdOf(g[1][2]) = c}
Duplicates(i) == \E c \in Ids : Cardinality(GotAs(i, c)) > 1

DuplicateId(i) ==
  /\ Gathered(i) /\ Duplicates(i)
  /\ Goto(i, "unlock")
  /\ UNCHANGED <<files, writer, lock, index, used, kept>>

Snapshot(i) == [c \in Ids |-> IF GotAs(i, c) = {} THEN None
                              ELSE (CHOOSE g \in GotAs(i, c) : TRUE)[2]]

\* Runner.Run: the full snapshot replaces what was stored.
Run(i) ==
  /\ Gathered(i) /\ ~Duplicates(i)
  /\ index' = Snapshot(i)
  /\ ingest' = [ingest EXCEPT ![i] = [@ EXCEPT !.ok = TRUE, !.pc = IF i = "handler" THEN "readdir" ELSE "unlock"]]
  /\ UNCHANGED <<files, writer, lock, used, kept>>

\* newRunner, a source or Run fails: what is stored of each concept is the old
\* or the new version.
IngestFails(i) ==
  /\ At(i, "walk") \/ At(i, "read")
  /\ Spend("faults", MaxFaults)
  /\ \/ UNCHANGED index
     \/ /\ Gathered(i) /\ ~Duplicates(i)
        /\ \E done \in SUBSET Ids : index' = [c \in Ids |-> IF c \in done THEN Snapshot(i)[c] ELSE index[c]]
  /\ Goto(i, "unlock")
  /\ UNCHANGED <<files, writer, lock, kept>>

(* archiveInbox.                                                           *)
ReadDir(i) ==
  /\ At(i, "readdir")
  /\ ingest' = [ingest EXCEPT ![i] = [@ EXCEPT !.pc = "archive", !.todo = {p \in Places : p[1] = "top" /\ File(p) # None}]]
  /\ UNCHANGED <<files, writer, lock, index, used, kept>>

Archived(i) ==
  /\ At(i, "archive") /\ ingest[i].todo = {}
  /\ Goto(i, "unlock")
  /\ UNCHANGED <<files, writer, lock, index, used, kept>>

\* The next entry of the listing, about to be renamed.
Moving(i, p) == [ingest[i] EXCEPT !.pc = "rename", !.todo = @ \ {p}, !.moving = p[2]]

\* Mutant: the staged file is removed, not the archived one.
RemoveStaged(i) ==
  /\ At(i, "archive")
  /\ \E p \in ingest[i].todo :
       /\ top' = [top EXCEPT ![p[2]] = None]
       /\ ingest' = [ingest EXCEPT ![i] = Moving(i, p)]
       /\ Follow(p, Unlinked)
  /\ UNCHANGED <<arch, lock, index, used, kept>>

\* os.Remove of a prior archived copy
RemoveOld(i) ==
  /\ At(i, "archive")
  /\ \E p \in ingest[i].todo :
       /\ arch' = [arch EXCEPT ![p[2]] = None]
       /\ Follow(<<"arch", p[2]>>, Unlinked)
       /\ ingest' = [ingest EXCEPT ![i] = Moving(i, p)]
  /\ UNCHANGED <<top, lock, index, used, kept>>

\* os.Rename, which fails where a DELETE came first: the rest stays staged.
Rename(i) ==
  LET n == ingest[i].moving
  IN /\ At(i, "rename")
     /\ arch' = [arch EXCEPT ![n] = top[n]]
     /\ top' = [top EXCEPT ![n] = None]
     /\ Follow(<<"top", n>>, <<"arch", n>>)
     /\ Goto(i, IF top[n] = None THEN "unlock" ELSE "archive")
     /\ UNCHANGED <<lock, index, used, kept>>

Leave(i, l) ==
  /\ At(i, "unlock")
  /\ lock' = l
  /\ ingest' = [ingest EXCEPT ![i] = IdleIngest]
  /\ UNCHANGED <<files, writer, index, used, kept>>

\* Mutant: an error returns with the mutex held.
UnlockOnSuccess(i) == Leave(i, IF ingest[i].ok THEN None ELSE lock)
Unlock(i) == Leave(i, None)

\* The serve process is killed: files and index stay as they are.
Kill ==
  /\ Spend("faults", MaxFaults)
  /\ writer' = [w \in Writers |-> IdleWriter]
  /\ ingest' = [i \in Ingests |-> IdleIngest]
  /\ lock' = None
  /\ UNCHANGED <<files, index, kept>>

WriterStep(w) == Copy(w) \/ FindTop(w) \/ FindArchived(w) \/ Fetch(w)
ArchiveStep(i) == ReadDir(i) \/ RemoveOld(i) \/ Rename(i) \/ Archived(i)
IngestStep(i) == \/ Lock(i) \/ Walk(i) \/ Read(i) \/ DuplicateId(i) \/ Run(i)
                 \/ ArchiveStep(i) \/ Unlock(i)

Next == \/ \E w \in Writers : Upload(w) \/ AddURL(w) \/ WriterStep(w)
        \/ \E i \in Ingests : Start(i) \/ IngestStep(i) \/ IngestFails(i)
        \/ Delete \/ Kill

\* Handlers and ingests are scheduled, the mutex is handed to a waiter, and the
\* daemon's ticker goes on; clients owe nothing.
Fairness == /\ \A w \in Writers : WF_vars(WriterStep(w))
            /\ WF_vars(Start("daemon"))
            /\ \A i \in Ingests : WF_vars(IngestStep(i)) /\ SF_vars(Lock(i))

Spec == Init /\ [][Next]_vars /\ Fairness
-----------------------------------------------------------------------------
(* Properties.                                                             *)

\* The file of n, wherever it is.
Where(n) == IF top[n] # None THEN top[n] ELSE arch[n]

\* handleIngest and runGather: when an ingest has succeeded, every file that was
\* complete when it took the mutex, and that nobody wrote or deleted since, is
\* indexed with its contents, whether it was staged or archived and whatever was
\* uploaded meanwhile; and nothing is indexed for a name that has no file and had
\* none.
IngestIndexes ==
  \A i \in Ingests : At(i, "unlock") /\ ingest[i].ok =>
    \A n \in ingest[i].stable : index[IdOf(n)] = Where(n)

\* archiveInbox keeps "the files where the inbox source still gathers them": a file
\* once completely staged is staged or archived until a DELETE of its name,
\* whatever ingests, failures and kills do in between.
FileKept == \A n \in kept : Where(n) # None

\* handleURL: a link is staged at most once, whether its file is still staged,
\* archived or on its way there.
StagedOnce == \A u \in Urls : Cardinality({p \in Places : p[2] \in Urls \X UrlKinds /\ p[2][1] = u /\ File(p) # None}) <= 1

\* gatherDaemon: once clients are done, the index settles on what is staged and
\* archived, unless a document cannot be parsed or two files make one concept.
Clash == \E p, q \in Places : p # q /\ File(p) # None /\ File(q) # None /\ IdOf(p[2]) = IdOf(q[2])
Blocked == Clash \/ \E p \in Places : File(p) # None /\ Fails(p)
Current == \A c \in Ids :
  index[c] = IF \E p \in Places : File(p) # None /\ IdOf(p[2]) = c
             THEN File(CHOOSE p \in Places : File(p) # None /\ IdOf(p[2]) = c) ELSE None
Settles == <>[](Blocked \/ Current)
=============================================================================
