-------------------------------- MODULE ISPB --------------------------------
(* The registry of payment institutions (src/internal/ispb,                 *)
(* src/internal/store/postgres/ispb.go, src/cmd/pixkb/ispb.go): two files of *)
(* the central bank, the STR registry and the dated list of Pix              *)
(* participants, are downloaded, parsed and written row by row into one      *)
(* table.  Nothing serialises the commands, and none runs in a transaction.  *)
(*                                                                           *)
(* A row of a file is a record of its kind, the code as it is spelled, the   *)
(* name and the authorisation cell; legal name, CNPJ and the other columns   *)
(* travel with their record and are left out.  That a participant's name may *)
(* itself contain the letters of the ISPB column is left out too.            *)
EXTENDS Integers, Sequences, SequencesExt

CONSTANTS
  Callers,      \* processes that may run a command of `pixkb ispb`
  Codes,        \* strings of eight characters
  Digits,       \* those of them that are eight digits
  Spellings,    \* codes as the files write them
  Padded,       \* what ParseSTR and ParsePix make of a spelling
  NoCode,       \* a spelling that is blank or longer than eight
  Days,         \* 1 .. the last day
  STRFile,      \* the registry published on a day: a sequence of rows
  PixList,      \* the list of a day: active and pending rows, or NoList
  NoList, MaxDaysBack, MaxCommands,
  ParseError    \* a file that does not parse

\* The rows of a file; the cells of a data row are strings.
Title == [kind |-> "title"]
Header == [kind |-> "header"]
DataRows == [kind : {"row"}, code : Spellings, name : STRING, auth : STRING]

ASSUME RegistryAssumption ==
  /\ Days \subseteq Nat /\ 1 \in Days
  /\ STRFile \in [Days -> Seq({Title, Header} \cup DataRows)]
  /\ PixList \in [Days -> [active : Seq(DataRows), pending : Seq(DataRows)] \cup {NoList}]
  /\ Digits \subseteq Codes
  /\ NoCode \notin Codes
  /\ Padded \in [Spellings -> Codes \cup {NoCode}]
  /\ MaxDaysBack \in Nat
  /\ MaxCommands \in Nat

VARIABLES
  today,        \* the day
  staged,       \* the files `fetch` leaves for `load`
  participants, \* the table ispb_participant
  command,      \* what each caller is doing
  commands      \* how many commands were started (a bound)

ispbVars == <<today, staged, participants, command, commands>>

Sources == {"str", "pix"}

----------------------------------------------------------------------------
(* Files and records.                                                        *)

Cells(code, name, auth) ==
  [kind |-> "row", code |-> code, name |-> name, auth |-> auth]

\* The live list: a title, the active participants, then a second table that
\* states its header again and has no authorisation column.
PixFile(day) ==
  <<Title, Header>> \o PixList[day].active \o <<Header>> \o PixList[day].pending

Usable(row) ==
  row.kind = "row" /\ Padded[row.code] # NoCode /\ row.name # ""

\* The authorisation column counts as "yes" where it is missing.
Record(row) ==
  [code |-> Padded[row.code], name |-> row.name, auth |-> row.auth # "no"]

\* The k-th of a set of positions.
Nth(S, k) == CHOOSE i \in S : Cardinality({j \in S : j < i}) = k - 1

\* The records of the usable rows, in their order.
Records(rows) ==
  LET usable == {i \in DOMAIN rows : Usable(rows[i])}
  IN  [k \in 1..Cardinality(usable) |-> Record(rows[Nth(usable, k)])]

ParseSTR(file) ==
  IF Len(file) < 2 \/ file[1] # Header THEN ParseError ELSE Records(Tail(file))

\* The search for the header does not stop at the first row.
HeaderIndex(file) ==
  LET later == {i \in 2..Len(file) : file[i] = Header}
  IN  IF later = {} THEN 1 ELSE CHOOSE i \in later : \A j \in later : i <= j

\* What follows the header, up to the row that states it again.
FirstTable(rows) ==
  LET again == {i \in 1..Len(rows) : rows[i] = Header}
  IN  IF again = {} THEN rows
      ELSE SubSeq(rows, 1, (CHOOSE i \in again : \A j \in again : i <= j) - 1)

\* Mutant: the second table is read under the first one's header.
AllTables(rows) == rows

TableOf(rows) == FirstTable(rows)

ParsePix(file) ==
  LET rows == SubSeq(file, HeaderIndex(file), Len(file))
  IN  IF Len(file) < 2 \/ Len(rows) < 2 \/ rows[1] # Header THEN ParseError
      ELSE Records(TableOf(Tail(rows)))

Parse(source, file) == IF source = "str" THEN ParseSTR(file) ELSE ParsePix(file)

\* DownloadSTR gets the current registry; DownloadPix probes the dates
\* backwards, and a probe that fails for another reason is skipped as well.
Downloads(source) ==
  IF source = "str" THEN {STRFile[today]}
  ELSE {PixFile(day) : day \in {d \in Days : /\ d <= today
                                             /\ today - d <= MaxDaysBack
                                             /\ PixList[d] # NoList}}

----------------------------------------------------------------------------
(* The two upserts.  A row of the table keeps, for each source, the record   *)
(* its columns were last set from.                                           *)

\* Columns that no source has set are NULL; a row without any is no row.
NoRecord == [code |-> NoCode, name |-> "", auth |-> FALSE]
NoRow == [name |-> "", str |-> NoRecord, pix |-> NoRecord]

\* Mutant: a row that is there already keeps its registry columns.
UpsertSTRInsert(record) ==
  participants' = [participants EXCEPT ![record.code] =
    IF @ = NoRow THEN [@ EXCEPT !.name = record.name, !.str = record] ELSE @]

UpsertSTR(record) ==
  participants' = [participants EXCEPT ![record.code] =
    [name |-> record.name, str |-> record, pix |-> @.pix]]

\* Mutant: a later Pix list renames what the registry has named.
UpsertPixRenames(record) ==
  participants' = [participants EXCEPT ![record.code] =
    [name |-> record.name, str |-> @.str, pix |-> record]]

UpsertPix(record) ==
  participants' = [participants EXCEPT ![record.code] =
    [name |-> IF @.str = NoRecord THEN record.name ELSE @.name, str |-> @.str, pix |-> record]]

----------------------------------------------------------------------------
(* The commands.                                                             *)

Idle == [pc |-> "idle", source |-> "str", rows |-> <<>>, all |-> <<>>,
         both |-> FALSE, alone |-> FALSE]

ISPBInit ==
  /\ today = 1
  /\ staged = [s \in Sources |-> <<>>]
  /\ participants = [code \in Codes |-> NoRow]
  /\ command = [c \in Callers |-> Idle]
  /\ commands = 0

NextDay ==
  /\ today + 1 \in Days
  /\ today' = today + 1
  /\ UNCHANGED <<staged, participants, command, commands>>

CanStart(c) == command[c].pc \in {"idle", "done", "failed"} /\ commands < MaxCommands

\* fetch: os.WriteFile truncates first, so a failure leaves a beginning.
Fetch(c, source) ==
  /\ CanStart(c)
  /\ commands' = commands + 1
  /\ \E file \in Downloads(source) : \E k \in 0..Len(file) :
       staged' = [staged EXCEPT ![source] = SubSeq(file, 1, k)]
  /\ UNCHANGED <<today, participants, command>>

\* Parsed records are written one after another; `alone` notes that no other
\* command has written rows of the source since.
Begin(c, source, file, both) ==
  LET records == Parse(source, file)
  IN  command' = [command EXCEPT ![c] =
        IF records = ParseError
        THEN [Idle EXCEPT !.pc = "failed"]
        ELSE [pc |-> IF records = <<>> THEN "done" ELSE "upsert",
              source |-> source, rows |-> records, all |-> records,
              both |-> both, alone |-> TRUE]]

Load(c, source) ==
  /\ CanStart(c)
  /\ commands' = commands + 1
  /\ Begin(c, source, staged[source], FALSE)
  /\ UNCHANGED <<today, staged, participants>>

\* `str sync`, `pix sync`, and `sync`, which goes on to Pix after STR.
Sync(c, source, both) ==
  /\ CanStart(c)
  /\ both => source = "str"
  /\ commands' = commands + 1
  /\ \E file \in Downloads(source) : Begin(c, source, file, both)
  /\ UNCHANGED <<today, staged, participants>>

SyncPix(c) ==
  /\ command[c].pc = "done" /\ command[c].both
  /\ \E file \in Downloads("pix") : Begin(c, "pix", file, FALSE)
  /\ UNCHANGED <<today, staged, participants, commands>>

\* One row: a code that is not eight digits ends the command with an error,
\* and what was written before it stays.
UpsertRow(c) ==
  /\ command[c].pc = "upsert"
  /\ LET record == Head(command[c].rows)
         source == command[c].source
     IN  /\ record.code \in Digits
         /\ IF source = "str" THEN UpsertSTR(record) ELSE UpsertPix(record)
         /\ command' = [d \in Callers |->
              IF d = c
              THEN [command[d] EXCEPT
                      !.rows = Tail(@),
                      !.pc = IF Len(command[d].rows) = 1 THEN "done" ELSE @]
              ELSE IF command[d].source = source
                   THEN [command[d] EXCEPT !.alone = FALSE]
                   ELSE command[d]]
  /\ UNCHANGED <<today, staged, commands>>

\* A rejected code, a database error or a kill.
Fail(c) ==
  /\ command[c].pc = "upsert"
  /\ command' = [command EXCEPT ![c].pc = "failed"]
  /\ UNCHANGED <<today, staged, participants, commands>>

ISPBNext ==
  \/ NextDay
  \/ \E c \in Callers :
       \/ \E source \in Sources : Fetch(c, source) \/ Load(c, source)
       \/ \E source \in Sources, both \in BOOLEAN : Sync(c, source, both)
       \/ SyncPix(c)
       \/ UpsertRow(c)
       \/ Fail(c)

ISPBSpec == ISPBInit /\ [][ISPBNext]_ispbVars

----------------------------------------------------------------------------
(* What the registry promises.                                               *)

Column(code, source) ==
  IF source = "str" THEN participants[code].str ELSE participants[code].pix

\* Whatever the order of STR and Pix rows and the commands they come from, a
\* participant has the name of the registry record its other columns show, and
\* the Pix name only as long as the registry has not listed it
\* (UpsertPix: "once STR has synced this ISPB, its name sticks").
NameOfSTR ==
  \A code \in Codes :
    participants[code] # NoRow =>
      LET p == participants[code]
      IN  p.name = (IF p.str # NoRecord THEN p.str.name ELSE p.pix.name)

\* A command that reports success, and that no other command of the same
\* source wrote into, has left each of its participants as the last of its rows
\* says, however it interleaved with the other source (newISPBSTRLoadCmd,
\* newISPBPixLoadCmd and the sync commands).
LoadConverges ==
  \A c \in Callers :
    LET done == command[c]
    IN  done.pc = "done" /\ done.alone =>
          \A i \in 1..Len(done.all) :
            (\A j \in (i + 1)..Len(done.all) : done.all[j].code # done.all[i].code) =>
              Column(done.all[i].code, done.source) = done.all[i]

\* Only what a published list names among its active participants is ever
\* stored as a Pix participant: the pending ones, whose table has no
\* authorisation column, do not become authorised (ParsePix: "stop cleanly at
\* the boundary").
ActiveOnly ==
  \A code \in Codes :
    participants[code].pix # NoRecord =>
      \E day \in Days :
        /\ PixList[day] # NoList
        /\ participants[code].pix \in Range(Records(PixList[day].active))
=============================================================================
